-------------------------- MODULE AgentFleetProofs --------------------------
(***************************************************************************)
(* The coordinator's promises for every trigger and everything a           *)
(* specialist may answer: the incident lead gates the dispatch, the        *)
(* evidence tells the run, and a proposal rests on what is known.          *)
(***************************************************************************)
EXTENDS AgentFleet, SequenceTheorems, FiniteSetTheorems, WellFoundedInduction, TLAPS

-----------------------------------------------------------------------------
(* The invariant of a run *)

Running == pc \in {"hop", "calling", "answered"}
InFlight == IF pc \in {"calling", "answered"} THEN 1 ELSE 0

Typed ==
    /\ trigger \in Triggers
    /\ pc \in {"hop", "calling", "answered", "ended", "done"}
    /\ index \in 1..(Len(Hops) + 1)
    /\ pc \in {"calling", "answered"} => index <= Len(Hops)
    /\ invoked \in Seq(Agents)
    /\ trace \in Seq([agent : Agents, started : BOOLEAN,
                      label : CallFailures \cup {"ACCEPTED", "REJECTED"}])
    /\ started \in BOOLEAN

(* What was accepted passed its validator, at a hop before this one. *)
AcceptedAreValid ==
    \A x \in accepted :
        /\ Valid(x.agent, x.output)
        /\ \E i \in DOMAIN Hops : i < index /\ Hops[i] = x.agent

(* The specialist in flight is the last one asked. *)
LastInvoked ==
    pc \in {"calling", "answered"} =>
        Len(invoked) = Len(trace) + 1 /\ invoked[Len(invoked)] = Agent

(* Until it ends, a run has failed in nothing and has no result. *)
NothingFailed ==
    /\ Running => /\ failure = None
                  /\ \A i \in DOMAIN trace : trace[i].label = "ACCEPTED"
    /\ pc # "done" => result = None

(* As long as no specialist is left out, those asked are those of the hops. *)
NoneLeftOut ==
    /\ unauthorized # {} => Accepted(Lead) # {}
    /\ Running /\ unauthorized = {} =>
          /\ Len(invoked) = index - 1 + InFlight
          /\ \A i \in DOMAIN invoked : invoked[i] = Hops[i]
    /\ pc = "ended" /\ failure = None => unauthorized = {} /\ invoked = Hops

(* A proposal is of a run that asked and accepted everybody. *)
ProposedByAll ==
    result # None => \/ result.status = "MANUAL_REVIEW_REQUIRED"
                     \/ /\ result.status = "PROPOSED"
                        /\ unauthorized = {} /\ invoked = Hops
                        /\ Covered /\ result.candidate = Chosen

FleetInv ==
    /\ Typed /\ AcceptedAreValid /\ LastInvoked /\ NothingFailed
    /\ NoneLeftOut /\ ProposedByAll /\ LeadGatesDispatch /\ TraceTellsTheRun

-----------------------------------------------------------------------------
(* The hops of a trigger *)

LEMMA HopsFacts ==
    ASSUME trigger \in Triggers
    PROVE  /\ Hops \in Seq(Agents) /\ Len(Hops) \in Nat
           /\ DOMAIN Hops = 1..Len(Hops)
           /\ \A i, j \in DOMAIN Hops : Hops[i] = Hops[j] => i = j
           /\ Planner \in Range(Hops)
  <1>1. CASE trigger = "FLEET_FAILURE"
    <2>1. Hops = <<Lead, Planner>>
      BY <1>1 DEF Hops, SequenceFor
    <2> QED
      BY <2>1 DEF Agents, Lead, Planner, Range
  <1>2. CASE trigger = "RECALL"
    <2>1. Hops = <<Extraction, Lead, Custody, Planner>>
      BY <1>2 DEF Hops, SequenceFor
    <2>2. /\ Hops \in Seq(Agents) /\ Len(Hops) = 4 /\ DOMAIN Hops = 1..4
          /\ Hops[1] = Extraction /\ Hops[2] = Lead /\ Hops[3] = Custody
          /\ Hops[4] = Planner
      BY <2>1 DEF Agents
    <2>3. \A i, j \in DOMAIN Hops : Hops[i] = Hops[j] => i = j
      BY <2>2 DEF Extraction, Lead, Custody, Planner
    <2> QED
      BY <2>2, <2>3 DEF Range
  <1>3. CASE trigger \in {"DAILY_PLANNING", "NEXT_DAY_DRAFT"}
    <2>1. Hops = <<Planner>>
      BY <1>3 DEF Hops, SequenceFor
    <2> QED
      BY <2>1 DEF Agents, Range
  <1> QED
    BY <1>1, <1>2, <1>3 DEF Triggers, SequenceFor

LEMMA PositionOf ==
    ASSUME trigger \in Triggers, NEW i \in DOMAIN Hops
    PROVE  Position(Hops[i]) = i
  BY HopsFacts DEF Position

LEMMA Appended ==
    ASSUME NEW S, NEW s \in Seq(S), NEW e \in S
    PROVE  /\ Append(s, e) \in Seq(S) /\ Len(s) \in Nat
           /\ DOMAIN s = 1..Len(s) /\ DOMAIN Append(s, e) = 1..(Len(s) + 1)
           /\ Len(Append(s, e)) = Len(s) + 1
           /\ \A i \in 1..Len(s) : Append(s, e)[i] = s[i]
           /\ Append(s, e)[Len(s) + 1] = e
  BY LenProperties

(* Who is at the present hop has not been accepted yet. *)
LEMMA AgentIsNew ==
    ASSUME Typed, AcceptedAreValid, index <= Len(Hops)
    PROVE  /\ index \in DOMAIN Hops /\ Agent \in Agents /\ Accepted(Agent) = {}
           /\ Position(Agent) = index
  <1>1. index \in DOMAIN Hops /\ trigger \in Triggers /\ index \in Nat
    BY HopsFacts DEF Typed
  <1>2. Agent \in Agents
    BY <1>1, HopsFacts, ElementOfSeq DEF Agent, Typed
  <1>3. Accepted(Agent) = {}
    BY <1>1, HopsFacts DEF Accepted, AcceptedAreValid, Agent
  <1>4. Position(Agent) = index
    BY <1>1, PositionOf DEF Agent
  <1> QED
    BY <1>1, <1>2, <1>3, <1>4

LEMMA EntryFields ==
    ASSUME NEW a, NEW label
    PROVE  /\ Entry(a, label).agent = a /\ Entry(a, label).label = label
           /\ a \in Agents /\ started \in BOOLEAN
                 /\ label \in CallFailures \cup {"ACCEPTED", "REJECTED"}
              => Entry(a, label) \in [agent : Agents, started : BOOLEAN,
                                      label : CallFailures \cup {"ACCEPTED", "REJECTED"}]
  BY DEF Entry

-----------------------------------------------------------------------------
(* Each step preserves the invariant *)

LEMMA SkipKeeps ==
    ASSUME FleetInv, Skip
    PROVE  FleetInv'
  <1>1. Hops' = Hops
    BY DEF Skip, Hops
  <1>2. Typed'
    BY <1>1, HopsFacts DEF FleetInv, Typed, Skip
  <1>3. AcceptedAreValid'
    <2>1. ASSUME NEW a, NEW o
          PROVE  Valid(a, o)' = Valid(a, o)
      BY DEF Skip, Valid, LeadValid, ExtractionValid, CustodyValid, PlannerValid, Current
    <2> QED
      BY <1>1, <2>1, HopsFacts DEF FleetInv, Typed, Skip, AcceptedAreValid
  <1>4. LastInvoked' /\ NothingFailed' /\ TraceTellsTheRun'
    BY DEF FleetInv, Skip, LastInvoked, NothingFailed, Running, TraceTellsTheRun,
           Accepted
  <1>5. NoneLeftOut'
    BY DEF FleetInv, Skip, NoneLeftOut, Unauthorized, Accepted
  <1>6. ProposedByAll' /\ LeadGatesDispatch'
    BY <1>1 DEF FleetInv, Skip, ProposedByAll, NothingFailed, LeadGatesDispatch,
                Accepted, Position
  <1> QED
    BY <1>2, <1>3, <1>4, <1>5, <1>6 DEF FleetInv

(* Nothing a step leaves alone changes what the validators say. *)
LEMMA ValidStays ==
    ASSUME UNCHANGED trigger, NEW a, NEW o
    PROVE  Valid(a, o)' = Valid(a, o)
  BY DEF Valid, LeadValid, ExtractionValid, CustodyValid, PlannerValid, Current

LEMMA DispatchKeeps ==
    ASSUME FleetInv, Dispatch
    PROVE  FleetInv'
  <1>1. Hops' = Hops /\ Agent' = Agent /\ trigger \in Triggers
    BY DEF Dispatch, Hops, Agent, FleetInv, Typed
  <1>2. index \in DOMAIN Hops /\ Agent \in Agents
    BY AgentIsNew DEF FleetInv, Dispatch
  <1>3. /\ invoked' \in Seq(Agents) /\ Len(invoked) \in Nat
        /\ DOMAIN invoked = 1..Len(invoked)
        /\ DOMAIN invoked' = 1..(Len(invoked) + 1)
        /\ Len(invoked') = Len(invoked) + 1
        /\ \A i \in 1..Len(invoked) : invoked'[i] = invoked[i]
        /\ invoked'[Len(invoked) + 1] = Agent
    BY <1>2, Appended DEF FleetInv, Typed, Dispatch
  <1>4. Len(invoked) = Len(trace) /\ Len(trace) \in Nat /\ DOMAIN trace = 1..Len(trace)
    BY LenProperties DEF FleetInv, TraceTellsTheRun, Dispatch, Typed
  <1>5. Typed'
    BY <1>1, <1>2, <1>3 DEF FleetInv, Typed, Dispatch
  <1>6. AcceptedAreValid'
    BY <1>1, ValidStays DEF FleetInv, AcceptedAreValid, Dispatch
  <1>7. LastInvoked'
    BY <1>1, <1>3, <1>4 DEF LastInvoked, Dispatch
  <1>8. NothingFailed' /\ ProposedByAll'
    BY DEF FleetInv, NothingFailed, Running, ProposedByAll, Dispatch
  <1>9. NoneLeftOut'
    <2>1. ASSUME unauthorized = {}
          PROVE  /\ Len(invoked') = index
                 /\ \A i \in DOMAIN invoked' : invoked'[i] = Hops[i]
      <3>1. index \in Nat /\ Len(invoked) = index - 1
        BY <2>1 DEF FleetInv, Typed, NoneLeftOut, Running, InFlight, Dispatch
      <3>2. \A i \in DOMAIN invoked : invoked[i] = Hops[i]
        BY <2>1 DEF FleetInv, NoneLeftOut, Running, Dispatch
      <3> QED
        BY <3>1, <3>2, <1>3 DEF Agent
    <2> QED
      BY <1>1, <2>1 DEF FleetInv, Typed, NoneLeftOut, InFlight, Accepted, Dispatch
  <1>10. LeadGatesDispatch'
    BY <1>1, <1>3 DEF FleetInv, LeadGatesDispatch, NothingFailed, Accepted, Position,
                      Unauthorized, Dispatch
  <1>11. TraceTellsTheRun'
    BY <1>3, <1>4 DEF FleetInv, TraceTellsTheRun, NothingFailed, Accepted, Dispatch
  <1> QED
    BY <1>5, <1>6, <1>7, <1>8, <1>9, <1>10, <1>11 DEF FleetInv

LEMMA CallKeeps ==
    ASSUME FleetInv, Begin \/ \E a \in Agents : \E o \in Outputs[a] : Answer(o)
    PROVE  FleetInv'
  <1>1. /\ pc = "calling" /\ pc' \in {"calling", "answered"} /\ started' \in BOOLEAN
        /\ UNCHANGED <<trigger, index, accepted, invoked, unauthorized, trace,
                       failure, result>>
    BY DEF Begin, Answer, FleetInv, Typed
  <1>2. Hops' = Hops /\ Agent' = Agent
    BY <1>1 DEF Hops, Agent
  <1>3. Typed'
    BY <1>1, <1>2 DEF FleetInv, Typed
  <1>4. AcceptedAreValid'
    BY <1>1, <1>2, ValidStays DEF FleetInv, AcceptedAreValid
  <1>5. LastInvoked' /\ NothingFailed' /\ TraceTellsTheRun'
    BY <1>1, <1>2 DEF FleetInv, LastInvoked, NothingFailed, Running, TraceTellsTheRun,
                      Accepted
  <1>6. NoneLeftOut'
    BY <1>1, <1>2 DEF FleetInv, NoneLeftOut, Running, InFlight, Accepted
  <1>7. ProposedByAll' /\ LeadGatesDispatch'
    BY <1>1, <1>2 DEF FleetInv, ProposedByAll, NothingFailed, LeadGatesDispatch,
                      Accepted, Position
  <1> QED
    BY <1>3, <1>4, <1>5, <1>6, <1>7 DEF FleetInv

(* The specialist in flight was asked last, and its entry is the next one. *)
LEMMA InFlightFacts ==
    ASSUME FleetInv, pc \in {"calling", "answered"}
    PROVE  /\ index \in DOMAIN Hops /\ Agent \in Agents /\ Accepted(Agent) = {}
           /\ Position(Agent) = index
           /\ Len(trace) \in Nat /\ DOMAIN trace = 1..Len(trace)
           /\ DOMAIN invoked = 1..(Len(trace) + 1) /\ Len(invoked) = Len(trace) + 1
           /\ invoked[Len(trace) + 1] = Agent
           /\ failure = None /\ \A i \in DOMAIN trace : trace[i].label = "ACCEPTED"
           /\ result = None
  <1>1. /\ index \in DOMAIN Hops /\ Agent \in Agents /\ Accepted(Agent) = {}
        /\ Position(Agent) = index
    BY AgentIsNew DEF FleetInv, Typed
  <1>2. /\ Len(trace) \in Nat /\ DOMAIN trace = 1..Len(trace)
        /\ DOMAIN invoked = 1..Len(invoked)
    BY LenProperties DEF FleetInv, Typed
  <1>3. Len(invoked) = Len(trace) + 1 /\ invoked[Len(invoked)] = Agent
    BY DEF FleetInv, LastInvoked
  <1>4. /\ failure = None /\ \A i \in DOMAIN trace : trace[i].label = "ACCEPTED"
        /\ result = None
    BY DEF FleetInv, NothingFailed, Running
  <1> QED
    BY <1>1, <1>2, <1>3, <1>4

LEMMA EntryAppended ==
    ASSUME FleetInv, pc \in {"calling", "answered"},
           NEW label \in CallFailures \cup {"ACCEPTED", "REJECTED"},
           trace' = Append(trace, Entry(Agent, label))
    PROVE  /\ trace' \in Seq([agent : Agents, started : BOOLEAN,
                              label : CallFailures \cup {"ACCEPTED", "REJECTED"}])
           /\ DOMAIN trace' = 1..(Len(trace) + 1) /\ Len(trace') = Len(trace) + 1
           /\ \A i \in 1..Len(trace) : trace'[i] = trace[i]
           /\ trace'[Len(trace) + 1].agent = Agent
           /\ trace'[Len(trace) + 1].label = label
  <1>1. /\ Entry(Agent, label).agent = Agent /\ Entry(Agent, label).label = label
        /\ Entry(Agent, label) \in [agent : Agents, started : BOOLEAN,
                                    label : CallFailures \cup {"ACCEPTED", "REJECTED"}]
    BY InFlightFacts, EntryFields DEF FleetInv, Typed
  <1> QED
    BY <1>1, Appended DEF FleetInv, Typed

LEMMA FailsKeeps ==
    ASSUME FleetInv, pc \in {"calling", "answered"},
           NEW reason \in CallFailures \cup {"REJECTED"}, Fails(reason),
           UNCHANGED <<trigger, index, started, accepted, invoked, unauthorized, result>>
    PROVE  FleetInv'
  <1>1. pc' = "ended" /\ failure' = reason /\ trace' = Append(trace, Entry(Agent, reason))
    BY DEF Fails
  <1>2. reason # None /\ reason # "ACCEPTED"
    BY FleetConstants, ReasonsAreStrings DEF CallFailures, RunErrors
  <1>3. /\ trace' \in Seq([agent : Agents, started : BOOLEAN,
                           label : CallFailures \cup {"ACCEPTED", "REJECTED"}])
        /\ DOMAIN trace' = 1..(Len(trace) + 1) /\ Len(trace') = Len(trace) + 1
        /\ \A i \in 1..Len(trace) : trace'[i] = trace[i]
        /\ trace'[Len(trace) + 1].agent = Agent
        /\ trace'[Len(trace) + 1].label = reason
    BY <1>1, EntryAppended
  <1>4. Hops' = Hops /\ \A a : Accepted(a)' = Accepted(a)
    BY DEF Hops, Accepted
  <1>5. Typed'
    BY <1>1, <1>3, <1>4 DEF FleetInv, Typed
  <1>6. AcceptedAreValid'
    BY <1>4, ValidStays DEF FleetInv, AcceptedAreValid
  <1>7. LastInvoked' /\ NothingFailed' /\ ProposedByAll'
    BY <1>1, InFlightFacts DEF LastInvoked, NothingFailed, Running, ProposedByAll
  <1>8. NoneLeftOut'
    BY <1>1, <1>2, <1>4 DEF FleetInv, NoneLeftOut, Running
  <1>9. LeadGatesDispatch'
    BY <1>4, InFlightFacts DEF FleetInv, LeadGatesDispatch, Position
  <1>10. TraceTellsTheRun'
    <2>1. ASSUME NEW i \in DOMAIN trace'
          PROVE  /\ trace'[i].agent = invoked[i]
                 /\ trace'[i].label = "ACCEPTED" <=> Accepted(trace'[i].agent) # {}
                 /\ trace'[i].label # "ACCEPTED" =>
                       i = Len(trace') /\ failure' = trace'[i].label
      <3>1. CASE i = Len(trace) + 1
        BY <3>1, <1>1, <1>2, <1>3, InFlightFacts
      <3>2. CASE i \in 1..Len(trace)
        <4>1. /\ trace'[i].label = "ACCEPTED" /\ trace'[i].agent = invoked[i]
              /\ Accepted(trace'[i].agent) # {}
          BY <3>2, <1>3, InFlightFacts DEF FleetInv, TraceTellsTheRun
        <4> QED
          BY <4>1
      <3> QED
        BY <3>1, <3>2, <1>3, InFlightFacts
    <2>2. pc' # "done" =>
             Len(invoked') = Len(trace')
                             + (IF pc' \in {"calling", "answered"} THEN 1 ELSE 0)
      BY <1>1, <1>3, InFlightFacts
    <2>3. result' = None
      BY InFlightFacts
    <2>4. \A a : Accepted(a)' = Accepted(a)
      BY <1>4
    <2> QED
      BY <2>1, <2>2, <2>3, <2>4 DEF TraceTellsTheRun
  <1> QED
    BY <1>5, <1>6, <1>7, <1>8, <1>9, <1>10 DEF FleetInv

LEMMA AcceptKeeps ==
    ASSUME FleetInv, Accept
    PROVE  FleetInv'
  <1> DEFINE new == [agent |-> Agent, output |-> output]
  <1>1. /\ pc = "answered" /\ pc' = "hop" /\ index' = index + 1
        /\ accepted' = accepted \cup {new}
        /\ trace' = Append(trace, Entry(Agent, "ACCEPTED"))
        /\ UNCHANGED <<trigger, started, invoked, unauthorized, failure, result>>
    BY DEF Accept
  <1>2. new.agent = Agent /\ Valid(new.agent, new.output)
    BY DEF Accept
  <1> HIDE DEF new
  <1>3. /\ trace' \in Seq([agent : Agents, started : BOOLEAN,
                           label : CallFailures \cup {"ACCEPTED", "REJECTED"}])
        /\ DOMAIN trace' = 1..(Len(trace) + 1) /\ Len(trace') = Len(trace) + 1
        /\ \A i \in 1..Len(trace) : trace'[i] = trace[i]
        /\ trace'[Len(trace) + 1].agent = Agent
        /\ trace'[Len(trace) + 1].label = "ACCEPTED"
    BY <1>1, EntryAppended
  <1>4. /\ Hops' = Hops /\ \A a : Position(a)' = Position(a)
        /\ index \in Nat /\ Len(Hops) \in Nat /\ DOMAIN Hops = 1..Len(Hops)
        /\ index \in DOMAIN Hops
    BY <1>1, HopsFacts, InFlightFacts DEF Hops, Position, FleetInv, Typed
  <1>5. /\ \A a : Accepted(a) \subseteq Accepted(a)'
        /\ \A a : a # Agent => Accepted(a)' = Accepted(a)
        /\ \A a : a = Agent => Accepted(a)' = {new}
    BY <1>1, <1>2, InFlightFacts DEF Accepted
  <1>6. Typed'
    BY <1>1, <1>3, <1>4 DEF FleetInv, Typed
  <1>7. AcceptedAreValid'
    <2>1. ASSUME NEW x \in accepted
          PROVE  \E i \in DOMAIN Hops : i < index' /\ Hops[i] = x.agent
      BY <1>1, <1>4 DEF FleetInv, AcceptedAreValid
    <2>2. \E i \in DOMAIN Hops : i < index' /\ Hops[i] = new.agent
      BY <1>1, <1>2, <1>4 DEF Agent
    <2>3. \A x \in accepted' : Valid(x.agent, x.output)
      BY <1>1, <1>2 DEF FleetInv, AcceptedAreValid
    <2>4. \A x \in accepted' : Valid(x.agent, x.output)'
      BY <2>3, <1>1, ValidStays
    <2> QED
      BY <1>1, <1>4, <2>1, <2>2, <2>4 DEF AcceptedAreValid
  <1>8. LastInvoked' /\ NothingFailed' /\ ProposedByAll'
    <2>1. \A i \in DOMAIN trace' : trace'[i].label = "ACCEPTED"
      BY <1>1, <1>3, InFlightFacts
    <2> QED
      BY <1>1, <2>1, InFlightFacts DEF LastInvoked, NothingFailed, Running, ProposedByAll
  <1>9. NoneLeftOut'
    BY <1>1, <1>4, <1>5 DEF FleetInv, NoneLeftOut, Running, InFlight
  <1>10. LeadGatesDispatch'
    <2>1. CASE Agent = Lead
      <3>1. unauthorized = {}
        BY <2>1, <1>1, InFlightFacts DEF FleetInv, NoneLeftOut
      <3>2. Len(invoked) = index /\ DOMAIN invoked = 1..index
        BY <3>1, <1>1, <1>4, InFlightFacts DEF FleetInv, NoneLeftOut, Running, InFlight
      <3>3. Position(Lead) = index
        BY <2>1, <1>1, InFlightFacts
      <3>4. \A i \in DOMAIN invoked : ~(i > Position(Lead))
        BY <3>2, <3>3, <1>4
      <3>5. DOMAIN invoked' = DOMAIN invoked /\ Position(Lead)' = Position(Lead)
        BY <1>1, <1>4
      <3> QED
        BY <3>1, <3>4, <3>5, <1>1 DEF LeadGatesDispatch
    <2>2. CASE Agent # Lead
      BY <2>2, <1>1, <1>4, <1>5 DEF FleetInv, LeadGatesDispatch
    <2> QED
      BY <2>1, <2>2
  <1>11. TraceTellsTheRun'
    <2>1. ASSUME NEW i \in DOMAIN trace'
          PROVE  /\ trace'[i].agent = invoked[i] /\ trace'[i].label = "ACCEPTED"
                 /\ \E a : a = trace'[i].agent /\ Accepted(a)' # {}
      <3>1. CASE i = Len(trace) + 1
        BY <3>1, <1>1, <1>3, <1>5, InFlightFacts
      <3>2. CASE i \in 1..Len(trace)
        <4>1. /\ trace'[i].label = "ACCEPTED" /\ trace'[i].agent = invoked[i]
              /\ \E a : a = trace'[i].agent /\ Accepted(a) # {}
          BY <3>2, <1>1, <1>3, InFlightFacts DEF FleetInv, TraceTellsTheRun
        <4>2. PICK a : a = trace'[i].agent /\ Accepted(a) # {}
          BY <4>1
        <4>3. Accepted(a)' # {}
          BY <4>2, <1>5
        <4> QED
          BY <4>1, <4>2, <4>3
      <3>3. i = Len(trace) + 1 \/ i \in 1..Len(trace)
        BY <1>1, <1>3, InFlightFacts
      <3> QED
        BY <3>1, <3>2, <3>3
    <2> QED
      BY <2>1, <1>1, <1>3, InFlightFacts DEF TraceTellsTheRun
  <1> QED
    BY <1>6, <1>7, <1>8, <1>9, <1>10, <1>11 DEF FleetInv

LEMMA CloseKeeps ==
    ASSUME FleetInv, Close
    PROVE  FleetInv'
  <1>1. /\ pc = "hop" /\ pc' = "ended" /\ index > Len(Hops)
        /\ failure' = IF unauthorized = {} THEN None
                      ELSE "PLAYBOOK_DID_NOT_AUTHORIZE_SEQUENCE"
        /\ UNCHANGED <<trigger, index, started, output, accepted, invoked,
                       unauthorized, trace, result>>
    BY DEF Close
  <1>2. Hops' = Hops /\ Running /\ InFlight = 0
    BY <1>1 DEF Hops, Running, InFlight
  <1>3. Typed'
    BY <1>1, <1>2 DEF FleetInv, Typed
  <1>4. AcceptedAreValid'
    BY <1>1, <1>2, ValidStays DEF FleetInv, AcceptedAreValid
  <1>5. LastInvoked' /\ NothingFailed' /\ ProposedByAll' /\ TraceTellsTheRun'
    BY <1>1, <1>2 DEF FleetInv, LastInvoked, NothingFailed, Running, ProposedByAll,
                      TraceTellsTheRun, Accepted
  <1>6. NoneLeftOut'
    <2>1. ASSUME failure' = None
          PROVE  unauthorized = {} /\ invoked = Hops
      <3>1. unauthorized = {}
        BY <2>1, <1>1, FleetConstants, ReasonsAreStrings
      <3>2. /\ Len(invoked) = index - 1
            /\ \A i \in DOMAIN invoked : invoked[i] = Hops[i]
        BY <3>1, <1>2, LenProperties DEF FleetInv, NoneLeftOut, Typed
      <3>3. /\ invoked \in Seq(Agents) /\ Hops \in Seq(Agents)
            /\ Len(invoked) = Len(Hops)
        BY <3>2, <1>1, HopsFacts DEF FleetInv, Typed
      <3>4. invoked = Hops
        BY <3>2, <3>3, SeqEqual, LenProperties
      <3> QED
        BY <3>1, <3>4
    <2> QED
      BY <1>1, <1>2, <2>1 DEF FleetInv, NoneLeftOut, Running, Accepted
  <1>7. LeadGatesDispatch'
    BY <1>1, <1>2 DEF FleetInv, LeadGatesDispatch, Accepted, Position
  <1> QED
    BY <1>3, <1>4, <1>5, <1>6, <1>7 DEF FleetInv

(* What a run ends with: its own outcome, or nothing but a reason. *)
LEMMA EndKeeps ==
    ASSUME FleetInv, Assemble \/ Abort
    PROVE  FleetInv'
  <1>1. /\ pc' = "done"
        /\ UNCHANGED <<trigger, index, started, output, accepted, invoked,
                       unauthorized, trace, failure>>
    BY DEF Assemble, Abort
  <1>2. Hops' = Hops /\ Covered' = Covered /\ Chosen' = Chosen
    BY <1>1 DEF Hops, Covered, Chosen, Accepted
  <1>3. \/ /\ result'.status = "MANUAL_REVIEW_REQUIRED"
           /\ result'.trace \in {trace, <<>>}
        \/ /\ pc = "ended" /\ failure = None /\ Covered
           /\ result'.status = "PROPOSED" /\ result'.candidate = Chosen
           /\ result'.trace = trace
    <2>1. CASE Assemble
      BY <2>1 DEF Assemble, Failed
    <2>2. CASE Abort
      BY <2>2 DEF Abort, Failed
    <2> QED
      BY <2>1, <2>2
  <1>4. failure = None /\ pc = "ended" => unauthorized = {} /\ invoked = Hops
    BY DEF FleetInv, NoneLeftOut
  <1>5. Typed'
    BY <1>1, <1>2 DEF FleetInv, Typed
  <1>6. AcceptedAreValid'
    BY <1>1, <1>2, ValidStays DEF FleetInv, AcceptedAreValid
  <1>7. LastInvoked' /\ NothingFailed'
    BY <1>1 DEF LastInvoked, NothingFailed, Running
  <1>8. NoneLeftOut'
    BY <1>1 DEF FleetInv, NoneLeftOut, Running, Accepted
  <1>9. ProposedByAll'
    BY <1>1, <1>2, <1>3, <1>4 DEF ProposedByAll
  <1>10. LeadGatesDispatch'
    BY <1>1, <1>2, <1>3, <1>4 DEF FleetInv, LeadGatesDispatch, Accepted, Position
  <1>11. TraceTellsTheRun'
    BY <1>1, <1>3 DEF FleetInv, TraceTellsTheRun, Accepted
  <1> QED
    BY <1>5, <1>6, <1>7, <1>8, <1>9, <1>10, <1>11 DEF FleetInv

LEMMA RunStarts == Init => FleetInv
  <1> SUFFICES ASSUME Init
               PROVE  FleetInv
    OBVIOUS
  <1>1. /\ trigger \in Triggers /\ pc = "hop" /\ index = 1 /\ started = FALSE
        /\ accepted = {} /\ invoked = <<>> /\ unauthorized = {} /\ trace = <<>>
        /\ failure = None /\ result = None
    BY DEF Init
  <1>2. Len(Hops) \in Nat
    BY <1>1, HopsFacts
  <1>3. Typed
    <2>1. \A S : <<>> \in Seq(S)
      BY EmptySeq
    <2>2. index \in 1..(Len(Hops) + 1)
      BY <1>1, <1>2
    <2> QED
      BY <1>1, <2>1, <2>2, Zenon DEF Typed
  <1>4. AcceptedAreValid /\ LastInvoked /\ NothingFailed /\ NoneLeftOut
    BY <1>1 DEF AcceptedAreValid, LastInvoked, NothingFailed, NoneLeftOut, Running,
                InFlight
  <1>5. ProposedByAll /\ LeadGatesDispatch /\ TraceTellsTheRun
    BY <1>1 DEF ProposedByAll, LeadGatesDispatch, TraceTellsTheRun, Accepted
  <1> QED
    BY <1>3, <1>4, <1>5 DEF FleetInv

LEMMA StepKeeps == FleetInv /\ [Next]_vars => FleetInv'
  <1> SUFFICES ASSUME FleetInv, [Next]_vars
               PROVE  FleetInv'
    OBVIOUS
  <1>1. CASE Skip
    BY <1>1, SkipKeeps
  <1>2. CASE Dispatch
    BY <1>2, DispatchKeeps
  <1>3. CASE Begin
    BY <1>3, CallKeeps
  <1>4. CASE pc = "calling" /\ \E o \in Outputs[Agent] : Answer(o)
    <2>1. Agent \in Agents
      BY <1>4, InFlightFacts
    <2> QED
      BY <1>4, <2>1, CallKeeps
  <1>5. ASSUME NEW reason \in CallFailures, CallFails(reason)
        PROVE  FleetInv'
    BY <1>5, FailsKeeps DEF CallFails
  <1>6. CASE Accept
    BY <1>6, AcceptKeeps
  <1>7. CASE Reject
    BY <1>7, FailsKeeps DEF Reject
  <1>8. CASE Close
    BY <1>8, CloseKeeps
  <1>9. CASE Assemble \/ Abort
    BY <1>9, EndKeeps
  <1>10. CASE UNCHANGED vars
    <2>1. Hops' = Hops /\ Agent' = Agent
      BY <1>10 DEF vars, Hops, Agent
    <2>2. Typed'
      BY <1>10, <2>1 DEF vars, FleetInv, Typed
    <2>3. AcceptedAreValid'
      BY <1>10, <2>1, ValidStays DEF vars, FleetInv, AcceptedAreValid
    <2>4. LastInvoked' /\ NothingFailed' /\ TraceTellsTheRun'
      BY <1>10, <2>1 DEF vars, FleetInv, LastInvoked, NothingFailed, Running,
                         TraceTellsTheRun, Accepted
    <2>5. NoneLeftOut'
      BY <1>10, <2>1 DEF vars, FleetInv, NoneLeftOut, Running, InFlight, Accepted
    <2>6. ProposedByAll' /\ LeadGatesDispatch'
      BY <1>10, <2>1 DEF vars, FleetInv, ProposedByAll, Covered, Chosen, Accepted,
                         LeadGatesDispatch, Position
    <2> QED
      BY <2>2, <2>3, <2>4, <2>5, <2>6 DEF FleetInv
  <1> QED
    BY <1>1, <1>2, <1>3, <1>4, <1>5, <1>6, <1>7, <1>8, <1>9, <1>10
    DEF Next, Proceed, CallEnds

LEMMA RunInvariant == Spec => []FleetInv
  BY RunStarts, StepKeeps, PTL DEF Spec

-----------------------------------------------------------------------------
(* What holds at every moment of every run *)

(* A specialist the accepted playbook of the lead did not ask for is never     *)
(* invoked, and a run that left one out proposes nothing (fleet/coordinator.py,*)
(* _run_async_impl).                                                           *)
THEOREM LeadGates == Spec => []LeadGatesDispatch
  BY RunInvariant, PTL DEF FleetInv

(* The evidence has an entry for each specialist that was asked, failures      *)
(* last, and acceptances exactly for what the validators accepted.             *)
THEOREM EvidenceTellsTheRun == Spec => []TraceTellsTheRun
  BY RunInvariant, PTL DEF FleetInv

-----------------------------------------------------------------------------
(* Sums over the nodes of a graph.  The library's induction over finite sets    *)
(* takes an operator as its parameter; a smallest counterexample takes none.   *)

LEMMA SmallestSet ==
    ASSUME NEW S, IsFiniteSet(S), NEW Bad \in SUBSET SUBSET S, Bad # {}
    PROVE  \E T \in Bad : \A U \in Bad : U \subseteq T => U = T
  <1>1. IsWellFoundedOn(StrictSubsetOrdering(S), SUBSET S)
    BY FS_StrictSubsetOrderingWellFounded, FS_FiniteSubsetsOfFinite
  <1>2. PICK T \in Bad : \A U \in Bad : ~ (<<U, T>> \in StrictSubsetOrdering(S))
    BY <1>1, WFMin
  <1>3. \A U \in Bad : U \subseteq T => U = T
    BY <1>2 DEF StrictSubsetOrdering
  <1> QED
    BY <1>3

(* The function that the fold over the subsets of S is. *)
Picked(T) == CHOOSE x \in T : TRUE
Sums(A, S) ==
    A = [T \in SUBSET S |->
           IF T = {} THEN 0 ELSE Graph.positions[Picked(T)] + A[T \ {Picked(T)}]]

LEMMA SumsAt ==
    ASSUME NEW S, NEW A, Sums(A, S), NEW T \in SUBSET S
    PROVE  /\ T = {} => A[T] = 0
           /\ T # {} => /\ Picked(T) \in T /\ T \ {Picked(T)} \in SUBSET S
                        /\ A[T] = Graph.positions[Picked(T)] + A[T \ {Picked(T)}]
  <1>1. A[T] = IF T = {} THEN 0 ELSE Graph.positions[Picked(T)] + A[T \ {Picked(T)}]
    BY DEF Sums
  <1>2. T # {} => Picked(T) \in T
    BY DEF Picked
  <1> QED
    BY <1>1, <1>2

LEMMA SumsAgree ==
    ASSUME NEW S, IsFiniteSet(S), NEW A, NEW B, NEW T \in SUBSET S, NEW U \in SUBSET S,
           Sums(A, T), Sums(B, U), NEW V \in SUBSET (T \cap U)
    PROVE  A[V] = B[V]
  <1> DEFINE Bad == {W \in SUBSET (T \cap U) : A[W] # B[W]}
  <1> SUFFICES ASSUME Bad # {}
               PROVE  FALSE
    OBVIOUS
  <1>1. IsFiniteSet(T \cap U)
    BY FS_Subset
  <1>0. Bad \in SUBSET SUBSET (T \cap U)
    OBVIOUS
  <1> HIDE DEF Bad
  <1>2. PICK W \in Bad : \A X \in Bad : X \subseteq W => X = W
    BY <1>0, <1>1, SmallestSet
  <1>3. W \in SUBSET T /\ W \in SUBSET U /\ A[W] # B[W]
    BY DEF Bad
  <1>4. W # {}
    BY <1>3, SumsAt
  <1>5. /\ Picked(W) \in W
        /\ A[W] = Graph.positions[Picked(W)] + A[W \ {Picked(W)}]
        /\ B[W] = Graph.positions[Picked(W)] + B[W \ {Picked(W)}]
    BY <1>3, <1>4, SumsAt
  <1>6. W \ {Picked(W)} \notin Bad
    BY <1>2, <1>5
  <1>7. W \ {Picked(W)} \in SUBSET (T \cap U)
    BY <1>3
  <1> QED
    BY <1>3, <1>5, <1>6, <1>7 DEF Bad

LEMMA SumsExist ==
    ASSUME NEW S, IsFiniteSet(S)
    PROVE  \E A : Sums(A, S)
  <1> DEFINE Bad == {T \in SUBSET S : ~ \E A : Sums(A, T)}
  <1> SUFFICES ASSUME Bad # {}
               PROVE  FALSE
    OBVIOUS
  <1>0. Bad \in SUBSET SUBSET S
    OBVIOUS
  <1> HIDE DEF Bad
  <1>1. PICK T \in Bad : \A U \in Bad : U \subseteq T => U = T
    BY <1>0, SmallestSet
  <1> DEFINE Of(U) == CHOOSE A : Sums(A, U)
             Rest(U) == U \ {Picked(U)}
             G == [U \in SUBSET T |->
                     IF U = {} THEN 0 ELSE Graph.positions[Picked(U)] + Of(Rest(U))[Rest(U)]]
  <1>2. \A U \in SUBSET T : U # T => Sums(Of(U), U)
    BY <1>0, <1>1 DEF Bad
  <1>3. \A U \in SUBSET T : U # {} => Rest(U) \in SUBSET T /\ Rest(U) # T /\ Rest(U) # U
    BY DEF Picked
  <1>4. T \in SUBSET S
    BY <1>0
  <1>5. \A U \in SUBSET T : G[U] = IF U = {} THEN 0
                                   ELSE Graph.positions[Picked(U)] + Of(Rest(U))[Rest(U)]
    OBVIOUS
  <1> HIDE DEF Of, Rest, G
  <1>6. ASSUME NEW V \in SUBSET T, V # T
        PROVE  Of(V)[V] = G[V]
    <2>1. CASE V = {}
      BY <1>2, <1>5, <1>6, <2>1, SumsAt
    <2>2. CASE V # {}
      <3>1. Sums(Of(V), V)
        BY <1>2, <1>6
      <3>2. Of(V)[V] = Graph.positions[Picked(V)] + Of(V)[Rest(V)]
        BY <2>2, <3>1, SumsAt DEF Rest
      <3>3. Rest(V) \in SUBSET T /\ Rest(V) # T /\ Rest(V) \in SUBSET V
        BY <1>3, <2>2 DEF Rest
      <3>4. Sums(Of(Rest(V)), Rest(V))
        BY <1>2, <3>3
      <3>5. Of(V)[Rest(V)] = Of(Rest(V))[Rest(V)]
        <4>1. V \in SUBSET S /\ Rest(V) \in SUBSET S /\ Rest(V) \in SUBSET (V \cap Rest(V))
          BY <1>4, <3>3
        <4> QED
          BY <3>1, <3>4, <4>1, SumsAgree
      <3> QED
        BY <1>5, <2>2, <3>2, <3>5
    <2> QED
      BY <2>1, <2>2
  <1>7. G = [U \in SUBSET T |-> IF U = {} THEN 0 ELSE Graph.positions[Picked(U)] + G[Rest(U)]]
    <2>1. \A U \in SUBSET T :
            G[U] = IF U = {} THEN 0 ELSE Graph.positions[Picked(U)] + G[Rest(U)]
      BY <1>3, <1>5, <1>6
    <2>2. G = [U \in SUBSET T |-> G[U]]
      BY DEF G
    <2> QED
      BY <2>1, <2>2
  <1>8. Sums(G, T)
    BY <1>7 DEF Sums, Rest
  <1> QED
    BY <1>1, <1>8 DEF Bad

Counted(nodes) == IsFiniteSet(nodes) /\ \A n \in nodes : Graph.positions[n] \in Nat

LEMMA CasesAtIs ==
    ASSUME NEW S, IsFiniteSet(S)
    PROVE  \E A : Sums(A, S) /\ \A T \in SUBSET S : CasesAt(T) = A[T]
  <1>1. PICK A : Sums(A, S)
    BY SumsExist
  <1>2. ASSUME NEW T \in SUBSET S
        PROVE  CasesAt(T) = A[T]
    <2> DEFINE B == CHOOSE B : Sums(B, T)
    <2>1. CasesAt(T) = B[T]
      BY DEF CasesAt, FoldFunctionOnSet, MapThenFoldSet, Sums, Picked
    <2>2. IsFiniteSet(T)
      BY FS_Subset
    <2>3. Sums(B, T)
      BY <2>2, SumsExist
    <2>4. A[T] = B[T]
      BY <1>1, <2>3, SumsAgree
    <2> QED
      BY <2>1, <2>4
  <1> QED
    BY <1>1, <1>2

LEMMA CasesAtOnePicked ==
    ASSUME NEW S, IsFiniteSet(S)
    PROVE  /\ S = {} => CasesAt(S) = 0
           /\ S # {} => /\ Picked(S) \in S
                        /\ CasesAt(S) = Graph.positions[Picked(S)] + CasesAt(S \ {Picked(S)})
  <1>1. PICK A : Sums(A, S) /\ \A T \in SUBSET S : CasesAt(T) = A[T]
    BY CasesAtIs
  <1>2. CasesAt(S) = A[S]
    BY <1>1
  <1>3. S = {} => A[S] = 0
    BY <1>1, SumsAt
  <1>4. ASSUME S # {}
        PROVE  /\ Picked(S) \in S /\ S \ {Picked(S)} \in SUBSET S
               /\ A[S] = Graph.positions[Picked(S)] + A[S \ {Picked(S)}]
    BY <1>1, <1>4, SumsAt
  <1>5. S # {} => CasesAt(S \ {Picked(S)}) = A[S \ {Picked(S)}]
    BY <1>1, <1>4
  <1> QED
    BY <1>2, <1>3, <1>4, <1>5

(* A sum of cases is a number, and one term less for one node less. *)
LEMMA CasesAtNat ==
    ASSUME NEW S, Counted(S)
    PROVE  CasesAt(S) \in Nat
  <1> DEFINE Bad == {T \in SUBSET S : CasesAt(T) \notin Nat}
  <1> SUFFICES ASSUME Bad # {}
               PROVE  FALSE
    OBVIOUS
  <1>0. Bad \in SUBSET SUBSET S
    OBVIOUS
  <1> HIDE DEF Bad
  <1>1. PICK T \in Bad : \A U \in Bad : U \subseteq T => U = T
    BY <1>0, SmallestSet DEF Counted
  <1>2. IsFiniteSet(T) /\ T \subseteq S /\ CasesAt(T) \notin Nat
    BY <1>0, FS_Subset DEF Counted, Bad
  <1>3. T # {}
    <2>1. T = {} => CasesAt(T) = 0
      BY <1>2, CasesAtOnePicked
    <2> QED
      BY <1>2, <2>1
  <1>4. Picked(T) \in T /\ CasesAt(T) = Graph.positions[Picked(T)] + CasesAt(T \ {Picked(T)})
    BY <1>2, <1>3, CasesAtOnePicked
  <1>5. T \ {Picked(T)} \notin Bad /\ T \ {Picked(T)} \in SUBSET S
    BY <1>1, <1>2, <1>4
  <1>6. Graph.positions[Picked(T)] \in Nat /\ CasesAt(T \ {Picked(T)}) \in Nat
    BY <1>2, <1>4, <1>5 DEF Counted, Bad
  <1> QED
    BY <1>2, <1>4, <1>6

LEMMA CasesAtWithout ==
    ASSUME NEW S, Counted(S), NEW x \in S
    PROVE  CasesAt(S) = Graph.positions[x] + CasesAt(S \ {x})
  <1> DEFINE Bad == {T \in SUBSET S :
                       \E y \in T : CasesAt(T) # Graph.positions[y] + CasesAt(T \ {y})}
  <1> SUFFICES ASSUME Bad # {}
               PROVE  FALSE
    OBVIOUS
  <1>0. Bad \in SUBSET SUBSET S
    OBVIOUS
  <1> HIDE DEF Bad
  <1>1. PICK T \in Bad : \A U \in Bad : U \subseteq T => U = T
    BY <1>0, SmallestSet DEF Counted
  <1>2. PICK y \in T : CasesAt(T) # Graph.positions[y] + CasesAt(T \ {y})
    BY <1>1 DEF Bad
  <1>3. IsFiniteSet(T) /\ T \subseteq S /\ T # {}
    BY <1>0, <1>2, FS_Subset DEF Counted
  <1>4. PICK p : p = Picked(T)
    OBVIOUS
  <1>5. p \in T /\ CasesAt(T) = Graph.positions[p] + CasesAt(T \ {p})
    BY <1>3, <1>4, CasesAtOnePicked
  <1>6. p # y
    BY <1>2, <1>5
  <1>7. CasesAt(T \ {p}) = Graph.positions[y] + CasesAt((T \ {p}) \ {y})
    BY <1>1, <1>3, <1>5, <1>6 DEF Bad
  <1>8. CasesAt(T \ {y}) = Graph.positions[p] + CasesAt((T \ {y}) \ {p})
    BY <1>1, <1>2, <1>3, <1>5, <1>6 DEF Bad
  <1>9. (T \ {p}) \ {y} = (T \ {y}) \ {p}
    OBVIOUS
  <1>10. CasesAt((T \ {p}) \ {y}) \in Nat /\ Graph.positions[p] \in Nat /\ Graph.positions[y] \in Nat
    <2>1. Counted((T \ {p}) \ {y})
      BY <1>3, FS_Subset DEF Counted
    <2> QED
      BY <1>2, <1>3, <1>5, <2>1, CasesAtNat DEF Counted
  <1>11. CasesAt(T) = Graph.positions[p] + (Graph.positions[y] + CasesAt((T \ {p}) \ {y}))
    BY <1>5, <1>7
  <1>12. Graph.positions[y] + CasesAt(T \ {y}) = Graph.positions[y] + (Graph.positions[p] + CasesAt((T \ {p}) \ {y}))
    BY <1>8, <1>9
  <1> QED
    BY <1>2, <1>10, <1>11, <1>12

(* Nodes that are neither confirmed nor unconfirmed hold nothing: the two counts *)
(* make the total.                                                             *)
LEMMA CountsMakeTotal ==
    ASSUME GraphIsCounted
    PROVE  CasesAt(NodesWith("CONFIRMED")) + CasesAt(NodesWith("UNCONFIRMED"))
              = CasesAt(DOMAIN Graph.positions)
  <1> DEFINE D == DOMAIN Graph.positions
             C == NodesWith("CONFIRMED")
             U == NodesWith("UNCONFIRMED")
             Bad == {T \in SUBSET D : CasesAt(T \cap C) + CasesAt(T \cap U) # CasesAt(T)}
  <1>1. /\ C \subseteq D /\ U \subseteq D /\ C \cap U = {} /\ Counted(D)
        /\ \A n \in D : n \in C \cup U \/ Graph.positions[n] = 0
    BY DEF NodesWith, GraphIsCounted, Counted
  <1> HIDE DEF D, C, U
  <1>2. CASE Bad = {}
    <2>1. D \cap C = C /\ D \cap U = U
      BY <1>1
    <2>2. CasesAt(D \cap C) + CasesAt(D \cap U) = CasesAt(D)
      BY <1>2
    <2> QED
      BY <2>1, <2>2 DEF D, C, U
  <1>3. ASSUME Bad # {}
        PROVE  FALSE
    <2>0. Bad \in SUBSET SUBSET D
      OBVIOUS
    <2>1. PICK T \in Bad : \A V \in Bad : V \subseteq T => V = T
      <3> HIDE DEF Bad
      <3> QED
        BY <1>1, <1>3, <2>0, SmallestSet DEF Counted
    <2>2. /\ T \subseteq D /\ Counted(T) /\ Counted(T \cap C) /\ Counted(T \cap U)
          /\ CasesAt(T \cap C) + CasesAt(T \cap U) # CasesAt(T)
      BY <1>1, FS_Subset DEF Counted
    <2>3. T # {}
      <3> SUFFICES ASSUME T = {}
                   PROVE  FALSE
        OBVIOUS
      <3>1. T \cap C = T /\ T \cap U = T /\ CasesAt(T) = 0
        BY <2>2, CasesAtOnePicked DEF Counted
      <3> QED
        BY <2>2, <3>1
    <2>4. PICK p \in T : TRUE
      BY <2>3
    <2> DEFINE V == T \ {p}
    <2>5. V \notin Bad /\ V \in SUBSET D
      BY <2>1, <2>2, <2>4
    <2>6. /\ CasesAt(V \cap C) + CasesAt(V \cap U) = CasesAt(V)
          /\ Counted(V) /\ Counted(V \cap C) /\ Counted(V \cap U)
      BY <2>2, <2>5, FS_Subset DEF Counted
    <2>7. /\ CasesAt(V) \in Nat /\ CasesAt(V \cap C) \in Nat /\ CasesAt(V \cap U) \in Nat
          /\ Graph.positions[p] \in Nat
      BY <2>2, <2>4, <2>6, CasesAtNat DEF Counted
    <2>8. CasesAt(T) = Graph.positions[p] + CasesAt(V)
      BY <2>2, <2>4, CasesAtWithout
    <2>9. CASE p \in C
      <3>1. (T \cap C) \ {p} = V \cap C /\ T \cap U = V \cap U /\ p \in T \cap C
        BY <1>1, <2>4, <2>9
      <3>2. CasesAt(T \cap C) = Graph.positions[p] + CasesAt(V \cap C)
        BY <2>2, <3>1, CasesAtWithout
      <3>3. CasesAt(T \cap U) = CasesAt(V \cap U)
        BY <3>1
      <3> HIDE DEF V, Bad
      <3> QED
        BY <2>2, <2>6, <2>7, <2>8, <3>2, <3>3
    <2>10. CASE p \in U
      <3>1. (T \cap U) \ {p} = V \cap U /\ T \cap C = V \cap C /\ p \in T \cap U
        BY <1>1, <2>4, <2>10
      <3>2. CasesAt(T \cap U) = Graph.positions[p] + CasesAt(V \cap U)
        BY <2>2, <3>1, CasesAtWithout
      <3>3. CasesAt(T \cap C) = CasesAt(V \cap C)
        BY <3>1
      <3> HIDE DEF V, Bad
      <3> QED
        BY <2>2, <2>6, <2>7, <2>8, <3>2, <3>3
    <2>11. CASE p \notin C /\ p \notin U
      <3>1. T \cap C = V \cap C /\ T \cap U = V \cap U
        BY <2>11
      <3>2. Graph.positions[p] = 0
        BY <1>1, <2>2, <2>4, <2>11
      <3>3. CasesAt(T \cap C) = CasesAt(V \cap C) /\ CasesAt(T \cap U) = CasesAt(V \cap U)
        BY <3>1
      <3> HIDE DEF V, Bad
      <3> QED
        BY <2>2, <2>6, <2>7, <2>8, <3>2, <3>3
    <2> QED
      BY <2>9, <2>10, <2>11
  <1> QED
    BY <1>2, <1>3

-----------------------------------------------------------------------------
(* Proposals rest on evidence *)

(* What the accepted outputs of a complete run stand for.  The lot, the graph  *)
(* and the candidates are what the validators compare an answer with.          *)
LEMMA CompleteRunsAreGrounded ==
    ASSUME GraphIsCounted, FleetInv
    PROVE  ProposalsAreGrounded
  <1> SUFFICES ASSUME result # None, result.status = "PROPOSED"
               PROVE  /\ invoked = Hops
                      /\ \A a \in Range(Hops) : Accepted(a) # {}
                      /\ \A x \in Accepted(Lead) : \A i \in DOMAIN Hops :
                            i > Position(Lead) => Hops[i] \in x.output.specialists
                      /\ \A x \in Accepted(Extraction) :
                            \E q \in DOMAIN Notice :
                               Lot \in Notice[q] /\ x.output.lot.value = Lot
                      /\ \A x \in Accepted(Custody) :
                            /\ x.output.confirmed + x.output.unconfirmed = x.output.total
                            /\ \A n \in DOMAIN Graph.positions :
                                  Graph.status[n] # "CONFIRMED" =>
                                     \/ n \in x.output.obligations
                                     \/ Graph.positions[n] = 0
                            /\ \A n \in x.output.obligations :
                                  Graph.status[n] # "CONFIRMED"
                      /\ Current(Candidates[result.candidate])
                      /\ Candidates[result.candidate].outcome # {}
    BY DEF ProposalsAreGrounded
  <1>1. invoked = Hops /\ Covered /\ result.candidate = Chosen
    BY DEF FleetInv, ProposedByAll
  <1>2. \A a \in Range(Hops) : Accepted(a) # {}
    BY <1>1 DEF Covered, Accepted
  <1>3. \A x \in Accepted(Lead) : \A i \in DOMAIN Hops :
           i > Position(Lead) => Hops[i] \in x.output.specialists
    BY <1>1 DEF FleetInv, LeadGatesDispatch
  <1>4. ASSUME NEW x \in Accepted(Extraction)
        PROVE  \E q \in DOMAIN Notice : Lot \in Notice[q] /\ x.output.lot.value = Lot
    <2>1. ExtractionValid(x.output)
      BY DEF FleetInv, AcceptedAreValid, Accepted, Valid, Extraction, Lead, Custody,
             Planner
    <2> QED
      BY <2>1 DEF ExtractionValid, Grounded
  <1>5. ASSUME NEW x \in Accepted(Custody)
        PROVE  /\ x.output.confirmed + x.output.unconfirmed = x.output.total
               /\ \A n \in DOMAIN Graph.positions : Graph.status[n] # "CONFIRMED" =>
                     n \in x.output.obligations \/ Graph.positions[n] = 0
               /\ \A n \in x.output.obligations : Graph.status[n] # "CONFIRMED"
    <2>1. CustodyValid(x.output)
      BY DEF FleetInv, AcceptedAreValid, Accepted, Valid, Extraction, Lead, Custody,
             Planner
    <2>2. x.output.obligations = NodesWith("UNCONFIRMED")
      BY <2>1 DEF CustodyValid
    <2>3. x.output.confirmed + x.output.unconfirmed = x.output.total
      BY <2>1, CountsMakeTotal DEF CustodyValid
    <2> QED
      BY <2>2, <2>3 DEF NodesWith, GraphIsCounted
  <1>6. Current(Candidates[Chosen]) /\ Candidates[Chosen].outcome # {}
    <2>1. PICK x \in Accepted(Planner) : TRUE
      BY <1>2, HopsFacts DEF FleetInv, Typed
    <2>2. \A y \in Accepted(Planner) : PlannerValid(y.output)
      BY DEF FleetInv, AcceptedAreValid, Accepted, Valid, Extraction, Lead, Custody,
             Planner
    <2>3. \E id \in DOMAIN Candidates : \E y \in Accepted(Planner) :
             y.output.candidate = id
      BY <2>1, <2>2 DEF PlannerValid
    <2>4. PICK y \in Accepted(Planner) : y.output.candidate = Chosen
      BY <2>3 DEF Chosen
    <2> QED
      BY <2>2, <2>4 DEF PlannerValid
  <1> QED
    BY <1>1, <1>2, <1>3, <1>4, <1>5, <1>6

(* A proposal rests on what is known, whatever the specialists answer: on a    *)
(* finite graph whose positions are confirmed or unconfirmed or hold nothing,  *)
(* as the one that is built from the ledger's records is.                      *)
THEOREM ProposalsRestOnEvidence ==
    ASSUME GraphIsCounted
    PROVE  Spec => []ProposalsAreGrounded
  <1>1. FleetInv => ProposalsAreGrounded
    BY CompleteRunsAreGrounded
  <1> QED
    BY <1>1, RunInvariant, PTL
=============================================================================
