----------------------------- MODULE AgentFleet -----------------------------
(***************************************************************************)
(* One coordinator run of the agent fleet: the specialists of a trigger    *)
(* one after another, each behind a dispatch gate, a timeout and a         *)
(* deterministic validator, and the proposal that is assembled from what   *)
(* was accepted.                                                           *)
(*                                                                         *)
(* A specialist answers anything its output schema admits, answers         *)
(* nothing that can be parsed, fails or hangs.  The run as a whole may be  *)
(* cut short at every point by its own timeout or an error.                *)
(***************************************************************************)
EXTENDS Integers, Sequences, FiniteSets, Functions

CONSTANTS
    None,
    Event, Lot,     \* the accepted source event and its lot
    Notice,         \* the values each passage of the screened notice states
    Anchored,       \* lots the notice names with an explicit lot anchor
    Graph,          \* the deterministic custody graph
    Candidates,     \* the deterministic candidates, by id
    Expected,       \* per trigger, the revision the caller takes to be current
    Outputs         \* per agent, the outputs its schema admits

Lead == "INCIDENT_LEAD"
Extraction == "RECALL_INTAKE_EXTRACTION"
Custody == "NETWORK_CUSTODY"
Planner == "FULFILLMENT_PLANNING_RECOVERY"
PartnerOps == "PARTNER_OPERATIONS"
Agents == {Lead, Extraction, Custody, Planner, PartnerOps}

\* ORCHESTRATION_PATHS
SequenceFor ==
    [FLEET_FAILURE |-> <<Lead, Planner>>,
     RECALL |-> <<Extraction, Lead, Custody, Planner>>,
     DAILY_PLANNING |-> <<Planner>>,
     NEXT_DAY_DRAFT |-> <<Planner>>]
Triggers == DOMAIN SequenceFor

AuthorizedPlaybooks == {"recall-response-playbook-v1"}
AuthorizedSpecialists == Agents \ {Lead}

ASSUME FleetConstants ==
    /\ Expected \in [Triggers -> STRING \cup {None}]
    /\ DOMAIN Outputs = Agents
    /\ None \notin STRING

VARIABLES
    trigger,
    pc,             \* "hop", "calling", "answered", "ended" or "done"
    index,          \* the hop
    started,        \* whether the specialist's session and run id exist
    output,         \* the parsed output in hand
    accepted,       \* what the validators have accepted, by agent
    invoked,        \* the specialists whose call has begun
    unauthorized, trace, failure,
    result

vars == <<trigger, pc, index, started, output, accepted, invoked, unauthorized,
          trace, failure, result>>

Hops == SequenceFor[trigger]
Agent == Hops[index]
Accepted(a) == {x \in accepted : x.agent = a}

-----------------------------------------------------------------------------
(* The validators *)

LeadValid(o) ==
    /\ o.event = Event
    /\ o.playbook \in AuthorizedPlaybooks
    /\ o.specialists \subseteq AuthorizedSpecialists

\* A claim is a value and the passage it quotes.
Grounded(claim) ==
    claim.quote \in DOMAIN Notice /\ claim.value \in Notice[claim.quote]

ExtractionValid(o) ==
    /\ o.lot # None
    /\ o.event = Event
    /\ Grounded(o.lot)
    /\ o.hazard # None => Grounded(o.hazard)
    /\ \A item \in o.scope : Grounded(item)
    \* the time is reformatted, so that only its quote is looked up
    /\ o.time # None => o.time.quote \in DOMAIN Notice
    /\ o.lot.value \in Anchored
    /\ o.lot.value = Lot

NodesWith(status) == {n \in DOMAIN Graph.positions : Graph.status[n] = status}
CasesAt(nodes) ==
    FoldFunctionOnSet(LAMBDA x, y : x + y, 0, Graph.positions, nodes)
ClaimedCases(o) == FoldFunction(LAMBDA x, y : x + y, 0, o.positions)

MutantCustodyValid(o) ==
    /\ o.lot = Lot
    /\ o.total = CasesAt(DOMAIN Graph.positions)
    /\ o.confirmed = CasesAt(NodesWith("CONFIRMED"))
    /\ o.unconfirmed = CasesAt(NodesWith("UNCONFIRMED"))
    /\ o.nodes = NodesWith("UNCONFIRMED")
    /\ o.depth = Graph.depth
    /\ DOMAIN o.positions # {} /\ ClaimedCases(o) = o.total
    /\ o.commitments # {} /\ o.commitments \subseteq Graph.commitments
    /\ DOMAIN o.positions \cup o.obligations \subseteq DOMAIN Graph.positions
    /\ o.obligations \subseteq o.nodes
CustodyValid(o) ==
    /\ o.lot = Lot
    /\ o.total = CasesAt(DOMAIN Graph.positions)
    /\ o.confirmed = CasesAt(NodesWith("CONFIRMED"))
    /\ o.unconfirmed = CasesAt(NodesWith("UNCONFIRMED"))
    /\ o.nodes = NodesWith("UNCONFIRMED")
    /\ o.depth = Graph.depth
    /\ o.containment = IF o.unconfirmed > 0 THEN "UNCONFIRMED_DOWNSTREAM"
                       ELSE "FULLY_TRACED"
    \* only the sum of the positions is compared, not the positions
    /\ DOMAIN o.positions # {} /\ ClaimedCases(o) = o.total
    /\ o.edges \subseteq Graph.edges
    /\ o.commitments # {} /\ o.commitments \subseteq Graph.commitments
    /\ DOMAIN o.positions \cup o.obligations \subseteq DOMAIN Graph.positions
    /\ o.obligations = o.nodes

Current(c) == Expected[trigger] # None => c.revision = Expected[trigger]
PlannerValid(o) ==
    /\ o.candidate \in DOMAIN Candidates
    /\ Current(Candidates[o.candidate])
    /\ Candidates[o.candidate].outcome # {}
    /\ o.confident

Valid(a, o) ==
    CASE a = Lead -> LeadValid(o)
      [] a = Extraction -> ExtractionValid(o)
      [] a = Custody -> CustodyValid(o)
      [] a = Planner -> PlannerValid(o)

-----------------------------------------------------------------------------
(* A hop *)

Entry(a, label) == [agent |-> a, started |-> started, label |-> label]

MutantUnauthorized(a) == \E x \in Accepted(Lead) : a \notin AuthorizedSpecialists
\* The lead, once accepted, decides who else is asked anything.
Unauthorized(a) ==
    \E x \in Accepted(Lead) : a \notin x.output.specialists

Skip ==
    /\ pc = "hop" /\ index <= Len(Hops)
    /\ Unauthorized(Agent)
    /\ unauthorized' = unauthorized \cup {Agent}
    /\ index' = index + 1
    /\ UNCHANGED <<trigger, pc, started, output, accepted, invoked, trace,
                   failure, result>>

Dispatch ==
    /\ pc = "hop" /\ index <= Len(Hops)
    /\ ~Unauthorized(Agent)
    /\ pc' = "calling" /\ started' = FALSE
    /\ invoked' = Append(invoked, Agent)
    /\ UNCHANGED <<trigger, index, output, accepted, unauthorized, trace,
                   failure, result>>

\* collect_specialist_output: the ids exist before the model is contacted.
Begin ==
    /\ pc = "calling" /\ ~started
    /\ started' = TRUE
    /\ UNCHANGED <<trigger, pc, index, output, accepted, invoked, unauthorized,
                   trace, failure, result>>

Answer(o) ==
    /\ pc = "calling" /\ started
    /\ pc' = "answered" /\ output' = o
    /\ UNCHANGED <<trigger, index, started, accepted, invoked, unauthorized,
                   trace, failure, result>>

\* The run ended without one final text that the schema admits.
RunErrors == {"ADK_MODEL_ERROR", "ADK_RESPONSE_INCOMPLETE",
              "ADK_FINAL_RESPONSE_COUNT_INVALID", "INVALID_STRUCTURED_OUTPUT"}
CallFailures == RunErrors \cup {"ADK_TIMEOUT", "ADK_INVOCATION_FAILED"}

\* No reason to fail is None.  (True of strings; named because proof backends know
\* no string literal to be in STRING.)
ASSUME ReasonsAreStrings ==
    CallFailures \cup {"REJECTED", "PLAYBOOK_DID_NOT_AUTHORIZE_SEQUENCE"} \subseteq STRING

Fails(reason) ==
    /\ failure' = reason /\ pc' = "ended"
    /\ trace' = Append(trace, Entry(Agent, reason))
MutantCallFails(reason) ==
    /\ pc = "calling"
    /\ reason \in RunErrors => started
    /\ failure' = reason /\ pc' = "ended"
    /\ trace' = IF started THEN Append(trace, Entry(Agent, reason)) ELSE trace
    /\ UNCHANGED <<trigger, index, started, output, accepted, invoked,
                   unauthorized, result>>
CallFails(reason) ==
    /\ pc = "calling"
    /\ reason \in RunErrors => started
    /\ Fails(reason)
    /\ UNCHANGED <<trigger, index, started, output, accepted, invoked,
                   unauthorized, result>>

Accept ==
    /\ pc = "answered" /\ Valid(Agent, output)
    /\ accepted' = accepted \cup {[agent |-> Agent, output |-> output]}
    /\ trace' = Append(trace, Entry(Agent, "ACCEPTED"))
    /\ pc' = "hop" /\ index' = index + 1 /\ output' = None
    /\ UNCHANGED <<trigger, started, invoked, unauthorized, failure, result>>

Reject ==
    /\ pc = "answered" /\ ~Valid(Agent, output)
    /\ Fails("REJECTED") /\ output' = None
    /\ UNCHANGED <<trigger, index, started, accepted, invoked, unauthorized,
                   result>>

-----------------------------------------------------------------------------
(* The end of the run *)

Close ==
    /\ pc = "hop" /\ index > Len(Hops)
    /\ failure' = IF unauthorized = {} THEN None
                  ELSE "PLAYBOOK_DID_NOT_AUTHORIZE_SEQUENCE"
    /\ pc' = "ended"
    /\ UNCHANGED <<trigger, index, started, output, accepted, invoked,
                   unauthorized, trace, result>>

Failed(reason, evidence) ==
    [status |-> "MANUAL_REVIEW_REQUIRED", reason |-> reason, candidate |-> None,
     trace |-> evidence]

\* run_fleet, with the outcome of the run: an agent that is missing from the
\* accepted ones stops the proposal once more.
Covered == {x.agent : x \in accepted} = Range(Hops)
Chosen == CHOOSE id \in DOMAIN Candidates :
              \E x \in Accepted(Planner) : x.output.candidate = id
Assemble ==
    /\ pc = "ended"
    /\ pc' = "done"
    /\ result' =
          IF failure # None THEN Failed(failure, trace)
          ELSE IF ~Covered THEN Failed("INCOMPLETE_SPECIALIST_COVERAGE", trace)
          ELSE [status |-> "PROPOSED", reason |-> None, candidate |-> Chosen,
                trace |-> trace]
    /\ UNCHANGED <<trigger, index, started, output, accepted, invoked,
                   unauthorized, trace, failure>>

\* The coordinator's own timeout, an ADK error of its own, any other exception:
\* the evidence gathered so far is lost.
Abort ==
    /\ pc # "done"
    /\ pc' = "done"
    /\ \E reason \in {"COORDINATOR_TIMEOUT", "COORDINATOR_ADK_ERROR",
                      "FLEET_EXECUTION_FAILED"} :
          result' = Failed(reason, <<>>)
    /\ UNCHANGED <<trigger, index, started, output, accepted, invoked,
                   unauthorized, trace, failure>>

-----------------------------------------------------------------------------

Init ==
    /\ trigger \in Triggers
    /\ pc = "hop" /\ index = 1 /\ started = FALSE /\ output = None
    /\ accepted = {} /\ invoked = <<>> /\ unauthorized = {}
    /\ trace = <<>> /\ failure = None /\ result = None

MutantCallEnds ==
    \/ pc = "calling" /\ \E o \in Outputs[Agent] : Answer(o)
    \/ \E reason \in RunErrors : CallFails(reason)
CallEnds ==
    \/ pc = "calling" /\ \E o \in Outputs[Agent] : Answer(o)
    \/ \E reason \in CallFailures : CallFails(reason)
Proceed == Skip \/ Dispatch \/ CallEnds \/ Accept \/ Reject \/ Close \/ Assemble

Next == Proceed \/ Begin \/ Abort

\* Every call is under asyncio.wait_for, everything else is straight-line code.
Spec == Init /\ [][Next]_vars /\ WF_vars(Proceed)

-----------------------------------------------------------------------------
(* Properties *)

Position(a) == CHOOSE i \in DOMAIN Hops : Hops[i] = a

\* The positions of a graph are confirmed, unconfirmed or there for its topology
\* only, and those hold no cases.
GraphIsCounted ==
    /\ IsFiniteSet(DOMAIN Graph.positions)
    /\ \A n \in DOMAIN Graph.positions :
          /\ Graph.positions[n] \in Nat
          /\ Graph.status[n] \in {"CONFIRMED", "UNCONFIRMED"} \/ Graph.positions[n] = 0

\* A proposal rests on what is known: every specialist of the trigger was asked,
\* and accepted for what deterministic evidence bears out - the lot that the
\* notice states, the graph's totals with an obligation for every node that holds
\* unconfirmed cases and for no confirmed one, and a candidate of the current
\* revision that does something.
ProposalsAreGrounded ==
    result # None /\ result.status = "PROPOSED" =>
        /\ invoked = Hops
        /\ \A a \in Range(Hops) : Accepted(a) # {}
        /\ \A x \in Accepted(Lead) : \A i \in DOMAIN Hops :
              i > Position(Lead) => Hops[i] \in x.output.specialists
        /\ \A x \in Accepted(Extraction) :
              \E q \in DOMAIN Notice : Lot \in Notice[q] /\ x.output.lot.value = Lot
        /\ \A x \in Accepted(Custody) :
              /\ x.output.confirmed + x.output.unconfirmed = x.output.total
              /\ \A n \in DOMAIN Graph.positions : Graph.status[n] # "CONFIRMED" =>
                    n \in x.output.obligations \/ Graph.positions[n] = 0
              /\ \A n \in x.output.obligations : Graph.status[n] # "CONFIRMED"
        /\ Current(Candidates[result.candidate])
        /\ Candidates[result.candidate].outcome # {}

\* The incident lead is a dispatch gate: a specialist its playbook did not ask
\* for is never invoked, and a run that had to leave one out proposes nothing.
LeadGatesDispatch ==
    \A x \in Accepted(Lead) :
        /\ \A i \in DOMAIN invoked :
              i > Position(Lead) => invoked[i] \in x.output.specialists
        /\ unauthorized # {} /\ result # None =>
              result.status = "MANUAL_REVIEW_REQUIRED"

\* The evidence tells the run: one entry for each specialist invoked and at no
\* time more than the one in flight missing, failures last, acceptances exactly
\* the accepted outputs - unless the run as a whole was cut short.
TraceTellsTheRun ==
    /\ pc # "done" =>
          Len(invoked) = Len(trace) + IF pc \in {"calling", "answered"} THEN 1 ELSE 0
    /\ \A i \in DOMAIN trace :
          /\ trace[i].agent = invoked[i]
          /\ trace[i].label = "ACCEPTED" <=> Accepted(trace[i].agent) # {}
          /\ trace[i].label # "ACCEPTED" => i = Len(trace) /\ failure = trace[i].label
    /\ result # None => result.trace \in {trace, <<>>}

\* Every run ends, however many specialists hang.
RunsEnd == <>(pc = "done")
=============================================================================
