------------------------- MODULE DayPlanningProofs -------------------------
(***************************************************************************)
(* The handlers of the operating day, for every set of requests, whatever  *)
(* else the ledger's callers do: they reach the tables through the ledger  *)
(* only, no two repairs are proposed for one revision, an answer agrees    *)
(* with the ledger, the candidate of a next day with its constraints, and  *)
(* what the agents are asked about goes stale for a reason on record.      *)
(***************************************************************************)
EXTENDS DayPlanning, PlanLedgerProofs

-----------------------------------------------------------------------------
(* The handlers are callers of the ledger. *)

DayTyped ==
    /\ delivered \in [Requests -> Nat]
    /\ done \in [DOMAIN Traffic -> Nat]

LEMMA OtherCalls ==
    ASSUME DayTyped, NEW k \in DOMAIN Traffic, OtherCall(k)
    PROVE  /\ \E c \in Commands : c \in Range(Traffic[k]) /\ Execute(c)
           /\ done' \in [DOMAIN Traffic -> Nat]
           /\ UNCHANGED <<delivered, jobs, answers>>
  <1>1. /\ Traffic[k] \in Seq(Commands) /\ Len(Traffic[k]) \in Nat
        /\ DOMAIN Traffic[k] = 1..Len(Traffic[k])
    BY DayConstants, LenProperties
  <1>2. done[k] \in Nat /\ done[k] + 1 \in DOMAIN Traffic[k]
    BY <1>1 DEF DayTyped, OtherCall
  <1>3. /\ Traffic[k][done[k] + 1] \in Commands
        /\ Traffic[k][done[k] + 1] \in Range(Traffic[k])
    BY <1>1, <1>2, ElementOfSeq DEF Range
  <1>4. done' \in [DOMAIN Traffic -> Nat]
    BY <1>1, <1>2 DEF DayTyped, OtherCall
  <1> QED
    BY <1>3, <1>4 DEF OtherCall

LEMMA JobStepIsLedgerStep ==
    ASSUME NEW j, JobStep(j)
    PROVE  [Next]_vars /\ UNCHANGED <<delivered, done>>
  <1>1. CASE CallLedger(j)
    BY <1>1 DEF CallLedger, Answered, Next
  <1>2. CASE LoseAnswer(j)
    BY <1>2 DEF LoseAnswer, Next
  <1>3. CASE TooOld(j) \/ Derive(j) \/ Infeasible(j) \/ Pass(j) \/ Stop(j)
             \/ Refused(j) \/ Fail(j)
    BY <1>3 DEF TooOld, Derive, Infeasible, Pass, Stop, Refused, Fail
  <1> QED
    BY <1>1, <1>2, <1>3 DEF JobStep

LEMMA DayStepIsLedgerStep ==
    ASSUME DayTyped, [DayNext]_dayVars
    PROVE  [Next]_vars /\ DayTyped'
  <1>1. CASE UNCHANGED dayVars
    BY <1>1 DEF dayVars, handlerVars, DayTyped
  <1>2. ASSUME NEW q \in Requests, Deliver(q)
        PROVE  UNCHANGED vars /\ DayTyped'
    <2>1. delivered' = [delivered EXCEPT ![q] = @ + 1] /\ UNCHANGED <<vars, done>>
      BY <1>2 DEF Deliver
    <2>2. delivered' \in [Requests -> Nat]
      BY <2>1 DEF DayTyped
    <2> QED
      BY <2>1, <2>2 DEF DayTyped
  <1>3. ASSUME NEW j \in jobs, JobStep(j)
        PROVE  [Next]_vars /\ DayTyped'
    BY <1>3, JobStepIsLedgerStep DEF DayTyped
  <1>4. ASSUME NEW k \in DOMAIN Traffic, OtherCall(k)
        PROVE  [Next]_vars /\ DayTyped'
    BY <1>4, OtherCalls DEF DayTyped, Next
  <1> QED
    BY <1>1, <1>2, <1>3, <1>4 DEF DayNext

LEMMA DayTypedInvariant == DaySpec => []DayTyped
  <1>1. DayInit => DayTyped
    BY DEF DayInit, DayTyped
  <1>2. DayTyped /\ [DayNext]_dayVars => DayTyped'
    BY DayStepIsLedgerStep
  <1> QED
    BY <1>1, <1>2, PTL DEF DaySpec

(* Every handler reaches the tables through transactions of the executor only:  *)
(* the day implements the ledger's specification, and inherits what is proved   *)
(* of it.                                                                        *)
THEOREM DayUsesLedger == DaySpec => Spec
  <1>1. DayInit => Init
    BY DEF DayInit
  <1>2. DayTyped /\ [DayNext]_dayVars => [Next]_vars
    BY DayStepIsLedgerStep
  <1> QED
    BY <1>1, <1>2, DayTypedInvariant, PTL DEF DaySpec, Spec

-----------------------------------------------------------------------------
(* The least of a set of identifiers *)

LEMMA FirstOfIsIn ==
    ASSUME NEW ids \in SUBSET Range(Ids), ids # {}
    PROVE  FirstOf(ids) \in ids
  <1>1. DOMAIN Ids \subseteq Nat
    BY DayConstants, LenProperties
  <1>2. \A x \in ids : Rank(x) \in DOMAIN Ids
    BY DEF Rank, Range
  <1> DEFINE T == {Rank(x) : x \in ids}
  <1>3. T \in SUBSET Nat /\ T # {}
    BY <1>1, <1>2
  <1>4. PICK m \in T : \A n \in T : m <= n
    BY <1>3, LeastOf
  <1>5. \E x \in ids : \A y \in ids : Rank(x) <= Rank(y)
    BY <1>4
  <1> QED
    BY <1>5 DEF FirstOf

-----------------------------------------------------------------------------
(* The jobs, and the commands they call the ledger with *)

IsJob(j) == j = Job(j.request, j.n, j.step, j.command)

(* What each kind of request asks the ledger for. *)
CommandFits(q, c) ==
    /\ q.kind = "PLAN_DAY" => c = MorningPlan(q)
    /\ q.kind = "WAIT" => c = Waiting(q)
    /\ q.kind = "PLAN_NEXT_DAY" =>
          c.type = "CREATE_NEXT_DAY_DRAFT" /\ c.body.plan = NextPlanId
    /\ q.kind = "FAULT" =>
          /\ c.type = "PERSIST_REPAIR_PROPOSAL" /\ c.body.plan = PlanId
          /\ c.key = RepairKey(c.body.source, q)
    /\ q.kind = "EVIDENCE" =>
          /\ c.type = "PROCESS_PARTNER_EVIDENCE"
          /\ c.key = "partner-evidence:" \o q.id /\ c.body.event = q.id

JobsInv ==
    \A j \in jobs :
        /\ IsJob(j) /\ j.request \in Requests
        /\ j.step # "READ" => CommandFits(j.request, j.command)

LEMMA JobFields ==
    ASSUME NEW q, NEW n, NEW step, NEW c
    PROVE  /\ Job(q, n, step, c).request = q /\ Job(q, n, step, c).n = n
           /\ Job(q, n, step, c).step = step /\ Job(q, n, step, c).command = c
           /\ IsJob(Job(q, n, step, c))
  BY DEF Job, IsJob

LEMMA CommandFields ==
    ASSUME NEW key, NEW inc, NEW role, NEW type, NEW exp, NEW body
    PROVE  /\ Cmd(key, inc, role, type, exp, body).key = key
           /\ Cmd(key, inc, role, type, exp, body).type = type
           /\ Cmd(key, inc, role, type, exp, body).exp = exp
           /\ Cmd(key, inc, role, type, exp, body).body = body
           /\ PlannerCmd(key, inc, type, exp, body).key = key
           /\ PlannerCmd(key, inc, type, exp, body).type = type
           /\ PlannerCmd(key, inc, type, exp, body).exp = exp
           /\ PlannerCmd(key, inc, type, exp, body).body = body
  BY DEF Cmd, PlannerCmd

LEMMA FirstStepFits ==
    ASSUME NEW q \in Requests
    PROVE  /\ IsJob(FirstStep(q)) /\ FirstStep(q).request = q
           /\ FirstStep(q).step # "READ" => CommandFits(q, FirstStep(q).command)
  <1>1. q.kind \in Kinds
    BY DayConstants
  <1>2. CASE q.kind = "PLAN_DAY"
    BY <1>2, JobFields DEF FirstStep, CommandFits
  <1>3. CASE q.kind = "WAIT"
    BY <1>3, JobFields DEF FirstStep, CommandFits
  <1>4. CASE q.kind \in {"PLAN_NEXT_DAY", "FAULT", "EVIDENCE"}
    <2>1. FirstStep(q) = Job(q, delivered[q], "READ", None)
      BY <1>4 DEF FirstStep
    <2> QED
      BY <2>1, JobFields
  <1> QED
    BY <1>1, <1>2, <1>3, <1>4 DEF Kinds

LEMMA RepairProposalFields ==
    ASSUME NEW q
    PROVE  LET c == RepairProposal(q)
               source == plans[CHOOSE i \in ActiveOfToday : TRUE].rev
               target == FirstVehicle(OtherVehicles(q.body))
           IN  /\ c.type = "PERSIST_REPAIR_PROPOSAL" /\ c.key = RepairKey(source, q)
               /\ c.role = "FULFILLMENT_RECOVERY_PLANNER" /\ c.exp = source
               /\ c.body.plan = PlanId /\ c.body.source = source
               /\ c.body.proposed = "rev08" /\ c.body.event = q.id
               /\ c.body.diff = RepairDiff(Stranded(q.body, source), target)
  BY DEF RepairProposal, PlannerCmd, Cmd

LEMMA RepairProposalBody ==
    ASSUME NEW q
    PROVE  LET c == RepairProposal(q)
               source == plans[CHOOSE i \in ActiveOfToday : TRUE].rev
               target == FirstVehicle(OtherVehicles(q.body))
           IN  /\ c.body.vehicle = q.body /\ c.body.capacity = target.capacity
               /\ c.body.committed = target.load
               /\ c.body \in [proposal : {"PROP-" \o source \o q.id}, event : {q.id},
                               plan : {PlanId}, source : {source}, proposed : {"rev08"},
                               vehicle : {q.body}, capacity : {target.capacity},
                               committed : {target.load}, diff : {c.body.diff}]
  BY DEF RepairProposal, PlannerCmd, Cmd

(* What a handler derives from the tables as they are. *)
Derives(q, c) ==
    \/ q.kind = "FAULT" /\ RepairFeasible(q) /\ c = RepairProposal(q)
    \/ q.kind = "PLAN_NEXT_DAY" /\ ConstraintsComplete /\ c = NextDayDraft
    \/ /\ q.kind = "EVIDENCE"
       /\ \E w \in workItems, n \in nodes : AuthorityExact(q, w, n)
       /\ \E proposal \in Readings : c = Evidence(q, proposal)

LEMMA DerivedFits ==
    ASSUME NEW j, IsJob(j), j.request \in Requests, Derive(j)
    PROVE  \E c : /\ jobs' = (jobs \ {j}) \cup {Job(j.request, j.n, "GATE", c)}
                  /\ CommandFits(j.request, c) /\ Derives(j.request, c)
                  /\ UNCHANGED <<vars, answers, delivered, done>>
  <1> DEFINE q == j.request
  <1>1. CASE q.kind = "FAULT"
    <2>1. RepairFeasible(q) /\ Reaches(j, "GATE", RepairProposal(q))
      BY <1>1 DEF Derive
    <2>2. CommandFits(q, RepairProposal(q)) /\ Derives(q, RepairProposal(q))
      BY <1>1, <2>1, RepairProposalFields DEF CommandFits, Derives
    <2> QED
      BY <2>1, <2>2 DEF Reaches, Derive
  <1>2. CASE q.kind = "PLAN_NEXT_DAY"
    <2>1. Reaches(j, "GATE", NextDayDraft) /\ ConstraintsComplete
      BY <1>2 DEF Derive
    <2>2. CommandFits(q, NextDayDraft)
      BY <1>2 DEF CommandFits, NextDayDraft, PlannerCmd, Cmd
    <2>3. Derives(q, NextDayDraft)
      BY <1>2, <2>1 DEF Derives
    <2>4. /\ jobs' = (jobs \ {j}) \cup {Job(q, j.n, "GATE", NextDayDraft)}
          /\ UNCHANGED <<vars, answers, delivered, done>>
      BY <2>1 DEF Reaches, Derive
    <2> QED
      BY <2>2, <2>3, <2>4
  <1>3. CASE q.kind = "EVIDENCE"
    <2>1. PICK proposal \in Readings : Reaches(j, "GATE", Evidence(q, proposal))
      BY <1>3 DEF Derive
    <2>2. CommandFits(q, Evidence(q, proposal))
      BY <1>3 DEF CommandFits, Evidence, Cmd
    <2>3. Derives(q, Evidence(q, proposal))
      BY <1>3 DEF Derive, Derives
    <2>4. jobs' = (jobs \ {j}) \cup {Job(q, j.n, "GATE", Evidence(q, proposal))}
      BY <2>1 DEF Reaches
    <2> QED
      BY <2>1, <2>2, <2>3, <2>4 DEF Reaches, Derive
  <1>4. q.kind \in {"FAULT", "PLAN_NEXT_DAY", "EVIDENCE"}
    BY DEF Derive
  <1> QED
    BY <1>1, <1>2, <1>3, <1>4

(* A handler arrives, derives its command, or may call the ledger with it; the
   tables are as they were. *)
JobArrives == \E q \in Requests : jobs' = jobs \cup {FirstStep(q)}
JobDerives ==
    \E j \in jobs : \E c :
        /\ jobs' = (jobs \ {j}) \cup {Job(j.request, j.n, "GATE", c)}
        /\ CommandFits(j.request, c) /\ Derives(j.request, c)
JobPasses ==
    \E j \in jobs :
        /\ j.step = "GATE"
        /\ jobs' = (jobs \ {j}) \cup {Job(j.request, j.n, "LEDGER", j.command)}

(* Who may send the ledger a command. *)
Sent(c) ==
    \/ \E j \in jobs : j.step = "LEDGER" /\ c = j.command
    \/ \E k \in DOMAIN Traffic : c \in Range(Traffic[k])

LEMMA JobSteps ==
    ASSUME JobsInv, NEW j \in jobs, JobStep(j)
    PROVE  \/ UNCHANGED vars /\ (JobDerives \/ JobPasses)
           \/ UNCHANGED vars /\ jobs' \subseteq jobs
           \/ /\ jobs' \subseteq jobs
              /\ \E c \in Commands : Sent(c) /\ Execute(c)
  <1>1. IsJob(j) /\ j.request \in Requests
    BY DEF JobsInv
  <1>2. CASE Derive(j)
    BY <1>1, <1>2, DerivedFits DEF JobDerives
  <1>3. CASE Pass(j)
    BY <1>3 DEF Pass, Reaches, JobPasses
  <1>4. CASE TooOld(j) \/ Infeasible(j) \/ Stop(j) \/ Refused(j) \/ Fail(j)
    BY <1>4 DEF TooOld, Infeasible, Stop, Refused, Fail, Ends, EndsAs
  <1>5. CASE CallLedger(j)
    <2>1. jobs' \subseteq jobs /\ j.step = "LEDGER" /\ Answered(j.command)
      BY <1>5 DEF CallLedger, Ends, EndsAs
    <2> QED
      BY <2>1 DEF Answered, Sent
  <1>6. CASE LoseAnswer(j)
    BY <1>6 DEF LoseAnswer, Ends, Sent
  <1> QED
    BY <1>2, <1>3, <1>4, <1>5, <1>6 DEF JobStep

LEMMA DaySteps ==
    ASSUME DayTyped, JobsInv, [DayNext]_dayVars
    PROVE  \/ UNCHANGED vars /\ (JobArrives \/ JobDerives \/ JobPasses)
           \/ UNCHANGED vars /\ jobs' \subseteq jobs
           \/ /\ jobs' \subseteq jobs
              /\ \E c \in Commands : Sent(c) /\ Execute(c)
  <1>1. CASE UNCHANGED dayVars
    BY <1>1 DEF dayVars, handlerVars
  <1>2. CASE \E q \in Requests : Deliver(q)
    BY <1>2 DEF Deliver, JobArrives
  <1>3. CASE \E j \in jobs : JobStep(j)
    BY <1>3, JobSteps
  <1>4. CASE \E k \in DOMAIN Traffic : OtherCall(k)
    BY <1>4, OtherCalls DEF Sent
  <1> QED
    BY <1>1, <1>2, <1>3, <1>4 DEF DayNext

LEMMA JobsInvStep ==
    ASSUME DayTyped, JobsInv, [DayNext]_dayVars
    PROVE  JobsInv'
  <1>1. CASE JobArrives
    BY <1>1, FirstStepFits DEF JobArrives, JobsInv
  <1>2. CASE JobDerives
    <2>0. PICK j \in jobs : \E c :
            /\ jobs' = (jobs \ {j}) \cup {Job(j.request, j.n, "GATE", c)}
            /\ CommandFits(j.request, c)
      BY <1>2 DEF JobDerives
    <2>1. PICK c :
            /\ jobs' = (jobs \ {j}) \cup {Job(j.request, j.n, "GATE", c)}
            /\ CommandFits(j.request, c)
      BY <2>0
    <2> QED
      BY <2>1, JobFields DEF JobsInv
  <1>3. CASE JobPasses
    BY <1>3, JobFields DEF JobPasses, JobsInv
  <1>4. CASE jobs' \subseteq jobs
    BY <1>4 DEF JobsInv
  <1> QED
    BY <1>1, <1>2, <1>3, <1>4, DaySteps

-----------------------------------------------------------------------------
(* Where the commands come from that the agents are asked about *)

(* Nobody asks for anything before the tables are read. *)
ReadersHaveNone == \A j \in jobs : j.step = "READ" => j.command = None

(* The commands of one type that the handlers have derived. *)
Agentic == {"CREATE_NEXT_DAY_DRAFT", "PERSIST_REPAIR_PROPOSAL", "PROCESS_PARTNER_EVIDENCE"}
Commanded(type) ==
    {j.command : j \in {k \in jobs : k.step # "READ" /\ k.command.type = type}}
LEMMA CommandedIs ==
    ASSUME NEW type
    PROVE  \A c : c \in Commanded(type) <=>
              \E j \in jobs : j.step # "READ" /\ j.command = c /\ c.type = type
  BY DEF Commanded

LEMMA DerivedIsCommanded ==
    ASSUME ReadersHaveNone, NEW type, NEW j \in Derived(type)
    PROVE  j.command \in Commanded(type)
  BY DEF Derived, ReadersHaveNone, Commanded

LEMMA ReadersHaveNoneStep ==
    ASSUME DayTyped, JobsInv, ReadersHaveNone, [DayNext]_dayVars
    PROVE  ReadersHaveNone'
  <1>1. CASE JobArrives
    <2>1. ASSUME NEW q \in Requests
          PROVE  FirstStep(q).step = "READ" => FirstStep(q).command = None
      <3>1. CASE q.kind \notin {"PLAN_DAY", "WAIT"}
        <4>1. FirstStep(q) = Job(q, delivered[q], "READ", None)
          BY <3>1 DEF FirstStep
        <4> QED
          BY <4>1, JobFields
      <3>2. CASE q.kind = "PLAN_DAY"
        BY <3>2, JobFields DEF FirstStep
      <3>3. CASE q.kind = "WAIT"
        BY <3>3, JobFields DEF FirstStep
      <3> QED
        BY <3>1, <3>2, <3>3
    <2> QED
      BY <1>1, <2>1 DEF JobArrives, ReadersHaveNone
  <1>2. CASE JobDerives
    BY <1>2, JobFields DEF JobDerives, ReadersHaveNone
  <1>3. CASE JobPasses
    BY <1>3, JobFields DEF JobPasses, ReadersHaveNone
  <1>4. CASE jobs' \subseteq jobs
    BY <1>4 DEF ReadersHaveNone
  <1> QED
    BY <1>1, <1>2, <1>3, <1>4, DaySteps

LEMMA TypesOfRequests ==
    ASSUME NEW q, q.kind \in Kinds, NEW c, CommandFits(q, c), c.type \in Agentic
    PROVE  q.kind \in {"FAULT", "PLAN_NEXT_DAY", "EVIDENCE"}
  <1>1. /\ MorningPlan(q).type = "SAVE_PLAN_REVISION"
        /\ Waiting(q).type = "PERSIST_COORDINATOR"
    BY DEF MorningPlan, Waiting, PlannerCmd, Cmd
  <1> QED
    BY <1>1 DEF Kinds, CommandFits, Agentic

LEMMA TypesDerived ==
    ASSUME NEW q, NEW c, Derives(q, c)
    PROVE  /\ q.kind = "FAULT" => c.type = "PERSIST_REPAIR_PROPOSAL"
           /\ q.kind = "PLAN_NEXT_DAY" => c.type = "CREATE_NEXT_DAY_DRAFT"
           /\ q.kind = "EVIDENCE" => c.type = "PROCESS_PARTNER_EVIDENCE"
           /\ q.kind \in {"FAULT", "PLAN_NEXT_DAY", "EVIDENCE"}
  <1>1. /\ RepairProposal(q).type = "PERSIST_REPAIR_PROPOSAL"
        /\ NextDayDraft.type = "CREATE_NEXT_DAY_DRAFT"
        /\ \A proposal : Evidence(q, proposal).type = "PROCESS_PARTNER_EVIDENCE"
    BY RepairProposalFields DEF NextDayDraft, Evidence, PlannerCmd, Cmd
  <1> QED
    BY <1>1 DEF Derives

LEMMA FirstStepAsksNoAgent ==
    ASSUME NEW q \in Requests, FirstStep(q).step # "READ"
    PROVE  FirstStep(q).command.type \notin Agentic
  <1>1. CommandFits(q, FirstStep(q).command)
    BY FirstStepFits
  <1>2. q.kind \in {"PLAN_DAY", "WAIT"}
    BY JobFields DEF FirstStep
  <1>3. q.kind \in Kinds
    BY DayConstants
  <1> QED
    BY <1>1, <1>2, <1>3, TypesOfRequests

(* A command is derived from the tables as they are; until then, and after, the
   commands are those there were. *)
LEMMA WhereCommandsComeFrom ==
    ASSUME DayTyped, JobsInv, [DayNext]_dayVars
    PROVE  \/ \A type \in Agentic : Commanded(type)' \subseteq Commanded(type)
           \/ /\ UNCHANGED vars
              /\ \E q \in Requests : \E c :
                    /\ Derives(q, c)
                    /\ \A type \in Agentic : \A d \in Commanded(type)' :
                          d \in Commanded(type) \/ (d = c /\ c.type = type)
  <1>1. \A type, c : c \in Commanded(type)' <=>
              \E j \in jobs' : j.step # "READ" /\ j.command = c /\ c.type = type
    BY DEF Commanded
  <1>2. CASE jobs' \subseteq jobs
    BY <1>1, <1>2, CommandedIs
  <1>3. CASE JobArrives
    <2>1. PICK q \in Requests : jobs' = jobs \cup {FirstStep(q)}
      BY <1>3 DEF JobArrives
    <2> QED
      BY <1>1, <2>1, FirstStepAsksNoAgent, CommandedIs
  <1>4. CASE JobPasses
    <2>1. PICK j \in jobs :
             /\ j.step = "GATE"
             /\ jobs' = (jobs \ {j}) \cup {Job(j.request, j.n, "LEDGER", j.command)}
      BY <1>4 DEF JobPasses
    <2>2. Job(j.request, j.n, "LEDGER", j.command).command = j.command
      BY JobFields
    <2> QED
      BY <1>1, <2>1, <2>2, CommandedIs
  <1>5. CASE JobDerives /\ UNCHANGED vars
    <2>0. PICK j \in jobs : \E c :
            /\ jobs' = (jobs \ {j}) \cup {Job(j.request, j.n, "GATE", c)}
            /\ CommandFits(j.request, c) /\ Derives(j.request, c)
      BY <1>5 DEF JobDerives
    <2>1. PICK c :
            /\ jobs' = (jobs \ {j}) \cup {Job(j.request, j.n, "GATE", c)}
            /\ CommandFits(j.request, c) /\ Derives(j.request, c)
      BY <2>0
    <2>2. Job(j.request, j.n, "GATE", c).command = c
      BY JobFields
    <2>3. \A type \in Agentic : \A d \in Commanded(type)' :
             d \in Commanded(type) \/ (d = c /\ c.type = type)
      BY <1>1, <2>1, <2>2, CommandedIs
    <2>4. j.request \in Requests
      BY DEF JobsInv
    <2> QED
      BY <1>5, <2>1, <2>3, <2>4
  <1> QED
    BY <1>2, <1>3, <1>4, <1>5, DaySteps

-----------------------------------------------------------------------------
(* The identifiers the handlers sort are listed *)

IdsInv ==
    /\ \A o \in orders : o.line.order \in Range(Ids)
    /\ \A v \in vehicles : v.vehicle \in Range(Ids)

LEMMA VehiclesKept ==
    ASSUME [Next]_vars
    PROVE  vehicles \subseteq vehicles'
  BY WhoInsertsVehicles DEF SavePlanRevision

LEMMA ListedWhenInserted ==
    ASSUME NEW p, NEW r, NEW lines, orders' = orders \cup NewLines(p, r, lines),
           \A o \in orders : o.line.order \in Range(Ids),
           \A l \in lines : l.order \in Range(Ids)
    PROVE  \A o \in orders' : o.line.order \in Range(Ids)
  BY DEF NewLines

LEMMA IdsInvStep ==
    ASSUME IdsAreListed, TypeOK, IdsInv, [Next]_vars
    PROVE  IdsInv'
  <1>1. \A v \in vehicles' : v.vehicle \in Range(Ids)
    <2>1. ASSUME NEW c \in Commands, SavePlanRevision(c)
          PROVE  /\ vehicles' = vehicles \cup c.body.vehicles
                 /\ \A v \in c.body.vehicles : v.vehicle \in Range(Ids)
      BY <2>1 DEF SavePlanRevision, Admitted, IdsAreListed
    <2> QED
      BY <2>1, WhoInsertsVehicles DEF IdsInv
  <1>2. ASSUME NEW c \in Commands, SavePlanRevision(c)
        PROVE  \A o \in orders' : o.line.order \in Range(Ids)
    <2>1. /\ orders' = orders \cup NewLines(c.body.plan, c.body.rev, c.body.orders)
          /\ \A o \in c.body.orders : o.order \in Range(Ids)
      BY <1>2 DEF SavePlanRevision, Admitted, IdsAreListed
    <2> QED
      BY <2>1, ListedWhenInserted DEF IdsInv
  <1>3. ASSUME NEW c \in Commands, CreateNextDayDraft(c)
        PROVE  \A o \in orders' : o.line.order \in Range(Ids)
    <2>1. orders' = orders \cup NewLines(c.body.plan, "rev01", CandidateLines(c.body))
      BY <1>3 DEF CreateNextDayDraft
    <2>2. \A x \in StopsOf(c.body.vehicles) : x.order \in Range(Ids)
      BY <1>3 DEF CreateNextDayDraft, Admitted, IdsAreListed
    <2>3. ASSUME NEW l \in CandidateLines(c.body)
          PROVE  l.order \in Range(Ids)
      <3>1. PICK v \in c.body.vehicles : \E x \in v.stops :
               l = [order |-> x.order, agency |-> x.agency, cases |-> x.cases,
                    lot |-> x.lot, vehicle |-> v.vehicle, status |-> "CANDIDATE"]
        BY <2>3 DEF CandidateLines
      <3>2. PICK x \in v.stops : l.order = x.order
        BY <3>1
      <3>3. x \in StopsOf(c.body.vehicles)
        BY <3>2 DEF StopsOf
      <3> QED
        BY <2>2, <3>2, <3>3
    <2> QED
      BY <2>1, <2>3, ListedWhenInserted DEF IdsInv
  <1>4. ASSUME NEW c \in Commands, ActivateApprovedRepairPlan(c)
        PROVE  \A o \in orders' : o.line.order \in Range(Ids)
    <2> DEFINE source == Lines(c.body.plan, c.body.source)
    <2>1. PICK a \in approvals :
            orders' = orders \cup NewLines(c.body.plan, c.body.proposed,
                                           Repaired(source, a.diff))
      BY <1>4 DEF ActivateApprovedRepairPlan
    <2>2. \A l \in source : l.order \in Range(Ids) /\ l \in OrderLine
      BY DEF Lines, IdsInv, TypeOK, OrderRow
    <2> HIDE DEF source
    <2>3. \A l \in source : RepairedLine(l, a.diff).order = l.order
      BY <2>2 DEF RepairedLine, OrderLine
    <2>4. \A l \in Repaired(source, a.diff) : l.order \in Range(Ids)
      BY <2>2, <2>3 DEF Repaired
    <2> QED
      BY <2>1, <2>4, ListedWhenInserted DEF IdsInv
  <1> QED
    BY <1>1, <1>2, <1>3, <1>4, WhoInsertsOrders DEF IdsInv

-----------------------------------------------------------------------------
(* A derived repair fits *)

(* The repair can be carried out on a revision that exists, and so for good. *)
RepairStandsOn(diff, p, r) == PlanExists(p, r) /\ RepairFits(diff, Lines(p, r))

LEMMA RepairStandsOnKept ==
    ASSUME TypeOK, OrdersHaveParent, [Next]_vars, NEW diff, NEW p, NEW r,
           RepairStandsOn(diff, p, r)
    PROVE  RepairStandsOn(diff, p, r)'
  <1>1. PICK lines : lines = Lines(p, r)
    OBVIOUS
  <1>2. PlanExists(p, r)' /\ Lines(p, r)' = lines
    BY <1>1, PlanExistsKept, LinesKept DEF RepairStandsOn
  <1>3. RepairFits(diff, lines) => RepairFits(diff, lines)'
    BY VehiclesKept DEF RepairFits
  <1> QED
    BY <1>1, <1>2, <1>3 DEF RepairStandsOn, RepairFits

LEMMA FirstVehicleIsOne ==
    ASSUME NEW vs, vs # {}, \A v \in vs : v.vehicle \in Range(Ids)
    PROVE  FirstVehicle(vs) \in vs
  <1> DEFINE ids == {w.vehicle : w \in vs}
  <1>1. ids \in SUBSET Range(Ids) /\ ids # {}
    OBVIOUS
  <1>2. FirstOf(ids) \in ids
    BY <1>1, FirstOfIsIn
  <1>3. \E v \in vs : v.vehicle = FirstOf(ids)
    BY <1>2
  <1> QED
    BY <1>3 DEF FirstVehicle

LEMMA FirstLineIsOne ==
    ASSUME NEW ls, ls # {}, \A l \in ls : l.order \in Range(Ids)
    PROVE  FirstLine(ls) \in ls
  <1> DEFINE ids == {l.order : l \in ls}
  <1>1. ids \in SUBSET Range(Ids) /\ ids # {}
    OBVIOUS
  <1>2. FirstOf(ids) \in ids
    BY <1>1, FirstOfIsIn
  <1>3. \E l \in ls : l.order = FirstOf(ids)
    BY <1>2
  <1> QED
    BY <1>3 DEF FirstLine

(* The diff reroutes one of the stranded orders onto the target, which it fits, and
   turns another one into a pickup. *)
RepairDiffIs(diff, stranded, target) ==
    \E reroute, pickup \in stranded :
        /\ pickup # reroute /\ reroute.cases <= target.capacity - target.load
        /\ diff = [rerouteOrder |-> reroute.order, rerouteCases |-> reroute.cases,
                   rerouteTarget |-> target.vehicle, pickupOrder |-> pickup.order,
                   pickupCases |-> pickup.cases]

LEMMA RepairDiffIsOf ==
    ASSUME NEW target, NEW stranded, \A l \in stranded : l.order \in Range(Ids),
           \E x, y \in stranded : x # y, Fitting(stranded, target) # {}
    PROVE  RepairDiffIs(RepairDiff(stranded, target), stranded, target)
  <1> DEFINE reroute == FirstLine(Fitting(stranded, target))
             pickup == FirstLine(stranded \ {reroute})
  <1>1. Fitting(stranded, target) \subseteq stranded
    BY DEF Fitting
  <1>2. reroute \in Fitting(stranded, target)
    BY <1>1, FirstLineIsOne
  <1>3. stranded \ {reroute} # {}
    OBVIOUS
  <1>4. pickup \in stranded /\ pickup # reroute
    BY <1>3, FirstLineIsOne
  <1>5. reroute \in stranded /\ reroute.cases <= target.capacity - target.load
    BY <1>1, <1>2 DEF Fitting
  <1>6. RepairDiff(stranded, target)
        = [rerouteOrder |-> reroute.order, rerouteCases |-> reroute.cases,
           rerouteTarget |-> target.vehicle, pickupOrder |-> pickup.order,
           pickupCases |-> pickup.cases]
    BY DEF RepairDiff
  <1> HIDE DEF reroute, pickup
  <1> QED
    BY <1>4, <1>5, <1>6 DEF RepairDiffIs

LEMMA RepairDiffFits ==
    ASSUME TypeOK, NEW target \in vehicles, target.operational,
           NEW lines \in SUBSET OrderLine, LinesKeyed(lines),
           \A l \in lines : l.order \in Range(Ids),
           NEW stranded \in SUBSET lines, \E x, y \in stranded : x # y,
           Fitting(stranded, target) # {}
    PROVE  RepairFits(RepairDiff(stranded, target), lines)
  <1> DEFINE diff == RepairDiff(stranded, target)
  <1>1. RepairDiffIs(diff, stranded, target)
    BY RepairDiffIsOf
  <1>2. PICK reroute, pickup \in stranded :
           /\ pickup # reroute /\ reroute.cases <= target.capacity - target.load
           /\ diff = [rerouteOrder |-> reroute.order, rerouteCases |-> reroute.cases,
                      rerouteTarget |-> target.vehicle, pickupOrder |-> pickup.order,
                      pickupCases |-> pickup.cases]
    BY <1>1 DEF RepairDiffIs
  <1>3. /\ diff.rerouteOrder = reroute.order /\ diff.rerouteCases = reroute.cases
        /\ diff.rerouteTarget = target.vehicle
        /\ diff.pickupOrder = pickup.order /\ diff.pickupCases = pickup.cases
    BY <1>2
  <1> HIDE DEF diff
  <1>4. target.load + diff.rerouteCases <= target.capacity
    <2>1. /\ target.load \in Nat /\ target.capacity \in Nat
          /\ diff.rerouteCases \in Nat
      BY <1>3 DEF TypeOK, VehicleRow, OrderLine, PosInt
    <2> QED
      BY <1>2, <1>3, <2>1
  <1>5. reroute.order # pickup.order
    BY <1>2 DEF LinesKeyed
  <1>6. \A l \in lines : /\ l.order = reroute.order => l = reroute
                         /\ l.order = pickup.order => l = pickup
    BY DEF LinesKeyed
  <1>7. RepairFits(diff, lines)
    BY <1>3, <1>4, <1>5, <1>6 DEF RepairFits
  <1> QED
    BY <1>7 DEF diff

LEMMA FeasibleRepairStands ==
    ASSUME TypeOK, OrdersAreKeyed, IdsInv, NEW q, RepairFeasible(q)
    PROVE  LET c == RepairProposal(q)
           IN  RepairStandsOn(c.body.diff, c.body.plan, c.body.source)
  <1> DEFINE c == RepairProposal(q)
  <1>1. PICK i \in ActiveOfToday : ActiveOfToday = {i}
    BY DEF RepairFeasible
  <1> DEFINE source == plans[i].rev
             stranded == Stranded(q.body, source)
             target == FirstVehicle(OtherVehicles(q.body))
             lines == Lines(PlanId, source)
  <1>2. (CHOOSE j \in ActiveOfToday : TRUE) = i
    BY <1>1
  <1>3. /\ c.body.plan = PlanId /\ c.body.source = source
        /\ c.body.diff = RepairDiff(stranded, target)
    BY <1>2, RepairProposalFields
  <1>4. /\ \E x, y \in stranded : x # y
        /\ OtherVehicles(q.body) # {} /\ Fitting(stranded, target) # {}
    BY DEF RepairFeasible
  <1>5. target \in vehicles /\ target.operational
    <2>1. \A v \in OtherVehicles(q.body) :
             v \in vehicles /\ v.operational /\ v.vehicle \in Range(Ids)
      BY DEF OtherVehicles, IdsInv
    <2> QED
      BY <1>4, <2>1, FirstVehicleIsOne
  <1>6. /\ lines \in SUBSET OrderLine /\ LinesKeyed(lines)
        /\ \A l \in lines : l.order \in Range(Ids)
    <2>1. lines \subseteq OrderLine /\ LinesKeyed(lines)
      BY LinesOfKeyed
    <2>2. \A l \in lines : l.order \in Range(Ids)
      BY DEF Lines, IdsInv
    <2> QED
      BY <2>1, <2>2
  <1>7. stranded \in SUBSET lines
    BY DEF Stranded
  <1>8. PlanExists(PlanId, source)
    BY <1>1 DEF ActiveOfToday, ActiveRows, PlanExists
  <1> HIDE DEF source, stranded, target, lines, c
  <1>9. RepairFits(RepairDiff(stranded, target), lines)
    BY <1>4, <1>5, <1>6, <1>7, RepairDiffFits
  <1>10. RepairStandsOn(RepairDiff(stranded, target), PlanId, source)
    BY <1>8, <1>9 DEF RepairStandsOn, lines
  <1> QED
    BY <1>3, <1>10 DEF c

-----------------------------------------------------------------------------
(* No two repairs are proposed for one revision *)

(* What is about to be proposed fits. *)
FaultsFit ==
    \A j \in jobs : j.request.kind = "FAULT" /\ j.step # "READ" =>
        LET b == j.command.body IN RepairStandsOn(b.diff, b.plan, b.source)

(* What has been proposed fits, and has settled its revision's key. *)
Proposals == {k \in constraints : k.type = "REPAIR_PROPOSAL"}
KeyOfRepair(rev) == Today \o ":" \o rev \o ":repair-proposal"
ProposalStandsAlone(k) ==
    /\ k.plan = PlanId /\ RepairStandsOn(k.hash[3], k.plan, k.rev)
    /\ \E r \in receipts : r.key = KeyOfRepair(k.rev)
ProposalsInv ==
    /\ \A k \in Proposals : ProposalStandsAlone(k)
    /\ \A k, m \in Proposals : k.plan = m.plan /\ k.rev = m.rev => k = m

PlanningInv == JobsInv /\ IdsInv /\ OrdersHaveParent /\ OrdersAreKeyed
               /\ FaultsFit /\ ProposalsInv

LEMMA FaultsFitStep ==
    ASSUME TypeOK, DayTyped, PlanningInv, [DayNext]_dayVars, [Next]_vars
    PROVE  FaultsFit'
  <1> DEFINE Stands(j) == LET b == j.command.body
                          IN  RepairStandsOn(b.diff, b.plan, b.source)
             IsFault(j) == j.request.kind = "FAULT" /\ j.step # "READ"
  <1>1. ASSUME NEW j \in jobs, IsFault(j)
        PROVE  Stands(j) /\ Stands(j)'
    <2>1. Stands(j)
      BY <1>1 DEF PlanningInv, FaultsFit
    <2>2. PICK d, p, r : d = j.command.body.diff /\ p = j.command.body.plan
                         /\ r = j.command.body.source
      OBVIOUS
    <2>3. RepairStandsOn(d, p, r)'
      BY <2>1, <2>2, RepairStandsOnKept DEF PlanningInv
    <2> QED
      BY <2>1, <2>2, <2>3
  <1>2. CASE jobs' \subseteq jobs
    BY <1>1, <1>2 DEF FaultsFit
  <1>3. CASE JobArrives
    <2>1. ASSUME NEW q \in Requests, q.kind = "FAULT"
          PROVE  FirstStep(q).step = "READ"
      BY <2>1, JobFields DEF FirstStep
    <2>2. PICK q \in Requests : jobs' = jobs \cup {FirstStep(q)}
      BY <1>3 DEF JobArrives
    <2>3. FirstStep(q).request = q
      BY FirstStepFits
    <2> QED
      BY <1>1, <2>1, <2>2, <2>3 DEF FaultsFit
  <1>4. CASE UNCHANGED vars /\ JobDerives
    <2>0. PICK j \in jobs : \E c :
            /\ jobs' = (jobs \ {j}) \cup {Job(j.request, j.n, "GATE", c)}
            /\ j.request.kind = "FAULT" =>
                  c = RepairProposal(j.request) /\ RepairFeasible(j.request)
      BY <1>4 DEF JobDerives, Derives
    <2>1. PICK c :
            /\ jobs' = (jobs \ {j}) \cup {Job(j.request, j.n, "GATE", c)}
            /\ j.request.kind = "FAULT" =>
                  c = RepairProposal(j.request) /\ RepairFeasible(j.request)
      BY <2>0
    <2> DEFINE k == Job(j.request, j.n, "GATE", c)
    <2>2. k.request = j.request /\ k.command = c
      BY JobFields
    <2>3. ASSUME IsFault(k)
          PROVE  Stands(k)'
      <3>1. RepairStandsOn(c.body.diff, c.body.plan, c.body.source)
        BY <2>1, <2>2, <2>3, FeasibleRepairStands DEF PlanningInv
      <3>2. PICK d, p, r : d = c.body.diff /\ p = c.body.plan /\ r = c.body.source
        OBVIOUS
      <3>3. RepairStandsOn(d, p, r)'
        BY <3>1, <3>2, RepairStandsOnKept DEF PlanningInv
      <3> QED
        BY <2>2, <3>2, <3>3
    <2> HIDE DEF k
    <2> QED
      BY <1>1, <2>1, <2>3 DEF FaultsFit, k
  <1>5. CASE JobPasses
    <2>1. PICK j \in jobs :
            /\ j.step = "GATE"
            /\ jobs' = (jobs \ {j}) \cup {Job(j.request, j.n, "LEDGER", j.command)}
      BY <1>5 DEF JobPasses
    <2> DEFINE k == Job(j.request, j.n, "LEDGER", j.command)
    <2>2. k.request = j.request /\ k.command = j.command
      BY JobFields
    <2>3. ASSUME IsFault(k)
          PROVE  Stands(k)'
      BY <1>1, <2>1, <2>2, <2>3
    <2> HIDE DEF k
    <2> QED
      BY <1>1, <2>1, <2>3 DEF FaultsFit, k
  <1> QED
    BY <1>2, <1>3, <1>4, <1>5, DaySteps DEF PlanningInv

LEMMA WhoInsertsConstraints ==
    ASSUME NEW c, Execute(c)
    PROVE  constraints' = constraints \/ PersistRepairProposal(c) \/ CreateNextDayDraft(c)
  BY DEF Execute, DenyRole, DenyStaleRevision, RecordRefusal, SavePlanRevision,
         PersistRepairApproval, ActivateApprovedRepairPlan, InvalidatePlan,
         PersistCoordinator, OpenRecallIncident, SetIncidentStatus,
         ActivateMovementBarrier, AllocateSafeStock, RecordAcknowledgmentHold,
         ApplyPartnerEvidence, DenyPartnerEvidence, ReaffirmNextDayDraft,
         dataVars, planVars

(* The handler of a vehicle fault is the one that proposes. *)
LEMMA ProposedByAFault ==
    ASSUME OnlyFaultsPropose, JobsInv, FaultsFit, NEW c, Sent(c),
           c.type = "PERSIST_REPAIR_PROPOSAL"
    PROVE  /\ c.body.plan = PlanId /\ c.key = KeyOfRepair(c.body.source)
           /\ RepairStandsOn(c.body.diff, c.body.plan, c.body.source)
  <1>1. PICK j \in jobs : j.step = "LEDGER" /\ c = j.command
    BY DEF Sent, OnlyFaultsPropose
  <1> DEFINE q == j.request
  <1>2. q.kind \in Kinds /\ CommandFits(q, c)
    BY <1>1, DayConstants DEF JobsInv
  <1>3. /\ MorningPlan(q).type = "SAVE_PLAN_REVISION"
        /\ Waiting(q).type = "PERSIST_COORDINATOR"
    BY DEF MorningPlan, Waiting, PlannerCmd, Cmd
  <1>4. q.kind = "FAULT"
    BY <1>2, <1>3 DEF Kinds, CommandFits
  <1> QED
    BY <1>1, <1>2, <1>4 DEF CommandFits, FaultsFit, RepairKey, KeyOfRepair

LEMMA ProposalStaysAlone ==
    ASSUME TypeOK, PlanningInv, [Next]_vars, NEW k, ProposalStandsAlone(k)
    PROVE  ProposalStandsAlone(k)'
  <1>1. PICK d, p, r : d = k.hash[3] /\ p = k.plan /\ r = k.rev
    OBVIOUS
  <1>2. RepairStandsOn(d, p, r)'
    BY <1>1, RepairStandsOnKept DEF PlanningInv, ProposalStandsAlone
  <1> QED
    BY <1>1, <1>2, ReceiptsKept DEF ProposalStandsAlone

LEMMA ProposalsInvStep ==
    ASSUME OnlyFaultsPropose, TypeOK, DayTyped, PlanningInv, [DayNext]_dayVars,
           [Next]_vars
    PROVE  ProposalsInv'
  <1>1. \A k \in Proposals : ProposalStandsAlone(k)'
    BY ProposalStaysAlone DEF PlanningInv, ProposalsInv
  <1>2. CASE constraints' = constraints
    BY <1>1, <1>2 DEF PlanningInv, ProposalsInv, Proposals
  <1>3. ASSUME NEW c \in Commands, CreateNextDayDraft(c)
        PROVE  ProposalsInv'
    <2>1. constraints' = constraints \cup InheritedConstraints(c.body)
      BY <1>3 DEF CreateNextDayDraft
    <2>2. \A k \in InheritedConstraints(c.body) : k.type # "REPAIR_PROPOSAL"
      BY DEF InheritedConstraints, Inherited
    <2>3. Proposals' = Proposals
      BY <2>1, <2>2 DEF Proposals
    <2> QED
      BY <1>1, <2>3 DEF PlanningInv, ProposalsInv
  <1>4. ASSUME NEW c \in Commands, Sent(c), PersistRepairProposal(c)
        PROVE  ProposalsInv'
    <2> DEFINE m == [plan |-> c.body.plan, rev |-> c.body.source,
                     type |-> "REPAIR_PROPOSAL", subject |-> c.body.proposal,
                     ref |-> c.body.vehicle, cases |-> c.body.committed,
                     hash |-> DiffHash(c.body.source, c.body.proposed, c.body.diff)]
    <2>1. /\ constraints' = constraints \cup {m} /\ ~Settled(c) /\ Succeed(c)
          /\ c.type = "PERSIST_REPAIR_PROPOSAL"
      BY <1>4 DEF PersistRepairProposal, Admitted
    <2>2. /\ m.plan = c.body.plan /\ m.rev = c.body.source
          /\ m.hash[3] = c.body.diff
      BY DEF DiffHash
    <2> HIDE DEF m
    <2>3. /\ c.body.plan = PlanId /\ c.key = KeyOfRepair(c.body.source)
          /\ RepairStandsOn(c.body.diff, c.body.plan, c.body.source)
      BY <1>4, <2>1, ProposedByAFault DEF PlanningInv
    <2>4. RepairStandsOn(m.hash[3], m.plan, m.rev)'
      <3>1. PICK d, p, r : d = m.hash[3] /\ p = m.plan /\ r = m.rev
        OBVIOUS
      <3>2. RepairStandsOn(d, p, r)'
        BY <2>2, <2>3, <3>1, RepairStandsOnKept DEF PlanningInv
      <3> QED
        BY <3>1, <3>2
    <2>5. \E r \in receipts' : r.key = KeyOfRepair(m.rev)
      <3>1. Receipt(c, "SUCCESS", ReceiptRevision(c)).key = c.key
        BY DEF Receipt
      <3> QED
        BY <2>1, <2>2, <2>3, <3>1 DEF Succeed
    <2>6. ProposalStandsAlone(m)'
      BY <2>2, <2>3, <2>4, <2>5 DEF ProposalStandsAlone
    <2>7. \A k \in Proposals : k.rev # m.rev
      BY <2>1, <2>2, <2>3 DEF PlanningInv, ProposalsInv, ProposalStandsAlone, Settled
    <2>8. Proposals' \subseteq Proposals \cup {m}
      BY <2>1 DEF Proposals
    <2> QED
      BY <1>1, <2>6, <2>7, <2>8 DEF PlanningInv, ProposalsInv
  <1>5. UNCHANGED vars => constraints' = constraints
    BY DEF vars, planVars
  <1> QED
    BY <1>2, <1>3, <1>4, <1>5, DaySteps, WhoInsertsConstraints DEF PlanningInv

LEMMA PlanningInvariant ==
    ASSUME OnlyFaultsPropose, IdsAreListed
    PROVE  DaySpec => []PlanningInv
  <1>1. DayInit => PlanningInv
    BY DEF DayInit, Init, PlanningInv, JobsInv, IdsInv, OrdersHaveParent,
           OrdersAreKeyed, FaultsFit, ProposalsInv, Proposals
  <1>2. TypeOK /\ DayTyped /\ PlanningInv /\ [DayNext]_dayVars => PlanningInv'
    <2> SUFFICES ASSUME TypeOK, DayTyped, PlanningInv, [DayNext]_dayVars
                 PROVE  PlanningInv'
      OBVIOUS
    <2>1. [Next]_vars
      BY DayStepIsLedgerStep
    <2>2. JobsInv' /\ IdsInv' /\ OrdersHaveParent' /\ OrdersAreKeyed'
      BY <2>1, JobsInvStep, IdsInvStep, OrdersHaveParentStep, OrdersAreKeyedStep
      DEF PlanningInv
    <2>3. FaultsFit' /\ ProposalsInv'
      BY <2>1, FaultsFitStep, ProposalsInvStep
    <2> QED
      BY <2>2, <2>3 DEF PlanningInv
  <1> QED
    BY <1>1, <1>2, DayUsesLedger, TypeCorrect, DayTypedInvariant, PTL DEF DaySpec

(* A revision has one repair proposal at most, whichever faults are reported and
   however often, and that one can be carried out on the orders and the vehicle
   headroom of the revision, in whatever order the handlers read and commit. *)
THEOREM ProposalsAreAlone ==
    ASSUME OnlyFaultsPropose, IdsAreListed
    PROVE  DaySpec => []ProposalsDoNotCompete
  <1>1. PlanningInv => ProposalsDoNotCompete
    BY DEF PlanningInv, ProposalsInv, Proposals, ProposalStandsAlone, RepairStandsOn,
           ProposalsDoNotCompete
  <1> QED
    BY <1>1, PlanningInvariant, PTL

-----------------------------------------------------------------------------
(* An answer agrees with the ledger *)

(* What an answer to a request says of the tables. *)
Reported(q) ==
    /\ q.kind = "PLAN_DAY" => PlanExists(q.body.plan, "rev07")
    /\ q.kind = "PLAN_NEXT_DAY" => PlanExists(NextPlanId, "rev01")
    /\ q.kind = "FAULT" =>
          \E k \in constraints : k.type = "REPAIR_PROPOSAL" /\ k.plan = PlanId
    /\ q.kind = "WAIT" => \E k \in coordinators : k.coordinator = q.body.coordinator
    /\ q.kind = "EVIDENCE" => \E e \in evidence : e.event = q.id /\ e.decision = "APPLIED"
DenialRecorded(q) ==
    \E r \in receipts : r.key = "partner-evidence:" \o q.id /\ r.status = "DENIED"
DayHasPlan(p) == \E i \in DOMAIN plans : plans[i].plan = p

AnswerTells(q, why) ==
    /\ why \in {"COMMITTED", "REPLAYED"} => Reported(q)
    /\ why = "DENIED" => DenialRecorded(q)
    /\ q.kind = "PLAN_DAY" /\ why = "REJECTED" => DayHasPlan(q.body.plan)

AnswersInv ==
    \A a \in answers : a.request \in Requests /\ AnswerTells(a.request, a.why)

(* Only what the request carries needs nothing read. *)
ReadersInv ==
    \A j \in jobs : j.step = "READ" => j.request.kind \notin {"PLAN_DAY", "WAIT"}

(* The first transaction of all saves a plan. *)
SavedFirst ==
    \/ plans = <<>> /\ receipts = {}
    \/ \E i \in DOMAIN plans, c \in Commands :
          c.type = "SAVE_PLAN_REVISION" /\ plans[i].plan = c.body.plan

LEMMA FirstTransactionSaves ==
    ASSUME NEW c, Execute(c), plans = <<>>
    PROVE  SavePlanRevision(c)
  <1>1. ~TenantExists
    BY DEF TenantExists
  <1>2. \A type : Admitted(c, type) => type = "SAVE_PLAN_REVISION"
    BY <1>1 DEF Admitted
  <1> QED
    BY <1>1, <1>2
    DEF Execute, DenyRole, DenyStaleRevision, RecordRefusal,
        PersistRepairProposal, PersistRepairApproval,
        ActivateApprovedRepairPlan, InvalidatePlan, PersistCoordinator,
        OpenRecallIncident, SetIncidentStatus, ActivateMovementBarrier,
        AllocateSafeStock, RecordAcknowledgmentHold, ApplyPartnerEvidence,
        DenyPartnerEvidence, CreateNextDayDraft, ReaffirmNextDayDraft

LEMMA SavedFirstStep ==
    ASSUME TypeOK, SavedFirst, [Next]_vars
    PROVE  SavedFirst'
  <1>1. CASE \E i \in DOMAIN plans, c \in Commands :
               c.type = "SAVE_PLAN_REVISION" /\ plans[i].plan = c.body.plan
    BY <1>1, PlansKept DEF SavedFirst
  <1>2. CASE plans = <<>> /\ receipts = {}
    <2>1. CASE Tick \/ UNCHANGED vars
      BY <1>2, <2>1 DEF Tick, vars, planVars, SavedFirst
    <2>2. ASSUME NEW c \in Commands, Execute(c)
          PROVE  SavedFirst'
      <3>1. SavePlanRevision(c)
        BY <1>2, <2>2, FirstTransactionSaves
      <3>2. PICK row : PlanAdded(row) /\ c.type = "SAVE_PLAN_REVISION"
                       /\ row.plan = c.body.plan
        BY <3>1, SaveAdds
      <3>3. Len(plans) + 1 \in DOMAIN plans' /\ plans'[Len(plans) + 1].plan = c.body.plan
        BY <3>2, PlansDomain DEF PlanAdded
      <3> QED
        BY <3>2, <3>3 DEF SavedFirst
    <2> QED
      BY <2>1, <2>2 DEF Next
  <1> QED
    BY <1>1, <1>2 DEF SavedFirst

LEMMA ReadersInvStep ==
    ASSUME DayTyped, JobsInv, ReadersInv, [DayNext]_dayVars
    PROVE  ReadersInv'
  <1>1. CASE JobArrives
    <2>1. ASSUME NEW q \in Requests, q.kind \in {"PLAN_DAY", "WAIT"}
          PROVE  FirstStep(q).step # "READ"
      <3>1. CASE q.kind = "PLAN_DAY"
        BY <3>1, JobFields DEF FirstStep
      <3>2. CASE q.kind = "WAIT"
        BY <3>2, JobFields DEF FirstStep
      <3> QED
        BY <2>1, <3>1, <3>2
    <2> QED
      BY <1>1, <2>1, FirstStepFits DEF JobArrives, ReadersInv
  <1>2. CASE JobDerives
    BY <1>2, JobFields DEF JobDerives, ReadersInv
  <1>3. CASE JobPasses
    BY <1>3, JobFields DEF JobPasses, ReadersInv
  <1>4. CASE jobs' \subseteq jobs
    BY <1>4 DEF ReadersInv
  <1> QED
    BY <1>1, <1>2, <1>3, <1>4, DaySteps

LEMMA AnswerTellsKept ==
    ASSUME TypeOK, [Next]_vars, NEW q, NEW why, AnswerTells(q, why)
    PROVE  AnswerTells(q, why)'
  <1>1. Reported(q) => Reported(q)'
    BY PlanExistsKept, PlannedAndProvenKept DEF Reported
  <1>2. DenialRecorded(q) => DenialRecorded(q)'
    BY ReceiptsKept DEF DenialRecorded
  <1>3. DayHasPlan(q.body.plan) => DayHasPlan(q.body.plan)'
    BY PlansKept DEF DayHasPlan
  <1> QED
    BY <1>1, <1>2, <1>3 DEF AnswerTells

LEMMA AnsweringTells ==
    ASSUME NEW kind \in Kinds, NEW w \in {"gate", "denied", "aborted", "collided"}
    PROVE  LET why == Answering[kind][w]
           IN  /\ why \in {"RETRY", "REJECTED", "DENIED"}
               /\ why = "DENIED" => kind = "EVIDENCE" /\ w = "denied"
               /\ why = "REJECTED" /\ kind = "PLAN_DAY" => w = "collided"
  <1>1. CASE kind = "PLAN_DAY"
    BY <1>1 DEF Answering, MorningAnswers
  <1>2. CASE kind = "PLAN_NEXT_DAY"
    BY <1>2 DEF Answering, NextDayAnswers
  <1>3. CASE kind = "FAULT"
    BY <1>3 DEF Answering, OperatorAnswers
  <1>4. CASE kind = "WAIT"
    BY <1>4 DEF Answering, OperatorAnswers
  <1>5. CASE kind = "EVIDENCE"
    BY <1>5 DEF Answering, EvidenceAnswers
  <1> QED
    BY <1>1, <1>2, <1>3, <1>4, <1>5 DEF Kinds

LEMMA AnsweredIsRecorded ==
    ASSUME TypeOK, ReceiptsInv, NEW c, Answered(c), ~Succeeded(c)
    PROVE  \E r \in receipts' : r.key = c.key /\ r.status = "DENIED"
  <1>1. c \in Commands /\ [Next]_vars
    BY DEF Answered, Next
  <1>2. \E r \in receipts' : r.key = c.key
    <2>1. CASE Settled(c)
      BY <2>1 DEF Answered, vars
    <2>2. CASE ~Settled(c)
      <3>1. PICK status, rev : receipts' = receipts \cup {Receipt(c, status, rev)}
        BY <1>1, <2>2, TransactionSettles DEF Answered, Settles, ReceiptsInv
      <3>2. Receipt(c, status, rev).key = c.key
        BY DEF Receipt
      <3> QED
        BY <3>1, <3>2
    <2> QED
      BY <2>1, <2>2
  <1>3. \A r \in receipts' : r.status \in {"SUCCESS", "DENIED"}
    <2>1. TypeOK'
      BY <1>1, TypeStep
    <2> QED
      BY <2>1 DEF TypeOK, Receipts
  <1> QED
    BY <1>2, <1>3 DEF Succeeded

(* What a receipt of success tells of the request it was asked for. *)
LEMMA SuccessIsReported ==
    ASSUME TypeOK, ReceiptsInv, NEW q \in Requests, NEW c, CommandFits(q, c),
           Answered(c), Succeeded(c)
    PROVE  Reported(q)'
  <1>1. Effect(c)' /\ c \in Commands
    BY AnsweredTellsTheTruth DEF Answered
  <1>2. CASE q.kind = "PLAN_DAY"
    <2>1. c.type = "SAVE_PLAN_REVISION" /\ c.body = q.body
      BY <1>2 DEF CommandFits, MorningPlan, PlannerCmd, Cmd
    <2>2. c.body.rev = "rev07"
      BY <1>1, <2>1, PayloadTyping DEF SavePlanRevisionPayload
    <2> QED
      BY <1>1, <1>2, <2>1, <2>2 DEF Effect, Reported
  <1>3. CASE q.kind = "WAIT"
    <2>1. c.type = "PERSIST_COORDINATOR" /\ c.body = q.body
      BY <1>3 DEF CommandFits, Waiting, Cmd
    <2> QED
      BY <1>1, <1>3, <2>1 DEF Effect, CoordinatorStands, Reported
  <1>4. CASE q.kind = "PLAN_NEXT_DAY"
    BY <1>1, <1>4 DEF CommandFits, Effect, Reported
  <1>5. CASE q.kind = "FAULT"
    BY <1>1, <1>5 DEF CommandFits, Effect, ProposalStands, Reported
  <1>6. CASE q.kind = "EVIDENCE"
    BY <1>1, <1>6 DEF CommandFits, Effect, EvidenceStands, Reported
  <1> QED
    BY <1>2, <1>3, <1>4, <1>5, <1>6, DayConstants DEF Kinds

(* A morning plan whose key is taken by another request is one the day has
   already, also when that request was denied. *)
LEMMA TakenMorningKey ==
    ASSUME MorningKeysTell, OnePlanOfTheDay, TypeOK, ReceiptsInv, SavedFirst,
           NEW q \in Requests, q.kind = "PLAN_DAY", Collides(MorningPlan(q))
    PROVE  DayHasPlan(q.body.plan)
  <1>1. PICK r \in receipts : r.key = MorningPlan(q).key
    BY DEF Collides
  <1>2. PICK d \in Commands : ReceiptOf(r, d)
    BY DEF ReceiptsInv, ReceiptsAreTrue
  <1>3. d.type = "SAVE_PLAN_REVISION" /\ d.body.plan = q.body.plan
    BY <1>1, <1>2 DEF ReceiptOf, MorningKeysTell
  <1>4. PICK i \in DOMAIN plans, c \in Commands :
           c.type = "SAVE_PLAN_REVISION" /\ plans[i].plan = c.body.plan
    BY DEF SavedFirst
  <1>5. plans[i].plan = q.body.plan
    BY <1>3, <1>4 DEF OnePlanOfTheDay
  <1> QED
    BY <1>5 DEF DayHasPlan

Answer(q, why) == [request |-> q, why |-> why]
Answers(q) == \/ answers' = answers
              \/ \E why : /\ answers' = answers \cup {Answer(q, why)}
                          /\ AnswerTells(q, why)'

LEMMA StoppedAnswers ==
    ASSUME NEW j, j.request.kind \in Kinds,
           NEW w \in {"gate", "denied", "aborted", "collided"}, EndsAs(j, w),
           w = "denied" /\ j.request.kind = "EVIDENCE" => DenialRecorded(j.request)',
           w = "collided" /\ j.request.kind = "PLAN_DAY" =>
              DayHasPlan(j.request.body.plan)'
    PROVE  Answers(j.request)
  <1> DEFINE q == j.request
             why == Answering[q.kind][w]
  <1>1. /\ why \in {"RETRY", "REJECTED", "DENIED"}
        /\ why = "DENIED" => q.kind = "EVIDENCE" /\ w = "denied"
        /\ why = "REJECTED" /\ q.kind = "PLAN_DAY" => w = "collided"
    BY AnsweringTells
  <1>2. Ends(j, why)
    BY DEF EndsAs
  <1> HIDE DEF why
  <1>3. CASE why = "RETRY"
    BY <1>2, <1>3 DEF Ends, Answers
  <1>4. CASE why # "RETRY"
    <2>1. answers' = answers \cup {Answer(q, why)}
      BY <1>2, <1>4 DEF Ends, Answer
    <2>2. AnswerTells(q, why)'
      BY <1>1, <1>4 DEF AnswerTells
    <2> QED
      BY <2>1, <2>2 DEF Answers
  <1> QED
    BY <1>3, <1>4

AnsweringInv == /\ JobsInv /\ ReadersInv /\ ReceiptsInv /\ SavedFirst /\ AnswersInv

LEMMA AnswersOfStep ==
    ASSUME MorningKeysTell, OnePlanOfTheDay, TypeOK, AnsweringInv,
           NEW j \in jobs, JobStep(j)
    PROVE  Answers(j.request)
  <1> DEFINE q == j.request
             c == j.command
  <1>1. /\ q \in Requests /\ q.kind \in Kinds
        /\ j.step # "READ" => CommandFits(q, c)
    BY DayConstants DEF AnsweringInv, JobsInv
  <1>2. CASE TooOld(j)
    <2>1. answers' = answers \cup {Answer(q, "STALE")}
      BY <1>2 DEF TooOld, Ends, Answer
    <2>2. AnswerTells(q, "STALE")'
      BY DEF AnswerTells
    <2> QED
      BY <2>1, <2>2 DEF Answers
  <1>3. CASE Derive(j) \/ Pass(j)
    <2>1. answers' = answers
      BY <1>3 DEF Derive, Pass, Reaches
    <2> QED
      BY <2>1 DEF Answers
  <1>4. CASE Infeasible(j)
    <2>1. j.step = "READ" /\ answers' = answers \cup {Answer(q, "REJECTED")}
      BY <1>4 DEF Infeasible, Ends, Answer
    <2>2. q.kind # "PLAN_DAY"
      BY <2>1 DEF AnsweringInv, ReadersInv
    <2>3. AnswerTells(q, "REJECTED")'
      BY <2>2 DEF AnswerTells
    <2> QED
      BY <2>1, <2>3 DEF Answers
  <1>5. CASE Stop(j)
    BY <1>1, <1>5, StoppedAnswers DEF Stop
  <1>6. CASE Fail(j) \/ LoseAnswer(j)
    BY <1>6 DEF Fail, LoseAnswer, Ends, Answers
  <1>7. CASE CallLedger(j)
    <2>1. j.step # "READ" /\ Answered(c)
      BY <1>7 DEF CallLedger
    <2>2. CASE Succeeded(c)
      <3>1. PICK why \in {"REPLAYED", "COMMITTED"} : Ends(j, why)
        BY <1>7, <2>2 DEF CallLedger
      <3>2. Reported(q)'
        BY <1>1, <2>1, <2>2, SuccessIsReported DEF AnsweringInv
      <3>3. answers' = answers \cup {Answer(q, why)} /\ AnswerTells(q, why)'
        BY <3>1, <3>2 DEF Ends, Answer, AnswerTells
      <3> QED
        BY <3>3 DEF Answers
    <2>3. CASE ~Succeeded(c)
      <3>1. EndsAs(j, "denied")
        BY <1>7, <2>3 DEF CallLedger
      <3>2. \E r \in receipts' : r.key = c.key /\ r.status = "DENIED"
        BY <2>1, <2>3, AnsweredIsRecorded DEF AnsweringInv
      <3>3. q.kind = "EVIDENCE" => DenialRecorded(q)'
        BY <1>1, <2>1, <3>2 DEF CommandFits, DenialRecorded
      <3> QED
        BY <1>1, <3>1, <3>3, StoppedAnswers
    <2> QED
      BY <2>2, <2>3
  <1>8. CASE Refused(j)
    <2>1. j.step # "READ" /\ UNCHANGED vars
      BY <1>8 DEF Refused
    <2>2. CASE EndsAs(j, "aborted")
      BY <1>1, <2>2, StoppedAnswers
    <2>3. CASE Collides(c) /\ EndsAs(j, "collided")
      <3>1. q.kind = "PLAN_DAY" => DayHasPlan(q.body.plan)
        BY <1>1, <2>1, <2>3, TakenMorningKey DEF CommandFits, AnsweringInv
      <3>2. plans' = plans
        BY <2>1 DEF vars, planVars
      <3>3. q.kind = "PLAN_DAY" => DayHasPlan(q.body.plan)'
        BY <3>1, <3>2 DEF DayHasPlan
      <3> QED
        BY <1>1, <2>3, <3>3, StoppedAnswers
    <2>4. (Collides(c) /\ EndsAs(j, "collided")) \/ EndsAs(j, "aborted")
      BY <1>8 DEF Refused
    <2> QED
      BY <2>2, <2>3, <2>4
  <1> QED
    BY <1>2, <1>3, <1>4, <1>5, <1>6, <1>7, <1>8 DEF JobStep

LEMMA AnswersInvStep ==
    ASSUME MorningKeysTell, OnePlanOfTheDay, TypeOK, DayTyped, AnsweringInv,
           [DayNext]_dayVars
    PROVE  AnswersInv'
  <1>1. ASSUME NEW q \in Requests, NEW why, AnswerTells(q, why)
        PROVE  AnswerTells(q, why)'
    BY <1>1, DayStepIsLedgerStep, AnswerTellsKept
  <1>2. \A a \in answers : a.request \in Requests /\ AnswerTells(a.request, a.why)'
    <2>1. ASSUME NEW a \in answers
          PROVE  a.request \in Requests /\ AnswerTells(a.request, a.why)'
      <3>1. a.request \in Requests /\ AnswerTells(a.request, a.why)
        BY DEF AnsweringInv, AnswersInv
      <3>2. PICK q, why : q = a.request /\ why = a.why
        OBVIOUS
      <3>3. AnswerTells(q, why)'
        BY <1>1, <3>1, <3>2
      <3> QED
        BY <3>1, <3>2, <3>3
    <2> QED
      BY <2>1
  <1>3. CASE answers' = answers
    BY <1>2, <1>3 DEF AnswersInv
  <1>4. ASSUME NEW q \in Requests, NEW why,
               answers' = answers \cup {Answer(q, why)}, AnswerTells(q, why)'
        PROVE  AnswersInv'
    <2>1. Answer(q, why).request = q /\ Answer(q, why).why = why
      BY DEF Answer
    <2> QED
      BY <1>2, <1>4, <2>1 DEF AnswersInv
  <1>5. CASE \E j \in jobs : JobStep(j)
    <2>1. PICK j \in jobs : JobStep(j)
      BY <1>5
    <2>2. Answers(j.request) /\ j.request \in Requests
      BY <2>1, AnswersOfStep DEF AnsweringInv, JobsInv
    <2> QED
      BY <1>3, <1>4, <2>2 DEF Answers
  <1>6. CASE \E k \in DOMAIN Traffic : OtherCall(k)
    BY <1>3, <1>6 DEF OtherCall
  <1>7. CASE \E q \in Requests : Deliver(q)
    BY <1>3, <1>7 DEF Deliver
  <1>8. CASE UNCHANGED dayVars
    BY <1>3, <1>8 DEF dayVars, handlerVars
  <1> QED
    BY <1>5, <1>6, <1>7, <1>8 DEF DayNext

LEMMA AnsweringInvariant ==
    ASSUME MorningKeysTell, OnePlanOfTheDay
    PROVE  DaySpec => []AnsweringInv
  <1>1. DayInit => AnsweringInv
    BY DEF DayInit, Init, AnsweringInv, JobsInv, ReadersInv, ReceiptsInv,
           OrdersHaveParent, ReceiptsAreUnique, ReceiptsAreTrue, SavedFirst, AnswersInv
  <1>2. TypeOK /\ DayTyped /\ AnsweringInv /\ [DayNext]_dayVars => AnsweringInv'
    <2> SUFFICES ASSUME TypeOK, DayTyped, AnsweringInv, [DayNext]_dayVars
                 PROVE  AnsweringInv'
      OBVIOUS
    <2>1. [Next]_vars
      BY DayStepIsLedgerStep
    <2>2. JobsInv' /\ ReadersInv' /\ ReceiptsInv' /\ SavedFirst'
      BY <2>1, JobsInvStep, ReadersInvStep, ReceiptsInvStep, SavedFirstStep
      DEF AnsweringInv
    <2>3. AnswersInv'
      BY AnswersInvStep
    <2> QED
      BY <2>2, <2>3 DEF AnsweringInv
  <1> QED
    BY <1>1, <1>2, DayUsesLedger, TypeCorrect, DayTypedInvariant, PTL DEF DaySpec

(* What a handler has answered goes on agreeing with the ledger, whichever
   delivery, replay or refusal the answer comes from: reported plans, drafts,
   proposals, coordinators and confirmed custody are there, a denial of evidence
   is on record, and a morning plan is given up only for the plan the day has. *)
THEOREM AnswersAreReliable ==
    ASSUME MorningKeysTell, OnePlanOfTheDay
    PROVE  DaySpec => []AnswersAgreeWithLedger
  <1>1. AnsweringInv => AnswersAgreeWithLedger
    <2> SUFFICES ASSUME AnsweringInv, NEW a \in answers
                 PROVE  LET q == a.request IN
        /\ a.why \in {"COMMITTED", "REPLAYED"} =>
              CASE q.kind = "PLAN_DAY" -> PlanExists(q.body.plan, "rev07")
                [] q.kind = "PLAN_NEXT_DAY" -> PlanExists(NextPlanId, "rev01")
                [] q.kind = "FAULT" -> \E k \in constraints : k.type = "REPAIR_PROPOSAL"
                                                              /\ k.plan = PlanId
                [] q.kind = "WAIT" -> \E k \in coordinators :
                                         k.coordinator = q.body.coordinator
                [] q.kind = "EVIDENCE" -> \E e \in evidence :
                                             e.event = q.id /\ e.decision = "APPLIED"
        /\ a.why = "DENIED" => \E r \in receipts : /\ r.key = "partner-evidence:" \o q.id
                                                   /\ r.status = "DENIED"
        /\ q.kind = "PLAN_DAY" /\ a.why = "REJECTED" =>
              \E i \in DOMAIN plans : plans[i].plan = q.body.plan
      BY DEF AnswersAgreeWithLedger
    <2>1. AnswerTells(a.request, a.why) /\ a.request.kind \in Kinds
      BY DayConstants DEF AnsweringInv, AnswersInv
    <2> QED
      BY <2>1 DEF AnswerTells, Reported, DenialRecorded, DayHasPlan, Kinds
  <1> QED
    BY <1>1, AnsweringInvariant, PTL

-----------------------------------------------------------------------------
(* The order of the demand, and the schedule that takes it in turn *)

(* What can be put in order: the agencies and the shortfalls are listed. *)
Demand(rows) ==
    /\ rows \subseteq ShortfallRow /\ IsFiniteSet(rows)
    /\ \A f \in rows : {f.id, f.agency} \subseteq Range(Ids)

LEMMA RankTells ==
    ASSUME NEW x \in Range(Ids), NEW y \in Range(Ids)
    PROVE  /\ Rank(x) \in Nat /\ Rank(y) \in Nat
           /\ Rank(x) = Rank(y) => x = y
  <1>1. DOMAIN Ids \subseteq Nat
    BY DayConstants, LenProperties
  <1>2. /\ Rank(x) \in DOMAIN Ids /\ Ids[Rank(x)] = x
        /\ Rank(y) \in DOMAIN Ids /\ Ids[Rank(y)] = y
    BY DEF Rank, Range
  <1> QED
    BY <1>1, <1>2

(* Of two demands one is the larger, and what is larger than a larger one is. *)
LEMMA LargerFirstOrders ==
    ASSUME NEW rows, Demand(rows), NEW a \in rows, NEW b \in rows, NEW c \in rows
    PROVE  /\ a # b => LargerFirst(a, b) \/ LargerFirst(b, a)
           /\ LargerFirst(a, b) /\ LargerFirst(b, c) => LargerFirst(a, c)
  <1> DEFINE Ra(x) == Rank(x.agency)
             Ri(x) == Rank(x.id)
  <1>1. \A x, y \in {a, b, c} :
           /\ Ra(x) \in Nat /\ Ri(x) \in Nat /\ x.cases \in Nat
           /\ Ra(x) = Ra(y) => x.agency = y.agency
           /\ Ri(x) = Ri(y) => x.id = y.id
           /\ x.id = y.id /\ x.agency = y.agency /\ x.cases = y.cases => x = y
    <2>1. ASSUME NEW x \in rows, NEW y \in rows
          PROVE  /\ Ra(x) \in Nat /\ Ri(x) \in Nat /\ x.cases \in Nat
                 /\ Ra(x) = Ra(y) => x.agency = y.agency
                 /\ Ri(x) = Ri(y) => x.id = y.id
                 /\ x.id = y.id /\ x.agency = y.agency /\ x.cases = y.cases => x = y
      <3>1. /\ x.id \in Range(Ids) /\ x.agency \in Range(Ids)
            /\ y.id \in Range(Ids) /\ y.agency \in Range(Ids)
        BY DEF Demand
      <3>2. x \in ShortfallRow /\ y \in ShortfallRow
        BY DEF Demand
      <3>3. Ra(x) \in Nat /\ (Ra(x) = Ra(y) => x.agency = y.agency)
        BY <3>1, RankTells
      <3>4. Ri(x) \in Nat /\ (Ri(x) = Ri(y) => x.id = y.id)
        BY <3>1, RankTells
      <3>5. /\ x.cases \in Nat
            /\ x.id = y.id /\ x.agency = y.agency /\ x.cases = y.cases => x = y
        BY <3>2 DEF ShortfallRow, PosInt
      <3> QED
        BY <3>3, <3>4, <3>5
    <2> QED
      BY <2>1
  <1>2. \A x, y : LargerFirst(x, y) <=>
           \/ x.cases > y.cases
           \/ x.cases = y.cases /\ Ra(x) < Ra(y)
           \/ x.cases = y.cases /\ x.agency = y.agency /\ Ri(x) < Ri(y)
    BY DEF LargerFirst
  <1> HIDE DEF Ra, Ri
  <1>3. a # b => LargerFirst(a, b) \/ LargerFirst(b, a)
    <2>1. /\ Ra(a) \in Nat /\ Ra(b) \in Nat /\ Ri(a) \in Nat /\ Ri(b) \in Nat
          /\ a.cases \in Nat /\ b.cases \in Nat
          /\ Ra(a) = Ra(b) => a.agency = b.agency
          /\ Ri(a) = Ri(b) => a.id = b.id
          /\ a.id = b.id /\ a.agency = b.agency /\ a.cases = b.cases => a = b
      BY <1>1
    <2>2. CASE a.cases # b.cases
      BY <1>2, <2>1, <2>2
    <2>3. CASE a.cases = b.cases /\ Ra(a) # Ra(b)
      BY <1>2, <2>1, <2>3
    <2>4. CASE a.cases = b.cases /\ Ra(a) = Ra(b)
      BY <1>2, <2>1, <2>4
    <2> QED
      BY <2>2, <2>3, <2>4
  <1>4. ASSUME LargerFirst(a, b), LargerFirst(b, c)
        PROVE  LargerFirst(a, c)
    <2>1. /\ Ra(a) \in Nat /\ Ra(b) \in Nat /\ Ra(c) \in Nat
          /\ Ri(a) \in Nat /\ Ri(b) \in Nat /\ Ri(c) \in Nat
          /\ a.cases \in Nat /\ b.cases \in Nat /\ c.cases \in Nat
      BY <1>1
    <2>2. /\ a.agency = b.agency => Ra(a) = Ra(b)
          /\ b.agency = c.agency => Ra(b) = Ra(c)
      BY DEF Ra
    <2>3. \/ a.cases > b.cases
          \/ a.cases = b.cases /\ Ra(a) < Ra(b)
          \/ a.cases = b.cases /\ a.agency = b.agency /\ Ri(a) < Ri(b)
      BY <1>2, <1>4
    <2>4. \/ b.cases > c.cases
          \/ b.cases = c.cases /\ Ra(b) < Ra(c)
          \/ b.cases = c.cases /\ b.agency = c.agency /\ Ri(b) < Ri(c)
      BY <1>2, <1>4
    <2>5. \/ a.cases > c.cases
          \/ a.cases = c.cases /\ Ra(a) < Ra(c)
          \/ a.cases = c.cases /\ a.agency = c.agency /\ Ri(a) < Ri(c)
      BY <2>1, <2>2, <2>3, <2>4
    <2> QED
      BY <1>2, <2>5
  <1> QED
    BY <1>3, <1>4

LEMMA LastOfIsIn ==
    ASSUME NEW rows, Demand(rows), rows # {}
    PROVE  LastOf(rows) \in rows
  <1> DEFINE IsLast(T, d) == \A x \in T \ {d} : LargerFirst(x, d)
             Bad == {T \in SUBSET rows : T # {} /\ ~ \E d \in T : IsLast(T, d)}
  <1>1. CASE Bad = {}
    <2>1. \E d \in rows : \A x \in rows \ {d} : LargerFirst(x, d)
      BY <1>1
    <2> QED
      BY <2>1 DEF LastOf
  <1>2. ASSUME Bad # {}
        PROVE  FALSE
    <2>0. Bad \in SUBSET SUBSET rows
      OBVIOUS
    <2>1. /\ \A T \in Bad : T # {} /\ T \in SUBSET rows /\ ~ \E d \in T : IsLast(T, d)
          /\ \A T \in SUBSET rows : T \notin Bad => T = {} \/ \E d \in T : IsLast(T, d)
      OBVIOUS
    <2> HIDE DEF Bad
    <2>2. PICK T \in Bad : \A U \in Bad : U \subseteq T => U = T
      BY <1>2, <2>0, SmallestSet DEF Demand
    <2>3. PICK x : x \in T
      BY <2>1
    <2> DEFINE U == T \ {x}
    <2>4. U \notin Bad /\ U \in SUBSET rows /\ T \in SUBSET rows
      BY <2>1, <2>2, <2>3
    <2>5. CASE U = {}
      <3>1. IsLast(T, x)
        BY <2>5
      <3> QED
        BY <2>1, <2>2, <2>3, <3>1
    <2>6. CASE U # {}
      <3>1. PICK d \in U : IsLast(U, d)
        BY <2>1, <2>4, <2>6
      <3>2. x \in rows /\ d \in rows /\ d # x
        BY <2>3, <2>4
      <3>3. LargerFirst(x, d) \/ LargerFirst(d, x)
        BY <3>2, LargerFirstOrders
      <3>4. CASE LargerFirst(x, d)
        <4>1. IsLast(T, d)
          BY <3>1, <3>4
        <4> QED
          BY <2>1, <2>2, <3>1, <4>1
      <3>5. CASE LargerFirst(d, x)
        <4>1. ASSUME NEW y \in T \ {x}
              PROVE  LargerFirst(y, x)
          <5>1. y = d \/ LargerFirst(y, d)
            BY <3>1, <4>1
          <5>2. y \in rows
            BY <2>4, <4>1
          <5> QED
            BY <3>2, <3>5, <5>1, <5>2, LargerFirstOrders
        <4>2. IsLast(T, x)
          BY <4>1
        <4> QED
          BY <2>1, <2>2, <2>3, <4>2
      <3> QED
        BY <3>3, <3>4, <3>5
    <2> QED
      BY <2>5, <2>6
  <1> QED
    BY <1>1, <1>2

(* The function that places the demand, one after the other, on what is there. *)
Rest(T) == T \ {LastOf(T)}
PlacedFn(A, S, start) ==
    A = [T \in SUBSET S |-> IF T = {} THEN start ELSE Place(A[Rest(T)], LastOf(T))]

LEMMA DemandOfSome ==
    ASSUME NEW rows, Demand(rows), NEW T \in SUBSET rows
    PROVE  /\ Demand(T)
           /\ T # {} => /\ LastOf(T) \in T /\ Rest(T) \in SUBSET T
                        /\ Rest(T) # T /\ Rest(T) \cup {LastOf(T)} = T
                        /\ LastOf(T) \notin Rest(T)
  <1>1. Demand(T)
    BY FS_Subset DEF Demand
  <1>2. T # {} => LastOf(T) \in T
    BY <1>1, LastOfIsIn
  <1> QED
    BY <1>1, <1>2 DEF Rest

LEMMA PlacedAt ==
    ASSUME NEW S, Demand(S), NEW start, NEW A, PlacedFn(A, S, start), NEW T \in SUBSET S
    PROVE  /\ T = {} => A[T] = start
           /\ T # {} => Rest(T) \in SUBSET S /\ A[T] = Place(A[Rest(T)], LastOf(T))
  <1>1. A[T] = IF T = {} THEN start ELSE Place(A[Rest(T)], LastOf(T))
    BY DEF PlacedFn
  <1> QED
    BY <1>1 DEF Rest

LEMMA PlacedAgree ==
    ASSUME NEW S, Demand(S), NEW start, NEW A, NEW B,
           NEW T \in SUBSET S, NEW U \in SUBSET S,
           PlacedFn(A, T, start), PlacedFn(B, U, start), NEW V \in SUBSET (T \cap U)
    PROVE  A[V] = B[V]
  <1> DEFINE Bad == {W \in SUBSET (T \cap U) : A[W] # B[W]}
  <1> SUFFICES ASSUME Bad # {}
               PROVE  FALSE
    OBVIOUS
  <1>0. Bad \in SUBSET SUBSET (T \cap U)
    OBVIOUS
  <1>a. Demand(T) /\ Demand(U) /\ Demand(T \cap U)
    <2>1. (T \cap U) \in SUBSET S
      OBVIOUS
    <2> QED
      BY <2>1, DemandOfSome
  <1> HIDE DEF Bad
  <1>2. PICK W \in Bad : \A X \in Bad : X \subseteq W => X = W
    BY <1>0, <1>a, SmallestSet DEF Demand
  <1>3. W \in SUBSET T /\ W \in SUBSET U /\ A[W] # B[W]
    BY DEF Bad
  <1>4. W # {}
    <2>1. W = {} => A[W] = start
      BY <1>3, <1>a, PlacedAt
    <2>2. W = {} => B[W] = start
      BY <1>3, <1>a, PlacedAt
    <2> QED
      BY <1>3, <2>1, <2>2
  <1>5. /\ A[W] = Place(A[Rest(W)], LastOf(W))
        /\ B[W] = Place(B[Rest(W)], LastOf(W))
    BY <1>3, <1>4, <1>a, PlacedAt
  <1>6. Rest(W) \in SUBSET W /\ Rest(W) # W
    <2>1. W \in SUBSET S
      BY <1>3
    <2> QED
      BY <1>4, <2>1, DemandOfSome
  <1>7. Rest(W) \notin Bad
    BY <1>2, <1>6
  <1>8. Rest(W) \in SUBSET (T \cap U)
    BY <1>3, <1>6
  <1>9. A[Rest(W)] = B[Rest(W)]
    BY <1>7, <1>8 DEF Bad
  <1> QED
    BY <1>3, <1>5, <1>9

LEMMA PlacedExists ==
    ASSUME NEW S, Demand(S), NEW start
    PROVE  \E A : PlacedFn(A, S, start)
  <1> DEFINE Bad == {T \in SUBSET S : ~ \E A : PlacedFn(A, T, start)}
  <1> SUFFICES ASSUME Bad # {}
               PROVE  FALSE
    OBVIOUS
  <1>0. Bad \in SUBSET SUBSET S
    OBVIOUS
  <1> HIDE DEF Bad
  <1>1. PICK T \in Bad : \A U \in Bad : U \subseteq T => U = T
    BY <1>0, SmallestSet DEF Demand
  <1> DEFINE Of(U) == CHOOSE A : PlacedFn(A, U, start)
             G == [U \in SUBSET T |->
                     IF U = {} THEN start ELSE Place(Of(Rest(U))[Rest(U)], LastOf(U))]
  <1>2. \A U \in SUBSET T : U # T => PlacedFn(Of(U), U, start)
    BY <1>0, <1>1 DEF Bad
  <1>4. T \in SUBSET S
    BY <1>0
  <1>3. ASSUME NEW U \in SUBSET T, U # {}
        PROVE  Rest(U) \in SUBSET T /\ Rest(U) \in SUBSET U /\ Rest(U) # T /\ Rest(U) # U
    <2>1. U \in SUBSET S
      BY <1>4
    <2>2. Rest(U) \in SUBSET U /\ Rest(U) # U
      BY <1>3, <2>1, DemandOfSome
    <2> QED
      BY <2>2
  <1>5. \A U \in SUBSET T : G[U] = IF U = {} THEN start
                                   ELSE Place(Of(Rest(U))[Rest(U)], LastOf(U))
    OBVIOUS
  <1> HIDE DEF Of, G
  <1>6. ASSUME NEW V \in SUBSET T, V # T
        PROVE  Of(V)[V] = G[V]
    <2>0. PlacedFn(Of(V), V, start) /\ V \in SUBSET V
      BY <1>2, <1>6
    <2>a. Demand(V)
      <3>1. V \in SUBSET S
        BY <1>4
      <3> QED
        BY <3>1, DemandOfSome
    <2>1. CASE V = {}
      BY <1>5, <2>0, <2>1, <2>a, PlacedAt
    <2>2. CASE V # {}
      <3>2. Of(V)[V] = Place(Of(V)[Rest(V)], LastOf(V))
        BY <2>0, <2>2, <2>a, PlacedAt
      <3>3. Rest(V) \in SUBSET T /\ Rest(V) # T /\ Rest(V) \in SUBSET V
        BY <1>3, <2>2
      <3>4. PlacedFn(Of(Rest(V)), Rest(V), start)
        BY <1>2, <3>3
      <3>5. Of(V)[Rest(V)] = Of(Rest(V))[Rest(V)]
        <4>1. V \in SUBSET S /\ Rest(V) \in SUBSET S /\ Rest(V) \in SUBSET (V \cap Rest(V))
          BY <1>4, <3>3
        <4> QED
          BY <2>0, <3>4, <4>1, PlacedAgree
      <3> QED
        BY <1>5, <2>2, <3>2, <3>5
    <2> QED
      BY <2>1, <2>2
  <1>7. \A U \in SUBSET T :
           G[U] = IF U = {} THEN start ELSE Place(G[Rest(U)], LastOf(U))
    BY <1>3, <1>5, <1>6
  <1>8. G = [U \in SUBSET T |-> G[U]]
    BY DEF G
  <1>9. PlacedFn(G, T, start)
    BY <1>7, <1>8 DEF PlacedFn
  <1> QED
    BY <1>1, <1>9 DEF Bad

LEMMA ScheduleIsPlaced ==
    ASSUME NEW short, Demand(short), NEW safe, NEW fleet
    PROVE  \E A : /\ PlacedFn(A, short, NothingPlaced(safe, fleet))
                  /\ Schedule(short, safe, fleet) = A[short]
  <1> DEFINE A == CHOOSE A : PlacedFn(A, short, NothingPlaced(safe, fleet))
  <1>1. PlacedFn(A, short, NothingPlaced(safe, fleet))
    BY PlacedExists
  <1>2. Schedule(short, safe, fleet) = A[short]
    BY DEF Schedule, PlacedFn, Rest
  <1> QED
    BY <1>1, <1>2

-----------------------------------------------------------------------------
(* What a schedule is, at each of the demands *)

Stock(safe, fleet) ==
    /\ safe \subseteq LotRow /\ fleet \subseteq VehicleRow
    /\ \A l, m \in safe : l.lot = m.lot => l = m
    /\ \A v, w \in fleet : v.vehicle = w.vehicle => v = w
    /\ \A v \in fleet : v.load <= v.capacity
    /\ {l.lot : l \in safe} \subseteq Range(Ids)
    /\ {v.vehicle : v \in fleet} \subseteq Range(Ids)

LotIds(safe) == {l.lot : l \in safe}
VehicleIds(fleet) == {v.vehicle : v \in fleet}
ShortfallsKeyed(rows) == \A f, g \in rows : f.id = g.id => f = g

IsSchedule(s) ==
    s = [left |-> s.left, room |-> s.room, stops |-> s.stops, unassigned |-> s.unassigned]
(* Every demand is served by one stop, or is unassigned. *)
ServesAll(s, T, lotIds, vehicleIds) ==
    /\ s.left \in [lotIds -> Nat] /\ s.room \in [vehicleIds -> Nat]
    /\ s.unassigned \subseteq T
    /\ \A x \in s.stops :
          /\ x = [demand |-> x.demand, lot |-> x.lot, vehicle |-> x.vehicle]
          /\ x.demand \in T /\ x.lot \in lotIds /\ x.vehicle \in vehicleIds
    /\ \A x, y \in s.stops : x.demand = y.demand => x = y
    /\ \A d \in T : d \in s.unassigned <=> ~ \E x \in s.stops : x.demand = d
(* What is left is what was there without what the stops take. *)
Candidates(stops, plan) == {CandidateStopOf(x, plan) : x \in stops}
LotStops(stops, id) == {y \in stops : y.lot = id}
VehicleStops(stops, id) == {y \in stops : y.vehicle = id}
FromLot(stops, id, plan) == Candidates(LotStops(stops, id), plan)
OnVehicle(stops, id, plan) == Candidates(VehicleStops(stops, id), plan)
Balanced(s, safe, fleet, plan) ==
    /\ \A l \in safe :
          /\ Countable(FromLot(s.stops, l.lot, plan))
          /\ s.left[l.lot] + CasesIn(FromLot(s.stops, l.lot, plan)) = l.cases
    /\ \A v \in fleet :
          /\ Countable(OnVehicle(s.stops, v.vehicle, plan))
          /\ s.room[v.vehicle] + CasesIn(OnVehicle(s.stops, v.vehicle, plan))
             = v.capacity - v.load
(* What is unassigned does not fit in what is left. *)
NoneFits(s) ==
    \A u \in s.unassigned : \/ \A id \in DOMAIN s.left : s.left[id] < u.cases
                            \/ \A id \in DOMAIN s.room : s.room[id] < u.cases

StopAt(d, l, v) == [demand |-> d, lot |-> l, vehicle |-> v]
PlacedOn(s, d, l, v) ==
    [left |-> [s.left EXCEPT ![l] = @ - d.cases],
     room |-> [s.room EXCEPT ![v] = @ - d.cases],
     stops |-> s.stops \cup {StopAt(d, l, v)}, unassigned |-> s.unassigned]
LeftOut(s, d) ==
    [left |-> s.left, room |-> s.room, stops |-> s.stops,
     unassigned |-> s.unassigned \cup {d}]

LEMMA PlaceIs ==
    ASSUME NEW s, IsSchedule(s), NEW d,
           DOMAIN s.left \subseteq Range(Ids), DOMAIN s.room \subseteq Range(Ids)
    PROVE  \/ /\ \/ \A id \in DOMAIN s.left : ~(s.left[id] >= d.cases)
                 \/ \A id \in DOMAIN s.room : ~(s.room[id] >= d.cases)
              /\ Place(s, d) = LeftOut(s, d)
           \/ \E l \in DOMAIN s.left, v \in DOMAIN s.room :
                 /\ s.left[l] >= d.cases /\ s.room[v] >= d.cases
                 /\ Place(s, d) = PlacedOn(s, d, l, v)
  <1> DEFINE lotsLeft == {l \in DOMAIN s.left : s.left[l] >= d.cases}
             room == {v \in DOMAIN s.room : s.room[v] >= d.cases}
  <1>1. CASE lotsLeft = {} \/ room = {}
    <2>1. Place(s, d) = [s EXCEPT !.unassigned = @ \cup {d}]
      BY <1>1 DEF Place
    <2>2. Place(s, d) = LeftOut(s, d)
      BY <2>1 DEF LeftOut, IsSchedule
    <2> QED
      BY <1>1, <2>2
  <1>2. CASE lotsLeft # {} /\ room # {}
    <2> DEFINE l == FirstOf(lotsLeft)
               v == FirstOf(room)
    <2>1. l \in lotsLeft /\ v \in room
      BY <1>2, FirstOfIsIn
    <2>2. Place(s, d) = [s EXCEPT !.left[l] = @ - d.cases,
                                  !.room[v] = @ - d.cases,
                                  !.stops = @ \cup {[demand |-> d, lot |-> l,
                                                     vehicle |-> v]}]
      BY <1>2 DEF Place
    <2> HIDE DEF l, v
    <2>3. Place(s, d) = PlacedOn(s, d, l, v)
      BY <2>2 DEF PlacedOn, StopAt, IsSchedule
    <2> QED
      BY <2>1, <2>3
  <1> QED
    BY <1>1, <1>2

LEMMA PlaceServes ==
    ASSUME NEW T, NEW d, d \notin T, d.cases \in Nat, NEW lotIds, NEW vehicleIds,
           NEW s, ServesAll(s, T, lotIds, vehicleIds)
    PROVE  /\ ServesAll(LeftOut(s, d), T \cup {d}, lotIds, vehicleIds)
           /\ \A l \in lotIds, v \in vehicleIds :
                 s.left[l] >= d.cases /\ s.room[v] >= d.cases
                 => ServesAll(PlacedOn(s, d, l, v), T \cup {d}, lotIds, vehicleIds)
  <1>1. ServesAll(LeftOut(s, d), T \cup {d}, lotIds, vehicleIds)
    <2> DEFINE t == LeftOut(s, d)
    <2>1. /\ t.left = s.left /\ t.room = s.room /\ t.stops = s.stops
          /\ t.unassigned = s.unassigned \cup {d}
      BY DEF LeftOut
    <2> HIDE DEF t
    <2> QED
      <3>1. ServesAll(t, T \cup {d}, lotIds, vehicleIds)
        BY <2>1 DEF ServesAll
      <3> QED
        BY <3>1 DEF t
  <1>2. ASSUME NEW l \in lotIds, NEW v \in vehicleIds,
               s.left[l] >= d.cases, s.room[v] >= d.cases
        PROVE  ServesAll(PlacedOn(s, d, l, v), T \cup {d}, lotIds, vehicleIds)
    <2> DEFINE t == PlacedOn(s, d, l, v)
               x == StopAt(d, l, v)
    <2>1. /\ t.left = [s.left EXCEPT ![l] = @ - d.cases]
          /\ t.room = [s.room EXCEPT ![v] = @ - d.cases]
          /\ t.stops = s.stops \cup {x} /\ t.unassigned = s.unassigned
      BY DEF PlacedOn
    <2>2. /\ x = [demand |-> x.demand, lot |-> x.lot, vehicle |-> x.vehicle]
          /\ x.demand = d /\ x.lot = l /\ x.vehicle = v
      BY DEF StopAt
    <2>3. t.left \in [lotIds -> Nat] /\ t.room \in [vehicleIds -> Nat]
      <3>1. s.left \in [lotIds -> Nat] /\ s.room \in [vehicleIds -> Nat]
        BY DEF ServesAll
      <3>2. s.left[l] - d.cases \in Nat /\ s.room[v] - d.cases \in Nat
        BY <1>2, <3>1
      <3> QED
        BY <2>1, <3>1, <3>2
    <2> HIDE DEF t, x
    <2>4. \A y \in s.stops : y.demand # d
      BY DEF ServesAll
    <2>5. \A y, z \in t.stops : y.demand = z.demand => y = z
      BY <2>1, <2>2, <2>4 DEF ServesAll
    <2>6. ASSUME NEW e \in T \cup {d}
          PROVE  e \in t.unassigned <=> ~ \E y \in t.stops : y.demand = e
      BY <2>1, <2>2, <2>4 DEF ServesAll
    <2>7. ServesAll(t, T \cup {d}, lotIds, vehicleIds)
      BY <2>1, <2>2, <2>3, <2>5, <2>6 DEF ServesAll
    <2> QED
      BY <2>7 DEF t
  <1> QED
    BY <1>1, <1>2

LEMMA CandidateFields ==
    ASSUME NEW x, NEW plan
    PROVE  /\ CandidateStopOf(x, plan).shortfall = x.demand.id
           /\ CandidateStopOf(x, plan).cases = x.demand.cases
           /\ CandidateStopOf(x, plan).lot = x.lot
  BY DEF CandidateStopOf

(* One stop more, for a demand that none of them is for. *)
LEMMA OneStopMore ==
    ASSUME NEW S, NEW x, NEW plan, x.demand.cases \in Nat,
           \A y \in S : y.demand.id # x.demand.id,
           Countable(Candidates(S, plan))
    PROVE  /\ Countable(Candidates(S \cup {x}, plan))
           /\ CasesIn(Candidates(S \cup {x}, plan))
              = CasesIn(Candidates(S, plan)) + x.demand.cases
  <1> DEFINE R == Candidates(S, plan)
             c == CandidateStopOf(x, plan)
  <1>1. c.cases = x.demand.cases /\ c.shortfall = x.demand.id
    BY CandidateFields
  <1>2. \A r \in R : r.shortfall # x.demand.id
    BY CandidateFields DEF Candidates
  <1>3. c \notin R
    BY <1>1, <1>2
  <1>4. Candidates(S \cup {x}, plan) = R \cup {c}
    BY DEF Candidates
  <1> HIDE DEF R, c
  <1>5. Countable(R)
    BY DEF R
  <1>6. Countable(R \cup {c}) /\ CasesIn(R \cup {c}) = CasesIn(R) + c.cases
    BY <1>1, <1>3, <1>5, CasesInWith
  <1> QED
    BY <1>1, <1>4, <1>6 DEF R

(* A stop more takes its cases from its lot and from the room of its vehicle. *)
LEMMA StopFromLot ==
    ASSUME NEW stops, NEW x, NEW id, NEW plan, x.demand.cases \in Nat,
           \A y \in stops : y.demand.id # x.demand.id,
           Countable(FromLot(stops, id, plan))
    PROVE  /\ Countable(FromLot(stops \cup {x}, id, plan))
           /\ x.lot = id => CasesIn(FromLot(stops \cup {x}, id, plan))
                            = CasesIn(FromLot(stops, id, plan)) + x.demand.cases
           /\ x.lot # id => CasesIn(FromLot(stops \cup {x}, id, plan))
                            = CasesIn(FromLot(stops, id, plan))
  <1>1. CASE x.lot = id
    <2>1. LotStops(stops \cup {x}, id) = LotStops(stops, id) \cup {x}
      BY <1>1 DEF LotStops
    <2>2. \A y \in LotStops(stops, id) : y.demand.id # x.demand.id
      BY DEF LotStops
    <2> QED
      BY <1>1, <2>1, <2>2, OneStopMore DEF FromLot
  <1>2. CASE x.lot # id
    <2>1. LotStops(stops \cup {x}, id) = LotStops(stops, id)
      BY <1>2 DEF LotStops
    <2> QED
      BY <1>2, <2>1 DEF FromLot
  <1> QED
    BY <1>1, <1>2

LEMMA StopOnVehicle ==
    ASSUME NEW stops, NEW x, NEW id, NEW plan, x.demand.cases \in Nat,
           \A y \in stops : y.demand.id # x.demand.id,
           Countable(OnVehicle(stops, id, plan))
    PROVE  /\ Countable(OnVehicle(stops \cup {x}, id, plan))
           /\ x.vehicle = id => CasesIn(OnVehicle(stops \cup {x}, id, plan))
                                = CasesIn(OnVehicle(stops, id, plan)) + x.demand.cases
           /\ x.vehicle # id => CasesIn(OnVehicle(stops \cup {x}, id, plan))
                                = CasesIn(OnVehicle(stops, id, plan))
  <1>1. CASE x.vehicle = id
    <2>1. VehicleStops(stops \cup {x}, id) = VehicleStops(stops, id) \cup {x}
      BY <1>1 DEF VehicleStops
    <2>2. \A y \in VehicleStops(stops, id) : y.demand.id # x.demand.id
      BY DEF VehicleStops
    <2> QED
      BY <1>1, <2>1, <2>2, OneStopMore DEF OnVehicle
  <1>2. CASE x.vehicle # id
    <2>1. VehicleStops(stops \cup {x}, id) = VehicleStops(stops, id)
      BY <1>2 DEF VehicleStops
    <2> QED
      BY <1>2, <2>1 DEF OnVehicle
  <1> QED
    BY <1>1, <1>2

LEMMA TakenFrom ==
    ASSUME NEW D, NEW f \in [D -> Nat], NEW a \in D, NEW n \in Nat, NEW id \in D,
           NEW old \in Nat, NEW new, NEW total, f[id] + old = total,
           a = id => new = old + n, a # id => new = old
    PROVE  [f EXCEPT ![a] = @ - n][id] + new = total
  <1> DEFINE g == [f EXCEPT ![a] = @ - n]
  <1>1. /\ id = a => g[id] = f[id] - n
        /\ id # a => g[id] = f[id]
    OBVIOUS
  <1>2. f[id] \in Nat
    OBVIOUS
  <1> HIDE DEF g
  <1>3. g[id] + new = total
    BY <1>1, <1>2
  <1> QED
    BY <1>3 DEF g

LEMMA PlaceBalances ==
    ASSUME NEW safe, NEW fleet, NEW plan, NEW s, Balanced(s, safe, fleet, plan),
           NEW T, ServesAll(s, T, LotIds(safe), VehicleIds(fleet)),
           NEW d, d.cases \in Nat, \A e \in T : e.id # d.id,
           NEW l \in LotIds(safe), NEW v \in VehicleIds(fleet)
    PROVE  Balanced(PlacedOn(s, d, l, v), safe, fleet, plan)
  <1> DEFINE t == PlacedOn(s, d, l, v)
             x == StopAt(d, l, v)
  <1>1. /\ t.left = [s.left EXCEPT ![l] = @ - d.cases]
        /\ t.room = [s.room EXCEPT ![v] = @ - d.cases]
        /\ t.stops = s.stops \cup {x}
    BY DEF PlacedOn
  <1>2. x.demand = d /\ x.lot = l /\ x.vehicle = v
    BY DEF StopAt
  <1>3. \A y \in s.stops : y.demand.id # x.demand.id
    BY <1>2 DEF ServesAll
  <1>4. s.left \in [LotIds(safe) -> Nat] /\ s.room \in [VehicleIds(fleet) -> Nat]
    BY DEF ServesAll
  <1>5. x.demand.cases \in Nat
    BY <1>2
  <1> HIDE DEF t, x
  <1>6. ASSUME NEW m \in safe
        PROVE  /\ Countable(FromLot(t.stops, m.lot, plan))
               /\ t.left[m.lot] + CasesIn(FromLot(t.stops, m.lot, plan))
                  = m.cases
    <2>1. PICK id : id = m.lot
      OBVIOUS
    <2> DEFINE old == CasesIn(FromLot(s.stops, id, plan))
               new == CasesIn(FromLot(t.stops, id, plan))
    <2>2. Countable(FromLot(s.stops, id, plan)) /\ s.left[id] + old = m.cases
      BY <2>1 DEF Balanced
    <2>3. id \in LotIds(safe)
      BY <2>1 DEF LotIds
    <2>4. /\ Countable(FromLot(s.stops \cup {x}, id, plan))
          /\ x.lot = id => CasesIn(FromLot(s.stops \cup {x}, id, plan))
                             = old + x.demand.cases
          /\ x.lot # id => CasesIn(FromLot(s.stops \cup {x}, id, plan)) = old
      BY <1>3, <1>5, <2>2, StopFromLot
    <2>5. /\ Countable(FromLot(t.stops, id, plan))
          /\ l = id => new = old + d.cases
          /\ l # id => new = old
      BY <1>1, <1>2, <2>4
    <2>6. old \in Nat
      BY <2>2, CasesInNat
    <2> HIDE DEF old, new
    <2>7. t.left[id] + new = m.cases
      BY <1>1, <1>4, <2>2, <2>3, <2>5, <2>6, TakenFrom
    <2> QED
      BY <2>1, <2>5, <2>7 DEF new
  <1>7. ASSUME NEW w \in fleet
        PROVE  /\ Countable(OnVehicle(t.stops, w.vehicle, plan))
               /\ t.room[w.vehicle] + CasesIn(OnVehicle(t.stops, w.vehicle, plan))
                  = w.capacity - w.load
    <2>1. PICK id : id = w.vehicle
      OBVIOUS
    <2> DEFINE old == CasesIn(OnVehicle(s.stops, id, plan))
               new == CasesIn(OnVehicle(t.stops, id, plan))
    <2>2. Countable(OnVehicle(s.stops, id, plan)) /\ s.room[id] + old = w.capacity - w.load
      BY <2>1 DEF Balanced
    <2>3. id \in VehicleIds(fleet)
      BY <2>1 DEF VehicleIds
    <2>4. /\ Countable(OnVehicle(s.stops \cup {x}, id, plan))
          /\ x.vehicle = id => CasesIn(OnVehicle(s.stops \cup {x}, id, plan))
                             = old + x.demand.cases
          /\ x.vehicle # id => CasesIn(OnVehicle(s.stops \cup {x}, id, plan)) = old
      BY <1>3, <1>5, <2>2, StopOnVehicle
    <2>5. /\ Countable(OnVehicle(t.stops, id, plan))
          /\ v = id => new = old + d.cases
          /\ v # id => new = old
      BY <1>1, <1>2, <2>4
    <2>6. old \in Nat
      BY <2>2, CasesInNat
    <2> HIDE DEF old, new
    <2>7. t.room[id] + new = w.capacity - w.load
      BY <1>1, <1>4, <2>2, <2>3, <2>5, <2>6, TakenFrom
    <2> QED
      BY <2>1, <2>5, <2>7 DEF new
  <1>8. Balanced(t, safe, fleet, plan)
    BY <1>6, <1>7 DEF Balanced
  <1> QED
    BY <1>8 DEF t

LEMMA PlacedLeavesLess ==
    ASSUME NEW s, NoneFits(s), NEW lotIds, NEW vehicleIds,
           s.left \in [lotIds -> Nat], s.room \in [vehicleIds -> Nat],
           \A u \in s.unassigned : u.cases \in Nat,
           NEW d, d.cases \in Nat, NEW l \in lotIds, NEW v \in vehicleIds
    PROVE  NoneFits(PlacedOn(s, d, l, v))
  <1> DEFINE t == PlacedOn(s, d, l, v)
  <1>1. /\ t.left = [s.left EXCEPT ![l] = @ - d.cases]
        /\ t.room = [s.room EXCEPT ![v] = @ - d.cases]
        /\ t.unassigned = s.unassigned
    BY DEF PlacedOn
  <1> HIDE DEF t
  <1>2. \A id \in lotIds : t.left[id] \in Int /\ t.left[id] <= s.left[id]
    BY <1>1
  <1>3. \A id \in vehicleIds : t.room[id] \in Int /\ t.room[id] <= s.room[id]
    BY <1>1
  <1>4. ASSUME NEW u \in t.unassigned
        PROVE  \/ \A id \in lotIds : t.left[id] < u.cases
               \/ \A id \in vehicleIds : t.room[id] < u.cases
    <2>1. u.cases \in Nat
      BY <1>1
    <2>2. CASE \A id \in lotIds : s.left[id] < u.cases
      BY <1>2, <2>1, <2>2
    <2>3. CASE \A id \in vehicleIds : s.room[id] < u.cases
      BY <1>3, <2>1, <2>3
    <2> QED
      BY <1>1, <2>2, <2>3 DEF NoneFits
  <1>5. NoneFits(t)
    BY <1>1, <1>4 DEF NoneFits
  <1> QED
    BY <1>5 DEF t

LEMMA LeftOutFits ==
    ASSUME NEW s, NoneFits(s), NEW lotIds, NEW vehicleIds,
           s.left \in [lotIds -> Nat], s.room \in [vehicleIds -> Nat],
           NEW d, d.cases \in Nat,
           \/ \A id \in lotIds : ~(s.left[id] >= d.cases)
           \/ \A id \in vehicleIds : ~(s.room[id] >= d.cases)
    PROVE  NoneFits(LeftOut(s, d))
  <1> DEFINE t == LeftOut(s, d)
  <1>1. /\ t.left = s.left /\ t.room = s.room
        /\ t.unassigned = s.unassigned \cup {d}
    BY DEF LeftOut
  <1> HIDE DEF t
  <1>2. \/ \A id \in lotIds : s.left[id] < d.cases
        \/ \A id \in vehicleIds : s.room[id] < d.cases
    <2>1. CASE \A id \in lotIds : ~(s.left[id] >= d.cases)
      BY <2>1
    <2>2. CASE \A id \in vehicleIds : ~(s.room[id] >= d.cases)
      BY <2>2
    <2> QED
      BY <2>1, <2>2
  <1>3. NoneFits(t)
    BY <1>1, <1>2 DEF NoneFits
  <1> QED
    BY <1>3 DEF t

SoundSchedule(s, T, safe, fleet, plan) ==
    /\ IsSchedule(s)
    /\ ServesAll(s, T, LotIds(safe), VehicleIds(fleet))
    /\ Balanced(s, safe, fleet, plan)
    /\ NoneFits(s)

LEMMA TheRowIs ==
    ASSUME NEW row
    PROVE  TheRow({row}) = row
  BY DEF TheRow

LEMMA RowsById ==
    ASSUME NEW safe, NEW fleet, Stock(safe, fleet)
    PROVE  /\ \A l \in safe : LotRowOf(l.lot, safe) = l
           /\ \A v \in fleet : VehicleRowOf(v.vehicle, fleet) = v
  <1>1. ASSUME NEW l \in safe
        PROVE  LotRowOf(l.lot, safe) = l
    <2>1. {m \in safe : m.lot = l.lot} = {l}
      BY DEF Stock
    <2> QED
      BY <2>1, TheRowIs DEF LotRowOf
  <1>2. ASSUME NEW v \in fleet
        PROVE  VehicleRowOf(v.vehicle, fleet) = v
    <2>1. {w \in fleet : w.vehicle = v.vehicle} = {v}
      BY DEF Stock
    <2> QED
      BY <2>1, TheRowIs DEF VehicleRowOf
  <1> QED
    BY <1>1, <1>2

LEMMA NothingIsSound ==
    ASSUME NEW safe, NEW fleet, Stock(safe, fleet), NEW plan
    PROVE  SoundSchedule(NothingPlaced(safe, fleet), {}, safe, fleet, plan)
  <1> DEFINE s == NothingPlaced(safe, fleet)
  <1>1. /\ IsSchedule(s) /\ s.stops = {} /\ s.unassigned = {}
        /\ s.left = [id \in LotIds(safe) |-> LotRowOf(id, safe).cases]
        /\ s.room = [id \in VehicleIds(fleet) |->
                        VehicleRowOf(id, fleet).capacity - VehicleRowOf(id, fleet).load]
    BY DEF NothingPlaced, IsSchedule, LotIds, VehicleIds
  <1> HIDE DEF s
  <1>2. ASSUME NEW l \in safe
        PROVE  l.lot \in LotIds(safe) /\ s.left[l.lot] = l.cases /\ l.cases \in Nat
    <2>1. l.lot \in LotIds(safe)
      BY DEF LotIds
    <2>2. LotRowOf(l.lot, safe) = l
      BY RowsById
    <2>3. l.cases \in Nat
      BY DEF Stock, LotRow
    <2> QED
      BY <1>1, <2>1, <2>2, <2>3
  <1>3. ASSUME NEW v \in fleet
        PROVE  /\ v.vehicle \in VehicleIds(fleet)
               /\ s.room[v.vehicle] = v.capacity - v.load /\ v.capacity - v.load \in Nat
    <2>1. v.vehicle \in VehicleIds(fleet)
      BY DEF VehicleIds
    <2>2. VehicleRowOf(v.vehicle, fleet) = v
      BY RowsById
    <2>3. v.capacity \in Nat /\ v.load \in Nat /\ v.load <= v.capacity
      BY DEF Stock, VehicleRow, PosInt
    <2>4. v.capacity - v.load \in Nat
      BY <2>3
    <2> QED
      BY <1>1, <2>1, <2>2, <2>4
  <1>4. s.left \in [LotIds(safe) -> Nat]
    <2>1. ASSUME NEW id \in LotIds(safe)
          PROVE  s.left[id] \in Nat
      <3>1. PICK l \in safe : l.lot = id
        BY DEF LotIds
      <3> QED
        BY <1>2, <3>1
    <2> QED
      BY <1>1, <2>1
  <1>5. s.room \in [VehicleIds(fleet) -> Nat]
    <2>1. ASSUME NEW id \in VehicleIds(fleet)
          PROVE  s.room[id] \in Nat
      <3>1. PICK v \in fleet : v.vehicle = id
        BY DEF VehicleIds
      <3> QED
        BY <1>3, <3>1
    <2> QED
      BY <1>1, <2>1
  <1>6. ServesAll(s, {}, LotIds(safe), VehicleIds(fleet))
    BY <1>1, <1>4, <1>5 DEF ServesAll
  <1>7. NoneFits(s)
    BY <1>1 DEF NoneFits
  <1>8. \A id : Candidates(LotStops({}, id), plan) = {}
                /\ Candidates(VehicleStops({}, id), plan) = {}
    BY DEF Candidates, LotStops, VehicleStops
  <1>9. Countable({}) /\ CasesIn({}) = 0
    BY FS_EmptySet, CasesInNothing DEF Countable
  <1>10. ASSUME NEW l \in safe
         PROVE  /\ Countable(FromLot(s.stops, l.lot, plan))
                /\ s.left[l.lot] + CasesIn(FromLot(s.stops, l.lot, plan)) = l.cases
    <2>1. FromLot(s.stops, l.lot, plan) = {}
      BY <1>1, <1>8 DEF FromLot
    <2>2. s.left[l.lot] = l.cases /\ l.cases \in Nat
      BY <1>2
    <2>3. s.left[l.lot] + 0 = l.cases
      BY <2>2
    <2> QED
      BY <1>9, <2>1, <2>3
  <1>11. ASSUME NEW v \in fleet
         PROVE  /\ Countable(OnVehicle(s.stops, v.vehicle, plan))
                /\ s.room[v.vehicle] + CasesIn(OnVehicle(s.stops, v.vehicle, plan))
                   = v.capacity - v.load
    <2>1. OnVehicle(s.stops, v.vehicle, plan) = {}
      BY <1>1, <1>8 DEF OnVehicle
    <2>2. s.room[v.vehicle] = v.capacity - v.load /\ v.capacity - v.load \in Nat
      BY <1>3
    <2>3. s.room[v.vehicle] + 0 = v.capacity - v.load
      BY <2>2
    <2> QED
      BY <1>9, <2>1, <2>3
  <1>12. Balanced(s, safe, fleet, plan)
    BY <1>10, <1>11 DEF Balanced
  <1>13. SoundSchedule(s, {}, safe, fleet, plan)
    BY <1>1, <1>6, <1>7, <1>12 DEF SoundSchedule
  <1> QED
    BY <1>13 DEF s

LEMMA PlaceIsSound ==
    ASSUME NEW safe, NEW fleet, Stock(safe, fleet), NEW plan, NEW T, NEW s,
           SoundSchedule(s, T, safe, fleet, plan), \A e \in T : e.cases \in Nat,
           NEW d, d.cases \in Nat, \A e \in T : e.id # d.id
    PROVE  SoundSchedule(Place(s, d), T \cup {d}, safe, fleet, plan)
  <1>1. /\ s.left \in [LotIds(safe) -> Nat] /\ s.room \in [VehicleIds(fleet) -> Nat]
        /\ s.unassigned \subseteq T
    BY DEF SoundSchedule, ServesAll
  <1>2. DOMAIN s.left \subseteq Range(Ids) /\ DOMAIN s.room \subseteq Range(Ids)
    BY <1>1 DEF Stock, LotIds, VehicleIds
  <1>3. d \notin T
    OBVIOUS
  <1>4. CASE /\ \/ \A id \in DOMAIN s.left : ~(s.left[id] >= d.cases)
                \/ \A id \in DOMAIN s.room : ~(s.room[id] >= d.cases)
             /\ Place(s, d) = LeftOut(s, d)
    <2>1. NoneFits(LeftOut(s, d))
      BY <1>1, <1>4, LeftOutFits DEF SoundSchedule
    <2>2. ServesAll(LeftOut(s, d), T \cup {d}, LotIds(safe), VehicleIds(fleet))
      BY <1>3, PlaceServes DEF SoundSchedule
    <2>3. Balanced(LeftOut(s, d), safe, fleet, plan) /\ IsSchedule(LeftOut(s, d))
      BY DEF SoundSchedule, Balanced, LeftOut, IsSchedule
    <2> QED
      BY <1>4, <2>1, <2>2, <2>3 DEF SoundSchedule
  <1>5. ASSUME NEW l \in LotIds(safe), NEW v \in VehicleIds(fleet),
               s.left[l] >= d.cases, s.room[v] >= d.cases,
               Place(s, d) = PlacedOn(s, d, l, v)
        PROVE  SoundSchedule(Place(s, d), T \cup {d}, safe, fleet, plan)
    <2>1. NoneFits(PlacedOn(s, d, l, v))
      BY <1>1, PlacedLeavesLess DEF SoundSchedule
    <2>2. ServesAll(PlacedOn(s, d, l, v), T \cup {d}, LotIds(safe), VehicleIds(fleet))
      BY <1>3, <1>5, PlaceServes DEF SoundSchedule
    <2>3. Balanced(PlacedOn(s, d, l, v), safe, fleet, plan)
      BY PlaceBalances DEF SoundSchedule
    <2>4. IsSchedule(PlacedOn(s, d, l, v))
      BY DEF IsSchedule, PlacedOn
    <2> QED
      BY <1>5, <2>1, <2>2, <2>3, <2>4 DEF SoundSchedule
  <1>6. IsSchedule(s)
    BY DEF SoundSchedule
  <1>7. DOMAIN s.left = LotIds(safe) /\ DOMAIN s.room = VehicleIds(fleet)
    BY <1>1
  <1> QED
    BY <1>2, <1>4, <1>5, <1>6, <1>7, PlaceIs

LEMMA ScheduleIsSound ==
    ASSUME NEW short, Demand(short), ShortfallsKeyed(short),
           NEW safe, NEW fleet, Stock(safe, fleet), NEW plan
    PROVE  SoundSchedule(Schedule(short, safe, fleet), short, safe, fleet, plan)
  <1> DEFINE start == NothingPlaced(safe, fleet)
  <1>1. PICK A : /\ PlacedFn(A, short, start)
                 /\ Schedule(short, safe, fleet) = A[short]
    BY ScheduleIsPlaced
  <1> HIDE DEF start
  <1> DEFINE Bad == {T \in SUBSET short : ~SoundSchedule(A[T], T, safe, fleet, plan)}
  <1>2. CASE Bad = {}
    <2>1. short \in SUBSET short
      OBVIOUS
    <2> QED
      BY <1>1, <1>2, <2>1
  <1>3. ASSUME Bad # {}
        PROVE  FALSE
    <2>0. Bad \in SUBSET SUBSET short
      OBVIOUS
    <2>1. /\ \A T \in Bad : T \in SUBSET short
                            /\ ~SoundSchedule(A[T], T, safe, fleet, plan)
          /\ \A T \in SUBSET short : T \notin Bad =>
                SoundSchedule(A[T], T, safe, fleet, plan)
      OBVIOUS
    <2> HIDE DEF Bad
    <2>2. PICK T \in Bad : \A U \in Bad : U \subseteq T => U = T
      BY <1>3, <2>0, SmallestSet DEF Demand
    <2>3. T \in SUBSET short /\ ~SoundSchedule(A[T], T, safe, fleet, plan)
      BY <2>1
    <2>4. CASE T = {}
      <3>1. A[T] = start
        BY <1>1, <2>3, <2>4, PlacedAt
      <3> QED
        BY <2>3, <2>4, <3>1, NothingIsSound DEF start
    <2>5. CASE T # {}
      <3> DEFINE d == LastOf(T)
      <3>1. /\ d \in T /\ Rest(T) \in SUBSET T /\ Rest(T) # T
            /\ Rest(T) \cup {d} = T /\ d \notin Rest(T)
        BY <2>3, <2>5, DemandOfSome
      <3>2. A[T] = Place(A[Rest(T)], d)
        BY <1>1, <2>3, <2>5, PlacedAt
      <3> HIDE DEF d
      <3>3. Rest(T) \in SUBSET short /\ Rest(T) \notin Bad
        BY <2>2, <2>3, <3>1
      <3>4. SoundSchedule(A[Rest(T)], Rest(T), safe, fleet, plan)
        BY <2>1, <3>3
      <3>5. \A e \in Rest(T) : e.id # d.id
        BY <2>3, <3>1 DEF ShortfallsKeyed
      <3>6. d.cases \in Nat /\ \A e \in Rest(T) : e.cases \in Nat
        BY <2>3, <3>1 DEF Demand, ShortfallRow, PosInt
      <3>7. SoundSchedule(Place(A[Rest(T)], d), Rest(T) \cup {d}, safe, fleet, plan)
        BY <3>4, <3>5, <3>6, PlaceIsSound
      <3> QED
        BY <2>3, <3>1, <3>2, <3>7
    <2> QED
      BY <2>4, <2>5
  <1> QED
    BY <1>2, <1>3

-----------------------------------------------------------------------------
(* What a candidate says of its schedule *)

(* CandidatesAreTruthful of one draft, and of the lots and vehicles it is about. *)
Truthful(b, safe, fleet) ==
    LET stops == StopsOf(b.vehicles)
        LeftOf(l) == l.cases - CasesIn({s \in stops : s.lot = l.lot})
        RoomOn(v) == v.capacity - v.load
                     - CasesIn(UNION {c.stops : c \in {x \in b.vehicles :
                                                            x.vehicle = v.vehicle}})
    IN  /\ \A f \in b.shortfalls :
              Cardinality({s \in stops : s.shortfall = f.id /\ s.cases = f.cases})
              + Cardinality({u \in b.unassigned : u.shortfall = f.id}) = 1
        /\ \A u \in b.unassigned :
              \/ \A l \in safe : LeftOf(l) < u.cases
              \/ \A v \in fleet : RoomOn(v) < u.cases

(* With fewer lots and vehicles there is less that an unassigned demand may fit. *)
LEMMA TruthfulOfLess ==
    ASSUME NEW b, NEW safe, NEW fleet, Truthful(b, safe, fleet),
           NEW lessSafe \in SUBSET safe, NEW lessFleet \in SUBSET fleet
    PROVE  Truthful(b, lessSafe, lessFleet)
  BY DEF Truthful

CandidateOn(v, stops, plan) ==
    [vehicle |-> v.vehicle, capacity |-> v.capacity, committed |-> v.load,
     load |-> CasesIn(OnVehicle(stops, v.vehicle, plan)),
     stops |-> OnVehicle(stops, v.vehicle, plan)]
Carrying(stops, fleet) == {w \in fleet : \E s \in stops : s.vehicle = w.vehicle}
UnassignedOf(u) == [shortfall |-> u.id, agency |-> u.agency, cases |-> u.cases]

LEMMA VehiclesOfCandidate ==
    ASSUME NEW s, NEW fleet, NEW plan
    PROVE  CandidateVehicles(s, fleet, plan)
           = {CandidateOn(v, s.stops, plan) : v \in Carrying(s.stops, fleet)}
  BY DEF CandidateVehicles, CandidateOn, Carrying, OnVehicle, Candidates, VehicleStops

LEMMA CandidateOnFields ==
    ASSUME NEW v, NEW stops, NEW plan
    PROVE  /\ CandidateOn(v, stops, plan).vehicle = v.vehicle
           /\ CandidateOn(v, stops, plan).stops = OnVehicle(stops, v.vehicle, plan)
  BY DEF CandidateOn

LEMMA StopsOfCandidate ==
    ASSUME NEW s, NEW fleet, NEW plan, \A x \in s.stops : x.vehicle \in VehicleIds(fleet)
    PROVE  /\ StopsOf(CandidateVehicles(s, fleet, plan)) = Candidates(s.stops, plan)
           /\ \A id : UNION {c.stops : c \in {x \in CandidateVehicles(s, fleet, plan) :
                                                 x.vehicle = id}}
                      = {c \in OnVehicle(s.stops, id, plan) : id \in VehicleIds(fleet)}
  <1> DEFINE C == CandidateVehicles(s, fleet, plan)
  <1>1. C = {CandidateOn(v, s.stops, plan) : v \in Carrying(s.stops, fleet)}
    BY VehiclesOfCandidate
  <1> HIDE DEF C
  <1>2. ASSUME NEW c \in C
        PROVE  \E v \in fleet : /\ c.vehicle = v.vehicle
                                /\ c.stops = OnVehicle(s.stops, v.vehicle, plan)
    <2>1. PICK v \in Carrying(s.stops, fleet) : c = CandidateOn(v, s.stops, plan)
      BY <1>1
    <2>2. v \in fleet
      BY DEF Carrying
    <2> QED
      BY <2>1, <2>2, CandidateOnFields
  <1>3. ASSUME NEW x \in s.stops
        PROVE  \E c \in C : /\ c.vehicle = x.vehicle
                            /\ c.stops = OnVehicle(s.stops, x.vehicle, plan)
    <2>1. PICK v \in fleet : v.vehicle = x.vehicle
      BY DEF VehicleIds
    <2>2. v \in Carrying(s.stops, fleet)
      BY <2>1 DEF Carrying
    <2>3. CandidateOn(v, s.stops, plan) \in C
      BY <1>1, <2>2
    <2> QED
      BY <2>1, <2>3, CandidateOnFields
  <1>4. \A id, r : r \in OnVehicle(s.stops, id, plan) <=>
           \E x \in s.stops : x.vehicle = id /\ r = CandidateStopOf(x, plan)
    BY DEF OnVehicle, Candidates, VehicleStops
  <1>5. \A r : r \in Candidates(s.stops, plan) <=>
           \E x \in s.stops : r = CandidateStopOf(x, plan)
    BY DEF Candidates
  <1>6. StopsOf(C) = Candidates(s.stops, plan)
    <2>1. \A r : r \in StopsOf(C) <=> \E c \in C : r \in c.stops
      BY DEF StopsOf
    <2>2. ASSUME NEW r \in StopsOf(C)
          PROVE  r \in Candidates(s.stops, plan)
      BY <1>2, <1>4, <1>5, <2>1
    <2>3. ASSUME NEW r \in Candidates(s.stops, plan)
          PROVE  r \in StopsOf(C)
      <3>1. PICK x \in s.stops : r = CandidateStopOf(x, plan)
        BY <1>5
      <3>2. PICK c \in C : c.stops = OnVehicle(s.stops, x.vehicle, plan)
        BY <1>3
      <3>3. r \in c.stops
        BY <1>4, <3>1, <3>2
      <3> QED
        BY <2>1, <3>3
    <2> QED
      BY <2>2, <2>3
  <1>7. ASSUME NEW id
        PROVE  UNION {c.stops : c \in {x \in C : x.vehicle = id}}
               = {c \in OnVehicle(s.stops, id, plan) : id \in VehicleIds(fleet)}
    <2> DEFINE U == UNION {c.stops : c \in {x \in C : x.vehicle = id}}
               V == {c \in OnVehicle(s.stops, id, plan) : id \in VehicleIds(fleet)}
    <2>1. \A r : r \in U <=> \E c \in C : c.vehicle = id /\ r \in c.stops
      OBVIOUS
    <2>2. \A r : r \in V <=> r \in OnVehicle(s.stops, id, plan) /\ id \in VehicleIds(fleet)
      OBVIOUS
    <2> HIDE DEF U, V
    <2>3. ASSUME NEW r \in U
          PROVE  r \in V
      <3>1. PICK c \in C : c.vehicle = id /\ r \in c.stops
        BY <2>1
      <3>2. PICK v \in fleet : /\ c.vehicle = v.vehicle
                               /\ c.stops = OnVehicle(s.stops, v.vehicle, plan)
        BY <1>2
      <3> QED
        BY <2>2, <3>1, <3>2 DEF VehicleIds
    <2>4. ASSUME NEW r \in V
          PROVE  r \in U
      <3>1. PICK x \in s.stops : x.vehicle = id /\ r = CandidateStopOf(x, plan)
        BY <1>4, <2>2
      <3>2. PICK c \in C : /\ c.vehicle = id
                           /\ c.stops = OnVehicle(s.stops, id, plan)
        BY <1>3, <3>1
      <3> QED
        BY <2>1, <2>2, <3>2
    <2>5. U = V
      BY <2>3, <2>4
    <2> QED
      BY <2>5 DEF U, V
  <1> QED
    BY <1>6, <1>7 DEF C

LEMMA OneOrNone ==
    ASSUME NEW S, NEW T,
           \/ T = {} /\ \E x : S = {x}
           \/ S = {} /\ \E x : T = {x}
    PROVE  Cardinality(S) + Cardinality(T) = 1
  <1>1. Cardinality({}) = 0 /\ \A x : Cardinality({x}) = 1
    BY FS_EmptySet, FS_Singleton
  <1>2. CASE T = {} /\ \E x : S = {x}
    <2>1. Cardinality(T) = 0 /\ Cardinality(S) = 1
      BY <1>1, <1>2
    <2> QED
      BY <2>1
  <1>3. CASE S = {} /\ \E x : T = {x}
    <2>1. Cardinality(S) = 0 /\ Cardinality(T) = 1
      BY <1>1, <1>3
    <2> QED
      BY <2>1
  <1> QED
    BY <1>2, <1>3

UnassignedRows(s) == {UnassignedOf(d) : d \in s.unassigned}
Serving(f, stops) == {c \in stops : c.shortfall = f.id /\ c.cases = f.cases}
ReportedShort(f, unassigned) == {u \in unassigned : u.shortfall = f.id}
(* Each demand has its one stop in the candidate, or is reported short. *)
LEMMA ServedOrShort ==
    ASSUME NEW s, NEW short, ShortfallsKeyed(short), NEW lotIds, NEW vehicleIds,
           ServesAll(s, short, lotIds, vehicleIds), NEW plan, NEW f \in short
    PROVE  Cardinality(Serving(f, Candidates(s.stops, plan)))
           + Cardinality(ReportedShort(f, UnassignedRows(s))) = 1
  <1> DEFINE stops == Candidates(s.stops, plan)
             S == Serving(f, stops)
             T == ReportedShort(f, UnassignedRows(s))
  <1>1. \A c : c \in S <=> \E x \in s.stops : x.demand = f /\ c = CandidateStopOf(x, plan)
    <2>1. \A x \in s.stops :
             /\ CandidateStopOf(x, plan).shortfall = x.demand.id
             /\ CandidateStopOf(x, plan).cases = x.demand.cases
             /\ x.demand.id = f.id => x.demand = f
      BY CandidateFields DEF ServesAll, ShortfallsKeyed
    <2>2. \A c : c \in stops <=> \E x \in s.stops : c = CandidateStopOf(x, plan)
      BY DEF Candidates
    <2>3. \A c : c \in S <=> /\ c \in stops
                            /\ c.shortfall = f.id /\ c.cases = f.cases
      BY DEF Serving
    <2> HIDE DEF S
    <2>4. ASSUME NEW c \in S
          PROVE  \E x \in s.stops : x.demand = f /\ c = CandidateStopOf(x, plan)
      <3>1. PICK x \in s.stops : c = CandidateStopOf(x, plan)
        BY <2>2, <2>3
      <3> QED
        BY <2>1, <2>3, <3>1
    <2>5. ASSUME NEW x \in s.stops, x.demand = f
          PROVE  CandidateStopOf(x, plan) \in S
      BY <2>1, <2>2, <2>3, <2>5
    <2> QED
      BY <2>4, <2>5
  <1>2. \A u : u \in T <=> f \in s.unassigned /\ u = UnassignedOf(f)
    <2>1. \A d \in s.unassigned : /\ UnassignedOf(d).shortfall = d.id
                                  /\ d.id = f.id => d = f
      BY DEF UnassignedOf, ServesAll, ShortfallsKeyed
    <2>2. UnassignedOf(f).shortfall = f.id
      BY DEF UnassignedOf
    <2> QED
      BY <2>1, <2>2 DEF ReportedShort, UnassignedRows
  <1> HIDE DEF S, T
  <1>3. CASE f \in s.unassigned
    <2>1. ~ \E x \in s.stops : x.demand = f
      BY <1>3 DEF ServesAll
    <2>2. S = {} /\ T = {UnassignedOf(f)}
      BY <1>1, <1>2, <1>3, <2>1
    <2>3. Cardinality(S) + Cardinality(T) = 1
      BY <2>2, OneOrNone
    <2> QED
      BY <2>3 DEF S, T
  <1>4. CASE f \notin s.unassigned
    <2>1. PICK x \in s.stops : x.demand = f
      BY <1>4 DEF ServesAll
    <2>2. \A y \in s.stops : y.demand = f => y = x
      BY <2>1 DEF ServesAll
    <2>3. S = {CandidateStopOf(x, plan)} /\ T = {}
      BY <1>1, <1>2, <1>4, <2>1, <2>2
    <2>4. Cardinality(S) + Cardinality(T) = 1
      BY <2>3, OneOrNone
    <2> QED
      BY <2>4 DEF S, T
  <1> QED
    BY <1>3, <1>4

LEMMA SoundIsTruthful ==
    ASSUME NEW short, Demand(short), ShortfallsKeyed(short),
           NEW safe, NEW fleet, Stock(safe, fleet), NEW plan,
           NEW s, SoundSchedule(s, short, safe, fleet, plan),
           NEW b, b.shortfalls = short, b.vehicles = CandidateVehicles(s, fleet, plan),
           b.unassigned = UnassignedRows(s)
    PROVE  Truthful(b, safe, fleet)
  <1> DEFINE stops == StopsOf(b.vehicles)
             LeftOf(l) == l.cases - CasesIn({c \in stops : c.lot = l.lot})
             OnIt(v) == UNION {c.stops : c \in {x \in b.vehicles : x.vehicle = v.vehicle}}
             RoomOn(v) == v.capacity - v.load - CasesIn(OnIt(v))
  <1>0. ServesAll(s, short, LotIds(safe), VehicleIds(fleet))
    BY DEF SoundSchedule
  <1>1. \A x \in s.stops : x.vehicle \in VehicleIds(fleet)
    BY <1>0 DEF ServesAll
  <1>2. stops = Candidates(s.stops, plan)
    BY <1>1, StopsOfCandidate
  <1>3. ASSUME NEW f \in b.shortfalls
        PROVE  Cardinality({c \in stops : c.shortfall = f.id /\ c.cases = f.cases})
               + Cardinality({u \in b.unassigned : u.shortfall = f.id}) = 1
    <2>1. Cardinality(Serving(f, Candidates(s.stops, plan)))
          + Cardinality(ReportedShort(f, UnassignedRows(s))) = 1
      BY <1>0, ServedOrShort
    <2> HIDE DEF stops
    <2> QED
      BY <1>2, <2>1 DEF Serving, ReportedShort
  <1>4. ASSUME NEW l \in safe
        PROVE  LeftOf(l) = s.left[l.lot]
    <2> DEFINE R == {c \in stops : c.lot = l.lot}
    <2>1. R = FromLot(s.stops, l.lot, plan)
      <3>1. \A x : CandidateStopOf(x, plan).lot = x.lot
        BY CandidateFields
      <3> QED
        BY <1>2, <3>1 DEF FromLot, Candidates, LotStops
    <2> HIDE DEF R
    <2>2. Countable(R) /\ s.left[l.lot] + CasesIn(R) = l.cases
      BY <2>1 DEF SoundSchedule, Balanced
    <2>3. CasesIn(R) \in Nat
      BY <2>2, CasesInNat
    <2>4. s.left[l.lot] \in Nat
      BY <1>0 DEF ServesAll, LotIds
    <2>5. l.cases - CasesIn(R) = s.left[l.lot]
      BY <2>2, <2>3, <2>4
    <2> QED
      BY <2>5 DEF R
  <1>5. ASSUME NEW v \in fleet
        PROVE  RoomOn(v) = s.room[v.vehicle]
    <2>1. v.vehicle \in VehicleIds(fleet)
      BY DEF VehicleIds
    <2>2. OnIt(v) = OnVehicle(s.stops, v.vehicle, plan)
      <3>1. PICK id : id = v.vehicle
        OBVIOUS
      <3>2. UNION {c.stops : c \in {x \in CandidateVehicles(s, fleet, plan) :
                                       x.vehicle = id}}
            = {c \in OnVehicle(s.stops, id, plan) : id \in VehicleIds(fleet)}
        BY <1>1, StopsOfCandidate
      <3> QED
        BY <2>1, <3>1, <3>2
    <2> HIDE DEF OnIt
    <2> DEFINE n == CasesIn(OnIt(v))
               total == v.capacity - v.load
    <2>3. Countable(OnIt(v)) /\ s.room[v.vehicle] + n = total
      BY <2>2 DEF SoundSchedule, Balanced
    <2>4. n \in Nat
      BY <2>3, CasesInNat
    <2>5. s.room[v.vehicle] \in Nat
      BY <1>0, <2>1 DEF ServesAll
    <2> HIDE DEF n, total
    <2>6. total - n = s.room[v.vehicle]
      BY <2>3, <2>4, <2>5
    <2> QED
      BY <2>6 DEF n, total
  <1>6. ASSUME NEW u \in b.unassigned
        PROVE  \/ \A l \in safe : LeftOf(l) < u.cases
               \/ \A v \in fleet : RoomOn(v) < u.cases
    <2>1. PICK d \in s.unassigned : u = UnassignedOf(d)
      BY DEF UnassignedRows
    <2>2. u.cases = d.cases
      BY <2>1 DEF UnassignedOf
    <2>3. DOMAIN s.left = LotIds(safe) /\ DOMAIN s.room = VehicleIds(fleet)
      BY <1>0 DEF ServesAll
    <2>4. \/ \A id \in LotIds(safe) : s.left[id] < d.cases
          \/ \A id \in VehicleIds(fleet) : s.room[id] < d.cases
      BY <2>3 DEF SoundSchedule, NoneFits
    <2> HIDE DEF LeftOf, RoomOn
    <2>5. CASE \A id \in LotIds(safe) : s.left[id] < d.cases
      <3>1. \A l \in safe : l.lot \in LotIds(safe)
        BY DEF LotIds
      <3> QED
        BY <1>4, <2>2, <2>5, <3>1
    <2>6. CASE \A id \in VehicleIds(fleet) : s.room[id] < d.cases
      <3>1. \A v \in fleet : v.vehicle \in VehicleIds(fleet)
        BY DEF VehicleIds
      <3> QED
        BY <1>5, <2>2, <2>6, <3>1
    <2> QED
      BY <2>4, <2>5, <2>6
  <1> QED
    BY <1>3, <1>6 DEF Truthful

-----------------------------------------------------------------------------
(* The stock and the shortfalls a draft is derived from, and what becomes of them *)

(* Safe lots and shortfalls have keys of their own and listed identifiers. *)
SupplyInv ==
    /\ \A l, m \in lots : l.lot = m.lot => l = m
    /\ \A l \in lots : l.lot \in Range(Ids)
    /\ IsFiniteSet(shortfalls) /\ ShortfallsKeyed(shortfalls)
    /\ \A f \in shortfalls : {f.id, f.agency} \subseteq Range(Ids)
(* Vehicles come with a plan. *)
VehiclesArePlanned ==
    vehicles = {} \/ \E c \in Commands : /\ c.type = "SAVE_PLAN_REVISION"
                                         /\ PlanExists(c.body.plan, c.body.rev)
CandidatesInv ==
    /\ SupplyInv /\ VehiclesInv /\ IdsInv /\ VehiclesArePlanned
    /\ \A c \in Commanded("CREATE_NEXT_DAY_DRAFT") :
          vehicles # {} /\ Truthful(c.body, SafeLots, Fleet)

LEMMA WhoChangesLots ==
    ASSUME [Next]_vars
    PROVE  \/ lots' = lots
           \/ \E c \in Commands : SavePlanRevision(c) \/ ActivateMovementBarrier(c)
  <1>1. ASSUME NEW c \in Commands, Execute(c),
               ~SavePlanRevision(c), ~ActivateMovementBarrier(c)
        PROVE  lots' = lots
    BY <1>1
    DEF Execute, DenyRole, DenyStaleRevision, RecordRefusal,
        PersistRepairProposal, PersistRepairApproval,
        ActivateApprovedRepairPlan, InvalidatePlan, PersistCoordinator,
        OpenRecallIncident, SetIncidentStatus,
        AllocateSafeStock, RecordAcknowledgmentHold, ApplyPartnerEvidence,
        DenyPartnerEvidence, CreateNextDayDraft, ReaffirmNextDayDraft,
        dataVars, stockVars
  <1> QED
    BY <1>1 DEF Next, Tick, vars, stockVars

LEMMA WhoChangesShortfalls ==
    ASSUME [Next]_vars
    PROVE  shortfalls' = shortfalls \/ \E c \in Commands : AllocateSafeStock(c)
  <1>1. ASSUME NEW c \in Commands, Execute(c), ~AllocateSafeStock(c)
        PROVE  shortfalls' = shortfalls
    BY <1>1
    DEF Execute, DenyRole, DenyStaleRevision, RecordRefusal, SavePlanRevision,
        PersistRepairProposal, PersistRepairApproval,
        ActivateApprovedRepairPlan, InvalidatePlan, PersistCoordinator,
        OpenRecallIncident, SetIncidentStatus, ActivateMovementBarrier,
        RecordAcknowledgmentHold, ApplyPartnerEvidence,
        DenyPartnerEvidence, CreateNextDayDraft, ReaffirmNextDayDraft,
        dataVars, recoveryVars
  <1> QED
    BY <1>1 DEF Next, Tick, vars, recoveryVars

(* Barring a lot changes its hazard only. *)
RecalledRow(l, lot) == IF l.lot = lot THEN [l EXCEPT !.hazard = "RECALLED"] ELSE l
LEMMA RecalledRows ==
    ASSUME TypeOK, NEW lot
    PROVE  /\ Recalled(lot) = {RecalledRow(l, lot) : l \in lots}
           /\ \A l \in lots : /\ RecalledRow(l, lot).lot = l.lot
                              /\ \/ RecalledRow(l, lot) = l
                                 \/ RecalledRow(l, lot).hazard = "RECALLED"
  <1>1. Recalled(lot) = {RecalledRow(l, lot) : l \in lots}
    BY DEF Recalled, RecalledRow
  <1>2. ASSUME NEW l \in lots
        PROVE  /\ RecalledRow(l, lot).lot = l.lot
               /\ \/ RecalledRow(l, lot) = l
                  \/ RecalledRow(l, lot).hazard = "RECALLED"
    <2>1. l \in LotRow
      BY DEF TypeOK
    <2> QED
      BY <2>1 DEF RecalledRow, LotRow
  <1> QED
    BY <1>1, <1>2

LEMMA LotsKept ==
    ASSUME TypeOK, IdsAreListed, SupplyInv, [Next]_vars
    PROVE  /\ \A l, m \in lots' : l.lot = m.lot => l = m
           /\ \A l \in lots' : l.lot \in Range(Ids)
           /\ (\A c \in Commands : ~SavePlanRevision(c)) => SafeLots' \subseteq SafeLots
  <1>1. CASE lots' = lots
    BY <1>1 DEF SupplyInv, SafeLots
  <1>2. ASSUME NEW c \in Commands, SavePlanRevision(c)
        PROVE  /\ \A l, m \in lots' : l.lot = m.lot => l = m
               /\ \A l \in lots' : l.lot \in Range(Ids)
    <2> DEFINE new == c.body.lots
    <2>1. /\ lots' = lots \cup new
          /\ \A l, m \in new : l.lot = m.lot => l = m
          /\ \A l \in new, m \in lots : l.lot # m.lot
      BY <1>2 DEF SavePlanRevision, SaveOk, Insertable
    <2>2. \A l \in new : l.lot \in Range(Ids)
      BY <1>2 DEF SavePlanRevision, Admitted, IdsAreListed
    <2> HIDE DEF new
    <2> QED
      BY <2>1, <2>2 DEF SupplyInv
  <1>3. ASSUME NEW c \in Commands, ActivateMovementBarrier(c)
        PROVE  /\ \A l, m \in lots' : l.lot = m.lot => l = m
               /\ \A l \in lots' : l.lot \in Range(Ids)
               /\ SafeLots' \subseteq SafeLots
    <2>1. PICK lot : lots' = Recalled(lot)
      BY <1>3 DEF ActivateMovementBarrier
    <2>2. /\ \A m : m \in lots' <=> \E l \in lots : m = RecalledRow(l, lot)
          /\ \A l \in lots : /\ RecalledRow(l, lot).lot = l.lot
                             /\ \/ RecalledRow(l, lot) = l
                                \/ RecalledRow(l, lot).hazard = "RECALLED"
      BY <2>1, RecalledRows
    <2>3. ASSUME NEW l \in lots', NEW m \in lots', l.lot = m.lot
          PROVE  l = m
      <3>1. PICK x \in lots : l = RecalledRow(x, lot)
        BY <2>2
      <3>2. PICK y \in lots : m = RecalledRow(y, lot)
        BY <2>2
      <3>3. x.lot = y.lot
        BY <2>2, <2>3, <3>1, <3>2
      <3> QED
        BY <3>1, <3>2, <3>3 DEF SupplyInv
    <2>4. \A l \in lots' : l.lot \in Range(Ids)
      BY <2>2 DEF SupplyInv
    <2>5. ASSUME NEW m \in lots', m.hazard = "CLEAR_SAFE"
          PROVE  m \in lots
      BY <2>2, <2>5
    <2>6. SafeLots' \subseteq SafeLots
      BY <2>5 DEF SafeLots
    <2> QED
      BY <2>3, <2>4, <2>6
  <1> QED
    BY <1>1, <1>2, <1>3, WhoChangesLots

LEMMA SupplyInvStep ==
    ASSUME TypeOK, IdsAreListed, SupplyInv, [Next]_vars
    PROVE  SupplyInv'
  <1>1. CASE shortfalls' = shortfalls
    BY <1>1, LotsKept DEF SupplyInv
  <1>2. ASSUME NEW c \in Commands, AllocateSafeStock(c)
        PROVE  SupplyInv'
    <2> DEFINE new == c.body.shortfalls
    <2>1. /\ shortfalls' = shortfalls \cup new
          /\ \A f, g \in new : f.id = g.id => f = g
          /\ \A f \in new, g \in shortfalls : f.id # g.id
      BY <1>2 DEF AllocateSafeStock, Insertable
    <2>2. c.type = "ALLOCATE_SAFE_STOCK"
      BY <1>2 DEF AllocateSafeStock, Admitted
    <2>3. IsFiniteSet(new)
      BY <2>2, PayloadTyping DEF AllocateSafeStockPayload, NonEmpty
    <2>4. \A f \in new : {f.id, f.agency} \subseteq Range(Ids)
      BY <2>2 DEF IdsAreListed
    <2> HIDE DEF new
    <2>5. IsFiniteSet(shortfalls \cup new)
      BY <2>3, FS_Union DEF SupplyInv
    <2>6. ShortfallsKeyed(shortfalls \cup new)
      BY <2>1 DEF SupplyInv, ShortfallsKeyed
    <2>7. \A f \in shortfalls \cup new : {f.id, f.agency} \subseteq Range(Ids)
      BY <2>4 DEF SupplyInv
    <2> QED
      BY <2>1, <2>5, <2>6, <2>7, LotsKept DEF SupplyInv
  <1> QED
    BY <1>1, <1>2, WhoChangesShortfalls

LEMMA VehiclesArePlannedStep ==
    ASSUME TypeOK, VehiclesArePlanned, [Next]_vars
    PROVE  VehiclesArePlanned'
  <1>1. CASE vehicles' = vehicles
    <2>1. CASE vehicles = {}
      BY <1>1, <2>1 DEF VehiclesArePlanned
    <2>2. ASSUME NEW c \in Commands, c.type = "SAVE_PLAN_REVISION",
                 PlanExists(c.body.plan, c.body.rev)
          PROVE  VehiclesArePlanned'
      <3>1. PICK p, r : p = c.body.plan /\ r = c.body.rev
        OBVIOUS
      <3>2. PlanExists(p, r)'
        BY <2>2, <3>1, PlanExistsKept
      <3> QED
        BY <2>2, <3>1, <3>2 DEF VehiclesArePlanned
    <2> QED
      BY <2>1, <2>2 DEF VehiclesArePlanned
  <1>2. ASSUME NEW c \in Commands, SavePlanRevision(c)
        PROVE  VehiclesArePlanned'
    <2>1. PICK row : /\ PlanAdded(row) /\ c.type = "SAVE_PLAN_REVISION"
                     /\ row.plan = c.body.plan /\ row.rev = "rev07"
      BY <1>2, SaveAdds
    <2>2. c.body.rev = "rev07"
      BY <2>1, PayloadTyping DEF SavePlanRevisionPayload
    <2>3. Len(plans) + 1 \in DOMAIN plans' /\ plans'[Len(plans) + 1] = row
      BY <2>1, PlansDomain DEF PlanAdded
    <2> QED
      BY <2>1, <2>2, <2>3 DEF VehiclesArePlanned, PlanExists
  <1> QED
    BY <1>1, <1>2, WhoInsertsVehicles

(* No plan is saved any more when there are vehicles. *)
LEMMA NothingSavedAgain ==
    ASSUME OnePlanOfTheDay, VehiclesArePlanned, vehicles # {}, NEW c \in Commands
    PROVE  ~SavePlanRevision(c)
  <1> SUFFICES ASSUME SavePlanRevision(c)
               PROVE  FALSE
    OBVIOUS
  <1>1. c.type = "SAVE_PLAN_REVISION" /\ ~PlanExists(c.body.plan, c.body.rev)
    BY DEF SavePlanRevision, Admitted, SaveOk
  <1>2. PICK d \in Commands : /\ d.type = "SAVE_PLAN_REVISION"
                              /\ PlanExists(d.body.plan, d.body.rev)
    BY DEF VehiclesArePlanned
  <1>3. c.body.rev = "rev07" /\ d.body.rev = "rev07"
    BY <1>1, <1>2, PayloadTyping DEF SavePlanRevisionPayload
  <1>4. c.body.plan = d.body.plan
    BY <1>1, <1>2 DEF OnePlanOfTheDay
  <1> QED
    BY <1>1, <1>2, <1>3, <1>4

LEMMA SupplyOnlyShrinks ==
    ASSUME TypeOK, IdsAreListed, OnePlanOfTheDay, SupplyInv, VehiclesArePlanned,
           vehicles # {}, [Next]_vars
    PROVE  SafeLots' \subseteq SafeLots /\ Fleet' = Fleet
  <1>1. \A c \in Commands : ~SavePlanRevision(c)
    BY NothingSavedAgain
  <1>2. vehicles' = vehicles
    BY <1>1, WhoInsertsVehicles
  <1> QED
    BY <1>1, <1>2, LotsKept DEF Fleet

(* What the stock and the shortfalls are to the schedule of a draft. *)
LEMMA SupplyIsStock ==
    ASSUME TypeOK, SupplyInv, VehiclesInv, IdsInv
    PROVE  /\ Stock(SafeLots, Fleet)
           /\ Demand(shortfalls) /\ ShortfallsKeyed(shortfalls)
  <1>1. SafeLots \subseteq lots /\ Fleet \subseteq vehicles
    BY DEF SafeLots, Fleet
  <1>2. lots \subseteq LotRow /\ vehicles \subseteq VehicleRow
        /\ shortfalls \subseteq ShortfallRow
    BY DEF TypeOK
  <1>3. {l.lot : l \in SafeLots} \subseteq Range(Ids)
        /\ {v.vehicle : v \in Fleet} \subseteq Range(Ids)
    BY <1>1 DEF SupplyInv, IdsInv
  <1>4. Stock(SafeLots, Fleet)
    BY <1>1, <1>2, <1>3 DEF Stock, SupplyInv, VehiclesInv
  <1>5. Demand(shortfalls)
    BY <1>2 DEF SupplyInv, Demand
  <1> QED
    BY <1>4, <1>5 DEF SupplyInv

LEMMA DraftFields ==
    LET plan == NextPlanId
        schedule == Schedule(shortfalls, SafeLots, Fleet)
        b == NextDayDraft.body
    IN  /\ b.shortfalls = shortfalls
        /\ b.vehicles = CandidateVehicles(schedule, Fleet, plan)
        /\ b.unassigned = UnassignedRows(schedule)
  BY DEF NextDayDraft, PlannerCmd, Cmd, UnassignedRows, UnassignedOf

LEMMA DraftIsTruthful ==
    ASSUME TypeOK, SupplyInv, VehiclesInv, IdsInv
    PROVE  Truthful(NextDayDraft.body, SafeLots, Fleet)
  <1>1. PICK plan, s, b :
           /\ plan = NextPlanId
           /\ s = Schedule(shortfalls, SafeLots, Fleet)
           /\ b = NextDayDraft.body
    OBVIOUS
  <1>2. /\ b.shortfalls = shortfalls /\ b.vehicles = CandidateVehicles(s, Fleet, plan)
        /\ b.unassigned = UnassignedRows(s)
    BY <1>1, DraftFields
  <1>3. /\ Stock(SafeLots, Fleet)
        /\ Demand(shortfalls) /\ ShortfallsKeyed(shortfalls)
    BY SupplyIsStock
  <1>4. SoundSchedule(s, shortfalls, SafeLots, Fleet, plan)
    BY <1>1, <1>3, ScheduleIsSound
  <1>5. Truthful(b, SafeLots, Fleet)
    BY <1>2, <1>3, <1>4, SoundIsTruthful
  <1> QED
    BY <1>1, <1>5

(* A draft comes of the constraints as they are; until then, and after, the drafts
   are those there were. *)
LEMMA WhereDraftsComeFrom ==
    ASSUME DayTyped, JobsInv, [DayNext]_dayVars
    PROVE  \/ \A c \in Commanded("CREATE_NEXT_DAY_DRAFT")' :
                 c \in Commanded("CREATE_NEXT_DAY_DRAFT")
           \/ /\ UNCHANGED vars /\ ConstraintsComplete
              /\ \A c \in Commanded("CREATE_NEXT_DAY_DRAFT")' :
                    c \in Commanded("CREATE_NEXT_DAY_DRAFT") \/ c = NextDayDraft
  <1>1. "CREATE_NEXT_DAY_DRAFT" \in Agentic
    BY DEF Agentic
  <1>2. ASSUME NEW q, NEW c, Derives(q, c), c.type = "CREATE_NEXT_DAY_DRAFT"
        PROVE  ConstraintsComplete /\ c = NextDayDraft
    BY <1>2, TypesDerived DEF Derives
  <1> QED
    BY <1>1, <1>2, WhereCommandsComeFrom

LEMMA CandidatesInvStep ==
    ASSUME OnePlanOfTheDay, IdsAreListed, TypeOK, DayTyped, JobsInv, CandidatesInv,
           [DayNext]_dayVars
    PROVE  CandidatesInv'
  <1>1. [Next]_vars
    BY DayStepIsLedgerStep
  <1>2. SupplyInv' /\ VehiclesInv' /\ IdsInv' /\ VehiclesArePlanned'
    BY <1>1, SupplyInvStep, VehiclesInvStep, IdsInvStep, VehiclesArePlannedStep
    DEF CandidatesInv
  <1> DEFINE C == Commanded("CREATE_NEXT_DAY_DRAFT")
  <1>3. ASSUME NEW c \in C
        PROVE  vehicles' # {} /\ Truthful(c.body, SafeLots', Fleet')
    <2>1. vehicles # {} /\ Truthful(c.body, SafeLots, Fleet)
      BY DEF CandidatesInv
    <2>2. vehicles \subseteq vehicles'
      BY <1>1, VehiclesKept
    <2>3. SafeLots' \subseteq SafeLots /\ Fleet' = Fleet
      BY <1>1, <2>1, SupplyOnlyShrinks DEF CandidatesInv
    <2>4. PICK safe, fleet, less, as : /\ safe = SafeLots /\ fleet = Fleet
                                       /\ less = SafeLots' /\ as = Fleet'
      OBVIOUS
    <2>5. Truthful(c.body, less, as)
      BY <2>1, <2>3, <2>4, TruthfulOfLess
    <2> QED
      BY <2>1, <2>2, <2>4, <2>5
  <1>4. CASE \A c \in C' : c \in C
    <2>1. \A c \in C' : vehicles' # {} /\ Truthful(c.body, SafeLots', Fleet')
      BY <1>3, <1>4
    <2> QED
      BY <1>2, <2>1 DEF CandidatesInv
  <1>5. CASE /\ UNCHANGED vars /\ ConstraintsComplete
             /\ \A c \in C' : c \in C \/ c = NextDayDraft
    <2>1. PICK draft : draft = NextDayDraft
      OBVIOUS
    <2>2. Truthful(draft.body, SafeLots, Fleet)
      BY <2>1, DraftIsTruthful DEF CandidatesInv
    <2>3. vehicles # {}
      BY <1>5 DEF ConstraintsComplete, Fleet
    <2>4. SafeLots' = SafeLots /\ Fleet' = Fleet /\ vehicles' = vehicles
      BY <1>5 DEF vars, stockVars, SafeLots, Fleet
    <2>5. Truthful(draft.body, SafeLots', Fleet') /\ vehicles' # {}
      BY <2>2, <2>3, <2>4
    <2>6. \A c \in C' : c \in C \/ c = draft
      BY <1>5, <2>1
    <2>7. \A c \in C' : vehicles' # {} /\ Truthful(c.body, SafeLots', Fleet')
      BY <1>3, <2>5, <2>6
    <2> QED
      BY <1>2, <2>7 DEF CandidatesInv
  <1> QED
    BY <1>4, <1>5, WhereDraftsComeFrom

LEMMA CandidatesInvariant ==
    ASSUME OnePlanOfTheDay, IdsAreListed
    PROVE  DaySpec => [](JobsInv /\ ReadersHaveNone /\ CandidatesInv)
  <1>1. DayInit => JobsInv /\ ReadersHaveNone /\ CandidatesInv
    <2> SUFFICES ASSUME DayInit
                 PROVE  JobsInv /\ ReadersHaveNone /\ CandidatesInv
      OBVIOUS
    <2>1. /\ JobsInv /\ ReadersHaveNone
          /\ VehiclesInv /\ IdsInv /\ VehiclesArePlanned
      BY DEF DayInit, Init, JobsInv, ReadersHaveNone, VehiclesInv, IdsInv,
             VehiclesArePlanned
    <2>2. SupplyInv
      BY FS_EmptySet DEF DayInit, Init, SupplyInv, ShortfallsKeyed
    <2>3. Commanded("CREATE_NEXT_DAY_DRAFT") = {}
      BY DEF DayInit, Commanded
    <2> QED
      BY <2>1, <2>2, <2>3 DEF CandidatesInv
  <1>2. /\ TypeOK /\ DayTyped /\ JobsInv /\ ReadersHaveNone /\ CandidatesInv
        /\ [DayNext]_dayVars
        => JobsInv' /\ ReadersHaveNone' /\ CandidatesInv'
    BY JobsInvStep, ReadersHaveNoneStep, CandidatesInvStep
  <1> QED
    BY <1>1, <1>2, DayUsesLedger, TypeCorrect, DayTypedInvariant, PTL DEF DaySpec

(* The candidate of a next day tells the truth about its shortfalls, for every
   demand and fleet, whatever is committed after it was derived: each shortfall has
   one stop or is reported short, and what is short does not fit in what is left. *)
THEOREM CandidatesTellTheTruth ==
    ASSUME OnePlanOfTheDay, IdsAreListed
    PROVE  DaySpec => []CandidatesAreTruthful
  <1>1. ReadersHaveNone /\ CandidatesInv => CandidatesAreTruthful
    <2> SUFFICES ASSUME ReadersHaveNone, CandidatesInv, NEW b \in Drafts
                 PROVE  Truthful(b, SafeLots, Fleet)
      BY DEF CandidatesAreTruthful, Truthful
    <2>1. PICK j \in Derived("CREATE_NEXT_DAY_DRAFT") : b = j.command.body
      BY DEF Drafts
    <2> QED
      BY <2>1, DerivedIsCommanded DEF CandidatesInv
  <1> QED
    BY <1>1, CandidatesInvariant, PTL

-----------------------------------------------------------------------------
(* The revisions of the day: the morning plan, its one repair and the drafts *)

RevisionsInv ==
    /\ \A i \in DOMAIN plans :
          \/ plans[i].rev = "rev01" /\ plans[i].status = "DRAFT_WITH_CONSTRAINTS"
          \/ /\ plans[i].rev \in {"rev07", "rev08"}
             /\ plans[i].status # "DRAFT_WITH_CONSTRAINTS"
             /\ \E c \in Commands : /\ c.type = "SAVE_PLAN_REVISION"
                                    /\ plans[i].plan = c.body.plan
    /\ \A i, j \in DOMAIN plans :
          plans[i].plan = plans[j].plan /\ plans[i].rev = plans[j].rev => i = j
    /\ \A i, j \in DOMAIN plans :
          plans[i].rev = "rev08" /\ plans[j].rev = "rev07" => plans[j].status # "ACTIVE"

(* The revisions in force have one plan. *)
LEMMA OneImportedPlan ==
    ASSUME OnePlanOfTheDay, RevisionsInv, NEW i \in DOMAIN plans, NEW j \in DOMAIN plans,
           plans[i].rev # "rev01", plans[j].rev # "rev01"
    PROVE  plans[i].plan = plans[j].plan
  BY DEF OnePlanOfTheDay, RevisionsInv

LEMMA RevisionsInvStep ==
    ASSUME OnePlanOfTheDay, RepairsMakeRev08, TypeOK, ImportedFirst, RevisionsInv,
           [Next]_vars
    PROVE  RevisionsInv'
  <1> USE PlansDomain
  <1>1. CASE plans' = plans
    BY <1>1 DEF RevisionsInv
  <1>2. ASSUME NEW row, PlanAdded(row),
               \/ /\ row.rev = "rev07" /\ row.status = "ACTIVE"
                  /\ \E c \in Commands : /\ c.type = "SAVE_PLAN_REVISION"
                                         /\ row.plan = c.body.plan
               \/ row.status = "DRAFT_WITH_CONSTRAINTS" /\ row.rev = "rev01"
        PROVE  RevisionsInv'
    <2>1. \A i \in DOMAIN plans' : i \in DOMAIN plans \/ i = Len(plans) + 1
      BY <1>2 DEF PlanAdded
    <2>2. /\ \A i \in DOMAIN plans : /\ i \in DOMAIN plans' /\ i # Len(plans) + 1
                                     /\ plans'[i] = plans[i]
                                     /\ ~(plans[i].plan = row.plan /\ plans[i].rev = row.rev)
          /\ Len(plans) + 1 \in DOMAIN plans' /\ plans'[Len(plans) + 1] = row
      BY <1>2 DEF PlanAdded, PlanExists
    <2>3. row.rev = "rev07" => \A i \in DOMAIN plans : plans[i].rev # "rev08"
      <3> SUFFICES ASSUME row.rev = "rev07", NEW i \in DOMAIN plans, plans[i].rev = "rev08"
                   PROVE  FALSE
        OBVIOUS
      <3>1. plans[i].plan = row.plan /\ plans[i].status # "DRAFT_WITH_CONSTRAINTS"
        BY <1>2 DEF RevisionsInv, OnePlanOfTheDay
      <3>2. PlanExists(row.plan, "rev07")
        BY <3>1 DEF ImportedFirst
      <3> QED
        BY <2>2, <3>2 DEF PlanExists
    <2> QED
      BY <1>2, <2>1, <2>2, <2>3 DEF RevisionsInv
  <1>3. ASSUME NEW i, NEW row, PlanReplaced(i, row), row.rev = "rev08"
        PROVE  RevisionsInv'
    <2>1. \A j \in DOMAIN plans' : j \in DOMAIN plans \/ j = Len(plans) + 1
      BY <1>3 DEF PlanReplaced
    <2>2. /\ i \in DOMAIN plans /\ plans[i].status = "ACTIVE"
          /\ plans'[i].plan = plans[i].plan /\ plans'[i].rev = plans[i].rev
          /\ plans'[i].status = "SUPERSEDED"
          /\ row.plan = plans[i].plan /\ row.status = "ACTIVE"
      BY <1>3 DEF PlanReplaced, ActiveRows, PlanRow
    <2>3. /\ \A j \in DOMAIN plans : /\ j \in DOMAIN plans' /\ j # Len(plans) + 1
                                     /\ j # i => plans'[j] = plans[j]
                                     /\ ~(plans[j].plan = row.plan /\ plans[j].rev = row.rev)
          /\ Len(plans) + 1 \in DOMAIN plans' /\ plans'[Len(plans) + 1] = row
      BY <1>3 DEF PlanReplaced, PlanExists
    <2>4. /\ \A j \in DOMAIN plans : plans'[j].plan = plans[j].plan
                                     /\ plans'[j].rev = plans[j].rev
      BY <2>2, <2>3
    <2>5. plans[i].rev = "rev07"
      BY <1>3, <2>2, <2>3 DEF RevisionsInv
    <2>6. \A j \in DOMAIN plans : plans[j].rev = "rev07" => j = i
      BY <2>2, <2>5, OneImportedPlan DEF RevisionsInv
    <2>7. \A j \in DOMAIN plans : plans[j].rev # "rev08"
      BY <1>3, <2>2, <2>3, <2>5, OneImportedPlan
    <2>8. ASSUME NEW j \in DOMAIN plans'
          PROVE  \/ plans'[j].rev = "rev01" /\ plans'[j].status = "DRAFT_WITH_CONSTRAINTS"
                 \/ /\ plans'[j].rev \in {"rev07", "rev08"}
                    /\ plans'[j].status # "DRAFT_WITH_CONSTRAINTS"
                    /\ \E c \in Commands : /\ c.type = "SAVE_PLAN_REVISION"
                                           /\ plans'[j].plan = c.body.plan
      <3>1. CASE j = Len(plans) + 1
        BY <1>3, <2>2, <2>3, <2>5, <3>1 DEF RevisionsInv
      <3>2. CASE j = i
        BY <2>2, <2>5, <3>2 DEF RevisionsInv
      <3>3. CASE j \in DOMAIN plans /\ j # i
        BY <2>3, <3>3 DEF RevisionsInv
      <3> QED
        BY <2>1, <3>1, <3>2, <3>3
    <2>9. \A j, k \in DOMAIN plans' :
             plans'[j].plan = plans'[k].plan /\ plans'[j].rev = plans'[k].rev => j = k
      BY <2>1, <2>3, <2>4 DEF RevisionsInv
    <2>10. \A j, k \in DOMAIN plans' :
              plans'[j].rev = "rev08" /\ plans'[k].rev = "rev07" => plans'[k].status # "ACTIVE"
      BY <1>3, <2>1, <2>2, <2>3, <2>4, <2>6
    <2> QED
      BY <2>8, <2>9, <2>10 DEF RevisionsInv
  <1>4. ASSUME NEW i, PlanRecalled(i)
        PROVE  RevisionsInv'
    <2>1. /\ i \in DOMAIN plans /\ plans[i].status = "ACTIVE"
          /\ plans'[i].plan = plans[i].plan /\ plans'[i].rev = plans[i].rev
          /\ plans'[i].status = "INVALIDATED_RECALL"
      BY <1>4 DEF PlanRecalled, ActiveRows, PlanRow
    <2>2. /\ DOMAIN plans' = DOMAIN plans
          /\ \A j \in DOMAIN plans : j # i => plans'[j] = plans[j]
      BY <1>4 DEF PlanRecalled
    <2> QED
      BY <2>1, <2>2 DEF RevisionsInv
  <1> QED
    BY <1>1, <1>2, <1>3, <1>4, PlansStep DEF RepairsMakeRev08

(* The revision that the ledger takes for the active one, when it is not yet the
   repair, is the morning plan, which has not been repaired. *)
LEMMA ActiveMorningPlan ==
    ASSUME OnePlanOfTheDay, TypeOK, RevisionsInv, NEW rev \in STRING, rev # "rev08",
           ActiveRevision = rev
    PROVE  /\ rev = "rev07" /\ RevisionStatus(rev) = "ACTIVE"
           /\ RevisionStatus("rev08") = None
  <1> DEFINE latest == CHOOSE i \in ActiveRows : Latest(i, ActiveRows)
  <1>1. (\E i \in ActiveRows : Latest(i, ActiveRows)) /\ plans[latest].rev = rev
    BY NoneIsNoString DEF ActiveRevision
  <1>2. latest \in ActiveRows
    BY <1>1
  <1> HIDE DEF latest
  <1>3. latest \in DOMAIN plans /\ plans[latest].status = "ACTIVE"
    BY <1>2 DEF ActiveRows
  <1>4. rev = "rev07"
    BY <1>1, <1>3 DEF RevisionsInv
  <1>5. RowsOf("rev08") = {}
    BY <1>1, <1>3, <1>4 DEF RevisionsInv, RowsOf
  <1>6. RevisionStatus("rev08") = None
    BY <1>5 DEF RevisionStatus
  <1>7. RowsOf(rev) = {latest}
    BY <1>1, <1>3, <1>4, OneImportedPlan DEF RowsOf, RevisionsInv
  <1>8. \A i \in RowsOf(rev) : i = latest
    BY <1>7
  <1>9. latest <= latest
    BY <1>3, PlansDomain
  <1>10. Latest(latest, RowsOf(rev)) /\ latest \in RowsOf(rev)
    BY <1>7, <1>9 DEF Latest
  <1>11. RevisionStatus(rev) = plans[CHOOSE i \in RowsOf(rev) : Latest(i, RowsOf(rev))].status
    BY <1>10 DEF RevisionStatus
  <1>12. (CHOOSE i \in RowsOf(rev) : Latest(i, RowsOf(rev))) = latest
    BY <1>8, <1>10
  <1> QED
    BY <1>3, <1>4, <1>6, <1>11, <1>12

-----------------------------------------------------------------------------
(* A repair goes stale for a reason on record *)

LEMMA WhoInsertsEvents ==
    ASSUME NEW c, Execute(c)
    PROVE  \/ events' = events
           \/ SavePlanRevision(c) \/ PersistRepairProposal(c) \/ OpenRecallIncident(c)
           \/ RecordAcknowledgmentHold(c) \/ CreateNextDayDraft(c)
  BY DEF Execute, DenyRole, DenyStaleRevision, RecordRefusal,
         PersistRepairApproval, ActivateApprovedRepairPlan, InvalidatePlan,
         PersistCoordinator, SetIncidentStatus, ActivateMovementBarrier,
         AllocateSafeStock, ApplyPartnerEvidence, DenyPartnerEvidence,
         ReaffirmNextDayDraft, dataVars

(* What a repair that a handler has derived was asked for, and stands on. *)
RepairAsked(c) ==
    /\ c.type = "PERSIST_REPAIR_PROPOSAL" /\ RoleAllowed(c) /\ c.exp = c.body.source
    /\ c.body.source \in {"rev07", "rev08"}
    /\ c.body.source # "rev08" => c.body \in PersistRepairProposalPayload
    /\ \E q \in Requests : q.kind = "FAULT" /\ c.body.event = q.id
    /\ c.key = KeyOfRepair(c.body.source) /\ c.body.proposed = "rev08"
    /\ RepairStandsOn(c.body.diff, c.body.plan, c.body.source)
RepairsAreAsked == \A c \in Commanded("PERSIST_REPAIR_PROPOSAL") : RepairAsked(c)

(* The event of a fault is taken when the morning plan has its proposal. *)
FaultsSettle ==
    \A q \in Requests : q.kind = "FAULT" /\ q.id \in events =>
        \E r \in receipts : r.key = KeyOfRepair("rev07")

LEMMA RepairAskedKept ==
    ASSUME TypeOK, OrdersHaveParent, [Next]_vars, NEW c, RepairAsked(c)
    PROVE  RepairAsked(c)'
  <1>1. PICK d, p, r : d = c.body.diff /\ p = c.body.plan /\ r = c.body.source
    OBVIOUS
  <1>2. RepairStandsOn(d, p, r)'
    BY <1>1, RepairStandsOnKept DEF RepairAsked
  <1> QED
    BY <1>1, <1>2 DEF RepairAsked

LEMMA RepairIsLegal ==
    ASSUME TypeOK, RevisionsInv, OrdersAreKeyed, IdsInv,
           NEW q \in Requests, q.kind = "FAULT", RepairFeasible(q)
    PROVE  LET c == RepairProposal(q)
           IN  /\ c.type = "PERSIST_REPAIR_PROPOSAL" /\ RoleAllowed(c)
               /\ c.exp = c.body.source /\ c.body.source \in {"rev07", "rev08"}
               /\ c.body.source # "rev08" => c.body \in PersistRepairProposalPayload
  <1> DEFINE b == RepairProposal(q).body
  <1>1. PICK i \in ActiveOfToday : ActiveOfToday = {i}
    BY DEF RepairFeasible
  <1>2. (CHOOSE j \in ActiveOfToday : TRUE) = i
    BY <1>1
  <1>3. PICK source, stranded, target :
           /\ source = plans[i].rev /\ stranded = Stranded(q.body, source)
           /\ target = FirstVehicle(OtherVehicles(q.body))
    OBVIOUS
  <1>4. /\ \E x, y \in stranded : x # y
        /\ OtherVehicles(q.body) # {} /\ Fitting(stranded, target) # {}
    BY <1>1, <1>3 DEF RepairFeasible
  <1>5. target \in vehicles /\ target.vehicle # q.body
    <2>1. \A v \in OtherVehicles(q.body) :
             v \in vehicles /\ v.vehicle # q.body /\ v.vehicle \in Range(Ids)
      BY DEF OtherVehicles, IdsInv
    <2> QED
      BY <1>3, <1>4, <2>1, FirstVehicleIsOne
  <1>6. stranded \subseteq OrderLine /\ LinesKeyed(stranded)
        /\ \A l \in stranded : l.order \in Range(Ids)
    <2>1. stranded \subseteq Lines(PlanId, source)
      BY <1>3 DEF Stranded
    <2>2. Lines(PlanId, source) \subseteq OrderLine /\ LinesKeyed(Lines(PlanId, source))
      BY LinesOfKeyed
    <2>3. \A l \in Lines(PlanId, source) : l.order \in Range(Ids)
      BY DEF Lines, IdsInv
    <2> QED
      BY <2>1, <2>2, <2>3 DEF LinesKeyed
  <1>7. source \in {"rev07", "rev08"}
    <2>1. i \in DOMAIN plans /\ plans[i].status = "ACTIVE"
      BY <1>1 DEF ActiveOfToday, ActiveRows
    <2> QED
      BY <1>3, <2>1 DEF RevisionsInv
  <1>8. /\ RepairProposal(q).type = "PERSIST_REPAIR_PROPOSAL"
        /\ RepairProposal(q).role = "FULFILLMENT_RECOVERY_PLANNER"
        /\ RepairProposal(q).exp = source /\ b.source = source
        /\ b.proposed = "rev08" /\ b.vehicle = q.body
        /\ b.capacity = target.capacity /\ b.committed = target.load
        /\ b.diff = RepairDiff(stranded, target)
        /\ b \in [proposal : {"PROP-" \o source \o q.id}, event : {q.id},
                   plan : {PlanId}, source : {source}, proposed : {"rev08"},
                   vehicle : {q.body}, capacity : {target.capacity},
                   committed : {target.load}, diff : {b.diff}]
    BY <1>2, <1>3, RepairProposalFields, RepairProposalBody
  <1>9. RoleAllowed(RepairProposal(q))
    BY <1>8 DEF RoleAllowed, AllowedRole, CommandTypes, PayloadModels
  <1>10. RepairDiffIs(RepairDiff(stranded, target), stranded, target)
    BY <1>4, <1>6, RepairDiffIsOf
  <1> HIDE DEF b
  <1>11. ASSUME source # "rev08"
         PROVE  b \in PersistRepairProposalPayload
    <2>1. /\ q.id \in STRING /\ q.body \in STRING /\ source \in STRING
          /\ "rev08" \in STRING /\ PlanId \in STRING
          /\ "PROP-" \o source \o q.id \in STRING
      BY <1>7, DayConstants, ComposedIds, WrittenLiterals
    <2>2. target.capacity \in PosInt /\ target.load \in Nat /\ target.vehicle \in STRING
      BY <1>5 DEF TypeOK, VehicleRow
    <2>3. b.diff \in PlanDiff /\ b.diff.rerouteOrder # b.diff.pickupOrder
          /\ b.diff.rerouteTarget = target.vehicle
          /\ target.load + b.diff.rerouteCases <= target.capacity
      BY <1>6, <1>8, <1>10, <2>2 DEF RepairDiffIs, PlanDiff, OrderLine, LinesKeyed, PosInt
    <2> QED
      BY <1>5, <1>8, <1>11, <2>1, <2>2, <2>3 DEF PersistRepairProposalPayload
  <1> QED
    BY <1>7, <1>8, <1>9, <1>11 DEF b

LEMMA RepairsAreAskedStep ==
    ASSUME TypeOK, DayTyped, JobsInv, IdsInv, OrdersHaveParent, OrdersAreKeyed,
           RevisionsInv, RepairsAreAsked, [DayNext]_dayVars
    PROVE  RepairsAreAsked'
  <1> DEFINE C == Commanded("PERSIST_REPAIR_PROPOSAL")
  <1>1. [Next]_vars
    BY DayStepIsLedgerStep
  <1>2. \A c \in C : RepairAsked(c)'
    BY <1>1, RepairAskedKept DEF RepairsAreAsked
  <1>3. "PERSIST_REPAIR_PROPOSAL" \in Agentic
    BY DEF Agentic
  <1>4. CASE C' \subseteq C
    BY <1>2, <1>4 DEF RepairsAreAsked
  <1>5. ASSUME UNCHANGED vars, NEW q \in Requests, NEW c, Derives(q, c),
               \A d \in C' : d \in C \/ (d = c /\ c.type = "PERSIST_REPAIR_PROPOSAL")
        PROVE  RepairsAreAsked'
    <2>1. CASE c.type # "PERSIST_REPAIR_PROPOSAL"
      BY <1>2, <1>5, <2>1 DEF RepairsAreAsked
    <2>2. CASE c.type = "PERSIST_REPAIR_PROPOSAL"
      <3>1. q.kind = "FAULT" /\ RepairFeasible(q) /\ c = RepairProposal(q)
        BY <1>5, <2>2, TypesDerived DEF Derives
      <3>2. c.body.event = q.id /\ c.body.proposed = "rev08"
            /\ c.key = KeyOfRepair(c.body.source)
        BY <3>1, RepairProposalFields DEF RepairKey, KeyOfRepair
      <3>3. RepairStandsOn(c.body.diff, c.body.plan, c.body.source)
        BY <3>1, FeasibleRepairStands
      <3>6. /\ c.type = "PERSIST_REPAIR_PROPOSAL" /\ RoleAllowed(c)
            /\ c.exp = c.body.source /\ c.body.source \in {"rev07", "rev08"}
            /\ c.body.source # "rev08" => c.body \in PersistRepairProposalPayload
        BY <3>1, RepairIsLegal
      <3>4. RepairAsked(c)
        BY <3>1, <3>2, <3>3, <3>6 DEF RepairAsked
      <3>5. RepairAsked(c)'
        BY <1>1, <3>4, RepairAskedKept
      <3> QED
        BY <1>2, <1>5, <3>5 DEF RepairsAreAsked
    <2> QED
      BY <2>1, <2>2
  <1> QED
    BY <1>3, <1>4, <1>5, WhereCommandsComeFrom

LEMMA SentByAHandler ==
    ASSUME OnlyFaultsPropose, NEW c, Sent(c), c.type = "PERSIST_REPAIR_PROPOSAL"
    PROVE  c \in Commanded("PERSIST_REPAIR_PROPOSAL")
  BY DEF Sent, OnlyFaultsPropose, Commanded

LEMMA FaultsSettleStep ==
    ASSUME OnlyFaultsPropose, OnePlanOfTheDay, FaultEventsTell, TypeOK, DayTyped, JobsInv,
           RevisionsInv, RepairsAreAsked, FaultsSettle, [DayNext]_dayVars
    PROVE  FaultsSettle'
  <1>1. receipts \subseteq receipts'
    BY DayStepIsLedgerStep, ReceiptsKept
  <1>2. CASE events' = events
    BY <1>1, <1>2 DEF FaultsSettle
  <1>3. ASSUME NEW c \in Commands, Sent(c), PersistRepairProposal(c)
        PROVE  \E r \in receipts' : r.key = KeyOfRepair("rev07")
    <2>1. /\ c.type = "PERSIST_REPAIR_PROPOSAL" /\ Succeed(c)
          /\ ActiveRevision = c.body.source
      BY <1>3 DEF PersistRepairProposal, Admitted, ProposalOk
    <2>2. RepairAsked(c)
      BY <1>3, <2>1, SentByAHandler DEF RepairsAreAsked
    <2>3. c.body.source \in STRING /\ c.body.source # c.body.proposed
      BY <2>1, PayloadTyping DEF PersistRepairProposalPayload
    <2>4. c.body.source = "rev07"
      BY <2>1, <2>2, <2>3, ActiveMorningPlan DEF RepairAsked
    <2>5. Receipt(c, "SUCCESS", ReceiptRevision(c)).key = c.key
      BY DEF Receipt
    <2> QED
      BY <2>1, <2>2, <2>4, <2>5 DEF RepairAsked, Succeed
  <1>4. ASSUME NEW c \in Commands, NEW q \in Requests, q.kind = "FAULT", q.id \notin events,
               \/ SavePlanRevision(c) \/ OpenRecallIncident(c)
               \/ RecordAcknowledgmentHold(c) \/ CreateNextDayDraft(c)
        PROVE  q.id \notin events'
    <2>1. CASE SavePlanRevision(c)
      BY <1>4, <2>1 DEF SavePlanRevision, Admitted, FaultEventsTell
    <2>2. CASE OpenRecallIncident(c)
      BY <1>4, <2>2 DEF OpenRecallIncident, Admitted, FaultEventsTell
    <2>3. CASE RecordAcknowledgmentHold(c)
      BY <1>4, <2>3 DEF RecordAcknowledgmentHold, Admitted, FaultEventsTell
    <2>4. CASE CreateNextDayDraft(c)
      BY <1>4, <2>4 DEF CreateNextDayDraft, Admitted, FaultEventsTell
    <2> QED
      BY <1>4, <2>1, <2>2, <2>3, <2>4
  <1>5. ASSUME NEW c \in Commands, Sent(c), Execute(c)
        PROVE  FaultsSettle'
    <2> SUFFICES ASSUME NEW q \in Requests, q.kind = "FAULT", q.id \in events'
                 PROVE  \E r \in receipts' : r.key = KeyOfRepair("rev07")
      BY DEF FaultsSettle
    <2>1. CASE q.id \in events
      BY <1>1, <2>1 DEF FaultsSettle
    <2>2. CASE q.id \notin events
      BY <1>3, <1>4, <1>5, <2>2, WhoInsertsEvents
    <2> QED
      BY <2>1, <2>2
  <1>6. UNCHANGED vars => events' = events
    BY DEF vars
  <1> QED
    BY <1>2, <1>5, <1>6, DaySteps

(* While the morning plan is not retired, the ledger takes it for the active one. *)
LEMMA MorningPlanInForce ==
    ASSUME OnePlanOfTheDay, TypeOK, RevisionsInv,
           NEW i \in DOMAIN plans, plans[i].rev = "rev07", plans[i].status = "ACTIVE"
    PROVE  ActiveRevision = "rev07" /\ TenantExists
  <1>1. i \in ActiveRows
    BY DEF ActiveRows
  <1>2. ASSUME NEW j \in ActiveRows
        PROVE  j = i
    <2>1. j \in DOMAIN plans /\ plans[j].status = "ACTIVE"
      BY DEF ActiveRows
    <2>2. plans[j].rev \in {"rev07", "rev08"}
      BY <2>1 DEF RevisionsInv
    <2>3. plans[j].rev = "rev07"
      BY <2>1, <2>2 DEF RevisionsInv
    <2>4. plans[j].plan = plans[i].plan
      BY <2>1, <2>3, OneImportedPlan
    <2> QED
      BY <2>1, <2>3, <2>4 DEF RevisionsInv
  <1>3. i <= i
    BY PlansDomain
  <1>4. Latest(i, ActiveRows)
    BY <1>2, <1>3 DEF Latest
  <1>5. (CHOOSE j \in ActiveRows : Latest(j, ActiveRows)) = i
    BY <1>1, <1>2, <1>4
  <1>6. ActiveRevision = "rev07"
    BY <1>1, <1>4, <1>5 DEF ActiveRevision
  <1>7. TenantExists
    BY DEF TenantExists
  <1> QED
    BY <1>6, <1>7

(* A revision that a recall has taken down stays down, and nothing is in force. *)
IsTakenDown(rev) ==
    \E i \in DOMAIN plans : plans[i].rev = rev /\ plans[i].status = "INVALIDATED_RECALL"

LEMMA IsTakenDownKept ==
    ASSUME TypeOK, [Next]_vars, NEW rev, IsTakenDown(rev)
    PROVE  IsTakenDown(rev)'
  BY PlansKept DEF IsTakenDown

LEMMA NothingInForce ==
    ASSUME OnePlanOfTheDay, TypeOK, RevisionsInv, RecalledPlanStaysDown,
           NEW rev, IsTakenDown(rev)
    PROVE  /\ ActiveRevision = None /\ TenantExists
           /\ RevisionStatus(rev) = "INVALIDATED_RECALL"
  <1>1. PICK i \in DOMAIN plans :
           plans[i].rev = rev /\ plans[i].status = "INVALIDATED_RECALL"
    BY DEF IsTakenDown
  <1>2. rev # "rev01"
    BY <1>1 DEF RevisionsInv
  <1>3. ASSUME NEW j \in ActiveRows
        PROVE  FALSE
    <2>1. j \in DOMAIN plans /\ plans[j].status = "ACTIVE"
      BY DEF ActiveRows
    <2>2. plans[j].rev # "rev01"
      BY <2>1 DEF RevisionsInv
    <2>3. plans[i].plan = plans[j].plan
      BY <1>1, <1>2, <2>1, <2>2, OneImportedPlan
    <2> QED
      BY <1>1, <2>1, <2>3 DEF RecalledPlanStaysDown
  <1>4. ActiveRevision = None
    BY <1>3 DEF ActiveRevision
  <1>5. \A j \in RowsOf(rev) : j = i
    BY <1>1, <1>2, OneImportedPlan DEF RowsOf, RevisionsInv
  <1>6. i \in RowsOf(rev)
    BY <1>1 DEF RowsOf
  <1>7. i <= i
    BY PlansDomain
  <1>8. Latest(i, RowsOf(rev))
    BY <1>5, <1>7 DEF Latest
  <1>9. (CHOOSE j \in RowsOf(rev) : Latest(j, RowsOf(rev))) = i
    BY <1>5, <1>6, <1>8
  <1>10. RevisionStatus(rev) = "INVALIDATED_RECALL"
    BY <1>1, <1>6, <1>8, <1>9 DEF RevisionStatus
  <1>11. TenantExists
    BY <1>1 DEF TenantExists
  <1> QED
    BY <1>4, <1>10, <1>11

(* A repair that was derived is acceptable for as long as its source, the morning
   plan, is not retired, and no other proposal has settled its key. *)
LEMMA RepairStaysAcceptable ==
    ASSUME OnePlanOfTheDay, TypeOK, RevisionsInv, ProposalsInv, FaultsSettle,
           NEW c, RepairAsked(c), ~Overtaken(c), ~NeverTaken(c)
    PROVE  Acceptable(c) /\ RepairFits(c.body.diff, Lines(c.body.plan, c.body.source))
  <1> DEFINE b == c.body
  <1>1. c.type = "PERSIST_REPAIR_PROPOSAL" /\ RoleAllowed(c) /\ c.exp = b.source
    BY DEF RepairAsked
  <1>2. b.source = "rev07" /\ b \in PersistRepairProposalPayload
    BY <1>1 DEF RepairAsked, NeverTaken
  <1>3. PlanExists(b.plan, b.source)
    BY DEF RepairAsked, RepairStandsOn
  <1>4. ~Settled(c)
    BY DEF Overtaken
  <1>5. PICK i \in DOMAIN plans : plans[i].plan = b.plan /\ plans[i].rev = "rev07"
    BY <1>2, <1>3 DEF PlanExists
  <1>6. plans[i].status = "ACTIVE"
    BY <1>1, <1>2, <1>5 DEF Overtaken
  <1>7. ActiveRevision = b.source /\ TenantExists
    BY <1>2, <1>5, <1>6, MorningPlanInForce
  <1>8. RevisionStatus(b.source) = "ACTIVE" /\ RevisionStatus(b.proposed) = None
    BY <1>2, <1>7, ActiveMorningPlan DEF RepairAsked, PersistRepairProposalPayload
  <1>9. \A r \in receipts : r.key # KeyOfRepair(b.source)
    BY <1>4 DEF RepairAsked, Settled
  <1>10. \A k \in constraints : ~(k.type = "REPAIR_PROPOSAL" /\ k.rev = b.source)
    BY <1>9 DEF ProposalsInv, Proposals, ProposalStandsAlone
  <1>11. b.event \notin events
    BY <1>2, <1>9 DEF RepairAsked, FaultsSettle
  <1>12. ProposalOk(c)
    BY <1>3, <1>7, <1>8, <1>10, <1>11 DEF ProposalOk
  <1>13. Admitted(c, c.type)
    BY <1>1, <1>4, <1>7 DEF Admitted, RevisionMatches
  <1>14. b \in PayloadModels[c.type]
    BY <1>1, <1>2 DEF PayloadModels
  <1>15. Acceptable(c)
    BY <1>1, <1>12, <1>13, <1>14 DEF Acceptable
  <1> QED
    BY <1>15 DEF RepairAsked, RepairStandsOn

-----------------------------------------------------------------------------
(* A hold stands for good: its id tells its custody, which is recorded once *)

WorkIsRecorded ==
    \A w \in workItems : w.type = CustodyWork =>
        \E d \in Commands : /\ d.type = "RECORD_ACKNOWLEDGMENT_HOLD"
                            /\ w.id = CustodyWorkId(d) /\ w.incident = d.body.incident
                            /\ w.details.hold = d.body.hold
                            /\ w.details.site = d.body.site

LEMMA WorkIsRecordedStep ==
    ASSUME TypeOK, WorkIsRecorded, [Next]_vars
    PROVE  WorkIsRecorded'
  <1>1. CASE workItems' = workItems
    BY <1>1 DEF WorkIsRecorded
  <1>2. ASSUME NEW c \in Commands, SavePlanRevision(c)
        PROVE  workItems' = workItems
    BY <1>2 DEF SavePlanRevision, recallVars
  <1>3. ASSUME NEW c \in Commands, ActivateMovementBarrier(c)
        PROVE  WorkIsRecorded'
    <2> DEFINE item == [id |-> c.body.workItem, incident |-> c.inc,
                        type |-> "RECALL_SCOPE_AND_INVALIDATION", status |-> "REQUESTED",
                        details |-> None]
    <2>1. workItems' = workItems \cup {item}
      BY <1>3 DEF ActivateMovementBarrier
    <2>2. item.type # CustodyWork
      BY DEF CustodyWork
    <2> HIDE DEF item
    <2> QED
      BY <2>1, <2>2 DEF WorkIsRecorded
  <1>4. ASSUME NEW c \in Commands, RecordAcknowledgmentHold(c)
        PROVE  WorkIsRecorded'
    <2>1. /\ workItems' = workItems \cup {CustodyWorkOf(c)}
          /\ c.type = "RECORD_ACKNOWLEDGMENT_HOLD" /\ c.body.incident = c.inc
      BY <1>4 DEF RecordAcknowledgmentHold, Admitted
    <2>2. /\ CustodyWorkOf(c).id = CustodyWorkId(c) /\ CustodyWorkOf(c).incident = c.inc
          /\ CustodyWorkOf(c).details.hold = c.body.hold
          /\ CustodyWorkOf(c).details.site = c.body.site
      BY DEF CustodyWorkOf
    <2> QED
      BY <2>1, <2>2 DEF WorkIsRecorded
  <1>5. ASSUME NEW c \in Commands, ApplyPartnerEvidence(c)
        PROVE  WorkIsRecorded'
    <2>1. PICK w \in workItems :
             workItems' = (workItems \ {w}) \cup {[w EXCEPT !.status = "COMPLETED"]}
      BY <1>5 DEF ApplyPartnerEvidence
    <2> DEFINE known == [w EXCEPT !.status = "COMPLETED"]
    <2>2. /\ known.id = w.id /\ known.type = w.type /\ known.details = w.details
          /\ known.incident = w.incident
      BY DEF TypeOK, WorkItemRow
    <2>3. workItems' = (workItems \ {w}) \cup {known}
      BY <2>1
    <2> HIDE DEF known
    <2> QED
      BY <2>2, <2>3 DEF WorkIsRecorded
  <1> QED
    BY <1>1, <1>2, <1>3, <1>4, <1>5, CustodyStep

HoldStands(h) ==
    \E x \in incidents :
        /\ x.incident = h.hold /\ x.type = "DEADLINE_HOLD"
        /\ x.status = "ACKNOWLEDGMENT_HOLD_ACTIVE"
        /\ x.site = h.site /\ x.cases = h.cases

LEMMA HoldStandsKept ==
    ASSUME HoldIdsTell, TypeOK, HoldsHaveWork, WorkIsRecorded, [Next]_vars,
           NEW h, HoldStands(h)
    PROVE  HoldStands(h)'
  <1>1. PICK x \in incidents :
           /\ x.incident = h.hold /\ x.type = "DEADLINE_HOLD"
           /\ x.status = "ACKNOWLEDGMENT_HOLD_ACTIVE"
           /\ x.site = h.site /\ x.cases = h.cases
    BY DEF HoldStands
  <1>2. CASE x \in incidents'
    BY <1>1, <1>2 DEF HoldStands
  <1>3. ASSUME NEW row, IncidentOpened(row)
        PROVE  x \in incidents'
    BY <1>3 DEF IncidentOpened
  <1>4. ASSUME NEW u, NEW y, IncidentMoved(u, y)
        PROVE  x \in incidents'
    <2>1. u # x
      BY <1>1, <1>4 DEF IncidentMoved, RecallSuccessor
    <2> QED
      BY <1>4, <2>1 DEF IncidentMoved
  <1>5. ASSUME NEW row, NEW w, IncidentHeld(row, w)
        PROVE  x \in incidents'
    <2>1. PICK v \in workItems : v.type = CustodyWork /\ v.details.hold = x.incident
      BY <1>1 DEF HoldsHaveWork
    <2>2. PICK d \in Commands :
             /\ d.type = "RECORD_ACKNOWLEDGMENT_HOLD"
             /\ v.id = CustodyWorkId(d) /\ v.details.hold = d.body.hold
      BY <2>1 DEF WorkIsRecorded
    <2>3. PICK c \in Commands :
             /\ c.type = "RECORD_ACKNOWLEDGMENT_HOLD" /\ c.body.hold = row.incident
             /\ w.id = CustodyWorkId(c)
      BY <1>5 DEF IncidentHeld
    <2>4. v.id # w.id
      BY <1>5 DEF IncidentHeld
    <2>5. row.incident # x.incident
      BY <2>1, <2>2, <2>3, <2>4 DEF HoldIdsTell
    <2> QED
      BY <1>5, <2>5 DEF IncidentHeld
  <1> QED
    BY <1>2, <1>3, <1>4, <1>5, IncidentsStep

-----------------------------------------------------------------------------
(* What a draft stands on, and stands on for good, except that its lots are barred *)

VehicleStands(v) ==
    \E x \in vehicles :
        /\ x.vehicle = v.vehicle /\ x.operational
        /\ v.capacity = x.capacity /\ v.committed = x.load
        /\ x.load + v.load <= x.capacity
LotStands(lot, cases) ==
    \E l \in lots : /\ l.lot = lot /\ cases <= l.cases
                    /\ l.hazard = "CLEAR_SAFE" \/ lot \in BarredLots
TakenOf(b, lot) == CasesIn({x \in StopsOf(b.vehicles) : x.lot = lot})
DraftStands(b) ==
    /\ \A x \in b.barriers : \E y \in barriers : y.barrier = x.barrier /\ y.lot = x.lot
    /\ b.shortfalls \subseteq shortfalls
    /\ \A h \in b.holds : HoldStands(h)
    /\ b.plan = "PLAN-" \o b.date
    /\ \A v \in b.vehicles : VehicleStands(v)
    /\ \A s \in StopsOf(b.vehicles) :
          /\ \A x \in b.barriers : x.lot # s.lot
          /\ \E f \in b.shortfalls : f.id = s.shortfall /\ f.cases = s.cases
          /\ LotStands(s.lot, TakenOf(b, s.lot))

LEMMA LotStandsKept ==
    ASSUME TypeOK, [Next]_vars, NEW lot, NEW cases, LotStands(lot, cases)
    PROVE  LotStands(lot, cases)'
  <1>1. PICK l \in lots : /\ l.lot = lot /\ cases <= l.cases
                          /\ l.hazard = "CLEAR_SAFE" \/ lot \in BarredLots
    BY DEF LotStands
  <1>2. lot \in BarredLots => lot \in BarredLots'
    BY BarriersKept DEF BarredLots
  <1>3. CASE l \in lots'
    BY <1>1, <1>2, <1>3 DEF LotStands
  <1>4. ASSUME NEW c \in Commands, SavePlanRevision(c)
        PROVE  l \in lots'
    BY <1>4 DEF SavePlanRevision
  <1>5. ASSUME NEW c \in Commands, ActivateMovementBarrier(c)
        PROVE  LotStands(lot, cases)'
    <2>0. PICK at : at = c.body.lot
      OBVIOUS
    <2>1. lots' = Recalled(at) /\ at \in BarredLots'
      <3> DEFINE row == [barrier |-> c.body.barrier, incident |-> c.inc, lot |-> at]
      <3>1. lots' = Recalled(at) /\ row \in barriers'
        BY <1>5, <2>0 DEF ActivateMovementBarrier
      <3>2. row.lot = at
        OBVIOUS
      <3> HIDE DEF row
      <3> QED
        BY <3>1, <3>2 DEF BarredLots
    <2>2. /\ RecalledRow(l, at) \in lots' /\ RecalledRow(l, at).lot = l.lot
          /\ RecalledRow(l, at).cases = l.cases
          /\ RecalledRow(l, at) = l \/ l.lot = at
      <3>1. l \in LotRow
        BY DEF TypeOK
      <3>2. RecalledRow(l, at) \in lots'
        BY <2>1, RecalledRows
      <3>3. CASE l.lot = at
        <4>1. RecalledRow(l, at) = [l EXCEPT !.hazard = "RECALLED"]
          BY <3>3 DEF RecalledRow
        <4> QED
          BY <3>1, <3>2, <3>3, <4>1 DEF LotRow
      <3>4. CASE l.lot # at
        BY <3>2, <3>4 DEF RecalledRow
      <3> QED
        BY <3>3, <3>4
    <2>3. l.lot = at => lot \in BarredLots'
      BY <1>1, <2>1
    <2> QED
      BY <1>1, <1>2, <2>2, <2>3 DEF LotStands
  <1> QED
    BY <1>3, <1>4, <1>5, WhoChangesLots

LEMMA DraftStandsKept ==
    ASSUME HoldIdsTell, TypeOK, HoldsHaveWork, WorkIsRecorded, [Next]_vars,
           NEW b, DraftStands(b)
    PROVE  DraftStands(b)'
  <1>1. barriers \subseteq barriers' /\ vehicles \subseteq vehicles'
    BY BarriersKept, VehiclesKept
  <1>2. shortfalls \subseteq shortfalls'
    BY WhoChangesShortfalls DEF AllocateSafeStock
  <1>3. \A h \in b.holds : HoldStands(h)'
    BY HoldStandsKept DEF DraftStands
  <1>4. \A v \in b.vehicles : VehicleStands(v)'
    BY <1>1 DEF DraftStands, VehicleStands
  <1>5. ASSUME NEW s \in StopsOf(b.vehicles)
        PROVE  LotStands(s.lot, TakenOf(b, s.lot))'
    <2>1. PICK lot, cases : lot = s.lot /\ cases = TakenOf(b, s.lot)
      OBVIOUS
    <2>2. LotStands(lot, cases)
      BY <2>1 DEF DraftStands
    <2>3. LotStands(lot, cases)'
      BY <2>2, LotStandsKept
    <2> QED
      BY <2>1, <2>3
  <1> QED
    BY <1>1, <1>2, <1>3, <1>4, <1>5 DEF DraftStands

(* A draft that stands is accepted, or another recall bars one of its lots. *)
LEMMA DraftStandsOrIsBarred ==
    ASSUME NEW c, DraftStands(c.body)
    PROVE  \/ DraftOk(c)
           \/ \E s \in StopsOf(c.body.vehicles), x \in barriers :
                 x.lot = s.lot /\ \A y \in c.body.barriers : y.lot # s.lot
  <1> DEFINE b == c.body
  <1>1. CASE \E s \in StopsOf(b.vehicles) : s.lot \in BarredLots
    BY <1>1 DEF DraftStands, BarredLots
  <1>2. CASE \A s \in StopsOf(b.vehicles) : s.lot \notin BarredLots
    <2>1. InheritsOpenWork(b)
      BY DEF DraftStands, InheritsOpenWork, HoldStands
    <2>2. CandidatesFit(b)
      BY <1>2 DEF DraftStands, CandidatesFit, VehicleStands, LotStands, TakenOf
    <2> QED
      BY <2>1, <2>2 DEF DraftOk
  <1> QED
    BY <1>1, <1>2

LEMMA DraftInherits ==
    LET b == NextDayDraft.body
    IN  /\ b.plan = "PLAN-" \o b.date
        /\ \A x \in b.barriers : \E y \in barriers : y.barrier = x.barrier /\ y.lot = x.lot
        /\ \A h \in b.holds : HoldStands(h)
  <1>1. PICK x : x = TheRow(UnresolvedRecalls)
    OBVIOUS
  <1>2. /\ NextDayDraft.body.plan = "PLAN-" \o NextDayDraft.body.date
        /\ NextDayDraft.body.barriers
           = {[barrier |-> b.barrier, lot |-> b.lot] : b \in BarriersOf(x)}
        /\ NextDayDraft.body.holds
           = {[hold |-> h.incident, site |-> h.site, cases |-> h.cases] : h \in HoldsOf(x)}
    BY <1>1 DEF NextDayDraft, PlannerCmd, Cmd, NextPlanId
  <1>3. \A y \in NextDayDraft.body.barriers :
           \E z \in barriers : z.barrier = y.barrier /\ z.lot = y.lot
    BY <1>2 DEF BarriersOf
  <1>4. \A h \in NextDayDraft.body.holds : HoldStands(h)
    BY <1>2 DEF HoldsOf, HoldStands
  <1> QED
    BY <1>2, <1>3, <1>4

LEMMA DraftStandsWhenDerived ==
    ASSUME TypeOK, SupplyInv, VehiclesInv, IdsInv, BarredLotsStayRecalled
    PROVE  DraftStands(NextDayDraft.body)
  <1>1. PICK plan, s, b :
           /\ plan = NextPlanId
           /\ s = Schedule(shortfalls, SafeLots, Fleet)
           /\ b = NextDayDraft.body
    OBVIOUS
  <1>2. b.shortfalls = shortfalls /\ b.vehicles = CandidateVehicles(s, Fleet, plan)
    BY <1>1, DraftFields
  <1>3. /\ Stock(SafeLots, Fleet)
        /\ Demand(shortfalls) /\ ShortfallsKeyed(shortfalls)
    BY SupplyIsStock
  <1>4. SoundSchedule(s, shortfalls, SafeLots, Fleet, plan)
    BY <1>1, <1>3, ScheduleIsSound
  <1>5. ServesAll(s, shortfalls, LotIds(SafeLots), VehicleIds(Fleet))
        /\ Balanced(s, SafeLots, Fleet, plan)
    BY <1>4 DEF SoundSchedule
  <1>6. StopsOf(b.vehicles) = Candidates(s.stops, plan)
    BY <1>2, <1>5, StopsOfCandidate DEF ServesAll
  <1>7. ASSUME NEW v \in b.vehicles
        PROVE  VehicleStands(v)
    <2>1. PICK w \in Carrying(s.stops, Fleet) : v = CandidateOn(w, s.stops, plan)
      BY <1>2, VehiclesOfCandidate
    <2>2. w \in vehicles /\ w.operational /\ w \in Fleet
      BY DEF Carrying, Fleet
    <2> DEFINE n == CasesIn(OnVehicle(s.stops, w.vehicle, plan))
               room == s.room[w.vehicle]
    <2>3. /\ v.vehicle = w.vehicle /\ v.capacity = w.capacity
          /\ v.committed = w.load /\ v.load = n
      BY <2>1 DEF CandidateOn
    <2>4. /\ Countable(OnVehicle(s.stops, w.vehicle, plan))
          /\ room + n = w.capacity - w.load
      BY <1>5, <2>2 DEF Balanced
    <2>5. n \in Nat
      BY <2>4, CasesInNat
    <2>6. room \in Nat
      BY <1>5, <2>2 DEF ServesAll, VehicleIds
    <2> HIDE DEF n, room
    <2>7. w.capacity \in Nat /\ w.load \in Nat
      BY <2>2 DEF TypeOK, VehicleRow, PosInt
    <2>8. w.load + n <= w.capacity
      BY <2>4, <2>5, <2>6, <2>7
    <2> QED
      BY <2>2, <2>3, <2>8 DEF VehicleStands
  <1>8. ASSUME NEW r \in StopsOf(b.vehicles)
        PROVE  /\ \A x \in b.barriers : x.lot # r.lot
               /\ \E f \in b.shortfalls : f.id = r.shortfall /\ f.cases = r.cases
               /\ LotStands(r.lot, TakenOf(b, r.lot))
    <2>1. PICK x \in s.stops : r = CandidateStopOf(x, plan)
      BY <1>6 DEF Candidates
    <2>2. r.shortfall = x.demand.id /\ r.cases = x.demand.cases /\ r.lot = x.lot
      BY <2>1, CandidateFields
    <2>3. x.demand \in shortfalls /\ x.lot \in LotIds(SafeLots)
      BY <1>5 DEF ServesAll
    <2>4. PICK l \in SafeLots : l.lot = r.lot
      BY <2>2, <2>3 DEF LotIds
    <2>5. l \in lots /\ l.hazard = "CLEAR_SAFE"
      BY DEF SafeLots
    <2>6. \A y \in b.barriers : y.lot # r.lot
      BY <1>1, <2>4, <2>5, DraftInherits DEF BarredLotsStayRecalled
    <2> DEFINE R == {c \in StopsOf(b.vehicles) : c.lot = r.lot}
    <2>7. R = FromLot(s.stops, l.lot, plan)
      <3>1. \A y : CandidateStopOf(y, plan).lot = y.lot
        BY CandidateFields
      <3> QED
        BY <1>6, <2>4, <3>1 DEF FromLot, Candidates, LotStops
    <2> HIDE DEF R
    <2>8. Countable(R) /\ s.left[l.lot] + CasesIn(R) = l.cases
      BY <1>5, <2>7 DEF Balanced
    <2>9. CasesIn(R) \in Nat
      BY <2>8, CasesInNat
    <2>10. s.left[l.lot] \in Nat
      BY <1>5 DEF ServesAll, LotIds
    <2>11. CasesIn(R) <= l.cases
      BY <2>8, <2>9, <2>10
    <2>12. TakenOf(b, r.lot) = CasesIn(R)
      BY DEF TakenOf, R
    <2>13. LotStands(r.lot, TakenOf(b, r.lot))
      BY <2>4, <2>5, <2>11, <2>12 DEF LotStands
    <2> QED
      BY <1>2, <2>2, <2>3, <2>6, <2>13
  <1>9. DraftStands(b)
    BY <1>1, <1>2, <1>7, <1>8, DraftInherits DEF DraftStands
  <1> QED
    BY <1>1, <1>9

DraftsStand == \A c \in Commanded("CREATE_NEXT_DAY_DRAFT") : DraftStands(c.body)

LEMMA DraftsStandStep ==
    ASSUME HoldIdsTell, TypeOK, DayTyped, JobsInv, SupplyInv, VehiclesInv, IdsInv,
           BarredLotsStayRecalled, HoldsHaveWork, WorkIsRecorded, DraftsStand,
           [DayNext]_dayVars
    PROVE  DraftsStand'
  <1> DEFINE C == Commanded("CREATE_NEXT_DAY_DRAFT")
  <1>1. [Next]_vars
    BY DayStepIsLedgerStep
  <1>2. ASSUME NEW c, DraftStands(c.body)
        PROVE  DraftStands(c.body)'
    <2>1. PICK b : b = c.body
      OBVIOUS
    <2>2. DraftStands(b)'
      BY <1>1, <1>2, <2>1, DraftStandsKept
    <2> QED
      BY <2>1, <2>2
  <1>3. CASE \A c \in C' : c \in C
    BY <1>2, <1>3 DEF DraftsStand
  <1>4. CASE \A c \in C' : c \in C \/ c = NextDayDraft
    <2>1. PICK draft : draft = NextDayDraft
      OBVIOUS
    <2>2. DraftStands(draft.body)
      BY <2>1, DraftStandsWhenDerived
    <2>3. DraftStands(draft.body)'
      BY <1>2, <2>2
    <2> QED
      BY <1>2, <1>4, <2>1, <2>3 DEF DraftsStand
  <1> QED
    BY <1>3, <1>4, WhereDraftsComeFrom

-----------------------------------------------------------------------------
(* The evidence of a partner's custody goes stale for a reason on record *)

LEMMA WhoInsertsEdges ==
    ASSUME [Next]_vars
    PROVE  edges' = edges \/ \E c \in Commands : SavePlanRevision(c)
  <1>1. ASSUME NEW c \in Commands, Execute(c), ~SavePlanRevision(c)
        PROVE  edges' = edges
    BY <1>1
    DEF Execute, DenyRole, DenyStaleRevision, RecordRefusal,
        PersistRepairProposal, PersistRepairApproval,
        ActivateApprovedRepairPlan, InvalidatePlan, PersistCoordinator,
        OpenRecallIncident, SetIncidentStatus, ActivateMovementBarrier,
        AllocateSafeStock, RecordAcknowledgmentHold, ApplyPartnerEvidence,
        DenyPartnerEvidence, CreateNextDayDraft, ReaffirmNextDayDraft,
        dataVars, custodyVars
  <1> QED
    BY <1>1 DEF Next, Tick, vars, custodyVars

(* The custody of a plan comes with its vehicles; and a hold is active for good. *)
EdgesArePlanned == edges # {} => vehicles # {}
HoldsAreActive ==
    \A x \in incidents : x.type = "DEADLINE_HOLD" => x.status = "ACKNOWLEDGMENT_HOLD_ACTIVE"

LEMMA EdgesArePlannedStep ==
    ASSUME EdgesArePlanned, [Next]_vars
    PROVE  EdgesArePlanned'
  <1>1. ASSUME NEW c \in Commands, SavePlanRevision(c)
        PROVE  vehicles' # {}
    <2>1. c.type = "SAVE_PLAN_REVISION" /\ vehicles' = vehicles \cup c.body.vehicles
      BY <1>1 DEF SavePlanRevision, Admitted
    <2>2. c.body.vehicles # {}
      BY <2>1, PayloadTyping DEF SavePlanRevisionPayload, NonEmpty
    <2> QED
      BY <2>1, <2>2
  <1>2. vehicles \subseteq vehicles'
    BY VehiclesKept
  <1> QED
    BY <1>1, <1>2, WhoInsertsEdges DEF EdgesArePlanned

LEMMA HoldsAreActiveStep ==
    ASSUME TypeOK, HoldsAreActive, [Next]_vars
    PROVE  HoldsAreActive'
  <1>1. CASE incidents' = incidents
    BY <1>1 DEF HoldsAreActive
  <1>2. ASSUME NEW row, IncidentOpened(row)
        PROVE  HoldsAreActive'
    BY <1>2 DEF IncidentOpened, HoldsAreActive
  <1>3. ASSUME NEW x, NEW y, IncidentMoved(x, y)
        PROVE  HoldsAreActive'
    BY <1>3 DEF IncidentMoved, HoldsAreActive, RecallSuccessor
  <1>4. ASSUME NEW row, NEW w, IncidentHeld(row, w)
        PROVE  HoldsAreActive'
    BY <1>4 DEF IncidentHeld, HoldsAreActive
  <1> QED
    BY <1>1, <1>2, <1>3, <1>4, IncidentsStep

(* The custody w that the command c has evidence of: it is to be confirmed still,
   or is by applied evidence. *)
CustodyOf(c, w) ==
    /\ w.incident = c.inc /\ w.type = CustodyWork
    /\ w.details.partner = c.body.partner /\ w.details.day = c.body.day
    /\ \E e \in edges : IncomingEdges(w.details.node, w.details.lot) = {e}
ToConfirm(w) ==
    w.status = "OPEN" /\ \E n \in nodes : n.node = w.details.node /\ n.ack = "UNCONFIRMED"
IsConfirmed(w) == \E e \in evidence : e.decision = "APPLIED" /\ e.node = w.details.node
Contained == {"PARTIALLY_CONTAINED", "CONTAINED", "CLOSED"}
RecallOf(inc, lot) ==
    \E x \in incidents : /\ x.incident = inc /\ x.type = "FOOD_SAFETY_RECALL"
                         /\ x.lot = lot /\ x.status \in Contained
EvidenceRests(c) ==
    /\ c.type = "PROCESS_PARTNER_EVIDENCE" /\ RoleAllowed(c)
    /\ c.body \in ProcessPartnerEvidencePayload /\ IsTakenDown(c.exp)
    /\ c.body.occurred = c.body.day
    /\ \E w \in workItems : /\ CustodyOf(c, w) /\ (ToConfirm(w) \/ IsConfirmed(w))
                            /\ RecallOf(c.inc, w.details.lot)

LEMMA RecallOfKept ==
    ASSUME HoldIdsAreNew, TypeOK, RecallsAreInLife, [Next]_vars,
           NEW inc, NEW lot, RecallOf(inc, lot)
    PROVE  RecallOf(inc, lot)'
  <1>1. PICK x \in incidents : /\ x.incident = inc /\ x.type = "FOOD_SAFETY_RECALL"
                               /\ x.lot = lot /\ x.status \in Contained
    BY DEF RecallOf
  <1>2. PICK y \in incidents' : RecallGoesOn(x, y)
    BY <1>1, RecallGoesOnStep
  <1>3. /\ y.incident = inc /\ y.type = "FOOD_SAFETY_RECALL" /\ y.lot = lot
        /\ RecallRank[y.status] \in {RecallRank[x.status], RecallRank[x.status] + 1}
    BY <1>1, <1>2 DEF RecallGoesOn
  <1>4. y.status \in DOMAIN RecallRank
    BY <1>3, RecallsInLifeStep DEF RecallsAreInLife
  <1>5. RecallRank[x.status] \in {4, 5, 6}
    BY <1>1 DEF Contained, RecallRank
  <1>6. RecallRank[y.status] \notin {1, 2, 3}
    BY <1>3, <1>5
  <1>7. y.status \in Contained
    BY <1>4, <1>6 DEF Contained, RecallRank
  <1> QED
    BY <1>3, <1>7 DEF RecallOf

(* Custody stays: it is confirmed, or by the evidence that is applied. *)
LEMMA CustodyStays ==
    ASSUME TypeOK, [Next]_vars, \A c \in Commands : ~SavePlanRevision(c),
           NEW w \in workItems, ToConfirm(w) \/ IsConfirmed(w)
    PROVE  \E v \in workItems' :
              /\ v.incident = w.incident /\ v.type = w.type /\ v.details = w.details
              /\ (ToConfirm(v) \/ IsConfirmed(v))'
  <1>1. evidence \subseteq evidence'
    BY PlannedAndProvenKept
  <1>2. CASE nodes \subseteq nodes' /\ workItems \subseteq workItems'
    BY <1>1, <1>2 DEF ToConfirm, IsConfirmed
  <1>3. ASSUME NEW c \in Commands, ActivateMovementBarrier(c) \/ RecordAcknowledgmentHold(c)
        PROVE  nodes' = nodes /\ workItems \subseteq workItems'
    BY <1>3 DEF ActivateMovementBarrier, RecordAcknowledgmentHold, custodyVars
  <1>4. ASSUME NEW c \in Commands, ApplyPartnerEvidence(c)
        PROVE  \E v \in workItems' :
                  /\ v.incident = w.incident /\ v.type = w.type /\ v.details = w.details
                  /\ (ToConfirm(v) \/ IsConfirmed(v))'
    <2>1. PICK u \in workItems, m \in nodes :
             /\ EvidenceContext(c, u, m)
             /\ nodes' = (nodes \ {m}) \cup {[m EXCEPT !.ack = "CONFIRMED"]}
             /\ workItems' = (workItems \ {u}) \cup {[u EXCEPT !.status = "COMPLETED"]}
             /\ evidence' = evidence \cup {EvidenceOf(c, u, m, "APPLIED")}
      BY <1>4 DEF ApplyPartnerEvidence
    <2>2. m.node = u.details.node
      BY <2>1 DEF EvidenceContext
    <2>3. PICK e \in evidence' : e.decision = "APPLIED" /\ e.node = m.node
      <3>1. /\ EvidenceOf(c, u, m, "APPLIED").decision = "APPLIED"
            /\ EvidenceOf(c, u, m, "APPLIED").node = m.node
        BY DEF EvidenceOf
      <3> QED
        BY <2>1, <3>1
    <2> DEFINE known == [u EXCEPT !.status = "COMPLETED"]
    <2>4. /\ known.incident = u.incident /\ known.type = u.type
          /\ known.details = u.details /\ known \in workItems'
      BY <2>1 DEF TypeOK, WorkItemRow
    <2>5. (workItems \ {u}) \subseteq workItems' /\ (nodes \ {m}) \subseteq nodes'
      BY <2>1
    <2> HIDE DEF known
    <2>6. CASE w = u
      BY <2>2, <2>3, <2>4, <2>6 DEF IsConfirmed
    <2>7. CASE w # u /\ IsConfirmed(w)
      BY <1>1, <2>5, <2>7 DEF IsConfirmed
    <2>8. CASE w # u /\ ToConfirm(w)
      <3>1. PICK n \in nodes : n.node = w.details.node /\ n.ack = "UNCONFIRMED"
        BY <2>8 DEF ToConfirm
      <3>2. CASE n = m
        BY <2>3, <2>5, <2>8, <3>1, <3>2 DEF IsConfirmed
      <3>3. CASE n # m
        BY <2>5, <2>8, <3>1, <3>3 DEF ToConfirm
      <3> QED
        BY <3>2, <3>3
    <2> QED
      BY <2>6, <2>7, <2>8
  <1> QED
    BY <1>2, <1>3, <1>4, CustodyStep

LEMMA EvidenceRestsKept ==
    ASSUME HoldIdsAreNew, OnePlanOfTheDay, TypeOK, RecallsAreInLife, VehiclesArePlanned,
           EdgesArePlanned, [Next]_vars, NEW c, EvidenceRests(c)
    PROVE  EvidenceRests(c)'
  <1>1. PICK w \in workItems : /\ CustodyOf(c, w) /\ (ToConfirm(w) \/ IsConfirmed(w))
                               /\ RecallOf(c.inc, w.details.lot)
    BY DEF EvidenceRests
  <1>2. \A d \in Commands : ~SavePlanRevision(d)
    BY <1>1, NothingSavedAgain DEF CustodyOf, EdgesArePlanned
  <1>3. edges' = edges
    BY <1>2, WhoInsertsEdges
  <1>4. PICK v \in workItems' :
           /\ v.incident = w.incident /\ v.type = w.type /\ v.details = w.details
           /\ (ToConfirm(v) \/ IsConfirmed(v))'
    BY <1>1, <1>2, CustodyStays
  <1>5. CustodyOf(c, v)'
    BY <1>1, <1>3, <1>4 DEF CustodyOf, IncomingEdges
  <1>6. PICK inc, lot, exp : inc = c.inc /\ lot = w.details.lot /\ exp = c.exp
    OBVIOUS
  <1>7. RecallOf(inc, lot)'
    BY <1>1, <1>6, RecallOfKept
  <1>8. IsTakenDown(exp)'
    BY <1>6, IsTakenDownKept DEF EvidenceRests
  <1> QED
    BY <1>4, <1>5, <1>6, <1>7, <1>8 DEF EvidenceRests, RoleAllowed

LEMMA EvidenceRestsWhenDerived ==
    ASSUME TypeOK, HoldsAreActive, NEW q \in Requests, q.kind = "EVIDENCE",
           NEW proposal \in Readings,
           NEW w \in workItems, NEW n \in nodes, AuthorityExact(q, w, n)
    PROVE  EvidenceRests(Evidence(q, proposal))
  <1>1. PICK c : c = Evidence(q, proposal)
    OBVIOUS
  <1>2. /\ c.inc = q.body.inc /\ c.body.occurred = q.body.day
        /\ c.body.day = q.body.day /\ c.body.partner = q.body.partner
    BY <1>1 DEF Evidence, Cmd
  <1>3. w.incident = c.inc /\ w.type = CustodyWork /\ w.status = "OPEN"
    BY <1>2 DEF AuthorityExact, OpenCustodyWork
  <1>4. CustodyOf(c, w)
    BY <1>2, <1>3 DEF AuthorityExact, CustodyOf
  <1>5. ToConfirm(w)
    BY <1>3 DEF AuthorityExact, ToConfirm
  <1>6. PICK x \in incidents : /\ x.incident = c.inc /\ x.status = "PARTIALLY_CONTAINED"
                               /\ x.lot = w.details.lot
    BY <1>2 DEF AuthorityExact
  <1>7. x.type = "FOOD_SAFETY_RECALL"
    <2>1. x.type \in {"FOOD_SAFETY_RECALL", "DEADLINE_HOLD"}
      BY DEF TypeOK, IncidentRow
    <2> QED
      BY <1>6, <2>1 DEF HoldsAreActive
  <1>8. RecallOf(c.inc, w.details.lot)
    BY <1>6, <1>7 DEF RecallOf, Contained
  <1>9. IsTakenDown(c.exp)
    <2>1. PICK i \in InvalidatedOfToday : InvalidatedOfToday = {i}
      BY DEF AuthorityExact
    <2>2. TheRow(InvalidatedOfToday) = i
      BY <2>1 DEF TheRow
    <2>3. c.exp = plans[i].rev
      BY <1>1, <2>2 DEF Evidence, Cmd
    <2> QED
      BY <2>1, <2>3 DEF InvalidatedOfToday, IsTakenDown
  <1>10. c.type = "PROCESS_PARTNER_EVIDENCE" /\ RoleAllowed(c)
    BY <1>1 DEF Evidence, Cmd, RoleAllowed, AllowedRole, CommandTypes, PayloadModels
  <1>11. c.body \in ProcessPartnerEvidencePayload
    <2>1. /\ q.id \in STRING /\ {q.body.partner, q.body.text, q.body.day} \subseteq STRING
          /\ proposal \in PartnerCustodyProposal
      BY DayConstants
    <2>2. c.body = [event |-> q.id, day |-> q.body.day, occurred |-> q.body.day,
                    text |-> q.body.text, partner |-> q.body.partner,
                    proposal |-> proposal]
      BY <1>1 DEF Evidence, Cmd
    <2> QED
      BY <2>1, <2>2 DEF ProcessPartnerEvidencePayload
  <1>12. EvidenceRests(c)
    BY <1>2, <1>4, <1>5, <1>8, <1>9, <1>10, <1>11 DEF EvidenceRests
  <1> QED
    BY <1>1, <1>12

EvidenceIsRested == \A c \in Commanded("PROCESS_PARTNER_EVIDENCE") : EvidenceRests(c)

LEMMA EvidenceIsRestedStep ==
    ASSUME HoldIdsAreNew, OnePlanOfTheDay, TypeOK, DayTyped, JobsInv, RecallsAreInLife,
           VehiclesArePlanned, EdgesArePlanned, HoldsAreActive, EvidenceIsRested,
           [DayNext]_dayVars
    PROVE  EvidenceIsRested'
  <1> DEFINE C == Commanded("PROCESS_PARTNER_EVIDENCE")
  <1>1. [Next]_vars
    BY DayStepIsLedgerStep
  <1>2. \A c : EvidenceRests(c) => EvidenceRests(c)'
    BY <1>1, EvidenceRestsKept
  <1>3. "PROCESS_PARTNER_EVIDENCE" \in Agentic
    BY DEF Agentic
  <1>4. CASE C' \subseteq C
    BY <1>2, <1>4 DEF EvidenceIsRested
  <1>5. ASSUME NEW q \in Requests, NEW c, Derives(q, c),
               \A d \in C' : d \in C \/ (d = c /\ c.type = "PROCESS_PARTNER_EVIDENCE")
        PROVE  EvidenceIsRested'
    <2>1. CASE c.type # "PROCESS_PARTNER_EVIDENCE"
      BY <1>2, <1>5, <2>1 DEF EvidenceIsRested
    <2>2. CASE c.type = "PROCESS_PARTNER_EVIDENCE"
      <3>1. /\ \E w \in workItems, n \in nodes : AuthorityExact(q, w, n)
            /\ \E proposal \in Readings : c = Evidence(q, proposal)
            /\ q.kind = "EVIDENCE"
        BY <1>5, <2>2, TypesDerived DEF Derives
      <3>2. EvidenceRests(c)
        BY <3>1, EvidenceRestsWhenDerived
      <3> QED
        BY <1>2, <1>5, <3>2 DEF EvidenceIsRested
    <2> QED
      BY <2>1, <2>2
  <1> QED
    BY <1>3, <1>4, <1>5, WhereCommandsComeFrom

(* What has evidence at rest the ledger accepts, or has a reason on record. *)
LEMMA EvidenceStaysAcceptable ==
    ASSUME OnePlanOfTheDay, TypeOK, RevisionsInv, RecalledPlanStaysDown, RecallsAreInLife,
           NEW c, EvidenceRests(c), ~Overtaken(c)
    PROVE  Acceptable(c)
  <1>1. /\ c.type = "PROCESS_PARTNER_EVIDENCE" /\ RoleAllowed(c)
        /\ c.body \in ProcessPartnerEvidencePayload /\ IsTakenDown(c.exp)
    BY DEF EvidenceRests
  <1>2. PICK w \in workItems : /\ CustodyOf(c, w) /\ (ToConfirm(w) \/ IsConfirmed(w))
                               /\ RecallOf(c.inc, w.details.lot)
    BY DEF EvidenceRests
  <1>3. /\ \A e \in evidence : e.event # c.body.event
        /\ ~\E e \in evidence : e.decision = "APPLIED" /\ e.node = w.details.node
        /\ ~\E u, v \in OpenCustodyWork(c.inc) : u # v
        /\ ~\E x \in incidents : x.incident = c.inc /\ x.status \in {"CONTAINED", "CLOSED"}
    BY <1>1, <1>2 DEF Overtaken, CustodyOf
  <1>4. ToConfirm(w)
    BY <1>2, <1>3 DEF IsConfirmed
  <1>5. PICK x \in incidents :
           /\ x.incident = c.inc /\ x.type = "FOOD_SAFETY_RECALL"
           /\ x.lot = w.details.lot /\ x.status \in Contained
    BY <1>2 DEF RecallOf
  <1>6. x.status = "PARTIALLY_CONTAINED"
    BY <1>3, <1>5 DEF Contained
  <1>7. x.terminal = "PARTIALLY_CONTAINED"
    BY <1>5, <1>6 DEF RecallsAreInLife, TerminalStateOf
  <1>8. PICK n \in nodes : n.node = w.details.node /\ n.ack = "UNCONFIRMED"
    BY <1>4 DEF ToConfirm
  <1>9. OpenCustodyWork(c.inc) = {w}
    <2>1. w \in OpenCustodyWork(c.inc)
      BY <1>2, <1>4 DEF OpenCustodyWork, CustodyOf, ToConfirm
    <2> QED
      BY <1>3, <2>1
  <1>10. \E e \in edges : IncomingEdges(n.node, w.details.lot) = {e}
    BY <1>2, <1>8 DEF CustodyOf
  <1>11. EvidenceContext(c, w, n)
    BY <1>2, <1>3, <1>5, <1>6, <1>7, <1>8, <1>9, <1>10
    DEF EvidenceContext, EvidenceRests, CustodyOf
  <1>12. /\ ActiveRevision = None /\ TenantExists
         /\ RevisionStatus(c.exp) = "INVALIDATED_RECALL"
    BY <1>1, NothingInForce
  <1>13. RevisionMatches(c)
    BY <1>1, <1>12 DEF RevisionMatches
  <1>14. ~Settled(c)
    BY DEF Overtaken
  <1>15. Admitted(c, c.type)
    BY <1>1, <1>12, <1>13, <1>14 DEF Admitted
  <1>16. c.body \in PayloadModels[c.type]
    BY <1>1 DEF PayloadModels
  <1> QED
    BY <1>1, <1>11, <1>15, <1>16 DEF Acceptable

-----------------------------------------------------------------------------
(* Where the day closes: a recall is contained in part when rev08 is down *)

(* A step is the next call of another caller, or of a handler, of its own type. *)
LEMMA WhoseStepItIs ==
    ASSUME DayTyped, JobsInv, [DayNext]_dayVars
    PROVE  \/ \E k \in DOMAIN Traffic : OtherCall(k)
           \/ /\ done' = done
              /\ \/ UNCHANGED vars
                 \/ \E c \in Commands : Execute(c) /\ c.type # "SET_INCIDENT_STATUS"
  <1>1. CASE UNCHANGED dayVars
    BY <1>1 DEF dayVars, handlerVars
  <1>2. CASE \E q \in Requests : Deliver(q)
    BY <1>2 DEF Deliver
  <1>3. ASSUME NEW j \in jobs, JobStep(j)
        PROVE  /\ done' = done
               /\ \/ UNCHANGED vars
                  \/ \E c \in Commands : Execute(c) /\ c.type # "SET_INCIDENT_STATUS"
    <2>1. done' = done
      BY <1>3, JobStepIsLedgerStep
    <2>2. CASE CallLedger(j) \/ LoseAnswer(j)
      <3>1. /\ j.step = "LEDGER"
            /\ \/ UNCHANGED vars
               \/ j.command \in Commands /\ Execute(j.command)
        BY <2>2 DEF CallLedger, LoseAnswer, Answered
      <3>2. j.request.kind \in Kinds /\ CommandFits(j.request, j.command)
        BY <3>1, DayConstants DEF JobsInv
      <3>3. /\ MorningPlan(j.request).type = "SAVE_PLAN_REVISION"
            /\ Waiting(j.request).type = "PERSIST_COORDINATOR"
        BY DEF MorningPlan, Waiting, PlannerCmd, Cmd
      <3>4. j.command.type # "SET_INCIDENT_STATUS"
        BY <3>2, <3>3 DEF Kinds, CommandFits
      <3> QED
        BY <2>1, <3>1, <3>4
    <2>3. CASE ~(CallLedger(j) \/ LoseAnswer(j))
      BY <1>3, <2>1, <2>3 DEF JobStep, TooOld, Derive, Infeasible, Pass, Stop, Refused, Fail
    <2> QED
      BY <2>2, <2>3
  <1> QED
    BY <1>1, <1>2, <1>3 DEF DayNext

(* The next command of another caller. *)
NextOf(k) == Traffic[k][done[k] + 1]

LEMMA NextCall ==
    ASSUME DayTyped, NEW k \in DOMAIN Traffic, OtherCall(k)
    PROVE  /\ NextOf(k) \in Commands /\ Execute(NextOf(k))
           /\ done[k] + 1 \in DOMAIN Traffic[k]
           /\ \/ Succeeded(NextOf(k)) /\ done' = [done EXCEPT ![k] = done[k] + 1]
              \/ done' = [done EXCEPT ![k] = Len(Traffic[k])]
  <1>1. /\ Traffic[k] \in Seq(Commands) /\ Len(Traffic[k]) \in Nat
        /\ DOMAIN Traffic[k] = 1..Len(Traffic[k])
    BY DayConstants, LenProperties
  <1>2. done[k] \in Nat /\ done[k] + 1 \in DOMAIN Traffic[k]
    BY <1>1 DEF DayTyped, OtherCall
  <1>3. NextOf(k) \in Commands
    BY <1>1, <1>2, ElementOfSeq DEF NextOf
  <1>4. /\ Execute(NextOf(k))
        /\ done' = [done EXCEPT ![k] = IF Succeeded(NextOf(k)) THEN done[k] + 1
                                       ELSE Len(Traffic[k])]
    BY DEF OtherCall, NextOf
  <1> QED
    BY <1>2, <1>3, <1>4

LEMMA SuccessInvalidates ==
    ASSUME NEW c \in Commands, c.type = "INVALIDATE_PLAN", Execute(c), Succeeded(c)
    PROVE  InvalidatePlan(c)
  <1>1. ~(DenyRole(c) \/ DenyStaleRevision(c))
    BY DEF DenyRole, DenyStaleRevision, Denied, Receipt, Settled, Succeeded
  <1>2. ~(RecordRefusal(c) \/ DenyPartnerEvidence(c))
    BY DEF RecordRefusal, DenyPartnerEvidence, Admitted
  <1> QED
    BY <1>1, <1>2
    DEF Execute, SavePlanRevision, PersistRepairProposal, PersistRepairApproval,
        ActivateApprovedRepairPlan, PersistCoordinator, OpenRecallIncident,
        SetIncidentStatus, ActivateMovementBarrier, AllocateSafeStock,
        RecordAcknowledgmentHold, ApplyPartnerEvidence, CreateNextDayDraft,
        ReaffirmNextDayDraft, Admitted

LEMMA InvalidationTakesDown ==
    ASSUME TypeOK, NEW c \in Commands, InvalidatePlan(c)
    PROVE  \E i \in DOMAIN plans' : /\ plans'[i].rev = c.body.rev
                                    /\ plans'[i].status = "INVALIDATED_RECALL"
  <1>1. PICK i \in ActiveRows :
           /\ plans[i].rev = c.body.rev
           /\ plans' = [plans EXCEPT ![i].status = "INVALIDATED_RECALL"]
    BY DEF InvalidatePlan
  <1>2. i \in DOMAIN plans /\ plans[i] \in PlanRow
    BY <1>1, PlansDomain DEF ActiveRows
  <1>3. i \in DOMAIN plans' /\ plans'[i] = [plans[i] EXCEPT !.status = "INVALIDATED_RECALL"]
    BY <1>1, <1>2
  <1>4. /\ [plans[i] EXCEPT !.status = "INVALIDATED_RECALL"].rev = plans[i].rev
        /\ [plans[i] EXCEPT !.status = "INVALIDATED_RECALL"].status = "INVALIDATED_RECALL"
    BY <1>2 DEF PlanRow
  <1> QED
    BY <1>1, <1>3, <1>4

(* A caller that goes on after its invalidation has taken rev08 down; and a recall
   is contained, in part or in full, when rev08 is down. *)
HasInvalidated(k, n) == \E m \in 1..n : Traffic[k][m].type = "INVALIDATE_PLAN"
CallersTakeDown ==
    \A k \in DOMAIN Traffic :
        done[k] < Len(Traffic[k]) /\ HasInvalidated(k, done[k]) => IsTakenDown("rev08")
ContainedWhenDown ==
    \A x \in incidents :
        x.type = "FOOD_SAFETY_RECALL" /\ x.status \in Contained => IsTakenDown("rev08")

LEMMA CallersTakeDownStep ==
    ASSUME RecallsTakeRev08Down, TypeOK, DayTyped, JobsInv, CallersTakeDown,
           [DayNext]_dayVars
    PROVE  CallersTakeDown'
  <1>1. IsTakenDown("rev08") => IsTakenDown("rev08")'
    BY DayStepIsLedgerStep, IsTakenDownKept
  <1>2. CASE done' = done
    BY <1>1, <1>2 DEF CallersTakeDown, HasInvalidated
  <1>3. ASSUME NEW k \in DOMAIN Traffic, OtherCall(k)
        PROVE  CallersTakeDown'
    <2>1. /\ NextOf(k) \in Commands /\ Execute(NextOf(k))
          /\ \/ Succeeded(NextOf(k)) /\ done' = [done EXCEPT ![k] = done[k] + 1]
             \/ done' = [done EXCEPT ![k] = Len(Traffic[k])]
      BY <1>3, NextCall
    <2>2. done \in [DOMAIN Traffic -> Nat] /\ Len(Traffic[k]) \in Nat
      BY DayConstants, LenProperties DEF DayTyped
    <2> SUFFICES ASSUME NEW l \in DOMAIN Traffic, done'[l] < Len(Traffic[l]),
                        NEW m \in 1..done'[l], Traffic[l][m].type = "INVALIDATE_PLAN"
                 PROVE  IsTakenDown("rev08")'
      BY DEF CallersTakeDown, HasInvalidated
    <2>3. CASE l # k
      <3>1. done'[l] = done[l]
        BY <2>1, <2>2, <2>3
      <3> QED
        BY <1>1, <3>1 DEF CallersTakeDown, HasInvalidated
    <2>4. CASE l = k
      <3>1. done'[k] = done[k] + 1 /\ Succeeded(NextOf(k))
        BY <2>1, <2>2, <2>4
      <3>2. done[k] < Len(Traffic[k]) /\ m \in Nat /\ (m \in 1..done[k] \/ m = done[k] + 1)
        BY <2>2, <2>4, <3>1
      <3>3. CASE m \in 1..done[k]
        BY <1>1, <2>4, <3>2, <3>3 DEF CallersTakeDown, HasInvalidated
      <3>4. CASE m = done[k] + 1
        <4>1. NextOf(k).type = "INVALIDATE_PLAN"
          BY <2>4, <3>4 DEF NextOf
        <4>2. InvalidatePlan(NextOf(k)) /\ NextOf(k).body.rev = "rev08"
          BY <2>1, <3>1, <4>1, SuccessInvalidates DEF RecallsTakeRev08Down
        <4>3. \E i \in DOMAIN plans' : /\ plans'[i].rev = "rev08"
                                       /\ plans'[i].status = "INVALIDATED_RECALL"
          BY <2>1, <4>2, InvalidationTakesDown
        <4> QED
          BY <4>3 DEF IsTakenDown
      <3> QED
        BY <3>2, <3>3, <3>4
    <2> QED
      BY <2>3, <2>4
  <1> QED
    BY <1>2, <1>3, WhoseStepItIs

(* Who sets a status does so after its invalidation. *)
LEMMA ContainedWhenDownStep ==
    ASSUME RecallsTakeRev08Down, TypeOK, DayTyped, JobsInv, CallersTakeDown,
           ContainedWhenDown, [DayNext]_dayVars
    PROVE  ContainedWhenDown'
  <1>1. IsTakenDown("rev08") => IsTakenDown("rev08")'
    BY DayStepIsLedgerStep, IsTakenDownKept
  <1>2. CASE incidents' = incidents
    BY <1>1, <1>2 DEF ContainedWhenDown
  <1>3. ASSUME NEW row, IncidentOpened(row)
        PROVE  ContainedWhenDown'
    BY <1>1, <1>3 DEF IncidentOpened, ContainedWhenDown, Contained
  <1>4. ASSUME NEW row, NEW w, IncidentHeld(row, w)
        PROVE  ContainedWhenDown'
    BY <1>1, <1>4 DEF IncidentHeld, ContainedWhenDown
  <1>5. ASSUME NEW x, NEW y, IncidentMoved(x, y),
               y.status = "PARTIALLY_CONTAINED" => IsTakenDown("rev08")
        PROVE  ContainedWhenDown'
    <2>1. /\ x \in incidents /\ incidents' = (incidents \ {x}) \cup {y}
          /\ y.type = x.type
      BY <1>5 DEF IncidentMoved
    <2>2. y.status \in Contained => y.status = "PARTIALLY_CONTAINED" \/ x.status \in Contained
      BY <1>5 DEF IncidentMoved, RecallSuccessor, Contained
    <2> QED
      BY <1>1, <1>5, <2>1, <2>2 DEF ContainedWhenDown
  <1>6. ASSUME NEW c \in Commands, Execute(c),
               /\ c.type = "SET_INCIDENT_STATUS" /\ c.body.new = "PARTIALLY_CONTAINED"
               => IsTakenDown("rev08")
        PROVE  ContainedWhenDown'
    BY <1>2, <1>3, <1>4, <1>5, <1>6, IncidentsTransaction
  <1>7. ASSUME NEW k \in DOMAIN Traffic, OtherCall(k)
        PROVE  ContainedWhenDown'
    <2>1. /\ NextOf(k) \in Commands /\ Execute(NextOf(k))
          /\ done[k] + 1 \in DOMAIN Traffic[k]
      BY <1>7, NextCall
    <2>2. done[k] \in Nat /\ done[k] < Len(Traffic[k])
      BY <1>7 DEF DayTyped, OtherCall
    <2>3. ASSUME NextOf(k).type = "SET_INCIDENT_STATUS",
                 NextOf(k).body.new = "PARTIALLY_CONTAINED"
          PROVE  IsTakenDown("rev08")
      <3>1. PICK n \in DOMAIN Traffic[k] : n = done[k] + 1 /\ NextOf(k) = Traffic[k][n]
        BY <2>1 DEF NextOf
      <3>2. (\E m \in 1..(n - 1) : Traffic[k][m].type = "INVALIDATE_PLAN") /\ n - 1 = done[k]
        BY <2>2, <2>3, <3>1 DEF RecallsTakeRev08Down
      <3>3. HasInvalidated(k, done[k])
        BY <3>2 DEF HasInvalidated
      <3> QED
        BY <2>2, <3>3 DEF CallersTakeDown
    <2> QED
      BY <1>6, <2>1, <2>3
  <1>8. UNCHANGED vars => incidents' = incidents
    BY DEF vars, recallVars
  <1> QED
    BY <1>2, <1>6, <1>7, <1>8, WhoseStepItIs

-----------------------------------------------------------------------------
(* The keys of what a draft inherits *)

(* A barrier is one that a command names; incidents are finitely many, with ids of
   their own; and the event of the next day is taken when its draft is there. *)
BarriersAreNamed ==
    \A x \in barriers : \E c \in Commands :
        /\ c.type = "ACTIVATE_MOVEMENT_BARRIER"
        /\ x.barrier = c.body.barrier /\ x.lot = c.body.lot
IncidentsInv ==
    /\ IsFiniteSet(incidents)
    /\ \A x, y \in incidents : x.incident = y.incident => x = y
NextDayEvent == "NEXTDAY-" \o NextPlanId
NextDaySettles == NextDayEvent \in events => PlanExists(NextPlanId, "rev01")

LEMMA BarriersAreNamedStep ==
    ASSUME BarriersAreNamed, [Next]_vars
    PROVE  BarriersAreNamed'
  <1>1. CASE barriers' = barriers
    BY <1>1 DEF BarriersAreNamed
  <1>2. ASSUME NEW c \in Commands, ActivateMovementBarrier(c)
        PROVE  BarriersAreNamed'
    <2> DEFINE row == [barrier |-> c.body.barrier, incident |-> c.inc, lot |-> c.body.lot]
    <2>1. barriers' = barriers \cup {row} /\ c.type = "ACTIVATE_MOVEMENT_BARRIER"
      BY <1>2 DEF ActivateMovementBarrier, Admitted
    <2>2. row.barrier = c.body.barrier /\ row.lot = c.body.lot
      OBVIOUS
    <2> HIDE DEF row
    <2> QED
      BY <2>1, <2>2 DEF BarriersAreNamed
  <1>3. ASSUME NEW c \in Commands, SavePlanRevision(c)
        PROVE  barriers' = barriers
    BY <1>3 DEF SavePlanRevision, recallVars
  <1> QED
    BY <1>1, <1>2, <1>3, LotsStep

LEMMA IncidentsInvStep ==
    ASSUME TypeOK, IncidentsInv, [Next]_vars
    PROVE  IncidentsInv'
  <1>1. CASE incidents' = incidents
    BY <1>1 DEF IncidentsInv
  <1>2. ASSUME NEW kept \in SUBSET incidents, NEW row, incidents' = kept \cup {row},
               \A x \in kept : x.incident # row.incident
        PROVE  IncidentsInv'
    <2>1. IsFiniteSet(kept)
      BY FS_Subset DEF IncidentsInv
    <2>2. IsFiniteSet(kept \cup {row})
      BY <2>1, FS_AddElement
    <2> QED
      BY <1>2, <2>2 DEF IncidentsInv
  <1>3. ASSUME NEW row, IncidentOpened(row)
        PROVE  IncidentsInv'
    BY <1>2, <1>3 DEF IncidentOpened, IncidentExists
  <1>4. ASSUME NEW x, NEW y, IncidentMoved(x, y)
        PROVE  IncidentsInv'
    <2>1. /\ x \in incidents /\ incidents' = (incidents \ {x}) \cup {y}
          /\ y.incident = x.incident
      BY <1>4 DEF IncidentMoved
    <2>2. (incidents \ {x}) \in SUBSET incidents
      OBVIOUS
    <2>3. \A z \in incidents \ {x} : z.incident # y.incident
      BY <2>1 DEF IncidentsInv
    <2> QED
      BY <1>2, <2>1, <2>2, <2>3
  <1>5. ASSUME NEW row, NEW w, IncidentHeld(row, w)
        PROVE  IncidentsInv'
    <2> DEFINE kept == {x \in incidents : x.incident # row.incident}
    <2>1. incidents' = kept \cup {row} /\ kept \in SUBSET incidents
      BY <1>5 DEF IncidentHeld
    <2>2. \A x \in kept : x.incident # row.incident
      OBVIOUS
    <2> HIDE DEF kept
    <2> QED
      BY <1>2, <2>1, <2>2
  <1> QED
    BY <1>1, <1>3, <1>4, <1>5, IncidentsStep

LEMMA NextDaySettlesStep ==
    ASSUME NextDayEventsTell, TypeOK, NextDaySettles, [Next]_vars
    PROVE  NextDaySettles'
  <1>1. PICK p, r : p = NextPlanId /\ r = "rev01"
    OBVIOUS
  <1>2. PlanExists(p, r) => PlanExists(p, r)'
    BY PlanExistsKept
  <1>3. CASE events' = events
    BY <1>1, <1>2, <1>3 DEF NextDaySettles
  <1>4. ASSUME NEW c \in Commands, CreateNextDayDraft(c), c.body.event = NextDayEvent
        PROVE  NextDaySettles'
    <2>1. PICK row : /\ PlanAdded(row) /\ row.plan = c.body.plan /\ row.rev = "rev01"
      BY <1>4, DraftAdds
    <2>2. c.body.plan = NextPlanId
      BY <1>4 DEF CreateNextDayDraft, Admitted, NextDayEventsTell, NextDayEvent
    <2>3. Len(plans) + 1 \in DOMAIN plans' /\ plans'[Len(plans) + 1] = row
      BY <2>1, PlansDomain DEF PlanAdded
    <2> QED
      BY <2>1, <2>2, <2>3 DEF NextDaySettles, PlanExists
  <1>5. ASSUME NEW c \in Commands, NextDayEvent \notin events,
               \/ SavePlanRevision(c) \/ PersistRepairProposal(c) \/ OpenRecallIncident(c)
               \/ RecordAcknowledgmentHold(c)
               \/ CreateNextDayDraft(c) /\ c.body.event # NextDayEvent
        PROVE  NextDayEvent \notin events'
    <2>1. CASE SavePlanRevision(c)
      BY <1>5, <2>1 DEF SavePlanRevision, Admitted, NextDayEventsTell, NextDayEvent
    <2>2. CASE PersistRepairProposal(c) \/ OpenRecallIncident(c)
      BY <1>5, <2>2
      DEF PersistRepairProposal, OpenRecallIncident, Admitted, NextDayEventsTell,
          NextDayEvent
    <2>3. CASE RecordAcknowledgmentHold(c)
      BY <1>5, <2>3 DEF RecordAcknowledgmentHold, Admitted, NextDayEventsTell, NextDayEvent
    <2>4. CASE CreateNextDayDraft(c) /\ c.body.event # NextDayEvent
      BY <1>5, <2>4 DEF CreateNextDayDraft
    <2> QED
      BY <1>5, <2>1, <2>2, <2>3, <2>4
  <1>6. ASSUME NEW c \in Commands, Execute(c)
        PROVE  NextDaySettles'
    <2>1. CASE NextDayEvent \in events
      BY <1>1, <1>2, <2>1 DEF NextDaySettles
    <2>2. CASE NextDayEvent \notin events
      BY <1>3, <1>4, <1>5, <1>6, <2>2, WhoInsertsEvents DEF NextDaySettles
    <2> QED
      BY <2>1, <2>2
  <1>7. Tick \/ UNCHANGED vars => events' = events
    BY DEF Tick, vars
  <1> QED
    BY <1>3, <1>6, <1>7 DEF Next

(* What an injection into a finite set keeps finite. *)
LEMMA KeyedIsFinite ==
    ASSUME NEW S, IsFiniteSet(S), NEW T, NEW f \in [T -> S],
           \A x, y \in T : f[x] = f[y] => x = y
    PROVE  IsFiniteSet(T)
  <1>1. f \in Injection(T, S)
    BY DEF Injection, IsInjective
  <1> QED
    BY <1>1, FS_Injection

LEMMA IdsAreFinite == IsFiniteSet(Range(Ids))
  <1> DEFINE n == Len(Ids)
             f == [x \in Range(Ids) |-> Rank(x)]
  <1>1. n \in Nat /\ DOMAIN Ids = 1..n
    BY DayConstants, LenProperties
  <1>2. \A x \in Range(Ids) : Rank(x) \in 1..n /\ Ids[Rank(x)] = x
    BY <1>1 DEF Rank, Range
  <1>3. IsFiniteSet(1..n)
    BY <1>1, FS_Interval
  <1>4. f \in [Range(Ids) -> 1..n] /\ \A x, y \in Range(Ids) : f[x] = f[y] => x = y
    BY <1>2
  <1> HIDE DEF f, n
  <1> QED
    BY <1>3, <1>4, KeyedIsFinite

(* The holds that a draft inherits: finitely many, and one for each site. *)
HeldBy(x) == {[hold |-> h.incident, site |-> h.site, cases |-> h.cases] : h \in HoldsOf(x)}
LEMMA InheritedHolds ==
    ASSUME HoldIdsTell, TypeOK, IncidentsInv, HoldsHaveWork, WorkIsRecorded, NEW x
    PROVE  /\ IsFiniteSet(HeldBy(x))
           /\ HeldBy(x) \subseteq [hold : STRING, site : STRING, cases : PosInt]
           /\ \A g, h \in HeldBy(x) : g.site = h.site => g = h
  <1>1. ASSUME NEW h \in HoldsOf(x)
        PROVE  \E d \in Commands :
                  /\ d.type = "RECORD_ACKNOWLEDGMENT_HOLD"
                  /\ d.body.hold = h.incident /\ d.body.site = h.site
                  /\ d.body.incident = x.incident
    <2>1. h \in incidents /\ h.type = "DEADLINE_HOLD"
      BY DEF HoldsOf
    <2>2. PICK w \in workItems : /\ w.incident = x.incident /\ w.type = CustodyWork
                                 /\ w.details.hold = h.incident
      BY DEF HoldsOf
    <2>3. PICK d \in Commands :
             /\ d.type = "RECORD_ACKNOWLEDGMENT_HOLD" /\ w.incident = d.body.incident
             /\ w.details.hold = d.body.hold
      BY <2>2 DEF WorkIsRecorded
    <2>4. PICK v \in workItems : /\ v.type = CustodyWork /\ v.details.hold = h.incident
                                 /\ v.details.site = h.site
      BY <2>1 DEF HoldsHaveWork
    <2>5. PICK e \in Commands :
             /\ e.type = "RECORD_ACKNOWLEDGMENT_HOLD"
             /\ v.details.hold = e.body.hold /\ v.details.site = e.body.site
      BY <2>4 DEF WorkIsRecorded
    <2>6. CustodyWorkId(d) = CustodyWorkId(e)
      BY <2>2, <2>3, <2>4, <2>5 DEF HoldIdsTell
    <2>7. d.body.site = e.body.site
      BY <2>6 DEF CustodyWorkId
    <2> QED
      BY <2>2, <2>3, <2>4, <2>5, <2>7
  <1>2. ASSUME NEW h \in HoldsOf(x)
        PROVE  h.incident \in STRING /\ h.site \in STRING /\ h.cases \in PosInt
    <2>1. h \in IncidentRow /\ h.cases > 0
      BY DEF HoldsOf, TypeOK
    <2>2. PICK d \in Commands : /\ d.type = "RECORD_ACKNOWLEDGMENT_HOLD"
                                /\ d.body.site = h.site
      BY <1>1
    <2>3. d.body.site \in STRING
      BY <2>2, PayloadTyping DEF RecordAcknowledgmentHoldPayload
    <2> QED
      BY <2>1, <2>2, <2>3 DEF IncidentRow, PosInt
  <1>3. ASSUME NEW g \in HoldsOf(x), NEW h \in HoldsOf(x),
               g.site = h.site \/ g.incident = h.incident
        PROVE  g = h
    <2>1. PICK d \in Commands :
             /\ d.type = "RECORD_ACKNOWLEDGMENT_HOLD"
             /\ d.body.hold = g.incident /\ d.body.site = g.site
             /\ d.body.incident = x.incident
      BY <1>1
    <2>2. PICK e \in Commands :
             /\ e.type = "RECORD_ACKNOWLEDGMENT_HOLD"
             /\ e.body.hold = h.incident /\ e.body.site = h.site
             /\ e.body.incident = x.incident
      BY <1>1
    <2>3. g.incident = h.incident
      BY <1>3, <2>1, <2>2 DEF HoldIdsTell
    <2> QED
      BY <2>3 DEF IncidentsInv, HoldsOf
  <1>4. ASSUME NEW g \in HeldBy(x)
        PROVE  \E h \in HoldsOf(x) :
                  g = [hold |-> h.incident, site |-> h.site, cases |-> h.cases]
    BY DEF HeldBy
  <1>5. HeldBy(x) \subseteq [hold : STRING, site : STRING, cases : PosInt]
    BY <1>2, <1>4
  <1>6. \A g, h \in HeldBy(x) : g.site = h.site \/ g.hold = h.hold => g = h
    BY <1>3, <1>4
  <1>7. IsFiniteSet(HeldBy(x))
    <2> DEFINE f == [g \in HeldBy(x) |-> CHOOSE h \in incidents : h.incident = g.hold]
    <2>1. ASSUME NEW g \in HeldBy(x)
          PROVE  f[g] \in incidents /\ f[g].incident = g.hold
      <3>1. PICK h \in HoldsOf(x) :
               g = [hold |-> h.incident, site |-> h.site, cases |-> h.cases]
        BY <1>4
      <3>2. h \in incidents /\ h.incident = g.hold
        BY <3>1 DEF HoldsOf
      <3> QED
        BY <3>2
    <2>2. f \in [HeldBy(x) -> incidents]
      BY <2>1
    <2>3. \A g, h \in HeldBy(x) : f[g] = f[h] => g = h
      BY <1>6, <2>1
    <2> HIDE DEF f
    <2> QED
      BY <2>2, <2>3, KeyedIsFinite DEF IncidentsInv
  <1> QED
    BY <1>5, <1>6, <1>7

(* The barriers that a draft inherits are one, of the recalled lot. *)
BarredBy(x) == {[barrier |-> b.barrier, lot |-> b.lot] : b \in BarriersOf(x)}
LEMMA InheritedBarriers ==
    ASSUME BarrierIdsTell, TypeOK, BarriersAreNamed, NEW x
    PROVE  /\ IsFiniteSet(BarredBy(x)) /\ BarredBy(x) \subseteq [barrier : STRING, lot : STRING]
           /\ \A a, b \in BarredBy(x) : a = b
  <1>1. ASSUME NEW a \in BarredBy(x)
        PROVE  \E b \in barriers : /\ b.lot = x.lot
                                   /\ a = [barrier |-> b.barrier, lot |-> b.lot]
    BY DEF BarredBy, BarriersOf
  <1>2. BarredBy(x) \subseteq [barrier : STRING, lot : STRING]
    BY <1>1 DEF TypeOK, BarrierRow
  <1>3. ASSUME NEW a \in BarredBy(x), NEW b \in BarredBy(x)
        PROVE  a = b
    <2>1. PICK y \in barriers : y.lot = x.lot /\ a = [barrier |-> y.barrier, lot |-> y.lot]
      BY <1>1
    <2>2. PICK z \in barriers : z.lot = x.lot /\ b = [barrier |-> z.barrier, lot |-> z.lot]
      BY <1>1
    <2>3. y.barrier = z.barrier
      BY <2>1, <2>2 DEF BarriersAreNamed, BarrierIdsTell
    <2> QED
      BY <2>1, <2>2, <2>3
  <1>4. IsFiniteSet(BarredBy(x))
    <2>1. CASE BarredBy(x) = {}
      BY <2>1, FS_EmptySet
    <2>2. ASSUME NEW a \in BarredBy(x)
          PROVE  IsFiniteSet(BarredBy(x))
      <3>1. BarredBy(x) = {a}
        BY <1>3
      <3>2. IsFiniteSet({a})
        BY FS_Singleton
      <3> QED
        BY <3>1, <3>2
    <2> QED
      BY <2>1, <2>2
  <1> QED
    BY <1>2, <1>3, <1>4

(* The candidate is a legal one: its vehicles, its stops and what it leaves out. *)
LEMMA CandidateStops ==
    ASSUME NEW s, NEW short, Demand(short), NEW lotIds, lotIds \subseteq STRING,
           NEW vehicleIds, ServesAll(s, short, lotIds, vehicleIds), NEW x \in s.stops
    PROVE  /\ CandidateStopOf(x, NextPlanId) \in CandidateStop
           /\ CandidateStopOf(x, NextPlanId).order = CandidateOrder(NextPlanId, x.demand.id)
  <1>1. x.demand \in ShortfallRow /\ x.demand.id \in Range(Ids) /\ x.lot \in STRING
    BY DEF ServesAll, Demand
  <1>2. CandidateOrder(NextPlanId, x.demand.id) \in STRING
    BY <1>1, ComposedIds
  <1>3. CandidateStopOf(x, NextPlanId)
        = [order |-> CandidateOrder(NextPlanId, x.demand.id), agency |-> x.demand.agency,
           cases |-> x.demand.cases, lot |-> x.lot, shortfall |-> x.demand.id]
    BY DEF CandidateStopOf
  <1> HIDE DEF CandidateOrder
  <1> QED
    BY <1>1, <1>2, <1>3 DEF ShortfallRow, CandidateStop

(* Two stops with one order are one, on one vehicle. *)
LEMMA OrdersTellStops ==
    ASSUME NEW s, NEW short, Demand(short), ShortfallsKeyed(short),
           NEW lotIds, lotIds \subseteq STRING,
           NEW vehicleIds, ServesAll(s, short, lotIds, vehicleIds),
           NEW x \in s.stops, NEW y \in s.stops,
           CandidateStopOf(x, NextPlanId).order = CandidateStopOf(y, NextPlanId).order
    PROVE  x = y
  <1>1. CandidateOrder(NextPlanId, x.demand.id) = CandidateOrder(NextPlanId, y.demand.id)
    BY CandidateStops
  <1>2. x.demand \in short /\ y.demand \in short
    BY DEF ServesAll
  <1>3. x.demand.id \in Range(Ids) /\ y.demand.id \in Range(Ids)
    BY <1>2 DEF Demand
  <1>4. x.demand.id = y.demand.id
    BY <1>1, <1>3, ComposedIds
  <1> QED
    BY <1>2, <1>4 DEF ShortfallsKeyed, ServesAll

LEMMA CandidateIsLegal ==
    ASSUME NEW safe, NEW fleet, Stock(safe, fleet),
           NEW short, Demand(short), ShortfallsKeyed(short),
           NEW s, SoundSchedule(s, short, safe, fleet, NextPlanId),
           NEW V, V = CandidateVehicles(s, fleet, NextPlanId)
    PROVE  /\ IsFiniteSet(V) /\ V \subseteq CandidateVehicle
           /\ \A v \in V : CasesIn(v.stops) = v.load
           /\ \A v, w \in V : \A x \in v.stops, y \in w.stops :
                 x.order = y.order => v = w /\ x = y
           /\ \A x \in StopsOf(V), u \in UnassignedRows(s) : x.shortfall # u.shortfall
  <1> DEFINE On(id) == OnVehicle(s.stops, id, NextPlanId)
  <1>1. /\ ServesAll(s, short, LotIds(safe), VehicleIds(fleet))
        /\ Balanced(s, safe, fleet, NextPlanId)
    BY DEF SoundSchedule
  <1>2. LotIds(safe) \subseteq STRING /\ fleet \subseteq VehicleRow
    BY DEF Stock, LotIds, LotRow
  <1>3. ASSUME NEW v \in V
        PROVE  \E w \in fleet : v = CandidateOn(w, s.stops, NextPlanId)
                                /\ \E x \in s.stops : x.vehicle = w.vehicle
    BY VehiclesOfCandidate DEF Carrying
  <1>4. ASSUME NEW id, NEW y \in On(id)
        PROVE  \E x \in s.stops : x.vehicle = id /\ y = CandidateStopOf(x, NextPlanId)
    BY DEF OnVehicle, Candidates, VehicleStops
  <1>5. ASSUME NEW v \in V
        PROVE  v \in CandidateVehicle /\ CasesIn(v.stops) = v.load
    <2>1. PICK w \in fleet : v = CandidateOn(w, s.stops, NextPlanId)
                             /\ \E x \in s.stops : x.vehicle = w.vehicle
      BY <1>3
    <2>2. Countable(On(w.vehicle)) /\ CasesIn(On(w.vehicle)) \in Nat
      BY <1>1, CasesInNat DEF Balanced
    <2>3. IsFiniteSet(On(w.vehicle))
      BY <2>2 DEF Countable
    <2>4. On(w.vehicle) \subseteq CandidateStop
      BY <1>1, <1>2, <1>4, CandidateStops
    <2>5. On(w.vehicle) # {}
      BY <2>1 DEF OnVehicle, Candidates, VehicleStops
    <2>6. On(w.vehicle) \in NonEmpty(CandidateStop)
      BY <2>3, <2>4, <2>5 DEF NonEmpty
    <2>7. v = [vehicle |-> w.vehicle, capacity |-> w.capacity, committed |-> w.load,
               load |-> CasesIn(On(w.vehicle)), stops |-> On(w.vehicle)]
      BY <2>1 DEF CandidateOn
    <2>8. w \in VehicleRow
      BY <1>2
    <2> HIDE DEF On
    <2> QED
      BY <2>2, <2>6, <2>7, <2>8 DEF VehicleRow, CandidateVehicle
  <1>6. ASSUME NEW v \in V, NEW w \in V, v.vehicle = w.vehicle
        PROVE  v = w
    <2>1. PICK a \in fleet : v = CandidateOn(a, s.stops, NextPlanId)
      BY <1>3
    <2>2. PICK b \in fleet : w = CandidateOn(b, s.stops, NextPlanId)
      BY <1>3
    <2>3. a.vehicle = b.vehicle
      BY <1>6, <2>1, <2>2, CandidateOnFields
    <2> QED
      BY <2>1, <2>2, <2>3 DEF Stock
  <1>7. ASSUME NEW v \in V, NEW y \in v.stops
        PROVE  \E x \in s.stops : x.vehicle = v.vehicle /\ y = CandidateStopOf(x, NextPlanId)
    <2>1. PICK w \in fleet : v = CandidateOn(w, s.stops, NextPlanId)
      BY <1>3
    <2>2. v.stops = On(w.vehicle) /\ v.vehicle = w.vehicle
      BY <2>1, CandidateOnFields
    <2> QED
      BY <1>4, <2>2
  <1>8. IsFiniteSet(V)
    <2> DEFINE f == [v \in V |-> v.vehicle]
    <2>1. \A v \in V : v.vehicle \in Range(Ids)
      BY <1>3, CandidateOnFields DEF Stock
    <2>2. f \in [V -> Range(Ids)] /\ \A v, w \in V : f[v] = f[w] => v = w
      BY <1>6, <2>1
    <2> HIDE DEF f
    <2> QED
      BY <2>2, IdsAreFinite, KeyedIsFinite
  <1>9. ASSUME NEW v \in V, NEW w \in V, NEW a \in v.stops, NEW b \in w.stops,
               a.order = b.order
        PROVE  v = w /\ a = b
    <2>1. PICK x \in s.stops : x.vehicle = v.vehicle /\ a = CandidateStopOf(x, NextPlanId)
      BY <1>7
    <2>2. PICK y \in s.stops : y.vehicle = w.vehicle /\ b = CandidateStopOf(y, NextPlanId)
      BY <1>7
    <2>3. x = y
      BY <1>1, <1>2, <1>9, <2>1, <2>2, OrdersTellStops
    <2> QED
      BY <1>6, <2>1, <2>2, <2>3
  <1>10. ASSUME NEW a \in StopsOf(V), NEW u \in UnassignedRows(s)
         PROVE  a.shortfall # u.shortfall
    <2>1. PICK v \in V : a \in v.stops
      BY DEF StopsOf
    <2>2. PICK x \in s.stops : a = CandidateStopOf(x, NextPlanId)
      BY <1>7, <2>1
    <2>3. PICK d \in s.unassigned : u = UnassignedOf(d)
      BY DEF UnassignedRows
    <2>4. a.shortfall = x.demand.id /\ u.shortfall = d.id
      BY <2>2, <2>3, CandidateFields DEF UnassignedOf
    <2>5. x.demand \in short /\ d \in short /\ x.demand # d
      BY <1>1 DEF ServesAll
    <2> QED
      BY <2>4, <2>5 DEF ShortfallsKeyed
  <1> QED
    BY <1>5, <1>8, <1>9, <1>10

LEMMA UnassignedAreLegal ==
    ASSUME NEW short, Demand(short), ShortfallsKeyed(short),
           NEW s, s.unassigned \subseteq short
    PROVE  /\ IsFiniteSet(UnassignedRows(s)) /\ UnassignedRows(s) \subseteq UnassignedDemand
           /\ \A u \in UnassignedRows(s) : \E f \in short : u = UnassignedOf(f)
  <1>1. ASSUME NEW u \in UnassignedRows(s)
        PROVE  \E f \in short : u = UnassignedOf(f)
    BY DEF UnassignedRows
  <1>2. \A f \in short : UnassignedOf(f) \in UnassignedDemand /\ UnassignedOf(f).shortfall = f.id
    BY DEF Demand, ShortfallRow, UnassignedOf, UnassignedDemand
  <1>3. UnassignedRows(s) \subseteq UnassignedDemand
    BY <1>1, <1>2
  <1> DEFINE f == [u \in UnassignedRows(s) |-> u.shortfall]
  <1>4. f \in [UnassignedRows(s) -> Range(Ids)]
    BY <1>1, <1>2 DEF Demand
  <1>5. \A u, v \in UnassignedRows(s) : f[u] = f[v] => u = v
    BY <1>1, <1>2 DEF ShortfallsKeyed
  <1> HIDE DEF f
  <1>6. IsFiniteSet(UnassignedRows(s))
    BY <1>4, <1>5, IdsAreFinite, KeyedIsFinite
  <1> QED
    BY <1>1, <1>3, <1>6

-----------------------------------------------------------------------------
(* A draft goes stale for a reason on record *)

(* What a draft that a handler has derived asks for: it is legal, and what it
   inherits has keys of its own, except for two shortfalls of one agency. *)
DraftAsked(c) ==
    /\ c.type = "CREATE_NEXT_DAY_DRAFT" /\ RoleAllowed(c) /\ c.exp = "rev08"
    /\ c.body \in CreateNextDayDraftPayload
    /\ c.body.plan = NextPlanId /\ c.body.event = NextDayEvent
    /\ \A x, y \in c.body.barriers : x = y
    /\ \A x, y \in c.body.holds : x.site = y.site => x = y
    /\ \A u \in c.body.unassigned : \E f \in c.body.shortfalls : u = UnassignedOf(f)
DraftsAreAsked ==
    \A c \in Commanded("CREATE_NEXT_DAY_DRAFT") : DraftAsked(c) /\ IsTakenDown("rev08")

LEMMA DraftParts ==
    LET c == NextDayDraft
        b == NextDayDraft.body
        x == TheRow(UnresolvedRecalls)
        schedule == Schedule(shortfalls, SafeLots, Fleet)
    IN  /\ c.type = "CREATE_NEXT_DAY_DRAFT" /\ c.exp = "rev08"
        /\ c.role = "FULFILLMENT_RECOVERY_PLANNER"
        /\ b = [event |-> NextDayEvent, plan |-> NextPlanId, date |-> Tomorrow,
                coordinator |-> "COORD-" \o Tomorrow, barriers |-> BarredBy(x),
                shortfalls |-> shortfalls, holds |-> HeldBy(x),
                vehicles |-> CandidateVehicles(schedule, Fleet, NextPlanId),
                unassigned |-> UnassignedRows(schedule)]
  BY DEF NextDayDraft, PlannerCmd, Cmd, UnassignedRows, UnassignedOf, BarredBy, HeldBy,
         NextDayEvent

LEMMA DraftAskedWhenDerived ==
    ASSUME HoldIdsTell, BarrierIdsTell, TypeOK, SupplyInv, VehiclesInv, IdsInv,
           BarredLotsStayRecalled, HoldsHaveWork, WorkIsRecorded, BarriersAreNamed,
           IncidentsInv, ConstraintsComplete
    PROVE  DraftAsked(NextDayDraft)
  <1>1. PICK c, b, x, s, V, U :
           /\ c = NextDayDraft /\ b = NextDayDraft.body /\ x = TheRow(UnresolvedRecalls)
           /\ s = Schedule(shortfalls, SafeLots, Fleet)
           /\ V = CandidateVehicles(s, Fleet, NextPlanId) /\ U = UnassignedRows(s)
    OBVIOUS
  <1>2. /\ c.type = "CREATE_NEXT_DAY_DRAFT" /\ c.exp = "rev08"
        /\ c.role = "FULFILLMENT_RECOVERY_PLANNER" /\ c.body = b
        /\ b = [event |-> NextDayEvent, plan |-> NextPlanId, date |-> Tomorrow,
                coordinator |-> "COORD-" \o Tomorrow, barriers |-> BarredBy(x),
                shortfalls |-> shortfalls, holds |-> HeldBy(x),
                vehicles |-> V, unassigned |-> U]
    BY <1>1, DraftParts
  <1>3. RoleAllowed(c)
    BY <1>2 DEF RoleAllowed, AllowedRole, CommandTypes, PayloadModels
  <1>4. /\ Stock(SafeLots, Fleet)
        /\ Demand(shortfalls) /\ ShortfallsKeyed(shortfalls)
    BY SupplyIsStock
  <1>5. SoundSchedule(s, shortfalls, SafeLots, Fleet, NextPlanId)
    BY <1>1, <1>4, ScheduleIsSound
  <1>6. /\ IsFiniteSet(V) /\ V \subseteq CandidateVehicle
        /\ \A v \in V : CasesIn(v.stops) = v.load
        /\ \A v, w \in V : \A y \in v.stops, z \in w.stops :
              y.order = z.order => v = w /\ y = z
        /\ \A y \in StopsOf(V), u \in U : y.shortfall # u.shortfall
    BY <1>1, <1>4, <1>5, CandidateIsLegal
  <1>7. s.unassigned \subseteq shortfalls
    BY <1>5 DEF SoundSchedule, ServesAll
  <1>8. /\ IsFiniteSet(U) /\ U \subseteq UnassignedDemand
        /\ \A u \in U : \E f \in shortfalls : u = UnassignedOf(f)
    BY <1>1, <1>4, <1>7, UnassignedAreLegal
  <1>9. /\ BarredBy(x) \in NonEmpty([barrier : STRING, lot : STRING])
        /\ HeldBy(x) \in NonEmpty([hold : STRING, site : STRING, cases : PosInt])
        /\ shortfalls \in NonEmpty(ShortfallRow)
    <2>1. PICK y \in UnresolvedRecalls :
             UnresolvedRecalls = {y} /\ BarriersOf(y) # {} /\ HoldsOf(y) # {}
      BY DEF ConstraintsComplete
    <2>2. x = y
      BY <1>1, <2>1, TheRowIs
    <2>3. BarredBy(x) # {} /\ HeldBy(x) # {} /\ shortfalls # {}
      BY <2>1, <2>2 DEF BarredBy, HeldBy, ConstraintsComplete
    <2>4. IsFiniteSet(shortfalls) /\ shortfalls \subseteq ShortfallRow
      BY <1>4 DEF Demand
    <2> QED
      BY <2>3, <2>4, InheritedBarriers, InheritedHolds DEF NonEmpty
  <1>10. V \in {{}} \cup NonEmpty(CandidateVehicle) /\ U \in {{}} \cup NonEmpty(UnassignedDemand)
    BY <1>6, <1>8 DEF NonEmpty
  <1>11. \A v \in V : v.committed + v.load <= v.capacity
    <2>1. DraftStands(b)
      BY <1>1, DraftStandsWhenDerived
    <2>2. b.vehicles = V
      BY <1>2
    <2> QED
      BY <2>1, <2>2 DEF DraftStands, VehicleStands
  <1>12. CandidateArithmeticHolds(b)
    <2>1. b.vehicles = V /\ b.unassigned = U
      BY <1>2
    <2> QED
      BY <1>6, <1>11, <2>1 DEF CandidateArithmeticHolds
  <1>13. {NextDayEvent, NextPlanId, Tomorrow, "COORD-" \o Tomorrow} \subseteq STRING
    BY ComposedIds, DayConstants DEF NextDayEvent
  <1>14. b \in CreateNextDayDraftPayload
    <2>1. b \in [event : STRING, plan : STRING, date : STRING, coordinator : STRING,
                 barriers : NonEmpty([barrier : STRING, lot : STRING]),
                 shortfalls : NonEmpty(ShortfallRow),
                 holds : NonEmpty([hold : STRING, site : STRING, cases : PosInt]),
                 vehicles : {{}} \cup NonEmpty(CandidateVehicle),
                 unassigned : {{}} \cup NonEmpty(UnassignedDemand)]
      BY <1>2, <1>9, <1>10, <1>13
    <2> QED
      BY <1>12, <2>1 DEF CreateNextDayDraftPayload
  <1>15. /\ b.plan = NextPlanId /\ b.event = NextDayEvent /\ b.barriers = BarredBy(x)
         /\ b.holds = HeldBy(x) /\ b.unassigned = U /\ b.shortfalls = shortfalls
    BY <1>2
  <1>16. DraftAsked(c)
    BY <1>2, <1>3, <1>8, <1>14, <1>15, InheritedBarriers, InheritedHolds DEF DraftAsked
  <1> QED
    BY <1>1, <1>16

LEMMA DraftsAreAskedStep ==
    ASSUME HoldIdsTell, BarrierIdsTell, TypeOK, DayTyped, JobsInv, SupplyInv, VehiclesInv,
           IdsInv, BarredLotsStayRecalled, HoldsHaveWork, WorkIsRecorded, BarriersAreNamed,
           IncidentsInv, ContainedWhenDown, DraftsAreAsked, [DayNext]_dayVars
    PROVE  DraftsAreAsked'
  <1> DEFINE C == Commanded("CREATE_NEXT_DAY_DRAFT")
  <1>1. IsTakenDown("rev08") => IsTakenDown("rev08")'
    BY DayStepIsLedgerStep, IsTakenDownKept
  <1>2. \A c : DraftAsked(c)' <=> DraftAsked(c)
    BY DEF DraftAsked, RoleAllowed
  <1>3. CASE \A c \in C' : c \in C
    BY <1>1, <1>2, <1>3 DEF DraftsAreAsked
  <1>4. CASE ConstraintsComplete /\ \A c \in C' : c \in C \/ c = NextDayDraft
    <2>1. PICK draft : draft = NextDayDraft
      OBVIOUS
    <2>2. DraftAsked(draft)
      BY <1>4, <2>1, DraftAskedWhenDerived
    <2>3. IsTakenDown("rev08")
      BY <1>4 DEF ConstraintsComplete, UnresolvedRecalls, ContainedWhenDown, Contained
    <2> QED
      BY <1>1, <1>2, <1>4, <2>1, <2>2, <2>3 DEF DraftsAreAsked
  <1> QED
    BY <1>3, <1>4, WhereDraftsComeFrom

(* The constraints of a draft have keys of their own. *)
LEMMA DraftIsInsertable ==
    ASSUME NEW c, DraftAsked(c), ~NeverTaken(c)
    PROVE  Insertable(InheritedConstraints(c.body), {}, LAMBDA k : <<k.type, k.subject>>)
  <1> DEFINE b == c.body
  <1>1. \A f, g \in b.shortfalls : f.agency = g.agency => f = g
    BY DEF DraftAsked, NeverTaken
  <1>2. /\ \A x, y \in b.barriers : x = y
        /\ \A x, y \in b.holds : x.site = y.site => x = y
    BY DEF DraftAsked
  <1>3. ASSUME NEW u \in b.unassigned, NEW v \in b.unassigned, u.agency = v.agency
        PROVE  u = v
    <2>1. PICK f \in b.shortfalls : u = UnassignedOf(f)
      BY DEF DraftAsked
    <2>2. PICK g \in b.shortfalls : v = UnassignedOf(g)
      BY DEF DraftAsked
    <2>3. f.agency = g.agency
      BY <1>3, <2>1, <2>2 DEF UnassignedOf
    <2> QED
      BY <1>1, <2>1, <2>2, <2>3
  <1>4. ASSUME NEW k \in InheritedConstraints(b)
        PROVE  \/ /\ k.type = "LOT_MOVEMENT_BARRIER"
                  /\ \E x \in b.barriers :
                        k = Inherited(b, "LOT_MOVEMENT_BARRIER", x.lot, x.barrier, 0)
               \/ /\ k.type = "RECOVERY_PRIORITY"
                  /\ \E x \in b.shortfalls :
                        /\ k = Inherited(b, "RECOVERY_PRIORITY", x.agency, x.id, x.cases)
                        /\ k.subject = x.agency
               \/ /\ k.type = "ACKNOWLEDGMENT_HOLD"
                  /\ \E x \in b.holds :
                        /\ k = Inherited(b, "ACKNOWLEDGMENT_HOLD", x.site, x.hold, x.cases)
                        /\ k.subject = x.site
               \/ /\ k.type = "UNASSIGNED_DEMAND"
                  /\ \E x \in b.unassigned :
                        /\ k = Inherited(b, "UNASSIGNED_DEMAND", x.agency, x.shortfall, x.cases)
                        /\ k.subject = x.agency
    <2>1. \A type, subject, ref, cases :
             /\ Inherited(b, type, subject, ref, cases).type = type
             /\ Inherited(b, type, subject, ref, cases).subject = subject
      BY DEF Inherited
    <2> QED
      BY <1>4, <2>1 DEF InheritedConstraints
  <1> HIDE DEF b
  <1>5. ASSUME NEW k \in InheritedConstraints(b), NEW m \in InheritedConstraints(b),
               k.type = m.type, k.subject = m.subject
        PROVE  k = m
    <2>1. CASE k.type = "LOT_MOVEMENT_BARRIER"
      BY <1>2, <1>4, <1>5, <2>1
    <2>2. CASE k.type = "RECOVERY_PRIORITY"
      BY <1>1, <1>4, <1>5, <2>2
    <2>3. CASE k.type = "ACKNOWLEDGMENT_HOLD"
      BY <1>2, <1>4, <1>5, <2>3
    <2>4. CASE k.type = "UNASSIGNED_DEMAND"
      BY <1>3, <1>4, <1>5, <2>4
    <2> QED
      BY <1>4, <2>1, <2>2, <2>3, <2>4
  <1> QED
    BY <1>5 DEF Insertable, b

(* A draft that was derived is acceptable until another recall bars one of its lots:
   the recalled plan stays down, and what is inserted or there already is its own. *)
LEMMA DraftStaysAcceptable ==
    ASSUME OnePlanOfTheDay, TypeOK, RevisionsInv, RecalledPlanStaysDown, NextDaySettles,
           IsTakenDown("rev08"),
           NEW c, DraftAsked(c), DraftStands(c.body), ~Overtaken(c), ~NeverTaken(c)
    PROVE  Acceptable(c)
  <1>1. /\ c.type = "CREATE_NEXT_DAY_DRAFT" /\ RoleAllowed(c) /\ c.exp = "rev08"
        /\ c.body \in CreateNextDayDraftPayload
        /\ c.body.plan = NextPlanId /\ c.body.event = NextDayEvent
    BY DEF DraftAsked
  <1>2. ~Settled(c) /\ DraftOk(c)
    BY <1>1, DraftStandsOrIsBarred DEF Overtaken
  <1>3. TenantExists /\ RevisionStatus("rev08") = "INVALIDATED_RECALL"
    BY NothingInForce
  <1>4. Admitted(c, c.type)
    BY <1>1, <1>2, <1>3 DEF Admitted, RevisionMatches
  <1>5. DraftIsNew(c.body) \/ DraftIsThere(c.body)
    <2>1. CASE PlanExists(NextPlanId, "rev01")
      <3>1. PICK i \in DOMAIN plans : plans[i].plan = NextPlanId /\ plans[i].rev = "rev01"
        BY <2>1 DEF PlanExists
      <3>2. plans[i].status = "DRAFT_WITH_CONSTRAINTS"
        BY <3>1 DEF RevisionsInv
      <3>3. plans[i] \in PlanRow
        BY PlansDomain
      <3>4. plans[i] = [plan |-> NextPlanId, rev |-> "rev01",
                        status |-> "DRAFT_WITH_CONSTRAINTS"]
        BY <3>1, <3>2, <3>3 DEF PlanRow
      <3> QED
        BY <1>1, <3>4 DEF DraftIsThere
    <2>2. CASE ~PlanExists(NextPlanId, "rev01")
      <3>1. NextDayEvent \notin events
        BY <2>2 DEF NextDaySettles
      <3> QED
        BY <1>1, <2>2, <3>1, DraftIsInsertable DEF DraftIsNew
    <2> QED
      BY <2>1, <2>2
  <1>6. c.body \in PayloadModels[c.type]
    BY <1>1 DEF PayloadModels
  <1> QED
    BY <1>1, <1>2, <1>4, <1>5, <1>6 DEF Acceptable

-----------------------------------------------------------------------------
(* Nothing goes stale unseen *)

RecordInv ==
    /\ JobsInv /\ ReadersHaveNone /\ CandidatesInv /\ RecallsAreInLife
    /\ RevisionsInv /\ RepairsAreAsked /\ FaultsSettle
    /\ WorkIsRecorded /\ DraftsStand
    /\ EdgesArePlanned /\ HoldsAreActive /\ EvidenceIsRested
    /\ CallersTakeDown /\ ContainedWhenDown
    /\ BarriersAreNamed /\ IncidentsInv /\ NextDaySettles /\ DraftsAreAsked

LEMMA RecordInvStep ==
    ASSUME OnlyFaultsPropose, IdsAreListed, OnePlanOfTheDay, RepairsMakeRev08,
           FaultEventsTell, NextDayEventsTell, HoldIdsAreNew, HoldIdsTell,
           BarrierIdsTell, RecallsTakeRev08Down,
           TypeOK, DayTyped, PlanningInv, ImportedFirst, HoldsHaveWork,
           BarredLotsStayRecalled, RecordInv, [DayNext]_dayVars
    PROVE  RecordInv'
  <1> USE DEF RecordInv
  <1>1. [Next]_vars
    BY DayStepIsLedgerStep
  <1>2. /\ SupplyInv /\ VehiclesInv /\ IdsInv /\ VehiclesArePlanned
        /\ OrdersHaveParent /\ OrdersAreKeyed
    BY DEF CandidatesInv, PlanningInv
  <1>3. JobsInv' /\ ReadersHaveNone' /\ CandidatesInv'
    BY JobsInvStep, ReadersHaveNoneStep, CandidatesInvStep
  <1>4. RecallsAreInLife' /\ RevisionsInv' /\ WorkIsRecorded'
        /\ EdgesArePlanned' /\ HoldsAreActive'
    BY <1>1, RecallsInLifeStep, RevisionsInvStep, WorkIsRecordedStep,
       EdgesArePlannedStep, HoldsAreActiveStep
  <1>5. RepairsAreAsked' /\ FaultsSettle'
    BY <1>2, RepairsAreAskedStep, FaultsSettleStep
  <1>6. DraftsStand'
    BY <1>2, DraftsStandStep
  <1>7. EvidenceIsRested'
    BY <1>2, EvidenceIsRestedStep
  <1>8. CallersTakeDown' /\ ContainedWhenDown'
    BY CallersTakeDownStep, ContainedWhenDownStep
  <1>9. BarriersAreNamed' /\ IncidentsInv' /\ NextDaySettles'
    BY <1>1, BarriersAreNamedStep, IncidentsInvStep, NextDaySettlesStep
  <1>10. DraftsAreAsked'
    BY <1>2, DraftsAreAskedStep
  <1> QED
    BY <1>3, <1>4, <1>5, <1>6, <1>7, <1>8, <1>9, <1>10

LEMMA NothingGoesStale ==
    ASSUME OnePlanOfTheDay, TypeOK, PlanningInv, RecalledPlanStaysDown, RecordInv
    PROVE  NothingGoesStaleUnseen
  <1> USE DEF RecordInv
  <1>1. ASSUME NEW j \in Derived("PERSIST_REPAIR_PROPOSAL"), NEW c, c = j.command,
               ~Overtaken(c), ~NeverTaken(c)
        PROVE  Acceptable(c) /\ RepairFits(c.body.diff, Lines(c.body.plan, c.body.source))
    <2>1. RepairAsked(c)
      BY <1>1, DerivedIsCommanded DEF RepairsAreAsked
    <2> QED
      BY <1>1, <2>1, RepairStaysAcceptable DEF PlanningInv
  <1>2. ASSUME NEW j \in Derived("CREATE_NEXT_DAY_DRAFT"), NEW c, c = j.command,
               ~Overtaken(c), ~NeverTaken(c)
        PROVE  Acceptable(c)
    <2>1. DraftAsked(c) /\ IsTakenDown("rev08") /\ DraftStands(c.body)
      BY <1>2, DerivedIsCommanded DEF DraftsAreAsked, DraftsStand
    <2> QED
      BY <1>2, <2>1, DraftStaysAcceptable
  <1>3. ASSUME NEW j \in Derived("PROCESS_PARTNER_EVIDENCE"), NEW c, c = j.command,
               ~Overtaken(c)
        PROVE  Acceptable(c)
    <2>1. EvidenceRests(c)
      BY <1>3, DerivedIsCommanded DEF EvidenceIsRested
    <2> QED
      BY <1>3, <2>1, EvidenceStaysAcceptable
  <1> QED
    BY <1>1, <1>2, <1>3 DEF NothingGoesStaleUnseen

(* What a handler derives before it asks the agents is still acceptable to the
   ledger when it is called, or what overtook it is on record, for any requests,
   callers and interleaving.  Acceptable is a legal payload that passes the gate of
   execute() and every guard of its handler, the inserts included; a repair also
   still fits its source.  A repair is overtaken by the receipt of another proposal
   or the retirement of its source, a draft by a barrier on a lot it draws on,
   evidence by what has taken its event, confirmed the custody, added a second one
   or contained the incident.  Left out are the two commands that the handlers
   derive in vain: the repair of a repaired plan, and the draft for two shortfalls
   of one agency. *)
THEOREM NothingStaleGoesUnseen ==
    ASSUME OnlyFaultsPropose, IdsAreListed, OnePlanOfTheDay, RepairsMakeRev08,
           FaultEventsTell, NextDayEventsTell, HoldIdsAreNew, HoldIdsTell,
           BarrierIdsTell, RecallsTakeRev08Down
    PROVE  DaySpec => []NothingGoesStaleUnseen
  <1>1. DayInit => RecordInv
    <2> SUFFICES ASSUME DayInit
                 PROVE  RecordInv
      OBVIOUS
    <2>1. /\ JobsInv /\ ReadersHaveNone /\ RecallsAreInLife
          /\ VehiclesInv /\ IdsInv /\ VehiclesArePlanned
          /\ RevisionsInv /\ FaultsSettle /\ WorkIsRecorded /\ EdgesArePlanned
          /\ HoldsAreActive
      BY DEF DayInit, Init, JobsInv, ReadersHaveNone, RecallsAreInLife, VehiclesInv,
             IdsInv, VehiclesArePlanned, RevisionsInv, FaultsSettle, WorkIsRecorded,
             EdgesArePlanned, HoldsAreActive
    <2>2. SupplyInv
      BY FS_EmptySet DEF DayInit, Init, SupplyInv, ShortfallsKeyed
    <2>3. \A type : Commanded(type) = {}
      BY DEF DayInit, Commanded
    <2>4. CallersTakeDown
      <3>1. \A k \in DOMAIN Traffic : done[k] = 0
        BY DEF DayInit
      <3> QED
        BY <3>1 DEF CallersTakeDown, HasInvalidated
    <2>5. ContainedWhenDown /\ BarriersAreNamed /\ NextDaySettles
      BY DEF DayInit, Init, ContainedWhenDown, BarriersAreNamed, NextDaySettles
    <2>6. IncidentsInv
      BY FS_EmptySet DEF DayInit, Init, IncidentsInv
    <2> QED
      BY <2>1, <2>2, <2>3, <2>4, <2>5, <2>6
      DEF RecordInv, CandidatesInv, RepairsAreAsked, DraftsStand, EvidenceIsRested,
          DraftsAreAsked
  <1>2. /\ TypeOK /\ DayTyped /\ PlanningInv /\ PlanLife /\ HoldsHaveWork
        /\ BarredLotsStayRecalled /\ RecordInv /\ [DayNext]_dayVars
        => RecordInv'
    BY RecordInvStep DEF PlanLife
  <1>3. TypeOK /\ PlanningInv /\ PlanLife /\ RecordInv => NothingGoesStaleUnseen
    BY NothingGoesStale DEF PlanLife
  <1> QED
    BY <1>1, <1>2, <1>3, DayUsesLedger, TypeCorrect, DayTypedInvariant,
       PlanningInvariant, PlanLifeInvariant, EveryHoldIsAnswerable,
       BarredLotsAreRecalled, PTL DEF DaySpec

=============================================================================
