------------------------ MODULE ManagedRecallProofs ------------------------
(***************************************************************************)
(* The managed recall calls the ledger as any caller does, so everything   *)
(* proved of the ledger holds of it.  No two runs ever write one recall,   *)
(* its status claims no more than was done, and a contained lot is not     *)
(* shipped, for every set of notices, deliveries and other callers.        *)
(***************************************************************************)
EXTENDS ManagedRecall, PlanLedgerProofs

-----------------------------------------------------------------------------
(* A step of the orchestrator is at most one transaction of the ledger. *)

LEMMA RecallStepIsLedgerStep ==
    ASSUME [RecallNext]_recallRunVars
    PROVE  [Next]_vars
  <1>1. CASE UNCHANGED recallRunVars
    BY <1>1 DEF recallRunVars
  <1>2. ASSUME NEW n \in Notices, NEW t \in Traces,
               Deliver(n, t) \/ RejectDelivery(n, t) \/ RejectStale(n, t)
        PROVE  UNCHANGED vars
    BY <1>2 DEF Deliver, RejectDelivery, RejectStale
  <1>3. ASSUME NEW c, Answered(c)
        PROVE  [Next]_vars
    BY <1>3 DEF Answered, Next
  <1>4. ASSUME NEW r \in runs, RunStep(r)
        PROVE  [Next]_vars
    <2>1. CASE CallLedger(r)
      BY <2>1, <1>3 DEF CallLedger
    <2>2. CASE LoseAnswer(r)
      BY <2>2 DEF LoseAnswer, Next
    <2>3. CASE ReadInputs(r) \/ ReadCustody(r) \/ HaltForReview(r)
                  \/ HaltUnavailable(r) \/ ScheduleTask(r) \/ Fail(r)
      BY <2>3 DEF ReadInputs, ReadCustody, HaltForReview, HaltUnavailable,
                  ScheduleTask, Fail
    <2> QED
      BY <1>4, <2>1, <2>2, <2>3 DEF RunStep
  <1>5. ASSUME NEW id \in TaskIds, AnswerTask(id) \/ LoseTaskAnswer(id)
        PROVE  [Next]_vars
    <2>1. CASE AnswerTask(id)
      BY <2>1, <1>3 DEF AnswerTask
    <2>2. CASE LoseTaskAnswer(id)
      BY <2>2 DEF LoseTaskAnswer, Next
    <2> QED
      BY <1>5, <2>1, <2>2
  <1>6. ASSUME NEW t \in Traces, Escalate(t)
        PROVE  UNCHANGED vars
    BY <1>6 DEF Escalate
  <1>7. ASSUME NEW c \in Offered, OtherCaller(c)
        PROVE  Next
    BY <1>7, NoticesAndTraces DEF OtherCaller, Next
  <1>8. CASE Midnight
    BY <1>8 DEF Midnight
  <1> QED
    BY <1>1, <1>2, <1>4, <1>5, <1>6, <1>7, <1>8 DEF RecallNext

(* The managed recall is a behaviour of the ledger's callers: the saga, the
   deadline callback and the escalation reach the tables through transactions
   only, and RecallSpec implements the ledger's specification. *)
THEOREM RecallUsesLedger == RecallSpec => Spec
  <1>1. RecallInit => Init
    BY DEF RecallInit
  <1>2. [RecallNext]_recallRunVars => [Next]_vars
    BY RecallStepIsLedgerStep
  <1> QED
    BY <1>1, <1>2, PTL DEF RecallSpec, Spec

-----------------------------------------------------------------------------
(* The receipts of openings *)

(* Receipt x is of the opening of an incident. *)
Opening(x) == x.status = "SUCCESS" /\ x.type = "OPEN_RECALL_INCIDENT"

(* The incident row of an opening stays, so no incident is opened twice. *)
OpenedOnce ==
    /\ \A x, y \in receipts :
          Opening(x) /\ Opening(y) /\ x.fp.inc = y.fp.inc => x = y
    /\ \A x \in receipts : Opening(x) => IncidentExists(x.fp.inc)

LEMMA OpeningsStep ==
    ASSUME NEW c \in Commands, Execute(c)
    PROVE  /\ ~Settled(c)
           /\ \/ \E rev : receipts' = receipts \cup {Receipt(c, "DENIED", rev)}
              \/ /\ OpenRecallIncident(c)
                 /\ receipts' = receipts \cup {Receipt(c, "SUCCESS", ReceiptRevision(c))}
              \/ /\ c.type # "OPEN_RECALL_INCIDENT"
                 /\ receipts' = receipts \cup {Receipt(c, "SUCCESS", ReceiptRevision(c))}
  <1>1. CASE DenyRole(c) \/ DenyStaleRevision(c) \/ RecordRefusal(c)
                \/ DenyPartnerEvidence(c)
    BY <1>1 DEF DenyRole, DenyStaleRevision, RecordRefusal, DenyPartnerEvidence,
                Admitted, Denied
  <1>2. CASE OpenRecallIncident(c)
    BY <1>2 DEF OpenRecallIncident, Admitted, Succeed
  <1>3. CASE ~ (DenyRole(c) \/ DenyStaleRevision(c) \/ RecordRefusal(c)
                   \/ DenyPartnerEvidence(c) \/ OpenRecallIncident(c))
    <2>1. ~Settled(c) /\ Succeed(c) /\ c.type # "OPEN_RECALL_INCIDENT"
      BY <1>3
      DEF Execute, Admitted, SavePlanRevision, PersistRepairProposal,
          PersistRepairApproval, ActivateApprovedRepairPlan, InvalidatePlan,
          PersistCoordinator, SetIncidentStatus, ActivateMovementBarrier,
          AllocateSafeStock, RecordAcknowledgmentHold, ApplyPartnerEvidence,
          CreateNextDayDraft, ReaffirmNextDayDraft
    <2> QED
      BY <2>1 DEF Succeed
  <1> QED
    BY <1>1, <1>2, <1>3

LEMMA OpeningAddsIncident ==
    ASSUME NEW c \in Commands, OpenRecallIncident(c)
    PROVE  IncidentExists(c.inc)'
  <1> DEFINE row == [incident |-> c.inc, type |-> "FOOD_SAFETY_RECALL",
                     status |-> "DETECTED", terminal |-> "NONE",
                     lot |-> c.body.lot, site |-> None, cases |-> 0]
  <1>1. row \in incidents'
    BY DEF OpenRecallIncident
  <1>2. row.incident = c.inc
    OBVIOUS
  <1> HIDE DEF row
  <1> QED
    BY <1>1, <1>2 DEF IncidentExists

LEMMA OpeningFingerprint ==
    ASSUME NEW c \in Commands, c.type = "OPEN_RECALL_INCIDENT"
    PROVE  /\ RequestFingerprint(c).inc = c.inc
           /\ RequestFingerprint(c).body = c.body
  BY DEF RequestFingerprint

LEMMA OpenedOnceStep ==
    ASSUME TypeOK, OpenedOnce, [Next]_vars
    PROVE  OpenedOnce'
  <1>1. CASE UNCHANGED receipts
    BY <1>1, IncidentsKept DEF OpenedOnce
  <1>2. ASSUME NEW c \in Commands, Execute(c)
        PROVE  OpenedOnce'
    <2>1. PICK status, rev :
             /\ receipts' = receipts \cup {Receipt(c, status, rev)}
             /\ status = "DENIED" \/ c.type # "OPEN_RECALL_INCIDENT"
                   \/ OpenRecallIncident(c)
      BY <1>2, OpeningsStep
    <2> DEFINE new == Receipt(c, status, rev)
    <2>2. /\ new.status = status /\ new.type = c.type
          /\ new.fp = RequestFingerprint(c)
      BY DEF Receipt
    <2> HIDE DEF new
    <2>3. Opening(new) => OpenRecallIncident(c) /\ new.fp.inc = c.inc
      BY <2>1, <2>2, OpeningFingerprint DEF Opening
    <2>4. receipts' = receipts \cup {new}
      BY <2>1 DEF new
    <2>5. Opening(new) => ~IncidentExists(c.inc) /\ IncidentExists(c.inc)'
      BY <2>3, OpeningAddsIncident DEF OpenRecallIncident
    <2>6. ASSUME NEW x \in receipts', NEW y \in receipts',
                 Opening(x), Opening(y), x.fp.inc = y.fp.inc
          PROVE  x = y
      BY <2>3, <2>4, <2>5, <2>6 DEF OpenedOnce
    <2>7. ASSUME NEW x \in receipts', Opening(x)
          PROVE  IncidentExists(x.fp.inc)'
      BY <2>3, <2>4, <2>5, <2>7, IncidentsKept DEF OpenedOnce
    <2> QED
      BY <2>6, <2>7 DEF OpenedOnce
  <1> QED
    BY <1>1, <1>2 DEF Next, Tick, vars

LEMMA OpenedOnceInvariant == Spec => []OpenedOnce
  <1>1. Init => OpenedOnce
    BY DEF Init, OpenedOnce
  <1> QED
    BY <1>1, OpenedOnceStep, TypeCorrect, PTL DEF Spec

-----------------------------------------------------------------------------
(* The runs *)

IsRun(r) ==
    r = [notice |-> r.notice, trace |-> r.trace, rev |-> r.rev, step |-> r.step,
         plan |-> r.plan, recovery |-> r.recovery, site |-> r.site,
         cases |-> r.cases]

(* A run past the opening holds the receipt of the opening, in its own trace. *)
OpenedItself(r) ==
    \E x \in receipts : /\ Opening(x) /\ x.fp.inc = r.notice.incident
                        /\ x.fp.body.armor = r.trace

RunsInv ==
    /\ \A r \in runs : IsRun(r) /\ r.trace \in delivered
    /\ \A r, s \in runs : r.trace = s.trace => r = s
    /\ \A r \in runs : Mutating(r) => OpenedItself(r)

(* Two runs that both opened one incident share a receipt, hence a trace. *)
LEMMA OneOpenedIt ==
    ASSUME OpenedOnce, RunsInv
    PROVE  OneWriterPerRecall
  <1> SUFFICES ASSUME NEW r \in runs, NEW s \in runs, Mutating(r), Mutating(s),
                      r.notice.incident = s.notice.incident
               PROVE  r = s
    BY DEF OneWriterPerRecall
  <1>1. PICK x \in receipts : /\ Opening(x) /\ x.fp.inc = r.notice.incident
                              /\ x.fp.body.armor = r.trace
    BY DEF RunsInv, OpenedItself
  <1>2. PICK y \in receipts : /\ Opening(y) /\ y.fp.inc = s.notice.incident
                              /\ y.fp.body.armor = s.trace
    BY DEF RunsInv, OpenedItself
  <1>3. x = y
    BY <1>1, <1>2 DEF OpenedOnce
  <1> QED
    BY <1>1, <1>2, <1>3 DEF RunsInv

(* How a step of a run leaves the runs and the tasks: the run has ended, has read
   its inputs, has its ledger call answered, or has its deadline task. *)
Goes(r, next) ==
    /\ IsRun(next) /\ next.notice = r.notice /\ next.trace = r.trace
    /\ runs' = (runs \ {r}) \cup {next}
TaskScheduled(r) ==
    tasks' = Enqueued("ack-" \o r.trace, r.trace, r.notice.incident,
                      r.notice.lot, r.site, r.cases)

RunEnded(r) == runs' = runs \ {r} /\ (tasks' = tasks \/ TaskScheduled(r))
RunRead(r, next) ==
    /\ Goes(r, next) /\ r.step \in {"READ", "CUSTODY"}
    /\ next.step \in {"CUSTODY", "OPEN"} /\ tasks' = tasks
RunAnswered(r, next) ==
    /\ Goes(r, next) /\ r.step \in LedgerSteps \ {"TERMINAL"}
    /\ next.step = NextStep[r.step] /\ tasks' = tasks
    /\ Answered(SagaCommand(r))
    /\ Succeeded(SagaCommand(r)) \/ r.step = "REFUSE"
RunScheduled(r, next) ==
    /\ Goes(r, next) /\ r.step = "TASK" /\ next.step = "TERMINAL"
    /\ TaskScheduled(r)
RunWent(r) ==
    /\ delivered' = delivered
    /\ \/ RunEnded(r)
       \/ \E next : RunRead(r, next) \/ RunAnswered(r, next) \/ RunScheduled(r, next)

LEMMA ReceiptsGrow ==
    ASSUME [Next]_vars
    PROVE  receipts \subseteq receipts'
  <1>1. ASSUME NEW c \in Commands, Execute(c)
        PROVE  receipts \subseteq receipts'
    BY <1>1, OpeningsStep
  <1> QED
    BY <1>1 DEF Next, Tick, vars

(* An answered opening is the run's own: its fingerprint carries the trace. *)
LEMMA AnsweredOpening ==
    ASSUME TypeOK, ReceiptsInv, NEW r \in runs, r.step = "OPEN",
           Answered(SagaCommand(r)), Succeeded(SagaCommand(r))
    PROVE  OpenedItself(r)'
  <1> DEFINE c == SagaCommand(r)
  <1>1. /\ c.type = "OPEN_RECALL_INCIDENT" /\ c.inc = r.notice.incident
        /\ c.body.armor = r.trace
    BY DEF SagaCommand, CoordinatorCall, SagaCall
  <1>2. c \in Commands /\ Answered(c) /\ Succeeded(c)
    BY DEF Answered
  <1> HIDE DEF c
  <1>3. PICK x \in receipts' : x.status = "SUCCESS" /\ ReceiptOf(x, c)
    BY <1>1, <1>2, AnsweredHasReceipt
  <1> QED
    BY <1>1, <1>2, <1>3, OpeningFingerprint DEF OpenedItself, Opening, ReceiptOf

(* A change of the fields that a step writes leaves a run of the same delivery. *)
SameRun(q, r) ==
    IsRun(q) /\ q.notice = r.notice /\ q.trace = r.trace /\ q.step = r.step

LEMMA RunChanged ==
    ASSUME NEW r, IsRun(r), NEW v
    PROVE  /\ SameRun([r EXCEPT !.plan = v], r)
           /\ SameRun([r EXCEPT !.recovery = v], r)
           /\ SameRun([r EXCEPT !.site = v], r)
           /\ SameRun([r EXCEPT !.cases = v], r)
           /\ IsRun([r EXCEPT !.step = v])
           /\ [r EXCEPT !.step = v].notice = r.notice
           /\ [r EXCEPT !.step = v].trace = r.trace
           /\ [r EXCEPT !.step = v].step = v
  <1>1. SameRun([r EXCEPT !.plan = v], r)
    BY DEF IsRun, SameRun
  <1>2. SameRun([r EXCEPT !.recovery = v], r)
    BY DEF IsRun, SameRun
  <1>3. SameRun([r EXCEPT !.site = v], r)
    BY DEF IsRun, SameRun
  <1>4. SameRun([r EXCEPT !.cases = v], r)
    BY DEF IsRun, SameRun
  <1>5. /\ IsRun([r EXCEPT !.step = v])
        /\ [r EXCEPT !.step = v].notice = r.notice
        /\ [r EXCEPT !.step = v].trace = r.trace
        /\ [r EXCEPT !.step = v].step = v
    BY DEF IsRun
  <1> QED
    BY <1>1, <1>2, <1>3, <1>4, <1>5

LEMMA AdvanceGoes ==
    ASSUME NEW r, IsRun(r), Advance(r), r.step \in LedgerSteps \cup {"TASK"}
    PROVE  \/ runs' = runs \ {r}
           \/ /\ r.step # "TERMINAL"
              /\ \E next : Goes(r, next) /\ next.step = NextStep[r.step]
  <1>1. CASE r.step = "TERMINAL"
    BY <1>1 DEF Advance, NextStep
  <1>2. CASE r.step # "TERMINAL"
    <2> DEFINE next == [r EXCEPT !.step = NextStep[r.step]]
    <2>1. IsRun(next) /\ next.notice = r.notice /\ next.trace = r.trace
          /\ next.step = NextStep[r.step]
      BY DEF IsRun
    <2>2. runs' = (runs \ {r}) \cup {next}
      BY <1>2 DEF Advance, Moved, NextStep, LedgerSteps
    <2> HIDE DEF next
    <2> QED
      BY <1>2, <2>1, <2>2 DEF Goes
  <1> QED
    BY <1>1, <1>2

LEMMA RunStepWent ==
    ASSUME NEW r, IsRun(r), RunStep(r)
    PROVE  RunWent(r)
  <1>1. CASE ReadInputs(r)
    <2>1. PICK plan, recovery :
             runs' = (runs \ {r}) \cup {[r EXCEPT !.step = "CUSTODY", !.plan = plan,
                                                !.recovery = recovery]}
      BY <1>1 DEF ReadInputs, Moved
    <2> DEFINE next == [r EXCEPT !.step = "CUSTODY", !.plan = plan,
                                 !.recovery = recovery]
    <2>2. /\ IsRun(next) /\ next.notice = r.notice /\ next.trace = r.trace
          /\ next.step = "CUSTODY"
      <3> DEFINE one == [r EXCEPT !.step = "CUSTODY"]
                 two == [one EXCEPT !.plan = plan]
      <3>1. next = [two EXCEPT !.recovery = recovery]
        OBVIOUS
      <3>2. /\ IsRun(one) /\ one.notice = r.notice /\ one.trace = r.trace
            /\ one.step = "CUSTODY"
        BY RunChanged
      <3> HIDE DEF one, next
      <3>3. SameRun(two, one)
        BY <3>2, RunChanged
      <3> HIDE DEF two
      <3>4. IsRun(two)
        BY <3>3 DEF SameRun
      <3>5. SameRun([two EXCEPT !.recovery = recovery], two)
        BY <3>4, RunChanged
      <3> QED
        BY <3>1, <3>2, <3>3, <3>5 DEF SameRun
    <2>3. /\ runs' = (runs \ {r}) \cup {next}
          /\ delivered' = delivered /\ tasks' = tasks /\ r.step = "READ"
      BY <1>1, <2>1 DEF ReadInputs
    <2> HIDE DEF next
    <2> QED
      BY <2>2, <2>3 DEF Goes, RunRead, RunWent
  <1>2. CASE ReadCustody(r)
    <2>1. PICK n \in nodes :
             runs' = (runs \ {r}) \cup {[r EXCEPT !.step = "OPEN", !.site = n.node,
                                                !.cases = n.cases]}
      BY <1>2 DEF ReadCustody, Moved
    <2> DEFINE next == [r EXCEPT !.step = "OPEN", !.site = n.node, !.cases = n.cases]
    <2>2. /\ IsRun(next) /\ next.notice = r.notice /\ next.trace = r.trace
          /\ next.step = "OPEN"
      <3> DEFINE one == [r EXCEPT !.step = "OPEN"]
                 two == [one EXCEPT !.site = n.node]
      <3>1. next = [two EXCEPT !.cases = n.cases]
        OBVIOUS
      <3>2. /\ IsRun(one) /\ one.notice = r.notice /\ one.trace = r.trace
            /\ one.step = "OPEN"
        BY RunChanged
      <3> HIDE DEF one, next
      <3>3. SameRun(two, one)
        BY <3>2, RunChanged
      <3> HIDE DEF two
      <3>4. IsRun(two)
        BY <3>3 DEF SameRun
      <3>5. SameRun([two EXCEPT !.cases = n.cases], two)
        BY <3>4, RunChanged
      <3> QED
        BY <3>1, <3>2, <3>3, <3>5 DEF SameRun
    <2>3. /\ runs' = (runs \ {r}) \cup {next}
          /\ delivered' = delivered /\ tasks' = tasks /\ r.step = "CUSTODY"
      BY <1>2, <2>1 DEF ReadCustody
    <2> HIDE DEF next
    <2> QED
      BY <2>2, <2>3 DEF Goes, RunRead, RunWent
  <1>3. CASE CallLedger(r)
    <2>1. /\ delivered' = delivered /\ tasks' = tasks /\ r.step \in LedgerSteps
          /\ Answered(SagaCommand(r))
      BY <1>3 DEF CallLedger
    <2>2. CASE Ends(r)
      BY <2>1, <2>2 DEF Ends, RunEnded, RunWent
    <2>3. CASE Advance(r) /\ (Succeeded(SagaCommand(r)) \/ r.step = "REFUSE")
      BY <2>1, <2>3, AdvanceGoes DEF RunEnded, RunAnswered, RunWent
    <2> QED
      BY <1>3, <2>2, <2>3 DEF CallLedger
  <1>4. CASE ScheduleTask(r)
    <2>1. delivered' = delivered /\ TaskScheduled(r) /\ r.step = "TASK"
      BY <1>4 DEF ScheduleTask, TaskScheduled
    <2>2. CASE Ends(r)
      BY <2>1, <2>2 DEF Ends, RunEnded, RunWent
    <2>3. CASE Advance(r)
      <3>1. NextStep[r.step] = "TERMINAL"
        BY <2>1 DEF NextStep
      <3> QED
        BY <2>1, <2>3, <3>1, AdvanceGoes DEF RunEnded, RunScheduled, RunWent
    <2> QED
      BY <1>4, <2>2, <2>3 DEF ScheduleTask
  <1>5. CASE HaltForReview(r) \/ HaltUnavailable(r) \/ LoseAnswer(r) \/ Fail(r)
    BY <1>5 DEF HaltForReview, HaltUnavailable, LoseAnswer, Fail, Ends,
                RunEnded, RunWent
  <1> QED
    BY <1>1, <1>2, <1>3, <1>4, <1>5 DEF RunStep

(* A run that goes on was past the opening, or has just opened the incident. *)
LEMMA MutatingOpened ==
    ASSUME TypeOK, ReceiptsInv, NEW r \in runs, NEW next, Mutating(next),
           RunRead(r, next) \/ RunAnswered(r, next) \/ RunScheduled(r, next)
    PROVE  Mutating(r) \/ OpenedItself(r)'
  <1>1. CASE r.step = "OPEN"
    BY <1>1, AnsweredOpening DEF RunRead, RunAnswered, RunScheduled, Mutating, LedgerSteps
  <1>2. CASE r.step # "OPEN"
    BY <1>2 DEF RunRead, RunAnswered, RunScheduled, Mutating, LedgerSteps
  <1> QED
    BY <1>1, <1>2

LEMMA RunsInvStep ==
    ASSUME TypeOK, RunsInv, ReceiptsInv, [RecallNext]_recallRunVars
    PROVE  RunsInv'
  <1>1. receipts \subseteq receipts'
    BY RecallStepIsLedgerStep, ReceiptsGrow
  <1>2. \A r : OpenedItself(r) => OpenedItself(r)'
    BY <1>1 DEF OpenedItself
  <1>3. CASE runs' = runs /\ delivered \subseteq delivered'
    BY <1>2, <1>3 DEF RunsInv
  <1>4. ASSUME NEW n \in Notices, NEW t \in Traces, Deliver(n, t)
        PROVE  RunsInv'
    <2>1. PICK rev : /\ runs' = runs \cup {NewRun(n, t, rev)}
                     /\ delivered' = delivered \cup {t} /\ t \notin delivered
      BY <1>4 DEF Deliver
    <2> DEFINE new == NewRun(n, t, rev)
    <2>2. IsRun(new) /\ new.trace = t /\ ~Mutating(new)
      BY DEF NewRun, IsRun, Mutating, LedgerSteps
    <2> HIDE DEF new
    <2>3. runs' = runs \cup {new}
      BY <2>1 DEF new
    <2> QED
      BY <1>2, <2>1, <2>2, <2>3 DEF RunsInv
  <1>5. ASSUME NEW r \in runs, RunStep(r)
        PROVE  RunsInv'
    <2>1. RunWent(r)
      BY <1>5, RunStepWent DEF RunsInv
    <2>2. CASE RunEnded(r)
      BY <1>2, <2>1, <2>2 DEF RunWent, RunEnded, RunsInv
    <2>3. ASSUME NEW next,
                 RunRead(r, next) \/ RunAnswered(r, next) \/ RunScheduled(r, next)
          PROVE  RunsInv'
      <3>1. Goes(r, next) /\ delivered' = delivered
        BY <2>1, <2>3 DEF RunWent, RunRead, RunAnswered, RunScheduled
      <3>2. \A q \in runs' : IsRun(q) /\ q.trace \in delivered'
        BY <3>1 DEF RunsInv, Goes
      <3>3. \A q, s \in runs' : q.trace = s.trace => q = s
        BY <3>1 DEF RunsInv, Goes
      <3>4. Mutating(next) => OpenedItself(next)'
        BY <1>2, <2>3, <3>1, MutatingOpened DEF RunsInv, Goes, OpenedItself
      <3>5. \A q \in runs' : Mutating(q) => OpenedItself(q)'
        BY <1>2, <3>1, <3>4 DEF RunsInv, Goes
      <3> QED
        BY <3>2, <3>3, <3>5 DEF RunsInv
    <2> QED
      BY <2>1, <2>2, <2>3 DEF RunWent
  <1>6. CASE UNCHANGED recallRunVars
    BY <1>3, <1>6 DEF recallRunVars, orchestratorVars
  <1>7. ASSUME NEW n \in Notices, NEW t \in Traces,
               RejectDelivery(n, t) \/ RejectStale(n, t)
        PROVE  RunsInv'
    BY <1>3, <1>7 DEF RejectDelivery, RejectStale
  <1>8. ASSUME NEW id, AnswerTask(id) \/ LoseTaskAnswer(id)
        PROVE  RunsInv'
    BY <1>3, <1>8 DEF AnswerTask, LoseTaskAnswer, orchestratorVars
  <1>9. ASSUME NEW t, Escalate(t)
        PROVE  RunsInv'
    BY <1>3, <1>9 DEF Escalate
  <1>10. ASSUME NEW c, OtherCaller(c)
         PROVE  RunsInv'
    BY <1>3, <1>10 DEF OtherCaller, orchestratorVars
  <1>11. CASE Midnight
    BY <1>3, <1>11 DEF Midnight
  <1> QED
    BY <1>4, <1>5, <1>6, <1>7, <1>8, <1>9, <1>10, <1>11 DEF RecallNext

LEMMA RunsInvariant == RecallSpec => [](TypeOK /\ ReceiptsInv /\ RunsInv)
  <1>1. RecallInit => RunsInv
    BY DEF RecallInit, RunsInv
  <1>2. TypeOK /\ ReceiptsInv /\ RunsInv /\ [RecallNext]_recallRunVars => RunsInv'
    BY RunsInvStep
  <1>3. RecallSpec => [](TypeOK /\ ReceiptsInv)
    BY RecallUsesLedger, TypeCorrect, ReceiptsInvariant, PTL
  <1> QED
    BY <1>1, <1>2, <1>3, PTL DEF RecallSpec

(* However often a recall notice is redelivered, by whomever it is published
   again, and wherever a run before it broke off: one run at most writes a
   recall. *)
THEOREM OneWriter == RecallSpec => []OneWriterPerRecall
  <1>1. OpenedOnce /\ RunsInv => OneWriterPerRecall
    BY OneOpenedIt
  <1>2. RecallSpec => []OpenedOnce
    BY RecallUsesLedger, OpenedOnceInvariant, PTL
  <1> QED
    BY <1>1, <1>2, RunsInvariant, PTL

-----------------------------------------------------------------------------
(* The tasks *)

IsTask(t) ==
    t = [id |-> t.id, trace |-> t.trace, incident |-> t.incident, hold |-> t.hold,
         lot |-> t.lot, site |-> t.site, cases |-> t.cases, answered |-> t.answered]
TasksAreNamed ==
    /\ delivered \subseteq Traces
    /\ \A t \in tasks : /\ IsTask(t)
                        /\ \E u \in delivered : t.id \in {"ack-" \o u, "site01-" \o u}

(* The recall inc of the lot has a deadline task. *)
Tasked(inc, lot) == \E t \in tasks : t.incident = inc /\ t.lot = lot

(* A task stays, answered or not, and a new one has the name id. *)
TasksKept ==
    \A t \in tasks : \E u \in tasks' : u.incident = t.incident /\ u.lot = t.lot
TasksNew(id) ==
    \A u \in tasks' : IsTask(u) /\ (u.id = id \/ \E t \in tasks : t.id = u.id)

LEMMA EnqueuedTasks ==
    ASSUME \A t \in tasks : IsTask(t),
           NEW id, NEW tr, NEW inc, NEW lot, NEW site, NEW cases,
           tasks' = Enqueued(id, tr, inc, lot, site, cases)
    PROVE  /\ TasksKept /\ TasksNew(id)
           /\ (\A t \in tasks : t.id # id) => Tasked(inc, lot)'
  <1> DEFINE new == [id |-> id, trace |-> tr, incident |-> inc,
                     hold |-> HoldId(inc, site), lot |-> lot, site |-> site,
                     cases |-> cases, answered |-> FALSE]
  <1>1. IsTask(new) /\ new.id = id /\ new.incident = inc /\ new.lot = lot
    BY DEF IsTask
  <1>2. \/ (\E t \in tasks : t.id = id) /\ tasks' = tasks
        \/ (\A t \in tasks : t.id # id) /\ tasks' = tasks \cup {new}
    BY DEF Enqueued
  <1> HIDE DEF new
  <1> QED
    BY <1>1, <1>2 DEF TasksKept, TasksNew, Tasked

LEMMA TaskChanged ==
    ASSUME NEW t, IsTask(t), NEW v
    PROVE  /\ IsTask([t EXCEPT !.answered = v])
           /\ [t EXCEPT !.answered = v].id = t.id
           /\ [t EXCEPT !.answered = v].incident = t.incident
           /\ [t EXCEPT !.answered = v].lot = t.lot
  BY DEF IsTask

LEMMA AnsweredTasks ==
    ASSUME \A t \in tasks : IsTask(t), NEW id, AnswerTask(id)
    PROVE  TasksKept /\ TasksNew(id)
  <1>1. PICK t \in tasks : t.id = id /\ Answer(t)
    BY DEF AnswerTask
  <1> DEFINE new == [t EXCEPT !.answered = TRUE]
  <1>2. IsTask(new) /\ new.id = t.id /\ new.incident = t.incident /\ new.lot = t.lot
    BY TaskChanged
  <1>3. tasks' = (tasks \ {t}) \cup {new}
    BY <1>1 DEF Answer
  <1> HIDE DEF new
  <1> QED
    BY <1>1, <1>2, <1>3 DEF TasksKept, TasksNew

(* What a step does to the tasks. *)
TasksWent ==
    /\ TasksKept /\ delivered \subseteq delivered'
    /\ \/ tasks' = tasks
       \/ \E r \in runs : TasksNew("ack-" \o r.trace) /\ RunWent(r)
       \/ \E t \in Traces :
             TasksNew("site01-" \o t) /\ t \in delivered' /\ runs' = runs
       \/ \E id : TasksNew(id) /\ (\E t \in tasks : t.id = id) /\ runs' = runs

LEMMA TasksStep ==
    ASSUME TasksAreNamed, RunsInv, [RecallNext]_recallRunVars
    PROVE  TasksWent
  <1>1. \A t \in tasks : IsTask(t)
    BY DEF TasksAreNamed
  <1>2. CASE tasks' = tasks /\ delivered \subseteq delivered'
    BY <1>2 DEF TasksKept, TasksWent
  <1>3. ASSUME NEW r \in runs, RunStep(r)
        PROVE  TasksWent
    <2>1. RunWent(r)
      BY <1>3, RunStepWent DEF RunsInv
    <2>2. CASE tasks' = tasks
      BY <1>2, <2>1, <2>2 DEF RunWent
    <2>3. CASE TaskScheduled(r)
      BY <1>1, <2>1, <2>3, EnqueuedTasks DEF TaskScheduled, RunWent, TasksWent
    <2> QED
      BY <2>1, <2>2, <2>3
      DEF RunWent, RunEnded, RunRead, RunAnswered, RunScheduled
  <1>4. ASSUME NEW id, AnswerTask(id)
        PROVE  TasksWent
    <2>1. TasksKept /\ TasksNew(id)
      BY <1>1, <1>4, AnsweredTasks
    <2>2. (\E t \in tasks : t.id = id) /\ delivered' = delivered /\ runs' = runs
      BY <1>4 DEF AnswerTask
    <2> QED
      BY <2>1, <2>2 DEF TasksWent
  <1>5. ASSUME NEW t \in Traces, Escalate(t)
        PROVE  TasksWent
    <2>1. TasksKept /\ TasksNew("site01-" \o t)
      BY <1>1, <1>5, EnqueuedTasks DEF Escalate
    <2>2. delivered' = delivered \cup {t} /\ runs' = runs
      BY <1>5 DEF Escalate
    <2> QED
      BY <2>1, <2>2 DEF TasksWent
  <1>6. ASSUME NEW n \in Notices, NEW t \in Traces,
               Deliver(n, t) \/ RejectDelivery(n, t) \/ RejectStale(n, t)
        PROVE  tasks' = tasks /\ delivered \subseteq delivered'
    BY <1>6 DEF Deliver, RejectDelivery, RejectStale
  <1>7. ASSUME NEW id, LoseTaskAnswer(id)
        PROVE  tasks' = tasks /\ delivered' = delivered
    BY <1>7 DEF LoseTaskAnswer, orchestratorVars
  <1>8. ASSUME NEW c, OtherCaller(c)
        PROVE  tasks' = tasks /\ delivered' = delivered
    BY <1>8 DEF OtherCaller, orchestratorVars
  <1>9. CASE Midnight \/ UNCHANGED recallRunVars
    BY <1>2, <1>9 DEF Midnight, recallRunVars, orchestratorVars
  <1> QED
    BY <1>2, <1>3, <1>4, <1>5, <1>6, <1>7, <1>8, <1>9 DEF RecallNext

LEMMA TasksNamedStep ==
    ASSUME TasksAreNamed, RunsInv, [RecallNext]_recallRunVars
    PROVE  TasksAreNamed'
  <1>1. delivered' \subseteq Traces
    <2>1. CASE delivered' = delivered
      BY <2>1 DEF TasksAreNamed
    <2>2. ASSUME NEW t \in Traces, delivered' = delivered \cup {t}
          PROVE  delivered' \subseteq Traces
      BY <2>2 DEF TasksAreNamed
    <2>3. ASSUME NEW r \in runs, RunStep(r)
          PROVE  delivered' = delivered
      BY <2>3, RunStepWent DEF RunsInv, RunWent
    <2> QED
      BY <2>1, <2>2, <2>3
      DEF RecallNext, Deliver, RejectDelivery, RejectStale, AnswerTask,
          LoseTaskAnswer, Escalate, OtherCaller, Midnight, recallRunVars,
          orchestratorVars
  <1>2. /\ delivered \subseteq delivered'
        /\ \/ tasks' = tasks
           \/ \E u \in delivered' : TasksNew("ack-" \o u) \/ TasksNew("site01-" \o u)
           \/ \E id : TasksNew(id) /\ \E t \in tasks : t.id = id
    BY TasksStep DEF RunsInv, TasksWent, RunWent
  <1>3. CASE tasks' = tasks
    BY <1>1, <1>2, <1>3 DEF TasksAreNamed
  <1>4. ASSUME NEW id, TasksNew(id),
               \/ \E u \in delivered' : id \in {"ack-" \o u, "site01-" \o u}
               \/ \E t \in tasks : t.id = id
        PROVE  TasksAreNamed'
    BY <1>1, <1>2, <1>4 DEF TasksAreNamed, TasksNew, IsTask
  <1> QED
    BY <1>2, <1>3, <1>4

-----------------------------------------------------------------------------
(* What a run has done by the step it is at, and the status it may claim *)

(* Incident inc is a recall of the lot; its barrier and its safe recovery are
   there; a recall has invalidated the plan. *)
OfLot(inc, lot) ==
    /\ IncidentExists(inc)
    /\ \A x \in incidents :
          x.incident = inc /\ x.type = "FOOD_SAFETY_RECALL" => x.lot = lot
Barred(inc, lot) == \E b \in barriers : b.incident = inc /\ b.lot = lot
Recovered(inc) ==
    \E x \in receipts : /\ x.key = inc \o ":" \o "safe-recovery"
                        /\ x.status = "SUCCESS"
PlanDown == \E i \in DOMAIN plans : plans[i].status = "INVALIDATED_RECALL"

AfterRecovery == {"REFUSE", "TASK", "TERMINAL"}
AfterInvalidation == AfterRecovery \cup {"RECOVER"}
AfterBarrier == AfterInvalidation \cup {"CONTAINMENT", "INVALIDATE"}

Way(r) ==
    LET inc == r.notice.incident
        lot == r.notice.lot
    IN  /\ Mutating(r) => OfLot(inc, lot)
        /\ r.step \in AfterBarrier => Barred(inc, lot)
        /\ r.step \in AfterInvalidation => PlanDown
        /\ r.step \in AfterRecovery => Recovered(inc)
        /\ r.step = "TERMINAL" => Tasked(inc, lot)

(* The run's task is its own: no task has its name before its TASK step. *)
TaskToCome(r) == r.step # "TERMINAL" => \A t \in tasks : t.id # "ack-" \o r.trace

StatusIsBacked ==
    \A x \in incidents :
        /\ RecallReaches(x, 3) => Barred(x.incident, x.lot)
        /\ RecallReaches(x, 4) =>
              Tasked(x.incident, x.lot) /\ Recovered(x.incident) /\ PlanDown

RunsOnTheWay == \A r \in runs : Way(r) /\ TaskToCome(r)

(* Every revision but a draft is of a plan that a command saved. *)
PlansAreSaved ==
    \A i \in DOMAIN plans : plans[i].status # "DRAFT_WITH_CONSTRAINTS" =>
        \E c \in Commands :
            c.type = "SAVE_PLAN_REVISION" /\ plans[i].plan = c.body.plan

LEMMA DoneIsKept ==
    ASSUME TypeOK, RunsInv, TasksAreNamed, [RecallNext]_recallRunVars,
           NEW inc, NEW lot
    PROVE  /\ OfLot(inc, lot) => OfLot(inc, lot)'
           /\ Barred(inc, lot) => Barred(inc, lot)'
           /\ Recovered(inc) => Recovered(inc)'
           /\ Tasked(inc, lot) => Tasked(inc, lot)'
           /\ PlanDown => PlanDown'
  <1>1. [Next]_vars
    BY RecallStepIsLedgerStep
  <1>2. OfLot(inc, lot) => OfLot(inc, lot)'
    <2> DEFINE c == [inc |-> inc, body |-> [lot |-> lot]]
    <2>1. c.inc = inc /\ c.body.lot = lot
      OBVIOUS
    <2> HIDE DEF c
    <2> QED
      BY <1>1, <2>1, RecallIsOfLotKept DEF OfLot, RecallIsOfLot
  <1>3. Barred(inc, lot) => Barred(inc, lot)'
    BY <1>1, BarriersKept DEF Barred
  <1>4. Recovered(inc) => Recovered(inc)'
    BY <1>1, ReceiptsGrow DEF Recovered
  <1>5. Tasked(inc, lot) => Tasked(inc, lot)'
    BY TasksStep DEF TasksWent, TasksKept, Tasked
  <1>6. PlanDown => PlanDown'
    BY <1>1, PlansKept DEF PlanDown
  <1> QED
    BY <1>2, <1>3, <1>4, <1>5, <1>6

(* What the saga's calls are, as far as the status and its grounds go. *)
LEMMA SagaCommandTells ==
    ASSUME NEW r, r.step \in LedgerSteps
    PROVE  LET c == SagaCommand(r) IN
           /\ c.inc = r.notice.incident /\ c.type # "PROCESS_PARTNER_EVIDENCE"
           /\ r.step = "OPEN" =>
                 c.type = "OPEN_RECALL_INCIDENT" /\ c.body.lot = r.notice.lot
           /\ r.step = "BARRIER" =>
                 c.type = "ACTIVATE_MOVEMENT_BARRIER" /\ c.body.lot = r.notice.lot
           /\ r.step = "INVALIDATE" => c.type = "INVALIDATE_PLAN"
           /\ r.step = "RECOVER" =>
                 c.key = r.notice.incident \o ":" \o "safe-recovery"
           /\ c.type = "SET_INCIDENT_STATUS" =>
                 <<r.step, c.body.new>> \in {<<"SCOPING", "SCOPING">>,
                                             <<"CONTAINMENT", "CONTAINMENT_IN_PROGRESS">>,
                                             <<"TERMINAL", "PARTIALLY_CONTAINED">>}
  <1>1. CASE r.step = "OPEN"
    BY <1>1 DEF SagaCommand, CoordinatorCall, SagaCall
  <1>2. CASE r.step \in {"SCOPING", "CONTAINMENT", "TERMINAL"}
    BY <1>2 DEF SagaCommand, StatusCall, CoordinatorCall, SagaCall
  <1>3. CASE r.step = "BARRIER"
    BY <1>3 DEF SagaCommand, CoordinatorCall, SagaCall
  <1>4. CASE r.step \in {"INVALIDATE", "RECOVER", "REFUSE"}
    BY <1>4 DEF SagaCommand, CoordinatorCall, SagaCall
  <1> QED
    BY <1>1, <1>2, <1>3, <1>4 DEF LedgerSteps

(* An answered call has done what the next steps rest on. *)
LEMMA AnsweredGrounds ==
    ASSUME TypeOK, ReceiptsInv, NEW r, r.step \in LedgerSteps,
           Answered(SagaCommand(r)), Succeeded(SagaCommand(r))
    PROVE  /\ r.step = "OPEN" => OfLot(r.notice.incident, r.notice.lot)'
           /\ r.step = "BARRIER" => Barred(r.notice.incident, r.notice.lot)'
           /\ r.step = "INVALIDATE" => PlanDown'
           /\ r.step = "RECOVER" => Recovered(r.notice.incident)'
  <1> DEFINE c == SagaCommand(r)
  <1>1. /\ c.inc = r.notice.incident /\ c.type # "PROCESS_PARTNER_EVIDENCE"
        /\ r.step = "OPEN" =>
              c.type = "OPEN_RECALL_INCIDENT" /\ c.body.lot = r.notice.lot
        /\ r.step = "BARRIER" =>
              c.type = "ACTIVATE_MOVEMENT_BARRIER" /\ c.body.lot = r.notice.lot
        /\ r.step = "INVALIDATE" => c.type = "INVALIDATE_PLAN"
        /\ r.step = "RECOVER" => c.key = r.notice.incident \o ":" \o "safe-recovery"
    BY SagaCommandTells
  <1>2. Answered(c) /\ Succeeded(c)
    OBVIOUS
  <1> HIDE DEF c
  <1>3. Effect(c)'
    BY <1>1, <1>2, AnsweredTellsTheTruth
  <1>4. r.step = "OPEN" => RecallIsOfLot(c)'
    BY <1>1, <1>3 DEF Effect
  <1>5. r.step = "BARRIER" => BarrierStands(c)'
    BY <1>1, <1>3 DEF Effect
  <1>6. r.step = "INVALIDATE" => PlanIsDown(c)'
    BY <1>1, <1>3 DEF Effect
  <1>7. r.step = "OPEN" => OfLot(r.notice.incident, r.notice.lot)'
    BY <1>1, <1>4 DEF RecallIsOfLot, OfLot
  <1>8. r.step = "BARRIER" => Barred(r.notice.incident, r.notice.lot)'
    BY <1>1, <1>5 DEF BarrierStands, Barred
  <1>9. r.step = "INVALIDATE" => PlanDown'
    BY <1>6 DEF PlanIsDown, PlanDown
  <1>10. r.step = "RECOVER" => Recovered(r.notice.incident)'
    BY <1>1, <1>2 DEF Succeeded, Recovered
  <1> QED
    BY <1>7, <1>8, <1>9, <1>10

LEMMA AnsweredOnTheWay ==
    ASSUME TypeOK, ReceiptsInv, RunsInv, TasksAreNamed,
           [RecallNext]_recallRunVars, NEW r, Way(r), NEW next, RunAnswered(r, next)
    PROVE  Way(next)'
  <1> DEFINE inc == r.notice.incident
             lot == r.notice.lot
  <1>1. next.notice.incident = inc /\ next.notice.lot = lot
    BY DEF RunAnswered, Goes
  <1>2. r.step \in LedgerSteps \ {"TERMINAL"} /\ next.step = NextStep[r.step]
    BY DEF RunAnswered
  <1>3. r.step = "REFUSE" \/
           (/\ r.step = "OPEN" => OfLot(inc, lot)'
            /\ r.step = "BARRIER" => Barred(inc, lot)'
            /\ r.step = "INVALIDATE" => PlanDown'
            /\ r.step = "RECOVER" => Recovered(inc)')
    BY AnsweredGrounds DEF RunAnswered
  <1>4. /\ OfLot(inc, lot) => OfLot(inc, lot)'
        /\ Barred(inc, lot) => Barred(inc, lot)'
        /\ Recovered(inc) => Recovered(inc)'
        /\ PlanDown => PlanDown'
    BY DoneIsKept
  <1>5. /\ Mutating(r) => OfLot(inc, lot)
        /\ r.step \in AfterBarrier => Barred(inc, lot)
        /\ r.step \in AfterInvalidation => PlanDown
        /\ r.step \in AfterRecovery => Recovered(inc)
    BY DEF Way
  <1> HIDE DEF inc, lot
  <1>6. Mutating(next) => OfLot(inc, lot)'
    BY <1>2, <1>3, <1>4, <1>5 DEF Mutating, LedgerSteps
  <1>7. next.step \in AfterBarrier => Barred(inc, lot)'
    BY <1>2, <1>3, <1>4, <1>5
    DEF NextStep, LedgerSteps, AfterBarrier, AfterInvalidation, AfterRecovery
  <1>8. next.step \in AfterInvalidation => PlanDown'
    BY <1>2, <1>3, <1>4, <1>5 DEF NextStep, LedgerSteps, AfterInvalidation, AfterRecovery
  <1>9. next.step \in AfterRecovery => Recovered(inc)'
    BY <1>2, <1>3, <1>4, <1>5 DEF NextStep, LedgerSteps, AfterRecovery
  <1>10. next.step # "TERMINAL"
    BY <1>2 DEF NextStep, LedgerSteps
  <1> QED
    BY <1>1, <1>6, <1>7, <1>8, <1>9, <1>10 DEF Way, Mutating

(* Where the task is scheduled, it is scheduled for the run's own recall. *)
LEMMA ScheduledOnTheWay ==
    ASSUME TypeOK, RunsInv, TasksAreNamed, [RecallNext]_recallRunVars,
           NEW r, Way(r), TaskToCome(r), NEW next, RunScheduled(r, next)
    PROVE  Way(next)'
  <1> DEFINE inc == r.notice.incident
             lot == r.notice.lot
  <1>1. next.notice.incident = inc /\ next.notice.lot = lot /\ next.step = "TERMINAL"
    BY DEF RunScheduled, Goes
  <1>2. OfLot(inc, lot) /\ Barred(inc, lot) /\ PlanDown /\ Recovered(inc)
    BY DEF RunScheduled, Way, Mutating, AfterBarrier, AfterInvalidation, AfterRecovery
  <1>3. OfLot(inc, lot)' /\ Barred(inc, lot)' /\ PlanDown' /\ Recovered(inc)'
    BY <1>2, DoneIsKept
  <1>4. Tasked(inc, lot)'
    <2>1. tasks' = Enqueued("ack-" \o r.trace, r.trace, inc, lot, r.site, r.cases)
      BY DEF RunScheduled, TaskScheduled
    <2>2. \A t \in tasks : IsTask(t)
      BY DEF TasksAreNamed
    <2>3. \A t \in tasks : t.id # "ack-" \o r.trace
      BY DEF RunScheduled, TaskToCome
    <2> HIDE DEF inc, lot
    <2> QED
      BY <2>1, <2>2, <2>3, EnqueuedTasks
  <1> HIDE DEF inc, lot
  <1> QED
    BY <1>1, <1>3, <1>4 DEF Way

(* A run that takes no step stays on its way. *)
LEMMA StaysOnTheWay ==
    ASSUME TypeOK, RunsInv, TasksAreNamed, [RecallNext]_recallRunVars, NEW r, Way(r)
    PROVE  Way(r)'
  <1>1. /\ OfLot(r.notice.incident, r.notice.lot)
              => OfLot(r.notice.incident, r.notice.lot)'
        /\ Barred(r.notice.incident, r.notice.lot)
              => Barred(r.notice.incident, r.notice.lot)'
        /\ Recovered(r.notice.incident) => Recovered(r.notice.incident)'
        /\ Tasked(r.notice.incident, r.notice.lot)
              => Tasked(r.notice.incident, r.notice.lot)'
        /\ PlanDown => PlanDown'
    BY DoneIsKept
  <1> QED
    BY <1>1 DEF Way, Mutating

LEMMA RunsStep ==
    ASSUME RunsInv, [RecallNext]_recallRunVars
    PROVE  \/ runs' = runs
           \/ /\ tasks' = tasks
              /\ \E n \in Notices, t \in Traces, rev \in {k.rev : k \in coordinators} :
                    runs' = runs \cup {NewRun(n, t, rev)} /\ t \notin delivered
           \/ \E r \in runs : RunWent(r)
  <1>1. ASSUME NEW n \in Notices, NEW t \in Traces, Deliver(n, t)
        PROVE  /\ tasks' = tasks /\ t \notin delivered
               /\ \E rev \in {k.rev : k \in coordinators} :
                     runs' = runs \cup {NewRun(n, t, rev)}
    BY <1>1 DEF Deliver, WaitingCoordinators
  <1>2. ASSUME NEW r \in runs, RunStep(r)
        PROVE  RunWent(r)
    BY <1>2, RunStepWent DEF RunsInv
  <1>3. ASSUME NEW n, NEW t, RejectDelivery(n, t) \/ RejectStale(n, t) \/ Escalate(t)
        PROVE  runs' = runs
    BY <1>3 DEF RejectDelivery, RejectStale, Escalate
  <1>4. ASSUME NEW id, AnswerTask(id) \/ LoseTaskAnswer(id)
        PROVE  runs' = runs
    BY <1>4 DEF AnswerTask, LoseTaskAnswer, orchestratorVars
  <1>5. ASSUME NEW c, OtherCaller(c)
        PROVE  runs' = runs
    BY <1>5 DEF OtherCaller, orchestratorVars
  <1>6. Midnight \/ UNCHANGED recallRunVars => runs' = runs
    BY DEF Midnight, recallRunVars, orchestratorVars
  <1> QED
    BY <1>1, <1>2, <1>3, <1>4, <1>5, <1>6 DEF RecallNext

LEMMA WayStep ==
    ASSUME TypeOK, ReceiptsInv, RunsInv, TasksAreNamed, RunsOnTheWay,
           [RecallNext]_recallRunVars
    PROVE  \A q \in runs' : Way(q)'
  <1>1. \A q \in runs : Way(q)'
    BY StaysOnTheWay DEF RunsOnTheWay
  <1>2. ASSUME NEW n, NEW t, NEW rev, runs' = runs \cup {NewRun(n, t, rev)}
        PROVE  \A q \in runs' : Way(q)'
    <2> DEFINE new == NewRun(n, t, rev)
    <2>1. new.step = "READ"
      BY DEF NewRun
    <2> HIDE DEF new
    <2>2. Way(new)'
      BY <2>1 DEF Way, Mutating, LedgerSteps, AfterBarrier, AfterInvalidation,
                  AfterRecovery
    <2> QED
      BY <1>1, <1>2, <2>2 DEF new
  <1>3. ASSUME NEW r \in runs, RunWent(r)
        PROVE  \A q \in runs' : Way(q)'
    <2>1. ASSUME NEW next, RunRead(r, next)
          PROVE  Way(next)'
      BY <2>1 DEF RunRead, Way, Mutating, LedgerSteps, AfterBarrier,
                  AfterInvalidation, AfterRecovery
    <2>2. ASSUME NEW next, RunAnswered(r, next)
          PROVE  Way(next)'
      BY <2>2, AnsweredOnTheWay DEF RunsOnTheWay
    <2>3. ASSUME NEW next, RunScheduled(r, next)
          PROVE  Way(next)'
      BY <2>3, ScheduledOnTheWay DEF RunsOnTheWay
    <2>4. CASE RunEnded(r)
      BY <1>1, <2>4 DEF RunEnded
    <2>5. ASSUME NEW next,
                 RunRead(r, next) \/ RunAnswered(r, next) \/ RunScheduled(r, next)
          PROVE  \A q \in runs' : Way(q)'
      <3>1. Way(next)'
        BY <2>1, <2>2, <2>3, <2>5
      <3>2. runs' = (runs \ {r}) \cup {next}
        BY <2>5 DEF RunRead, RunAnswered, RunScheduled, Goes
      <3> QED
        BY <1>1, <3>1, <3>2
    <2> QED
      BY <1>3, <2>4, <2>5 DEF RunWent
  <1> QED
    BY <1>1, <1>2, <1>3, RunsStep

(* A run's task is inserted by its own TASK step and by no other step. *)
LEMMA TaskToComeStep ==
    ASSUME RunsInv, TasksAreNamed, RunsOnTheWay, [RecallNext]_recallRunVars
    PROVE  \A q \in runs' : TaskToCome(q)'
  <1>1. CASE tasks' = tasks
    <2>1. ASSUME NEW n \in Notices, NEW t \in Traces, NEW rev, t \notin delivered,
                 runs' = runs \cup {NewRun(n, t, rev)}
          PROVE  \A q \in runs' : TaskToCome(q)'
      <3> DEFINE new == NewRun(n, t, rev)
      <3>1. new.trace = t
        BY DEF NewRun
      <3> HIDE DEF new
      <3>2. \A u \in tasks : u.id # "ack-" \o t
        BY <2>1, TaskNamesTell DEF TasksAreNamed
      <3>3. TaskToCome(new)'
        BY <1>1, <3>1, <3>2 DEF TaskToCome
      <3> QED
        BY <1>1, <2>1, <3>3 DEF new, RunsOnTheWay, TaskToCome
    <2>2. ASSUME NEW r \in runs, RunWent(r)
          PROVE  \A q \in runs' : TaskToCome(q)'
      <3>1. CASE RunEnded(r)
        BY <1>1, <3>1 DEF RunEnded, RunsOnTheWay, TaskToCome
      <3>2. ASSUME NEW next,
                   RunRead(r, next) \/ RunAnswered(r, next) \/ RunScheduled(r, next)
            PROVE  \A q \in runs' : TaskToCome(q)'
        <4>1. /\ next.trace = r.trace /\ runs' = (runs \ {r}) \cup {next}
              /\ r.step # "TERMINAL"
          BY <3>2 DEF RunRead, RunAnswered, RunScheduled, Goes
        <4> QED
          BY <1>1, <4>1 DEF RunsOnTheWay, TaskToCome
      <3> QED
        BY <2>2, <3>1, <3>2 DEF RunWent
    <2>3. CASE runs' = runs
      BY <1>1, <2>3 DEF RunsOnTheWay, TaskToCome
    <2> QED
      BY <2>1, <2>2, <2>3, RunsStep
  <1>2. ASSUME NEW r \in runs, TasksNew("ack-" \o r.trace), RunWent(r),
               tasks' # tasks
        PROVE  \A q \in runs' : TaskToCome(q)'
    <2>1. ASSUME NEW q \in runs, q # r
          PROVE  TaskToCome(q)'
      <3>1. /\ q.trace # r.trace /\ q.trace \in Traces /\ r.trace \in Traces
        BY <2>1 DEF RunsInv, TasksAreNamed
      <3>2. "ack-" \o q.trace # "ack-" \o r.trace
        BY <3>1, TaskNamesTell
      <3> QED
        BY <1>2, <3>2 DEF TasksNew, RunsOnTheWay, TaskToCome
    <2>2. \/ runs' = runs \ {r}
          \/ \E next : runs' = (runs \ {r}) \cup {next} /\ next.step = "TERMINAL"
      BY <1>2 DEF RunWent, RunEnded, RunRead, RunAnswered, RunScheduled, Goes
    <2>3. ASSUME NEW next, next.step = "TERMINAL"
          PROVE  TaskToCome(next)'
      BY <2>3 DEF TaskToCome
    <2> QED
      BY <2>1, <2>2, <2>3
  <1>3. ASSUME NEW t \in Traces, TasksNew("site01-" \o t), runs' = runs
        PROVE  \A q \in runs' : TaskToCome(q)'
    <2>1. ASSUME NEW q \in runs
          PROVE  TaskToCome(q)'
      <3>1. q.trace \in Traces
        BY DEF RunsInv, TasksAreNamed
      <3>2. "ack-" \o q.trace # "site01-" \o t
        BY <3>1, TaskNamesTell
      <3> QED
        BY <1>3, <3>2 DEF TasksNew, RunsOnTheWay, TaskToCome
    <2> QED
      BY <1>3, <2>1
  <1>4. ASSUME NEW id, TasksNew(id), \E t \in tasks : t.id = id, runs' = runs
        PROVE  \A q \in runs' : TaskToCome(q)'
    BY <1>4 DEF TasksNew, RunsOnTheWay, TaskToCome
  <1> QED
    BY <1>1, <1>2, <1>3, <1>4, TasksStep DEF TasksWent

(* Whose command a step executes. *)
LEMMA RecallCalls ==
    ASSUME [RecallNext]_recallRunVars
    PROVE  \/ UNCHANGED vars
           \/ \E c \in Commands :
                 /\ Execute(c)
                 /\ \/ c \in Offered
                    \/ c.type = "RECORD_ACKNOWLEDGMENT_HOLD"
                    \/ \E r \in runs : r.step \in LedgerSteps /\ c = SagaCommand(r)
  <1>1. \A c : Answered(c) => UNCHANGED vars \/ (c \in Commands /\ Execute(c))
    BY DEF Answered
  <1>2. ASSUME NEW n, NEW t, \/ Deliver(n, t) \/ RejectDelivery(n, t)
                             \/ RejectStale(n, t) \/ Escalate(t)
        PROVE  UNCHANGED vars
    BY <1>2 DEF Deliver, RejectDelivery, RejectStale, Escalate
  <1>3. ASSUME NEW r \in runs, RunStep(r)
        PROVE  \/ UNCHANGED vars
               \/ \E c \in Commands :
                     Execute(c) /\ r.step \in LedgerSteps /\ c = SagaCommand(r)
    <2>1. CASE CallLedger(r)
      BY <1>1, <2>1 DEF CallLedger
    <2>2. CASE LoseAnswer(r)
      BY <2>2 DEF LoseAnswer
    <2>3. CASE ReadInputs(r) \/ ReadCustody(r) \/ HaltForReview(r)
                  \/ HaltUnavailable(r) \/ ScheduleTask(r) \/ Fail(r)
      BY <2>3 DEF ReadInputs, ReadCustody, HaltForReview, HaltUnavailable,
                  ScheduleTask, Fail
    <2> QED
      BY <1>3, <2>1, <2>2, <2>3 DEF RunStep
  <1>4. ASSUME NEW id, AnswerTask(id) \/ LoseTaskAnswer(id)
        PROVE  \/ UNCHANGED vars
               \/ \E c \in Commands :
                     Execute(c) /\ c.type = "RECORD_ACKNOWLEDGMENT_HOLD"
    <2>1. PICK t \in tasks :
             \/ Answered(HoldCommand(t))
             \/ HoldCommand(t) \in Commands /\ Execute(HoldCommand(t))
      BY <1>4 DEF AnswerTask, LoseTaskAnswer
    <2>2. HoldCommand(t).type = "RECORD_ACKNOWLEDGMENT_HOLD"
      BY DEF HoldCommand, HoldCommandOn
    <2> QED
      BY <1>1, <2>1, <2>2
  <1>5. ASSUME NEW c \in Offered, OtherCaller(c)
        PROVE  c \in Commands /\ Execute(c)
    BY <1>5, NoticesAndTraces DEF OtherCaller
  <1>6. Midnight \/ UNCHANGED recallRunVars => UNCHANGED vars
    BY DEF Midnight, recallRunVars
  <1> QED
    BY <1>2, <1>3, <1>4, <1>5, <1>6 DEF RecallNext

(* A status is moved by a run that has done what the status says. *)
LEMMA MovedWithGrounds ==
    ASSUME SagaMovesStatus, RunsOnTheWay, [RecallNext]_recallRunVars,
           NEW c \in Commands, Execute(c), c.type = "SET_INCIDENT_STATUS",
           \/ c \in Offered
           \/ c.type = "RECORD_ACKNOWLEDGMENT_HOLD"
           \/ \E r \in runs : r.step \in LedgerSteps /\ c = SagaCommand(r)
    PROVE  \E r \in runs :
              LET inc == r.notice.incident
                  lot == r.notice.lot
              IN  /\ c.inc = inc /\ OfLot(inc, lot)
                  /\ \/ c.body.new = "SCOPING"
                     \/ c.body.new = "CONTAINMENT_IN_PROGRESS" /\ Barred(inc, lot)
                     \/ /\ c.body.new = "PARTIALLY_CONTAINED"
                        /\ Barred(inc, lot) /\ PlanDown
                        /\ Recovered(inc) /\ Tasked(inc, lot)
  <1>1. PICK r \in runs : r.step \in LedgerSteps /\ c = SagaCommand(r)
    BY DEF SagaMovesStatus
  <1>2. /\ c.inc = r.notice.incident
        /\ <<r.step, c.body.new>> \in {<<"SCOPING", "SCOPING">>,
                                       <<"CONTAINMENT", "CONTAINMENT_IN_PROGRESS">>,
                                       <<"TERMINAL", "PARTIALLY_CONTAINED">>}
    BY <1>1, SagaCommandTells
  <1>3. Way(r)
    BY DEF RunsOnTheWay
  <1>4. CASE r.step = "SCOPING"
    BY <1>2, <1>3, <1>4 DEF Way, Mutating, LedgerSteps
  <1>5. CASE r.step = "CONTAINMENT"
    BY <1>2, <1>3, <1>5 DEF Way, Mutating, LedgerSteps, AfterBarrier
  <1>6. CASE r.step = "TERMINAL"
    BY <1>2, <1>3, <1>6
    DEF Way, Mutating, LedgerSteps, AfterBarrier, AfterInvalidation, AfterRecovery
  <1> QED
    BY <1>2, <1>4, <1>5, <1>6

Backed(x) ==
    /\ RecallReaches(x, 3) => Barred(x.incident, x.lot)
    /\ RecallReaches(x, 4) =>
          Tasked(x.incident, x.lot) /\ Recovered(x.incident) /\ PlanDown

LEMMA StatusIsBackedStep ==
    ASSUME SagaMovesStatus, TypeOK, RunsInv, TasksAreNamed, RunsOnTheWay,
           StatusIsBacked, [RecallNext]_recallRunVars
    PROVE  StatusIsBacked'
  <1>1. \A x \in incidents : Backed(x)'
    BY DoneIsKept DEF StatusIsBacked, Backed
  <1>2. CASE incidents' = incidents
    BY <1>1, <1>2 DEF StatusIsBacked, Backed
  <1>3. ASSUME NEW row, IncidentOpened(row)
        PROVE  StatusIsBacked'
    <2>1. Backed(row)'
      BY <1>3 DEF IncidentOpened, Backed, RecallReaches, RecallRank
    <2> QED
      BY <1>1, <1>3, <2>1 DEF IncidentOpened, StatusIsBacked, Backed
  <1>4. ASSUME NEW row, NEW w, IncidentHeld(row, w)
        PROVE  StatusIsBacked'
    <2>1. Backed(row)'
      BY <1>4 DEF IncidentHeld, Backed, RecallReaches
    <2> QED
      BY <1>1, <1>4, <2>1 DEF IncidentHeld, StatusIsBacked, Backed
  <1>5. ASSUME NEW c \in Commands, Execute(c), c.type = "SET_INCIDENT_STATUS",
               \/ c \in Offered
               \/ c.type = "RECORD_ACKNOWLEDGMENT_HOLD"
               \/ \E r \in runs : r.step \in LedgerSteps /\ c = SagaCommand(r),
               NEW x, NEW y, IncidentMoved(x, y),
               x.incident = c.inc, y.status = c.body.new
        PROVE  StatusIsBacked'
    <2>1. PICK r \in runs :
             /\ c.inc = r.notice.incident
             /\ OfLot(r.notice.incident, r.notice.lot)
             /\ \/ c.body.new = "SCOPING"
                \/ /\ c.body.new = "CONTAINMENT_IN_PROGRESS"
                   /\ Barred(r.notice.incident, r.notice.lot)
                \/ /\ c.body.new = "PARTIALLY_CONTAINED"
                   /\ Barred(r.notice.incident, r.notice.lot) /\ PlanDown
                   /\ Recovered(r.notice.incident)
                   /\ Tasked(r.notice.incident, r.notice.lot)
      BY <1>5, MovedWithGrounds
    <2>2. y.incident = x.incident /\ y.type = x.type /\ y.lot = x.lot /\ x \in incidents
      BY <1>5 DEF IncidentMoved
    <2>3. Backed(y)'
      <3>1. CASE y.type # "FOOD_SAFETY_RECALL"
        BY <3>1 DEF Backed, RecallReaches
      <3>2. CASE y.type = "FOOD_SAFETY_RECALL"
        <4>1. y.incident = r.notice.incident /\ y.lot = r.notice.lot
          BY <1>5, <2>1, <2>2, <3>2 DEF OfLot
        <4>2. CASE c.body.new = "SCOPING"
          BY <1>5, <4>2 DEF Backed, RecallReaches, RecallRank
        <4>3. CASE /\ c.body.new = "CONTAINMENT_IN_PROGRESS"
                   /\ Barred(y.incident, y.lot)
          BY <1>5, <4>3, DoneIsKept DEF Backed, RecallReaches, RecallRank
        <4>4. CASE /\ c.body.new = "PARTIALLY_CONTAINED"
                   /\ Barred(y.incident, y.lot) /\ PlanDown
                   /\ Recovered(y.incident) /\ Tasked(y.incident, y.lot)
          BY <1>5, <4>4, DoneIsKept DEF Backed
        <4> QED
          BY <2>1, <4>1, <4>2, <4>3, <4>4
      <3> QED
        BY <3>1, <3>2
    <2> QED
      BY <1>1, <1>5, <2>3 DEF IncidentMoved, StatusIsBacked, Backed
  <1>6. CASE UNCHANGED vars
    BY <1>2, <1>6 DEF vars, recallVars
  <1> QED
    BY <1>2, <1>3, <1>4, <1>5, <1>6, RecallCalls, IncidentsTransaction

LEMMA RecallInvariant ==
    ASSUME SagaMovesStatus
    PROVE  RecallSpec => [](StatusIsBacked /\ RunsOnTheWay)
  <1> DEFINE Inv == TasksAreNamed /\ RunsOnTheWay /\ StatusIsBacked
  <1>1. RecallInit => Inv
    BY DEF RecallInit, Init, TasksAreNamed, RunsOnTheWay, StatusIsBacked
  <1>2. TypeOK /\ ReceiptsInv /\ RunsInv /\ Inv /\ [RecallNext]_recallRunVars => Inv'
    BY TasksNamedStep, WayStep, TaskToComeStep, StatusIsBackedStep
    DEF RunsOnTheWay
  <1>3. Inv => StatusIsBacked /\ RunsOnTheWay
    OBVIOUS
  <1> HIDE DEF Inv
  <1> QED
    BY <1>1, <1>2, <1>3, RunsInvariant, PTL DEF RecallSpec

(* Where the saga alone moves the status of a recall, the status claims no more
   than was done: behind it are the barrier, the safe recovery and the deadline
   task, wherever runs broke off and whatever was delivered again. *)
THEOREM StatusIsTrue ==
    ASSUME SagaMovesStatus
    PROVE  RecallSpec => []StatusTellsTheTruth
  <1>1. StatusIsBacked => StatusTellsTheTruth
    BY DEF StatusIsBacked, StatusTellsTheTruth, Barred, Tasked, Recovered
  <1> QED
    BY <1>1, RecallInvariant, PTL

-----------------------------------------------------------------------------
(* The plan of the day is down *)

LEMMA PlansAreSavedStep ==
    ASSUME TypeOK, PlansAreSaved, [Next]_vars
    PROVE  PlansAreSaved'
  <1>1. CASE plans' = plans
    BY <1>1 DEF PlansAreSaved
  <1>2. ASSUME NEW row, PlanAdded(row),
               \/ row.status = "DRAFT_WITH_CONSTRAINTS"
               \/ \E c \in Commands : /\ c.type = "SAVE_PLAN_REVISION"
                                      /\ row.plan = c.body.plan
        PROVE  PlansAreSaved'
    <2>1. \A i \in DOMAIN plans' :
             (i \in DOMAIN plans /\ plans'[i] = plans[i]) \/ plans'[i] = row
      BY <1>2, PlansDomain DEF PlanAdded
    <2> QED
      BY <1>2, <2>1 DEF PlansAreSaved
  <1>3. ASSUME NEW i, NEW row, PlanReplaced(i, row)
        PROVE  PlansAreSaved'
    <2>1. i \in DOMAIN plans /\ plans[i].status = "ACTIVE" /\ row.plan = plans[i].plan
      BY <1>3 DEF PlanReplaced, ActiveRows
    <2>2. \A j \in DOMAIN plans' :
             \/ j \in DOMAIN plans /\ plans'[j] = plans[j]
             \/ plans'[j].plan = plans[i].plan
      BY <1>3, <2>1, PlansDomain DEF PlanReplaced, PlanRow
    <2> QED
      BY <2>1, <2>2 DEF PlansAreSaved
  <1>4. ASSUME NEW i, PlanRecalled(i)
        PROVE  PlansAreSaved'
    <2>1. i \in DOMAIN plans /\ plans[i].status = "ACTIVE"
      BY <1>4 DEF PlanRecalled, ActiveRows
    <2>2. \A j \in DOMAIN plans' :
             \/ j \in DOMAIN plans /\ plans'[j] = plans[j]
             \/ plans'[j].plan = plans[i].plan
      BY <1>4, <2>1, PlansDomain DEF PlanRecalled, PlanRow
    <2> QED
      BY <2>1, <2>2 DEF PlansAreSaved
  <1> QED
    BY <1>1, <1>2, <1>3, <1>4, PlansStep

LEMMA PlansAreSavedInvariant == Spec => []PlansAreSaved
  <1>1. Init => PlansAreSaved
    BY DEF Init, PlansAreSaved
  <1> QED
    BY <1>1, PlansAreSavedStep, TypeCorrect, PTL DEF Spec

(* Where the day has one plan and the saga alone moves the status of a recall, a
   lot whose recall is partially contained is on no active plan: the only plan
   of the day was invalidated before, and it stays down. *)
THEOREM ContainmentStopsShipping ==
    ASSUME SagaMovesStatus, OnePlanOfTheDay
    PROVE  RecallSpec => []ContainedLotsAreNotShipped
  <1>1. StatusIsBacked /\ PlansAreSaved /\ RecalledPlanStaysDown
           => ContainedLotsAreNotShipped
    <2> SUFFICES ASSUME StatusIsBacked, PlansAreSaved, RecalledPlanStaysDown,
                        NEW x \in incidents, RecallReaches(x, 4)
                 PROVE  ActiveRows = {}
      BY DEF ContainedLotsAreNotShipped
    <2>1. PICK i \in DOMAIN plans : plans[i].status = "INVALIDATED_RECALL"
      BY DEF StatusIsBacked, PlanDown
    <2>2. ASSUME NEW j \in ActiveRows
          PROVE  FALSE
      <3>1. j \in DOMAIN plans /\ plans[j].status = "ACTIVE"
        BY DEF ActiveRows
      <3>2. plans[i].plan = plans[j].plan
        BY <2>1, <3>1 DEF PlansAreSaved, OnePlanOfTheDay
      <3> QED
        BY <2>1, <3>1, <3>2 DEF RecalledPlanStaysDown
    <2> QED
      BY <2>2
  <1>2. RecallSpec => [](PlansAreSaved /\ RecalledPlanStaysDown)
    BY RecallUsesLedger, PlansAreSavedInvariant, RecallIsFinal, PTL
  <1> QED
    BY <1>1, <1>2, RecallInvariant, PTL

-----------------------------------------------------------------------------
(* The recovery lays the cases of orders and of lots end to end in id order and   *)
(* matches the two lines, so all is in sums of prefixes of sequences.           *)

(* What holds of 0 and of every next number up to N holds up to N. *)
LEMMA UpToThere ==
    ASSUME NEW N \in Nat, NEW Good, 0 \in Good,
           \A n \in 1..N : n - 1 \in Good => n \in Good
    PROVE  0..N \subseteq Good
  <1> DEFINE Bad == {n \in 0..N : n \notin Good}
  <1> SUFFICES ASSUME Bad # {}
               PROVE  FALSE
    OBVIOUS
  <1>1. Bad \in SUBSET Nat
    OBVIOUS
  <1> HIDE DEF Bad
  <1>2. PICK m \in Bad : \A n \in Bad : m <= n
    BY <1>1, LeastOf
  <1>3. m \in 0..N /\ m \notin Good
    BY <1>2 DEF Bad
  <1>4. m \in 1..N
    BY <1>3
  <1>5. m - 1 \in 0..N /\ ~(m <= m - 1)
    BY <1>4
  <1>6. m - 1 \in Good
    BY <1>2, <1>5 DEF Bad
  <1> QED
    BY <1>3, <1>4, <1>6

UpToFn(F, s, N) == F = [k \in 0..N |-> IF k = 0 THEN 0 ELSE F[k - 1] + s[k].cases]

(* The recursive function that sums a prefix is a function of its definition. *)
LEMMA UpToExists ==
    ASSUME NEW s, NEW N \in Nat
    PROVE  \E F : UpToFn(F, s, N)
  <1> DEFINE Good == {n \in 0..N : \E F : UpToFn(F, s, n)}
  <1>1. 0 \in Good
    <2>1. UpToFn([k \in 0..0 |-> 0], s, 0)
      BY DEF UpToFn
    <2> QED
      BY <2>1
  <1>2. ASSUME NEW n \in 1..N, n - 1 \in Good
        PROVE  n \in Good
    <2>1. PICK F : UpToFn(F, s, n - 1)
      BY <1>2
    <2>2. \A k \in 0..(n - 1) : F[k] = IF k = 0 THEN 0 ELSE F[k - 1] + s[k].cases
      BY <2>1 DEF UpToFn
    <2> DEFINE G == [k \in 0..n |-> IF k = n THEN F[n - 1] + s[n].cases ELSE F[k]]
    <2>3. \A k \in 0..n : G[k] = IF k = 0 THEN 0 ELSE G[k - 1] + s[k].cases
      <3> SUFFICES ASSUME NEW k \in 0..n
                   PROVE  G[k] = IF k = 0 THEN 0 ELSE G[k - 1] + s[k].cases
        OBVIOUS
      <3>1. CASE k = n
        <4>1. n # 0 /\ n - 1 \in 0..n /\ n - 1 # n
          OBVIOUS
        <4>2. G[n] = F[n - 1] + s[n].cases /\ G[n - 1] = F[n - 1]
          BY <4>1
        <4> QED
          BY <3>1, <4>1, <4>2
      <3>2. CASE k # n
        <4>1. k \in 0..(n - 1) /\ (k # 0 => k - 1 \in 0..n /\ k - 1 # n)
          BY <3>2
        <4>2. G[k] = F[k] /\ (k # 0 => G[k - 1] = F[k - 1])
          BY <3>2, <4>1
        <4> QED
          BY <2>2, <4>1, <4>2
      <3> QED
        BY <3>1, <3>2
    <2>4. G = [k \in 0..n |-> G[k]]
      OBVIOUS
    <2> HIDE DEF G
    <2>5. UpToFn(G, s, n)
      BY <2>3, <2>4 DEF UpToFn
    <2> QED
      BY <2>5
  <1> HIDE DEF Good
  <1>3. 0..N \subseteq Good
    BY <1>1, <1>2, UpToThere
  <1>4. N \in Good
    BY <1>3
  <1> QED
    BY <1>4 DEF Good

(* Rows in a sequence, whose cases can be counted. *)
Counted(s) == /\ Len(s) \in Nat /\ DOMAIN s = 1..Len(s)
              /\ \A k \in 1..Len(s) : s[k].cases \in Nat

LEMMA UpToLaw ==
    ASSUME NEW s, Counted(s)
    PROVE  /\ UpTo(s, 0) = 0
           /\ \A k \in 0..Len(s) : UpTo(s, k) \in Nat
           /\ \A k \in 1..Len(s) : UpTo(s, k) = UpTo(s, k - 1) + s[k].cases
  <1> DEFINE F == CHOOSE F : UpToFn(F, s, Len(s))
  <1>1. UpToFn(F, s, Len(s))
    BY UpToExists DEF Counted
  <1>2. \A k : UpTo(s, k) = F[k]
    BY DEF UpTo, UpToFn
  <1> HIDE DEF F
  <1>3. \A k \in 0..Len(s) : F[k] = IF k = 0 THEN 0 ELSE F[k - 1] + s[k].cases
    BY <1>1 DEF UpToFn
  <1>4. F[0] = 0 /\ \A k \in 1..Len(s) : F[k] = F[k - 1] + s[k].cases
    BY <1>3 DEF Counted
  <1> DEFINE Good == {k \in 0..Len(s) : F[k] \in Nat}
  <1>5. 0 \in Good
    BY <1>4 DEF Counted
  <1>6. ASSUME NEW n \in 1..Len(s), n - 1 \in Good
        PROVE  n \in Good
    BY <1>4, <1>6 DEF Counted
  <1> HIDE DEF Good
  <1>7. 0..Len(s) \subseteq Good
    BY <1>5, <1>6, UpToThere DEF Counted
  <1>8. \A k \in 0..Len(s) : F[k] \in Nat
    BY <1>7 DEF Good
  <1> QED
    BY <1>2, <1>4, <1>8

-----------------------------------------------------------------------------
(* An order draws from a lot what its interval shares with the lot's.  What the
   orders up to n draw from one lot is the part of the lot below their sum, so it
   never exceeds the lot. *)

(* The least and the greatest of two numbers, as the prover computes with them. *)
Least(x, y) == IF x <= y THEN x ELSE y
Greatest(x, y) == IF x <= y THEN y ELSE x

LEMMA MinAndMaxOfTwo ==
    ASSUME NEW x \in Int, NEW y \in Int
    PROVE  Min({x, y}) = Least(x, y) /\ Max({x, y}) = Greatest(x, y)
  <1>1. Least(x, y) \in {x, y} /\ \A z \in {x, y} : Least(x, y) <= z
    BY DEF Least
  <1>2. Greatest(x, y) \in {x, y} /\ \A z \in {x, y} : Greatest(x, y) >= z
    BY DEF Greatest
  <1>3. Min({x, y}) = Least(x, y)
    <2>1. Min({x, y}) \in {x, y} /\ \A z \in {x, y} : Min({x, y}) <= z
      BY <1>1 DEF Min
    <2> QED
      BY <1>1, <2>1
  <1>4. Max({x, y}) = Greatest(x, y)
    <2>1. Max({x, y}) \in {x, y} /\ \A z \in {x, y} : Max({x, y}) >= z
      BY <1>2 DEF Max
    <2> QED
      BY <1>2, <2>1
  <1> QED
    BY <1>3, <1>4

(* The sum of a prefix, at each row of the sequence. *)
LEMMA UpToAt ==
    ASSUME NEW s, Counted(s), NEW k \in 1..Len(s)
    PROVE  /\ UpTo(s, k) \in Nat /\ UpTo(s, k - 1) \in Nat /\ s[k].cases \in Nat
           /\ UpTo(s, k - 1) <= UpTo(s, k)
           /\ UpTo(s, k) - UpTo(s, k - 1) = s[k].cases
  <1> DEFINE x == UpTo(s, k - 1)
             y == UpTo(s, k)
             c == s[k].cases
  <1>1. Len(s) \in Nat
    BY DEF Counted
  <1>2. k \in 0..Len(s) /\ k - 1 \in 0..Len(s)
    BY <1>1
  <1>3. x \in Nat /\ y \in Nat /\ c \in Nat /\ y = x + c
    BY <1>2, UpToLaw DEF Counted
  <1> HIDE DEF x, y, c
  <1>4. x \in Nat /\ y \in Nat /\ c \in Nat /\ x <= y /\ y - x = c
    BY <1>3
  <1> QED
    BY <1>4 DEF x, y, c

(* What order i draws from lot j, in numbers. *)
LEMMA DrawnIs ==
    ASSUME NEW os, NEW ls, Counted(os), Counted(ls),
           NEW i \in 1..Len(os), NEW j \in 1..Len(ls)
    PROVE  /\ Drawn(os, i, ls, j)
              = Least(UpTo(os, i), UpTo(ls, j)) - Greatest(UpTo(os, i - 1), UpTo(ls, j - 1))
  <1>1. UpTo(os, i) \in Int /\ UpTo(os, i - 1) \in Int
    BY UpToAt
  <1>2. UpTo(ls, j) \in Int /\ UpTo(ls, j - 1) \in Int
    BY UpToAt
  <1>3. Min({UpTo(os, i), UpTo(ls, j)}) = Least(UpTo(os, i), UpTo(ls, j))
    BY <1>1, <1>2, MinAndMaxOfTwo
  <1>4. Max({UpTo(os, i - 1), UpTo(ls, j - 1)})
        = Greatest(UpTo(os, i - 1), UpTo(ls, j - 1))
    BY <1>1, <1>2, MinAndMaxOfTwo
  <1> QED
    BY <1>3, <1>4 DEF Drawn

(* An allocation is told by its order and its lot. *)
LEMMA AllocationFields ==
    ASSUME NEW inc, NEW os, NEW ls, NEW i, NEW j
    PROVE  LET a == AllocationOf(inc, os, ls, <<i, j>>)
           IN  /\ a.agency = os[i].agency /\ a.lot = ls[j].lot
               /\ a.cases = Drawn(os, i, ls, j)
  BY DEF AllocationOf

(* The allocations from lot j of the orders up to n. *)
FromLot(inc, os, ls, n, j) ==
    {AllocationOf(inc, os, ls, <<i, j>>) : i \in {k \in 1..n : Drawn(os, k, ls, j) > 0}}
(* The part of the interval from low to high that lies below x. *)
Part(x, low, high) == IF Least(x, high) > low THEN Least(x, high) - low ELSE 0
Share(os, ls, n, j) == Part(UpTo(os, n), UpTo(ls, j - 1), UpTo(ls, j))

(* The next interval adds what it shares with that part. *)
LEMMA PartGrows ==
    ASSUME NEW x \in Nat, NEW y \in Nat, NEW low \in Nat, NEW high \in Nat,
           x <= y, low <= high
    PROVE  /\ Part(x, low, high) \in Nat /\ Part(y, low, high) \in Nat
           /\ Part(x, low, high) <= Part(y, low, high)
           /\ Part(y, low, high) <= high - low
           /\ LET d == Least(y, high) - Greatest(x, low)
              IN  d \in Int /\ (d > 0 => Part(x, low, high) + d <= Part(y, low, high))
  BY DEF Part, Least, Greatest

LEMMA ShareGrows ==
    ASSUME NEW os, NEW ls, Counted(os), Counted(ls),
           NEW n \in 1..Len(os), NEW j \in 1..Len(ls)
    PROVE  /\ Share(os, ls, n - 1, j) \in Nat /\ Share(os, ls, n, j) \in Nat
           /\ Share(os, ls, n - 1, j) <= Share(os, ls, n, j)
           /\ Drawn(os, n, ls, j) \in Int
           /\ Drawn(os, n, ls, j) > 0 =>
                 Share(os, ls, n - 1, j) + Drawn(os, n, ls, j) <= Share(os, ls, n, j)
  <1> DEFINE x == UpTo(os, n - 1)
             y == UpTo(os, n)
             low == UpTo(ls, j - 1)
             high == UpTo(ls, j)
  <1>1. x \in Nat /\ y \in Nat /\ x <= y
    BY UpToAt
  <1>2. low \in Nat /\ high \in Nat /\ low <= high
    BY UpToAt
  <1>3. Drawn(os, n, ls, j) = Least(y, high) - Greatest(x, low)
    BY DrawnIs
  <1>4. Share(os, ls, n - 1, j) = Part(x, low, high) /\ Share(os, ls, n, j) = Part(y, low, high)
    BY DEF Share
  <1> DEFINE drawn == Drawn(os, n, ls, j)
             before == Share(os, ls, n - 1, j)
             after == Share(os, ls, n, j)
  <1> HIDE DEF x, y, low, high, drawn, before, after
  <1>5. /\ before \in Nat /\ after \in Nat /\ before <= after /\ drawn \in Int
        /\ drawn > 0 => before + drawn <= after
    <2>1. drawn = Least(y, high) - Greatest(x, low)
      BY <1>3 DEF drawn
    <2>2. before = Part(x, low, high) /\ after = Part(y, low, high)
      BY <1>4 DEF before, after
    <2> QED
      BY <1>1, <1>2, <2>1, <2>2, PartGrows
  <1> QED
    BY <1>5 DEF before, after, drawn

(* The orders draw no more from a lot than it holds. *)
LEMMA LotIsNotOverdrawn ==
    ASSUME NEW inc, NEW os, NEW ls, Counted(os), Counted(ls), NEW j \in 1..Len(ls)
    PROVE  /\ Countable(FromLot(inc, os, ls, Len(os), j))
           /\ CasesIn(FromLot(inc, os, ls, Len(os), j)) <= ls[j].cases
  <1> DEFINE From(n) == FromLot(inc, os, ls, n, j)
             Fits(n) == Countable(From(n)) /\ CasesIn(From(n)) <= Share(os, ls, n, j)
             Good == {n \in 0..Len(os) : Fits(n)}
  <1>0. Len(os) \in Nat
    BY DEF Counted
  <1> DEFINE low == UpTo(ls, j - 1)
             high == UpTo(ls, j)
  <1>0a. low \in Nat /\ high \in Nat /\ low <= high /\ high - low = ls[j].cases
    BY UpToAt
  <1>1. Fits(0)
    <2>1. From(0) = {}
      BY DEF FromLot
    <2>2. Share(os, ls, 0, j) >= 0
      <3>1. UpTo(os, 0) = 0
        BY UpToLaw
      <3> QED
        BY <1>0a, <3>1 DEF Share, Part, Least
    <2> HIDE DEF From
    <2> QED
      BY <2>1, <2>2, CasesInNothing
  <1>2. ASSUME NEW n \in 1..Len(os), Fits(n - 1)
        PROVE  Fits(n)
    <2> DEFINE a == AllocationOf(inc, os, ls, <<n, j>>)
    <2>1. n \in 1..n /\ 1..n = (1..(n - 1)) \cup {n}
      BY <1>0
    <2>2. CASE Drawn(os, n, ls, j) > 0
      <3>1. From(n) = From(n - 1) \cup {a}
        BY <2>1, <2>2 DEF FromLot
      <3>2. a.cases = Drawn(os, n, ls, j) /\ a.cases \in Nat
        <4>1. Drawn(os, n, ls, j) \in Nat
          BY <2>2, ShareGrows
        <4> QED
          BY <4>1, AllocationFields
      <3>3. Share(os, ls, n - 1, j) + Drawn(os, n, ls, j) <= Share(os, ls, n, j)
        BY <2>2, ShareGrows
      <3> HIDE DEF From, a
      <3>4. /\ Countable(From(n - 1) \cup {a}) /\ CasesIn(From(n - 1)) \in Nat
            /\ CasesIn(From(n - 1) \cup {a}) <= CasesIn(From(n - 1)) + a.cases
        BY <1>2, <3>2, CasesInWith
      <3>5. CasesIn(From(n)) \in Nat
        BY <3>1, <3>4, CasesInNat
      <3>6. Share(os, ls, n - 1, j) \in Nat /\ Share(os, ls, n, j) \in Nat
        BY ShareGrows
      <3> QED
        BY <1>2, <3>1, <3>2, <3>3, <3>4, <3>5, <3>6
    <2>3. CASE ~(Drawn(os, n, ls, j) > 0)
      <3>1. From(n) = From(n - 1)
        BY <2>1, <2>3 DEF FromLot
      <3>2. Share(os, ls, n - 1, j) <= Share(os, ls, n, j)
        BY ShareGrows
      <3>3. Share(os, ls, n - 1, j) \in Nat /\ Share(os, ls, n, j) \in Nat
        BY ShareGrows
      <3> HIDE DEF From
      <3>4. CasesIn(From(n - 1)) \in Nat
        BY <1>2, CasesInNat
      <3> QED
        BY <1>2, <3>1, <3>2, <3>3, <3>4
    <2> QED
      BY <2>2, <2>3
  <1> HIDE DEF Fits
  <1>3. 0..Len(os) \subseteq Good
    <2>1. 0 \in Good
      BY <1>0, <1>1
    <2>2. \A n \in 1..Len(os) : n - 1 \in Good => n \in Good
      BY <1>0, <1>2
    <2> HIDE DEF Good
    <2> QED
      BY <1>0, <2>1, <2>2, UpToThere
  <1>4. Fits(Len(os))
    BY <1>0, <1>3
  <1>5. Share(os, ls, Len(os), j) <= ls[j].cases /\ Share(os, ls, Len(os), j) \in Nat
    <2>1. Len(os) \in 0..Len(os)
      BY <1>0
    <2>2. PICK y \in Nat : y = UpTo(os, Len(os))
      BY <2>1, UpToLaw
    <2> QED
      BY <1>0a, <2>2, PartGrows DEF Share
  <1>6. CasesIn(From(Len(os))) \in Nat
    BY <1>4, CasesInNat DEF Fits
  <1>7. ls[j].cases \in Nat
    BY UpToAt
  <1> QED
    BY <1>4, <1>5, <1>6, <1>7 DEF Fits

-----------------------------------------------------------------------------
(* The recovery that a saga computes from its reads fits the lots it read. *)

(* The image of a finite set is finite. *)
LEMMA FiniteImage ==
    ASSUME NEW S, IsFiniteSet(S), NEW f, DOMAIN f = S
    PROVE  IsFiniteSet({f[x] : x \in S})
  <1> DEFINE T == {f[x] : x \in S}
             g == [x \in S |-> f[x]]
  <1>1. g \in Surjection(S, T)
    BY DEF Surjection
  <1> QED
    BY <1>1, FS_Surjection

(* Rows can be put in a sequence that holds each of them once at most. *)
LEMMA RowsInSequence ==
    ASSUME NEW S, IsFiniteSet(S), \A x \in S : x.cases \in Nat, NEW s \in SetToSeqs(S)
    PROVE  /\ Counted(s) /\ \A k \in 1..Len(s) : s[k] \in S
           /\ \A j, k \in 1..Len(s) : s[j] = s[k] => j = k
  <1> DEFINE n == Cardinality(S)
  <1>1. n \in Nat
    BY FS_CardinalityType
  <1>2. s \in [1..n -> S] /\ \A j, k \in 1..n : j # k => s[j] # s[k]
    BY DEF SetToSeqs
  <1> HIDE DEF n
  <1>3. s \in Seq(S)
    BY <1>1, <1>2, SeqDef
  <1>4. Len(s) \in Nat /\ DOMAIN s = 1..Len(s) /\ DOMAIN s = 1..n
    BY <1>2, <1>3, LenProperties
  <1> QED
    BY <1>2, <1>4 DEF Counted

(* Allocations from lots of the tenant, no more from a lot than it holds. *)
Fits(given) ==
    /\ Countable(given)
    /\ \A a \in given : \E l \in lots : l.lot = a.lot
    /\ \A l \in lots : CasesIn({a \in given : a.lot = l.lot}) <= l.cases

StockIsKeyed ==
    /\ IsFiniteSet(lots) /\ IsFiniteSet(orders)
    /\ \A l, m \in lots : l.lot = m.lot => l = m

(* What a saga allocates fits the lots, whatever the order of the rows it read. *)
LEMMA RecoveryFits ==
    ASSUME TypeOK, StockIsKeyed, NEW inc, NEW os, Counted(os),
           NEW ls \in SetToSeqs(ClearLots)
    PROVE  Fits(Recovery(inc, os, ls).allocations)
  <1> DEFINE given == Recovery(inc, os, ls).allocations
  <1>1. given = {AllocationOf(inc, os, ls, p) : p \in Draws(os, ls)}
    BY DEF Recovery
  <1>2. /\ Counted(ls) /\ \A k \in 1..Len(ls) : ls[k] \in ClearLots
        /\ \A j, k \in 1..Len(ls) : ls[j] = ls[k] => j = k
    <2>1. IsFiniteSet(ClearLots) /\ \A l \in ClearLots : l.cases \in Nat
      BY FS_Subset DEF ClearLots, StockIsKeyed, TypeOK, LotRow
    <2> QED
      BY <2>1, RowsInSequence
  <1>3. Draws(os, ls) = {p \in (1..Len(os)) \X (1..Len(ls)) :
                            Drawn(os, p[1], ls, p[2]) > 0}
    BY <1>2 DEF Draws, Counted
  <1>4. IsFiniteSet(given)
    <2>1. IsFiniteSet(Draws(os, ls))
      <3>1. IsFiniteSet(1..Len(os)) /\ IsFiniteSet(1..Len(ls))
        BY <1>2, FS_Interval DEF Counted
      <3>2. IsFiniteSet((1..Len(os)) \X (1..Len(ls)))
        BY <3>1, FS_Product
      <3> QED
        BY <1>3, <3>2, FS_Subset
    <2> DEFINE f == [p \in Draws(os, ls) |-> AllocationOf(inc, os, ls, p)]
    <2>2. given = {f[p] : p \in Draws(os, ls)} /\ DOMAIN f = Draws(os, ls)
      BY <1>1
    <2> HIDE DEF f, given
    <2> QED
      BY <2>1, <2>2, FiniteImage
  <1>5. ASSUME NEW a \in given
        PROVE  \E i \in 1..Len(os), j \in 1..Len(ls) :
                  /\ a = AllocationOf(inc, os, ls, <<i, j>>)
                  /\ Drawn(os, i, ls, j) > 0 /\ Drawn(os, i, ls, j) \in Int
                  /\ a.lot = ls[j].lot /\ a.cases = Drawn(os, i, ls, j)
    <2>1. PICK p \in (1..Len(os)) \X (1..Len(ls)) :
             a = AllocationOf(inc, os, ls, p) /\ Drawn(os, p[1], ls, p[2]) > 0
      BY <1>1, <1>3
    <2>2. PICK i \in 1..Len(os), j \in 1..Len(ls) : p = <<i, j>>
      OBVIOUS
    <2>3. Drawn(os, i, ls, j) > 0 /\ Drawn(os, i, ls, j) \in Int
      BY <1>2, <2>1, <2>2, ShareGrows
    <2>4. a.lot = ls[j].lot /\ a.cases = Drawn(os, i, ls, j)
      BY <2>1, <2>2, AllocationFields
    <2> QED
      BY <2>1, <2>2, <2>3, <2>4
  <1>6. ASSUME NEW j \in 1..Len(ls)
        PROVE  {a \in given : a.lot = ls[j].lot} = FromLot(inc, os, ls, Len(os), j)
    <2>1. ASSUME NEW a \in given, a.lot = ls[j].lot
          PROVE  a \in FromLot(inc, os, ls, Len(os), j)
      <3>1. PICK i \in 1..Len(os), k \in 1..Len(ls) :
               /\ a = AllocationOf(inc, os, ls, <<i, k>>)
               /\ Drawn(os, i, ls, k) > 0 /\ a.lot = ls[k].lot
        BY <1>5
      <3>2. k = j
        BY <1>2, <2>1, <3>1 DEF StockIsKeyed, ClearLots
      <3> QED
        BY <3>1, <3>2 DEF FromLot
    <2>2. ASSUME NEW a \in FromLot(inc, os, ls, Len(os), j)
          PROVE  a \in given /\ a.lot = ls[j].lot
      <3>1. PICK i \in 1..Len(os) :
               a = AllocationOf(inc, os, ls, <<i, j>>) /\ Drawn(os, i, ls, j) > 0
        BY DEF FromLot
      <3>2. <<i, j>> \in Draws(os, ls)
        BY <1>3, <3>1
      <3> QED
        BY <1>1, <3>1, <3>2, AllocationFields
    <2> HIDE DEF given
    <2> QED
      BY <2>1, <2>2
  <1> HIDE DEF given
  <1>7. Countable(given)
    <2>1. ASSUME NEW a \in given
          PROVE  a.cases \in Nat
      <3>1. PICK n \in Int : a.cases = n /\ n > 0
        BY <1>5
      <3> QED
        BY <3>1
    <2> QED
      BY <1>4, <2>1 DEF Countable
  <1>8. \A a \in given : \E l \in lots : l.lot = a.lot
    BY <1>2, <1>5 DEF ClearLots
  <1>9. ASSUME NEW l \in lots
        PROVE  CasesIn({a \in given : a.lot = l.lot}) <= l.cases
    <2>1. ASSUME NEW j \in 1..Len(ls), ls[j].lot = l.lot
          PROVE  CasesIn({a \in given : a.lot = l.lot}) <= l.cases
      <3>1. ls[j] = l
        BY <1>2, <2>1 DEF StockIsKeyed, ClearLots
      <3>2. {a \in given : a.lot = l.lot} = FromLot(inc, os, ls, Len(os), j)
        BY <1>6, <2>1
      <3> QED
        BY <1>2, <3>1, <3>2, LotIsNotOverdrawn
    <2>2. ASSUME \A j \in 1..Len(ls) : ls[j].lot # l.lot
          PROVE  CasesIn({a \in given : a.lot = l.lot}) <= l.cases
      <3>1. {a \in given : a.lot = l.lot} = {}
        BY <1>5, <2>2
      <3>2. l.cases \in Nat
        BY DEF TypeOK, LotRow
      <3> QED
        BY <3>1, <3>2, CasesInNothing
    <2> QED
      BY <2>1, <2>2
  <1> QED
    BY <1>7, <1>8, <1>9 DEF Fits, given

-----------------------------------------------------------------------------
(* The rows of a revision stay finite, and a lot keeps its id and its cases: what
   fitted when it was computed fits whenever it is written. *)

(* Finitely many lines make finitely many order rows, for each way to write them. *)
LEMMA FiniteLines ==
    ASSUME NEW p, NEW r, NEW lines, IsFiniteSet(lines)
    PROVE  IsFiniteSet(NewLines(p, r, lines))
  <1> DEFINE f == [l \in lines |-> [plan |-> p, rev |-> r, line |-> l]]
  <1>1. NewLines(p, r, lines) = {f[l] : l \in lines} /\ DOMAIN f = lines
    BY DEF NewLines
  <1> HIDE DEF f
  <1> QED
    BY <1>1, FiniteImage

LEMMA FiniteRepair ==
    ASSUME NEW lines, IsFiniteSet(lines), NEW diff
    PROVE  IsFiniteSet(Repaired(lines, diff))
  <1> DEFINE f == [l \in lines |-> RepairedLine(l, diff)]
  <1>1. Repaired(lines, diff) = {f[l] : l \in lines} /\ DOMAIN f = lines
    BY DEF Repaired
  <1> HIDE DEF f
  <1> QED
    BY <1>1, FiniteImage

LEMMA FiniteLinesOf ==
    ASSUME IsFiniteSet(orders), NEW p, NEW r
    PROVE  IsFiniteSet(Lines(p, r))
  <1> DEFINE rows == {x \in orders : x.plan = p /\ x.rev = r}
             f == [o \in rows |-> o.line]
  <1>1. Lines(p, r) = {f[o] : o \in rows} /\ DOMAIN f = rows
    BY DEF Lines
  <1>2. IsFiniteSet(rows)
    BY FS_Subset
  <1> HIDE DEF f, rows
  <1> QED
    BY <1>1, <1>2, FiniteImage

LEMMA FiniteCandidate ==
    ASSUME NEW b \in CreateNextDayDraftPayload
    PROVE  IsFiniteSet(CandidateLines(b))
  <1> DEFINE of(v, x) == [order |-> x.order, agency |-> x.agency, cases |-> x.cases,
                          lot |-> x.lot, vehicle |-> v.vehicle, status |-> "CANDIDATE"]
             carried(v) == {of(v, x) : x \in v.stops}
             f == [v \in b.vehicles |-> carried(v)]
  <1>1. IsFiniteSet(b.vehicles) /\ \A v \in b.vehicles : IsFiniteSet(v.stops)
    <2>1. b.vehicles \in {{}} \cup NonEmpty(CandidateVehicle)
      BY DEF CreateNextDayDraftPayload
    <2>2. IsFiniteSet(b.vehicles) /\ b.vehicles \subseteq CandidateVehicle
      BY <2>1, FS_EmptySet DEF NonEmpty
    <2>3. \A v \in CandidateVehicle : IsFiniteSet(v.stops)
      BY DEF CandidateVehicle, NonEmpty
    <2> QED
      BY <2>2, <2>3
  <1>2. ASSUME NEW v \in b.vehicles
        PROVE  IsFiniteSet(f[v])
    <2> DEFINE g == [x \in v.stops |-> of(v, x)]
    <2>1. carried(v) = {g[x] : x \in v.stops} /\ DOMAIN g = v.stops
      OBVIOUS
    <2>2. f[v] = carried(v)
      OBVIOUS
    <2> HIDE DEF g, carried, f
    <2> QED
      BY <1>1, <2>1, <2>2, FiniteImage
  <1>3. CandidateLines(b) = UNION {f[v] : v \in b.vehicles} /\ DOMAIN f = b.vehicles
    BY DEF CandidateLines
  <1> HIDE DEF f
  <1>4. IsFiniteSet({f[v] : v \in b.vehicles})
    BY <1>1, <1>3, FiniteImage
  <1> QED
    BY <1>2, <1>3, <1>4, FS_UNION

(* No transaction writes infinitely many order rows. *)
LEMMA OrdersFiniteStep ==
    ASSUME IsFiniteSet(orders), [Next]_vars
    PROVE  IsFiniteSet(orders')
  <1>1. ASSUME NEW c \in Commands, SavePlanRevision(c)
        PROVE  IsFiniteSet(orders')
    <2>1. c.body \in SavePlanRevisionPayload
      BY <1>1, PayloadTyping DEF SavePlanRevision, Admitted
    <2>2. IsFiniteSet(c.body.orders)
      BY <2>1 DEF SavePlanRevisionPayload, NonEmpty
    <2> QED
      BY <1>1, <2>2, FiniteLines, FS_Union DEF SavePlanRevision
  <1>2. ASSUME NEW c \in Commands, ActivateApprovedRepairPlan(c)
        PROVE  IsFiniteSet(orders')
    <2>1. PICK a \in approvals :
             orders' = orders \cup
                  NewLines(c.body.plan, c.body.proposed,
                           Repaired(Lines(c.body.plan, c.body.source), a.diff))
      BY <1>2 DEF ActivateApprovedRepairPlan
    <2>2. IsFiniteSet(Repaired(Lines(c.body.plan, c.body.source), a.diff))
      BY FiniteLinesOf, FiniteRepair
    <2> QED
      BY <2>1, <2>2, FiniteLines, FS_Union
  <1>3. ASSUME NEW c \in Commands, CreateNextDayDraft(c)
        PROVE  IsFiniteSet(orders')
    <2>1. c.body \in CreateNextDayDraftPayload
      BY <1>3, PayloadTyping DEF CreateNextDayDraft, Admitted
    <2>2. orders' = orders \cup NewLines(c.body.plan, "rev01", CandidateLines(c.body))
      BY <1>3 DEF CreateNextDayDraft
    <2> QED
      BY <2>1, <2>2, FiniteCandidate, FiniteLines, FS_Union
  <1>4. ASSUME NEW c \in Commands, Execute(c),
               ~SavePlanRevision(c), ~CreateNextDayDraft(c),
               ~ActivateApprovedRepairPlan(c)
        PROVE  orders' = orders
    BY <1>4
    DEF Execute, DenyRole, DenyStaleRevision, RecordRefusal,
        PersistRepairProposal, PersistRepairApproval, PersistCoordinator,
        InvalidatePlan, OpenRecallIncident, SetIncidentStatus,
        ActivateMovementBarrier, AllocateSafeStock, RecordAcknowledgmentHold,
        ApplyPartnerEvidence, DenyPartnerEvidence, ReaffirmNextDayDraft,
        dataVars, planVars
  <1>5. CASE orders' = orders
    BY <1>5
  <1>6. Tick \/ UNCHANGED vars => orders' = orders
    BY DEF Tick, vars, planVars
  <1> QED
    BY <1>1, <1>2, <1>3, <1>4, <1>5, <1>6 DEF Next

(* A lot keeps its id and its cases; a new lot has a new id. *)
LEMMA LotsKept ==
    ASSUME TypeOK, StockIsKeyed, [Next]_vars
    PROVE  /\ \A l \in lots : \E m \in lots' : m.lot = l.lot /\ m.cases = l.cases
           /\ \A m \in lots' : \/ \A l \in lots : l.lot # m.lot
                               \/ \E l \in lots : m.lot = l.lot /\ m.cases = l.cases
           /\ IsFiniteSet(lots')
           /\ \A l, m \in lots' : l.lot = m.lot => l = m
  <1>1. CASE lots' = lots
    BY <1>1 DEF StockIsKeyed
  <1>2. ASSUME NEW c \in Commands, SavePlanRevision(c)
        PROVE  /\ \A l \in lots : \E m \in lots' : m.lot = l.lot /\ m.cases = l.cases
               /\ \A m \in lots' : \/ \A l \in lots : l.lot # m.lot
                                   \/ \E l \in lots : m.lot = l.lot /\ m.cases = l.cases
               /\ IsFiniteSet(lots')
               /\ \A l, m \in lots' : l.lot = m.lot => l = m
    <2>1. c.body \in SavePlanRevisionPayload
      BY <1>2, PayloadTyping DEF SavePlanRevision, Admitted
    <2>2. IsFiniteSet(c.body.lots)
      BY <2>1 DEF SavePlanRevisionPayload, NonEmpty
    <2>3. lots' = lots \cup c.body.lots
      BY <1>2 DEF SavePlanRevision
    <2>4. /\ \A x \in c.body.lots, l \in lots : l.lot # x.lot
          /\ \A x, y \in c.body.lots : x.lot = y.lot => x = y
      BY <1>2 DEF SavePlanRevision, SaveOk, Insertable
    <2>5. IsFiniteSet(lots')
      BY <2>2, <2>3, FS_Union DEF StockIsKeyed
    <2> QED
      BY <2>3, <2>4, <2>5 DEF StockIsKeyed
  <1>3. ASSUME NEW c \in Commands, ActivateMovementBarrier(c)
        PROVE  /\ \A l \in lots : \E m \in lots' : m.lot = l.lot /\ m.cases = l.cases
               /\ \A m \in lots' : \/ \A l \in lots : l.lot # m.lot
                                   \/ \E l \in lots : m.lot = l.lot /\ m.cases = l.cases
               /\ IsFiniteSet(lots')
               /\ \A l, m \in lots' : l.lot = m.lot => l = m
    <2> DEFINE f == [l \in lots |-> IF l.lot = c.body.lot
                                    THEN [l EXCEPT !.hazard = "RECALLED"] ELSE l]
    <2>1. lots' = {f[l] : l \in lots} /\ DOMAIN f = lots
      BY <1>3 DEF ActivateMovementBarrier, Recalled
    <2>2. \A l \in lots : f[l].lot = l.lot /\ f[l].cases = l.cases
      BY DEF TypeOK, LotRow
    <2> HIDE DEF f
    <2>3. IsFiniteSet(lots')
      BY <2>1, FiniteImage DEF StockIsKeyed
    <2>4. \A l, m \in lots' : l.lot = m.lot => l = m
      BY <2>1, <2>2 DEF StockIsKeyed
    <2> QED
      BY <2>1, <2>2, <2>3, <2>4
  <1> QED
    BY <1>1, <1>2, <1>3, LotsStep

LEMMA StockIsKeyedStep ==
    ASSUME TypeOK, StockIsKeyed, [Next]_vars
    PROVE  StockIsKeyed'
  BY LotsKept, OrdersFiniteStep DEF StockIsKeyed

(* What fits the lots goes on fitting them. *)
LEMMA FitsKept ==
    ASSUME TypeOK, StockIsKeyed, [Next]_vars, NEW given, Fits(given)
    PROVE  Fits(given)'
  <1>1. \A a \in given : \E m \in lots' : m.lot = a.lot
    BY LotsKept DEF Fits
  <1>2. ASSUME NEW m \in lots'
        PROVE  CasesIn({a \in given : a.lot = m.lot}) <= m.cases
    <2>1. ASSUME NEW l \in lots, m.lot = l.lot, m.cases = l.cases
          PROVE  CasesIn({a \in given : a.lot = m.lot}) <= m.cases
      BY <2>1 DEF Fits
    <2>2. ASSUME \A l \in lots : l.lot # m.lot
          PROVE  CasesIn({a \in given : a.lot = m.lot}) <= m.cases
      <3>1. {a \in given : a.lot = m.lot} = {}
        BY <2>2 DEF Fits
      <3>2. m.cases \in Nat
        BY TypeStep DEF TypeOK, LotRow
      <3> QED
        BY <3>1, <3>2, CasesInNothing
    <2> QED
      BY <2>1, <2>2, LotsKept
  <1> QED
    BY <1>1, <1>2 DEF Fits

-----------------------------------------------------------------------------
(* Every run of the next state is new, untouched or follows from a run before it. *)

(* How a run of the next state came about. *)
Fresh(q) == /\ q.step = "READ" /\ q.recovery = None /\ q.trace \notin delivered
            /\ q.notice \in Notices
Follows(q, r) ==
    /\ q.notice = r.notice /\ q.trace = r.trace
    /\ \/ r.step \in {"READ", "CUSTODY"} /\ q.step \in {"CUSTODY", "OPEN"}
       \/ /\ r.step \in LedgerSteps \ {"TERMINAL"} /\ q.step = NextStep[r.step]
          /\ Answered(SagaCommand(r))
          /\ Succeeded(SagaCommand(r)) \/ r.step = "REFUSE"
       \/ r.step = "TASK" /\ q.step = "TERMINAL"
Left == runs \ runs'

(* A saga step leads to the next one. *)
LEMMA StepsAdvance ==
    \A step \in DOMAIN NextStep : NextStep[step] # step
  BY DEF NextStep

LEMMA RunsFollow ==
    ASSUME RunsInv, [RecallNext]_recallRunVars
    PROVE  /\ delivered \subseteq delivered'
           /\ \A q \in runs' : q \in runs \/ Fresh(q) \/ \E r \in Left : Follows(q, r)
  <1>1. delivered \subseteq delivered'
    <2>1. ASSUME NEW n, NEW t, Deliver(n, t) \/ RejectDelivery(n, t) \/ RejectStale(n, t)
                                 \/ Escalate(t)
          PROVE  delivered \subseteq delivered'
      BY <2>1 DEF Deliver, RejectDelivery, RejectStale, Escalate
    <2>2. ASSUME NEW r \in runs, RunStep(r)
          PROVE  delivered \subseteq delivered'
      BY <2>2, RunStepWent DEF RunsInv, RunWent
    <2>3. ASSUME NEW id, AnswerTask(id) \/ LoseTaskAnswer(id)
          PROVE  delivered \subseteq delivered'
      BY <2>3 DEF AnswerTask, LoseTaskAnswer, orchestratorVars
    <2>4. ASSUME NEW c, OtherCaller(c)
          PROVE  delivered \subseteq delivered'
      BY <2>4 DEF OtherCaller, orchestratorVars
    <2>5. Midnight \/ UNCHANGED recallRunVars => delivered \subseteq delivered'
      BY DEF Midnight, recallRunVars, orchestratorVars
    <2> QED
      BY <2>1, <2>2, <2>3, <2>4, <2>5 DEF RecallNext
  <1>2. ASSUME NEW n \in Notices, NEW t, NEW rev, t \notin delivered,
               runs' = runs \cup {NewRun(n, t, rev)}
        PROVE  \A q \in runs' : q \in runs \/ Fresh(q)
    <2> DEFINE new == NewRun(n, t, rev)
    <2>1. new.step = "READ" /\ new.recovery = None /\ new.trace = t /\ new.notice = n
      BY DEF NewRun
    <2> HIDE DEF new
    <2>2. Fresh(new)
      BY <1>2, <2>1 DEF Fresh
    <2>3. runs' = runs \cup {new}
      BY <1>2 DEF new
    <2> QED
      BY <2>2, <2>3
  <1>3. ASSUME NEW r \in runs, RunWent(r)
        PROVE  \A q \in runs' : q \in runs \/ \E s \in Left : Follows(q, s)
    <2>1. ASSUME NEW next, RunRead(r, next)
          PROVE  Follows(next, r)
      BY <2>1 DEF RunRead, Goes, Follows
    <2>2. ASSUME NEW next, RunAnswered(r, next)
          PROVE  Follows(next, r)
      BY <2>2 DEF RunAnswered, Goes, Follows
    <2>3. ASSUME NEW next, RunScheduled(r, next)
          PROVE  Follows(next, r)
      BY <2>3 DEF RunScheduled, Goes, Follows
    <2>4. CASE RunEnded(r)
      BY <2>4 DEF RunEnded
    <2>5. ASSUME NEW next,
                 RunRead(r, next) \/ RunAnswered(r, next) \/ RunScheduled(r, next)
          PROVE  \A q \in runs' : q \in runs \/ \E s \in Left : Follows(q, s)
      <3>1. Follows(next, r) /\ runs' = (runs \ {r}) \cup {next}
        BY <2>1, <2>2, <2>3, <2>5 DEF RunRead, RunAnswered, RunScheduled, Goes
      <3>2. CASE next \in runs
        BY <3>1, <3>2
      <3>3. CASE next \notin runs
        BY <3>1, <3>3 DEF Left
      <3> QED
        BY <3>2, <3>3
    <2> QED
      BY <1>3, <2>4, <2>5 DEF RunWent
  <1>5. \/ runs' = runs
        \/ \E n \in Notices : \E t, rev :
              t \notin delivered /\ runs' = runs \cup {NewRun(n, t, rev)}
        \/ \E r \in runs : RunWent(r)
    BY RunsStep
  <1>6. \A q \in runs' : q \in runs \/ Fresh(q) \/ \E r \in Left : Follows(q, r)
    BY <1>2, <1>3, <1>5
  <1> QED
    BY <1>1, <1>6

(* A transaction is of another caller, of a deadline, or of a run that then goes
   on or ends. *)
LEMMA SagaStep ==
    ASSUME RunsInv, [RecallNext]_recallRunVars
    PROVE  \/ UNCHANGED vars
           \/ \E c \in Commands :
                 /\ Execute(c)
                 /\ c \in Offered \/ c.type = "RECORD_ACKNOWLEDGMENT_HOLD"
           \/ \E r \in Left :
                 /\ r.step \in LedgerSteps
                 /\ SagaCommand(r) \in Commands /\ Execute(SagaCommand(r))
                 /\ r.step = "RECOVER" => r.recovery # None
  <1>1. \A c : Answered(c) => UNCHANGED vars \/ (c \in Commands /\ Execute(c))
    BY DEF Answered
  <1>2. ASSUME NEW n, NEW t, \/ Deliver(n, t) \/ RejectDelivery(n, t)
                             \/ RejectStale(n, t) \/ Escalate(t)
        PROVE  UNCHANGED vars
    BY <1>2 DEF Deliver, RejectDelivery, RejectStale, Escalate
  <1>3. ASSUME NEW r \in runs, RunStep(r)
        PROVE  \/ UNCHANGED vars
               \/ /\ r \in Left /\ r.step \in LedgerSteps
                  /\ SagaCommand(r) \in Commands /\ Execute(SagaCommand(r))
                  /\ r.step = "RECOVER" => r.recovery # None
    <2>1. CASE CallLedger(r)
      <3>1. /\ r.step \in LedgerSteps /\ Answered(SagaCommand(r))
            /\ r.step = "RECOVER" => r.recovery # None
        BY <2>1 DEF CallLedger
      <3>2. r \in Left
        <4>1. IsRun(r)
          BY DEF RunsInv
        <4>2. CASE Ends(r)
          BY <4>2 DEF Ends, Left
        <4>3. CASE Advance(r)
          <5>1. CASE runs' = runs \ {r}
            BY <5>1 DEF Left
          <5>2. ASSUME NEW next, Goes(r, next), next.step = NextStep[r.step],
                       r.step # "TERMINAL"
                PROVE  r \in Left
            <6>1. r.step \in DOMAIN NextStep
              BY <3>1, <5>2 DEF LedgerSteps, NextStep
            <6>2. next # r
              BY <5>2, <6>1, StepsAdvance
            <6> QED
              BY <5>2, <6>2 DEF Goes, Left
          <5> QED
            BY <3>1, <4>1, <4>3, <5>1, <5>2, AdvanceGoes
        <4> QED
          BY <2>1, <4>2, <4>3 DEF CallLedger
      <3> QED
        BY <1>1, <3>1, <3>2
    <2>2. CASE LoseAnswer(r)
      BY <2>2 DEF LoseAnswer, Ends, Left
    <2>3. CASE ReadInputs(r) \/ ReadCustody(r) \/ HaltForReview(r)
                  \/ HaltUnavailable(r) \/ ScheduleTask(r) \/ Fail(r)
      BY <2>3 DEF ReadInputs, ReadCustody, HaltForReview, HaltUnavailable,
                  ScheduleTask, Fail
    <2> QED
      BY <1>3, <2>1, <2>2, <2>3 DEF RunStep
  <1>4. ASSUME NEW id, AnswerTask(id) \/ LoseTaskAnswer(id)
        PROVE  \/ UNCHANGED vars
               \/ \E c \in Commands :
                     Execute(c) /\ c.type = "RECORD_ACKNOWLEDGMENT_HOLD"
    <2>1. PICK t \in tasks :
             \/ Answered(HoldCommand(t))
             \/ HoldCommand(t) \in Commands /\ Execute(HoldCommand(t))
      BY <1>4 DEF AnswerTask, LoseTaskAnswer
    <2>2. HoldCommand(t).type = "RECORD_ACKNOWLEDGMENT_HOLD"
      BY DEF HoldCommand, HoldCommandOn
    <2> QED
      BY <1>1, <2>1, <2>2
  <1>5. ASSUME NEW c \in Offered, OtherCaller(c)
        PROVE  c \in Commands /\ Execute(c)
    BY <1>5, NoticesAndTraces DEF OtherCaller
  <1>6. Midnight \/ UNCHANGED recallRunVars => UNCHANGED vars
    BY DEF Midnight, recallRunVars
  <1> QED
    BY <1>2, <1>3, <1>4, <1>5, <1>6 DEF RecallNext

-----------------------------------------------------------------------------
(* What a transaction adds to the receipts and to the allocations. *)

(* Receipt x is of the invalidation of a plan. *)
Downing(x) == x.status = "SUCCESS" /\ x.type = "INVALIDATE_PLAN"

(* What the types of the saga's calls say of the step. *)
LEMMA SagaTypes ==
    ASSUME NEW r, r.step \in LedgerSteps
    PROVE  LET c == SagaCommand(r) IN
           /\ c.inc = r.notice.incident /\ c.type # "PROCESS_PARTNER_EVIDENCE"
           /\ c.type = "OPEN_RECALL_INCIDENT" <=> r.step = "OPEN"
           /\ c.type = "INVALIDATE_PLAN" <=> r.step = "INVALIDATE"
           /\ c.type = "ALLOCATE_SAFE_STOCK" <=> r.step = "RECOVER"
           /\ r.step = "OPEN" => c.body.armor = r.trace
           /\ r.step = "RECOVER" => c.body = r.recovery
  <1>1. CASE r.step = "OPEN"
    BY <1>1 DEF SagaCommand, CoordinatorCall, SagaCall
  <1>2. CASE r.step \in {"SCOPING", "CONTAINMENT", "TERMINAL"}
    BY <1>2 DEF SagaCommand, StatusCall, CoordinatorCall, SagaCall
  <1>3. CASE r.step = "BARRIER"
    BY <1>3 DEF SagaCommand, CoordinatorCall, SagaCall
  <1>4. CASE r.step \in {"INVALIDATE", "RECOVER", "REFUSE"}
    BY <1>4 DEF SagaCommand, CoordinatorCall, SagaCall
  <1> QED
    BY <1>1, <1>2, <1>3, <1>4 DEF LedgerSteps

(* What one transaction adds to the receipts and to the allocations. *)
LEMMA ReceiptAdded ==
    ASSUME NEW c \in Commands, Execute(c), c.type # "PROCESS_PARTNER_EVIDENCE"
    PROVE  /\ \A x \in receipts' \ receipts :
                 /\ x.type = c.type /\ x.fp.inc = c.inc /\ x.fp.body = c.body
                 /\ Opening(x) => OpenRecallIncident(c)
                 /\ Downing(x) => InvalidatePlan(c)
           /\ \A x, y \in receipts' \ receipts : x = y
           /\ \/ allocations' = allocations
              \/ c.type = "ALLOCATE_SAFE_STOCK"
                    /\ allocations' = allocations \cup c.body.allocations
  <1>1. PICK status, rev :
           /\ receipts' = receipts \cup {Receipt(c, status, rev)}
           /\ \/ status = "DENIED"
              \/ OpenRecallIncident(c)
              \/ c.type # "OPEN_RECALL_INCIDENT"
    BY OpeningsStep
  <1>2. /\ Receipt(c, status, rev).type = c.type /\ Receipt(c, status, rev).status = status
        /\ Receipt(c, status, rev).fp = RequestFingerprint(c)
    BY DEF Receipt
  <1>3. RequestFingerprint(c).inc = c.inc /\ RequestFingerprint(c).body = c.body
    BY DEF RequestFingerprint
  <1>4. c.type = "INVALIDATE_PLAN" => \/ InvalidatePlan(c)
                                      \/ DenyRole(c) \/ DenyStaleRevision(c)
    BY DEF Execute, RecordRefusal, SavePlanRevision, PersistRepairProposal,
           PersistRepairApproval, ActivateApprovedRepairPlan, PersistCoordinator,
           OpenRecallIncident, SetIncidentStatus, ActivateMovementBarrier,
           AllocateSafeStock, RecordAcknowledgmentHold, ApplyPartnerEvidence,
           DenyPartnerEvidence, CreateNextDayDraft, ReaffirmNextDayDraft, Admitted
  <1>5. ASSUME NEW x \in receipts' \ receipts, Downing(x), ~InvalidatePlan(c)
        PROVE  FALSE
    <2>1. x.type = c.type /\ c.type = "INVALIDATE_PLAN" /\ x.status = "SUCCESS"
      BY <1>1, <1>2, <1>5 DEF Downing
    <2>2. \E v : receipts' = receipts \cup {Receipt(c, "DENIED", v)}
      BY <1>4, <1>5, <2>1 DEF DenyRole, DenyStaleRevision, Denied
    <2>3. PICK v : x = Receipt(c, "DENIED", v)
      BY <2>2
    <2>4. x.status = "DENIED"
      BY <2>3 DEF Receipt
    <2> QED
      BY <2>1, <2>4
  <1>6. CASE AllocateSafeStock(c)
    <2>1. c.type = "ALLOCATE_SAFE_STOCK"
             /\ allocations' = allocations \cup c.body.allocations
      BY <1>6 DEF AllocateSafeStock, Admitted
    <2> QED
      BY <1>1, <1>2, <1>3, <1>5, <2>1 DEF Opening
  <1>7. CASE ~AllocateSafeStock(c)
    <2>1. allocations' = allocations
      BY <1>7
      DEF Execute, DenyRole, DenyStaleRevision, RecordRefusal, SavePlanRevision,
          PersistRepairProposal, PersistRepairApproval, PersistCoordinator,
          ActivateApprovedRepairPlan, InvalidatePlan, OpenRecallIncident,
          SetIncidentStatus, ActivateMovementBarrier, RecordAcknowledgmentHold,
          ApplyPartnerEvidence, DenyPartnerEvidence, CreateNextDayDraft,
          ReaffirmNextDayDraft, dataVars, recoveryVars
    <2> QED
      BY <1>1, <1>2, <1>3, <1>5, <2>1 DEF Opening
  <1> QED
    BY <1>6, <1>7

(* The receipts of openings and invalidations, and the allocations, are the
   saga's own work. *)
LEMMA SagaWrites ==
    ASSUME SagaRunsRecalls, TypeOK, RunsInv, [RecallNext]_recallRunVars
    PROVE  /\ \A x \in receipts' \ receipts : Opening(x) =>
                 \E r \in Left : /\ r.step = "OPEN" /\ x.fp.inc = r.notice.incident
                                 /\ x.fp.body.armor = r.trace
                                 /\ ~IncidentExists(x.fp.inc)
           /\ \A x \in receipts' \ receipts : Downing(x) =>
                 \E r \in Left : /\ r.step = "INVALIDATE"
                                 /\ x.fp.inc = r.notice.incident
                                 /\ ActiveRows # {} /\ PlanDown'
           /\ \A x, y \in receipts' \ receipts :
                 (Opening(x) \/ Downing(x)) /\ (Opening(y) \/ Downing(y)) => x = y
           /\ \/ allocations' = allocations
              \/ \E r \in Left : /\ r.step = "RECOVER" /\ r.recovery # None
                                 /\ allocations' = allocations \cup r.recovery.allocations
  <1>1. CASE UNCHANGED vars
    BY <1>1 DEF vars, recoveryVars
  <1>2. ASSUME NEW c \in Commands, Execute(c),
               c \in Offered \/ c.type = "RECORD_ACKNOWLEDGMENT_HOLD"
        PROVE  /\ \A x \in receipts' \ receipts : ~Opening(x) /\ ~Downing(x)
               /\ allocations' = allocations
    <2>1. c.type \notin {"OPEN_RECALL_INCIDENT", "INVALIDATE_PLAN", "ALLOCATE_SAFE_STOCK"}
      BY <1>2 DEF SagaRunsRecalls
    <2>2. CASE c.type # "PROCESS_PARTNER_EVIDENCE"
      BY <1>2, <2>1, <2>2, ReceiptAdded DEF Opening, Downing
    <2>3. CASE c.type = "PROCESS_PARTNER_EVIDENCE"
      <3>1. PICK status, rev : receipts' = receipts \cup {Receipt(c, status, rev)}
        BY <1>2, OpeningsStep
      <3>2. Receipt(c, status, rev).type = c.type
        BY DEF Receipt
      <3>3. ~AllocateSafeStock(c)
        BY <2>3 DEF AllocateSafeStock, Admitted
      <3>4. allocations' = allocations
        BY <1>2, <3>3
        DEF Execute, DenyRole, DenyStaleRevision, RecordRefusal, SavePlanRevision,
            PersistRepairProposal, PersistRepairApproval, PersistCoordinator,
            ActivateApprovedRepairPlan, InvalidatePlan, OpenRecallIncident,
            SetIncidentStatus, ActivateMovementBarrier, RecordAcknowledgmentHold,
            ApplyPartnerEvidence, DenyPartnerEvidence, CreateNextDayDraft,
            ReaffirmNextDayDraft, dataVars, recoveryVars
      <3> QED
        BY <2>3, <3>1, <3>2, <3>4 DEF Opening, Downing
    <2> QED
      BY <2>2, <2>3
  <1>3. ASSUME NEW r \in Left, r.step \in LedgerSteps,
               SagaCommand(r) \in Commands, Execute(SagaCommand(r)),
               r.step = "RECOVER" => r.recovery # None
        PROVE  /\ \A x \in receipts' \ receipts : Opening(x) =>
                     /\ r.step = "OPEN" /\ x.fp.inc = r.notice.incident
                     /\ x.fp.body.armor = r.trace /\ ~IncidentExists(x.fp.inc)
               /\ \A x \in receipts' \ receipts : Downing(x) =>
                     /\ r.step = "INVALIDATE" /\ x.fp.inc = r.notice.incident
                     /\ ActiveRows # {} /\ PlanDown'
               /\ \A x, y \in receipts' \ receipts : x = y
               /\ \/ allocations' = allocations
                  \/ /\ r.step = "RECOVER" /\ r.recovery # None
                     /\ allocations' = allocations \cup r.recovery.allocations
    <2> DEFINE c == SagaCommand(r)
    <2>1. /\ c.inc = r.notice.incident /\ c.type # "PROCESS_PARTNER_EVIDENCE"
          /\ c.type = "OPEN_RECALL_INCIDENT" <=> r.step = "OPEN"
          /\ c.type = "INVALIDATE_PLAN" <=> r.step = "INVALIDATE"
          /\ c.type = "ALLOCATE_SAFE_STOCK" <=> r.step = "RECOVER"
          /\ r.step = "OPEN" => c.body.armor = r.trace
          /\ r.step = "RECOVER" => c.body = r.recovery
      BY <1>3, SagaTypes
    <2>2. c \in Commands /\ Execute(c)
      BY <1>3
    <2> HIDE DEF c
    <2>3. OpenRecallIncident(c) => ~IncidentExists(c.inc)
      BY DEF OpenRecallIncident
    <2>4. InvalidatePlan(c) => ActiveRows # {} /\ PlanDown'
      <3>1. ASSUME InvalidatePlan(c)
            PROVE  \E i : PlanRecalled(i)
        BY <2>2, <3>1, InvalidateRecalls
      <3>2. ASSUME NEW i, PlanRecalled(i)
            PROVE  ActiveRows # {} /\ PlanDown'
        <4>1. /\ i \in DOMAIN plans' /\ i \in ActiveRows /\ plans[i] \in PlanRow
              /\ plans'[i] = [plans[i] EXCEPT !.status = "INVALIDATED_RECALL"]
          BY <3>2, PlansDomain DEF PlanRecalled, ActiveRows, TypeOK
        <4>2. plans'[i].status = "INVALIDATED_RECALL"
          BY <4>1 DEF PlanRow
        <4> QED
          BY <4>1, <4>2 DEF PlanDown
      <3> QED
        BY <3>1, <3>2
    <2> QED
      BY <1>3, <2>1, <2>2, <2>3, <2>4, ReceiptAdded DEF Opening, Downing
  <1> QED
    BY <1>1, <1>2, <1>3, SagaStep

-----------------------------------------------------------------------------
(* Only one recall ever takes a plan down, so one recovery at most is allocated. *)

(* The incident of an opening is opened by the run of its trace. *)
OpenersAreMutating ==
    \A x \in receipts : Opening(x) =>
        /\ x.fp.body.armor \in delivered
        /\ \A r \in runs : r.trace = x.fp.body.armor => Mutating(r)

(* The plan is taken down once, by the recall whose run goes on to the recovery. *)
TakenDownOnce ==
    /\ \A x, y \in receipts : Downing(x) /\ Downing(y) => x = y
    /\ \A x \in receipts : Downing(x) => PlanDown /\ IncidentExists(x.fp.inc)
    /\ \A x \in receipts, r \in runs :
          Downing(x) /\ Mutating(r) /\ r.notice.incident = x.fp.inc
          => r.step \in AfterInvalidation
    /\ \A r \in runs : r.step \in AfterInvalidation =>
          \E x \in receipts : Downing(x) /\ x.fp.inc = r.notice.incident

(* Nothing is allocated before that, nor twice. *)
AllocatedOnce ==
    /\ allocations # {} => PlanDown /\ \A r \in runs : r.step # "RECOVER"
    /\ Fits(allocations)

(* The recovery of every run fits the lots. *)
RecoveriesFit == \A r \in runs : r.recovery # None => Fits(r.recovery.allocations)

SagaInv == OpenersAreMutating /\ TakenDownOnce /\ AllocatedOnce

(* What the steps of the saga are among. *)
LEMMA StepsOfRuns ==
    ASSUME NEW q, NEW r, Follows(q, r)
    PROVE  /\ Mutating(r) => Mutating(q)
           /\ Mutating(q) => Mutating(r) \/ (r.step = "OPEN" /\ q.step = "SCOPING"
                                             /\ Answered(SagaCommand(r))
                                             /\ Succeeded(SagaCommand(r)))
           /\ q.step \in AfterInvalidation =>
                 \/ r.step \in AfterInvalidation
                 \/ /\ r.step = "INVALIDATE"
                    /\ Answered(SagaCommand(r)) /\ Succeeded(SagaCommand(r))
           /\ r.step \in AfterInvalidation \cup {"INVALIDATE"} =>
                 q.step \in AfterInvalidation
           /\ q.step = "RECOVER" => r.step = "INVALIDATE"
           /\ r.step = "OPEN" => ~Mutating(r)
           /\ r.step = "OPEN" /\ q.step = NextStep["OPEN"] => Mutating(q)
  <1>1. CASE r.step \in {"READ", "CUSTODY"} /\ q.step \in {"CUSTODY", "OPEN"}
    BY <1>1 DEF Mutating, LedgerSteps, AfterInvalidation, AfterRecovery
  <1>2. CASE /\ r.step \in LedgerSteps \ {"TERMINAL"} /\ q.step = NextStep[r.step]
             /\ Answered(SagaCommand(r))
             /\ Succeeded(SagaCommand(r)) \/ r.step = "REFUSE"
    BY <1>2 DEF Mutating, LedgerSteps, AfterInvalidation, AfterRecovery, NextStep
  <1>3. CASE r.step = "TASK" /\ q.step = "TERMINAL"
    BY <1>3 DEF Mutating, LedgerSteps, AfterInvalidation, AfterRecovery
  <1> QED
    BY <1>1, <1>2, <1>3 DEF Follows

(* A new run has called nothing yet. *)
LEMMA FreshIsEarly ==
    ASSUME NEW q, Fresh(q)
    PROVE  ~Mutating(q) /\ q.step \notin AfterInvalidation /\ q.step # "RECOVER"
  BY DEF Fresh, Mutating, LedgerSteps, AfterInvalidation, AfterRecovery

(* OpenersAreMutating is preserved. *)
LEMMA OpenersStep ==
    ASSUME SagaRunsRecalls, TypeOK, RunsInv, OpenersAreMutating,
           [RecallNext]_recallRunVars
    PROVE  OpenersAreMutating'
  <1> SUFFICES ASSUME NEW x \in receipts', Opening(x)
               PROVE  /\ x.fp.body.armor \in delivered'
                      /\ \A q \in runs' : q.trace = x.fp.body.armor => Mutating(q)
    BY DEF OpenersAreMutating, Opening, Mutating
  <1> DEFINE t == x.fp.body.armor
  <1> HIDE DEF t
  <1>1. t \in delivered
    <2>1. CASE x \in receipts
      BY <2>1 DEF OpenersAreMutating, t
    <2>2. CASE x \notin receipts
      BY <2>2, SagaWrites DEF Left, RunsInv, t
    <2> QED
      BY <2>1, <2>2
  <1>2. \A r \in Left : r.trace = t => Mutating(r) \/ (r.step = "OPEN" /\ x \notin receipts)
    <2>1. CASE x \in receipts
      BY <2>1 DEF OpenersAreMutating, t, Left
    <2>2. CASE x \notin receipts
      <3>1. PICK s \in Left : s.step = "OPEN" /\ t = s.trace
        BY <2>2, SagaWrites DEF t
      <3> QED
        BY <2>2, <3>1 DEF Left, RunsInv
    <2> QED
      BY <2>1, <2>2
  <1>3. \A r \in runs \cap runs' : r.trace = t => Mutating(r)
    <2>1. CASE x \in receipts
      BY <2>1 DEF OpenersAreMutating, t
    <2>2. CASE x \notin receipts
      <3>1. PICK s \in Left : s.step = "OPEN" /\ t = s.trace
        BY <2>2, SagaWrites DEF t
      <3> QED
        BY <2>2, <3>1 DEF Left, RunsInv
    <2> QED
      BY <2>1, <2>2
  <1>4. ASSUME NEW q \in runs', q.trace = t
        PROVE  Mutating(q)
    <2>1. CASE q \in runs
      BY <1>3, <1>4, <2>1
    <2>2. CASE Fresh(q)
      BY <1>1, <1>4, <2>2 DEF Fresh
    <2>3. ASSUME NEW r \in Left, Follows(q, r)
          PROVE  Mutating(q)
      <3>1. r.trace = t
        BY <1>4, <2>3 DEF Follows
      <3>2. CASE Mutating(r)
        BY <2>3, <3>2, StepsOfRuns
      <3>3. CASE r.step = "OPEN"
        <4>1. q.step = NextStep["OPEN"]
          BY <2>3, <3>3 DEF Follows
        <4> QED
          BY <2>3, <3>3, <4>1, StepsOfRuns
      <3> QED
        BY <1>2, <3>1, <3>2, <3>3
    <2> QED
      BY <2>1, <2>2, <2>3, RunsFollow
  <1>5. delivered \subseteq delivered'
    BY RunsFollow
  <1> QED
    BY <1>1, <1>4, <1>5 DEF t

(* An answered invalidation has the receipt of its own incident. *)
LEMMA AnsweredDowning ==
    ASSUME TypeOK, ReceiptsInv, NEW r, r.step = "INVALIDATE",
           Answered(SagaCommand(r)), Succeeded(SagaCommand(r))
    PROVE  \E x \in receipts' : Downing(x) /\ x.fp.inc = r.notice.incident
  <1> DEFINE c == SagaCommand(r)
  <1>1. /\ c.type = "INVALIDATE_PLAN" /\ c.inc = r.notice.incident
        /\ Answered(c) /\ Succeeded(c)
    BY DEF SagaCommand, CoordinatorCall, SagaCall
  <1> HIDE DEF c
  <1>2. PICK x \in receipts' : x.status = "SUCCESS" /\ ReceiptOf(x, c)
    BY <1>1, AnsweredHasReceipt
  <1>3. RequestFingerprint(c).inc = c.inc
    BY <1>1 DEF RequestFingerprint
  <1> QED
    BY <1>1, <1>2, <1>3 DEF ReceiptOf, Downing

(* No run opens the incident of a plan that is down. *)
LEMMA OpeningIsFirst ==
    ASSUME SagaRunsRecalls, TypeOK, ReceiptsInv, RunsInv, OpenersAreMutating,
           TakenDownOnce, [RecallNext]_recallRunVars,
           NEW r \in runs, r.step = "OPEN",
           Answered(SagaCommand(r)), Succeeded(SagaCommand(r)),
           NEW x \in receipts', Downing(x)
    PROVE  x.fp.inc # r.notice.incident
  <1>1. PICK y \in receipts' : /\ Opening(y) /\ y.fp.inc = r.notice.incident
                               /\ y.fp.body.armor = r.trace
    <2>1. OpenedItself(r)'
      BY AnsweredOpening
    <2> QED
      BY <2>1 DEF OpenedItself, Opening
  <1>2. ~Mutating(r)
    BY DEF Mutating, LedgerSteps
  <1>3. y \notin receipts
    BY <1>1, <1>2 DEF OpenersAreMutating
  <1>4. ~IncidentExists(r.notice.incident)
    BY <1>1, <1>3, SagaWrites
  <1>5. x \in receipts
    <2>1. x # y
      BY <1>1 DEF Opening, Downing
    <2> QED
      BY <1>1, <1>3, <2>1, SagaWrites
  <1> QED
    BY <1>4, <1>5 DEF TakenDownOnce

(* TakenDownOnce is preserved. *)
LEMMA TakenDownStep ==
    ASSUME SagaRunsRecalls, TypeOK, ReceiptsInv, OpenedOnce, RunsInv, RunsOnTheWay,
           OpenersAreMutating, TakenDownOnce, PlanDown => ActiveRows = {},
           [RecallNext]_recallRunVars, [Next]_vars
    PROVE  TakenDownOnce'
  <1>0. OneWriterPerRecall
    BY OneOpenedIt
  <1>0a. PlanDown => PlanDown'
    BY PlansKept DEF PlanDown
  <1>1. ASSUME NEW x \in receipts', Downing(x), NEW y \in receipts', Downing(y)
        PROVE  x = y
    <2>1. CASE x \in receipts /\ y \in receipts
      BY <1>1, <2>1 DEF TakenDownOnce
    <2>2. CASE x \notin receipts /\ y \notin receipts
      BY <1>1, <2>2, SagaWrites
    <2>3. ASSUME NEW u \in receipts, Downing(u), NEW w \in receipts' \ receipts, Downing(w)
          PROVE  FALSE
      <3>1. PlanDown
        BY <2>3 DEF TakenDownOnce
      <3>2. ActiveRows # {}
        BY <2>3, SagaWrites
      <3> QED
        BY <3>1, <3>2
    <2> QED
      BY <1>1, <2>1, <2>2, <2>3
  <1>2. ASSUME NEW x \in receipts', Downing(x)
        PROVE  PlanDown' /\ IncidentExists(x.fp.inc)'
    <2>1. CASE x \in receipts
      <3>1. PlanDown /\ IncidentExists(x.fp.inc)
        BY <1>2, <2>1 DEF TakenDownOnce
      <3> QED
        BY <1>0a, <3>1, IncidentsKept
    <2>2. CASE x \notin receipts
      <3>1. PICK r \in Left : /\ r.step = "INVALIDATE" /\ PlanDown'
                              /\ x.fp.inc = r.notice.incident
        BY <1>2, <2>2, SagaWrites
      <3>2. IncidentExists(r.notice.incident)
        <4>1. Way(r) /\ Mutating(r)
          BY <3>1 DEF RunsOnTheWay, Left, Mutating, LedgerSteps
        <4> QED
          BY <4>1 DEF Way, OfLot
      <3> QED
        BY <3>1, <3>2, IncidentsKept
    <2> QED
      BY <2>1, <2>2
  <1>3. ASSUME NEW x \in receipts', Downing(x), NEW q \in runs', Mutating(q),
               q.notice.incident = x.fp.inc
        PROVE  q.step \in AfterInvalidation
    <2>1. CASE x \in receipts
      <3>1. CASE q \in runs
        BY <1>3, <2>1, <3>1 DEF TakenDownOnce
      <3>2. ASSUME NEW r \in Left, Follows(q, r)
            PROVE  q.step \in AfterInvalidation
        <4>1. r \in runs /\ r.notice.incident = x.fp.inc
          BY <1>3, <3>2 DEF Follows, Left
        <4>2. Mutating(r)
          BY <1>3, <3>2, <4>1, StepsOfRuns, OpeningIsFirst
        <4>3. r.step \in AfterInvalidation
          BY <1>3, <2>1, <4>1, <4>2 DEF TakenDownOnce
        <4> QED
          BY <3>2, <4>3, StepsOfRuns
      <3> QED
        BY <1>3, <3>1, <3>2, RunsFollow, FreshIsEarly
    <2>2. CASE x \notin receipts
      <3>1. PICK s \in Left : s.step = "INVALIDATE" /\ x.fp.inc = s.notice.incident
        BY <1>3, <2>2, SagaWrites
      <3>2. s \in runs /\ s \notin runs' /\ Mutating(s)
        BY <3>1 DEF Left, Mutating, LedgerSteps
      <3>3. CASE q \in runs
        BY <1>0, <1>3, <3>1, <3>2, <3>3 DEF OneWriterPerRecall
      <3>4. ASSUME NEW r \in Left, Follows(q, r)
            PROVE  q.step \in AfterInvalidation
        <4>1. r \in runs /\ r.notice.incident = x.fp.inc
          BY <1>3, <3>4 DEF Follows, Left
        <4>2. Mutating(r)
          BY <1>3, <3>4, <4>1, StepsOfRuns, OpeningIsFirst
        <4>3. r = s
          BY <1>0, <3>1, <3>2, <4>1, <4>2 DEF OneWriterPerRecall
        <4> QED
          BY <3>1, <3>4, <4>3, StepsOfRuns
      <3> QED
        BY <1>3, <3>3, <3>4, RunsFollow, FreshIsEarly
    <2> QED
      BY <2>1, <2>2
  <1>4. ASSUME NEW q \in runs', q.step \in AfterInvalidation
        PROVE  \E x \in receipts' : Downing(x) /\ x.fp.inc = q.notice.incident
    <2>1. ASSUME NEW r \in runs, r.step \in AfterInvalidation
          PROVE  \E x \in receipts' : Downing(x) /\ x.fp.inc = r.notice.incident
      BY <2>1, ReceiptsGrow DEF TakenDownOnce
    <2>2. CASE q \in runs
      BY <1>4, <2>1, <2>2
    <2>3. ASSUME NEW r \in Left, Follows(q, r)
          PROVE  \E x \in receipts' : Downing(x) /\ x.fp.inc = q.notice.incident
      <3>1. r \in runs /\ q.notice = r.notice
        BY <2>3 DEF Left, Follows
      <3>2. \E x \in receipts' : Downing(x) /\ x.fp.inc = r.notice.incident
        BY <1>4, <2>1, <2>3, <3>1, StepsOfRuns, AnsweredDowning
      <3> QED
        BY <3>1, <3>2
    <2> QED
      BY <1>4, <2>2, <2>3, RunsFollow, FreshIsEarly
  <1> QED
    BY <1>1, <1>2, <1>3, <1>4 DEF TakenDownOnce, Downing, Mutating

-----------------------------------------------------------------------------
(* The recovery of every run fits, and nothing but that recovery is allocated. *)

(* The lines a saga reads can be counted. *)
LEMMA AffectedLinesFinite ==
    ASSUME TypeOK, StockIsKeyed, NEW rev, NEW lot
    PROVE  /\ IsFiniteSet(AffectedLines(rev, lot))
           /\ \A l \in AffectedLines(rev, lot) : l.cases \in Nat
  <1> DEFINE rows == {x \in orders : x.rev = rev /\ x.line.lot = lot}
             f == [o \in rows |-> o.line]
  <1>1. AffectedLines(rev, lot) = {f[o] : o \in rows} /\ DOMAIN f = rows
    BY DEF AffectedLines
  <1>2. IsFiniteSet(rows)
    BY FS_Subset DEF StockIsKeyed
  <1>3. \A o \in rows : f[o].cases \in Nat
    BY DEF TypeOK, OrderRow, OrderLine, PosInt
  <1> HIDE DEF f, rows
  <1>4. IsFiniteSet(AffectedLines(rev, lot))
    BY <1>1, <1>2, FiniteImage
  <1> QED
    BY <1>1, <1>3, <1>4

LEMMA AffectedLinesCounted ==
    ASSUME TypeOK, StockIsKeyed, NEW rev, NEW lot,
           NEW os \in SetToSeqs(AffectedLines(rev, lot))
    PROVE  Counted(os)
  BY AffectedLinesFinite, RowsInSequence

SameRecovery(q, r) == q.recovery = r.recovery /\ q.notice = r.notice /\ q.rev = r.rev

(* A run that advances keeps its recovery. *)
LEMMA AdvanceKeeps ==
    ASSUME NEW r, IsRun(r), Advance(r)
    PROVE  \A q \in runs' : q \in runs \/ SameRecovery(q, r)
  <1> DEFINE next == [r EXCEPT !.step = NextStep[r.step]]
  <1>1. next.recovery = r.recovery /\ next.notice = r.notice /\ next.rev = r.rev
    BY DEF IsRun
  <1> HIDE DEF next
  <1> QED
    BY <1>1 DEF Advance, Moved, SameRecovery, next

(* The recovery of run q is made from what it reads of its revision and lot. *)
MadeFrom(q, os, ls) ==
    /\ q.recovery = Recovery(q.notice.incident, os, ls) /\ ~IdsCollide(os, ls)
    /\ \E i \in ActiveRows : plans[i].rev = q.rev

(* A recovery is made from the reads of a run, and is carried along. *)
LEMMA RecoveriesStep ==
    ASSUME RunsInv, [RecallNext]_recallRunVars, NEW q \in runs'
    PROVE  \/ q.recovery = None
           \/ \E r \in runs : SameRecovery(q, r)
           \/ \E os \in SetToSeqs(AffectedLines(q.rev, q.notice.lot)),
                 ls \in SetToSeqs(ClearLots) : MadeFrom(q, os, ls)
  <1> DEFINE Kept == q.recovery = None \/ \E r \in runs : SameRecovery(q, r)
             Made == \E os \in SetToSeqs(AffectedLines(q.rev, q.notice.lot)),
                        ls \in SetToSeqs(ClearLots) : MadeFrom(q, os, ls)
  <1>0. q \in runs => Kept
    BY DEF SameRecovery
  <1>1. ASSUME NEW n, NEW t, Deliver(n, t)
        PROVE  Kept
    <2>1. PICK rev : runs' = runs \cup {NewRun(n, t, rev)}
      BY <1>1 DEF Deliver
    <2>2. NewRun(n, t, rev).recovery = None
      BY DEF NewRun
    <2> QED
      BY <1>0, <2>1, <2>2
  <1>2. ASSUME NEW r \in runs, ReadInputs(r)
        PROVE  Kept \/ Made
    <2>1. PICK i \in ActiveRows, os \in SetToSeqs(AffectedLines(r.rev, r.notice.lot)),
               ls \in SetToSeqs(ClearLots) :
             /\ {j \in ActiveRows : plans[j].rev = r.rev} = {i}
             /\ runs' = (runs \ {r}) \cup
                  {[r EXCEPT !.step = "CUSTODY", !.plan = plans[i].plan,
                             !.recovery = IF IdsCollide(os, ls) THEN None
                                          ELSE Recovery(r.notice.incident, os, ls)]}
      BY <1>2 DEF ReadInputs, Moved
    <2>2. PICK recovery : recovery = IF IdsCollide(os, ls) THEN None
                                     ELSE Recovery(r.notice.incident, os, ls)
      OBVIOUS
    <2> DEFINE next == [r EXCEPT !.step = "CUSTODY", !.plan = plans[i].plan,
                                 !.recovery = recovery]
    <2>3. next.recovery = recovery /\ next.notice = r.notice /\ next.rev = r.rev
      BY DEF RunsInv, IsRun
    <2>4. runs' = (runs \ {r}) \cup {next}
      BY <2>1, <2>2
    <2> HIDE DEF next
    <2>5. CASE q = next
      <3>1. CASE IdsCollide(os, ls)
        BY <2>2, <2>3, <2>5, <3>1
      <3>2. CASE ~IdsCollide(os, ls)
        <4>1. /\ q.recovery = Recovery(r.notice.incident, os, ls)
              /\ q.notice = r.notice /\ q.rev = r.rev
          BY <2>2, <2>3, <2>5, <3>2
        <4>2. i \in ActiveRows /\ plans[i].rev = q.rev
          BY <2>1, <4>1
        <4>3. MadeFrom(q, os, ls)
          BY <3>2, <4>1, <4>2 DEF MadeFrom
        <4> QED
          BY <4>1, <4>3
      <3> QED
        BY <3>1, <3>2
    <2> QED
      BY <1>0, <2>4, <2>5
  <1>3. ASSUME NEW r \in runs, ReadCustody(r)
        PROVE  Kept
    <2>1. PICK n \in nodes :
             runs' = (runs \ {r}) \cup {[r EXCEPT !.step = "OPEN", !.site = n.node,
                                                !.cases = n.cases]}
      BY <1>3 DEF ReadCustody, Moved
    <2>2. SameRecovery([r EXCEPT !.step = "OPEN", !.site = n.node, !.cases = n.cases], r)
      BY DEF RunsInv, IsRun, SameRecovery
    <2> QED
      BY <1>0, <2>1, <2>2
  <1>4. ASSUME NEW r \in runs, CallLedger(r) \/ ScheduleTask(r)
        PROVE  Kept
    <2>1. Advance(r) \/ Ends(r)
      BY <1>4 DEF CallLedger, ScheduleTask
    <2> QED
      BY <1>0, <2>1, AdvanceKeeps DEF Ends, RunsInv
  <1>5. ASSUME NEW r \in runs,
               HaltForReview(r) \/ HaltUnavailable(r) \/ LoseAnswer(r) \/ Fail(r)
        PROVE  Kept
    BY <1>0, <1>5 DEF HaltForReview, HaltUnavailable, LoseAnswer, Fail, Ends
  <1>6. ASSUME NEW r \in runs, RunStep(r)
        PROVE  Kept \/ Made
    BY <1>2, <1>3, <1>4, <1>5, <1>6 DEF RunStep
  <1>7. ASSUME runs' = runs
        PROVE  Kept
    BY <1>0, <1>7
  <1>8. ASSUME NEW n, NEW t, RejectDelivery(n, t) \/ RejectStale(n, t) \/ Escalate(t)
        PROVE  runs' = runs
    BY <1>8 DEF RejectDelivery, RejectStale, Escalate
  <1>9. ASSUME NEW id, AnswerTask(id) \/ LoseTaskAnswer(id)
        PROVE  runs' = runs
    BY <1>9 DEF AnswerTask, LoseTaskAnswer, orchestratorVars
  <1>10. ASSUME NEW c, OtherCaller(c)
         PROVE  runs' = runs
    BY <1>10 DEF OtherCaller, orchestratorVars
  <1>11. Midnight \/ UNCHANGED recallRunVars => runs' = runs
    BY DEF Midnight, recallRunVars, orchestratorVars
  <1> HIDE DEF Kept, Made
  <1>12. Kept \/ Made
    BY <1>1, <1>6, <1>7, <1>8, <1>9, <1>10, <1>11 DEF RecallNext
  <1> QED
    BY <1>12 DEF Kept, Made

(* RecoveriesFit is preserved. *)
LEMMA RecoveriesFitStep ==
    ASSUME TypeOK, RunsInv, StockIsKeyed, RecoveriesFit,
           [RecallNext]_recallRunVars, [Next]_vars
    PROVE  RecoveriesFit'
  <1> SUFFICES ASSUME NEW q \in runs', q.recovery # None
               PROVE  Fits(q.recovery.allocations)'
    BY DEF RecoveriesFit
  <1>1. PICK given : given = q.recovery.allocations
    OBVIOUS
  <1>2. Fits(given)
    <2>1. ASSUME NEW r \in runs, SameRecovery(q, r)
          PROVE  Fits(given)
      BY <1>1, <2>1 DEF RecoveriesFit, SameRecovery
    <2>2. ASSUME NEW os \in SetToSeqs(AffectedLines(q.rev, q.notice.lot)),
                 NEW ls \in SetToSeqs(ClearLots), MadeFrom(q, os, ls)
          PROVE  Fits(given)
      <3>1. Counted(os)
        BY AffectedLinesCounted
      <3> QED
        BY <1>1, <2>2, <3>1, RecoveryFits DEF MadeFrom
    <2> QED
      BY <2>1, <2>2, RecoveriesStep
  <1>3. Fits(given)'
    BY <1>2, FitsKept
  <1> QED
    BY <1>1, <1>3

(* AllocatedOnce is preserved. *)
LEMMA AllocatedStep ==
    ASSUME SagaRunsRecalls, TypeOK, ReceiptsInv, OpenedOnce, RunsInv, StockIsKeyed,
           TakenDownOnce, RecoveriesFit, AllocatedOnce, PlanDown => ActiveRows = {},
           [RecallNext]_recallRunVars, [Next]_vars
    PROVE  AllocatedOnce'
  <1>0. OneWriterPerRecall
    BY OneOpenedIt
  <1>0a. PlanDown => PlanDown'
    BY PlansKept DEF PlanDown
  <1>1. ASSUME PlanDown, NEW q \in runs', q.step = "RECOVER"
        PROVE  q \in runs
    <2>1. ASSUME NEW r \in Left, Follows(q, r)
          PROVE  FALSE
      <3>1. r \in runs /\ r.step = "INVALIDATE"
        BY <1>1, <2>1, StepsOfRuns DEF Left
      <3>2. PICK x \in receipts' : Downing(x) /\ x.fp.inc = r.notice.incident
        <4>1. Answered(SagaCommand(r)) /\ Succeeded(SagaCommand(r))
          BY <2>1, <3>1 DEF Follows
        <4> QED
          BY <3>1, <4>1, AnsweredDowning
      <3>3. CASE x \in receipts
        <4>1. Mutating(r) /\ r.step \notin AfterInvalidation
          BY <3>1 DEF Mutating, LedgerSteps, AfterInvalidation, AfterRecovery
        <4> QED
          BY <3>1, <3>2, <3>3, <4>1 DEF TakenDownOnce
      <3>4. CASE x \notin receipts
        BY <1>1, <3>2, <3>4, SagaWrites
      <3> QED
        BY <3>3, <3>4
    <2> QED
      BY <1>1, <2>1, RunsFollow, FreshIsEarly
  <1>3. CASE allocations' = allocations
    <2>1. PICK given : given = allocations
      OBVIOUS
    <2>2. Fits(given)'
      BY <2>1, FitsKept DEF AllocatedOnce
    <2>3. Fits(allocations)'
      BY <1>3, <2>1, <2>2
    <2>4. allocations' # {} => PlanDown' /\ \A q \in runs' : q.step # "RECOVER"
      BY <1>0a, <1>1, <1>3 DEF AllocatedOnce
    <2> QED
      BY <2>3, <2>4 DEF AllocatedOnce
  <1>4. ASSUME NEW r \in Left, r.step = "RECOVER", r.recovery # None,
               allocations' = allocations \cup r.recovery.allocations
        PROVE  AllocatedOnce'
    <2>1. r \in runs /\ r \notin runs' /\ Mutating(r) /\ r.step \in AfterInvalidation
      BY <1>4 DEF Left, Mutating, LedgerSteps, AfterInvalidation
    <2>2. PICK x \in receipts : Downing(x) /\ x.fp.inc = r.notice.incident
      BY <2>1 DEF TakenDownOnce
    <2>3. PlanDown
      BY <2>2 DEF TakenDownOnce
    <2>4. allocations = {}
      BY <1>4, <2>1 DEF AllocatedOnce
    <2>5. PICK given : given = r.recovery.allocations
      OBVIOUS
    <2>6. Fits(given)'
      BY <1>4, <2>1, <2>5, FitsKept DEF RecoveriesFit
    <2>7. allocations' = given
      BY <1>4, <2>4, <2>5
    <2>8. Fits(allocations)'
      BY <2>6, <2>7
    <2>9. ASSUME NEW q \in runs', q.step = "RECOVER"
          PROVE  FALSE
      <3>1. q \in runs /\ Mutating(q) /\ q.step \in AfterInvalidation
        BY <1>1, <2>3, <2>9 DEF Mutating, LedgerSteps, AfterInvalidation
      <3>2. PICK y \in receipts : Downing(y) /\ y.fp.inc = q.notice.incident
        BY <3>1 DEF TakenDownOnce
      <3>3. q.notice.incident = r.notice.incident
        BY <2>2, <3>2 DEF TakenDownOnce
      <3> QED
        BY <1>0, <2>1, <3>1, <3>3 DEF OneWriterPerRecall
    <2> QED
      BY <1>0a, <2>3, <2>8, <2>9 DEF AllocatedOnce
  <1> QED
    BY <1>3, <1>4, SagaWrites

(* Once the plan of the day is down, no revision is in force. *)
LEMMA NoPlanIsActive ==
    ASSUME OnePlanOfTheDay, PlansAreSaved, RecalledPlanStaysDown, PlanDown
    PROVE  ActiveRows = {}
  <1>1. PICK i \in DOMAIN plans : plans[i].status = "INVALIDATED_RECALL"
    BY DEF PlanDown
  <1>2. ASSUME NEW j \in ActiveRows
        PROVE  FALSE
    <2>1. j \in DOMAIN plans /\ plans[j].status = "ACTIVE"
      BY DEF ActiveRows
    <2>2. plans[i].plan = plans[j].plan
      BY <1>1, <2>1 DEF PlansAreSaved, OnePlanOfTheDay
    <2> QED
      BY <1>1, <2>1, <2>2 DEF RecalledPlanStaysDown
  <1> QED
    BY <1>2

LEMMA WayInvariant == RecallSpec => [](TasksAreNamed /\ RunsOnTheWay)
  <1> DEFINE Inv == TasksAreNamed /\ RunsOnTheWay
  <1>1. RecallInit => Inv
    BY DEF RecallInit, TasksAreNamed, RunsOnTheWay
  <1>2. TypeOK /\ ReceiptsInv /\ RunsInv /\ Inv /\ [RecallNext]_recallRunVars => Inv'
    BY TasksNamedStep, WayStep, TaskToComeStep DEF RunsOnTheWay
  <1> QED
    BY <1>1, <1>2, RunsInvariant, PTL DEF RecallSpec

(* Orders and lots can be counted, and the recovery of every run fits. *)
LEMMA StockInvariant == RecallSpec => [](StockIsKeyed /\ RecoveriesFit)
  <1>1. RecallInit => StockIsKeyed /\ RecoveriesFit
    <2>1. RecallInit => runs = {} /\ orders = {} /\ lots = {}
      BY DEF RecallInit, Init
    <2> QED
      BY <2>1, FS_EmptySet DEF StockIsKeyed, RecoveriesFit
  <1>2. TypeOK /\ RunsInv /\ StockIsKeyed /\ RecoveriesFit /\ [RecallNext]_recallRunVars
        => (StockIsKeyed /\ RecoveriesFit)'
    BY RecallStepIsLedgerStep, StockIsKeyedStep, RecoveriesFitStep
  <1> QED
    BY <1>1, <1>2, RunsInvariant, PTL DEF RecallSpec

(* SagaInv holds in every reachable state. *)
LEMMA SagaInvariant ==
    ASSUME SagaRunsRecalls, OnePlanOfTheDay
    PROVE  RecallSpec => []SagaInv
  <1> DEFINE Ledger == TypeOK /\ ReceiptsInv /\ OpenedOnce /\ PlansAreSaved
                          /\ RecalledPlanStaysDown
             Stock == StockIsKeyed /\ RecoveriesFit
  <1>1. RecallSpec => []Ledger
    BY RecallUsesLedger, TypeCorrect, ReceiptsInvariant, OpenedOnceInvariant,
       PlansAreSavedInvariant, RecallIsFinal, PTL
  <1>2. RecallInit => SagaInv
    <2>1. RecallInit => AllocatedOnce
      <3>1. RecallInit => allocations = {} /\ runs = {} /\ lots = {}
        BY DEF RecallInit, Init
      <3>2. ASSUME lots = {}
            PROVE  Fits({})
        BY <3>2, CasesInNothing DEF Fits
      <3> QED
        BY <3>1, <3>2 DEF AllocatedOnce
    <2> QED
      BY <2>1 DEF RecallInit, Init, SagaInv, OpenersAreMutating, TakenDownOnce
  <1>3. Ledger /\ RunsInv /\ RunsOnTheWay /\ Stock /\ SagaInv
        /\ [RecallNext]_recallRunVars => SagaInv'
    <2> SUFFICES ASSUME Ledger, RunsInv, RunsOnTheWay, Stock, SagaInv,
                        [RecallNext]_recallRunVars
                 PROVE  SagaInv'
      OBVIOUS
    <2>1. [Next]_vars
      BY RecallStepIsLedgerStep
    <2>2. PlanDown => ActiveRows = {}
      BY NoPlanIsActive
    <2>3. OpenersAreMutating'
      BY OpenersStep DEF SagaInv
    <2>4. TakenDownOnce'
      BY <2>1, <2>2, TakenDownStep DEF SagaInv
    <2>5. AllocatedOnce'
      BY <2>1, <2>2, AllocatedStep DEF SagaInv
    <2> QED
      BY <2>3, <2>4, <2>5 DEF SagaInv
  <1>4. RecallSpec => []Stock
    BY StockInvariant
  <1> HIDE DEF Ledger, Stock
  <1> QED
    BY <1>1, <1>2, <1>3, <1>4, RunsInvariant, WayInvariant, PTL DEF RecallSpec

(* Where the saga alone runs recalls and the day has one plan, recalls that run
   side by side never promise the same safe cases twice: the recovery of the one
   run that took the plan down is the only one, and it draws no lot beyond its
   cases. *)
THEOREM StockIsPromisedOnce ==
    ASSUME SagaRunsRecalls, OnePlanOfTheDay
    PROVE  RecallSpec => []SafeStockPromisedOnce
  <1>1. SagaInv => SafeStockPromisedOnce
    BY DEF SagaInv, AllocatedOnce, Fits, SafeStockPromisedOnce
  <1> QED
    BY <1>1, SagaInvariant, PTL

-----------------------------------------------------------------------------
(* A recovery accounts for every case: first what it says of one order. *)

(* The next interval adds exactly what it shares with that part. *)
LEMMA PartAdds ==
    ASSUME NEW x \in Nat, NEW y \in Nat, NEW low \in Nat, NEW high \in Nat,
           x <= y, low <= high
    PROVE  LET d == Least(y, high) - Greatest(x, low)
           IN  Part(y, low, high) = Part(x, low, high) + (IF d > 0 THEN d ELSE 0)
  BY DEF Part, Least, Greatest

(* What order i draws from the lots up to n. *)
OfOrder(inc, os, ls, i, n) ==
    {AllocationOf(inc, os, ls, <<i, j>>) : j \in {k \in 1..n : Drawn(os, i, ls, k) > 0}}
Served(os, ls, i, n) == Part(UpTo(ls, n), UpTo(os, i - 1), UpTo(os, i))

LEMMA ServedAdds ==
    ASSUME NEW os, NEW ls, Counted(os), Counted(ls),
           NEW i \in 1..Len(os), NEW n \in 1..Len(ls)
    PROVE  /\ Served(os, ls, i, n - 1) \in Nat
           /\ Drawn(os, i, ls, n) \in Int
           /\ Served(os, ls, i, n) = Served(os, ls, i, n - 1)
                 + (IF Drawn(os, i, ls, n) > 0 THEN Drawn(os, i, ls, n) ELSE 0)
  <1> DEFINE x == UpTo(ls, n - 1)
             y == UpTo(ls, n)
             low == UpTo(os, i - 1)
             high == UpTo(os, i)
             drawn == Drawn(os, i, ls, n)
             before == Served(os, ls, i, n - 1)
             after == Served(os, ls, i, n)
  <1>1. x \in Nat /\ y \in Nat /\ x <= y
    BY UpToAt
  <1>2. low \in Nat /\ high \in Nat /\ low <= high
    BY UpToAt
  <1>3. drawn = Least(high, y) - Greatest(low, x)
    BY DrawnIs
  <1>4. before = Part(x, low, high) /\ after = Part(y, low, high)
    BY DEF Served
  <1> HIDE DEF x, y, low, high, drawn, before, after
  <1>5. Least(high, y) = Least(y, high) /\ Greatest(low, x) = Greatest(x, low)
    BY <1>1, <1>2 DEF Least, Greatest
  <1>6. /\ before \in Nat /\ drawn \in Int
        /\ after = before + (IF drawn > 0 THEN drawn ELSE 0)
    <2>1. drawn = Least(y, high) - Greatest(x, low)
      BY <1>3, <1>5
    <2>2. before \in Nat /\ drawn \in Int
      BY <1>1, <1>2, <1>4, <2>1, PartGrows
    <2>3. after = before + (IF drawn > 0 THEN drawn ELSE 0)
      BY <1>1, <1>2, <1>4, <2>1, PartAdds
    <2> QED
      BY <2>2, <2>3
  <1> QED
    BY <1>6 DEF before, after, drawn

(* Lots in a sequence that names none of them twice. *)
Distinct(ls) == \A j, k \in 1..Len(ls) : ls[j].lot = ls[k].lot => j = k

(* The lots give order i what they reach of it. *)
LEMMA OrderIsServed ==
    ASSUME NEW inc, NEW os, NEW ls, Counted(os), Counted(ls), Distinct(ls),
           NEW i \in 1..Len(os)
    PROVE  /\ Countable(OfOrder(inc, os, ls, i, Len(ls)))
           /\ CasesIn(OfOrder(inc, os, ls, i, Len(ls))) = Served(os, ls, i, Len(ls))
  <1> DEFINE Of(n) == OfOrder(inc, os, ls, i, n)
             Adds(n) == Countable(Of(n)) /\ CasesIn(Of(n)) = Served(os, ls, i, n)
             Good == {n \in 0..Len(ls) : Adds(n)}
  <1>0. Len(ls) \in Nat
    BY DEF Counted
  <1>1. Adds(0)
    <2>1. Of(0) = {}
      BY DEF OfOrder
    <2>2. Served(os, ls, i, 0) = 0
      <3>1. UpTo(ls, 0) = 0
        BY UpToLaw
      <3>2. UpTo(os, i) \in Nat /\ UpTo(os, i - 1) \in Nat
        BY UpToAt
      <3> QED
        BY <3>1, <3>2 DEF Served, Part, Least
    <2> HIDE DEF Of
    <2> QED
      BY <2>1, <2>2, CasesInNothing
  <1>2. ASSUME NEW n \in 1..Len(ls), Adds(n - 1)
        PROVE  Adds(n)
    <2> DEFINE a == AllocationOf(inc, os, ls, <<i, n>>)
    <2>1. n \in 1..n /\ 1..n = (1..(n - 1)) \cup {n} /\ n \notin 1..(n - 1)
          /\ \A k \in 1..(n - 1) : k \in 1..Len(ls) /\ k # n
      BY <1>0
    <2>2. CASE Drawn(os, i, ls, n) > 0
      <3>1. Of(n) = Of(n - 1) \cup {a}
        BY <2>1, <2>2 DEF OfOrder
      <3>2. a.cases = Drawn(os, i, ls, n) /\ a.cases \in Nat
        <4>1. Drawn(os, i, ls, n) \in Nat
          BY <2>2, ServedAdds
        <4> QED
          BY <4>1, AllocationFields
      <3>3. a \notin Of(n - 1)
        <4>1. ASSUME NEW k \in 1..(n - 1), a = AllocationOf(inc, os, ls, <<i, k>>)
              PROVE  FALSE
          <5>1. ls[k].lot = ls[n].lot
            BY <4>1, AllocationFields
          <5> QED
            BY <2>1, <5>1 DEF Distinct
        <4> QED
          BY <4>1 DEF OfOrder
      <3>4. /\ Served(os, ls, i, n) = Served(os, ls, i, n - 1) + Drawn(os, i, ls, n)
        BY <2>2, ServedAdds
      <3> HIDE DEF Of, a
      <3>5. Countable(Of(n)) /\ CasesIn(Of(n)) = CasesIn(Of(n - 1)) + a.cases
        BY <1>2, <3>1, <3>2, <3>3, CasesInWith
      <3> QED
        BY <1>2, <3>2, <3>4, <3>5
    <2>3. CASE ~(Drawn(os, i, ls, n) > 0)
      <3>1. Of(n) = Of(n - 1)
        BY <2>1, <2>3 DEF OfOrder
      <3>2. Served(os, ls, i, n) = Served(os, ls, i, n - 1)
        BY <2>3, ServedAdds
      <3> HIDE DEF Of
      <3> QED
        BY <1>2, <3>1, <3>2
    <2> QED
      BY <2>2, <2>3
  <1> HIDE DEF Adds
  <1>3. 0..Len(ls) \subseteq Good
    <2>1. 0 \in Good
      BY <1>0, <1>1
    <2>2. \A n \in 1..Len(ls) : n - 1 \in Good => n \in Good
      BY <1>0, <1>2
    <2> HIDE DEF Good
    <2> QED
      BY <1>0, <2>1, <2>2, UpToThere
  <1>4. Adds(Len(ls))
    BY <1>0, <1>3
  <1> QED
    BY <1>4 DEF Adds

(* What the lots do not reach of order i is its shortfall. *)
LEMMA UnmetIs ==
    ASSUME NEW os, NEW ls, Counted(os), Counted(ls), NEW i \in 1..Len(os)
    PROVE  /\ Unmet(os, i, ls) \in Int /\ Served(os, ls, i, Len(ls)) \in Nat
           /\ Served(os, ls, i, Len(ls))
                 + (IF Unmet(os, i, ls) > 0 THEN Unmet(os, i, ls) ELSE 0)
              = os[i].cases
  <1> DEFINE all == UpTo(ls, Len(ls))
             low == UpTo(os, i - 1)
             high == UpTo(os, i)
             unmet == Unmet(os, i, ls)
             served == Served(os, ls, i, Len(ls))
             due == os[i].cases
  <1>1. all \in Nat
    <2>1. Len(ls) \in 0..Len(ls)
      BY DEF Counted
    <2> QED
      BY <2>1, UpToLaw
  <1>2. low \in Nat /\ high \in Nat /\ low <= high /\ high - low = due
    BY UpToAt
  <1>3. unmet = high - Greatest(low, all)
    <2>1. Max({low, all}) = Greatest(low, all)
      <3>1. low \in Int /\ all \in Int
        BY <1>1, <1>2
      <3> HIDE DEF low, all
      <3> QED
        BY <3>1, MinAndMaxOfTwo
    <2>2. unmet = high - Max({low, all})
      BY DEF Unmet
    <2> QED
      BY <2>1, <2>2
  <1>4. served = Part(all, low, high)
    BY DEF Served
  <1> HIDE DEF all, low, high, unmet, served, due
  <1>5. /\ unmet \in Int /\ served \in Nat
        /\ served + (IF unmet > 0 THEN unmet ELSE 0) = due
    BY <1>1, <1>2, <1>3, <1>4 DEF Greatest, Part, Least
  <1> QED
    BY <1>5 DEF unmet, served, due

(* A shortfall names no lot, so it is no allocation. *)
LEMMA ShortfallFields ==
    ASSUME NEW inc, NEW os, NEW ls, NEW i, NEW p
    PROVE  LET s == ShortfallOf(inc, os, ls, i)
           IN  /\ s.agency = os[i].agency /\ s.cases = Unmet(os, i, ls)
               /\ s # AllocationOf(inc, os, ls, p)
  <1>1. "lot" \notin DOMAIN ShortfallOf(inc, os, ls, i)
    BY DEF ShortfallOf
  <1>2. "lot" \in DOMAIN AllocationOf(inc, os, ls, p)
    BY DEF AllocationOf
  <1>3. ShortfallOf(inc, os, ls, i) # AllocationOf(inc, os, ls, p)
    BY <1>1, <1>2
  <1> QED
    BY <1>3 DEF ShortfallOf

(* All that a recovery says of order i. *)
SaidOf(inc, os, ls, i) ==
    OfOrder(inc, os, ls, i, Len(ls))
    \cup {ShortfallOf(inc, os, ls, k) : k \in {m \in {i} : Unmet(os, m, ls) > 0}}

LEMMA OrderBalances ==
    ASSUME NEW inc, NEW os, NEW ls, Counted(os), Counted(ls), Distinct(ls),
           NEW i \in 1..Len(os)
    PROVE  /\ Countable(SaidOf(inc, os, ls, i))
           /\ CasesIn(SaidOf(inc, os, ls, i)) = os[i].cases
           /\ \A x \in SaidOf(inc, os, ls, i) : x.agency = os[i].agency
  <1> DEFINE of == OfOrder(inc, os, ls, i, Len(ls))
             s == ShortfallOf(inc, os, ls, i)
             rows == SaidOf(inc, os, ls, i)
             unmet == Unmet(os, i, ls)
             served == Served(os, ls, i, Len(ls))
             due == os[i].cases
  <1>1. Countable(of) /\ CasesIn(of) = served
    BY OrderIsServed
  <1>2. /\ unmet \in Int /\ served \in Nat
        /\ served + (IF unmet > 0 THEN unmet ELSE 0) = due
    BY UnmetIs
  <1>3. s \notin of /\ s.cases = unmet /\ s.agency = os[i].agency
    <2>1. s.cases = unmet /\ s.agency = os[i].agency
      BY ShortfallFields
    <2>2. \A j : s # AllocationOf(inc, os, ls, <<i, j>>)
      BY ShortfallFields
    <2> HIDE DEF s
    <2> QED
      BY <2>1, <2>2 DEF OfOrder
  <1>4. unmet > 0 => rows = of \cup {s}
    BY DEF SaidOf
  <1>5. ~(unmet > 0) => rows = of
    BY DEF SaidOf
  <1>6. \A x \in rows : x.agency = os[i].agency
    <2>1. ASSUME NEW x \in of
          PROVE  x.agency = os[i].agency
      <3>1. PICK j : x = AllocationOf(inc, os, ls, <<i, j>>)
        BY DEF OfOrder
      <3> QED
        BY <3>1, AllocationFields
    <2> HIDE DEF of, s, rows
    <2> QED
      BY <1>3, <1>4, <1>5, <2>1
  <1> HIDE DEF of, s, rows, unmet, served, due
  <1>7. CASE unmet > 0
    <2>1. s.cases \in Nat
      BY <1>2, <1>3, <1>7
    <2>2. Countable(of \cup {s}) /\ CasesIn(of \cup {s}) = CasesIn(of) + s.cases
      BY <1>1, <1>3, <2>1, CasesInWith
    <2>3. Countable(rows) /\ CasesIn(rows) = due
      BY <1>1, <1>2, <1>3, <1>4, <1>7, <2>2
    <2> QED
      BY <1>6, <2>3 DEF rows, due
  <1>8. CASE ~(unmet > 0)
    <2>1. Countable(rows) /\ CasesIn(rows) = due
      BY <1>1, <1>2, <1>5, <1>8
    <2> QED
      BY <1>6, <2>1 DEF rows, due
  <1> QED
    BY <1>7, <1>8

(* The ids of a recovery's rows tell its orders apart. *)
Told(inc, os, ls) ==
    /\ Distinct(ls) /\ ~IdsCollide(os, ls)
    /\ \A i, k \in 1..Len(os) :
          /\ os[i].agency = os[k].agency
          /\ ShortfallOf(inc, os, ls, i).id = ShortfallOf(inc, os, ls, k).id
          => i = k

LEMMA SaidApart ==
    ASSUME NEW inc, NEW os, NEW ls, Counted(os), Counted(ls), Told(inc, os, ls),
           NEW i \in 1..Len(os), NEW k \in 1..Len(os), i # k,
           os[i].agency = os[k].agency
    PROVE  SaidOf(inc, os, ls, i) \cap SaidOf(inc, os, ls, k) = {}
  <1> SUFFICES ASSUME NEW x, x \in SaidOf(inc, os, ls, i), x \in SaidOf(inc, os, ls, k)
               PROVE  FALSE
    OBVIOUS
  <1>1. \A m : x \in SaidOf(inc, os, ls, m) =>
           \/ \E j \in 1..Len(ls) : /\ x = AllocationOf(inc, os, ls, <<m, j>>)
                                    /\ Drawn(os, m, ls, j) > 0
           \/ x = ShortfallOf(inc, os, ls, m)
    BY DEF SaidOf, OfOrder
  <1>2. CASE x = ShortfallOf(inc, os, ls, i)
    <2>1. x = ShortfallOf(inc, os, ls, k)
      BY <1>1, <1>2, ShortfallFields
    <2> QED
      BY <1>2, <2>1 DEF Told
  <1>3. CASE x # ShortfallOf(inc, os, ls, i)
    <2>1. PICK j \in 1..Len(ls) : /\ x = AllocationOf(inc, os, ls, <<i, j>>)
                                  /\ Drawn(os, i, ls, j) > 0
      BY <1>1, <1>3
    <2>2. x # ShortfallOf(inc, os, ls, k)
      BY <2>1, ShortfallFields
    <2>3. PICK m \in 1..Len(ls) : /\ x = AllocationOf(inc, os, ls, <<k, m>>)
                                  /\ Drawn(os, k, ls, m) > 0
      BY <1>1, <2>2
    <2>4. j = m
      <3>1. x.lot = ls[j].lot
        BY <2>1, AllocationFields
      <3>2. x.lot = ls[m].lot
        BY <2>3, AllocationFields
      <3> QED
        BY <3>1, <3>2 DEF Told, Distinct
    <2>5. <<i, j>> \in Draws(os, ls) /\ <<k, j>> \in Draws(os, ls)
      BY <2>1, <2>3, <2>4 DEF Draws, Counted
    <2> QED
      BY <2>5 DEF Told, IdsCollide
  <1> QED
    BY <1>2, <1>3

-----------------------------------------------------------------------------
(* What it says of an agency, and of all *)

(* The orders of one agency among the first n, and all that a recovery says of them. *)
OfAgency(os, g, n) == {m \in 1..n : os[m].agency = g}
DueTo(os, g, n) == {os[k] : k \in OfAgency(os, g, n)}
SaidTo(inc, os, ls, g, n) == UNION {SaidOf(inc, os, ls, k) : k \in OfAgency(os, g, n)}

(* What is given to an agency and what it is told is short is what it was due. *)
LEMMA AgencyBalances ==
    ASSUME NEW inc, NEW os, NEW ls, Counted(os), Counted(ls), Told(inc, os, ls),
           \A j, k \in 1..Len(os) : os[j] = os[k] => j = k,
           NEW g
    PROVE  CasesIn(SaidTo(inc, os, ls, g, Len(os))) = CasesIn(DueTo(os, g, Len(os)))
  <1> DEFINE Said(n) == SaidTo(inc, os, ls, g, n)
             Due(n) == DueTo(os, g, n)
             Even(n) == /\ Countable(Said(n)) /\ Countable(Due(n))
                        /\ CasesIn(Said(n)) = CasesIn(Due(n))
             Good == {n \in 0..Len(os) : Even(n)}
  <1>0. Len(os) \in Nat
    BY DEF Counted
  <1>0a. Distinct(ls)
    BY DEF Told
  <1> HIDE DEF Said, Due, Even, Good
  <1>0b. ASSUME NEW i \in 1..Len(os)
         PROVE  /\ Countable(SaidOf(inc, os, ls, i))
                /\ CasesIn(SaidOf(inc, os, ls, i)) = os[i].cases
    <2>1. /\ Countable(SaidOf(inc, os, ls, i))
          /\ CasesIn(SaidOf(inc, os, ls, i)) = os[i].cases
          /\ \A x \in SaidOf(inc, os, ls, i) : x.agency = os[i].agency
      BY <1>0a, OrderBalances
    <2> QED
      BY <2>1
  <1> USE DEF Said, Due, Even, Good
  <1>1. Even(0)
    <2>1. Said(0) = {} /\ Due(0) = {}
      BY DEF SaidTo, DueTo, OfAgency
    <2> HIDE DEF Said, Due
    <2> QED
      BY <2>1, CasesInNothing
  <1>2. ASSUME NEW n \in 1..Len(os), Even(n - 1)
        PROVE  Even(n)
    <2>1. n \in 1..n /\ 1..n = (1..(n - 1)) \cup {n} /\ n \notin 1..(n - 1)
          /\ \A k \in 1..(n - 1) : k \in 1..Len(os) /\ k # n
      BY <1>0
    <2>2. CASE os[n].agency = g
      <3> DEFINE rows == SaidOf(inc, os, ls, n)
                 o == os[n]
      <3>1. OfAgency(os, g, n) = OfAgency(os, g, n - 1) \cup {n}
        BY <2>1, <2>2 DEF OfAgency
      <3>2. Said(n) = Said(n - 1) \cup rows
        BY <3>1 DEF SaidTo
      <3>3. Due(n) = Due(n - 1) \cup {o}
        BY <3>1 DEF DueTo
      <3>4. Countable(rows) /\ CasesIn(rows) = o.cases
        BY <1>0b
      <3>5. Said(n - 1) \cap rows = {}
        <4>1. ASSUME NEW k \in OfAgency(os, g, n - 1)
              PROVE  SaidOf(inc, os, ls, k) \cap rows = {}
          <5>1. k \in 1..Len(os) /\ k # n /\ os[k].agency = os[n].agency
            BY <2>1, <2>2, <4>1 DEF OfAgency
          <5> QED
            BY <5>1, SaidApart
        <4> HIDE DEF rows
        <4> QED
          BY <4>1 DEF SaidTo
      <3>6. o \notin Due(n - 1) /\ o.cases \in Nat
        BY <2>1 DEF DueTo, OfAgency, Counted
      <3> HIDE DEF rows, o, Said, Due
      <3>7. Countable(Said(n)) /\ CasesIn(Said(n)) = CasesIn(Said(n - 1)) + CasesIn(rows)
        <4>1. Countable(Said(n - 1))
          BY <1>2
        <4>2. /\ Countable(Said(n - 1) \cup rows)
              /\ CasesIn(Said(n - 1) \cup rows) = CasesIn(Said(n - 1)) + CasesIn(rows)
          BY <3>4, <3>5, <4>1, CasesInBoth
        <4> QED
          BY <3>2, <4>2
      <3>8. Countable(Due(n)) /\ CasesIn(Due(n)) = CasesIn(Due(n - 1)) + o.cases
        BY <1>2, <3>3, <3>6, CasesInWith
      <3> QED
        BY <1>2, <3>4, <3>7, <3>8
    <2>3. CASE os[n].agency # g
      <3>1. OfAgency(os, g, n) = OfAgency(os, g, n - 1)
        BY <2>1, <2>3 DEF OfAgency
      <3>2. Said(n) = Said(n - 1) /\ Due(n) = Due(n - 1)
        BY <3>1 DEF SaidTo, DueTo
      <3> HIDE DEF Said, Due
      <3> QED
        BY <1>2, <3>2
    <2> QED
      BY <2>2, <2>3
  <1> HIDE DEF Even
  <1>3. 0..Len(os) \subseteq Good
    <2>1. 0 \in Good
      BY <1>0, <1>1
    <2>2. \A n \in 1..Len(os) : n - 1 \in Good => n \in Good
      BY <1>0, <1>2
    <2> HIDE DEF Good
    <2> QED
      BY <1>0, <2>1, <2>2, UpToThere
  <1>4. Even(Len(os))
    BY <1>0, <1>3
  <1> QED
    BY <1>4 DEF Even

(* A sequence of the rows of a set has all of them. *)
LEMMA SequenceHasAll ==
    ASSUME NEW S, IsFiniteSet(S), \A x \in S : x.cases \in Nat, NEW s \in SetToSeqs(S)
    PROVE  S = {s[k] : k \in 1..Len(s)}
  <1> DEFINE n == Cardinality(S)
  <1>1. n \in Nat /\ IsFiniteSet(1..n) /\ Cardinality(1..n) = n
    BY FS_CardinalityType, FS_Interval
  <1>2. s \in [1..n -> S] /\ \A j, k \in 1..n : j # k => s[j] # s[k]
    BY DEF SetToSeqs
  <1>3. s \in Injection(1..n, S)
    BY <1>2 DEF Injection, IsInjective
  <1>4. s \in Surjection(1..n, S)
    BY <1>1, <1>3, FS_Injection
  <1>5. 1..Len(s) = 1..n
    BY <1>2, RowsInSequence DEF Counted
  <1>6. \A x \in S : \E k \in 1..n : s[k] = x
    BY <1>4 DEF Surjection
  <1>7. \A k \in 1..n : s[k] \in S
    BY <1>2
  <1> HIDE DEF n
  <1> QED
    BY <1>5, <1>6, <1>7

(* What a recovery says of the orders it was made for. *)
Accounts(recovery, due) ==
    \A l \in due :
        CasesIn({x \in recovery.allocations \cup recovery.shortfalls :
                    x.agency = l.agency})
        = CasesIn({x \in due : x.agency = l.agency})

LEMMA RecoveryAccounts ==
    ASSUME NEW inc, NEW due, IsFiniteSet(due), \A l \in due : l.cases \in Nat,
           NEW os \in SetToSeqs(due), NEW ls, Counted(ls), Told(inc, os, ls)
    PROVE  Accounts(Recovery(inc, os, ls), due)
  <1> DEFINE given == Recovery(inc, os, ls).allocations
             short == Recovery(inc, os, ls).shortfalls
  <1>1. /\ Counted(os) /\ \A j, k \in 1..Len(os) : os[j] = os[k] => j = k
        /\ due = {os[k] : k \in 1..Len(os)}
    BY RowsInSequence, SequenceHasAll
  <1>2. /\ given = {AllocationOf(inc, os, ls, p) : p \in Draws(os, ls)}
        /\ short = {ShortfallOf(inc, os, ls, i) :
                       i \in {k \in DOMAIN os : Unmet(os, k, ls) > 0}}
    BY DEF Recovery
  <1>3. DOMAIN os = 1..Len(os) /\ DOMAIN ls = 1..Len(ls)
    BY <1>1 DEF Counted
  <1>4. ASSUME NEW k \in 1..Len(os), NEW x \in SaidOf(inc, os, ls, k)
        PROVE  x \in given \cup short
    <2>1. ASSUME NEW j \in 1..Len(ls), Drawn(os, k, ls, j) > 0
          PROVE  AllocationOf(inc, os, ls, <<k, j>>) \in given
      <3>1. <<k, j>> \in Draws(os, ls)
        BY <1>3, <2>1 DEF Draws
      <3> QED
        BY <1>2, <3>1
    <2>2. Unmet(os, k, ls) > 0 => ShortfallOf(inc, os, ls, k) \in short
      BY <1>2, <1>3
    <2> HIDE DEF given, short
    <2> QED
      BY <1>4, <2>1, <2>2 DEF SaidOf, OfOrder
  <1>5. ASSUME NEW x \in given \cup short
        PROVE  \E k \in 1..Len(os) : x \in SaidOf(inc, os, ls, k)
    <2>1. CASE x \in given
      <3>1. PICK p \in Draws(os, ls) : x = AllocationOf(inc, os, ls, p)
        BY <1>2, <2>1
      <3>2. PICK k \in 1..Len(os), j \in 1..Len(ls) : p = <<k, j>>
        BY <1>3 DEF Draws
      <3>3. Drawn(os, k, ls, j) > 0
        BY <3>1, <3>2 DEF Draws
      <3> QED
        BY <3>1, <3>2, <3>3 DEF SaidOf, OfOrder
    <2>2. CASE x \in short
      <3>1. PICK k \in 1..Len(os) :
               x = ShortfallOf(inc, os, ls, k) /\ Unmet(os, k, ls) > 0
        BY <1>2, <1>3, <2>2
      <3> QED
        BY <3>1 DEF SaidOf
    <2> QED
      BY <1>5, <2>1, <2>2
  <1> HIDE DEF given, short
  <1>6. \A k \in 1..Len(os) : \A x \in SaidOf(inc, os, ls, k) : x.agency = os[k].agency
    BY <1>1, OrderBalances DEF Told
  <1>7. ASSUME NEW g
        PROVE  /\ {x \in given \cup short : x.agency = g} = SaidTo(inc, os, ls, g, Len(os))
               /\ {x \in due : x.agency = g} = DueTo(os, g, Len(os))
    <2>1. {x \in due : x.agency = g} = DueTo(os, g, Len(os))
      BY <1>1 DEF DueTo, OfAgency
    <2>2. ASSUME NEW x \in given \cup short, x.agency = g
          PROVE  x \in SaidTo(inc, os, ls, g, Len(os))
      <3>1. PICK k \in 1..Len(os) : x \in SaidOf(inc, os, ls, k)
        BY <1>5
      <3>2. k \in OfAgency(os, g, Len(os))
        BY <1>6, <2>2, <3>1 DEF OfAgency
      <3> QED
        BY <3>1, <3>2 DEF SaidTo
    <2>3. ASSUME NEW x \in SaidTo(inc, os, ls, g, Len(os))
          PROVE  x \in given \cup short /\ x.agency = g
      <3>1. PICK k \in OfAgency(os, g, Len(os)) : x \in SaidOf(inc, os, ls, k)
        BY DEF SaidTo
      <3> QED
        BY <1>4, <1>6, <3>1 DEF OfAgency
    <2> QED
      BY <2>1, <2>2, <2>3
  <1>8. \A g : CasesIn({x \in given \cup short : x.agency = g})
               = CasesIn({x \in due : x.agency = g})
    <2> SUFFICES ASSUME NEW g
                 PROVE  CasesIn({x \in given \cup short : x.agency = g})
                        = CasesIn({x \in due : x.agency = g})
      OBVIOUS
    <2>1. CasesIn(SaidTo(inc, os, ls, g, Len(os))) = CasesIn(DueTo(os, g, Len(os)))
      BY <1>1, AgencyBalances
    <2> QED
      BY <1>7, <2>1
  <1> QED
    BY <1>8 DEF Accounts, given, short

-----------------------------------------------------------------------------
(* The reads of a run give a recovery whose rows are told apart. *)

(* A revision of the plan of the day that has been written. *)
RevisionKnown(rev) == rev # "rev01" /\ \E i \in DOMAIN plans : plans[i].rev = rev

(* Its lines stay what they are. *)
LEMMA KnownLinesStay ==
    ASSUME OnePlanOfTheDay, TypeOK, PlansAreSaved', DraftsAreRev01', [Next]_vars,
           NEW rev, RevisionKnown(rev), NEW lot
    PROVE  /\ RevisionKnown(rev)'
           /\ AffectedLines(rev, lot)' = AffectedLines(rev, lot)
  <1>1. PICK i \in DOMAIN plans : plans[i].rev = rev
    BY DEF RevisionKnown
  <1>2. /\ i \in DOMAIN plans' /\ plans'[i].plan = plans[i].plan /\ plans'[i].rev = rev
    BY <1>1, PlansKept
  <1>3. RevisionKnown(rev)'
    BY <1>2 DEF RevisionKnown
  <1>4. ASSUME NEW p, NEW r, NEW lines, orders' = orders \cup NewLines(p, r, lines),
               ~PlanExists(p, r), PlanExists(p, r)'
        PROVE  r # rev
    <2>1. SUFFICES ASSUME r = rev
                   PROVE  FALSE
      OBVIOUS
    <2>2. PICK j \in DOMAIN plans' : plans'[j].plan = p /\ plans'[j].rev = rev
      BY <1>4, <2>1 DEF PlanExists
    <2>3. plans'[j].plan = plans'[i].plan
      BY <1>2, <2>2 DEF PlansAreSaved, DraftsAreRev01, OnePlanOfTheDay, RevisionKnown
    <2> QED
      BY <1>1, <1>2, <1>4, <2>1, <2>2, <2>3 DEF PlanExists
  <1>5. orders \subseteq orders' /\ \A o \in orders' : o.rev = rev => o \in orders
    <2>1. CASE orders' = orders
      BY <2>1
    <2>2. ASSUME NEW p, NEW r, NEW lines, orders' = orders \cup NewLines(p, r, lines),
                 ~PlanExists(p, r), PlanExists(p, r)'
          PROVE  orders \subseteq orders' /\ \A o \in orders' : o.rev = rev => o \in orders
      <3>1. \A o \in NewLines(p, r, lines) : o.rev # rev
        BY <1>4, <2>2 DEF NewLines
      <3> QED
        BY <2>2, <3>1
    <2> QED
      BY <2>1, <2>2, OrdersStep
  <1>6. AffectedLines(rev, lot)' = AffectedLines(rev, lot)
    BY <1>5 DEF AffectedLines
  <1> QED
    BY <1>3, <1>6

(* They are told apart by their order ids. *)
LEMMA KnownLinesKeyed ==
    ASSUME OnePlanOfTheDay, PlansAreSaved, DraftsAreRev01, OrdersHaveParent,
           OrdersAreKeyed, NEW rev, rev # "rev01", NEW lot
    PROVE  \A x, y \in AffectedLines(rev, lot) : x.order = y.order => x = y
  <1>1. ASSUME NEW x \in orders, NEW y \in orders, x.rev = rev, y.rev = rev
        PROVE  x.plan = y.plan
    <2>1. PICK i \in DOMAIN plans : plans[i].plan = x.plan /\ plans[i].rev = rev
      BY <1>1 DEF OrdersHaveParent, PlanExists
    <2>2. PICK j \in DOMAIN plans : plans[j].plan = y.plan /\ plans[j].rev = rev
      BY <1>1 DEF OrdersHaveParent, PlanExists
    <2> QED
      BY <2>1, <2>2 DEF PlansAreSaved, DraftsAreRev01, OnePlanOfTheDay
  <1> QED
    BY <1>1 DEF AffectedLines, OrdersAreKeyed

(* So the ids of a recovery tell its rows apart, unless the gate finds that its
   allocations collide. *)
LEMMA RecoveryIsTold ==
    ASSUME TypeOK, OnePlanOfTheDay, PlansAreSaved, DraftsAreRev01, OrdersHaveParent,
           OrdersAreKeyed, OrdersAreSaved, StockIsKeyed,
           NEW n \in Notices, NEW rev, rev # "rev01", NEW lot,
           NEW os \in SetToSeqs(AffectedLines(rev, lot)),
           NEW ls \in SetToSeqs(ClearLots), ~IdsCollide(os, ls)
    PROVE  /\ IsFiniteSet(AffectedLines(rev, lot))
           /\ \A l \in AffectedLines(rev, lot) : l.cases \in Nat
           /\ Counted(ls) /\ Told(n.incident, os, ls)
  <1> DEFINE due == AffectedLines(rev, lot)
  <1>1. IsFiniteSet(due) /\ \A l \in due : l.cases \in Nat
    BY AffectedLinesFinite
  <1>2. /\ \A k \in 1..Len(os) : os[k] \in due
        /\ \A j, k \in 1..Len(os) : os[j] = os[k] => j = k
    BY <1>1, RowsInSequence
  <1>3. Counted(ls) /\ Distinct(ls)
    <2>1. IsFiniteSet(ClearLots) /\ \A l \in ClearLots : l.cases \in Nat
      BY FS_Subset DEF ClearLots, StockIsKeyed, TypeOK, LotRow
    <2>2. /\ Counted(ls) /\ \A k \in 1..Len(ls) : ls[k] \in ClearLots
          /\ \A j, k \in 1..Len(ls) : ls[j] = ls[k] => j = k
      BY <2>1, RowsInSequence
    <2> QED
      BY <2>2 DEF Distinct, ClearLots, StockIsKeyed
  <1>4. ASSUME NEW i \in 1..Len(os), NEW k \in 1..Len(os),
               os[i].agency = os[k].agency,
               ShortfallOf(n.incident, os, ls, i).id = ShortfallOf(n.incident, os, ls, k).id
        PROVE  i = k
    <2>1. ShortfallId(n.incident, os[i]) = ShortfallId(n.incident, os[k])
      BY <1>4 DEF ShortfallOf
    <2>2. \A l \in due : \E o \in orders : o.rev # "rev01" /\ o.line = l
      BY DEF AffectedLines
    <2>3. PICK a \in orders : a.rev # "rev01" /\ a.line = os[i]
      BY <1>2, <2>2
    <2>4. PICK b \in orders : b.rev # "rev01" /\ b.line = os[k]
      BY <1>2, <2>2
    <2>5. PICK c \in {d \in Commands : d.type = "SAVE_PLAN_REVISION"} :
             \E x \in c.body.orders : x.order = os[i].order /\ x.agency = os[i].agency
      BY <2>3 DEF OrdersAreSaved, SavedOrder
    <2>6. PICK e \in {d \in Commands : d.type = "SAVE_PLAN_REVISION"} :
             \E y \in e.body.orders : y.order = os[k].order /\ y.agency = os[k].agency
      BY <2>4 DEF OrdersAreSaved, SavedOrder
    <2>7. PICK x \in c.body.orders : x.order = os[i].order /\ x.agency = os[i].agency
      BY <2>5
    <2>8. PICK y \in e.body.orders : y.order = os[k].order /\ y.agency = os[k].agency
      BY <2>6
    <2>9. /\ ShortfallId(n.incident, x) = ShortfallId(n.incident, os[i])
          /\ ShortfallId(n.incident, y) = ShortfallId(n.incident, os[k])
      BY <2>7, <2>8 DEF ShortfallId
    <2>10. x.order = y.order
      BY <1>4, <2>1, <2>7, <2>8, <2>9, ShortfallIdsTell
    <2>11. os[i] = os[k]
      BY <1>2, <2>7, <2>8, <2>10, KnownLinesKeyed
    <2> QED
      BY <1>2, <2>11
  <1>5. Told(n.incident, os, ls)
    BY <1>3, <1>4 DEF Told
  <1> QED
    BY <1>1, <1>3, <1>5

(* The runs account for what they read. *)
RunsAccount ==
    /\ \A r \in runs : r.notice \in Notices
    /\ \A r \in runs : r.recovery # None =>
          /\ RevisionKnown(r.rev)
          /\ Accounts(r.recovery, AffectedLines(r.rev, r.notice.lot))

(* What the accounts rest on, of the ledger. *)
LedgerTold == /\ TypeOK /\ PlansAreSaved /\ DraftsAreRev01 /\ OrdersHaveParent
              /\ OrdersAreKeyed /\ OrdersAreSaved

LEMMA RunsAccountStep ==
    ASSUME OnePlanOfTheDay, LedgerTold, LedgerTold', StockIsKeyed, RunsInv,
           RunsAccount, [RecallNext]_recallRunVars
    PROVE  RunsAccount'
  <1>0. [Next]_vars
    BY RecallStepIsLedgerStep
  <1>1. ASSUME NEW q \in runs'
        PROVE  q.notice \in Notices
    BY RunsFollow DEF Fresh, Follows, Left, RunsAccount
  <1>2. ASSUME NEW q \in runs', q.recovery # None
        PROVE  /\ RevisionKnown(q.rev)
               /\ Accounts(q.recovery, AffectedLines(q.rev, q.notice.lot))
    <2>1. ASSUME NEW r \in runs, SameRecovery(q, r)
          PROVE  /\ RevisionKnown(q.rev)
                 /\ Accounts(q.recovery, AffectedLines(q.rev, q.notice.lot))
      <3>1. /\ RevisionKnown(r.rev)
            /\ Accounts(r.recovery, AffectedLines(r.rev, r.notice.lot))
        BY <1>2, <2>1 DEF RunsAccount, SameRecovery
      <3> QED
        BY <2>1, <3>1 DEF SameRecovery
    <2>2. ASSUME NEW os \in SetToSeqs(AffectedLines(q.rev, q.notice.lot)),
                 NEW ls \in SetToSeqs(ClearLots), MadeFrom(q, os, ls)
          PROVE  /\ RevisionKnown(q.rev)
                 /\ Accounts(q.recovery, AffectedLines(q.rev, q.notice.lot))
      <3>1. PICK i \in ActiveRows : plans[i].rev = q.rev
        BY <2>2 DEF MadeFrom
      <3>2. q.rev # "rev01" /\ RevisionKnown(q.rev)
        BY <3>1 DEF ActiveRows, LedgerTold, DraftsAreRev01, RevisionKnown
      <3>3. PICK due : due = AffectedLines(q.rev, q.notice.lot)
        OBVIOUS
      <3>4. PICK inc : inc = q.notice.incident
        OBVIOUS
      <3>5. /\ IsFiniteSet(due) /\ \A l \in due : l.cases \in Nat
            /\ Counted(ls) /\ Told(inc, os, ls)
        <4>1. q.notice \in Notices /\ ~IdsCollide(os, ls)
          BY <1>1, <2>2 DEF MadeFrom
        <4>2. /\ TypeOK /\ PlansAreSaved /\ DraftsAreRev01 /\ OrdersHaveParent
              /\ OrdersAreKeyed /\ OrdersAreSaved
          BY DEF LedgerTold
        <4> QED
          BY <3>2, <3>3, <3>4, <4>1, <4>2, RecoveryIsTold
      <3>6. os \in SetToSeqs(due)
        BY <3>3
      <3>7. Accounts(Recovery(inc, os, ls), due)
        BY <3>5, <3>6, RecoveryAccounts
      <3>8. q.recovery = Recovery(inc, os, ls)
        BY <2>2, <3>4 DEF MadeFrom
      <3> QED
        BY <3>2, <3>3, <3>7, <3>8
    <2> QED
      BY <1>2, <2>1, <2>2, RecoveriesStep
  <1>3. ASSUME NEW q \in runs', q.recovery # None
        PROVE  /\ RevisionKnown(q.rev)'
               /\ Accounts(q.recovery, AffectedLines(q.rev, q.notice.lot))'
    <2>1. PICK rev, lot, recovery :
             rev = q.rev /\ lot = q.notice.lot /\ recovery = q.recovery
      OBVIOUS
    <2>2. RevisionKnown(rev) /\ Accounts(recovery, AffectedLines(rev, lot))
      BY <1>2, <1>3, <2>1
    <2>3. /\ RevisionKnown(rev)'
          /\ AffectedLines(rev, lot)' = AffectedLines(rev, lot)
      BY <1>0, <2>2, KnownLinesStay DEF LedgerTold
    <2>4. Accounts(recovery, AffectedLines(rev, lot))'
      BY <2>2, <2>3 DEF Accounts
    <2> QED
      BY <2>1, <2>3, <2>4
  <1> QED
    BY <1>1, <1>3 DEF RunsAccount

(* Where the day has one plan and no repair makes a draft, what a saga allocates
   and what it reports as short is together what the recalled lot owed, agency by
   agency, and no safe lot gives more than it holds: whatever the order of the
   lots and the orders it read. *)
THEOREM EveryCaseIsAccounted ==
    ASSUME OnePlanOfTheDay, NoRepairIsADraft
    PROVE  RecallSpec => []RecoveryAccountsForEveryCase
  <1>1. RecallSpec => []LedgerTold
    BY RecallUsesLedger, TypeCorrect, PlansAreSavedInvariant, SavedOrdersInvariant,
       OrdersHaveParentInvariant, OrdersAreKeyedInvariant, PTL DEF LedgerTold
  <1>2. RecallInit => RunsAccount
    BY DEF RecallInit, RunsAccount
  <1>3. LedgerTold /\ LedgerTold' /\ StockIsKeyed /\ RunsInv /\ RunsAccount
        /\ [RecallNext]_recallRunVars => RunsAccount'
    BY RunsAccountStep
  <1>4. RunsAccount /\ RecoveriesFit => RecoveryAccountsForEveryCase
    BY DEF RunsAccount, RecoveriesFit, RecoveryAccountsForEveryCase, Accounts, Fits
  <1> QED
    BY <1>1, <1>2, <1>3, <1>4, RunsInvariant, StockInvariant, PTL DEF RecallSpec
=============================================================================
