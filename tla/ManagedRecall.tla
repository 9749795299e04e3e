--------------------------- MODULE ManagedRecall ---------------------------
(***************************************************************************)
(* The managed recall of the orchestrator on top of the plan ledger: the   *)
(* Pub/Sub push handler, the saga of eight ledger calls and one deadline   *)
(* task that an accepted notice makes, and the deadline's callback.        *)
(*                                                                         *)
(* Pub/Sub and Cloud Tasks deliver at least once, in any order, each push  *)
(* with a trace of its own.  A saga lives in one request: a call that is   *)
(* refused, a call whose answer is lost and a crash all end it where it    *)
(* stands, and only a new delivery can start another.  The ledger calls    *)
(* are the transactions of PlanLedger; `Offered` are the commands of the   *)
(* other callers, which run between them.                                  *)
(***************************************************************************)
EXTENDS PlanLedger, SequencesExt

CONSTANTS
    Notices,      \* RECALL_NOTICE_RECEIVED messages
    Traces,       \* trace ids: bounds the deliveries and the escalations
    Offered,      \* commands of the other callers of the ledger
    SiteBinding,  \* PARTNER_SITE_AUTHORITY_JSON: site -> partner and node
    Tomorrow      \* the operating day after Today

NoticeRow == [id : STRING, coordinator : STRING, incident : STRING, lot : STRING]

ASSUME NoticesAndTraces ==
    Notices \subseteq NoticeRow /\ Traces \subseteq STRING /\ Offered \subseteq Commands

\* A task name tells its trace and its kind.  (True of strings; named because
\* proof backends do not know strings to be sequences.)
ASSUME TaskNamesTell ==
    \A t, u \in Traces : /\ "ack-" \o t = "ack-" \o u => t = u
                         /\ "ack-" \o t # "site01-" \o u

VARIABLES
    delivered,  \* the traces of the deliveries and escalations so far
    acked,      \* notices answered 2xx, with the disposition of the answer
    runs,       \* the sagas in progress, one per delivery
    tasks,      \* the queue full-shelf-deadlines, answered tasks included
    midnight    \* the operating day has changed since the recalls arrived

orchestratorVars == <<delivered, acked, runs, tasks, midnight>>
recallRunVars == <<vars, orchestratorVars>>

-----------------------------------------------------------------------------
(* The safe recovery of a recall *)

UpTo(s, i) ==
    LET upTo[k \in 0..Len(s)] == IF k = 0 THEN 0 ELSE upTo[k - 1] + s[k].cases
    IN  upTo[i]

\* Orders draw on the safe lots one after another, each taking what the orders
\* before it left: order i takes from lot j where the i-th stretch of the
\* demand meets the j-th stretch of the supply.
MutantDrawn(os, i, ls, j) ==
    Min({UpTo(os, i), UpTo(ls, j)}) - UpTo(os, i - 1)
Drawn(os, i, ls, j) ==
    Min({UpTo(os, i), UpTo(ls, j)}) - Max({UpTo(os, i - 1), UpTo(ls, j - 1)})
Draws(os, ls) == {p \in (DOMAIN os) \X (DOMAIN ls) : Drawn(os, p[1], ls, p[2]) > 0}
Unmet(os, i, ls) ==
    UpTo(os, i) - Max({UpTo(os, i - 1), UpTo(ls, Len(ls))})

AllocationOf(inc, os, ls, p) ==
    [id |-> "ALLOC-" \o inc \o "-" \o os[p[1]].agency \o "-" \o ls[p[2]].lot,
     agency |-> os[p[1]].agency, lot |-> ls[p[2]].lot,
     cases |-> Drawn(os, p[1], ls, p[2])]
ShortfallId(inc, o) == "SHORT-" \o inc \o "-" \o o.agency \o "-" \o o.order
ShortfallOf(inc, os, ls, i) ==
    [id |-> ShortfallId(inc, os[i]),
     agency |-> os[i].agency, cases |-> Unmet(os, i, ls)]
Recovery(inc, os, ls) ==
    [incident |-> inc,
     allocations |-> {AllocationOf(inc, os, ls, p) : p \in Draws(os, ls)},
     shortfalls |-> {ShortfallOf(inc, os, ls, i) :
                        i \in {k \in DOMAIN os : Unmet(os, k, ls) > 0}}]

\* A shortfall id, in the code a digest of the three, tells the orders of an agency
\* apart.  (True of strings.)
ASSUME ShortfallIdsTell ==
    \A n \in Notices, c, d \in {e \in Commands : e.type = "SAVE_PLAN_REVISION"} :
    \A x \in c.body.orders, y \in d.body.orders :
        /\ x.agency = y.agency
        /\ ShortfallId(n.incident, x) = ShortfallId(n.incident, y)
        => x.order = y.order

\* An allocation id names agency and lot but no order, so two orders of one
\* agency that draw on one lot make a payload that the ledger cannot insert.
IdsCollide(os, ls) ==
    \E p, q \in Draws(os, ls) :
        p # q /\ p[2] = q[2] /\ os[p[1]].agency = os[q[1]].agency

AffectedLines(rev, lot) ==
    {o.line : o \in {x \in orders : x.rev = rev /\ x.line.lot = lot}}
ClearLots == {l \in lots : l.hazard = "CLEAR_SAFE"}

-----------------------------------------------------------------------------
(* The custody graph of a lot: every node its transfers touch.  The traversal *)
(* starts at one warehouse and follows eight transfers at most; the graphs of *)
(* the model are no larger.                                                   *)

Positions(lot) ==
    {n \in nodes : \E e \in edges : e.lot = lot /\ n.node \in {e.source, e.target}}
Unconfirmed(lot) == {n \in Positions(lot) : n.ack = "UNCONFIRMED"}

-----------------------------------------------------------------------------
(* The commands the orchestrator sends *)

SagaCall(r, action, type, role, body) ==
    [key |-> r.notice.incident \o ":" \o action, inc |-> r.notice.incident,
     role |-> role, type |-> type, exp |-> r.rev, trace |-> r.trace, body |-> body]
CoordinatorCall(r, action, type, body) ==
    SagaCall(r, action, type, "INCIDENT_COORDINATOR", body)
StatusCall(r, expected, new, unconfirmed) ==
    CoordinatorCall(r, "status:" \o new, "SET_INCIDENT_STATUS",
        [incident |-> r.notice.incident, expected |-> expected, new |-> new,
         terminal |-> TerminalStateOf(new), unconfirmed |-> unconfirmed])

\* The ledger call of each step of the saga.
SagaCommand(r) ==
    LET n == r.notice IN
    CASE r.step = "OPEN" ->
           CoordinatorCall(r, "open:" \o n.id, "OPEN_RECALL_INCIDENT",
               [incident |-> n.incident, coordinator |-> n.coordinator,
                lot |-> n.lot, event |-> n.id, armor |-> r.trace])
      [] r.step = "SCOPING" -> StatusCall(r, "DETECTED", "SCOPING", None)
      [] r.step = "BARRIER" ->
           CoordinatorCall(r, "movement-barrier", "ACTIVATE_MOVEMENT_BARRIER",
               [barrier |-> "BARRIER-" \o n.lot, incident |-> n.incident,
                lot |-> n.lot, workItem |-> <<"WORK", n.incident, n.lot>>])
      [] r.step = "CONTAINMENT" ->
           StatusCall(r, "SCOPING", "CONTAINMENT_IN_PROGRESS", None)
      [] r.step = "INVALIDATE" ->
           CoordinatorCall(r, "plan:invalidate", "INVALIDATE_PLAN",
               [plan |-> r.plan, rev |-> r.rev])
      [] r.step = "RECOVER" ->
           SagaCall(r, "safe-recovery", "ALLOCATE_SAFE_STOCK",
                    "FULFILLMENT_RECOVERY_PLANNER", r.recovery)
      [] r.step = "REFUSE" ->
           CoordinatorCall(r, "containment-refusal", "RECORD_REFUSAL",
               [incident |-> n.incident, subject |-> r.site])
      [] r.step = "TERMINAL" ->
           StatusCall(r, "CONTAINMENT_IN_PROGRESS", "PARTIALLY_CONTAINED", r.cases)

HoldId(inc, site) == "HOLD-" \o inc \o "-" \o site
OperatingDay == IF midnight THEN Tomorrow ELSE Today

\* What the deadline callback sends: the decision id of the task is the key,
\* and the operating day is the one on which the callback arrives.
HoldCommandOn(t, day) ==
    [key |-> "cloud-task:" \o t.id, inc |-> t.incident,
     role |-> "PARTNER_OPERATIONS_AGENT", type |-> "RECORD_ACKNOWLEDGMENT_HOLD",
     exp |-> None, trace |-> t.trace,
     body |-> [incident |-> t.incident, hold |-> t.hold, lot |-> t.lot,
               site |-> t.site, cases |-> t.cases, task |-> t.id,
               partner |-> SiteBinding[t.site].partner,
               node |-> SiteBinding[t.site].node, day |-> day]]
HoldCommand(t) == HoldCommandOn(t, OperatingDay)

-----------------------------------------------------------------------------
(* handle_pubsub_push: the delivery of a recall notice *)

WaitingCoordinators(n) ==
    {k \in coordinators : k.coordinator = n.coordinator /\ k.state = "WAITING_FOR_EVENTS"}

NewRun(n, t, rev) ==
    [notice |-> n, trace |-> t, rev |-> rev, step |-> "READ", plan |-> None,
     recovery |-> None, site |-> None, cases |-> 0]

\* The answer of a delivery has the disposition `why`.
Ack(n, why) == acked' = acked \cup {[notice |-> n, why |-> why]}

Deliver(n, t) ==
    /\ t \notin delivered
    /\ \E k \in WaitingCoordinators(n) : runs' = runs \cup {NewRun(n, t, k.rev)}
    /\ delivered' = delivered \cup {t}
    /\ UNCHANGED <<vars, acked, tasks, midnight>>

\* No coordinator waits: the notice is acknowledged and never retried.
RejectDelivery(n, t) ==
    /\ t \notin delivered
    /\ WaitingCoordinators(n) = {}
    /\ Ack(n, "REJECTED")
    /\ delivered' = delivered \cup {t}
    /\ UNCHANGED <<vars, runs, tasks, midnight>>

\* The message is older than PUBSUB_MAX_EVENT_AGE_SECONDS when it arrives.
RejectStale(n, t) ==
    /\ t \notin delivered
    /\ Ack(n, "STALE")
    /\ delivered' = delivered \cup {t}
    /\ UNCHANGED <<vars, runs, tasks, midnight>>

-----------------------------------------------------------------------------
(* _execute_managed_recall_event: the gate before the first mutation *)

Moved(r, next) == runs' = (runs \ {r}) \cup {next}

\* _read_authoritative_recall_inputs, and one of the candidates made from them:
\* lots are taken in either of two orders, orders in the order of their ids.
ReadInputs(r) ==
    /\ r.step = "READ"
    /\ \E i \in ActiveRows :
          /\ {j \in ActiveRows : plans[j].rev = r.rev} = {i}
          /\ \E l \in lots : l.lot = r.notice.lot
          /\ \E os \in SetToSeqs(AffectedLines(r.rev, r.notice.lot)),
                ls \in SetToSeqs(ClearLots) :
                LET recovery == Recovery(r.notice.incident, os, ls)
                IN  /\ recovery.allocations # {} /\ recovery.shortfalls # {}
                    /\ Moved(r, [r EXCEPT
                          !.step = "CUSTODY", !.plan = plans[i].plan,
                          !.recovery = IF IdsCollide(os, ls) THEN None
                                       ELSE recovery])
    /\ UNCHANGED <<vars, delivered, acked, tasks, midnight>>

\* The custody graph reconciles with the lot and one position is unconfirmed;
\* then the fleet proposes, and its candidate reconciles with the policy.
ReadCustody(r) ==
    /\ r.step = "CUSTODY"
    /\ \E l \in lots : /\ l.lot = r.notice.lot
                       /\ CasesIn(Positions(l.lot)) = l.cases
    /\ \E n \in nodes :
          /\ Unconfirmed(r.notice.lot) = {n} /\ n.cases > 0
          /\ Moved(r, [r EXCEPT !.step = "OPEN", !.site = n.node, !.cases = n.cases])
    /\ UNCHANGED <<vars, delivered, acked, tasks, midnight>>

\* Model Armor, a business condition of the reads, the fleet or the cross-check
\* stops the run: answered 200 with no mutation.
HaltForReview(r) ==
    /\ r.step \in {"READ", "CUSTODY"}
    /\ Ack(r.notice, "HALTED")
    /\ runs' = runs \ {r}
    /\ UNCHANGED <<vars, delivered, tasks, midnight>>

\* A read fails: the result carries the classification 503, and is answered 200.
HaltUnavailable(r) ==
    /\ r.step \in {"READ", "CUSTODY"}
    /\ Ack(r.notice, "UNAVAILABLE")
    /\ runs' = runs \ {r}
    /\ UNCHANGED <<vars, delivered, tasks, midnight>>

-----------------------------------------------------------------------------
(* The mutation phase *)

MutantBarrierSkipped ==
    [OPEN |-> "SCOPING", SCOPING |-> "CONTAINMENT", CONTAINMENT |-> "INVALIDATE",
     INVALIDATE |-> "RECOVER", RECOVER |-> "REFUSE", REFUSE |-> "TASK",
     TASK |-> "TERMINAL"]
MutantInvalidationSkipped ==
    [OPEN |-> "SCOPING", SCOPING |-> "BARRIER", BARRIER |-> "CONTAINMENT",
     CONTAINMENT |-> "RECOVER", RECOVER |-> "REFUSE", REFUSE |-> "TASK",
     TASK |-> "TERMINAL"]
MutantRecoveryFirst ==
    [OPEN |-> "SCOPING", SCOPING |-> "BARRIER", BARRIER |-> "CONTAINMENT",
     CONTAINMENT |-> "RECOVER", RECOVER |-> "INVALIDATE",
     INVALIDATE |-> "REFUSE", REFUSE |-> "TASK", TASK |-> "TERMINAL"]
MutantTaskLast ==
    [OPEN |-> "SCOPING", SCOPING |-> "BARRIER", BARRIER |-> "CONTAINMENT",
     CONTAINMENT |-> "INVALIDATE", INVALIDATE |-> "RECOVER",
     RECOVER |-> "REFUSE", REFUSE |-> "TERMINAL", TERMINAL |-> "TASK"]
NextStep ==
    [OPEN |-> "SCOPING", SCOPING |-> "BARRIER", BARRIER |-> "CONTAINMENT",
     CONTAINMENT |-> "INVALIDATE", INVALIDATE |-> "RECOVER",
     RECOVER |-> "REFUSE", REFUSE |-> "TASK", TASK |-> "TERMINAL"]

LedgerSteps == {"OPEN", "SCOPING", "BARRIER", "CONTAINMENT", "INVALIDATE",
                "RECOVER", "REFUSE", "TERMINAL"}

\* The run goes on to its next step, or answers 200 when it has none.
Advance(r) ==
    IF r.step \in DOMAIN NextStep
    THEN Moved(r, [r EXCEPT !.step = NextStep[r.step]]) /\ UNCHANGED acked
    ELSE runs' = runs \ {r} /\ Ack(r.notice, "COMPLETED")

\* The run ends in an error: answered 5xx, or not at all.
Ends(r) == runs' = runs \ {r} /\ UNCHANGED acked

\* A denial is an error to every step but the refusal, which expects one.
CallLedger(r) ==
    /\ r.step \in LedgerSteps
    /\ r.recovery # None \/ r.step # "RECOVER"
    /\ Answered(SagaCommand(r))
    /\ IF Succeeded(SagaCommand(r)) \/ r.step = "REFUSE" THEN Advance(r) ELSE Ends(r)
    /\ UNCHANGED <<delivered, tasks, midnight>>

\* The ledger commits and its answer is lost.
LoseAnswer(r) ==
    /\ r.step \in LedgerSteps
    /\ r.recovery # None \/ r.step # "RECOVER"
    /\ SagaCommand(r) \in Commands /\ Execute(SagaCommand(r))
    /\ Ends(r)
    /\ UNCHANGED <<delivered, tasks, midnight>>

\* The ledger refuses or cannot be reached, a task cannot be created, or the
\* process dies.
Fail(r) ==
    /\ Ends(r)
    /\ UNCHANGED <<vars, delivered, tasks, midnight>>

\* schedule_site01_deadline_task: the queue keeps the names of its tasks, and a
\* second task of the same name is the first one.
Enqueued(id, trace, inc, lot, site, cases) ==
    IF \E t \in tasks : t.id = id THEN tasks
    ELSE tasks \cup {[id |-> id, trace |-> trace, incident |-> inc,
                      hold |-> HoldId(inc, site), lot |-> lot, site |-> site,
                      cases |-> cases, answered |-> FALSE]}

ScheduleTask(r) ==
    /\ r.step = "TASK"
    /\ tasks' = Enqueued("ack-" \o r.trace, r.trace, r.notice.incident,
                         r.notice.lot, r.site, r.cases)
    /\ Advance(r) \/ Ends(r)
    /\ UNCHANGED <<vars, delivered, midnight>>

-----------------------------------------------------------------------------
(* The acknowledgment deadline: Cloud Tasks, its callback, the escalation *)

Answer(t) == tasks' = (tasks \ {t}) \cup {[t EXCEPT !.answered = TRUE]}

\* handle_site01_deadline_callback answers 200, and the task leaves the queue.
AnswerTask(id) ==
    /\ \E t \in tasks : /\ t.id = id /\ ~t.answered
                        /\ Answered(HoldCommand(t)) /\ Answer(t)
    /\ UNCHANGED <<delivered, acked, runs, midnight>>

\* The ledger commits the hold and the answer to the queue is lost.
LoseTaskAnswer(id) ==
    /\ \E t \in tasks : /\ t.id = id /\ ~t.answered
                        /\ HoldCommand(t) \in Commands /\ Execute(HoldCommand(t))
    /\ UNCHANGED orchestratorVars

\* schedule_site01_escalation for an open hold of a partially contained recall.
Escalate(t) ==
    /\ t \notin delivered
    /\ \E x, h \in incidents :
          /\ x.status = "PARTIALLY_CONTAINED"
          /\ h.type = "DEADLINE_HOLD" /\ h.status = "ACKNOWLEDGMENT_HOLD_ACTIVE"
          /\ h.incident = HoldId(x.incident, h.site)
          /\ tasks' = Enqueued("site01-" \o t, t, x.incident, x.lot, h.site, h.cases)
    /\ delivered' = delivered \cup {t}
    /\ UNCHANGED <<vars, acked, runs, midnight>>

Midnight ==
    /\ ~midnight /\ midnight' = TRUE
    /\ UNCHANGED <<vars, delivered, acked, runs, tasks>>

OtherCaller(c) == Execute(c) /\ UNCHANGED orchestratorVars

-----------------------------------------------------------------------------

TaskIds == {"ack-" \o t : t \in Traces} \cup {"site01-" \o t : t \in Traces}

RecallInit ==
    /\ Init
    /\ delivered = {} /\ acked = {} /\ runs = {} /\ tasks = {}
    /\ midnight = FALSE

RunStep(r) ==
    \/ ReadInputs(r) \/ ReadCustody(r) \/ HaltForReview(r) \/ HaltUnavailable(r)
    \/ CallLedger(r) \/ LoseAnswer(r) \/ ScheduleTask(r) \/ Fail(r)

RecallNext ==
    \/ \E n \in Notices, t \in Traces : 
          Deliver(n, t) \/ RejectDelivery(n, t) \/ RejectStale(n, t)
    \/ \E r \in runs : RunStep(r)
    \/ \E id \in TaskIds : AnswerTask(id) \/ LoseTaskAnswer(id)
    \/ \E t \in Traces : Escalate(t)
    \/ \E c \in Offered : OtherCaller(c)
    \/ Midnight

\* Cloud Tasks delivers a task again and again until it is answered.
TaskFairness == \A id \in TaskIds : WF_recallRunVars(AnswerTask(id))

RecallSpec == RecallInit /\ [][RecallNext]_recallRunVars /\ TaskFairness

-----------------------------------------------------------------------------
(* Properties *)

Steps == {"READ", "CUSTODY", "TASK"} \cup LedgerSteps
RunRow == [notice : Notices, trace : Traces, rev : STRING, step : Steps,
           plan : Optional(STRING), recovery : Optional(AllocateSafeStockPayload),
           site : Optional(STRING), cases : Nat]
TaskRow == [id : TaskIds, trace : Traces, incident : STRING, hold : STRING,
            lot : STRING, site : STRING, cases : PosInt, answered : BOOLEAN]
Dispositions == {"COMPLETED", "HALTED", "UNAVAILABLE", "REJECTED", "STALE"}

\* The orchestrator's state has its type, and every call it makes passes the
\* payload validation of the ledger.
RecallTypeOK ==
    /\ delivered \subseteq Traces
    /\ acked \subseteq [notice : Notices, why : Dispositions]
    /\ runs \subseteq RunRow
    /\ tasks \subseteq TaskRow
    /\ midnight \in BOOLEAN
    /\ \A r \in runs : r.step \in LedgerSteps =>
          \/ SagaCommand(r) \in Commands
          \/ r.step = "RECOVER" /\ r.recovery = None
    /\ \A t \in tasks : HoldCommand(t) \in Commands

Mutating(r) == r.step \in (LedgerSteps \ {"OPEN"}) \cup {"TASK"}
RecallReaches(x, rank) == x.type = "FOOD_SAFETY_RECALL" /\ RecallRank[x.status] >= rank

\* However often a notice is redelivered, and whoever publishes it again, at most
\* one run is past the opening of an incident: the trace in the fingerprint of
\* OPEN_RECALL_INCIDENT and the incident row keep a second writer out.
OneWriterPerRecall ==
    \A r, s \in runs :
        r.notice.incident = s.notice.incident /\ Mutating(r) /\ Mutating(s) => r = s

\* The saga alone moves the status of a recall (main.py:2173, 2183, 2218).
SagaMovesStatus == \A c \in Offered : c.type # "SET_INCIDENT_STATUS"

\* The saga alone opens recalls, takes the plan down and allocates safe stock
\* (main.py:2136, 2187, 2192).
SagaRunsRecalls ==
    \A c \in Offered : c.type \notin {"OPEN_RECALL_INCIDENT", "INVALIDATE_PLAN",
                                    "ALLOCATE_SAFE_STOCK"}

\* The status of a recall claims no more than was done, wherever its run broke
\* off: containment has its barrier, partial containment its safe recovery and
\* a deadline task for the unconfirmed site.
StatusTellsTheTruth ==
    \A x \in incidents :
        /\ RecallReaches(x, 3) =>
              \E b \in barriers : b.incident = x.incident /\ b.lot = x.lot
        /\ RecallReaches(x, 4) =>
              /\ \E t \in tasks : t.incident = x.incident /\ t.lot = x.lot
              /\ \E r \in receipts : /\ r.key = x.incident \o ":" \o "safe-recovery"
                                     /\ r.status = "SUCCESS"

\* No active plan ships a lot whose recall is partially contained or further.
ContainedLotsAreNotShipped ==
    \A x \in incidents : RecallReaches(x, 4) =>
        \A i \in ActiveRows : \A l \in Lines(plans[i].plan, plans[i].rev) : l.lot # x.lot

\* Recalls that run side by side never promise the same safe cases twice: the
\* recoveries from one lot fit in it.  No command checks that; it holds because
\* the invalidation that comes before the recovery succeeds only once.
SafeStockPromisedOnce ==
    \A l \in lots :
        CasesIn({a \in allocations : a.lot = l.lot}) <= l.cases

\* A recovery hides nothing: what it allocates and what it reports as short is
\* together what the recalled lot owed, agency by agency, and no safe lot gives
\* more than it holds.
RecoveryAccountsForEveryCase ==
    \A r \in runs : r.recovery # None =>
        LET due == AffectedLines(r.rev, r.notice.lot)
            given == r.recovery.allocations
            short == r.recovery.shortfalls
        IN  /\ \A l \in due :
                  CasesIn({x \in given \cup short : x.agency = l.agency})
                  = CasesIn({x \in due : x.agency = l.agency})
            /\ \A l \in lots : CasesIn({x \in given : x.lot = l.lot}) <= l.cases

\* A recall that has become partially contained gets the hold and the work item
\* of its unconfirmed site, through lost answers, crashes and redeliveries.
DeadlineIsRecorded ==
    \A n \in Notices :
        (\E x \in incidents : x.incident = n.incident /\ RecallReaches(x, 4))
        ~> (\E w \in workItems : w.incident = n.incident /\ w.type = CustodyWork)

-----------------------------------------------------------------------------
(* What the repository says of the recall and the orchestrator does not do *)

\* "transient managed or persistence failures remain retryable 5xx"
\* (docs/adr/007:34-35): a notice is rejected for good only when no recall of it
\* is left half done.
RejectedRecallsAreSettled ==
    [][\A a \in acked' \ acked, x \in incidents :
          /\ a.why = "REJECTED" /\ x.incident = a.notice.incident
          /\ ~RecallReaches(x, 4)
          => \E r \in runs : r.notice.incident = x.incident]_recallRunVars

=============================================================================
