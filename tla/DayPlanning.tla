---------------------------- MODULE DayPlanning ----------------------------
(***************************************************************************)
(* The orchestrator's other handlers on top of the plan ledger: the        *)
(* morning plan and the next-day draft that Pub/Sub asks for, the repair   *)
(* proposal of a vehicle fault, the waiting coordinator of the day and the *)
(* custody evidence of a partner.                                          *)
(*                                                                         *)
(* Each handler reads the tables in a snapshot, asks the agent fleet (or   *)
(* the evidence agent) and only then calls the ledger with what it derived *)
(* from the snapshot.  Everything else that commits runs in between: other *)
(* deliveries, and the Traffic of the approval route, the recalls and the  *)
(* deadline, each in the order of its own calls.                           *)
(***************************************************************************)
EXTENDS PlanLedger, SequencesExt

CONSTANTS
    Requests,    \* what Pub/Sub, the operator and the partner send
    Deliveries,  \* per request, a bound on its deliveries and retries
    MaxDeliveries, MaxJobs, \* bounds on all deliveries, and on those at work at once
    Traffic,     \* per other caller, its ledger calls in their order
    Readings,    \* what the evidence agent may make of a partner's text
    Ids,         \* the identifiers in the order the database sorts them
    Tomorrow     \* the operating day after Today

Kinds == {"PLAN_DAY", "PLAN_NEXT_DAY", "FAULT", "WAIT", "EVIDENCE"}

\* `body` is what the request carries: the operating plan, the failed vehicle,
\* the coordinator row, or the incident, partner, text and day of the evidence.
ASSUME DayConstants ==
    /\ \A q \in Requests :
          /\ q.kind \in Kinds /\ q.id \in STRING
          /\ q.kind = "FAULT" => q.body \in STRING
          /\ q.kind = "EVIDENCE" => {q.body.partner, q.body.text, q.body.day} \subseteq STRING
    /\ Deliveries \in [Requests -> Nat] /\ {MaxDeliveries, MaxJobs} \subseteq Nat
    /\ \A k \in DOMAIN Traffic : Traffic[k] \in Seq(Commands)
    /\ Readings \subseteq PartnerCustodyProposal
    /\ Ids \in Seq(STRING) /\ IsInjective(Ids) /\ Tomorrow \in STRING

VARIABLES
    delivered,  \* how often each request was delivered
    jobs,       \* the handlers that run
    answers,    \* the requests answered 2xx or 4xx, with the disposition
    done        \* per other caller, how many of its calls are made

handlerVars == <<delivered, jobs, answers, done>>
dayVars == <<vars, handlerVars>>

Rank(id) == CHOOSE i \in DOMAIN Ids : Ids[i] = id
FirstOf(ids) == CHOOSE x \in ids : \A y \in ids : Rank(x) <= Rank(y)
PlanId == "PLAN-" \o Today
NextPlanId == "PLAN-" \o Tomorrow
CandidateOrder(plan, id) == "CAND-" \o plan \o "-" \o id

\* The identifiers that the handlers put together are strings, and those of the
\* candidate's orders tell their shortfalls.  (True in TLA+; named for the provers.)
ASSUME ComposedIds ==
    /\ {"rev08", PlanId, NextPlanId, "NEXTDAY-" \o NextPlanId, "COORD-" \o Tomorrow}
          \subseteq STRING
    /\ \A q \in Requests, rev \in {"rev07", "rev08"} : "PROP-" \o rev \o q.id \in STRING
    /\ \A x \in Range(Ids) : CandidateOrder(NextPlanId, x) \in STRING
    /\ \A x, y \in Range(Ids) :
          CandidateOrder(NextPlanId, x) = CandidateOrder(NextPlanId, y) => x = y

Cmd(key, inc, role, type, exp, body) ==
    [key |-> key, inc |-> inc, role |-> role, type |-> type, exp |-> exp,
     trace |-> "trace", body |-> body]
PlannerCmd(key, inc, type, exp, body) ==
    Cmd(key, inc, "FULFILLMENT_RECOVERY_PLANNER", type, exp, body)

-----------------------------------------------------------------------------
(* The morning plan and the waiting coordinator: the request is the payload *)

MorningPlan(q) ==
    PlannerCmd("daily-plan:" \o q.body.plan, "INC-" \o q.body.plan,
               "SAVE_PLAN_REVISION", "rev07", q.body)
Waiting(q) ==
    Cmd("coordinator-wait:" \o q.body.coordinator \o q.body.checkpoint, q.id,
        "INCIDENT_COORDINATOR", "PERSIST_COORDINATOR", q.body.rev, q.body)

-----------------------------------------------------------------------------
(* _derive_repair_proposal *)

ActiveOfToday == {i \in ActiveRows : plans[i].plan = PlanId}
Stranded(vehicle, rev) ==
    {l \in Lines(PlanId, rev) : l.vehicle = vehicle /\ l.status # "DELIVERED"}
OtherVehicles(vehicle) == {v \in vehicles : v.operational /\ v.vehicle # vehicle}
FirstVehicle(vs) == CHOOSE v \in vs : v.vehicle = FirstOf({w.vehicle : w \in vs})
FirstLine(ls) == CHOOSE l \in ls : l.order = FirstOf({m.order : m \in ls})
Fitting(ls, v) == {l \in ls : l.cases <= v.capacity - v.load}

RepairFeasible(q) ==
    /\ \E i \in ActiveOfToday : ActiveOfToday = {i}
    /\ \A i \in ActiveOfToday :
          LET stranded == Stranded(q.body, plans[i].rev)
              others == OtherVehicles(q.body)
          IN  /\ \E x, y \in stranded : x # y
              /\ others # {}
              /\ Fitting(stranded, FirstVehicle(others)) # {}

\* The first other vehicle takes the first order that fits; the first of the
\* remaining orders is for the partner to pick up.
RepairDiff(stranded, target) ==
    LET reroute == FirstLine(Fitting(stranded, target))
        pickup == FirstLine(stranded \ {reroute})
    IN  [rerouteOrder |-> reroute.order, rerouteCases |-> reroute.cases,
         rerouteTarget |-> target.vehicle, pickupOrder |-> pickup.order,
         pickupCases |-> pickup.cases]

MutantRepairKey(rev, q) == Today \o ":" \o rev \o ":" \o q.id
\* The event is not part of the key: one proposal for each source revision.
RepairKey(rev, q) == Today \o ":" \o rev \o ":repair-proposal"

RepairProposal(q) ==
    LET source == plans[CHOOSE i \in ActiveOfToday : TRUE].rev
        target == FirstVehicle(OtherVehicles(q.body))
    IN  PlannerCmd(RepairKey(source, q), "NONE", "PERSIST_REPAIR_PROPOSAL", source,
            [proposal |-> "PROP-" \o source \o q.id, event |-> q.id,
             plan |-> PlanId, source |-> source, proposed |-> "rev08",
             vehicle |-> q.body, capacity |-> target.capacity,
             committed |-> target.load,
             diff |-> RepairDiff(Stranded(q.body, source), target)])

-----------------------------------------------------------------------------
(* _candidate_assignments: demand largest first, supply and vehicles by id *)

MutantPlace(schedule, item) ==
    LET lotsLeft == {l \in DOMAIN schedule.left : schedule.left[l] >= item.cases}
        room == {v \in DOMAIN schedule.room : schedule.room[v] >= item.cases}
    IN  IF lotsLeft = {} \/ room = {} THEN schedule
        ELSE [schedule EXCEPT !.left[FirstOf(lotsLeft)] = @ - item.cases,
                              !.room[FirstOf(room)] = @ - item.cases,
                              !.stops = @ \cup {[demand |-> item, lot |-> FirstOf(lotsLeft),
                                                 vehicle |-> FirstOf(room)]}]
Place(schedule, item) ==
    LET lotsLeft == {l \in DOMAIN schedule.left : schedule.left[l] >= item.cases}
        room == {v \in DOMAIN schedule.room : schedule.room[v] >= item.cases}
    IN  IF lotsLeft = {} \/ room = {}
        THEN [schedule EXCEPT !.unassigned = @ \cup {item}]
        ELSE [schedule EXCEPT !.left[FirstOf(lotsLeft)] = @ - item.cases,
                              !.room[FirstOf(room)] = @ - item.cases,
                              !.stops = @ \cup {[demand |-> item, lot |-> FirstOf(lotsLeft),
                                                 vehicle |-> FirstOf(room)]}]

LargerFirst(a, b) ==
    \/ a.cases > b.cases
    \/ a.cases = b.cases /\ Rank(a.agency) < Rank(b.agency)
    \/ a.cases = b.cases /\ a.agency = b.agency /\ Rank(a.id) < Rank(b.id)

LastOf(demand) == CHOOSE d \in demand : \A x \in demand \ {d} : LargerFirst(x, d)

TheRow(rows) == CHOOSE x \in rows : TRUE
LotRowOf(id, rows) == TheRow({l \in rows : l.lot = id})
VehicleRowOf(id, rows) == TheRow({v \in rows : v.vehicle = id})

NothingPlaced(safe, fleet) ==
    [left |-> [id \in {l.lot : l \in safe} |-> LotRowOf(id, safe).cases],
     room |-> [id \in {v.vehicle : v \in fleet} |->
                  VehicleRowOf(id, fleet).capacity - VehicleRowOf(id, fleet).load],
     stops |-> {}, unassigned |-> {}]
\* Each of the demand is placed when all that are larger have been.
Schedule(short, safe, fleet) ==
    LET placed[demand \in SUBSET short] ==
            IF demand = {} THEN NothingPlaced(safe, fleet)
            ELSE Place(placed[demand \ {LastOf(demand)}], LastOf(demand))
    IN  placed[short]

CandidateStopOf(s, plan) ==
    [order |-> CandidateOrder(plan, s.demand.id), agency |-> s.demand.agency,
     cases |-> s.demand.cases, lot |-> s.lot, shortfall |-> s.demand.id]
\* Only vehicles that carry something are part of the candidate.
CandidateVehicles(schedule, fleet, plan) ==
    {LET stops == {CandidateStopOf(s, plan) :
                      s \in {x \in schedule.stops : x.vehicle = v.vehicle}}
     IN  [vehicle |-> v.vehicle, capacity |-> v.capacity, committed |-> v.load,
          load |-> CasesIn(stops), stops |-> stops] :
        v \in {w \in fleet : \E s \in schedule.stops : s.vehicle = w.vehicle}}

-----------------------------------------------------------------------------
(* _generate_next_day_plan *)

UnresolvedRecalls ==
    {x \in incidents : x.type = "FOOD_SAFETY_RECALL" /\ x.status = "PARTIALLY_CONTAINED"}
BarriersOf(x) == {b \in barriers : b.incident = x.incident /\ b.lot = x.lot}
\* A hold names its recall in its details, as its work item does.
HoldsOf(x) ==
    {h \in incidents :
        /\ h.type = "DEADLINE_HOLD" /\ h.status = "ACKNOWLEDGMENT_HOLD_ACTIVE"
        /\ h.cases > 0
        /\ \E w \in workItems : w.incident = x.incident /\ w.type = CustodyWork
                                /\ w.details.hold = h.incident}
MutantSafeLots == lots
SafeLots == {l \in lots : l.hazard = "CLEAR_SAFE"}
Fleet == {v \in vehicles : v.operational}

\* The shortfalls of the recall: those of the table, where one recall of a day
\* is recovered.
ConstraintsComplete ==
    /\ \E x \in UnresolvedRecalls :
          UnresolvedRecalls = {x} /\ BarriersOf(x) # {} /\ HoldsOf(x) # {}
    /\ shortfalls # {} /\ SafeLots # {} /\ Fleet # {}

NextDayDraft ==
    LET x == TheRow(UnresolvedRecalls)
        plan == NextPlanId
        schedule == Schedule(shortfalls, SafeLots, Fleet)
    IN  PlannerCmd(plan \o ":rev01:day-close", x.incident, "CREATE_NEXT_DAY_DRAFT",
            "rev08",
            [event |-> "NEXTDAY-" \o plan, plan |-> plan, date |-> Tomorrow,
             coordinator |-> "COORD-" \o Tomorrow,
             barriers |-> {[barrier |-> b.barrier, lot |-> b.lot] : b \in BarriersOf(x)},
             shortfalls |-> shortfalls,
             holds |-> {[hold |-> h.incident, site |-> h.site, cases |-> h.cases] :
                           h \in HoldsOf(x)},
             vehicles |-> CandidateVehicles(schedule, Fleet, plan),
             unassigned |-> {[shortfall |-> u.id, agency |-> u.agency, cases |-> u.cases] :
                                u \in schedule.unassigned}])

-----------------------------------------------------------------------------
(* process_partner_evidence *)

InvalidatedOfToday ==
    {i \in DOMAIN plans : plans[i].plan = PlanId /\ plans[i].status = "INVALIDATED_RECALL"}

\* _read_partner_evidence_authority: exactly one of everything, and all of it
\* as the work item says.
AuthorityExact(q, w, n) ==
    /\ \E i \in InvalidatedOfToday : InvalidatedOfToday = {i}
    /\ OpenCustodyWork(q.body.inc) = {w}
    /\ n.node = w.details.node
    /\ n.cases = w.details.cases /\ n.ack = "UNCONFIRMED"
    /\ \E e \in edges : IncomingEdges(n.node, w.details.lot) = {e}
                        /\ e.cases = w.details.cases
    /\ \E x \in incidents : /\ x.incident = q.body.inc
                            /\ x.status = "PARTIALLY_CONTAINED"
                            /\ x.terminal = "PARTIALLY_CONTAINED"
                            /\ x.lot = w.details.lot
    /\ w.details.day = q.body.day
    /\ w.details.partner = q.body.partner

Evidence(q, proposal) ==
    Cmd("partner-evidence:" \o q.id, q.body.inc, "PARTNER_OPERATIONS_AGENT",
        "PROCESS_PARTNER_EVIDENCE", plans[TheRow(InvalidatedOfToday)].rev,
        [event |-> q.id, day |-> q.body.day, occurred |-> q.body.day,
         text |-> q.body.text, partner |-> q.body.partner, proposal |-> proposal])

-----------------------------------------------------------------------------
(* A handler, from its delivery to its answer *)

Job(q, n, step, command) ==
    [request |-> q, n |-> n, step |-> step, command |-> command]

\* Only the partner's evidence reads the authority before the agent reads the
\* text; the morning plan has nothing to read, the coordinator nobody to ask.
FirstStep(q) ==
    CASE q.kind = "PLAN_DAY" -> Job(q, delivered[q], "GATE", MorningPlan(q))
      [] q.kind = "WAIT" -> Job(q, delivered[q], "LEDGER", Waiting(q))
      [] OTHER -> Job(q, delivered[q], "READ", None)

Deliver(q) ==
    /\ delivered[q] < Deliveries[q]
    /\ FoldFunction(LAMBDA x, y : x + y, 0, delivered) < MaxDeliveries /\ Cardinality(jobs) < MaxJobs
    /\ delivered' = [delivered EXCEPT ![q] = @ + 1]
    /\ jobs' = jobs \cup {FirstStep(q)}
    /\ UNCHANGED <<vars, answers, done>>

\* A 5xx is no answer: the caller is to send the request again.
Ends(j, why) ==
    /\ jobs' = jobs \ {j}
    /\ answers' = IF why = "RETRY" THEN answers
                  ELSE answers \cup {[request |-> j.request, why |-> why]}
Reaches(j, step, command) ==
    /\ jobs' = (jobs \ {j}) \cup {Job(j.request, j.n, step, command)}
    /\ UNCHANGED answers

\* A push that is older than a day, or evidence outside the clock skew.
TooOld(j) ==
    /\ <<j.request.kind, j.step>> \in
          {<<"PLAN_DAY", "GATE">>, <<"PLAN_NEXT_DAY", "READ">>, <<"EVIDENCE", "READ">>}
    /\ Ends(j, "STALE")
    /\ UNCHANGED <<vars, delivered, done>>

Derive(j) ==
    /\ j.step = "READ"
    /\ LET q == j.request IN
       \/ /\ q.kind = "FAULT" /\ RepairFeasible(q)
          /\ Reaches(j, "GATE", RepairProposal(q))
       \/ /\ q.kind = "PLAN_NEXT_DAY" /\ ConstraintsComplete
          /\ Reaches(j, "GATE", NextDayDraft)
       \/ /\ q.kind = "EVIDENCE"
          /\ \E w \in workItems, n \in nodes : AuthorityExact(q, w, n)
          /\ \E proposal \in Readings : Reaches(j, "GATE", Evidence(q, proposal))
    /\ UNCHANGED <<vars, delivered, done>>

Infeasible(j) ==
    /\ j.step = "READ"
    /\ CASE j.request.kind = "FAULT" -> ~RepairFeasible(j.request)
         [] j.request.kind = "PLAN_NEXT_DAY" -> ~ConstraintsComplete
         [] j.request.kind = "EVIDENCE" ->
              ~\E w \in workItems, n \in nodes : AuthorityExact(j.request, w, n)
    /\ Ends(j, "REJECTED")
    /\ UNCHANGED <<vars, delivered, done>>

\* The fleet proposes the candidate, or the agent reads the evidence.
Pass(j) ==
    /\ j.step = "GATE"
    /\ Reaches(j, "LEDGER", j.command)
    /\ UNCHANGED <<vars, delivered, done>>

\* The answer to each kind of request when the agents, the ledger's receipt or
\* the ledger's refusal (an abort or a collision of keys) stop it.  A morning
\* plan is given up for a collision only; the next day for anything but a 5xx.
MutantMorningAnswers ==
    [gate |-> "REJECTED", denied |-> "REJECTED", aborted |-> "REJECTED",
     collided |-> "REJECTED"]
MorningAnswers ==
    [gate |-> "RETRY", denied |-> "RETRY", aborted |-> "RETRY", collided |-> "REJECTED"]
NextDayAnswers ==
    [gate |-> "REJECTED", denied |-> "REJECTED", aborted |-> "REJECTED",
     collided |-> "REJECTED"]
OperatorAnswers ==
    [gate |-> "REJECTED", denied |-> "REJECTED", aborted |-> "RETRY",
     collided |-> "RETRY"]
EvidenceAnswers ==
    [gate |-> "RETRY", denied |-> "DENIED", aborted |-> "REJECTED",
     collided |-> "REJECTED"]
Answering ==
    [PLAN_DAY |-> MorningAnswers, PLAN_NEXT_DAY |-> NextDayAnswers,
     FAULT |-> OperatorAnswers, WAIT |-> OperatorAnswers,
     EVIDENCE |-> EvidenceAnswers]

EndsAs(j, why) == Ends(j, Answering[j.request.kind][why])

Stop(j) ==
    /\ j.step = "GATE"
    /\ EndsAs(j, "gate")
    /\ UNCHANGED <<vars, delivered, done>>

Replayed(c) == \E r \in receipts : r.key = c.key
CallLedger(j) ==
    /\ j.step = "LEDGER"
    /\ Answered(j.command)
    /\ IF Succeeded(j.command)
       THEN Ends(j, IF Replayed(j.command) THEN "REPLAYED" ELSE "COMMITTED")
       ELSE EndsAs(j, "denied")
    /\ UNCHANGED <<delivered, done>>

Collides(c) ==
    \E r \in receipts : r.key = c.key /\ r.fp # RequestFingerprint(c)
\* The payload model refuses the body, or the transaction aborts.
Aborts(c) ==
    ~Settled(c) /\ (c.body \notin PayloadModels[c.type] \/ ~ENABLED Execute(c))
Refused(j) ==
    /\ j.step = "LEDGER"
    /\ \/ Collides(j.command) /\ EndsAs(j, "collided")
       \/ Aborts(j.command) /\ EndsAs(j, "aborted")
    /\ UNCHANGED <<vars, delivered, done>>

\* A read or the ledger is unavailable, or the process dies: 5xx or no answer.
Fail(j) ==
    /\ Ends(j, "RETRY")
    /\ UNCHANGED <<vars, delivered, done>>
LoseAnswer(j) ==
    /\ j.step = "LEDGER"
    /\ j.command \in Commands /\ Execute(j.command)
    /\ Ends(j, "RETRY")
    /\ UNCHANGED <<delivered, done>>

JobStep(j) ==
    \/ TooOld(j) \/ Derive(j) \/ Infeasible(j) \/ Pass(j) \/ Stop(j)
    \/ CallLedger(j) \/ Refused(j) \/ Fail(j) \/ LoseAnswer(j)

\* The next call of another caller, which makes no further one after a denial.
OtherCall(k) ==
    /\ done[k] < Len(Traffic[k])
    /\ LET c == Traffic[k][done[k] + 1] IN
       /\ Execute(c)
       /\ done' = [done EXCEPT ![k] = IF Succeeded(c) THEN @ + 1 ELSE Len(Traffic[k])]
    /\ UNCHANGED <<delivered, jobs, answers>>

-----------------------------------------------------------------------------

DayInit ==
    /\ Init
    /\ delivered = [q \in Requests |-> 0]
    /\ jobs = {} /\ answers = {}
    /\ done = [k \in DOMAIN Traffic |-> 0]

DayNext ==
    \/ \E q \in Requests : Deliver(q)
    \/ \E j \in jobs : JobStep(j)
    \/ \E k \in DOMAIN Traffic : OtherCall(k)

DaySpec == DayInit /\ [][DayNext]_dayVars

-----------------------------------------------------------------------------
(* Properties *)

\* What is known of the callers.  Repairs are proposed by the vehicle-fault handler
\* alone (main.py:2541), and the key of a morning plan names its plan
\* (main.py:1015); the identifiers the handlers sort are among Ids.
OnlyFaultsPropose ==
    \A k \in DOMAIN Traffic : \A c \in Range(Traffic[k]) :
        c.type # "PERSIST_REPAIR_PROPOSAL"
MorningKeysTell ==
    \A q \in Requests, c \in Commands :
        q.kind = "PLAN_DAY" /\ c.key = MorningPlan(q).key =>
            c.type = "SAVE_PLAN_REVISION" /\ c.body.plan = q.body.plan
IdsAreListed ==
    \A c \in Commands :
        /\ c.type = "SAVE_PLAN_REVISION" =>
              /\ {o.order : o \in c.body.orders} \subseteq Range(Ids)
              /\ {v.vehicle : v \in c.body.vehicles} \subseteq Range(Ids)
              /\ {l.lot : l \in c.body.lots} \subseteq Range(Ids)
        /\ c.type = "ALLOCATE_SAFE_STOCK" =>
              UNION {{f.id, f.agency} : f \in c.body.shortfalls} \subseteq Range(Ids)
        /\ c.type = "CREATE_NEXT_DAY_DRAFT" =>
              {x.order : x \in StopsOf(c.body.vehicles)} \subseteq Range(Ids)

\* A repair makes rev08 of rev07 (main.py:645); the id of a fault is of no other
\* event (main.py:2584, InboundEvents is keyed by it), and that of a next day is of
\* its draft; the id of a hold, a digest of its incident and site, tells which
\* custody is to be confirmed, as that of a barrier tells its lot (main.py:2177,
\* 2205); and a recall takes rev08 down, the only revision a coordinator waits at,
\* before it reports partial containment (main.py:405, 2187, 2218).
RepairsMakeRev08 ==
    \A c \in Commands : c.type = "ACTIVATE_APPROVED_REPAIR_PLAN" =>
        c.body.source = "rev07" /\ c.body.proposed = "rev08"
FaultEventsTell ==
    \A q \in Requests, c \in Commands : q.kind = "FAULT" =>
        /\ c.type = "SAVE_PLAN_REVISION" => c.key # q.id
        /\ c.type \in {"OPEN_RECALL_INCIDENT", "CREATE_NEXT_DAY_DRAFT"} => c.body.event # q.id
        /\ c.type = "RECORD_ACKNOWLEDGMENT_HOLD" => c.body.task # q.id
NextDayEventsTell ==
    LET event == "NEXTDAY-" \o NextPlanId IN
    \A c \in Commands :
        /\ c.type = "SAVE_PLAN_REVISION" => c.key # event
        /\ c.type \in {"OPEN_RECALL_INCIDENT", "PERSIST_REPAIR_PROPOSAL"} =>
              c.body.event # event
        /\ c.type = "RECORD_ACKNOWLEDGMENT_HOLD" => c.body.task # event
        /\ c.type = "CREATE_NEXT_DAY_DRAFT" /\ c.body.event = event =>
              c.body.plan = NextPlanId
HoldIdsTell ==
    \A c, d \in {x \in Commands : x.type = "RECORD_ACKNOWLEDGMENT_HOLD"} :
        /\ c.body.hold = d.body.hold => CustodyWorkId(c) = CustodyWorkId(d)
        /\ c.body.incident = d.body.incident /\ c.body.site = d.body.site =>
              c.body.hold = d.body.hold
BarrierIdsTell ==
    \A c, d \in {x \in Commands : x.type = "ACTIVATE_MOVEMENT_BARRIER"} :
        c.body.lot = d.body.lot => c.body.barrier = d.body.barrier
RecallsTakeRev08Down ==
    /\ \A c \in Commands : c.type = "INVALIDATE_PLAN" => c.body.rev = "rev08"
    /\ \A k \in DOMAIN Traffic : \A n \in DOMAIN Traffic[k] :
          /\ Traffic[k][n].type = "SET_INCIDENT_STATUS"
          /\ Traffic[k][n].body.new = "PARTIALLY_CONTAINED"
          => \E m \in 1..(n - 1) : Traffic[k][m].type = "INVALIDATE_PLAN"

Derived(type) == {j \in jobs : j.command # None /\ j.command.type = type}
Drafts == {j.command.body : j \in Derived("CREATE_NEXT_DAY_DRAFT")}

\* The candidate of a next day tells the truth about the shortfalls it was
\* derived from: each of them is served by one stop or reported short, and one
\* that is reported short does not fit in what is left on the vehicles, or of
\* the safe lots, after all that are served (main.py:2671-2748).
CandidatesAreTruthful ==
    \A b \in Drafts :
        LET stops == StopsOf(b.vehicles)
            LeftOf(l) == l.cases - CasesIn({s \in stops : s.lot = l.lot})
            RoomOn(v) == v.capacity - v.load
                         - CasesIn(UNION {c.stops : c \in {x \in b.vehicles :
                                                                x.vehicle = v.vehicle}})
        IN  /\ \A f \in b.shortfalls :
                  Cardinality({s \in stops : s.shortfall = f.id /\ s.cases = f.cases})
                  + Cardinality({u \in b.unassigned : u.shortfall = f.id}) = 1
            /\ \A u \in b.unassigned :
                  \/ \A l \in SafeLots : LeftOf(l) < u.cases
                  \/ \A v \in Fleet : RoomOn(v) < u.cases

\* The ledger would take the command: its body is a legal payload, and every guard
\* of its transaction holds, the gate of execute() and those of its handler.
Acceptable(c) ==
    /\ c.body \in PayloadModels[c.type]
    /\ Admitted(c, c.type)
    /\ CASE c.type = "PERSIST_REPAIR_PROPOSAL" -> ProposalOk(c)
         [] c.type = "CREATE_NEXT_DAY_DRAFT" ->
              DraftOk(c) /\ (DraftIsNew(c.body) \/ DraftIsThere(c.body))
         [] c.type = "PROCESS_PARTNER_EVIDENCE" ->
              \E w \in workItems, n \in nodes : EvidenceContext(c, w, n)

\* What overtakes a derived command, each of it a row that stays: a receipt under
\* its key; for a repair, that the revision it repairs is retired; for a draft, the
\* barrier of another recall on a lot it draws on; for evidence, its event, applied
\* evidence of the partner's custody, a second custody of the incident that is
\* open, or the containment of the incident.
Overtaken(c) ==
    \/ Settled(c)
    \/ CASE c.type = "PERSIST_REPAIR_PROPOSAL" ->
              \E i \in DOMAIN plans : /\ plans[i].plan = c.body.plan
                                      /\ plans[i].rev = c.body.source
                                      /\ plans[i].status # "ACTIVE"
         [] c.type = "CREATE_NEXT_DAY_DRAFT" ->
              \E s \in StopsOf(c.body.vehicles), x \in barriers :
                  x.lot = s.lot /\ \A y \in c.body.barriers : y.lot # s.lot
         [] c.type = "PROCESS_PARTNER_EVIDENCE" ->
              \/ \E e \in evidence :
                    \/ e.event = c.body.event
                    \/ e.decision = "APPLIED" /\ \E w \in workItems :
                          /\ w.incident = c.inc /\ w.type = CustodyWork
                          /\ w.details.partner = c.body.partner
                          /\ e.node = w.details.node
              \/ \E v, w \in OpenCustodyWork(c.inc) : v # w
              \/ \E x \in incidents : x.incident = c.inc
                                       /\ x.status \in {"CONTAINED", "CLOSED"}

\* What the handlers derive although the ledger takes it at no time: the repair of
\* a repaired plan, whose proposed revision is its source (main.py:2447, 2549;
\* ledger_commands.py:157), and the draft for two shortfalls of one agency, whose
\* constraints have one key (ledger_executor.py:1278-1304).
NeverTaken(c) ==
    CASE c.type = "PERSIST_REPAIR_PROPOSAL" -> c.body.source = "rev08"
      [] c.type = "CREATE_NEXT_DAY_DRAFT" ->
           \E f, g \in c.body.shortfalls : f # g /\ f.agency = g.agency
      [] OTHER -> FALSE

\* What was derived before the agents were asked is still acceptable to the ledger
\* when it is called, and a repair can still be carried out on its source, unless
\* it could be at no time or what overtook it is on record: of two handlers and
\* their callers nobody invalidates what another one derived without a trace.
NothingGoesStaleUnseen ==
    \A type \in {"PERSIST_REPAIR_PROPOSAL", "CREATE_NEXT_DAY_DRAFT",
                 "PROCESS_PARTNER_EVIDENCE"} :
        \A c \in {j.command : j \in Derived(type)} :
            \/ /\ Acceptable(c)
               /\ type = "PERSIST_REPAIR_PROPOSAL" =>
                     RepairFits(c.body.diff, Lines(c.body.plan, c.body.source))
            \/ Overtaken(c)
            \/ NeverTaken(c)

\* A revision has at most one repair proposal, so that no two of them claim the
\* same headroom, and that one fits beside what its vehicle carries.
ProposalsDoNotCompete ==
    LET proposals == {k \in constraints : k.type = "REPAIR_PROPOSAL"} IN
    \A k \in proposals :
        /\ \A m \in proposals : m.plan = k.plan /\ m.rev = k.rev => m = k
        /\ RepairFits(k.hash[3], Lines(k.plan, k.rev))

\* An answer agrees with the ledger: what is reported as committed or applied is
\* there, denied evidence is recorded as denied, and a morning plan is given up
\* only when the day has another one.
AnswersAgreeWithLedger ==
    \A a \in answers :
        LET q == a.request IN
        /\ a.why \in {"COMMITTED", "REPLAYED"} =>
              CASE q.kind = "PLAN_DAY" -> PlanExists(q.body.plan, "rev07")
                [] q.kind = "PLAN_NEXT_DAY" -> PlanExists(NextPlanId, "rev01")
                [] q.kind = "FAULT" -> \E k \in constraints : k.type = "REPAIR_PROPOSAL"
                                                              /\ k.plan = PlanId
                [] q.kind = "WAIT" -> \E k \in coordinators :
                                         k.coordinator = q.body.coordinator
                [] q.kind = "EVIDENCE" -> \E e \in evidence :
                                             e.event = q.id /\ e.decision = "APPLIED"
        /\ a.why = "DENIED" => \E r \in receipts : /\ r.key = "partner-evidence:" \o q.id
                                                   /\ r.status = "DENIED"
        /\ q.kind = "PLAN_DAY" /\ a.why = "REJECTED" =>
              \E i \in DOMAIN plans : plans[i].plan = q.body.plan

-----------------------------------------------------------------------------
(* What the repository says of the next day and the orchestrator does not do *)

\* "Nothing here invents a case": demand beyond the confirmed-safe supply stays
\* short (main.py:2677-2680).  The recovery of the day and the candidate of the
\* next day together promise no more of a safe lot than it holds.
NothingIsPromisedTwice ==
    \A l \in lots :
        CasesIn({a \in allocations : a.lot = l.lot})
        + MapThenSumSet(LAMBDA o : o.line.cases,
              {o \in orders : o.line.lot = l.lot /\ IsDraft(o.plan, o.rev, plans)})
            <= l.cases

=============================================================================
