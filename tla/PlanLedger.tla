----------------------------- MODULE PlanLedger -----------------------------
(***************************************************************************)
(* The plan ledger: SpannerLedgerCommandExecutor, the only writer of the   *)
(* authoritative tables.  Each command runs in one serializable Spanner    *)
(* read-write transaction, so each action below is one transaction.  A     *)
(* ValueError or a primary-key conflict aborts the transaction and leaves  *)
(* nothing behind, not even a receipt: it is a step that is not taken.     *)
(* Commands stay on offer for ever, so a lost response, a redelivery and a *)
(* retry are the same command taken again.                                 *)
(*                                                                         *)
(* A definition named Mutant... is the next definition with one plausible  *)
(* bug; no other definition uses it.                                       *)
(***************************************************************************)
EXTENDS LedgerTypes

VARIABLES
    plans,        \* PlanRevisions, in the order of created_at
    orders,       \* Orders, children of PlanRevisions
    constraints,  \* PlanConstraints, children of PlanRevisions
    approvals,    \* Approvals
    lots,         \* Lots
    vehicles,     \* Vehicles
    nodes,        \* CustodyNodes
    edges,        \* CustodyEdges
    incidents,    \* Incidents (recalls and deadline holds)
    barriers,     \* MovementBarriers
    workItems,    \* WorkItems
    allocations,  \* RecoveryAllocations
    shortfalls,   \* RecoveryShortfalls
    evidence,     \* PartnerEvidenceEvents
    coordinators, \* Coordinators
    events,       \* source_event_id of every InboundEvents row
    receipts,     \* Receipts
    now           \* the clock approvals expire against

planVars == <<plans, orders, constraints, approvals>>
stockVars == <<lots, vehicles>>
custodyVars == <<nodes, edges>>
recallVars == <<incidents, barriers, workItems>>
recoveryVars == <<allocations, shortfalls>>
vars == <<planVars, stockVars, custodyVars, recallVars, recoveryVars, evidence,
          coordinators, events, receipts, now>>

-----------------------------------------------------------------------------
(* Reading the tables *)

\* Rows of `new` whose primary keys are new to `table` and distinct.
Insertable(new, table, Key(_)) ==
    /\ \A x, y \in new : Key(x) = Key(y) => x = y
    /\ \A x \in new, y \in table : Key(x) # Key(y)

Latest(i, S) == \A j \in S : j <= i
MutantUnretiredRows == {i \in DOMAIN plans : plans[i].status # "SUPERSEDED"}
ActiveRows == {i \in DOMAIN plans : plans[i].status = "ACTIVE"}
ActiveRevision ==
    IF \E i \in ActiveRows : Latest(i, ActiveRows)
    THEN plans[CHOOSE i \in ActiveRows : Latest(i, ActiveRows)].rev
    ELSE None

RowsOf(r) == {i \in DOMAIN plans : plans[i].rev = r}
RevisionStatus(r) ==
    IF \E i \in RowsOf(r) : Latest(i, RowsOf(r))
    THEN plans[CHOOSE i \in RowsOf(r) : Latest(i, RowsOf(r))].status
    ELSE None

PlanExists(p, r) == \E i \in DOMAIN plans : plans[i].plan = p /\ plans[i].rev = r
Lines(p, r) == {o.line : o \in {x \in orders : x.plan = p /\ x.rev = r}}
IncidentExists(i) == \E x \in incidents : x.incident = i

\* Every table, Receipts included, is interleaved in Tenants, and the first
\* SAVE_PLAN_REVISION of an operating day writes the Tenants row.
TenantExists == plans # <<>>

-----------------------------------------------------------------------------
(* The gate every command passes: execute(), before _apply() *)

Receipt(c, status, rev) ==
    [key |-> c.key, type |-> c.type, status |-> status, rev |-> rev,
     fp |-> RequestFingerprint(c)]
Else(x, y) == IF x = None THEN y ELSE x

MutantSettledBySuccess(c) ==
    \E r \in receipts : r.key = c.key /\ r.status = "SUCCESS"
Settled(c) == \E r \in receipts : r.key = c.key
RoleAllowed(c) == c.role = AllowedRole[c.type]
RevisionMatches(c) ==
    \/ c.exp = None
    \/ /\ c.type = "CREATE_NEXT_DAY_DRAFT"
       /\ RevisionStatus(c.exp) = "INVALIDATED_RECALL"
    \/ /\ c.type # "CREATE_NEXT_DAY_DRAFT"
       /\ ActiveRevision = c.exp
    \/ /\ c.type \in {"ALLOCATE_SAFE_STOCK", "RECORD_REFUSAL",
                      "SET_INCIDENT_STATUS", "PROCESS_PARTNER_EVIDENCE"}
       /\ ActiveRevision = None
       /\ RevisionStatus(c.exp) = "INVALIDATED_RECALL"
    \/ /\ c.type = "SAVE_PLAN_REVISION"
       /\ ActiveRevision = None
       /\ c.body.rev = c.exp

Admitted(c, type) ==
    /\ c.type = type
    /\ type = "SAVE_PLAN_REVISION" \/ TenantExists
    /\ ~Settled(c)
    /\ RoleAllowed(c)
    /\ RevisionMatches(c)

\* The plan_revision_id a receipt carries.
ReceiptRevision(c) ==
    CASE c.type \in {"PERSIST_REPAIR_APPROVAL", "PERSIST_REPAIR_PROPOSAL",
                     "ACTIVATE_APPROVED_REPAIR_PLAN"} -> c.body.proposed
      [] c.type \in {"SAVE_PLAN_REVISION", "INVALIDATE_PLAN"} -> c.body.rev
      [] c.type = "CREATE_NEXT_DAY_DRAFT" -> "rev01"
      [] OTHER -> Else(ActiveRevision, Else(c.exp, "NONE"))

Succeed(c) == receipts' = receipts \cup {Receipt(c, "SUCCESS", ReceiptRevision(c))}
Denied(c, rev) == receipts' = receipts \cup {Receipt(c, "DENIED", rev)}

dataVars == <<planVars, stockVars, custodyVars, recallVars, recoveryVars,
              evidence, coordinators, events, now>>

DenyRole(c) ==
    /\ TenantExists /\ ~Settled(c) /\ ~RoleAllowed(c)
    /\ Denied(c, Else(c.exp, "NONE"))
    /\ UNCHANGED dataVars

DenyStaleRevision(c) ==
    /\ TenantExists /\ ~Settled(c) /\ RoleAllowed(c) /\ ~RevisionMatches(c)
    /\ Denied(c, Else(ActiveRevision, c.exp))
    /\ UNCHANGED dataVars

RecordRefusal(c) ==
    /\ Admitted(c, "RECORD_REFUSAL")
    /\ Denied(c, Else(ActiveRevision, Else(c.exp, "NONE")))
    /\ UNCHANGED dataVars

-----------------------------------------------------------------------------
(* SAVE_PLAN_REVISION *)

SavedPlanIsCoherent(b) ==
    LET lotIds == {l.lot : l \in b.lots}
        vehicleIds == {v.vehicle : v \in b.vehicles}
        nodeIds == {n.node : n \in b.nodes}
    IN  /\ \A v \in b.vehicles : v.load <= v.capacity
        /\ \A o \in b.orders : /\ o.lot \in lotIds
                               /\ o.vehicle \in Optional(vehicleIds)
        /\ \A e \in b.edges : /\ {e.source, e.target} \subseteq nodeIds
                              /\ e.lot \in lotIds

SaveOk(c) ==
    LET b == c.body
    IN  /\ b.day = Today /\ b.scope = b.day
        /\ ~PlanExists(b.plan, b.rev)
        /\ ActiveRevision \in {None, b.rev}
        /\ SavedPlanIsCoherent(b)
        /\ Insertable(b.orders, {}, LAMBDA o : o.order)
        /\ Insertable(b.lots, lots, LAMBDA l : l.lot)
        /\ Insertable(b.vehicles, vehicles, LAMBDA v : v.vehicle)
        /\ Insertable(b.nodes, nodes, LAMBDA n : n.node)
        /\ Insertable(b.edges, edges, LAMBDA e : e.edge)
        /\ c.key \notin events

NewLines(p, r, lines) == {[plan |-> p, rev |-> r, line |-> l] : l \in lines}

SavePlanRevision(c) ==
    /\ Admitted(c, "SAVE_PLAN_REVISION") /\ SaveOk(c)
    /\ plans' = Append(plans, [plan |-> c.body.plan, rev |-> c.body.rev,
                               status |-> c.body.status])
    /\ orders' = orders \cup NewLines(c.body.plan, c.body.rev, c.body.orders)
    /\ lots' = lots \cup c.body.lots
    /\ vehicles' = vehicles \cup c.body.vehicles
    /\ nodes' = nodes \cup c.body.nodes
    /\ edges' = edges \cup c.body.edges
    /\ events' = events \cup {c.key}
    /\ Succeed(c)
    /\ UNCHANGED <<constraints, approvals, recallVars, recoveryVars, evidence,
                   coordinators, now>>

-----------------------------------------------------------------------------
(* The repair of an active plan: proposal, approval, activation *)

ProposalOk(c) ==
    LET b == c.body
    IN  /\ b.source = ActiveRevision
        /\ RevisionStatus(b.source) = "ACTIVE"
        /\ RevisionStatus(b.proposed) = None
        /\ PlanExists(b.plan, b.source)
        /\ \A k \in constraints :
              ~ (/\ k.plan = b.plan /\ k.rev = b.source
                 /\ k.type = "REPAIR_PROPOSAL" /\ k.subject = b.proposal)
        /\ b.event \notin events

PersistRepairProposal(c) ==
    /\ Admitted(c, "PERSIST_REPAIR_PROPOSAL") /\ ProposalOk(c)
    /\ constraints' = constraints \cup
          {[plan |-> c.body.plan, rev |-> c.body.source,
            type |-> "REPAIR_PROPOSAL", subject |-> c.body.proposal,
            ref |-> c.body.vehicle, cases |-> c.body.committed,
            hash |-> DiffHash(c.body.source, c.body.proposed, c.body.diff)]}
    /\ events' = events \cup {c.body.event}
    /\ Succeed(c)
    /\ UNCHANGED <<plans, orders, approvals, stockVars, custodyVars, recallVars,
                   recoveryVars, evidence, coordinators, now>>

ApprovalOk(c) ==
    LET b == c.body
    IN  /\ b.scope = b.day
        /\ c.exp = b.source
        /\ b.source # b.proposed
        /\ b.hash = DiffHash(b.source, b.proposed, b.diff)
        /\ \A a \in approvals : a.approval # b.approval

\* The persisted REPAIR_PROPOSAL constraint is not read.
PersistRepairApproval(c) ==
    /\ Admitted(c, "PERSIST_REPAIR_APPROVAL") /\ ApprovalOk(c)
    /\ approvals' = approvals \cup
          {[approval |-> c.body.approval, inc |-> c.inc, plan |-> c.body.plan,
            source |-> c.body.source, proposed |-> c.body.proposed,
            day |-> c.body.day, scope |-> c.body.scope, diff |-> c.body.diff,
            hash |-> c.body.hash, expires |-> c.body.expires]}
    /\ Succeed(c)
    /\ UNCHANGED <<plans, orders, constraints, stockVars, custodyVars,
                   recallVars, recoveryVars, evidence, coordinators, events, now>>

MutantApprovalNeverExpires(a, c) ==
    /\ a.approval = c.body.approval
    /\ <<a.inc, a.plan, a.day, a.scope, a.source, a.proposed>> =
       <<c.inc, c.body.plan, c.body.day, c.body.scope, c.body.source,
         c.body.proposed>>
    /\ a.hash = DiffHash(c.body.source, c.body.proposed, a.diff)
MutantApprovalById(a, c) ==
    /\ a.approval = c.body.approval
    /\ now < a.expires
    /\ a.hash = DiffHash(c.body.source, c.body.proposed, a.diff)

\* The approval row that an activation command names, still good.
ApprovalInForce(a, c) ==
    /\ a.approval = c.body.approval
    /\ <<a.inc, a.plan, a.day, a.scope, a.source, a.proposed>> =
       <<c.inc, c.body.plan, c.body.day, c.body.scope, c.body.source,
         c.body.proposed>>
    /\ now < a.expires
    /\ a.hash = DiffHash(c.body.source, c.body.proposed, a.diff)

MutantRepairWithoutCapacity(diff, lines) ==
    /\ \E v \in vehicles : v.vehicle = diff.rerouteTarget /\ v.operational
    /\ diff.rerouteOrder # diff.pickupOrder
    /\ {diff.rerouteOrder, diff.pickupOrder} \subseteq {l.order : l \in lines}
    /\ \A l \in lines :
          /\ l.order = diff.rerouteOrder => l.cases = diff.rerouteCases
          /\ l.order = diff.pickupOrder => l.cases = diff.pickupCases

\* The signed diff can be carried out on the source lines.
RepairFits(diff, lines) ==
    /\ \E v \in vehicles : /\ v.vehicle = diff.rerouteTarget
                           /\ v.operational
                           /\ v.load + diff.rerouteCases <= v.capacity
    /\ diff.rerouteOrder # diff.pickupOrder
    /\ {diff.rerouteOrder, diff.pickupOrder} \subseteq {l.order : l \in lines}
    /\ \A l \in lines :
          /\ l.order = diff.rerouteOrder => l.cases = diff.rerouteCases
          /\ l.order = diff.pickupOrder => l.cases = diff.pickupCases

MutantDeductedLine(l, diff) ==
    IF l.order \in {diff.rerouteOrder, diff.pickupOrder}
    THEN [l EXCEPT !.vehicle = diff.rerouteTarget,
                   !.cases = @ - diff.rerouteCases]
    ELSE l

RepairedLine(l, diff) ==
    IF l.order = diff.rerouteOrder
    THEN [l EXCEPT !.vehicle = diff.rerouteTarget, !.status = "REROUTED"]
    ELSE IF l.order = diff.pickupOrder
    THEN [l EXCEPT !.vehicle = None, !.status = "PARTNER_PICKUP_CONVERTED"]
    ELSE l
Repaired(lines, diff) == {RepairedLine(l, diff) : l \in lines}

ActivateOk(c, a) ==
    LET b == c.body
    IN  /\ b.scope = b.day
        /\ c.exp = b.source
        /\ ApprovalInForce(a, c)
        /\ RepairFits(a.diff, Lines(b.plan, b.source))
        /\ ~PlanExists(b.plan, b.proposed)

MutantNotSuperseded(i) == plans
Superseded(i) == [plans EXCEPT ![i].status = "SUPERSEDED"]

ActivateApprovedRepairPlan(c) ==
    /\ Admitted(c, "ACTIVATE_APPROVED_REPAIR_PLAN")
    /\ \E a \in approvals, i \in ActiveRows :
          /\ ActivateOk(c, a)
          /\ plans[i].plan = c.body.plan /\ plans[i].rev = c.body.source
          /\ plans' = Append(Superseded(i),
                             [plan |-> c.body.plan, rev |-> c.body.proposed,
                              status |-> "ACTIVE"])
          /\ orders' = orders \cup
                NewLines(c.body.plan, c.body.proposed,
                         Repaired(Lines(c.body.plan, c.body.source), a.diff))
    /\ Succeed(c)
    /\ UNCHANGED <<constraints, approvals, stockVars, custodyVars, recallVars,
                   recoveryVars, evidence, coordinators, events, now>>

InvalidatePlan(c) ==
    /\ Admitted(c, "INVALIDATE_PLAN")
    /\ c.exp = c.body.rev
    /\ \E i \in ActiveRows :
          /\ plans[i].plan = c.body.plan /\ plans[i].rev = c.body.rev
          /\ plans' = [plans EXCEPT ![i].status = "INVALIDATED_RECALL"]
    /\ Succeed(c)
    /\ UNCHANGED <<orders, constraints, approvals, stockVars, custodyVars,
                   recallVars, recoveryVars, evidence, coordinators, events, now>>

-----------------------------------------------------------------------------
(* The day coordinator *)

PersistCoordinator(c) ==
    /\ Admitted(c, "PERSIST_COORDINATOR")
    /\ c.body.rev = c.exp
    /\ coordinators' =
          {k \in coordinators : k.coordinator # c.body.coordinator} \cup {c.body}
    /\ Succeed(c)
    /\ UNCHANGED <<planVars, stockVars, custodyVars, recallVars, recoveryVars,
                   evidence, events, now>>

-----------------------------------------------------------------------------
(* A food-safety recall: opening, lifecycle, barrier, safe-stock recovery *)

OpenRecallIncident(c) ==
    /\ Admitted(c, "OPEN_RECALL_INCIDENT")
    /\ c.body.incident = c.inc
    /\ c.body.armor = c.trace
    /\ ~IncidentExists(c.inc)
    /\ c.body.event \notin events
    /\ \E k \in coordinators :
          /\ k.coordinator = c.body.coordinator
          /\ coordinators' = (coordinators \ {k}) \cup
                {[k EXCEPT !.state = "RECALL_WOKEN_DETECTED",
                           !.children = @ \cup {c.inc}]}
    /\ incidents' = incidents \cup
          {[incident |-> c.inc, type |-> "FOOD_SAFETY_RECALL",
            status |-> "DETECTED", terminal |-> "NONE", lot |-> c.body.lot,
            site |-> None, cases |-> 0]}
    /\ events' = events \cup {c.body.event}
    /\ Succeed(c)
    /\ UNCHANGED <<planVars, stockVars, custodyVars, barriers, workItems,
                   recoveryVars, evidence, now>>

\* IncidentStateMachine: the one successor of each recall status, and the
\* terminal_state that goes with each status.
RecallSuccessor ==
    [DETECTED |-> "SCOPING", SCOPING |-> "CONTAINMENT_IN_PROGRESS",
     CONTAINMENT_IN_PROGRESS |-> "PARTIALLY_CONTAINED",
     PARTIALLY_CONTAINED |-> "CONTAINED", CONTAINED |-> "CLOSED"]
TerminalStateOf(status) ==
    IF status \in {"PARTIALLY_CONTAINED", "CONTAINED", "CLOSED"}
    THEN status ELSE "NONE"

StatusChangeOk(b) ==
    /\ b.expected \in DOMAIN RecallSuccessor
    /\ b.new = RecallSuccessor[b.expected]
    /\ b.new = "PARTIALLY_CONTAINED" => b.unconfirmed \notin {None, 0}
    /\ b.new \in {"CONTAINED", "CLOSED"} => b.unconfirmed = 0
    /\ b.terminal = TerminalStateOf(b.new)

MutantAnyStatus(x, c) == x.incident = c.inc
InExpectedStatus(x, c) == x.incident = c.inc /\ x.status = c.body.expected

SetIncidentStatus(c) ==
    /\ Admitted(c, "SET_INCIDENT_STATUS")
    /\ c.body.incident = c.inc
    /\ StatusChangeOk(c.body)
    /\ \E x \in incidents :
          /\ InExpectedStatus(x, c)
          /\ incidents' = (incidents \ {x}) \cup
                {[x EXCEPT !.status = c.body.new, !.terminal = c.body.terminal]}
    /\ Succeed(c)
    /\ UNCHANGED <<planVars, stockVars, custodyVars, barriers, workItems,
                   recoveryVars, evidence, coordinators, events, now>>

MutantNotRecalled(lot) == lots
Recalled(lot) ==
    {IF l.lot = lot THEN [l EXCEPT !.hazard = "RECALLED"] ELSE l : l \in lots}

ActivateMovementBarrier(c) ==
    /\ Admitted(c, "ACTIVATE_MOVEMENT_BARRIER")
    /\ c.body.incident = c.inc
    /\ IncidentExists(c.inc)
    /\ \A x \in barriers : x.barrier # c.body.barrier
    /\ \E l \in lots : l.lot = c.body.lot
    /\ \A w \in workItems : w.id # c.body.workItem
    /\ barriers' = barriers \cup {[barrier |-> c.body.barrier,
                                   incident |-> c.inc, lot |-> c.body.lot]}
    /\ lots' = Recalled(c.body.lot)
    /\ workItems' = workItems \cup
          {[id |-> c.body.workItem, incident |-> c.inc,
            type |-> "RECALL_SCOPE_AND_INVALIDATION", status |-> "REQUESTED",
            details |-> None]}
    /\ Succeed(c)
    /\ UNCHANGED <<planVars, vehicles, custodyVars, incidents, recoveryVars,
                   evidence, coordinators, events, now>>

MutantKnownLot(lot) == \E l \in lots : l.lot = lot
SafeLot(lot) == \E l \in lots : l.lot = lot /\ l.hazard \in {"SAFE", "CLEAR_SAFE"}

AllocateSafeStock(c) ==
    /\ Admitted(c, "ALLOCATE_SAFE_STOCK")
    /\ c.body.incident = c.inc
    /\ IncidentExists(c.inc)
    /\ \A a \in c.body.allocations : SafeLot(a.lot)
    /\ Insertable(c.body.allocations, allocations, LAMBDA a : a.id)
    /\ Insertable(c.body.shortfalls, shortfalls, LAMBDA f : f.id)
    /\ allocations' = allocations \cup c.body.allocations
    /\ shortfalls' = shortfalls \cup c.body.shortfalls
    /\ Succeed(c)
    /\ UNCHANGED <<planVars, stockVars, custodyVars, recallVars, evidence,
                   coordinators, events, now>>

-----------------------------------------------------------------------------
(* The acknowledgment deadline and the partner's evidence *)

CustodyWork == "PARTNER_CUSTODY_CONFIRMATION"
CustodyWorkId(c) ==
    <<"WORK-PCF", c.body.incident, c.body.partner, c.body.site, c.body.lot>>

MutantCustodyWorkOf(c) ==
    [id |-> CustodyWorkId(c), incident |-> c.inc, type |-> CustodyWork,
     status |-> "OPEN",
     details |-> [partner |-> c.body.partner, site |-> c.body.site,
                  node |-> c.body.node, lot |-> c.body.lot,
                  cases |-> c.body.cases, hold |-> c.body.incident,
                  day |-> c.body.day]]
CustodyWorkOf(c) ==
    [id |-> CustodyWorkId(c), incident |-> c.inc, type |-> CustodyWork,
     status |-> "OPEN",
     details |-> [partner |-> c.body.partner, site |-> c.body.site,
                  node |-> c.body.node, lot |-> c.body.lot,
                  cases |-> c.body.cases, hold |-> c.body.hold,
                  day |-> c.body.day]]

\* The hold row is an insert_or_update: a later deadline for the same hold
\* would overwrite it.
RecordAcknowledgmentHold(c) ==
    /\ Admitted(c, "RECORD_ACKNOWLEDGMENT_HOLD")
    /\ c.body.incident = c.inc
    /\ c.body.task \notin events
    /\ \A w \in workItems : w.id # CustodyWorkId(c)
    /\ incidents' = {x \in incidents : x.incident # c.body.hold} \cup
          {[incident |-> c.body.hold, type |-> "DEADLINE_HOLD",
            status |-> "ACKNOWLEDGMENT_HOLD_ACTIVE",
            terminal |-> "PARTIALLY_CONTAINED", lot |-> c.body.lot,
            site |-> c.body.site, cases |-> c.body.cases]}
    /\ events' = events \cup {c.body.task}
    /\ workItems' = workItems \cup {CustodyWorkOf(c)}
    /\ Succeed(c)
    /\ UNCHANGED <<planVars, stockVars, custodyVars, barriers, recoveryVars,
                   evidence, coordinators, now>>

OpenCustodyWork(inc) ==
    {w \in workItems : w.incident = inc /\ w.type = CustodyWork /\ w.status = "OPEN"}
IncomingEdges(node, lot) == {e \in edges : e.target = node /\ e.lot = lot}

\* The work item and custody node that evidence for c's incident is about.
EvidenceContext(c, w, n) ==
    /\ c.body.occurred = c.body.day
    /\ \A e \in evidence : e.event # c.body.event
    /\ OpenCustodyWork(c.inc) = {w}
    /\ \E x \in incidents :
          /\ x.incident = c.inc
          /\ x.status = "PARTIALLY_CONTAINED" /\ x.terminal = "PARTIALLY_CONTAINED"
          /\ w.details.lot = x.lot
    /\ w.details.partner = c.body.partner
    /\ w.details.day = c.body.day
    /\ n.node = w.details.node /\ n.ack = "UNCONFIRMED"
    /\ \E e \in edges : IncomingEdges(n.node, w.details.lot) = {e}

Supports(claim, value) == claim # None /\ claim.anchored /\ claim.value = value

\* verify_partner_custody_proposal: no reason to deny is found.
Verified(c, w, n) ==
    LET p == c.body.proposal
        d == w.details
    IN  /\ ~p.abstain /\ p.mutation = "CONFIRM_CUSTODY"
        /\ <<p.incident, p.partner, p.site, p.node>> =
           <<c.inc, d.partner, d.site, d.node>>
        /\ p.workItem = w.id
        /\ Supports(p.lot, d.lot) /\ Supports(p.quantity, d.cases)
        /\ Supports(p.location, n.name)
        /\ Supports(p.disposition, "ISOLATED_IN_QUARANTINE")
        /\ p.time # None /\ p.time.anchored
        /\ d.cases = n.cases
        /\ \A e \in IncomingEdges(n.node, d.lot) : e.cases = d.cases

MutantEvidenceApplied(c, w, n, decision) ==
    [event |-> c.body.event, incident |-> c.inc, partner |-> c.body.partner,
     node |-> n.node, workItem |-> w.id, decision |-> "APPLIED", key |-> c.key]
EvidenceOf(c, w, n, decision) ==
    [event |-> c.body.event, incident |-> c.inc, partner |-> c.body.partner,
     node |-> n.node, workItem |-> w.id, decision |-> decision, key |-> c.key]

ApplyPartnerEvidence(c) ==
    /\ Admitted(c, "PROCESS_PARTNER_EVIDENCE")
    /\ \E w \in workItems, n \in nodes :
          /\ EvidenceContext(c, w, n) /\ Verified(c, w, n)
          /\ nodes' = (nodes \ {n}) \cup {[n EXCEPT !.ack = "CONFIRMED"]}
          /\ workItems' = (workItems \ {w}) \cup {[w EXCEPT !.status = "COMPLETED"]}
          /\ evidence' = evidence \cup {EvidenceOf(c, w, n, "APPLIED")}
    /\ Succeed(c)
    /\ UNCHANGED <<planVars, stockVars, edges, incidents, barriers,
                   recoveryVars, coordinators, events, now>>

DenyPartnerEvidence(c) ==
    /\ Admitted(c, "PROCESS_PARTNER_EVIDENCE")
    /\ \E w \in workItems, n \in nodes :
          /\ EvidenceContext(c, w, n) /\ ~Verified(c, w, n)
          /\ evidence' = evidence \cup {EvidenceOf(c, w, n, "DENIED")}
    /\ Denied(c, ReceiptRevision(c))
    /\ UNCHANGED <<planVars, stockVars, custodyVars, recallVars, recoveryVars,
                   coordinators, events, now>>

-----------------------------------------------------------------------------
(* CREATE_NEXT_DAY_DRAFT: the next day inherits what is still open *)

InheritsOpenWork(b) ==
    /\ \A x \in b.barriers : \E y \in barriers :
          y.barrier = x.barrier /\ y.lot = x.lot
    /\ b.shortfalls \subseteq shortfalls
    /\ \A h \in b.holds : \E x \in incidents :
          /\ x.incident = h.hold /\ x.type = "DEADLINE_HOLD"
          /\ x.status = "ACKNOWLEDGMENT_HOLD_ACTIVE"
          /\ x.site = h.site /\ x.cases = h.cases

\* The candidate schedule, checked again against the authoritative rows.
CandidatesFit(b) ==
    /\ b.plan = "PLAN-" \o b.date
    /\ \A v \in b.vehicles : \E x \in vehicles :
          /\ x.vehicle = v.vehicle /\ x.operational
          /\ v.capacity = x.capacity /\ v.committed = x.load
          /\ x.load + v.load <= x.capacity
    /\ \A stop \in StopsOf(b.vehicles) :
          /\ \A x \in b.barriers : x.lot # stop.lot
          /\ \E f \in b.shortfalls : f.id = stop.shortfall /\ f.cases = stop.cases
          /\ \E l \in lots :
                /\ l.lot = stop.lot /\ l.hazard = "CLEAR_SAFE"
                /\ CasesIn({x \in StopsOf(b.vehicles) : x.lot = stop.lot}) <= l.cases

Inherited(b, type, subject, ref, cases) ==
    [plan |-> b.plan, rev |-> "rev01", type |-> type, subject |-> subject,
     ref |-> ref, cases |-> cases, hash |-> None]
InheritedConstraints(b) ==
    {Inherited(b, "LOT_MOVEMENT_BARRIER", x.lot, x.barrier, 0) : x \in b.barriers}
    \cup {Inherited(b, "RECOVERY_PRIORITY", x.agency, x.id, x.cases) : x \in b.shortfalls}
    \cup {Inherited(b, "ACKNOWLEDGMENT_HOLD", x.site, x.hold, x.cases) : x \in b.holds}
    \cup {Inherited(b, "UNASSIGNED_DEMAND", x.agency, x.shortfall, x.cases) :
              x \in b.unassigned}

CandidateLines(b) ==
    UNION {{[order |-> x.order, agency |-> x.agency, cases |-> x.cases,
             lot |-> x.lot, vehicle |-> v.vehicle, status |-> "CANDIDATE"] :
                x \in v.stops} : v \in b.vehicles}

DraftOk(c) == /\ InheritsOpenWork(c.body)
              /\ c.body.vehicles # {} => CandidatesFit(c.body)

\* The plan's constraints are keyed by type and subject.
DraftIsNew(b) ==
    /\ ~PlanExists(b.plan, "rev01")
    /\ b.event \notin events
    /\ Insertable(InheritedConstraints(b), {}, LAMBDA k : <<k.type, k.subject>>)
DraftIsThere(b) ==
    \E i \in DOMAIN plans :
        plans[i] = [plan |-> b.plan, rev |-> "rev01", status |-> "DRAFT_WITH_CONSTRAINTS"]

CreateNextDayDraft(c) ==
    /\ Admitted(c, "CREATE_NEXT_DAY_DRAFT") /\ DraftOk(c) /\ DraftIsNew(c.body)
    /\ plans' = Append(plans, [plan |-> c.body.plan, rev |-> "rev01",
                               status |-> "DRAFT_WITH_CONSTRAINTS"])
    /\ orders' = orders \cup NewLines(c.body.plan, "rev01", CandidateLines(c.body))
    /\ constraints' = constraints \cup InheritedConstraints(c.body)
    /\ events' = events \cup {c.body.event}
    /\ coordinators' =
          {k \in coordinators : k.coordinator # c.body.coordinator} \cup
          {[coordinator |-> c.body.coordinator,
            state |-> "DRAFT_WITH_CONSTRAINTS",
            checkpoint |-> "HUMAN_APPROVAL_REQUIRED", rev |-> "rev01",
            children |-> {}]}
    /\ Succeed(c)
    /\ UNCHANGED <<approvals, stockVars, custodyVars, recallVars, recoveryVars,
                   evidence, now>>

\* The draft is there already: a receipt, and no other write.
ReaffirmNextDayDraft(c) ==
    /\ Admitted(c, "CREATE_NEXT_DAY_DRAFT") /\ DraftOk(c) /\ DraftIsThere(c.body)
    /\ Succeed(c)
    /\ UNCHANGED dataVars

-----------------------------------------------------------------------------

Init ==
    /\ plans = <<>>
    /\ orders = {} /\ constraints = {} /\ approvals = {}
    /\ lots = {} /\ vehicles = {} /\ nodes = {} /\ edges = {}
    /\ incidents = {} /\ barriers = {} /\ workItems = {}
    /\ allocations = {} /\ shortfalls = {} /\ evidence = {}
    /\ coordinators = {} /\ events = {} /\ receipts = {}
    /\ now = 0

Tick ==
    /\ now < MaxNow
    /\ now' = now + 1
    /\ UNCHANGED <<planVars, stockVars, custodyVars, recallVars, recoveryVars,
                   evidence, coordinators, events, receipts>>

\* One transaction that commits.  A replay of a settled key, a collision and an
\* abort change nothing, and are stuttering steps.
Execute(c) ==
    \/ DenyRole(c) \/ DenyStaleRevision(c) \/ RecordRefusal(c)
    \/ SavePlanRevision(c)
    \/ PersistRepairProposal(c) \/ PersistRepairApproval(c)
    \/ ActivateApprovedRepairPlan(c) \/ InvalidatePlan(c)
    \/ PersistCoordinator(c)
    \/ OpenRecallIncident(c) \/ SetIncidentStatus(c)
    \/ ActivateMovementBarrier(c) \/ AllocateSafeStock(c)
    \/ RecordAcknowledgmentHold(c)
    \/ ApplyPartnerEvidence(c) \/ DenyPartnerEvidence(c)
    \/ CreateNextDayDraft(c) \/ ReaffirmNextDayDraft(c)

\* A call that is answered with a receipt: of this transaction, or of the one
\* that settled the same request before.
Answered(c) ==
    /\ c \in Commands
    /\ IF Settled(c)
       THEN /\ \E x \in receipts : x.key = c.key /\ x.fp = RequestFingerprint(c)
            /\ UNCHANGED vars
       ELSE Execute(c)
Succeeded(c) == \E x \in receipts' : x.key = c.key /\ x.status = "SUCCESS"

Next == Tick \/ \E c \in Commands : Execute(c)

Spec == Init /\ [][Next]_vars

-----------------------------------------------------------------------------
(* Properties *)

Receipts ==
    [key : STRING, type : CommandTypes, status : {"SUCCESS", "DENIED"},
     rev : STRING, fp : {RequestFingerprint(c) : c \in Commands}]

\* Every table holds rows of its schema, and the clock stays within its bound.
TypeOK ==
    /\ plans \in Seq(PlanRow)
    /\ orders \subseteq OrderRow
    /\ constraints \subseteq ConstraintRow
    /\ approvals \subseteq ApprovalRow
    /\ lots \subseteq LotRow
    /\ vehicles \subseteq VehicleRow
    /\ nodes \subseteq NodeRow
    /\ edges \subseteq EdgeRow
    /\ incidents \subseteq IncidentRow
    /\ barriers \subseteq BarrierRow
    /\ workItems \subseteq WorkItemRow
    /\ allocations \subseteq AllocationRow
    /\ shortfalls \subseteq ShortfallRow
    /\ evidence \subseteq EvidenceRow
    /\ coordinators \subseteq CoordinatorRow
    /\ events \subseteq STRING
    /\ receipts \subseteq Receipts
    /\ now \in 0..MaxNow

\* At most one revision of a plan is ACTIVE: a repair retires its source in the
\* transaction that inserts the repaired revision (ledger_executor.py:703-749),
\* and no save, second approval or late activation can add another.
OneActivePerPlan ==
    \A i, j \in ActiveRows : plans[i].plan = plans[j].plan => i = j

IsRepaired(i) ==
    plans[i].rev # "rev07" /\ plans[i].status # "DRAFT_WITH_CONSTRAINTS"

\* Every repaired revision holds exactly the orders that one persisted approval
\* signed for: those of its source revision with that approval's diff applied,
\* however long ago either was written (ledger_executor.py:617-749).
RepairedAsApproved ==
    \A i \in DOMAIN plans : IsRepaired(i) =>
        \E a \in approvals :
            /\ a.plan = plans[i].plan /\ a.proposed = plans[i].rev
            /\ PlanExists(a.plan, a.source)
            /\ a.hash = DiffHash(a.source, a.proposed, a.diff)
            /\ Lines(a.plan, a.proposed) = Repaired(Lines(a.plan, a.source), a.diff)

\* A plan that a recall has invalidated never has an ACTIVE revision again: an
\* approval signed before the recall cannot bring it back.
RecalledPlanStaysDown ==
    \A i, j \in DOMAIN plans :
        /\ plans[i].plan = plans[j].plan
        /\ plans[i].status = "INVALIDATED_RECALL"
        => plans[j].status # "ACTIVE"

\* The cases an active plan reroutes onto a vehicle fit beside the load that
\* vehicle carries already (ledger_executor.py:660-671).
ReroutesFit ==
    \A v \in vehicles, i \in ActiveRows :
        v.load + CasesIn({l \in Lines(plans[i].plan, plans[i].rev) :
                               l.vehicle = v.vehicle /\ l.status = "REROUTED"})
            <= v.capacity

\* A revision that has left ACTIVE never changes again, and no revision row is
\* ever rewritten to be another or removed.
RetiredRevisionsAreFinal ==
    [][\A i \in DOMAIN plans :
          /\ i \in DOMAIN plans'
          /\ plans'[i].plan = plans[i].plan /\ plans'[i].rev = plans[i].rev
          /\ plans[i].status # "ACTIVE" => plans'[i] = plans[i]]_vars

Keys == {c.key : c \in Commands}
Outcomes == {[key |-> r.key, status |-> r.status] : r \in receipts}
Promise == INSTANCE ExactlyOnce
           WITH outcomes <- Outcomes,
                data <- <<planVars, stockVars, custodyVars, recallVars,
                          recoveryVars, coordinators, events>>

\* The executor implements the exactly-once promise: replays, collisions and
\* denials add nothing, and no domain row is written without a fresh receipt.
ExactlyOnceCommands == Promise!Spec

BarredLots == {x.lot : x \in barriers}

\* A movement barrier and its lot's RECALLED status stand or fall together: no
\* later save or command makes a barred lot safe again.
BarredLotsStayRecalled ==
    \A x \in barriers :
        /\ \E l \in lots : l.lot = x.lot
        /\ \A l \in lots : l.lot = x.lot => l.hazard = "RECALLED"

IsDraft(p, r, table) ==
    \E i \in DOMAIN table :
        table[i] = [plan |-> p, rev |-> r, status |-> "DRAFT_WITH_CONSTRAINTS"]

\* Once a lot is barred, nothing new is promised from it: no recovery
\* allocation and no stop of a next-day candidate schedule.
NothingNewFromABarredLot ==
    [][/\ \A a \in allocations' \ allocations : a.lot \notin BarredLots
       /\ \A o \in orders' \ orders :
             IsDraft(o.plan, o.rev, plans') => o.line.lot \notin BarredLots]_vars

\* A partner's custody is confirmed exactly when one piece of evidence was
\* applied: work item, custody node and evidence event move together, and no
\* second event ever confirms the same node (ledger_executor.py:1633-1673).
CustodyConfirmedOnce ==
    LET applied == {e \in evidence : e.decision = "APPLIED"}
    IN  /\ \A w \in workItems : w.type = CustodyWork =>
              (w.status = "COMPLETED" <=> \E e \in applied : e.workItem = w.id)
        /\ \A e \in applied :
              /\ \E n \in nodes : n.node = e.node /\ n.ack = "CONFIRMED"
              /\ \A f \in applied : f.node = e.node => f = e
              /\ \E r \in receipts : r.key = e.key /\ r.status = "SUCCESS"

RecallRank ==
    [DETECTED |-> 1, SCOPING |-> 2, CONTAINMENT_IN_PROGRESS |-> 3,
     PARTIALLY_CONTAINED |-> 4, CONTAINED |-> 5, CLOSED |-> 6]

\* A recall is never lost and never moves back or skips a stage, whatever
\* deadline holds, evidence and retried status commands do around it.
RecallNeverRegresses ==
    [][\A x \in incidents : x.type = "FOOD_SAFETY_RECALL" =>
          \E y \in incidents' :
              /\ y.incident = x.incident /\ y.type = x.type /\ y.lot = x.lot
              /\ RecallRank[y.status] \in {RecallRank[x.status], RecallRank[x.status] + 1}
              /\ y.terminal = TerminalStateOf(y.status)]_vars

\* The ids of deadline holds, "HOLD-" and a digest, are those of no recall: what
\* callers owe the ledger, which would overwrite the recall's row with the hold.
HoldIdsAreNew ==
    \A c, d \in Commands :
        c.type = "RECORD_ACKNOWLEDGMENT_HOLD" /\ d.type = "OPEN_RECALL_INCIDENT"
        => c.body.hold # d.inc

\* The day has one plan, PLAN-<day> (apps/orchestrator/src/main.py:2435).
OnePlanOfTheDay ==
    \A c, d \in Commands :
        c.type = "SAVE_PLAN_REVISION" /\ d.type = "SAVE_PLAN_REVISION"
        => c.body.plan = d.body.plan

\* No repair makes rev01, the revision of a next day's draft: the one transition
\* that is approved is from rev07 to rev08 (apps/orchestrator/src/main.py:645).
NoRepairIsADraft ==
    \A c \in Commands :
        c.type = "ACTIVATE_APPROVED_REPAIR_PLAN" => c.body.proposed # "rev01"

\* A plan arrives with no order rerouted: only the activation of a repair writes
\* that status (ledger_executor.py:695), and what is repaired is the morning plan,
\* rev07 (apps/orchestrator/src/main.py:645).
MorningPlansAreRepairedOnce ==
    \A c \in Commands :
        /\ c.type = "SAVE_PLAN_REVISION" => \A o \in c.body.orders : o.status # "REROUTED"
        /\ c.type = "ACTIVATE_APPROVED_REPAIR_PLAN" => c.body.source = "rev07"

\* Every deadline hold has the custody-confirmation work item that can resolve
\* it, for the same site and cases: no hold is left that nobody can answer.
HoldsHaveWork ==
    \A x \in incidents : x.type = "DEADLINE_HOLD" =>
        \E w \in workItems :
            /\ w.type = CustodyWork /\ w.details.hold = x.incident
            /\ w.details.site = x.site /\ w.details.cases = x.cases
            /\ w.details.lot = x.lot

=============================================================================
