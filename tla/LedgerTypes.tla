---------------------------- MODULE LedgerTypes ----------------------------
(***************************************************************************)
(* The typed command contract of the plan ledger (ledger_commands.py) and  *)
(* the rows its commands write (infra/spanner/schema.sql).                 *)
(*                                                                         *)
(* Identifiers, revisions, days and free-form statuses are Python str      *)
(* fields, and are STRING here.  Payload lists are sets; the uniqueness    *)
(* checks of the code are checks on those sets.  Text, names, addresses,   *)
(* signatures and timestamps that no decision of the ledger reads are left *)
(* out.  One authority tenant is modelled: every table is partitioned by   *)
(* tenant_id, and no statement of the executor spans two tenants.          *)
(***************************************************************************)
EXTENDS Naturals, Sequences, FiniteSetsExt

CONSTANTS
    None,       \* SQL NULL / Python None
    Commands,   \* the commands that callers may send, each any number of times
    Today,      \* the operating day the tenant's storage authority is for
    MaxNow      \* bound on the clock that approvals expire against

Optional(S) == S \cup {None}
NonEmpty(S) == {T \in SUBSET S : IsFiniteSet(T)} \ {{}}
PosInt == Nat \ {0}
CasesIn(rows) == MapThenSumSet(LAMBDA row : row.cases, rows)

-----------------------------------------------------------------------------
(* Rows *)

PlanStatuses == {"ACTIVE", "SUPERSEDED", "INVALIDATED_RECALL",
                 "DRAFT_WITH_CONSTRAINTS"}
PlanRow == [plan : STRING, rev : STRING, status : PlanStatuses]

\* An order line is the part of an Orders row below its (plan, revision) parent.
OrderLine == [order : STRING, agency : STRING, cases : PosInt, lot : STRING,
              vehicle : Optional(STRING), status : STRING]
OrderRow == [plan : STRING, rev : STRING, line : OrderLine]

LotRow == [lot : STRING, hazard : STRING, cases : Nat]
VehicleRow == [vehicle : STRING, capacity : PosInt, load : Nat,
               operational : BOOLEAN]
AckStatuses == {"CONFIRMED", "UNCONFIRMED", "TOPOLOGY_ONLY"}
NodeRow == [node : STRING, name : STRING, cases : Nat, ack : AckStatuses]
EdgeRow == [edge : STRING, source : STRING, target : STRING, lot : STRING,
            cases : Nat]

\* The diff a repair proposes and an approval signs, and the hash that binds it.
\* SHA-256 is modelled as the tuple it digests: equal hashes, equal material.
PlanDiff == [rerouteOrder : STRING, rerouteCases : PosInt,
             rerouteTarget : STRING, pickupOrder : STRING,
             pickupCases : PosInt]
DiffHash(source, proposed, diff) == <<source, proposed, diff>>
DiffHashes == STRING \X STRING \X PlanDiff

\* A constraint keeps the facts its JSON details carry: `ref` names what the
\* constraint is about, `hash` is the diff hash of a REPAIR_PROPOSAL.
ConstraintRow == [plan : STRING, rev : STRING, type : STRING, subject : STRING,
                  ref : STRING, cases : Nat, hash : Optional(DiffHashes)]

ApprovalRow == [approval : STRING, inc : STRING, plan : STRING, source : STRING,
                proposed : STRING, day : STRING, scope : STRING,
                diff : PlanDiff, hash : DiffHashes, expires : Nat]

CoordinatorRow == [coordinator : STRING, state : STRING, checkpoint : STRING,
                   rev : STRING, children : SUBSET STRING]

\* A DEADLINE_HOLD row keeps its site and unconfirmed cases in its details.
IncidentRow == [incident : STRING, type : {"FOOD_SAFETY_RECALL", "DEADLINE_HOLD"},
                status : STRING, terminal : STRING, lot : STRING,
                site : Optional(STRING), cases : Nat]
BarrierRow == [barrier : STRING, incident : STRING, lot : STRING]
AllocationRow == [id : STRING, agency : STRING, lot : STRING, cases : PosInt]
ShortfallRow == [id : STRING, agency : STRING, cases : PosInt]

\* A work-item id is the material its hash digests.
WorkItemIds == Seq(STRING)
WorkDetails == [partner : STRING, site : STRING, node : STRING, lot : STRING,
                cases : PosInt, hold : STRING, day : STRING]
WorkItemRow == [id : WorkItemIds, incident : STRING, type : STRING,
                status : {"OPEN", "COMPLETED", "REQUESTED"},
                details : Optional(WorkDetails)]

EvidenceRow == [event : STRING, incident : STRING, partner : STRING,
                node : STRING, workItem : WorkItemIds,
                decision : {"APPLIED", "DENIED"}, key : STRING]

-----------------------------------------------------------------------------
(* Payload models *)

SavePlanRevisionPayload ==
    [plan : STRING, rev : {"rev07"}, status : {"ACTIVE"},
     day : STRING, scope : STRING,
     orders : NonEmpty(OrderLine), lots : NonEmpty(LotRow),
     vehicles : NonEmpty(VehicleRow), nodes : NonEmpty(NodeRow),
     edges : NonEmpty(EdgeRow)]

PersistRepairProposalPayload ==
    {p \in [proposal : STRING, event : STRING, plan : STRING, source : STRING,
            proposed : STRING, vehicle : STRING, capacity : PosInt,
            committed : Nat, diff : PlanDiff] :
        /\ p.source # p.proposed
        /\ p.committed + p.diff.rerouteCases <= p.capacity
        /\ p.diff.rerouteOrder # p.diff.pickupOrder
        /\ p.diff.rerouteTarget # p.vehicle}

\* `scope` names the day that the signed authority scope is for.
PersistRepairApprovalPayload ==
    [approval : STRING, plan : STRING, source : STRING, proposed : STRING,
     day : STRING, scope : STRING, diff : PlanDiff, hash : DiffHashes,
     expires : Nat]
ActivateApprovedRepairPlanPayload ==
    [approval : STRING, plan : STRING, source : STRING, proposed : STRING,
     day : STRING, scope : STRING]
InvalidatePlanPayload == [plan : STRING, rev : STRING]
AllocateSafeStockPayload ==
    [incident : STRING, allocations : NonEmpty(AllocationRow),
     shortfalls : NonEmpty(ShortfallRow)]
PersistCoordinatorPayload == CoordinatorRow
OpenRecallIncidentPayload ==
    [incident : STRING, coordinator : STRING, lot : STRING, event : STRING,
     armor : STRING]
RecordAcknowledgmentHoldPayload ==
    [incident : STRING, hold : STRING, lot : STRING, site : STRING,
     cases : PosInt, task : STRING, partner : STRING, node : STRING,
     day : STRING]
SetIncidentStatusPayload ==
    [incident : STRING, expected : STRING, new : STRING, terminal : STRING,
     unconfirmed : Optional(Nat)]
ActivateMovementBarrierPayload ==
    [barrier : STRING, incident : STRING, lot : STRING, workItem : WorkItemIds]
RecordRefusalPayload == [incident : STRING, subject : STRING]

CandidateStop == [order : STRING, agency : STRING, cases : PosInt, lot : STRING,
                  shortfall : STRING]
CandidateVehicle == [vehicle : STRING, capacity : PosInt, committed : Nat,
                     load : Nat, stops : NonEmpty(CandidateStop)]
UnassignedDemand == [shortfall : STRING, agency : STRING, cases : PosInt]
StopsOf(S) == UNION {v.stops : v \in S}
\* The model validator of the payload: its own arithmetic holds.
CandidateArithmeticHolds(p) ==
    /\ \A v \in p.vehicles : /\ CasesIn(v.stops) = v.load
                             /\ v.committed + v.load <= v.capacity
    /\ \A v, w \in p.vehicles : \A x \in v.stops, y \in w.stops :
            x.order = y.order => v = w /\ x = y
    /\ \A x \in StopsOf(p.vehicles), u \in p.unassigned : x.shortfall # u.shortfall
CreateNextDayDraftPayload ==
    {p \in [event : STRING, plan : STRING, date : STRING, coordinator : STRING,
            barriers : NonEmpty([barrier : STRING, lot : STRING]),
            shortfalls : NonEmpty(ShortfallRow),
            holds : NonEmpty([hold : STRING, site : STRING, cases : PosInt]),
            vehicles : {{}} \cup NonEmpty(CandidateVehicle),
            unassigned : {{}} \cup NonEmpty(UnassignedDemand)] :
        CandidateArithmeticHolds(p)}

\* A quoted claim is anchored when its quote occurs in the source text and its
\* value occurs in the quote.
Claim(V) == Optional([value : V, anchored : BOOLEAN])
PartnerCustodyProposal ==
    {p \in [incident : STRING, partner : STRING, site : STRING, node : STRING,
            workItem : WorkItemIds, lot : Claim(STRING), quantity : Claim(PosInt),
            location : Claim(STRING),
            disposition : Claim({"ISOLATED_IN_QUARANTINE"}),
            time : Claim(STRING), abstain : BOOLEAN,
            mutation : Optional({"CONFIRM_CUSTODY"})] :
        /\ None \in {p.lot, p.location, p.time} \/ p.quantity = None
              \/ p.disposition = None => p.abstain
        /\ p.abstain => p.mutation = None}
\* `text` stands for the source text and its hash, `occurred` for the day of
\* source_occurred_at.
ProcessPartnerEvidencePayload ==
    [event : STRING, day : STRING, occurred : STRING, text : STRING,
     partner : STRING, proposal : PartnerCustodyProposal]

PayloadModels ==
    [SAVE_PLAN_REVISION |-> SavePlanRevisionPayload,
     PERSIST_REPAIR_PROPOSAL |-> PersistRepairProposalPayload,
     PERSIST_REPAIR_APPROVAL |-> PersistRepairApprovalPayload,
     ACTIVATE_APPROVED_REPAIR_PLAN |-> ActivateApprovedRepairPlanPayload,
     INVALIDATE_PLAN |-> InvalidatePlanPayload,
     ALLOCATE_SAFE_STOCK |-> AllocateSafeStockPayload,
     PERSIST_COORDINATOR |-> PersistCoordinatorPayload,
     OPEN_RECALL_INCIDENT |-> OpenRecallIncidentPayload,
     RECORD_ACKNOWLEDGMENT_HOLD |-> RecordAcknowledgmentHoldPayload,
     SET_INCIDENT_STATUS |-> SetIncidentStatusPayload,
     ACTIVATE_MOVEMENT_BARRIER |-> ActivateMovementBarrierPayload,
     RECORD_REFUSAL |-> RecordRefusalPayload,
     CREATE_NEXT_DAY_DRAFT |-> CreateNextDayDraftPayload,
     PROCESS_PARTNER_EVIDENCE |-> ProcessPartnerEvidencePayload]
CommandTypes == DOMAIN PayloadModels

-----------------------------------------------------------------------------
(* Commands *)

AllowedRole ==
    [t \in CommandTypes |->
        IF t \in {"SAVE_PLAN_REVISION", "PERSIST_REPAIR_APPROVAL",
                  "ACTIVATE_APPROVED_REPAIR_PLAN", "ALLOCATE_SAFE_STOCK",
                  "CREATE_NEXT_DAY_DRAFT", "PERSIST_REPAIR_PROPOSAL"}
        THEN "FULFILLMENT_RECOVERY_PLANNER"
        ELSE IF t \in {"RECORD_ACKNOWLEDGMENT_HOLD", "PROCESS_PARTNER_EVIDENCE"}
        THEN "PARTNER_OPERATIONS_AGENT"
        ELSE "INCIDENT_COORDINATOR"]

\* What a caller can send: validated_payload() has accepted the body.  `exp` is
\* expected_plan_revision; `trace` is the delivery's trace id.
CommandsAssumption ==
    \A c \in Commands :
        /\ c.key \in STRING /\ c.inc \in STRING /\ c.role \in STRING
        /\ c.type \in CommandTypes /\ c.exp \in Optional(STRING)
        /\ c.trace \in STRING
        /\ c.body \in PayloadModels[c.type]

ASSUME LedgerCommands == CommandsAssumption
ASSUME NoneIsNoString == None \notin STRING
ASSUME ClockBound == Today \in STRING /\ MaxNow \in Nat

\* The literals that the executor itself writes are strings.  (True in TLA+;
\* named because proof backends know no string literal to be in STRING.)
ASSUME WrittenLiterals ==
    {"NONE", "rev01", "rev07", "REROUTED", "PARTNER_PICKUP_CONVERTED",
     "REPAIR_PROPOSAL", "LOT_MOVEMENT_BARRIER", "RECOVERY_PRIORITY",
     "ACKNOWLEDGMENT_HOLD", "UNASSIGNED_DEMAND", "CANDIDATE",
     "DRAFT_WITH_CONSTRAINTS", "HUMAN_APPROVAL_REQUIRED",
     "RECALL_WOKEN_DETECTED", "DETECTED", "RECALLED",
     "ACKNOWLEDGMENT_HOLD_ACTIVE", "PARTIALLY_CONTAINED", "WORK-PCF",
     "PARTNER_CUSTODY_CONFIRMATION", "RECALL_SCOPE_AND_INVALIDATION"}
        \subseteq STRING

MutantFingerprintOfType(c) ==
    [inc |-> c.inc, exp |-> c.exp, role |-> c.role, type |-> c.type]
\* The identity of a request.  Partner evidence is identified by its source
\* event and content: the role and the agent's proposal are left out of it.
RequestFingerprint(c) ==
    IF c.type = "PROCESS_PARTNER_EVIDENCE"
    THEN [inc |-> c.inc, exp |-> c.exp, partner |-> c.body.partner,
          event |-> c.body.event, occurred |-> c.body.occurred,
          text |-> c.body.text]
    ELSE [inc |-> c.inc, exp |-> c.exp, role |-> c.role, type |-> c.type,
          body |-> c.body]
=============================================================================
