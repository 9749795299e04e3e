-------------------------- MODULE PlanLedgerProofs --------------------------
(***************************************************************************)
(* What the plan ledger keeps, for every set of commands callers can send: *)
(* its types; the life of a plan's revisions and the approvals behind the  *)
(* repaired ones; the ExactlyOnce specification, which it implements; a    *)
(* lot under a movement barrier stays recalled and unallocated; a          *)
(* partner's custody is confirmed once, every hold can be answered and a   *)
(* recall goes forward; and a receipt tells what the tables hold.          *)
(***************************************************************************)
EXTENDS PlanLedger, SequenceTheorems, FiniteSetTheorems, WellFoundedInduction, TLAPS

(* What an admitted command carries. *)
LEMMA CommandTyping ==
    ASSUME NEW c \in Commands
    PROVE  /\ c.key \in STRING /\ c.inc \in STRING /\ c.role \in STRING
           /\ c.type \in CommandTypes /\ c.exp \in Optional(STRING)
           /\ c.trace \in STRING
           /\ c.body \in PayloadModels[c.type]
  BY LedgerCommands DEF CommandsAssumption

LEMMA PayloadTyping ==
    ASSUME NEW c \in Commands
    PROVE  /\ c.type = "SAVE_PLAN_REVISION" => c.body \in SavePlanRevisionPayload
           /\ c.type = "PERSIST_REPAIR_PROPOSAL" => c.body \in PersistRepairProposalPayload
           /\ c.type = "PERSIST_REPAIR_APPROVAL" => c.body \in PersistRepairApprovalPayload
           /\ c.type = "ACTIVATE_APPROVED_REPAIR_PLAN" =>
                c.body \in ActivateApprovedRepairPlanPayload
           /\ c.type = "INVALIDATE_PLAN" => c.body \in InvalidatePlanPayload
           /\ c.type = "ALLOCATE_SAFE_STOCK" => c.body \in AllocateSafeStockPayload
           /\ c.type = "PERSIST_COORDINATOR" => c.body \in PersistCoordinatorPayload
           /\ c.type = "OPEN_RECALL_INCIDENT" => c.body \in OpenRecallIncidentPayload
           /\ c.type = "RECORD_ACKNOWLEDGMENT_HOLD" =>
                c.body \in RecordAcknowledgmentHoldPayload
           /\ c.type = "SET_INCIDENT_STATUS" => c.body \in SetIncidentStatusPayload
           /\ c.type = "ACTIVATE_MOVEMENT_BARRIER" =>
                c.body \in ActivateMovementBarrierPayload
           /\ c.type = "CREATE_NEXT_DAY_DRAFT" => c.body \in CreateNextDayDraftPayload
           /\ c.type = "PROCESS_PARTNER_EVIDENCE" =>
                c.body \in ProcessPartnerEvidencePayload
  BY CommandTyping DEF PayloadModels

LEMMA ActiveRevisionType ==
    ASSUME plans \in Seq(PlanRow)
    PROVE  ActiveRevision \in Optional(STRING)
  <1>1. CASE \E i \in ActiveRows : Latest(i, ActiveRows)
    <2> DEFINE m == CHOOSE i \in ActiveRows : Latest(i, ActiveRows)
    <2>1. m \in ActiveRows
      BY <1>1
    <2>2. plans[m] \in PlanRow
      BY <2>1 DEF ActiveRows
    <2> QED
      BY <1>1, <2>2 DEF ActiveRevision, PlanRow, Optional
  <1>2. CASE ~ \E i \in ActiveRows : Latest(i, ActiveRows)
    BY <1>2 DEF ActiveRevision, Optional
  <1> QED
    BY <1>1, <1>2

(* A receipt of a command is a row of Receipts. *)
LEMMA ReceiptRevisionType ==
    ASSUME plans \in Seq(PlanRow), NEW c \in Commands
    PROVE  ReceiptRevision(c) \in STRING
  <1>1. Else(ActiveRevision, Else(c.exp, "NONE")) \in STRING
    <2>1. Else(c.exp, "NONE") \in STRING
      BY CommandTyping, WrittenLiterals DEF Else, Optional
    <2>2. ActiveRevision \in STRING \cup {None}
      BY ActiveRevisionType DEF Optional
    <2> QED
      BY <2>1, <2>2 DEF Else
  <1>2. CASE c.type = "PERSIST_REPAIR_APPROVAL"
    BY <1>2, PayloadTyping DEF ReceiptRevision, PersistRepairApprovalPayload
  <1>3. CASE c.type = "PERSIST_REPAIR_PROPOSAL"
    BY <1>3, PayloadTyping DEF ReceiptRevision, PersistRepairProposalPayload
  <1>4. CASE c.type = "ACTIVATE_APPROVED_REPAIR_PLAN"
    BY <1>4, PayloadTyping DEF ReceiptRevision, ActivateApprovedRepairPlanPayload
  <1>5. CASE c.type = "SAVE_PLAN_REVISION"
    BY <1>5, PayloadTyping, WrittenLiterals DEF ReceiptRevision, SavePlanRevisionPayload
  <1>6. CASE c.type = "INVALIDATE_PLAN"
    BY <1>6, PayloadTyping DEF ReceiptRevision, InvalidatePlanPayload
  <1>7. CASE c.type = "CREATE_NEXT_DAY_DRAFT"
    BY <1>7, WrittenLiterals DEF ReceiptRevision
  <1>8. CASE c.type \notin {"PERSIST_REPAIR_APPROVAL", "PERSIST_REPAIR_PROPOSAL",
                 "ACTIVATE_APPROVED_REPAIR_PLAN", "SAVE_PLAN_REVISION",
                 "INVALIDATE_PLAN", "CREATE_NEXT_DAY_DRAFT"}
    BY <1>1, <1>8 DEF ReceiptRevision
  <1> QED
    BY <1>2, <1>3, <1>4, <1>5, <1>6, <1>7, <1>8

LEMMA ReceiptType ==
    ASSUME NEW c \in Commands, NEW status \in {"SUCCESS", "DENIED"},
           NEW rev \in STRING, receipts \subseteq Receipts
    PROVE  receipts \cup {Receipt(c, status, rev)} \subseteq Receipts
  BY CommandTyping DEF Receipt, Receipts

LEMMA SucceedType ==
    ASSUME TypeOK, NEW c \in Commands, Succeed(c)
    PROVE  receipts' \subseteq Receipts
  BY ReceiptType, ReceiptRevisionType DEF TypeOK, Succeed

LEMMA DeniedType ==
    ASSUME TypeOK, NEW c \in Commands, NEW rev \in STRING, Denied(c, rev)
    PROVE  receipts' \subseteq Receipts
  BY ReceiptType DEF TypeOK, Denied

-----------------------------------------------------------------------------
(* Each transaction preserves TypeOK *)

LEMMA DenyType ==
    ASSUME TypeOK, NEW c \in Commands,
           DenyRole(c) \/ DenyStaleRevision(c) \/ RecordRefusal(c)
    PROVE  TypeOK'
  <1>1. ActiveRevision \in Optional(STRING) /\ c.exp \in Optional(STRING)
    BY ActiveRevisionType, CommandTyping DEF TypeOK
  <1>2. /\ Else(c.exp, "NONE") \in STRING
        /\ Else(ActiveRevision, Else(c.exp, "NONE")) \in STRING
    BY <1>1, WrittenLiterals DEF Else, Optional
  <1>3. receipts' \subseteq Receipts
    <2>1. CASE DenyRole(c)
      BY <2>1, <1>2, DeniedType DEF DenyRole
    <2>2. CASE DenyStaleRevision(c)
      <3>1. c.exp # None
        BY <2>2 DEF DenyStaleRevision, RevisionMatches
      <3>2. Else(ActiveRevision, c.exp) \in STRING
        BY <3>1, <1>1 DEF Else, Optional
      <3> QED
        BY <2>2, <3>2, DeniedType DEF DenyStaleRevision
    <2>3. CASE RecordRefusal(c)
      BY <2>3, <1>2, DeniedType DEF RecordRefusal
    <2> QED
      BY <2>1, <2>2, <2>3
  <1> QED
    BY <1>3 DEF DenyRole, DenyStaleRevision, RecordRefusal, TypeOK, dataVars,
                planVars, stockVars, custodyVars, recallVars, recoveryVars

LEMMA SaveType ==
    ASSUME TypeOK, NEW c \in Commands, SavePlanRevision(c)
    PROVE  TypeOK'
  <1>1. c.body \in SavePlanRevisionPayload /\ c.key \in STRING
    BY PayloadTyping, CommandTyping DEF SavePlanRevision, Admitted
  <1>2. plans' \in Seq(PlanRow)
    <2>1. [plan |-> c.body.plan, rev |-> c.body.rev, status |-> c.body.status]
              \in PlanRow
      BY <1>1, WrittenLiterals DEF SavePlanRevisionPayload, PlanRow, PlanStatuses
    <2> QED
      BY <2>1 DEF TypeOK, SavePlanRevision
  <1>3. orders' \subseteq OrderRow
    BY <1>1, WrittenLiterals
    DEF TypeOK, SavePlanRevision, SavePlanRevisionPayload, NonEmpty, NewLines,
        OrderRow
  <1>4. /\ lots' \subseteq LotRow /\ vehicles' \subseteq VehicleRow
        /\ nodes' \subseteq NodeRow /\ edges' \subseteq EdgeRow
        /\ events' \subseteq STRING
    BY <1>1 DEF TypeOK, SavePlanRevision, SavePlanRevisionPayload, NonEmpty
  <1>5. receipts' \subseteq Receipts
    BY SucceedType DEF SavePlanRevision
  <1> QED
    BY <1>2, <1>3, <1>4, <1>5
    DEF TypeOK, SavePlanRevision, recallVars, recoveryVars

LEMMA ProposalType ==
    ASSUME TypeOK, NEW c \in Commands, PersistRepairProposal(c)
    PROVE  TypeOK'
  <1>1. c.body \in PersistRepairProposalPayload
    BY PayloadTyping DEF PersistRepairProposal, Admitted
  <1>2. constraints' \subseteq ConstraintRow
    BY <1>1, WrittenLiterals
    DEF TypeOK, PersistRepairProposal, PersistRepairProposalPayload,
        ConstraintRow, DiffHash, DiffHashes, Optional
  <1>3. events' \subseteq STRING
    BY <1>1 DEF TypeOK, PersistRepairProposal, PersistRepairProposalPayload
  <1>4. receipts' \subseteq Receipts
    BY SucceedType DEF PersistRepairProposal
  <1> QED
    BY <1>2, <1>3, <1>4
    DEF TypeOK, PersistRepairProposal, stockVars, custodyVars, recallVars,
        recoveryVars

LEMMA ApprovalType ==
    ASSUME TypeOK, NEW c \in Commands, PersistRepairApproval(c)
    PROVE  TypeOK'
  <1>1. c.body \in PersistRepairApprovalPayload /\ c.inc \in STRING
    BY PayloadTyping, CommandTyping DEF PersistRepairApproval, Admitted
  <1>2. approvals' \subseteq ApprovalRow
    BY <1>1 DEF TypeOK, PersistRepairApproval, PersistRepairApprovalPayload,
                ApprovalRow
  <1>3. receipts' \subseteq Receipts
    BY SucceedType DEF PersistRepairApproval
  <1> QED
    BY <1>2, <1>3
    DEF TypeOK, PersistRepairApproval, stockVars, custodyVars, recallVars,
        recoveryVars

(* A repair keeps an order line an order line. *)
LEMMA RepairedLineType ==
    ASSUME NEW l \in OrderLine, NEW diff \in PlanDiff
    PROVE  RepairedLine(l, diff) \in OrderLine
  BY WrittenLiterals DEF RepairedLine, OrderLine, PlanDiff, Optional

LEMMA RepairedType ==
    ASSUME NEW lines \in SUBSET OrderLine, NEW diff \in PlanDiff
    PROVE  Repaired(lines, diff) \subseteq OrderLine
  BY RepairedLineType DEF Repaired

(* A change of status leaves the revisions a table of revisions, of which only
   row i differs, and only in its status. *)
LEMMA StatusChange ==
    ASSUME plans \in Seq(PlanRow), NEW i \in DOMAIN plans,
           NEW s \in PlanStatuses
    PROVE  /\ [plans EXCEPT ![i].status = s] \in Seq(PlanRow)
           /\ Len([plans EXCEPT ![i].status = s]) = Len(plans)
           /\ \A j \in DOMAIN plans :
                 [plans EXCEPT ![i].status = s][j] =
                    IF j = i THEN [plans[i] EXCEPT !.status = s] ELSE plans[j]
  <1> DEFINE row == [plans[i] EXCEPT !.status = s]
  <1>1. i \in 1..Len(plans) /\ DOMAIN plans = 1..Len(plans)
    BY LenProperties
  <1>2. plans[i] \in PlanRow
    BY <1>1, ElementOfSeq
  <1>3. row \in PlanRow
    BY <1>2 DEF PlanRow
  <1>4. [plans EXCEPT ![i].status = s] = [plans EXCEPT ![i] = row]
    OBVIOUS
  <1>5. /\ [plans EXCEPT ![i] = row] \in Seq(PlanRow)
        /\ Len([plans EXCEPT ![i] = row]) = Len(plans)
        /\ \A j \in 1..Len(plans) :
              [plans EXCEPT ![i] = row][j] = IF j = i THEN row ELSE plans[j]
    <2> HIDE DEF row
    <2> QED
      BY <1>1, <1>3, ExceptSeq
  <1> QED
    BY <1>1, <1>4, <1>5

LEMMA ActivateType ==
    ASSUME TypeOK, NEW c \in Commands, ActivateApprovedRepairPlan(c)
    PROVE  TypeOK'
  <1>1. c.body \in ActivateApprovedRepairPlanPayload
    BY PayloadTyping DEF ActivateApprovedRepairPlan, Admitted
  <1>2. PICK a \in approvals, i \in ActiveRows :
          /\ plans' = Append(Superseded(i),
                             [plan |-> c.body.plan, rev |-> c.body.proposed,
                              status |-> "ACTIVE"])
          /\ orders' = orders \cup
                NewLines(c.body.plan, c.body.proposed,
                         Repaired(Lines(c.body.plan, c.body.source), a.diff))
    BY DEF ActivateApprovedRepairPlan
  <1>3. plans' \in Seq(PlanRow)
    <2>1. Superseded(i) \in Seq(PlanRow)
      BY StatusChange DEF TypeOK, Superseded, ActiveRows, PlanStatuses
    <2>2. [plan |-> c.body.plan, rev |-> c.body.proposed, status |-> "ACTIVE"]
              \in PlanRow
      BY <1>1 DEF ActivateApprovedRepairPlanPayload, PlanRow, PlanStatuses
    <2> QED
      BY <1>2, <2>1, <2>2
  <1>4. orders' \subseteq OrderRow
    <2>1. Lines(c.body.plan, c.body.source) \in SUBSET OrderLine
      BY DEF TypeOK, Lines, OrderRow
    <2>2. a.diff \in PlanDiff
      BY DEF TypeOK, ApprovalRow
    <2>3. Repaired(Lines(c.body.plan, c.body.source), a.diff) \subseteq OrderLine
      BY <2>1, <2>2, RepairedType
    <2> QED
      BY <1>1, <1>2, <2>3
      DEF TypeOK, NewLines, OrderRow, ActivateApprovedRepairPlanPayload
  <1>5. receipts' \subseteq Receipts
    BY SucceedType DEF ActivateApprovedRepairPlan
  <1> QED
    BY <1>3, <1>4, <1>5
    DEF TypeOK, ActivateApprovedRepairPlan, stockVars, custodyVars, recallVars,
        recoveryVars

LEMMA InvalidateType ==
    ASSUME TypeOK, NEW c \in Commands, InvalidatePlan(c)
    PROVE  TypeOK'
  <1>1. plans' \in Seq(PlanRow)
    BY StatusChange DEF TypeOK, InvalidatePlan, ActiveRows, PlanStatuses
  <1>2. receipts' \subseteq Receipts
    BY SucceedType DEF InvalidatePlan
  <1> QED
    BY <1>1, <1>2
    DEF TypeOK, InvalidatePlan, stockVars, custodyVars, recallVars, recoveryVars

LEMMA CoordinatorType ==
    ASSUME TypeOK, NEW c \in Commands, PersistCoordinator(c)
    PROVE  TypeOK'
  <1>1. c.body \in CoordinatorRow
    BY PayloadTyping DEF PersistCoordinator, Admitted, PersistCoordinatorPayload
  <1>2. coordinators' \subseteq CoordinatorRow
    BY <1>1 DEF TypeOK, PersistCoordinator
  <1>3. receipts' \subseteq Receipts
    BY SucceedType DEF PersistCoordinator
  <1> QED
    BY <1>2, <1>3
    DEF TypeOK, PersistCoordinator, planVars, stockVars, custodyVars,
        recallVars, recoveryVars

LEMMA OpenType ==
    ASSUME TypeOK, NEW c \in Commands, OpenRecallIncident(c)
    PROVE  TypeOK'
  <1>1. c.body \in OpenRecallIncidentPayload /\ c.inc \in STRING
    BY PayloadTyping, CommandTyping DEF OpenRecallIncident, Admitted
  <1>2. coordinators' \subseteq CoordinatorRow
    <2>1. PICK k \in coordinators : coordinators' = (coordinators \ {k}) \cup
                {[k EXCEPT !.state = "RECALL_WOKEN_DETECTED",
                           !.children = @ \cup {c.inc}]}
      BY DEF OpenRecallIncident
    <2>2. k \in CoordinatorRow
      BY DEF TypeOK
    <2>3. [k EXCEPT !.state = "RECALL_WOKEN_DETECTED",
                    !.children = @ \cup {c.inc}] \in CoordinatorRow
      BY <1>1, <2>2, WrittenLiterals DEF CoordinatorRow
    <2> QED
      BY <2>1, <2>3 DEF TypeOK
  <1>3. incidents' \subseteq IncidentRow
    BY <1>1, WrittenLiterals
    DEF TypeOK, OpenRecallIncident, OpenRecallIncidentPayload, IncidentRow,
        Optional
  <1>4. events' \subseteq STRING
    BY <1>1 DEF TypeOK, OpenRecallIncident, OpenRecallIncidentPayload
  <1>5. receipts' \subseteq Receipts
    BY SucceedType DEF OpenRecallIncident
  <1> QED
    BY <1>2, <1>3, <1>4, <1>5
    DEF TypeOK, OpenRecallIncident, planVars, stockVars, custodyVars,
        recoveryVars

LEMMA StatusType ==
    ASSUME TypeOK, NEW c \in Commands, SetIncidentStatus(c)
    PROVE  TypeOK'
  <1>1. c.body \in SetIncidentStatusPayload
    BY PayloadTyping DEF SetIncidentStatus, Admitted
  <1>2. incidents' \subseteq IncidentRow
    <2>1. PICK x \in incidents : incidents' = (incidents \ {x}) \cup
                {[x EXCEPT !.status = c.body.new, !.terminal = c.body.terminal]}
      BY DEF SetIncidentStatus
    <2>2. x \in IncidentRow
      BY DEF TypeOK
    <2>3. [x EXCEPT !.status = c.body.new, !.terminal = c.body.terminal]
              \in IncidentRow
      BY <1>1, <2>2 DEF SetIncidentStatusPayload, IncidentRow
    <2> QED
      BY <2>1, <2>3 DEF TypeOK
  <1>3. receipts' \subseteq Receipts
    BY SucceedType DEF SetIncidentStatus
  <1> QED
    BY <1>2, <1>3
    DEF TypeOK, SetIncidentStatus, planVars, stockVars, custodyVars, recoveryVars

LEMMA BarrierType ==
    ASSUME TypeOK, NEW c \in Commands, ActivateMovementBarrier(c)
    PROVE  TypeOK'
  <1>1. c.body \in ActivateMovementBarrierPayload /\ c.inc \in STRING
    BY PayloadTyping, CommandTyping DEF ActivateMovementBarrier, Admitted
  <1>2. lots' \subseteq LotRow
    <2>1. \A l \in lots : [l EXCEPT !.hazard = "RECALLED"] \in LotRow
      BY WrittenLiterals DEF TypeOK, LotRow
    <2> QED
      BY <2>1 DEF TypeOK, ActivateMovementBarrier, Recalled
  <1>3. barriers' \subseteq BarrierRow
    BY <1>1 DEF TypeOK, ActivateMovementBarrier, ActivateMovementBarrierPayload,
                BarrierRow
  <1>4. workItems' \subseteq WorkItemRow
    BY <1>1, WrittenLiterals
    DEF TypeOK, ActivateMovementBarrier, ActivateMovementBarrierPayload,
        WorkItemRow, Optional
  <1>5. receipts' \subseteq Receipts
    BY SucceedType DEF ActivateMovementBarrier
  <1> QED
    BY <1>2, <1>3, <1>4, <1>5
    DEF TypeOK, ActivateMovementBarrier, planVars, custodyVars, recoveryVars

LEMMA AllocateType ==
    ASSUME TypeOK, NEW c \in Commands, AllocateSafeStock(c)
    PROVE  TypeOK'
  <1>1. c.body \in AllocateSafeStockPayload
    BY PayloadTyping DEF AllocateSafeStock, Admitted
  <1>2. allocations' \subseteq AllocationRow /\ shortfalls' \subseteq ShortfallRow
    BY <1>1 DEF TypeOK, AllocateSafeStock, AllocateSafeStockPayload, NonEmpty
  <1>3. receipts' \subseteq Receipts
    BY SucceedType DEF AllocateSafeStock
  <1> QED
    BY <1>2, <1>3
    DEF TypeOK, AllocateSafeStock, planVars, stockVars, custodyVars, recallVars

LEMMA HoldType ==
    ASSUME TypeOK, NEW c \in Commands, RecordAcknowledgmentHold(c)
    PROVE  TypeOK'
  <1>1. c.body \in RecordAcknowledgmentHoldPayload /\ c.inc \in STRING
    BY PayloadTyping, CommandTyping DEF RecordAcknowledgmentHold, Admitted
  <1>2. incidents' \subseteq IncidentRow
    BY <1>1, WrittenLiterals
    DEF TypeOK, RecordAcknowledgmentHold, RecordAcknowledgmentHoldPayload,
        IncidentRow, Optional, PosInt
  <1>3. workItems' \subseteq WorkItemRow
    <2>1. CustodyWorkId(c) \in WorkItemIds
      BY <1>1, WrittenLiterals
      DEF CustodyWorkId, WorkItemIds, RecordAcknowledgmentHoldPayload
    <2>2. [partner |-> c.body.partner, site |-> c.body.site,
           node |-> c.body.node, lot |-> c.body.lot, cases |-> c.body.cases,
           hold |-> c.body.hold, day |-> c.body.day] \in WorkDetails
      BY <1>1 DEF RecordAcknowledgmentHoldPayload, WorkDetails
    <2>3. CustodyWork \in STRING
      BY WrittenLiterals DEF CustodyWork
    <2>4. CustodyWorkOf(c) \in WorkItemRow
      BY <1>1, <2>1, <2>2, <2>3 DEF CustodyWorkOf, WorkItemRow, Optional
    <2> QED
      BY <2>4 DEF TypeOK, RecordAcknowledgmentHold
  <1>4. events' \subseteq STRING
    BY <1>1 DEF TypeOK, RecordAcknowledgmentHold, RecordAcknowledgmentHoldPayload
  <1>5. receipts' \subseteq Receipts
    BY SucceedType DEF RecordAcknowledgmentHold
  <1> QED
    BY <1>2, <1>3, <1>4, <1>5
    DEF TypeOK, RecordAcknowledgmentHold, planVars, stockVars, custodyVars,
        recoveryVars

LEMMA EvidenceOfType ==
    ASSUME TypeOK, NEW c \in Commands, c.type = "PROCESS_PARTNER_EVIDENCE",
           NEW w \in workItems, NEW n \in nodes,
           NEW decision \in {"APPLIED", "DENIED"}
    PROVE  EvidenceOf(c, w, n, decision) \in EvidenceRow
  <1>1. c.body \in ProcessPartnerEvidencePayload /\ c.key \in STRING
    BY PayloadTyping, CommandTyping
  <1>2. w \in WorkItemRow /\ n \in NodeRow
    BY DEF TypeOK
  <1> QED
    BY <1>1, <1>2, CommandTyping
    DEF EvidenceOf, EvidenceRow, ProcessPartnerEvidencePayload, WorkItemRow,
        NodeRow

LEMMA ApplyEvidenceType ==
    ASSUME TypeOK, NEW c \in Commands, ApplyPartnerEvidence(c)
    PROVE  TypeOK'
  <1>1. c.type = "PROCESS_PARTNER_EVIDENCE"
    BY DEF ApplyPartnerEvidence, Admitted
  <1>2. PICK w \in workItems, n \in nodes :
          /\ nodes' = (nodes \ {n}) \cup {[n EXCEPT !.ack = "CONFIRMED"]}
          /\ workItems' = (workItems \ {w}) \cup {[w EXCEPT !.status = "COMPLETED"]}
          /\ evidence' = evidence \cup {EvidenceOf(c, w, n, "APPLIED")}
    BY DEF ApplyPartnerEvidence
  <1>3. nodes' \subseteq NodeRow
    <2>1. n \in NodeRow
      BY DEF TypeOK
    <2>2. [n EXCEPT !.ack = "CONFIRMED"] \in NodeRow
      BY <2>1 DEF NodeRow, AckStatuses
    <2> QED
      BY <1>2, <2>2 DEF TypeOK
  <1>4. workItems' \subseteq WorkItemRow
    <2>1. w \in WorkItemRow
      BY DEF TypeOK
    <2>2. [w EXCEPT !.status = "COMPLETED"] \in WorkItemRow
      BY <2>1 DEF WorkItemRow
    <2> QED
      BY <1>2, <2>2 DEF TypeOK
  <1>5. evidence' \subseteq EvidenceRow
    BY <1>1, <1>2, EvidenceOfType DEF TypeOK
  <1>6. receipts' \subseteq Receipts
    BY SucceedType DEF ApplyPartnerEvidence
  <1> QED
    BY <1>3, <1>4, <1>5, <1>6
    DEF TypeOK, ApplyPartnerEvidence, planVars, stockVars, recoveryVars

LEMMA DenyEvidenceType ==
    ASSUME TypeOK, NEW c \in Commands, DenyPartnerEvidence(c)
    PROVE  TypeOK'
  <1>1. c.type = "PROCESS_PARTNER_EVIDENCE"
    BY DEF DenyPartnerEvidence, Admitted
  <1>2. evidence' \subseteq EvidenceRow
    BY <1>1, EvidenceOfType DEF TypeOK, DenyPartnerEvidence
  <1>3. ReceiptRevision(c) \in STRING
    BY ReceiptRevisionType DEF TypeOK
  <1>4. receipts' \subseteq Receipts
    BY <1>3, DeniedType DEF DenyPartnerEvidence
  <1> QED
    BY <1>2, <1>4
    DEF TypeOK, DenyPartnerEvidence, planVars, stockVars, custodyVars,
        recallVars, recoveryVars

LEMMA DraftType ==
    ASSUME TypeOK, NEW c \in Commands, CreateNextDayDraft(c)
    PROVE  TypeOK'
  <1> DEFINE b == c.body
  <1>1. c.body \in CreateNextDayDraftPayload
    BY PayloadTyping DEF CreateNextDayDraft, Admitted
  <1>2. /\ b.plan \in STRING /\ b.event \in STRING /\ b.coordinator \in STRING
        /\ b.barriers \subseteq [barrier : STRING, lot : STRING]
        /\ b.shortfalls \subseteq ShortfallRow
        /\ b.holds \subseteq [hold : STRING, site : STRING, cases : PosInt]
        /\ b.vehicles \subseteq CandidateVehicle
        /\ b.unassigned \subseteq UnassignedDemand
    BY <1>1 DEF CreateNextDayDraftPayload, NonEmpty
  <1>3. plans' \in Seq(PlanRow)
    <2> DEFINE draft == [plan |-> c.body.plan, rev |-> "rev01",
                         status |-> "DRAFT_WITH_CONSTRAINTS"]
    <2>1. draft \in PlanRow
      BY <1>2, WrittenLiterals DEF PlanRow, PlanStatuses
    <2>2. plans' = Append(plans, draft)
      BY DEF CreateNextDayDraft
    <2> HIDE DEF draft
    <2> QED
      BY <2>1, <2>2 DEF TypeOK
  <1>4. orders' \subseteq OrderRow
    <2>1. CandidateLines(b) \subseteq OrderLine
      BY <1>2, WrittenLiterals
      DEF CandidateLines, CandidateVehicle, CandidateStop, NonEmpty, OrderLine,
          Optional
    <2>2. NewLines(b.plan, "rev01", CandidateLines(b)) \subseteq OrderRow
      BY <1>2, <2>1, WrittenLiterals DEF NewLines, OrderRow
    <2> QED
      BY <2>2 DEF TypeOK, CreateNextDayDraft
  <1>5. constraints' \subseteq ConstraintRow
    <2>1. \A type, subject, ref \in STRING, cases \in Nat :
             Inherited(b, type, subject, ref, cases) \in ConstraintRow
      BY <1>2, WrittenLiterals DEF Inherited, ConstraintRow, Optional
    <2>2. /\ \A x \in b.barriers :
                Inherited(b, "LOT_MOVEMENT_BARRIER", x.lot, x.barrier, 0)
                    \in ConstraintRow
          /\ \A x \in b.shortfalls :
                Inherited(b, "RECOVERY_PRIORITY", x.agency, x.id, x.cases)
                    \in ConstraintRow
          /\ \A x \in b.holds :
                Inherited(b, "ACKNOWLEDGMENT_HOLD", x.site, x.hold, x.cases)
                    \in ConstraintRow
          /\ \A x \in b.unassigned :
                Inherited(b, "UNASSIGNED_DEMAND", x.agency, x.shortfall, x.cases)
                    \in ConstraintRow
      BY <1>2, <2>1, WrittenLiterals DEF ShortfallRow, UnassignedDemand, PosInt
    <2>3. InheritedConstraints(b) \subseteq ConstraintRow
      BY <2>2 DEF InheritedConstraints
    <2> QED
      BY <2>3 DEF TypeOK, CreateNextDayDraft
  <1>6. coordinators' \subseteq CoordinatorRow
    <2> DEFINE next == [coordinator |-> c.body.coordinator,
                        state |-> "DRAFT_WITH_CONSTRAINTS",
                        checkpoint |-> "HUMAN_APPROVAL_REQUIRED",
                        rev |-> "rev01", children |-> {}]
    <2>1. next \in CoordinatorRow
      BY <1>2, WrittenLiterals DEF CoordinatorRow
    <2>2. coordinators' =
            {k \in coordinators : k.coordinator # c.body.coordinator} \cup {next}
      BY DEF CreateNextDayDraft
    <2> HIDE DEF next
    <2> QED
      BY <2>1, <2>2 DEF TypeOK
  <1>7. events' \subseteq STRING
    BY <1>2 DEF TypeOK, CreateNextDayDraft
  <1>8. receipts' \subseteq Receipts
    BY SucceedType DEF CreateNextDayDraft
  <1> QED
    BY <1>3, <1>4, <1>5, <1>6, <1>7, <1>8
    DEF TypeOK, CreateNextDayDraft, stockVars, custodyVars, recallVars,
        recoveryVars

LEMMA ReaffirmType ==
    ASSUME TypeOK, NEW c \in Commands, ReaffirmNextDayDraft(c)
    PROVE  TypeOK'
  <1>1. receipts' \subseteq Receipts
    BY SucceedType DEF ReaffirmNextDayDraft
  <1> QED
    BY <1>1 DEF ReaffirmNextDayDraft, TypeOK, dataVars, planVars, stockVars,
                custodyVars, recallVars, recoveryVars

LEMMA TickType ==
    ASSUME TypeOK, Tick
    PROVE  TypeOK'
  <1>1. now' \in 0..MaxNow
    BY ClockBound DEF TypeOK, Tick
  <1> QED
    BY <1>1 DEF TypeOK, Tick, planVars, stockVars, custodyVars, recallVars,
                recoveryVars

LEMMA TypeStep == TypeOK /\ [Next]_vars => TypeOK'
  <1> SUFFICES ASSUME TypeOK, [Next]_vars
               PROVE  TypeOK'
    OBVIOUS
  <1>1. CASE UNCHANGED vars
    BY <1>1 DEF TypeOK, vars, planVars, stockVars, custodyVars, recallVars,
                recoveryVars
  <1>2. CASE Tick
    BY <1>2, TickType
  <1>3. ASSUME NEW c \in Commands, Execute(c)
        PROVE  TypeOK'
    BY <1>3, DenyType, SaveType, ProposalType, ApprovalType, ActivateType,
       InvalidateType, CoordinatorType, OpenType, StatusType, BarrierType,
       AllocateType, HoldType, ApplyEvidenceType, DenyEvidenceType, DraftType,
       ReaffirmType
    DEF Execute
  <1> QED
    BY <1>1, <1>2, <1>3 DEF Next

(* Every row the executor ever writes is a row of its table's schema, for every
   set of commands that pass their payload models. *)
THEOREM TypeCorrect == Spec => []TypeOK
  <1>1. Init => TypeOK
    BY ClockBound DEF Init, TypeOK
  <1> QED
    BY <1>1, TypeStep, PTL DEF Spec

-----------------------------------------------------------------------------
(* How a step changes PlanRevisions *)

(* A revision is inserted, and no other row changes. *)
PlanAdded(row) ==
    /\ row \in PlanRow /\ ~PlanExists(row.plan, row.rev)
    /\ DOMAIN plans' = 1..(Len(plans) + 1)
    /\ \A j \in DOMAIN plans : plans'[j] = plans[j]
    /\ plans'[Len(plans) + 1] = row

(* The ACTIVE revision i is retired and its repair inserted. *)
PlanReplaced(i, row) ==
    /\ i \in ActiveRows
    /\ row \in PlanRow /\ ~PlanExists(row.plan, row.rev)
    /\ row.plan = plans[i].plan /\ row.status = "ACTIVE"
    /\ DOMAIN plans' = 1..(Len(plans) + 1)
    /\ \A j \in DOMAIN plans :
          plans'[j] = IF j = i THEN [plans[i] EXCEPT !.status = "SUPERSEDED"]
                      ELSE plans[j]
    /\ plans'[Len(plans) + 1] = row

(* The ACTIVE revision i is invalidated by a recall. *)
PlanRecalled(i) ==
    /\ i \in ActiveRows
    /\ DOMAIN plans' = DOMAIN plans
    /\ \A j \in DOMAIN plans :
          plans'[j] = IF j = i THEN [plans[i] EXCEPT !.status = "INVALIDATED_RECALL"]
                      ELSE plans[j]

LEMMA PlansDomain ==
    ASSUME TypeOK
    PROVE  /\ Len(plans) \in Nat /\ DOMAIN plans = 1..Len(plans)
           /\ \A i \in DOMAIN plans : plans[i] \in PlanRow
  BY LenProperties, ElementOfSeq DEF TypeOK

LEMMA AppendPointwise ==
    ASSUME NEW s \in Seq(PlanRow), NEW row \in PlanRow
    PROVE  /\ DOMAIN Append(s, row) = 1..(Len(s) + 1)
           /\ \A j \in DOMAIN s : Append(s, row)[j] = s[j]
           /\ Append(s, row)[Len(s) + 1] = row
  BY LenProperties

LEMMA SaveAdds ==
    ASSUME TypeOK, NEW c \in Commands, SavePlanRevision(c)
    PROVE  \E row : /\ PlanAdded(row) /\ row.rev = "rev07" /\ row.status = "ACTIVE"
                    /\ c.type = "SAVE_PLAN_REVISION" /\ row.plan = c.body.plan
  <1> DEFINE row == [plan |-> c.body.plan, rev |-> c.body.rev,
                     status |-> c.body.status]
  <1>1. c.body \in SavePlanRevisionPayload
    BY PayloadTyping DEF SavePlanRevision, Admitted
  <1>2. /\ row \in PlanRow /\ row.rev = "rev07" /\ row.status = "ACTIVE"
        /\ row.plan = c.body.plan
    BY <1>1, WrittenLiterals DEF SavePlanRevisionPayload, PlanRow, PlanStatuses
  <1>3. /\ plans' = Append(plans, row) /\ ~PlanExists(row.plan, row.rev)
        /\ c.type = "SAVE_PLAN_REVISION"
    BY DEF SavePlanRevision, SaveOk, Admitted
  <1> HIDE DEF row
  <1>4. PlanAdded(row)
    BY <1>2, <1>3, AppendPointwise DEF TypeOK, PlanAdded
  <1> QED
    BY <1>2, <1>3, <1>4

LEMMA DraftAdds ==
    ASSUME TypeOK, NEW c \in Commands, CreateNextDayDraft(c)
    PROVE  \E row : /\ PlanAdded(row) /\ row.status = "DRAFT_WITH_CONSTRAINTS"
                    /\ row.plan = c.body.plan /\ row.rev = "rev01"
  <1> DEFINE row == [plan |-> c.body.plan, rev |-> "rev01",
                     status |-> "DRAFT_WITH_CONSTRAINTS"]
  <1>1. c.body \in CreateNextDayDraftPayload
    BY PayloadTyping DEF CreateNextDayDraft, Admitted
  <1>2. /\ row \in PlanRow /\ row.status = "DRAFT_WITH_CONSTRAINTS"
        /\ row.plan = c.body.plan /\ row.rev = "rev01"
    BY <1>1, WrittenLiterals DEF CreateNextDayDraftPayload, PlanRow, PlanStatuses
  <1>3. plans' = Append(plans, row) /\ ~PlanExists(row.plan, row.rev)
    BY DEF CreateNextDayDraft, DraftIsNew
  <1> HIDE DEF row
  <1>4. PlanAdded(row)
    BY <1>2, <1>3, AppendPointwise DEF TypeOK, PlanAdded
  <1> QED
    BY <1>2, <1>4

LEMMA ActivateReplaces ==
    ASSUME TypeOK, NEW c \in Commands, ActivateApprovedRepairPlan(c)
    PROVE  \E i, row : /\ PlanReplaced(i, row) /\ row.rev = c.body.proposed
                       /\ c.type = "ACTIVATE_APPROVED_REPAIR_PLAN"
  <1> DEFINE row == [plan |-> c.body.plan, rev |-> c.body.proposed,
                     status |-> "ACTIVE"]
  <1>1. PICK a \in approvals, i \in ActiveRows :
          /\ ActivateOk(c, a)
          /\ plans[i].plan = c.body.plan
          /\ plans' = Append(Superseded(i), row)
    BY DEF ActivateApprovedRepairPlan
  <1>2. c.body \in ActivateApprovedRepairPlanPayload
    BY PayloadTyping DEF ActivateApprovedRepairPlan, Admitted
  <1>3. /\ row \in PlanRow /\ row.status = "ACTIVE" /\ row.rev = c.body.proposed
        /\ row.plan = plans[i].plan /\ ~PlanExists(row.plan, row.rev)
    BY <1>1, <1>2
    DEF ActivateApprovedRepairPlanPayload, PlanRow, PlanStatuses, ActivateOk
  <1> HIDE DEF row
  <1>4. /\ Superseded(i) \in Seq(PlanRow) /\ Len(Superseded(i)) = Len(plans)
        /\ \A j \in DOMAIN plans : Superseded(i)[j] =
              IF j = i THEN [plans[i] EXCEPT !.status = "SUPERSEDED"] ELSE plans[j]
    BY StatusChange DEF TypeOK, ActiveRows, Superseded, PlanStatuses
  <1>5. DOMAIN Superseded(i) = DOMAIN plans
    BY <1>4, PlansDomain, LenProperties
  <1>6. /\ DOMAIN plans' = 1..(Len(plans) + 1)
        /\ plans'[Len(plans) + 1] = row
        /\ \A j \in DOMAIN plans : plans'[j] = Superseded(i)[j]
    BY <1>1, <1>3, <1>4, <1>5, AppendPointwise
  <1>7. PlanReplaced(i, row)
    BY <1>1, <1>3, <1>4, <1>6 DEF PlanReplaced
  <1> QED
    BY <1>3, <1>7 DEF ActivateApprovedRepairPlan, Admitted

LEMMA InvalidateRecalls ==
    ASSUME TypeOK, NEW c \in Commands, InvalidatePlan(c)
    PROVE  \E i : PlanRecalled(i)
  <1>1. PICK i \in ActiveRows :
          plans' = [plans EXCEPT ![i].status = "INVALIDATED_RECALL"]
    BY DEF InvalidatePlan
  <1>2. /\ plans' \in Seq(PlanRow) /\ Len(plans') = Len(plans)
        /\ \A j \in DOMAIN plans : plans'[j] =
              IF j = i THEN [plans[i] EXCEPT !.status = "INVALIDATED_RECALL"]
              ELSE plans[j]
    BY <1>1, StatusChange DEF TypeOK, ActiveRows, PlanStatuses
  <1>3. DOMAIN plans' = DOMAIN plans
    BY <1>2, PlansDomain, LenProperties
  <1> QED
    BY <1>2, <1>3 DEF PlanRecalled

LEMMA PlansStep ==
    ASSUME TypeOK, [Next]_vars
    PROVE  \/ plans' = plans
           \/ \E row : /\ PlanAdded(row)
                       /\ \/ /\ row.rev = "rev07" /\ row.status = "ACTIVE"
                             /\ \E c \in Commands : /\ c.type = "SAVE_PLAN_REVISION"
                                                   /\ row.plan = c.body.plan
                          \/ /\ row.status = "DRAFT_WITH_CONSTRAINTS"
                             /\ row.rev = "rev01"
           \/ \E i, row : /\ PlanReplaced(i, row)
                          /\ \E c \in Commands :
                                /\ c.type = "ACTIVATE_APPROVED_REPAIR_PLAN"
                                /\ row.rev = c.body.proposed
           \/ \E i : PlanRecalled(i)
  <1>1. CASE UNCHANGED vars
    BY <1>1 DEF vars, planVars
  <1>2. CASE Tick
    BY <1>2 DEF Tick, planVars
  <1>3. ASSUME NEW c \in Commands, Execute(c),
               ~SavePlanRevision(c), ~CreateNextDayDraft(c),
               ~ActivateApprovedRepairPlan(c), ~InvalidatePlan(c)
        PROVE  plans' = plans
    BY <1>3
    DEF Execute, DenyRole, DenyStaleRevision, RecordRefusal,
        PersistRepairProposal, PersistRepairApproval, PersistCoordinator,
        OpenRecallIncident, SetIncidentStatus, ActivateMovementBarrier,
        AllocateSafeStock, RecordAcknowledgmentHold, ApplyPartnerEvidence,
        DenyPartnerEvidence, ReaffirmNextDayDraft, dataVars, planVars
  <1> QED
    BY <1>1, <1>2, <1>3, SaveAdds, DraftAdds, ActivateReplaces,
       InvalidateRecalls DEF Next

-----------------------------------------------------------------------------
(* One ACTIVE revision of a plan, and none after a recall *)

(* Every revision of a plan that was ever in force descends from the imported
   rev07: the one revision that SAVE_PLAN_REVISION can insert. *)
ImportedFirst ==
    \A i \in DOMAIN plans :
        plans[i].status # "DRAFT_WITH_CONSTRAINTS" => PlanExists(plans[i].plan, "rev07")

PlanLife == ImportedFirst /\ OneActivePerPlan /\ RecalledPlanStaysDown

LEMMA PlanLifeStep ==
    ASSUME TypeOK, PlanLife, [Next]_vars
    PROVE  PlanLife'
  <1> USE PlansDomain
  <1>1. CASE plans' = plans
    BY <1>1 DEF PlanLife, ImportedFirst, OneActivePerPlan,
                RecalledPlanStaysDown, ActiveRows, PlanExists
  <1>2. ASSUME NEW row, PlanAdded(row),
               \/ row.rev = "rev07" /\ row.status = "ACTIVE"
               \/ row.status = "DRAFT_WITH_CONSTRAINTS"
        PROVE  PlanLife'
    <2>1. \A i \in DOMAIN plans' : i \in DOMAIN plans \/ i = Len(plans) + 1
      BY <1>2 DEF PlanAdded
    <2>2. \A i \in DOMAIN plans : /\ i \in DOMAIN plans' /\ i # Len(plans) + 1
                                  /\ plans'[i] = plans[i]
      BY <1>2 DEF PlanAdded
    <2>3. Len(plans) + 1 \in DOMAIN plans' /\ plans'[Len(plans) + 1] = row
      BY <1>2 DEF PlanAdded
    <2>4. row.status = "ACTIVE" =>
             \A i \in DOMAIN plans : /\ plans[i].status # "DRAFT_WITH_CONSTRAINTS"
                                     => plans[i].plan # row.plan
      BY <1>2 DEF PlanAdded, PlanLife, ImportedFirst
    <2>5. ImportedFirst'
      BY <1>2, <2>1, <2>2, <2>3 DEF PlanLife, ImportedFirst, PlanExists
    <2>6. OneActivePerPlan'
      BY <1>2, <2>1, <2>2, <2>3, <2>4 DEF PlanLife, OneActivePerPlan, ActiveRows
    <2>7. RecalledPlanStaysDown'
      BY <1>2, <2>1, <2>2, <2>3, <2>4 DEF PlanLife, RecalledPlanStaysDown
    <2> QED
      BY <2>5, <2>6, <2>7 DEF PlanLife
  <1>3. ASSUME NEW i, NEW row, PlanReplaced(i, row)
        PROVE  PlanLife'
    <2>1. \A j \in DOMAIN plans' : j \in DOMAIN plans \/ j = Len(plans) + 1
      BY <1>3 DEF PlanReplaced
    <2>2. /\ i \in DOMAIN plans /\ plans[i].status = "ACTIVE"
          /\ plans'[i].plan = plans[i].plan /\ plans'[i].rev = plans[i].rev
          /\ plans'[i].status = "SUPERSEDED"
      BY <1>3 DEF PlanReplaced, ActiveRows, PlanRow
    <2>3. \A j \in DOMAIN plans : /\ j \in DOMAIN plans' /\ j # Len(plans) + 1
                                  /\ j # i => plans'[j] = plans[j]
      BY <1>3 DEF PlanReplaced
    <2>4. /\ Len(plans) + 1 \in DOMAIN plans' /\ plans'[Len(plans) + 1] = row
          /\ row.plan = plans[i].plan /\ row.status = "ACTIVE"
      BY <1>3 DEF PlanReplaced
    <2>5. \A j \in DOMAIN plans :
             plans[j].plan = row.plan =>
                /\ plans[j].status # "INVALIDATED_RECALL"
                /\ plans[j].status = "ACTIVE" => j = i
      BY <2>2, <2>4 DEF PlanLife, OneActivePerPlan, RecalledPlanStaysDown, ActiveRows
    <2>6. ImportedFirst'
      BY <2>1, <2>2, <2>3, <2>4 DEF PlanLife, ImportedFirst, PlanExists
    <2>7. OneActivePerPlan'
      BY <2>1, <2>2, <2>3, <2>4, <2>5 DEF PlanLife, OneActivePerPlan, ActiveRows
    <2>8. RecalledPlanStaysDown'
      BY <2>1, <2>2, <2>3, <2>4, <2>5 DEF PlanLife, RecalledPlanStaysDown
    <2> QED
      BY <2>6, <2>7, <2>8 DEF PlanLife
  <1>4. ASSUME NEW i, PlanRecalled(i)
        PROVE  PlanLife'
    <2>1. /\ i \in DOMAIN plans /\ plans[i].status = "ACTIVE"
          /\ plans'[i].plan = plans[i].plan /\ plans'[i].rev = plans[i].rev
          /\ plans'[i].status = "INVALIDATED_RECALL"
      BY <1>4 DEF PlanRecalled, ActiveRows, PlanRow
    <2>2. /\ DOMAIN plans' = DOMAIN plans
          /\ \A j \in DOMAIN plans : j # i => plans'[j] = plans[j]
      BY <1>4 DEF PlanRecalled
    <2>3. ImportedFirst'
      BY <2>1, <2>2 DEF PlanLife, ImportedFirst, PlanExists
    <2>4. OneActivePerPlan'
      BY <2>1, <2>2 DEF PlanLife, OneActivePerPlan, ActiveRows
    <2>5. RecalledPlanStaysDown'
      BY <2>1, <2>2 DEF PlanLife, OneActivePerPlan, RecalledPlanStaysDown, ActiveRows
    <2> QED
      BY <2>3, <2>4, <2>5 DEF PlanLife
  <1> QED
    BY <1>1, <1>2, <1>3, <1>4, PlansStep

LEMMA PlanLifeInvariant == Spec => []PlanLife
  <1>1. Init => PlanLife
    BY DEF Init, PlanLife, ImportedFirst, OneActivePerPlan,
           RecalledPlanStaysDown, ActiveRows
  <1>2. TypeOK /\ PlanLife /\ [Next]_vars => PlanLife'
    BY PlanLifeStep
  <1> QED
    BY <1>1, <1>2, TypeCorrect, PTL DEF Spec

(* At most one revision of a plan is ACTIVE, whatever approvals, activations and
   saves callers send. *)
THEOREM OneActive == Spec => []OneActivePerPlan
  BY PlanLifeInvariant, PTL DEF PlanLife

(* No command can make a plan ACTIVE again once a recall has invalidated it. *)
THEOREM RecallIsFinal == Spec => []RecalledPlanStaysDown
  BY PlanLifeInvariant, PTL DEF PlanLife

LEMMA PlansKept ==
    ASSUME TypeOK, [Next]_vars
    PROVE  \A i \in DOMAIN plans :
              /\ i \in DOMAIN plans'
              /\ plans'[i].plan = plans[i].plan /\ plans'[i].rev = plans[i].rev
              /\ plans[i].status # "ACTIVE" => plans'[i] = plans[i]
  <1> USE PlansDomain
  <1>1. CASE plans' = plans
    BY <1>1
  <1>2. ASSUME NEW row, PlanAdded(row)
        PROVE  \A j \in DOMAIN plans : j \in DOMAIN plans' /\ plans'[j] = plans[j]
    BY <1>2 DEF PlanAdded
  <1>3. ASSUME NEW i, NEW row, PlanReplaced(i, row)
        PROVE  \A j \in DOMAIN plans :
                  /\ j \in DOMAIN plans'
                  /\ plans'[j].plan = plans[j].plan /\ plans'[j].rev = plans[j].rev
                  /\ plans[j].status # "ACTIVE" => plans'[j] = plans[j]
    BY <1>3 DEF PlanReplaced, ActiveRows, PlanRow
  <1>4. ASSUME NEW i, PlanRecalled(i)
        PROVE  \A j \in DOMAIN plans :
                  /\ j \in DOMAIN plans'
                  /\ plans'[j].plan = plans[j].plan /\ plans'[j].rev = plans[j].rev
                  /\ plans[j].status # "ACTIVE" => plans'[j] = plans[j]
    BY <1>4 DEF PlanRecalled, ActiveRows, PlanRow
  <1> QED
    BY <1>1, <1>2, <1>3, <1>4, PlansStep

(* A revision that has left ACTIVE is never changed, and no row is rewritten to
   be another revision or removed. *)
THEOREM RetiredForGood == Spec => RetiredRevisionsAreFinal
  <1>1. TypeOK /\ [Next]_vars =>
           [\A i \in DOMAIN plans :
              /\ i \in DOMAIN plans'
              /\ plans'[i].plan = plans[i].plan /\ plans'[i].rev = plans[i].rev
              /\ plans[i].status # "ACTIVE" => plans'[i] = plans[i]]_vars
    BY PlansKept
  <1> QED
    BY <1>1, TypeCorrect, PTL DEF Spec, RetiredRevisionsAreFinal

-----------------------------------------------------------------------------
(* A repaired revision is what one approval signed *)

(* Orders is interleaved in PlanRevisions: an order has a parent revision. *)
OrdersHaveParent == \A o \in orders : PlanExists(o.plan, o.rev)

LEMMA PlanExistsKept ==
    ASSUME TypeOK, [Next]_vars, NEW p, NEW r, PlanExists(p, r)
    PROVE  PlanExists(p, r)'
  BY PlansKept DEF PlanExists

(* A step leaves Orders alone or inserts the lines of one new revision. *)
LEMMA OrdersStep ==
    ASSUME TypeOK, [Next]_vars
    PROVE  \/ orders' = orders
           \/ \E p, r, lines : /\ orders' = orders \cup NewLines(p, r, lines)
                               /\ ~PlanExists(p, r) /\ PlanExists(p, r)'
  <1>1. CASE UNCHANGED vars
    BY <1>1 DEF vars, planVars
  <1>2. CASE Tick
    BY <1>2 DEF Tick, planVars
  <1>3. ASSUME NEW c \in Commands, SavePlanRevision(c)
        PROVE  \E p, r, lines : /\ orders' = orders \cup NewLines(p, r, lines)
                                /\ ~PlanExists(p, r) /\ PlanExists(p, r)'
    <2> DEFINE row == [plan |-> c.body.plan, rev |-> c.body.rev,
                       status |-> c.body.status]
    <2>1. /\ orders' = orders \cup NewLines(c.body.plan, c.body.rev, c.body.orders)
          /\ ~PlanExists(c.body.plan, c.body.rev)
          /\ plans' = Append(plans, row)
      BY <1>3 DEF SavePlanRevision, SaveOk
    <2>2. Len(plans) + 1 \in DOMAIN plans' /\ plans'[Len(plans) + 1] = row
      BY <2>1, PlansDomain DEF TypeOK
    <2>3. PlanExists(c.body.plan, c.body.rev)'
      BY <2>2 DEF PlanExists
    <2> QED
      BY <2>1, <2>3
  <1>4. ASSUME NEW c \in Commands, CreateNextDayDraft(c)
        PROVE  \E p, r, lines : /\ orders' = orders \cup NewLines(p, r, lines)
                                /\ ~PlanExists(p, r) /\ PlanExists(p, r)'
    <2> DEFINE row == [plan |-> c.body.plan, rev |-> "rev01",
                       status |-> "DRAFT_WITH_CONSTRAINTS"]
    <2>1. /\ orders' = orders \cup NewLines(c.body.plan, "rev01", CandidateLines(c.body))
          /\ ~PlanExists(c.body.plan, "rev01")
          /\ plans' = Append(plans, row)
      BY <1>4 DEF CreateNextDayDraft, DraftIsNew
    <2>2. Len(plans) + 1 \in DOMAIN plans' /\ plans'[Len(plans) + 1] = row
      BY <2>1, PlansDomain DEF TypeOK
    <2>3. PlanExists(c.body.plan, "rev01")'
      BY <2>2 DEF PlanExists
    <2> QED
      BY <2>1, <2>3
  <1>5. ASSUME NEW c \in Commands, ActivateApprovedRepairPlan(c)
        PROVE  \E p, r, lines : /\ orders' = orders \cup NewLines(p, r, lines)
                                /\ ~PlanExists(p, r) /\ PlanExists(p, r)'
    <2> DEFINE row == [plan |-> c.body.plan, rev |-> c.body.proposed,
                       status |-> "ACTIVE"]
    <2>1. PICK a \in approvals, i \in ActiveRows :
            /\ ActivateOk(c, a)
            /\ plans' = Append(Superseded(i), row)
            /\ orders' = orders \cup
                  NewLines(c.body.plan, c.body.proposed,
                           Repaired(Lines(c.body.plan, c.body.source), a.diff))
      BY <1>5 DEF ActivateApprovedRepairPlan
    <2>2. Superseded(i) \in Seq(PlanRow) /\ Len(Superseded(i)) = Len(plans)
      BY StatusChange DEF TypeOK, ActiveRows, Superseded, PlanStatuses
    <2>3. Len(plans) + 1 \in DOMAIN plans' /\ plans'[Len(plans) + 1] = row
      <3> HIDE DEF row
      <3> QED
        BY <2>1, <2>2, PlansDomain, LenProperties
    <2>4. PlanExists(c.body.plan, c.body.proposed)'
      BY <2>3 DEF PlanExists
    <2> QED
      BY <2>1, <2>4 DEF ActivateOk
  <1>6. ASSUME NEW c \in Commands, Execute(c),
               ~SavePlanRevision(c), ~CreateNextDayDraft(c),
               ~ActivateApprovedRepairPlan(c)
        PROVE  orders' = orders
    BY <1>6
    DEF Execute, DenyRole, DenyStaleRevision, RecordRefusal,
        PersistRepairProposal, PersistRepairApproval, PersistCoordinator,
        InvalidatePlan, OpenRecallIncident, SetIncidentStatus,
        ActivateMovementBarrier, AllocateSafeStock, RecordAcknowledgmentHold,
        ApplyPartnerEvidence, DenyPartnerEvidence, ReaffirmNextDayDraft,
        dataVars, planVars
  <1> QED
    BY <1>1, <1>2, <1>3, <1>4, <1>5, <1>6 DEF Next

LEMMA OrdersHaveParentStep ==
    ASSUME TypeOK, OrdersHaveParent, [Next]_vars
    PROVE  OrdersHaveParent'
  <1>1. ASSUME NEW o \in orders
        PROVE  PlanExists(o.plan, o.rev)'
    BY PlanExistsKept DEF OrdersHaveParent
  <1>2. ASSUME NEW p, NEW r, NEW lines, PlanExists(p, r)',
               NEW o \in NewLines(p, r, lines)
        PROVE  PlanExists(o.plan, o.rev)'
    BY <1>2 DEF NewLines
  <1> QED
    BY <1>1, <1>2, OrdersStep DEF OrdersHaveParent

LEMMA OrdersHaveParentInvariant == Spec => []OrdersHaveParent
  <1>1. Init => OrdersHaveParent
    BY DEF Init, OrdersHaveParent
  <1>2. TypeOK /\ OrdersHaveParent /\ [Next]_vars => OrdersHaveParent'
    BY OrdersHaveParentStep
  <1> QED
    BY <1>1, <1>2, TypeCorrect, PTL DEF Spec

(* The orders of a revision that exists never change. *)
LEMMA LinesKept ==
    ASSUME TypeOK, OrdersHaveParent, [Next]_vars,
           NEW p, NEW r, PlanExists(p, r)
    PROVE  Lines(p, r)' = Lines(p, r)
  <1>1. CASE orders' = orders
    BY <1>1 DEF Lines
  <1>2. ASSUME NEW q, NEW s, NEW lines, ~PlanExists(q, s),
               orders' = orders \cup NewLines(q, s, lines)
        PROVE  Lines(p, r)' = Lines(p, r)
    <2>1. \A o \in NewLines(q, s, lines) : o.plan = q /\ o.rev = s
      BY DEF NewLines
    <2>2. ~(p = q /\ r = s)
      BY <1>2
    <2> QED
      BY <1>2, <2>1, <2>2 DEF Lines
  <1> QED
    BY <1>1, <1>2, OrdersStep

(* An order has one line in a revision: the key of Orders. *)
LinesKeyed(lines) == \A x, y \in lines : x.order = y.order => x = y
OrdersAreKeyed ==
    \A x, y \in orders :
        x.plan = y.plan /\ x.rev = y.rev /\ x.line.order = y.line.order => x = y

LEMMA LinesOfKeyed ==
    ASSUME TypeOK, OrdersAreKeyed, NEW p, NEW r
    PROVE  LinesKeyed(Lines(p, r)) /\ Lines(p, r) \subseteq OrderLine
  BY DEF OrdersAreKeyed, LinesKeyed, Lines, TypeOK, OrderRow

LEMMA KeyedWhenInserted ==
    ASSUME OrdersHaveParent, OrdersAreKeyed, NEW p, NEW r, NEW lines,
           LinesKeyed(lines), ~PlanExists(p, r),
           orders' = orders \cup NewLines(p, r, lines)
    PROVE  OrdersAreKeyed'
  <1>1. \A o \in orders : ~(o.plan = p /\ o.rev = r)
    BY DEF OrdersHaveParent
  <1>2. \A o \in NewLines(p, r, lines) :
           /\ o.plan = p /\ o.rev = r /\ o.line \in lines
           /\ o = [plan |-> p, rev |-> r, line |-> o.line]
    BY DEF NewLines
  <1>3. \A x, y \in NewLines(p, r, lines) : x.line.order = y.line.order => x = y
    BY <1>2 DEF LinesKeyed
  <1> QED
    BY <1>1, <1>2, <1>3 DEF OrdersAreKeyed

LEMMA RepairKeepsKeys ==
    ASSUME NEW lines \in SUBSET OrderLine, LinesKeyed(lines), NEW diff
    PROVE  LinesKeyed(Repaired(lines, diff))
  <1>1. \A l \in lines : RepairedLine(l, diff).order = l.order
    BY DEF RepairedLine, OrderLine
  <1> QED
    BY <1>1 DEF LinesKeyed, Repaired

LEMMA CandidateKeys ==
    ASSUME NEW b \in CreateNextDayDraftPayload
    PROVE  LinesKeyed(CandidateLines(b))
  <1>1. \A v, w \in b.vehicles : \A x \in v.stops, y \in w.stops :
           x.order = y.order => v = w /\ x = y
    BY DEF CreateNextDayDraftPayload, CandidateArithmeticHolds
  <1>2. ASSUME NEW l \in CandidateLines(b)
        PROVE  \E v \in b.vehicles : \E x \in v.stops :
                  /\ l = [order |-> x.order, agency |-> x.agency, cases |-> x.cases,
                          lot |-> x.lot, vehicle |-> v.vehicle, status |-> "CANDIDATE"]
                  /\ l.order = x.order
    BY DEF CandidateLines
  <1> QED
    BY <1>1, <1>2 DEF LinesKeyed

LEMMA OrdersAreKeyedStep ==
    ASSUME TypeOK, OrdersHaveParent, OrdersAreKeyed, [Next]_vars
    PROVE  OrdersAreKeyed'
  <1>1. CASE orders' = orders
    BY <1>1 DEF OrdersAreKeyed
  <1>2. ASSUME NEW c \in Commands, SavePlanRevision(c)
        PROVE  OrdersAreKeyed'
    <2>1. /\ orders' = orders \cup NewLines(c.body.plan, c.body.rev, c.body.orders)
          /\ ~PlanExists(c.body.plan, c.body.rev)
          /\ LinesKeyed(c.body.orders)
      BY <1>2 DEF SavePlanRevision, SaveOk, Insertable, LinesKeyed
    <2> QED
      BY <2>1, KeyedWhenInserted
  <1>3. ASSUME NEW c \in Commands, CreateNextDayDraft(c)
        PROVE  OrdersAreKeyed'
    <2>1. c.body \in CreateNextDayDraftPayload
      BY <1>3, PayloadTyping DEF CreateNextDayDraft, Admitted
    <2>2. /\ orders' = orders \cup NewLines(c.body.plan, "rev01", CandidateLines(c.body))
          /\ ~PlanExists(c.body.plan, "rev01")
      BY <1>3 DEF CreateNextDayDraft, DraftIsNew
    <2> QED
      BY <2>1, <2>2, CandidateKeys, KeyedWhenInserted
  <1>4. ASSUME NEW c \in Commands, ActivateApprovedRepairPlan(c)
        PROVE  OrdersAreKeyed'
    <2> DEFINE source == Lines(c.body.plan, c.body.source)
    <2>1. PICK a \in approvals :
            /\ orders' = orders \cup NewLines(c.body.plan, c.body.proposed,
                                              Repaired(source, a.diff))
            /\ ~PlanExists(c.body.plan, c.body.proposed)
      BY <1>4 DEF ActivateApprovedRepairPlan, ActivateOk
    <2>2. LinesKeyed(source) /\ source \in SUBSET OrderLine
      BY LinesOfKeyed
    <2> HIDE DEF source
    <2>3. LinesKeyed(Repaired(source, a.diff))
      BY <2>2, RepairKeepsKeys
    <2> QED
      BY <2>1, <2>3, KeyedWhenInserted
  <1>5. ASSUME NEW c \in Commands, Execute(c),
               ~SavePlanRevision(c), ~CreateNextDayDraft(c),
               ~ActivateApprovedRepairPlan(c)
        PROVE  orders' = orders
    BY <1>5
    DEF Execute, DenyRole, DenyStaleRevision, RecordRefusal,
        PersistRepairProposal, PersistRepairApproval, PersistCoordinator,
        InvalidatePlan, OpenRecallIncident, SetIncidentStatus,
        ActivateMovementBarrier, AllocateSafeStock, RecordAcknowledgmentHold,
        ApplyPartnerEvidence, DenyPartnerEvidence, ReaffirmNextDayDraft,
        dataVars, planVars
  <1>6. CASE Tick \/ UNCHANGED vars
    BY <1>1, <1>6 DEF Tick, vars, planVars
  <1> QED
    BY <1>1, <1>2, <1>3, <1>4, <1>5, <1>6 DEF Next

LEMMA LinesOfNewLines ==
    ASSUME NEW p, NEW r, NEW lines
    PROVE  {o.line : o \in NewLines(p, r, lines)} = lines
  <1> DEFINE back == {o.line : o \in NewLines(p, r, lines)}
  <1>1. ASSUME NEW x \in back
        PROVE  x \in lines
    <2>1. PICK o \in NewLines(p, r, lines) : x = o.line
      OBVIOUS
    <2>2. PICK l \in lines : o = [plan |-> p, rev |-> r, line |-> l]
      BY DEF NewLines
    <2> QED
      BY <2>1, <2>2
  <1>2. ASSUME NEW x \in lines
        PROVE  x \in back
    <2> DEFINE o == [plan |-> p, rev |-> r, line |-> x]
    <2>1. o \in NewLines(p, r, lines)
      BY DEF NewLines
    <2>2. o.line = x
      OBVIOUS
    <2> QED
      BY <2>1, <2>2
  <1> QED
    BY <1>1, <1>2

(* The orders that an activation inserts. *)
LEMMA ActivationSigned ==
    ASSUME TypeOK, OrdersHaveParent, [Next]_vars,
           NEW c \in Commands, ActivateApprovedRepairPlan(c)
    PROVE  \E a \in approvals' :
              /\ a \in approvals /\ now < a.expires
              /\ a.approval = c.body.approval /\ a.plan = c.body.plan
              /\ a.source = c.body.source /\ a.proposed = c.body.proposed
              /\ PlanExists(a.plan, a.source)'
              /\ a.hash = DiffHash(a.source, a.proposed, a.diff)
              /\ Lines(a.plan, a.proposed)' = Repaired(Lines(a.plan, a.source)', a.diff)
  <1>1. PICK a \in approvals, i \in ActiveRows :
          /\ ActivateOk(c, a)
          /\ plans[i].plan = c.body.plan /\ plans[i].rev = c.body.source
          /\ orders' = orders \cup
                NewLines(c.body.plan, c.body.proposed,
                         Repaired(Lines(c.body.plan, c.body.source), a.diff))
    BY DEF ActivateApprovedRepairPlan
  <1>2. /\ a.approval = c.body.approval /\ a.plan = c.body.plan
        /\ a.source = c.body.source
        /\ a.proposed = c.body.proposed /\ now < a.expires
        /\ a.hash = DiffHash(c.body.source, c.body.proposed, a.diff)
        /\ ~PlanExists(c.body.plan, c.body.proposed)
    BY <1>1 DEF ActivateOk, ApprovalInForce
  <1>3. PlanExists(a.plan, a.source)
    BY <1>1, <1>2 DEF PlanExists, ActiveRows
  <1>4. PlanExists(a.plan, a.source)' /\ Lines(a.plan, a.source)' = Lines(a.plan, a.source)
    BY <1>3, PlanExistsKept, LinesKept
  <1>5. Lines(a.plan, a.proposed)' = Repaired(Lines(a.plan, a.source), a.diff)
    <2> DEFINE signed == Repaired(Lines(a.plan, a.source), a.diff)
    <2>1. orders' = orders \cup NewLines(a.plan, a.proposed, signed)
      BY <1>1, <1>2
    <2>2. \A o \in orders : ~(o.plan = a.plan /\ o.rev = a.proposed)
      BY <1>2 DEF OrdersHaveParent
    <2> HIDE DEF signed
    <2>3. {x \in orders' : x.plan = a.plan /\ x.rev = a.proposed}
              = NewLines(a.plan, a.proposed, signed)
      BY <2>1, <2>2 DEF NewLines
    <2>4. {o.line : o \in NewLines(a.plan, a.proposed, signed)} = signed
      BY LinesOfNewLines
    <2>5. Lines(a.plan, a.proposed)' = signed
      BY <2>3, <2>4 DEF Lines
    <2> QED
      BY <2>5 DEF signed
  <1>6. a \in approvals'
    BY DEF ActivateApprovedRepairPlan
  <1> QED
    BY <1>2, <1>4, <1>5, <1>6

LEMMA ApprovalsKept ==
    ASSUME [Next]_vars
    PROVE  approvals \subseteq approvals'
  <1>1. ASSUME NEW c \in Commands, Execute(c)
        PROVE  approvals \subseteq approvals'
    BY <1>1
    DEF Execute, DenyRole, DenyStaleRevision, RecordRefusal, SavePlanRevision,
        PersistRepairProposal, PersistRepairApproval,
        ActivateApprovedRepairPlan, InvalidatePlan, PersistCoordinator,
        OpenRecallIncident, SetIncidentStatus, ActivateMovementBarrier,
        AllocateSafeStock, RecordAcknowledgmentHold, ApplyPartnerEvidence,
        DenyPartnerEvidence, CreateNextDayDraft, ReaffirmNextDayDraft,
        dataVars, planVars
  <1> QED
    BY <1>1 DEF Next, Tick, vars, planVars

(* Only an activation makes a row that RepairedAsApproved speaks of. *)
LEMMA RepairedByActivation ==
    ASSUME TypeOK, [Next]_vars, NEW i \in DOMAIN plans', i \notin DOMAIN plans,
           IsRepaired(i)'
    PROVE  \E c \in Commands :
              /\ ActivateApprovedRepairPlan(c)
              /\ plans'[i].plan = c.body.plan /\ plans'[i].rev = c.body.proposed
  <1>1. ASSUME NEW row, PlanAdded(row)
        PROVE  plans'[i] = row
    BY <1>1, PlansDomain DEF PlanAdded
  <1>2. ~ \E c \in Commands : SavePlanRevision(c) \/ CreateNextDayDraft(c)
    BY <1>1, SaveAdds, DraftAdds DEF IsRepaired
  <1>3. ~ \E c \in Commands : InvalidatePlan(c)
    BY InvalidateRecalls DEF PlanRecalled
  <1>4. plans' # plans
    OBVIOUS
  <1>5. PICK c \in Commands : Execute(c)
    BY <1>4 DEF Next, Tick, vars, planVars
  <1>6. ActivateApprovedRepairPlan(c)
    BY <1>2, <1>3, <1>4, <1>5
    DEF Execute, DenyRole, DenyStaleRevision, RecordRefusal,
        PersistRepairProposal, PersistRepairApproval, PersistCoordinator,
        OpenRecallIncident, SetIncidentStatus, ActivateMovementBarrier,
        AllocateSafeStock, RecordAcknowledgmentHold, ApplyPartnerEvidence,
        DenyPartnerEvidence, ReaffirmNextDayDraft, dataVars, planVars
  <1>7. plans'[i].plan = c.body.plan /\ plans'[i].rev = c.body.proposed
    <2> DEFINE row == [plan |-> c.body.plan, rev |-> c.body.proposed,
                       status |-> "ACTIVE"]
    <2>1. PICK k \in ActiveRows : plans' = Append(Superseded(k), row)
      BY <1>6 DEF ActivateApprovedRepairPlan
    <2>2. Superseded(k) \in Seq(PlanRow) /\ Len(Superseded(k)) = Len(plans)
      BY StatusChange DEF TypeOK, ActiveRows, Superseded, PlanStatuses
    <2> HIDE DEF row
    <2>3. DOMAIN plans' = 1..(Len(plans) + 1) /\ plans'[Len(plans) + 1] = row
      BY <2>1, <2>2, PlansDomain, LenProperties
    <2>4. plans'[i] = row
      BY <2>3, PlansDomain
    <2> QED
      BY <2>4 DEF row
  <1> QED
    BY <1>6, <1>7

LEMMA RepairedStep ==
    ASSUME TypeOK, OrdersHaveParent, RepairedAsApproved, [Next]_vars
    PROVE  RepairedAsApproved'
  <1> SUFFICES ASSUME NEW i \in DOMAIN plans', IsRepaired(i)'
               PROVE  \E a \in approvals' :
                         /\ a.plan = plans'[i].plan /\ a.proposed = plans'[i].rev
                         /\ PlanExists(a.plan, a.source)'
                         /\ a.hash = DiffHash(a.source, a.proposed, a.diff)
                         /\ Lines(a.plan, a.proposed)' =
                               Repaired(Lines(a.plan, a.source)', a.diff)
    BY DEF RepairedAsApproved, Repaired, RepairedLine
  <1>1. CASE i \in DOMAIN plans
    <2>1. IsRepaired(i)
      BY <1>1, PlansKept DEF IsRepaired
    <2>2. PICK a \in approvals :
            /\ a.plan = plans[i].plan /\ a.proposed = plans[i].rev
            /\ PlanExists(a.plan, a.source)
            /\ a.hash = DiffHash(a.source, a.proposed, a.diff)
            /\ Lines(a.plan, a.proposed) = Repaired(Lines(a.plan, a.source), a.diff)
      BY <1>1, <2>1 DEF RepairedAsApproved
    <2>3. PlanExists(a.plan, a.proposed)
      BY <1>1, <2>2 DEF PlanExists
    <2>4. /\ PlanExists(a.plan, a.source)'
          /\ Lines(a.plan, a.source)' = Lines(a.plan, a.source)
          /\ Lines(a.plan, a.proposed)' = Lines(a.plan, a.proposed)
      BY <2>2, <2>3, PlanExistsKept, LinesKept
    <2> QED
      BY <1>1, <2>2, <2>4, PlansKept, ApprovalsKept
  <1>2. CASE i \notin DOMAIN plans
    BY <1>2, RepairedByActivation, ActivationSigned
  <1> QED
    BY <1>1, <1>2

(* Whatever approvals, activations, saves and recalls are interleaved, every
   repaired revision holds exactly the orders that one approval signed. *)
THEOREM SignedRepairs == Spec => []RepairedAsApproved
  <1>1. Init => OrdersHaveParent /\ RepairedAsApproved
    BY DEF Init, OrdersHaveParent, RepairedAsApproved
  <1>2. TypeOK /\ OrdersHaveParent /\ RepairedAsApproved /\ [Next]_vars
            => OrdersHaveParent' /\ RepairedAsApproved'
    BY OrdersHaveParentStep, RepairedStep
  <1> QED
    BY <1>1, <1>2, TypeCorrect, PTL DEF Spec


-----------------------------------------------------------------------------
(* Every key is decided once *)

(* The mapping of a transaction that leaves a receipt. *)
LEMMA Decided ==
    ASSUME NEW c \in Commands, ~Settled(c), NEW status, NEW rev,
           receipts' = receipts \cup {Receipt(c, status, rev)}
    PROVE  /\ c.key \in Keys
           /\ \A o \in Outcomes : o.key # c.key
           /\ Outcomes' = Outcomes \cup {[key |-> c.key, status |-> status]}
  <1> DEFINE r == Receipt(c, status, rev)
  <1>1. r.key = c.key /\ r.status = status
    BY DEF Receipt
  <1>2. c.key \in Keys
    BY DEF Keys
  <1>3. \A o \in Outcomes : o.key # c.key
    BY DEF Outcomes, Settled
  <1> HIDE DEF r
  <1>4. Outcomes' = Outcomes \cup {[key |-> r.key, status |-> r.status]}
    BY DEF Outcomes, r
  <1> QED
    BY <1>1, <1>2, <1>3, <1>4

LEMMA DeniedRefines ==
    ASSUME NEW c \in Commands,
           DenyRole(c) \/ DenyStaleRevision(c) \/ RecordRefusal(c)
               \/ DenyPartnerEvidence(c)
    PROVE  Promise!Next
  <1>1. ~Settled(c)
    BY DEF DenyRole, DenyStaleRevision, RecordRefusal, DenyPartnerEvidence, Admitted
  <1>2. PICK rev : receipts' = receipts \cup {Receipt(c, "DENIED", rev)}
    BY DEF DenyRole, DenyStaleRevision, RecordRefusal, DenyPartnerEvidence, Denied
  <1>3. UNCHANGED <<planVars, stockVars, custodyVars, recallVars, recoveryVars,
                    coordinators, events>>
    BY DEF DenyRole, DenyStaleRevision, RecordRefusal, DenyPartnerEvidence, dataVars
  <1>4. Promise!Refuse(c.key)
    BY <1>1, <1>2, <1>3, Decided DEF Promise!Refuse, Promise!Undecided
  <1> QED
    BY <1>1, <1>2, <1>4, Decided DEF Promise!Next

LEMMA SuccessRefines ==
    ASSUME NEW c \in Commands, ~Settled(c), Succeed(c)
    PROVE  Promise!Next
  <1>1. receipts' = receipts \cup {Receipt(c, "SUCCESS", ReceiptRevision(c))}
    BY DEF Succeed
  <1>2. Promise!Commit(c.key)
    BY <1>1, Decided DEF Promise!Commit, Promise!Undecided
  <1> QED
    BY <1>1, <1>2, Decided DEF Promise!Next

LEMMA StepRefines ==
    ASSUME [Next]_vars
    PROVE  [Promise!Next]_<<Outcomes, <<planVars, stockVars, custodyVars,
                recallVars, recoveryVars, coordinators, events>>>>
  <1>1. CASE UNCHANGED vars
    BY <1>1 DEF vars, Outcomes
  <1>2. CASE Tick
    BY <1>2 DEF Tick, Outcomes
  <1>3. ASSUME NEW c \in Commands, Execute(c)
        PROVE  Promise!Next
    <2>1. CASE DenyRole(c) \/ DenyStaleRevision(c) \/ RecordRefusal(c)
                  \/ DenyPartnerEvidence(c)
      BY <2>1, DeniedRefines
    <2>2. CASE ~ (DenyRole(c) \/ DenyStaleRevision(c) \/ RecordRefusal(c)
                     \/ DenyPartnerEvidence(c))
      <3>1. ~Settled(c) /\ Succeed(c)
        BY <1>3, <2>2
        DEF Execute, Admitted, SavePlanRevision, PersistRepairProposal,
            PersistRepairApproval, ActivateApprovedRepairPlan, InvalidatePlan,
            PersistCoordinator, OpenRecallIncident, SetIncidentStatus,
            ActivateMovementBarrier, AllocateSafeStock,
            RecordAcknowledgmentHold, ApplyPartnerEvidence,
            CreateNextDayDraft, ReaffirmNextDayDraft
      <3> QED
        BY <3>1, SuccessRefines
    <2> QED
      BY <2>1, <2>2
  <1> QED
    BY <1>1, <1>2, <1>3 DEF Next

(* The executor implements the exactly-once promise for every set of commands,
   however often each is sent. *)
THEOREM ImplementsExactlyOnce == Spec => ExactlyOnceCommands
  <1>1. Init => Promise!Init
    BY DEF Init, Promise!Init, Outcomes
  <1>2. [Next]_vars =>
          [Promise!Next]_<<Outcomes, <<planVars, stockVars, custodyVars,
               recallVars, recoveryVars, coordinators, events>>>>
    BY StepRefines
  <1> QED
    BY <1>1, <1>2, PTL DEF Spec, ExactlyOnceCommands, Promise!Spec

-----------------------------------------------------------------------------
(* A barred lot *)

LEMMA SavedLotsAreNew ==
    ASSUME NEW c \in Commands, SavePlanRevision(c), NEW x \in c.body.lots
    PROVE  \A l \in lots : l.lot # x.lot
  BY DEF SavePlanRevision, SaveOk, Insertable

LEMMA LotsStep ==
    ASSUME [Next]_vars
    PROVE  \/ lots' = lots /\ barriers' = barriers
           \/ \E c \in Commands : SavePlanRevision(c)
           \/ \E c \in Commands : ActivateMovementBarrier(c)
  <1>1. ASSUME NEW c \in Commands, Execute(c),
               ~SavePlanRevision(c), ~ActivateMovementBarrier(c)
        PROVE  lots' = lots /\ barriers' = barriers
    BY <1>1
    DEF Execute, DenyRole, DenyStaleRevision, RecordRefusal,
        PersistRepairProposal, PersistRepairApproval,
        ActivateApprovedRepairPlan, InvalidatePlan, PersistCoordinator,
        OpenRecallIncident, SetIncidentStatus, AllocateSafeStock,
        RecordAcknowledgmentHold, ApplyPartnerEvidence, DenyPartnerEvidence,
        CreateNextDayDraft, ReaffirmNextDayDraft, dataVars, stockVars, recallVars
  <1> QED
    BY <1>1 DEF Next, Tick, vars, stockVars, recallVars

LEMMA BarredStep ==
    ASSUME TypeOK, BarredLotsStayRecalled, [Next]_vars
    PROVE  BarredLotsStayRecalled'
  <1>1. CASE lots' = lots /\ barriers' = barriers
    BY <1>1 DEF BarredLotsStayRecalled
  <1>2. ASSUME NEW c \in Commands, SavePlanRevision(c)
        PROVE  BarredLotsStayRecalled'
    <2>1. lots' = lots \cup c.body.lots /\ barriers' = barriers
      BY <1>2 DEF SavePlanRevision, recallVars
    <2>2. \A x \in c.body.lots, l \in lots : l.lot # x.lot
      BY <1>2, SavedLotsAreNew
    <2> QED
      BY <2>1, <2>2 DEF BarredLotsStayRecalled
  <1>3. ASSUME NEW c \in Commands, ActivateMovementBarrier(c)
        PROVE  BarredLotsStayRecalled'
    <2> DEFINE marked(l) == IF l.lot = c.body.lot
                            THEN [l EXCEPT !.hazard = "RECALLED"] ELSE l
    <2>1. /\ lots' = {marked(l) : l \in lots}
          /\ barriers' = barriers \cup {[barrier |-> c.body.barrier,
                                         incident |-> c.inc, lot |-> c.body.lot]}
          /\ \E l \in lots : l.lot = c.body.lot
      BY <1>3 DEF ActivateMovementBarrier, Recalled
    <2>2. \A l \in lots :
             /\ marked(l).lot = l.lot
             /\ marked(l).hazard = IF l.lot = c.body.lot THEN "RECALLED" ELSE l.hazard
      BY DEF TypeOK, LotRow
    <2> HIDE DEF marked
    <2>3. ASSUME NEW x \in barriers'
          PROVE  /\ \E l \in lots' : l.lot = x.lot
                 /\ \A l \in lots' : l.lot = x.lot => l.hazard = "RECALLED"
      <3>1. x \in barriers \/ x.lot = c.body.lot
        BY <2>1
      <3>2. \E l \in lots : l.lot = x.lot
        BY <2>1, <3>1 DEF BarredLotsStayRecalled
      <3>3. \E l \in lots' : l.lot = x.lot
        BY <2>1, <2>2, <3>2
      <3>4. \A l \in lots' : l.lot = x.lot => l.hazard = "RECALLED"
        BY <2>1, <2>2, <3>1 DEF BarredLotsStayRecalled
      <3> QED
        BY <3>3, <3>4
    <2> QED
      BY <2>3 DEF BarredLotsStayRecalled
  <1> QED
    BY <1>1, <1>2, <1>3, LotsStep

(* A barred lot is a recalled lot for ever: no save, status change or draft can
   make it look safe again. *)
THEOREM BarredLotsAreRecalled == Spec => []BarredLotsStayRecalled
  <1>1. Init => BarredLotsStayRecalled
    BY DEF Init, BarredLotsStayRecalled
  <1>2. TypeOK /\ BarredLotsStayRecalled /\ [Next]_vars => BarredLotsStayRecalled'
    BY BarredStep
  <1> QED
    BY <1>1, <1>2, TypeCorrect, PTL DEF Spec

LEMMA AllocatedLotsAreSafe ==
    ASSUME BarredLotsStayRecalled, [Next]_vars, NEW a \in allocations' \ allocations
    PROVE  a.lot \notin BarredLots
  <1>1. ASSUME NEW c \in Commands, Execute(c), ~AllocateSafeStock(c)
        PROVE  allocations' = allocations
    BY <1>1
    DEF Execute, DenyRole, DenyStaleRevision, RecordRefusal, SavePlanRevision,
        PersistRepairProposal, PersistRepairApproval,
        ActivateApprovedRepairPlan, InvalidatePlan, PersistCoordinator,
        OpenRecallIncident, SetIncidentStatus, ActivateMovementBarrier,
        RecordAcknowledgmentHold, ApplyPartnerEvidence, DenyPartnerEvidence,
        CreateNextDayDraft, ReaffirmNextDayDraft, dataVars, recoveryVars
  <1>2. PICK c \in Commands : AllocateSafeStock(c)
    BY <1>1 DEF Next, Tick, vars, recoveryVars
  <1>3. \E l \in lots : l.lot = a.lot /\ l.hazard \in {"SAFE", "CLEAR_SAFE"}
    BY <1>2 DEF AllocateSafeStock, SafeLot
  <1> QED
    BY <1>3 DEF BarredLots, BarredLotsStayRecalled

(* Only the creation of a draft gives a draft revision an order. *)
LEMMA DraftOrders ==
    ASSUME TypeOK, BarredLotsStayRecalled, [Next]_vars,
           NEW o \in orders' \ orders, IsDraft(o.plan, o.rev, plans'),
           o.line.lot \in BarredLots
    PROVE  \E c \in Commands : /\ CreateNextDayDraft(c)
                               /\ o.line \in CandidateLines(c.body)
  <1>1. ASSUME NEW c \in Commands, Execute(c),
               ~SavePlanRevision(c), ~CreateNextDayDraft(c),
               ~ActivateApprovedRepairPlan(c)
        PROVE  orders' = orders
    BY <1>1
    DEF Execute, DenyRole, DenyStaleRevision, RecordRefusal,
        PersistRepairProposal, PersistRepairApproval, PersistCoordinator,
        InvalidatePlan, OpenRecallIncident, SetIncidentStatus,
        ActivateMovementBarrier, AllocateSafeStock, RecordAcknowledgmentHold,
        ApplyPartnerEvidence, DenyPartnerEvidence, ReaffirmNextDayDraft,
        dataVars, planVars
  <1>2. ASSUME NEW c \in Commands, SavePlanRevision(c)
        PROVE  FALSE
    <2>1. /\ orders' = orders \cup NewLines(c.body.plan, c.body.rev, c.body.orders)
          /\ SavedPlanIsCoherent(c.body)
      BY <1>2 DEF SavePlanRevision, SaveOk
    <2>2. o.line \in c.body.orders
      BY <2>1 DEF NewLines
    <2>3. \E x \in c.body.lots : x.lot = o.line.lot
      BY <2>1, <2>2 DEF SavedPlanIsCoherent
    <2>4. \A l \in lots : l.lot # o.line.lot
      BY <1>2, <2>3, SavedLotsAreNew
    <2> QED
      BY <2>4 DEF BarredLots, BarredLotsStayRecalled
  <1>3. ASSUME NEW c \in Commands, ActivateApprovedRepairPlan(c)
        PROVE  FALSE
    <2>1. PICK lines : /\ orders' = orders \cup
                             NewLines(c.body.plan, c.body.proposed, lines)
                       /\ ~PlanExists(c.body.plan, c.body.proposed)
      BY <1>3 DEF ActivateApprovedRepairPlan, ActivateOk
    <2>2. ~PlanExists(o.plan, o.rev)
      BY <2>1 DEF NewLines
    <2>3. PICK j \in DOMAIN plans' :
             plans'[j] = [plan |-> o.plan, rev |-> o.rev,
                          status |-> "DRAFT_WITH_CONSTRAINTS"]
      BY DEF IsDraft
    <2>4. j \notin DOMAIN plans
      BY <2>2, <2>3, PlansKept DEF PlanExists
    <2>5. plans'[j].status = "ACTIVE"
      <3>1. PICK i, row : PlanReplaced(i, row)
        BY <1>3, ActivateReplaces
      <3>2. j = Len(plans) + 1
        BY <2>4, <3>1, PlansDomain DEF PlanReplaced
      <3> QED
        BY <3>1, <3>2 DEF PlanReplaced
    <2> QED
      BY <2>3, <2>5
  <1>4. PICK c \in Commands : CreateNextDayDraft(c)
    BY <1>1, <1>2, <1>3 DEF Next, Tick, vars, planVars
  <1>5. o.line \in CandidateLines(c.body)
    <2> DEFINE lines == CandidateLines(c.body)
    <2>1. orders' = orders \cup NewLines(c.body.plan, "rev01", lines)
      BY <1>4 DEF CreateNextDayDraft
    <2> HIDE DEF lines
    <2>2. o.line \in lines
      BY <2>1 DEF NewLines
    <2> QED
      BY <2>2 DEF lines
  <1> QED
    BY <1>4, <1>5

LEMMA DraftedLotsAreSafe ==
    ASSUME TypeOK, BarredLotsStayRecalled, [Next]_vars,
           NEW o \in orders' \ orders, IsDraft(o.plan, o.rev, plans')
    PROVE  o.line.lot \notin BarredLots
  <1> SUFFICES ASSUME o.line.lot \in BarredLots
               PROVE  FALSE
    OBVIOUS
  <1>1. PICK c \in Commands : /\ CreateNextDayDraft(c)
                              /\ o.line \in CandidateLines(c.body)
    BY DraftOrders
  <1>2. PICK v \in c.body.vehicles : \E x \in v.stops : o.line.lot = x.lot
    BY <1>1 DEF CandidateLines
  <1>3. PICK x \in StopsOf(c.body.vehicles) : o.line.lot = x.lot
    BY <1>2 DEF StopsOf
  <1>4. \E l \in lots : l.lot = x.lot /\ l.hazard = "CLEAR_SAFE"
    BY <1>1, <1>2, <1>3 DEF CreateNextDayDraft, DraftOk, CandidatesFit
  <1> QED
    BY <1>3, <1>4 DEF BarredLots, BarredLotsStayRecalled

(* Neither a recovery allocation nor a candidate stop of a draft ever takes from
   a barred lot, whatever else callers send. *)
THEOREM BarredLotsAreUntouched == Spec => NothingNewFromABarredLot
  <1>1. TypeOK /\ BarredLotsStayRecalled /\ [Next]_vars =>
          [/\ \A a \in allocations' \ allocations : a.lot \notin BarredLots
           /\ \A o \in orders' \ orders :
                 IsDraft(o.plan, o.rev, plans') => o.line.lot \notin BarredLots]_vars
    BY AllocatedLotsAreSafe, DraftedLotsAreSafe
  <1> QED
    BY <1>1, TypeCorrect, BarredLotsAreRecalled, PTL
    DEF Spec, NothingNewFromABarredLot

-----------------------------------------------------------------------------
(* The custody of a partner: holds, work items, nodes and evidence *)

Applied == {e \in evidence : e.decision = "APPLIED"}

(* The primary keys of WorkItems and CustodyNodes. *)
WorkItemsAreKeyed == \A v, w \in workItems : v.id = w.id => v = w
NodesAreKeyed == \A m, n \in nodes : m.node = n.node => m = n

(* Evidence is applied to a work item, and work items are never removed. *)
AppliedHasWork ==
    \A e \in Applied : \E w \in workItems : w.id = e.workItem /\ w.type = CustodyWork

CustodyLife == /\ WorkItemsAreKeyed /\ NodesAreKeyed /\ AppliedHasWork
               /\ CustodyConfirmedOnce

(* The steps that leave work items, nodes and applied evidence alone. *)
LEMMA CustodyStep ==
    ASSUME [Next]_vars
    PROVE  \/ workItems' = workItems /\ nodes' = nodes /\ Applied' = Applied
           \/ \E c \in Commands :
                 \/ SavePlanRevision(c) \/ ActivateMovementBarrier(c)
                 \/ RecordAcknowledgmentHold(c) \/ ApplyPartnerEvidence(c)
  <1>1. ASSUME NEW c \in Commands, DenyPartnerEvidence(c)
        PROVE  workItems' = workItems /\ nodes' = nodes /\ Applied' = Applied
    <2>1. PICK w \in workItems, n \in nodes :
             evidence' = evidence \cup {EvidenceOf(c, w, n, "DENIED")}
      BY <1>1 DEF DenyPartnerEvidence
    <2>2. Applied' = Applied
      BY <2>1 DEF Applied, EvidenceOf
    <2> QED
      BY <1>1, <2>2 DEF DenyPartnerEvidence, custodyVars, recallVars
  <1>2. ASSUME NEW c \in Commands, Execute(c), ~DenyPartnerEvidence(c),
               ~SavePlanRevision(c), ~ActivateMovementBarrier(c),
               ~RecordAcknowledgmentHold(c), ~ApplyPartnerEvidence(c)
        PROVE  workItems' = workItems /\ nodes' = nodes /\ evidence' = evidence
    BY <1>2
    DEF Execute, DenyRole, DenyStaleRevision, RecordRefusal,
        PersistRepairProposal, PersistRepairApproval,
        ActivateApprovedRepairPlan, InvalidatePlan, PersistCoordinator,
        OpenRecallIncident, SetIncidentStatus, AllocateSafeStock,
        CreateNextDayDraft, ReaffirmNextDayDraft, dataVars, custodyVars, recallVars
  <1>3. Tick \/ UNCHANGED vars
            => workItems' = workItems /\ nodes' = nodes /\ evidence' = evidence
    BY DEF Tick, vars, custodyVars, recallVars
  <1> QED
    BY <1>1, <1>2, <1>3 DEF Next, Applied

LEMMA ReceiptsKept ==
    ASSUME [Next]_vars
    PROVE  receipts \subseteq receipts'
  <1>1. ASSUME NEW c \in Commands, Execute(c)
        PROVE  receipts \subseteq receipts'
    BY <1>1
    DEF Execute, DenyRole, DenyStaleRevision, RecordRefusal, SavePlanRevision,
        PersistRepairProposal, PersistRepairApproval,
        ActivateApprovedRepairPlan, InvalidatePlan, PersistCoordinator,
        OpenRecallIncident, SetIncidentStatus, ActivateMovementBarrier,
        AllocateSafeStock, RecordAcknowledgmentHold, ApplyPartnerEvidence,
        DenyPartnerEvidence, CreateNextDayDraft, ReaffirmNextDayDraft,
        Succeed, Denied
  <1> QED
    BY <1>1 DEF Next, Tick, vars

(* A work item is inserted under an id that no other has, and if it is about
   custody it is open. *)
LEMMA WorkInserted ==
    ASSUME CustodyLife, [Next]_vars, nodes' = nodes, Applied' = Applied,
           NEW item, workItems' = workItems \cup {item},
           \A w \in workItems : w.id # item.id,
           item.type = CustodyWork => item.status # "COMPLETED"
    PROVE  CustodyLife'
  <1>1. WorkItemsAreKeyed' /\ NodesAreKeyed'
    BY DEF CustodyLife, WorkItemsAreKeyed, NodesAreKeyed
  <1>2. AppliedHasWork'
    BY DEF CustodyLife, AppliedHasWork
  <1>3. \A e \in Applied : e.workItem # item.id
    BY DEF CustodyLife, AppliedHasWork
  <1>4. CustodyConfirmedOnce'
    BY <1>3, ReceiptsKept DEF CustodyLife, CustodyConfirmedOnce, Applied
  <1> QED
    BY <1>1, <1>2, <1>4 DEF CustodyLife

LEMMA EvidenceConfirms ==
    ASSUME TypeOK, CustodyLife, [Next]_vars,
           NEW c \in Commands, ApplyPartnerEvidence(c)
    PROVE  CustodyLife'
  <1>1. PICK w \in workItems, n \in nodes :
          /\ EvidenceContext(c, w, n)
          /\ nodes' = (nodes \ {n}) \cup {[n EXCEPT !.ack = "CONFIRMED"]}
          /\ workItems' = (workItems \ {w}) \cup {[w EXCEPT !.status = "COMPLETED"]}
          /\ evidence' = evidence \cup {EvidenceOf(c, w, n, "APPLIED")}
    BY DEF ApplyPartnerEvidence
  <1> DEFINE done == [w EXCEPT !.status = "COMPLETED"]
             known == [n EXCEPT !.ack = "CONFIRMED"]
             e == EvidenceOf(c, w, n, "APPLIED")
  <1>2. /\ done.id = w.id /\ done.type = w.type /\ done.status = "COMPLETED"
        /\ known.node = n.node /\ known.ack = "CONFIRMED"
    BY DEF TypeOK, WorkItemRow, NodeRow
  <1>3. /\ e.decision = "APPLIED" /\ e.node = n.node
        /\ e.workItem = w.id /\ e.key = c.key
    BY DEF EvidenceOf
  <1>4. w.type = CustodyWork /\ w.status = "OPEN" /\ n.ack = "UNCONFIRMED"
    BY <1>1 DEF EvidenceContext, OpenCustodyWork
  <1>5. \E r \in receipts' : r.key = c.key /\ r.status = "SUCCESS"
    <2> DEFINE r == Receipt(c, "SUCCESS", ReceiptRevision(c))
    <2>1. r \in receipts'
      BY DEF ApplyPartnerEvidence, Succeed
    <2>2. r.key = c.key /\ r.status = "SUCCESS"
      BY DEF Receipt
    <2> QED
      BY <2>1, <2>2
  <1>6. /\ nodes' = (nodes \ {n}) \cup {known}
        /\ workItems' = (workItems \ {w}) \cup {done}
        /\ evidence' = evidence \cup {e}
    BY <1>1
  <1> HIDE DEF done, known, e
  <1>7. Applied' = Applied \cup {e}
    BY <1>3, <1>6 DEF Applied
  <1>8. WorkItemsAreKeyed' /\ NodesAreKeyed'
    BY <1>2, <1>6 DEF CustodyLife, WorkItemsAreKeyed, NodesAreKeyed
  <1>9. AppliedHasWork'
    BY <1>2, <1>3, <1>4, <1>6, <1>7 DEF CustodyLife, AppliedHasWork
  <1>10. \A f \in Applied : f.node # n.node
    BY <1>4 DEF CustodyLife, CustodyConfirmedOnce, NodesAreKeyed, Applied
  <1>11. ASSUME NEW v \in workItems', v.type = CustodyWork
         PROVE  v.status = "COMPLETED" <=> \E f \in Applied' : f.workItem = v.id
    <2>1. CASE v = done
      BY <1>2, <1>3, <1>7, <2>1
    <2>2. CASE v \in workItems /\ v # w
      <3>1. v.id # w.id
        BY <2>2 DEF CustodyLife, WorkItemsAreKeyed
      <3>2. v.status = "COMPLETED" <=> \E f \in Applied : f.workItem = v.id
        BY <1>11, <2>2 DEF CustodyLife, CustodyConfirmedOnce, Applied
      <3> QED
        BY <1>3, <1>7, <3>1, <3>2
    <2> QED
      BY <1>6, <2>1, <2>2
  <1>12. ASSUME NEW f \in Applied'
         PROVE  /\ \E m \in nodes' : m.node = f.node /\ m.ack = "CONFIRMED"
                /\ \A g \in Applied' : g.node = f.node => g = f
                /\ \E r \in receipts' : r.key = f.key /\ r.status = "SUCCESS"
    <2>1. CASE f = e
      BY <1>2, <1>3, <1>5, <1>6, <1>7, <1>10, <2>1
    <2>2. CASE f \in Applied
      <3>1. /\ \E m \in nodes : m.node = f.node /\ m.ack = "CONFIRMED"
            /\ \A g \in Applied : g.node = f.node => g = f
            /\ \E r \in receipts : r.key = f.key /\ r.status = "SUCCESS"
        BY <2>2 DEF CustodyLife, CustodyConfirmedOnce, Applied
      <3>2. \E m \in nodes' : m.node = f.node /\ m.ack = "CONFIRMED"
        BY <1>4, <1>6, <3>1
      <3> QED
        BY <1>3, <1>7, <1>10, <2>2, <3>1, <3>2, ReceiptsKept
    <2> QED
      BY <1>7, <2>1, <2>2
  <1>13. CustodyConfirmedOnce'
    BY <1>11, <1>12 DEF CustodyConfirmedOnce, Applied
  <1> QED
    BY <1>8, <1>9, <1>13 DEF CustodyLife

LEMMA CustodyLifeStep ==
    ASSUME TypeOK, CustodyLife, [Next]_vars
    PROVE  CustodyLife'
  <1>1. CASE workItems' = workItems /\ nodes' = nodes /\ Applied' = Applied
    BY <1>1, ReceiptsKept
    DEF CustodyLife, WorkItemsAreKeyed, NodesAreKeyed, AppliedHasWork,
        CustodyConfirmedOnce, Applied
  <1>2. ASSUME NEW c \in Commands, SavePlanRevision(c)
        PROVE  CustodyLife'
    <2>1. /\ nodes' = nodes \cup c.body.nodes
          /\ \A m, n \in c.body.nodes : m.node = n.node => m = n
          /\ \A m \in c.body.nodes, n \in nodes : m.node # n.node
          /\ workItems' = workItems /\ evidence' = evidence
      BY <1>2 DEF SavePlanRevision, SaveOk, Insertable, recallVars
    <2>2. NodesAreKeyed'
      BY <2>1 DEF CustodyLife, NodesAreKeyed
    <2>3. WorkItemsAreKeyed' /\ AppliedHasWork'
      BY <2>1 DEF CustodyLife, WorkItemsAreKeyed, AppliedHasWork, Applied
    <2>4. CustodyConfirmedOnce'
      BY <2>1, ReceiptsKept DEF CustodyLife, CustodyConfirmedOnce
    <2> QED
      BY <2>2, <2>3, <2>4 DEF CustodyLife
  <1>3. ASSUME NEW c \in Commands, ActivateMovementBarrier(c)
        PROVE  CustodyLife'
    <2> DEFINE item == [id |-> c.body.workItem, incident |-> c.inc,
                        type |-> "RECALL_SCOPE_AND_INVALIDATION",
                        status |-> "REQUESTED", details |-> None]
    <2>1. /\ workItems' = workItems \cup {item}
          /\ \A w \in workItems : w.id # item.id
          /\ nodes' = nodes /\ Applied' = Applied
      BY <1>3 DEF ActivateMovementBarrier, custodyVars, Applied
    <2>2. item.status # "COMPLETED"
      OBVIOUS
    <2> HIDE DEF item
    <2> QED
      BY <2>1, <2>2, WorkInserted
  <1>4. ASSUME NEW c \in Commands, RecordAcknowledgmentHold(c)
        PROVE  CustodyLife'
    <2>1. /\ workItems' = workItems \cup {CustodyWorkOf(c)}
          /\ \A w \in workItems : w.id # CustodyWorkOf(c).id
          /\ nodes' = nodes /\ Applied' = Applied
      BY <1>4 DEF RecordAcknowledgmentHold, custodyVars, Applied, CustodyWorkOf
    <2>2. CustodyWorkOf(c).status # "COMPLETED"
      BY DEF CustodyWorkOf
    <2> QED
      BY <2>1, <2>2, WorkInserted
  <1> QED
    BY <1>1, <1>2, <1>3, <1>4, EvidenceConfirms, CustodyStep

(* Work item, custody node and evidence event of a confirmation move together,
   and a node is confirmed by one piece of evidence only, whatever callbacks
   and holds callers send and however often. *)
THEOREM ConfirmedOnce == Spec => []CustodyConfirmedOnce
  <1>1. Init => CustodyLife
    BY DEF Init, CustodyLife, WorkItemsAreKeyed, NodesAreKeyed, AppliedHasWork,
           CustodyConfirmedOnce, Applied
  <1>2. TypeOK /\ CustodyLife /\ [Next]_vars => CustodyLife'
    BY CustodyLifeStep
  <1>3. CustodyLife => CustodyConfirmedOnce
    BY DEF CustodyLife
  <1> QED
    BY <1>1, <1>2, <1>3, TypeCorrect, PTL DEF Spec

LEMMA WorkKept ==
    ASSUME TypeOK, [Next]_vars, NEW w \in workItems
    PROVE  \E v \in workItems' : v.type = w.type /\ v.details = w.details
  <1>1. CASE workItems \subseteq workItems'
    BY <1>1
  <1>2. ASSUME NEW c \in Commands, ApplyPartnerEvidence(c)
        PROVE  \E v \in workItems' : v.type = w.type /\ v.details = w.details
    <2>1. PICK u \in workItems :
             workItems' = (workItems \ {u}) \cup {[u EXCEPT !.status = "COMPLETED"]}
      BY <1>2 DEF ApplyPartnerEvidence
    <2> DEFINE done == [u EXCEPT !.status = "COMPLETED"]
    <2>2. done.type = u.type /\ done.details = u.details
      BY DEF TypeOK, WorkItemRow
    <2>3. done \in workItems'
      BY <2>1
    <2> HIDE DEF done
    <2>4. CASE w = u
      BY <2>2, <2>3, <2>4
    <2>5. CASE w # u
      BY <2>1, <2>5
    <2> QED
      BY <2>4, <2>5
  <1>3. ASSUME NEW c \in Commands,
               \/ SavePlanRevision(c) \/ ActivateMovementBarrier(c)
               \/ RecordAcknowledgmentHold(c)
        PROVE  workItems \subseteq workItems'
    BY <1>3
    DEF SavePlanRevision, ActivateMovementBarrier, RecordAcknowledgmentHold, recallVars
  <1> QED
    BY <1>1, <1>2, <1>3, CustodyStep

(* How a step changes the rows of Incidents: one is inserted as a recall, one
   moves to another status, or one becomes a hold, with its work item. *)
IncidentOpened(row) ==
    /\ incidents' = incidents \cup {row}
    /\ ~IncidentExists(row.incident) /\ row.type = "FOOD_SAFETY_RECALL"
    /\ row.status = "DETECTED" /\ row.terminal = "NONE"
    /\ \E c \in Commands : c.type = "OPEN_RECALL_INCIDENT" /\ c.inc = row.incident
IncidentMoved(x, y) ==
    /\ x \in incidents /\ incidents' = (incidents \ {x}) \cup {y}
    /\ y.incident = x.incident /\ y.type = x.type /\ y.lot = x.lot
    /\ y.site = x.site /\ y.cases = x.cases
    /\ x.status \in DOMAIN RecallSuccessor /\ y.status = RecallSuccessor[x.status]
    /\ y.terminal = TerminalStateOf(y.status)
IncidentHeld(row, w) ==
    /\ incidents' = {x \in incidents : x.incident # row.incident} \cup {row}
    /\ row.type = "DEADLINE_HOLD" /\ row.status = "ACKNOWLEDGMENT_HOLD_ACTIVE"
    /\ w \in workItems' /\ w.type = CustodyWork
    /\ w.details.hold = row.incident /\ w.details.site = row.site
    /\ w.details.cases = row.cases /\ w.details.lot = row.lot
    /\ \A v \in workItems : v.id # w.id
    /\ \E c \in Commands :
          /\ c.type = "RECORD_ACKNOWLEDGMENT_HOLD" /\ c.body.hold = row.incident
          /\ w.id = CustodyWorkId(c)

LEMMA IncidentsTransaction ==
    ASSUME TypeOK, NEW c \in Commands, Execute(c)
    PROVE  \/ incidents' = incidents
           \/ \E row : IncidentOpened(row)
           \/ /\ c.type = "SET_INCIDENT_STATUS"
              /\ \E x, y : /\ IncidentMoved(x, y)
                           /\ x.incident = c.inc /\ y.status = c.body.new
           \/ \E row, w : IncidentHeld(row, w)
  <1>1. ASSUME OpenRecallIncident(c)
        PROVE  \E row : IncidentOpened(row)
    <2> DEFINE row == [incident |-> c.inc, type |-> "FOOD_SAFETY_RECALL",
                       status |-> "DETECTED", terminal |-> "NONE",
                       lot |-> c.body.lot, site |-> None, cases |-> 0]
    <2>1. /\ incidents' = incidents \cup {row} /\ ~IncidentExists(c.inc)
          /\ c.type = "OPEN_RECALL_INCIDENT"
      BY <1>1 DEF OpenRecallIncident, Admitted
    <2>2. /\ row.type = "FOOD_SAFETY_RECALL" /\ row.incident = c.inc
          /\ row.status = "DETECTED" /\ row.terminal = "NONE"
      OBVIOUS
    <2> HIDE DEF row
    <2> QED
      BY <2>1, <2>2 DEF IncidentOpened
  <1>2. ASSUME SetIncidentStatus(c)
        PROVE  /\ c.type = "SET_INCIDENT_STATUS"
               /\ \E x, y : /\ IncidentMoved(x, y)
                            /\ x.incident = c.inc /\ y.status = c.body.new
    <2>1. PICK x \in incidents :
             /\ InExpectedStatus(x, c)
             /\ incidents' = (incidents \ {x}) \cup
                   {[x EXCEPT !.status = c.body.new, !.terminal = c.body.terminal]}
      BY <1>2 DEF SetIncidentStatus
    <2> DEFINE y == [x EXCEPT !.status = c.body.new, !.terminal = c.body.terminal]
    <2>2. /\ y.incident = x.incident /\ y.type = x.type /\ y.lot = x.lot
          /\ y.site = x.site /\ y.cases = x.cases
          /\ y.status = c.body.new /\ y.terminal = c.body.terminal
      BY DEF TypeOK, IncidentRow
    <2>3. incidents' = (incidents \ {x}) \cup {y}
      BY <2>1
    <2>4. /\ x.status \in DOMAIN RecallSuccessor
          /\ c.body.new = RecallSuccessor[x.status]
          /\ c.body.terminal = TerminalStateOf(c.body.new)
          /\ x.incident = c.inc /\ c.type = "SET_INCIDENT_STATUS"
      BY <1>2, <2>1 DEF SetIncidentStatus, StatusChangeOk, InExpectedStatus, Admitted
    <2> HIDE DEF y
    <2> QED
      BY <2>2, <2>3, <2>4 DEF IncidentMoved
  <1>3. ASSUME RecordAcknowledgmentHold(c)
        PROVE  \E row, w : IncidentHeld(row, w)
    <2> DEFINE row == [incident |-> c.body.hold, type |-> "DEADLINE_HOLD",
                       status |-> "ACKNOWLEDGMENT_HOLD_ACTIVE",
                       terminal |-> "PARTIALLY_CONTAINED", lot |-> c.body.lot,
                       site |-> c.body.site, cases |-> c.body.cases]
               w == CustodyWorkOf(c)
    <2>1. /\ incidents' = {x \in incidents : x.incident # c.body.hold} \cup {row}
          /\ w \in workItems' /\ c.type = "RECORD_ACKNOWLEDGMENT_HOLD"
          /\ \A v \in workItems : v.id # CustodyWorkId(c)
      BY <1>3 DEF RecordAcknowledgmentHold, Admitted
    <2>2. /\ row.incident = c.body.hold /\ row.site = c.body.site
          /\ row.cases = c.body.cases /\ row.lot = c.body.lot
          /\ row.type = "DEADLINE_HOLD" /\ row.status = "ACKNOWLEDGMENT_HOLD_ACTIVE"
      OBVIOUS
    <2>3. /\ w.type = CustodyWork /\ w.details.hold = c.body.hold
          /\ w.details.site = c.body.site /\ w.details.cases = c.body.cases
          /\ w.details.lot = c.body.lot /\ w.id = CustodyWorkId(c)
      BY DEF CustodyWorkOf
    <2> HIDE DEF row, w
    <2> QED
      BY <2>1, <2>2, <2>3 DEF IncidentHeld
  <1>4. ASSUME ~OpenRecallIncident(c), ~SetIncidentStatus(c),
               ~RecordAcknowledgmentHold(c)
        PROVE  incidents' = incidents
    BY <1>4
    DEF Execute, DenyRole, DenyStaleRevision, RecordRefusal, SavePlanRevision,
        PersistRepairProposal, PersistRepairApproval,
        ActivateApprovedRepairPlan, InvalidatePlan, PersistCoordinator,
        ActivateMovementBarrier, AllocateSafeStock, ApplyPartnerEvidence,
        DenyPartnerEvidence, CreateNextDayDraft, ReaffirmNextDayDraft,
        dataVars, recallVars
  <1> QED
    BY <1>1, <1>2, <1>3, <1>4

LEMMA IncidentsStep ==
    ASSUME TypeOK, [Next]_vars
    PROVE  \/ incidents' = incidents
           \/ \E row : IncidentOpened(row)
           \/ \E x, y : IncidentMoved(x, y)
           \/ \E row, w : IncidentHeld(row, w)
  <1>1. Tick \/ UNCHANGED vars => incidents' = incidents
    BY DEF Tick, vars, recallVars
  <1> QED
    BY <1>1, IncidentsTransaction DEF Next

LEMMA HoldsHaveWorkStep ==
    ASSUME TypeOK, HoldsHaveWork, [Next]_vars
    PROVE  HoldsHaveWork'
  <1>1. \A x \in incidents : x.type = "DEADLINE_HOLD" =>
          \E w \in workItems' :
              /\ w.type = CustodyWork /\ w.details.hold = x.incident
              /\ w.details.site = x.site /\ w.details.cases = x.cases
              /\ w.details.lot = x.lot
    BY WorkKept DEF HoldsHaveWork
  <1>2. ASSUME NEW row, IncidentOpened(row)
        PROVE  HoldsHaveWork'
    BY <1>1, <1>2 DEF IncidentOpened, HoldsHaveWork
  <1>3. ASSUME NEW x, NEW y, IncidentMoved(x, y)
        PROVE  HoldsHaveWork'
    BY <1>1, <1>3 DEF IncidentMoved, HoldsHaveWork
  <1>4. ASSUME NEW row, NEW w, IncidentHeld(row, w)
        PROVE  HoldsHaveWork'
    BY <1>1, <1>4 DEF IncidentHeld, HoldsHaveWork
  <1>5. CASE incidents' = incidents
    BY <1>1, <1>5 DEF HoldsHaveWork
  <1> QED
    BY <1>2, <1>3, <1>4, <1>5, IncidentsStep

(* No deadline hold is ever left without the work item that can answer it. *)
THEOREM EveryHoldIsAnswerable == Spec => []HoldsHaveWork
  <1>1. Init => HoldsHaveWork
    BY DEF Init, HoldsHaveWork
  <1>2. TypeOK /\ HoldsHaveWork /\ [Next]_vars => HoldsHaveWork'
    BY HoldsHaveWorkStep
  <1> QED
    BY <1>1, <1>2, TypeCorrect, PTL DEF Spec

-----------------------------------------------------------------------------
(* The life of a recall *)

RecallsAreInLife ==
    \A x \in incidents : x.type = "FOOD_SAFETY_RECALL" =>
        /\ x.status \in DOMAIN RecallRank /\ x.terminal = TerminalStateOf(x.status)
        /\ \E d \in Commands : d.type = "OPEN_RECALL_INCIDENT" /\ d.inc = x.incident

(* What may become of the recall x: it stays, or moves to the next status. *)
RecallGoesOn(x, y) ==
    /\ y.incident = x.incident /\ y.type = x.type /\ y.lot = x.lot
    /\ RecallRank[y.status] \in {RecallRank[x.status], RecallRank[x.status] + 1}
    /\ y.terminal = TerminalStateOf(y.status)

LEMMA SuccessorRanks ==
    ASSUME NEW s \in DOMAIN RecallSuccessor
    PROVE  /\ RecallSuccessor[s] \in DOMAIN RecallRank
           /\ RecallRank[RecallSuccessor[s]] = RecallRank[s] + 1
  BY DEF RecallSuccessor, RecallRank

LEMMA RecallsInLifeStep ==
    ASSUME TypeOK, RecallsAreInLife, [Next]_vars
    PROVE  RecallsAreInLife'
  <1>1. CASE incidents' = incidents
    BY <1>1 DEF RecallsAreInLife
  <1>2. ASSUME NEW row, IncidentOpened(row)
        PROVE  RecallsAreInLife'
    <2>1. row.status \in DOMAIN RecallRank /\ row.terminal = TerminalStateOf(row.status)
      BY <1>2 DEF IncidentOpened, RecallRank, TerminalStateOf
    <2> QED
      BY <1>2, <2>1 DEF IncidentOpened, RecallsAreInLife
  <1>3. ASSUME NEW x, NEW y, IncidentMoved(x, y)
        PROVE  RecallsAreInLife'
    BY <1>3, SuccessorRanks DEF IncidentMoved, RecallsAreInLife
  <1>4. ASSUME NEW row, NEW w, IncidentHeld(row, w)
        PROVE  RecallsAreInLife'
    BY <1>4 DEF IncidentHeld, RecallsAreInLife
  <1> QED
    BY <1>1, <1>2, <1>3, <1>4, IncidentsStep

LEMMA RecallGoesOnStep ==
    ASSUME HoldIdsAreNew, TypeOK, RecallsAreInLife, [Next]_vars,
           NEW x \in incidents, x.type = "FOOD_SAFETY_RECALL"
    PROVE  \E y \in incidents' : RecallGoesOn(x, y)
  <1>1. RecallGoesOn(x, x)
    BY DEF RecallGoesOn, RecallsAreInLife
  <1>2. CASE x \in incidents'
    BY <1>1, <1>2
  <1>3. ASSUME NEW row, IncidentOpened(row)
        PROVE  x \in incidents'
    BY <1>3 DEF IncidentOpened
  <1>4. ASSUME NEW u, NEW y, IncidentMoved(u, y), x \notin incidents'
        PROVE  y \in incidents' /\ RecallGoesOn(x, y)
    <2>1. u = x /\ y \in incidents'
      BY <1>4 DEF IncidentMoved
    <2>2. RecallRank[y.status] = RecallRank[x.status] + 1
      BY <1>4, <2>1, SuccessorRanks DEF IncidentMoved
    <2> QED
      BY <1>4, <2>1, <2>2 DEF IncidentMoved, RecallGoesOn
  <1>5. ASSUME NEW row, NEW w, IncidentHeld(row, w)
        PROVE  x \in incidents'
    <2>1. row.incident # x.incident
      BY <1>5 DEF IncidentHeld, RecallsAreInLife, HoldIdsAreNew
    <2> QED
      BY <1>5, <2>1 DEF IncidentHeld
  <1> QED
    BY <1>2, <1>3, <1>4, <1>5, IncidentsStep

(* Where hold ids are no recall's, as the orchestrator makes them, no recall is
   lost, moves back or skips a stage, whatever else is sent in whatever order. *)
THEOREM RecallsGoForward ==
    ASSUME HoldIdsAreNew
    PROVE  Spec => RecallNeverRegresses
  <1>1. Init => RecallsAreInLife
    BY DEF Init, RecallsAreInLife
  <1>2. TypeOK /\ RecallsAreInLife /\ [Next]_vars => RecallsAreInLife'
    BY RecallsInLifeStep
  <1>3. TypeOK /\ RecallsAreInLife /\ [Next]_vars =>
           [\A x \in incidents : x.type = "FOOD_SAFETY_RECALL" =>
              \E y \in incidents' :
                /\ y.incident = x.incident /\ y.type = x.type /\ y.lot = x.lot
                /\ RecallRank[y.status] \in {RecallRank[x.status], RecallRank[x.status] + 1}
                /\ y.terminal = TerminalStateOf(y.status)]_vars
    BY RecallGoesOnStep DEF RecallGoesOn
  <1> QED
    BY <1>1, <1>2, <1>3, TypeCorrect, PTL DEF Spec, RecallNeverRegresses

-----------------------------------------------------------------------------
(* What a receipt tells *)

(* What the tables hold once a command has succeeded, and go on holding. *)
ApprovalStands(c) ==
    \E a \in approvals :
        /\ a.approval = c.body.approval /\ a.plan = c.body.plan
        /\ a.source = c.body.source /\ a.proposed = c.body.proposed
        /\ a.diff = c.body.diff
RepairStands(c) ==
    \E a \in approvals :
        /\ a.approval = c.body.approval /\ a.plan = c.body.plan
        /\ a.source = c.body.source /\ a.proposed = c.body.proposed
        /\ PlanExists(a.plan, a.source) /\ PlanExists(a.plan, a.proposed)
        /\ Lines(a.plan, a.proposed) = Repaired(Lines(a.plan, a.source), a.diff)
PlanIsDown(c) ==
    \E i \in DOMAIN plans :
        plans[i].plan = c.body.plan /\ plans[i].status = "INVALIDATED_RECALL"
BarrierStands(c) ==
    \E x \in barriers : x.incident = c.inc /\ x.lot = c.body.lot
RecallIsOfLot(c) ==
    /\ IncidentExists(c.inc)
    /\ \A x \in incidents :
          x.incident = c.inc /\ x.type = "FOOD_SAFETY_RECALL" => x.lot = c.body.lot
ProposalStands(c) ==
    \E k \in constraints :
        k.type = "REPAIR_PROPOSAL" /\ k.plan = c.body.plan /\ k.rev = c.body.source
CoordinatorStands(c) == \E k \in coordinators : k.coordinator = c.body.coordinator
EvidenceStands(c) ==
    \E e \in evidence : e.event = c.body.event /\ e.decision = "APPLIED"

Effect(c) ==
    /\ c.type = "SAVE_PLAN_REVISION" => PlanExists(c.body.plan, c.body.rev)
    /\ c.type = "CREATE_NEXT_DAY_DRAFT" => PlanExists(c.body.plan, "rev01")
    /\ c.type = "PERSIST_REPAIR_PROPOSAL" => ProposalStands(c)
    /\ c.type = "PERSIST_COORDINATOR" => CoordinatorStands(c)
    /\ c.type = "PROCESS_PARTNER_EVIDENCE" => EvidenceStands(c)
    /\ c.type = "PERSIST_REPAIR_APPROVAL" => ApprovalStands(c)
    /\ c.type = "ACTIVATE_APPROVED_REPAIR_PLAN" => RepairStands(c)
    /\ c.type = "INVALIDATE_PLAN" => PlanIsDown(c)
    /\ c.type = "ACTIVATE_MOVEMENT_BARRIER" => BarrierStands(c)
    /\ c.type = "OPEN_RECALL_INCIDENT" => RecallIsOfLot(c)

ReceiptOf(x, c) == x.key = c.key /\ x.type = c.type /\ x.fp = RequestFingerprint(c)

ReceiptsAreUnique == \A x, y \in receipts : x.key = y.key => x = y
ReceiptsAreTrue ==
    \A x \in receipts : \E c \in Commands :
        ReceiptOf(x, c) /\ (x.status = "SUCCESS" => Effect(c))
ReceiptsInv == OrdersHaveParent /\ ReceiptsAreUnique /\ ReceiptsAreTrue

(* A request is known by its fingerprint. *)
LEMMA FingerprintTells ==
    ASSUME NEW c \in Commands, c.type # "PROCESS_PARTNER_EVIDENCE",
           NEW d \in Commands, RequestFingerprint(c) = RequestFingerprint(d)
    PROVE  d.type = c.type /\ d.inc = c.inc /\ d.body = c.body
  <1>1. /\ "role" \in DOMAIN RequestFingerprint(c)
        /\ RequestFingerprint(c).type = c.type /\ RequestFingerprint(c).inc = c.inc
        /\ RequestFingerprint(c).body = c.body
    BY DEF RequestFingerprint
  <1>2. CASE d.type = "PROCESS_PARTNER_EVIDENCE"
    <2>1. "role" \notin DOMAIN RequestFingerprint(d)
      BY <1>2 DEF RequestFingerprint
    <2> QED
      BY <1>1, <2>1
  <1>3. CASE d.type # "PROCESS_PARTNER_EVIDENCE"
    <2>1. /\ RequestFingerprint(d).type = d.type /\ RequestFingerprint(d).inc = d.inc
          /\ RequestFingerprint(d).body = d.body
      BY <1>3 DEF RequestFingerprint
    <2> QED
      BY <1>1, <2>1
  <1> QED
    BY <1>2, <1>3

(* Evidence is known by its event. *)
LEMMA EvidenceFingerprintTells ==
    ASSUME NEW c \in Commands, c.type = "PROCESS_PARTNER_EVIDENCE",
           NEW d \in Commands, RequestFingerprint(c) = RequestFingerprint(d)
    PROVE  d.type = c.type /\ d.body.event = c.body.event
  <1>1. /\ "event" \in DOMAIN RequestFingerprint(c)
        /\ RequestFingerprint(c).event = c.body.event
    BY DEF RequestFingerprint
  <1>2. CASE d.type # "PROCESS_PARTNER_EVIDENCE"
    <2>1. "event" \notin DOMAIN RequestFingerprint(d)
      BY <1>2 DEF RequestFingerprint
    <2> QED
      BY <1>1, <2>1
  <1>3. CASE d.type = "PROCESS_PARTNER_EVIDENCE"
    <2>1. RequestFingerprint(d).event = d.body.event
      BY <1>3 DEF RequestFingerprint
    <2> QED
      BY <1>1, <1>3, <2>1
  <1> QED
    BY <1>2, <1>3

SameRequest(c, d) ==
    /\ d.type = c.type
    /\ IF c.type = "PROCESS_PARTNER_EVIDENCE" THEN d.body.event = c.body.event
       ELSE d.inc = c.inc /\ d.body = c.body

LEMMA EffectOfRequest ==
    ASSUME NEW c \in Commands, NEW d \in Commands, SameRequest(c, d), Effect(d)
    PROVE  Effect(c)
  BY DEF SameRequest, Effect, ApprovalStands, RepairStands, PlanIsDown, BarrierStands,
         RecallIsOfLot, PlanExists, ProposalStands, CoordinatorStands, EvidenceStands

(* No step takes back what a command has done. *)
LEMMA IncidentsKept ==
    ASSUME TypeOK, [Next]_vars, NEW inc, IncidentExists(inc)
    PROVE  IncidentExists(inc)'
  <1>1. CASE incidents' = incidents
    BY <1>1 DEF IncidentExists
  <1>2. ASSUME NEW row, IncidentOpened(row)
        PROVE  IncidentExists(inc)'
    BY <1>2 DEF IncidentExists, IncidentOpened
  <1>3. ASSUME NEW x, NEW y, IncidentMoved(x, y)
        PROVE  IncidentExists(inc)'
    BY <1>3 DEF IncidentExists, IncidentMoved
  <1>4. ASSUME NEW row, NEW w, IncidentHeld(row, w)
        PROVE  IncidentExists(inc)'
    BY <1>4 DEF IncidentExists, IncidentHeld
  <1> QED
    BY <1>1, <1>2, <1>3, <1>4, IncidentsStep

LEMMA RecallIsOfLotKept ==
    ASSUME TypeOK, [Next]_vars, NEW c, RecallIsOfLot(c)
    PROVE  RecallIsOfLot(c)'
  <1> DEFINE OfLot(x) == x.incident = c.inc /\ x.type = "FOOD_SAFETY_RECALL"
                         => x.lot = c.body.lot
  <1>1. IncidentExists(c.inc) /\ \A x \in incidents : OfLot(x)
    BY DEF RecallIsOfLot
  <1>2. ASSUME incidents' = incidents
        PROVE  \A x \in incidents' : OfLot(x)
    BY <1>1, <1>2
  <1>3. ASSUME NEW row, IncidentOpened(row)
        PROVE  \A x \in incidents' : OfLot(x)
    BY <1>1, <1>3 DEF IncidentOpened
  <1>4. ASSUME NEW x, NEW y, IncidentMoved(x, y)
        PROVE  \A z \in incidents' : OfLot(z)
    BY <1>1, <1>4 DEF IncidentMoved
  <1>5. ASSUME NEW row, NEW w, IncidentHeld(row, w)
        PROVE  \A x \in incidents' : OfLot(x)
    BY <1>1, <1>5 DEF IncidentHeld
  <1>6. \A x \in incidents' : OfLot(x)
    BY <1>1, <1>2, <1>3, <1>4, <1>5, IncidentsStep
  <1>7. IncidentExists(c.inc)'
    BY <1>1, IncidentsKept
  <1> QED
    BY <1>6, <1>7 DEF RecallIsOfLot

LEMMA BarriersKept ==
    ASSUME [Next]_vars
    PROVE  barriers \subseteq barriers'
  BY LotsStep DEF SavePlanRevision, ActivateMovementBarrier, recallVars

LEMMA PlannedAndProvenKept ==
    ASSUME TypeOK, [Next]_vars
    PROVE  /\ constraints \subseteq constraints' /\ evidence \subseteq evidence'
           /\ \A k \in coordinators : \E m \in coordinators' :
                 m.coordinator = k.coordinator
  <1> DEFINE Kept == /\ constraints \subseteq constraints' /\ evidence \subseteq evidence'
                     /\ \A k \in coordinators : \E m \in coordinators' :
                           m.coordinator = k.coordinator
  <1>1. CASE UNCHANGED <<constraints, evidence, coordinators>>
    BY <1>1
  <1>2. ASSUME NEW c \in Commands,
               \/ PersistRepairProposal(c) \/ ApplyPartnerEvidence(c)
               \/ DenyPartnerEvidence(c)
        PROVE  Kept
    BY <1>2 DEF PersistRepairProposal, ApplyPartnerEvidence, DenyPartnerEvidence, planVars
  <1>3. ASSUME NEW c \in Commands, PersistCoordinator(c)
        PROVE  Kept
    BY <1>3 DEF PersistCoordinator, planVars
  <1>4. ASSUME NEW c \in Commands, OpenRecallIncident(c)
        PROVE  Kept
    <2>1. PICK k \in coordinators :
             coordinators' = (coordinators \ {k}) \cup
                {[k EXCEPT !.state = "RECALL_WOKEN_DETECTED", !.children = @ \cup {c.inc}]}
      BY <1>4 DEF OpenRecallIncident
    <2> DEFINE woken == [k EXCEPT !.state = "RECALL_WOKEN_DETECTED",
                                  !.children = @ \cup {c.inc}]
    <2>2. woken.coordinator = k.coordinator /\ woken \in coordinators'
      BY <2>1 DEF TypeOK, CoordinatorRow
    <2> HIDE DEF woken
    <2>3. coordinators \ {k} \subseteq coordinators'
      BY <2>1
    <2>4. \A m \in coordinators : \E n \in coordinators' : n.coordinator = m.coordinator
      BY <2>2, <2>3
    <2> QED
      BY <1>4, <2>4 DEF OpenRecallIncident, planVars
  <1>5. ASSUME NEW c \in Commands, CreateNextDayDraft(c)
        PROVE  Kept
    <2> DEFINE fresh == [coordinator |-> c.body.coordinator,
                         state |-> "DRAFT_WITH_CONSTRAINTS",
                         checkpoint |-> "HUMAN_APPROVAL_REQUIRED", rev |-> "rev01",
                         children |-> {}]
    <2>1. /\ coordinators' = {k \in coordinators : k.coordinator # c.body.coordinator}
                             \cup {fresh}
          /\ constraints \subseteq constraints' /\ evidence' = evidence
      BY <1>5 DEF CreateNextDayDraft
    <2>2. fresh.coordinator = c.body.coordinator
      OBVIOUS
    <2> HIDE DEF fresh
    <2>3. \A m \in coordinators : \E n \in coordinators' : n.coordinator = m.coordinator
      BY <2>1, <2>2
    <2> QED
      BY <2>1, <2>3
  <1>6. ASSUME NEW c \in Commands,
               \/ DenyRole(c) \/ DenyStaleRevision(c) \/ RecordRefusal(c)
               \/ SavePlanRevision(c) \/ PersistRepairApproval(c)
               \/ ActivateApprovedRepairPlan(c) \/ InvalidatePlan(c)
               \/ SetIncidentStatus(c) \/ ActivateMovementBarrier(c)
               \/ AllocateSafeStock(c) \/ RecordAcknowledgmentHold(c)
               \/ ReaffirmNextDayDraft(c)
        PROVE  UNCHANGED <<constraints, evidence, coordinators>>
    BY <1>6
    DEF DenyRole, DenyStaleRevision, RecordRefusal, SavePlanRevision,
        PersistRepairApproval, ActivateApprovedRepairPlan, InvalidatePlan,
        SetIncidentStatus, ActivateMovementBarrier, AllocateSafeStock,
        RecordAcknowledgmentHold, ReaffirmNextDayDraft, dataVars, planVars
  <1>7. CASE Tick \/ UNCHANGED vars
    BY <1>1, <1>7 DEF Tick, vars, planVars
  <1> HIDE DEF Kept
  <1>8. Kept
    BY <1>1, <1>2, <1>3, <1>4, <1>5, <1>6, <1>7 DEF Next, Execute, Kept
  <1> QED
    BY <1>8 DEF Kept

LEMMA EffectKept ==
    ASSUME TypeOK, OrdersHaveParent, [Next]_vars, NEW c, Effect(c)
    PROVE  Effect(c)'
  <1>1. ApprovalStands(c) => ApprovalStands(c)'
    BY ApprovalsKept DEF ApprovalStands
  <1>2. RepairStands(c) => RepairStands(c)'
    <2> SUFFICES ASSUME RepairStands(c)
                 PROVE  RepairStands(c)'
      OBVIOUS
    <2>1. PICK a \in approvals :
            /\ a.approval = c.body.approval /\ a.plan = c.body.plan
            /\ a.source = c.body.source /\ a.proposed = c.body.proposed
            /\ PlanExists(a.plan, a.source) /\ PlanExists(a.plan, a.proposed)
            /\ Lines(a.plan, a.proposed) = Repaired(Lines(a.plan, a.source), a.diff)
      BY DEF RepairStands
    <2>2. a \in approvals'
      BY ApprovalsKept
    <2>3. PlanExists(a.plan, a.source)' /\ PlanExists(a.plan, a.proposed)'
      BY <2>1, PlanExistsKept
    <2>4. /\ Lines(a.plan, a.source)' = Lines(a.plan, a.source)
          /\ Lines(a.plan, a.proposed)' = Lines(a.plan, a.proposed)
      BY <2>1, LinesKept
    <2>5. Lines(a.plan, a.proposed)' = Repaired(Lines(a.plan, a.source)', a.diff)
      BY <2>1, <2>4
    <2> QED
      BY <2>1, <2>2, <2>3, <2>5 DEF RepairStands, Repaired, RepairedLine
  <1>3. PlanIsDown(c) => PlanIsDown(c)'
    BY PlansKept DEF PlanIsDown
  <1>4. BarrierStands(c) => BarrierStands(c)'
    BY BarriersKept DEF BarrierStands
  <1>5. RecallIsOfLot(c) => RecallIsOfLot(c)'
    BY RecallIsOfLotKept
  <1>6. \A p, r : PlanExists(p, r) => PlanExists(p, r)'
    BY PlanExistsKept
  <1>7. /\ ProposalStands(c) => ProposalStands(c)'
        /\ CoordinatorStands(c) => CoordinatorStands(c)'
        /\ EvidenceStands(c) => EvidenceStands(c)'
    BY PlannedAndProvenKept DEF ProposalStands, CoordinatorStands, EvidenceStands
  <1> QED
    BY <1>1, <1>2, <1>3, <1>4, <1>5, <1>6, <1>7 DEF Effect

(* A transaction leaves the receipt of its command, and what a successful one
   tells. *)
Settles(c, status) ==
    \E rev : receipts' = receipts \cup {Receipt(c, status, rev)}

LEMMA OpeningTakesEffect ==
    ASSUME NEW c \in Commands, OpenRecallIncident(c)
    PROVE  RecallIsOfLot(c)'
  <1> DEFINE row == [incident |-> c.inc, type |-> "FOOD_SAFETY_RECALL",
                     status |-> "DETECTED", terminal |-> "NONE",
                     lot |-> c.body.lot, site |-> None, cases |-> 0]
  <1>1. incidents' = incidents \cup {row} /\ ~IncidentExists(c.inc)
    BY DEF OpenRecallIncident
  <1>2. row.incident = c.inc /\ row.lot = c.body.lot
    OBVIOUS
  <1> HIDE DEF row
  <1> QED
    BY <1>1, <1>2 DEF RecallIsOfLot, IncidentExists

LEMMA ActivationTakesEffect ==
    ASSUME TypeOK, OrdersHaveParent, [Next]_vars,
           NEW c \in Commands, ActivateApprovedRepairPlan(c)
    PROVE  RepairStands(c)'
  <1>1. PICK a \in approvals' :
          /\ a.approval = c.body.approval /\ a.plan = c.body.plan
          /\ a.source = c.body.source /\ a.proposed = c.body.proposed
          /\ PlanExists(a.plan, a.source)'
          /\ Lines(a.plan, a.proposed)' = Repaired(Lines(a.plan, a.source)', a.diff)
    BY ActivationSigned
  <1>2. PlanExists(c.body.plan, c.body.proposed)'
    <2> DEFINE row == [plan |-> c.body.plan, rev |-> c.body.proposed,
                       status |-> "ACTIVE"]
    <2>1. PICK i \in ActiveRows : plans' = Append(Superseded(i), row)
      BY DEF ActivateApprovedRepairPlan
    <2>2. Superseded(i) \in Seq(PlanRow)
      BY StatusChange DEF TypeOK, ActiveRows, Superseded, PlanStatuses
    <2>3. row.plan = c.body.plan /\ row.rev = c.body.proposed
      OBVIOUS
    <2> HIDE DEF row
    <2>4. \E j \in DOMAIN plans' : plans'[j] = row
      BY <2>1, <2>2, LenProperties
    <2> QED
      BY <2>3, <2>4 DEF PlanExists
  <1> QED
    BY <1>1, <1>2 DEF RepairStands, Repaired, RepairedLine

LEMMA TransactionSettles ==
    ASSUME TypeOK, OrdersHaveParent, NEW c \in Commands, Execute(c)
    PROVE  /\ ~Settled(c)
           /\ Settles(c, "DENIED") \/ (Settles(c, "SUCCESS") /\ Effect(c)')
  <1>1. CASE DenyRole(c) \/ DenyStaleRevision(c) \/ RecordRefusal(c)
                \/ DenyPartnerEvidence(c)
    BY <1>1 DEF DenyRole, DenyStaleRevision, RecordRefusal, DenyPartnerEvidence,
                Admitted, Denied, Settles
  <1>2. CASE ActivateApprovedRepairPlan(c)
    BY <1>2, ActivationTakesEffect
    DEF ActivateApprovedRepairPlan, Admitted, Succeed, Settles, Effect, Next
  <1>3. CASE OpenRecallIncident(c)
    BY <1>3, OpeningTakesEffect
    DEF OpenRecallIncident, Admitted, Succeed, Settles, Effect
  <1>4. CASE PersistRepairApproval(c)
    <2> DEFINE a == [approval |-> c.body.approval, inc |-> c.inc,
                     plan |-> c.body.plan, source |-> c.body.source,
                     proposed |-> c.body.proposed, day |-> c.body.day,
                     scope |-> c.body.scope, diff |-> c.body.diff,
                     hash |-> c.body.hash, expires |-> c.body.expires]
    <2>1. a \in approvals'
      BY <1>4 DEF PersistRepairApproval
    <2>2. /\ a.approval = c.body.approval /\ a.plan = c.body.plan
          /\ a.source = c.body.source /\ a.proposed = c.body.proposed
          /\ a.diff = c.body.diff
      OBVIOUS
    <2> HIDE DEF a
    <2>3. ApprovalStands(c)'
      BY <2>1, <2>2 DEF ApprovalStands
    <2> QED
      BY <1>4, <2>3 DEF PersistRepairApproval, Admitted, Succeed, Settles, Effect
  <1>5. CASE InvalidatePlan(c)
    <2>1. PICK i \in ActiveRows :
             /\ plans[i].plan = c.body.plan
             /\ plans' = [plans EXCEPT ![i].status = "INVALIDATED_RECALL"]
      BY <1>5 DEF InvalidatePlan
    <2>2. /\ i \in DOMAIN plans' /\ plans'[i].plan = plans[i].plan
          /\ plans'[i].status = "INVALIDATED_RECALL"
      BY <2>1, PlansDomain DEF ActiveRows, PlanRow
    <2>3. PlanIsDown(c)'
      BY <2>1, <2>2 DEF PlanIsDown
    <2> QED
      BY <1>5, <2>3 DEF InvalidatePlan, Admitted, Succeed, Settles, Effect
  <1>6. CASE ActivateMovementBarrier(c)
    <2> DEFINE row == [barrier |-> c.body.barrier, incident |-> c.inc,
                       lot |-> c.body.lot]
    <2>1. row \in barriers' /\ row.incident = c.inc /\ row.lot = c.body.lot
      BY <1>6 DEF ActivateMovementBarrier
    <2> HIDE DEF row
    <2>2. BarrierStands(c)'
      BY <2>1 DEF BarrierStands
    <2> QED
      BY <1>6, <2>2 DEF ActivateMovementBarrier, Admitted, Succeed, Settles, Effect
  <1>7. CASE SavePlanRevision(c)
    <2>1. PlanExists(c.body.plan, c.body.rev)'
      <3>1. c.body \in SavePlanRevisionPayload
        BY <1>7, PayloadTyping DEF SavePlanRevision, Admitted
      <3>2. c.body.rev = "rev07"
        BY <3>1 DEF SavePlanRevisionPayload
      <3> QED
        BY <1>7, <3>2, SaveAdds, PlansDomain DEF PlanAdded, PlanExists
    <2> QED
      BY <1>7, <2>1 DEF SavePlanRevision, Admitted, Succeed, Settles, Effect
  <1>8. CASE CreateNextDayDraft(c)
    <2>1. PlanExists(c.body.plan, "rev01")'
      BY <1>8, DraftAdds, PlansDomain DEF PlanAdded, PlanExists
    <2> QED
      BY <1>8, <2>1 DEF CreateNextDayDraft, Admitted, Succeed, Settles, Effect
  <1>9. CASE ReaffirmNextDayDraft(c)
    <2>1. PICK i \in DOMAIN plans :
             plans[i] = [plan |-> c.body.plan, rev |-> "rev01",
                         status |-> "DRAFT_WITH_CONSTRAINTS"]
      BY <1>9 DEF ReaffirmNextDayDraft, DraftIsThere
    <2>2. plans[i].plan = c.body.plan /\ plans[i].rev = "rev01" /\ plans' = plans
      BY <1>9, <2>1 DEF ReaffirmNextDayDraft, dataVars, planVars
    <2>3. PlanExists(c.body.plan, "rev01")'
      BY <2>2 DEF PlanExists
    <2> QED
      BY <1>9, <2>3 DEF ReaffirmNextDayDraft, Admitted, Succeed, Settles, Effect
  <1>10. CASE PersistRepairProposal(c)
    <2> DEFINE k == [plan |-> c.body.plan, rev |-> c.body.source,
                     type |-> "REPAIR_PROPOSAL", subject |-> c.body.proposal,
                     ref |-> c.body.vehicle, cases |-> c.body.committed,
                     hash |-> DiffHash(c.body.source, c.body.proposed, c.body.diff)]
    <2>1. /\ k \in constraints' /\ k.type = "REPAIR_PROPOSAL"
          /\ k.plan = c.body.plan /\ k.rev = c.body.source
      BY <1>10 DEF PersistRepairProposal
    <2> HIDE DEF k
    <2>2. ProposalStands(c)'
      BY <2>1 DEF ProposalStands
    <2> QED
      BY <1>10, <2>2 DEF PersistRepairProposal, Admitted, Succeed, Settles, Effect
  <1>11. CASE PersistCoordinator(c)
    <2>1. CoordinatorStands(c)'
      BY <1>11 DEF PersistCoordinator, CoordinatorStands
    <2> QED
      BY <1>11, <2>1 DEF PersistCoordinator, Admitted, Succeed, Settles, Effect
  <1>12. CASE ApplyPartnerEvidence(c)
    <2>1. PICK w \in workItems, n \in nodes :
             evidence' = evidence \cup {EvidenceOf(c, w, n, "APPLIED")}
      BY <1>12 DEF ApplyPartnerEvidence
    <2>2. /\ EvidenceOf(c, w, n, "APPLIED").event = c.body.event
          /\ EvidenceOf(c, w, n, "APPLIED").decision = "APPLIED"
      BY DEF EvidenceOf
    <2>3. EvidenceStands(c)'
      BY <2>1, <2>2 DEF EvidenceStands
    <2> QED
      BY <1>12, <2>3 DEF ApplyPartnerEvidence, Admitted, Succeed, Settles, Effect
  <1>13. CASE \/ SetIncidentStatus(c) \/ AllocateSafeStock(c)
              \/ RecordAcknowledgmentHold(c)
    <2>1. /\ ~Settled(c) /\ Succeed(c)
          /\ c.type \in {"SET_INCIDENT_STATUS", "ALLOCATE_SAFE_STOCK",
                         "RECORD_ACKNOWLEDGMENT_HOLD"}
      BY <1>13 DEF Admitted, SetIncidentStatus, AllocateSafeStock, RecordAcknowledgmentHold
    <2> QED
      BY <2>1 DEF Succeed, Settles, Effect
  <1> QED
    BY <1>1, <1>2, <1>3, <1>4, <1>5, <1>6, <1>7, <1>8, <1>9, <1>10, <1>11, <1>12, <1>13
    DEF Execute

LEMMA ReceiptsInvStep ==
    ASSUME TypeOK, ReceiptsInv, [Next]_vars
    PROVE  ReceiptsInv'
  <1>1. OrdersHaveParent /\ OrdersHaveParent'
    BY OrdersHaveParentStep DEF ReceiptsInv
  <1>2. \A c \in Commands : Effect(c) => Effect(c)'
    BY <1>1, EffectKept
  <1>3. \A x \in receipts : \E c \in Commands :
           ReceiptOf(x, c) /\ (x.status = "SUCCESS" => Effect(c)')
    BY <1>2 DEF ReceiptsInv, ReceiptsAreTrue
  <1>4. CASE receipts' = receipts
    BY <1>1, <1>3, <1>4 DEF ReceiptsInv, ReceiptsAreUnique, ReceiptsAreTrue
  <1>5. ASSUME NEW c \in Commands, Execute(c)
        PROVE  ReceiptsInv'
    <2>1. PICK status, rev :
             /\ receipts' = receipts \cup {Receipt(c, status, rev)}
             /\ status = "SUCCESS" => Effect(c)'
      BY <1>1, <1>5, TransactionSettles DEF Settles
    <2> DEFINE new == Receipt(c, status, rev)
    <2>2. new.key = c.key /\ new.status = status /\ ReceiptOf(new, c)
      BY DEF Receipt, ReceiptOf
    <2>3. \A x \in receipts : x.key # c.key
      BY <1>1, <1>5, TransactionSettles DEF Settled
    <2>4. receipts' = receipts \cup {new}
      BY <2>1
    <2> HIDE DEF new
    <2>5. ReceiptsAreUnique'
      BY <2>2, <2>3, <2>4 DEF ReceiptsInv, ReceiptsAreUnique
    <2>6. ReceiptsAreTrue'
      BY <1>3, <2>1, <2>2, <2>4 DEF ReceiptsAreTrue
    <2> QED
      BY <1>1, <2>5, <2>6 DEF ReceiptsInv
  <1> QED
    BY <1>4, <1>5 DEF Next, Tick, vars

LEMMA ReceiptsInvariant == Spec => []ReceiptsInv
  <1>1. Init => ReceiptsInv
    BY DEF Init, ReceiptsInv, OrdersHaveParent, ReceiptsAreUnique, ReceiptsAreTrue
  <1>2. TypeOK /\ ReceiptsInv /\ [Next]_vars => ReceiptsInv'
    BY ReceiptsInvStep
  <1> QED
    BY <1>1, <1>2, TypeCorrect, PTL DEF Spec

(* A receipt of success, however old and however often it is returned, tells
   what the tables hold now: the plan or draft, the repair proposal, the approval,
   the repaired orders, the invalidated plan, the barrier, the recall of the lot,
   the coordinator, the evidence that was applied. *)
THEOREM OldReceiptsAreTrue == Spec => []ReceiptsAreTrue
  BY ReceiptsInvariant, PTL DEF ReceiptsInv

(* A call that is answered with success has the receipt of its own request. *)
LEMMA AnsweredHasReceipt ==
    ASSUME TypeOK, ReceiptsInv, NEW c, Answered(c), Succeeded(c)
    PROVE  \E x \in receipts' : /\ x.key = c.key /\ x.status = "SUCCESS"
                                /\ ReceiptOf(x, c) /\ Effect(c)'
  <1>1. c \in Commands /\ [Next]_vars
    BY DEF Answered, Next
  <1>2. ReceiptsInv'
    BY <1>1, ReceiptsInvStep
  <1>3. PICK x \in receipts' : x.key = c.key /\ x.status = "SUCCESS"
    BY DEF Succeeded
  <1>4. \E y \in receipts' : y.key = c.key /\ y.fp = RequestFingerprint(c)
    <2>1. CASE Settled(c)
      BY <2>1 DEF Answered, vars
    <2>2. CASE ~Settled(c)
      <3>1. PICK status, rev : receipts' = receipts \cup {Receipt(c, status, rev)}
        BY <1>1, <2>2, TransactionSettles DEF Answered, Settles, ReceiptsInv
      <3>2. /\ Receipt(c, status, rev).key = c.key
            /\ Receipt(c, status, rev).fp = RequestFingerprint(c)
        BY DEF Receipt
      <3> QED
        BY <3>1, <3>2
    <2> QED
      BY <2>1, <2>2
  <1>5. x.fp = RequestFingerprint(c)
    BY <1>2, <1>3, <1>4 DEF ReceiptsInv, ReceiptsAreUnique
  <1>6. PICK d \in Commands : ReceiptOf(x, d) /\ Effect(d)'
    BY <1>2, <1>3 DEF ReceiptsInv, ReceiptsAreTrue
  <1>7. SameRequest(c, d)
    BY <1>1, <1>5, <1>6, FingerprintTells, EvidenceFingerprintTells
    DEF ReceiptOf, SameRequest
  <1>8. Effect(c)'
    BY <1>1, <1>6, <1>7, EffectOfRequest
    DEF SameRequest, Effect, ApprovalStands, RepairStands, PlanIsDown, BarrierStands,
        RecallIsOfLot, PlanExists, ProposalStands, CoordinatorStands, EvidenceStands
  <1> QED
    BY <1>3, <1>5, <1>6, <1>7, <1>8 DEF ReceiptOf, SameRequest

(* It has taken effect, in its own transaction or in an earlier one. *)
LEMMA AnsweredTellsTheTruth ==
    ASSUME TypeOK, ReceiptsInv, NEW c, Answered(c), Succeeded(c)
    PROVE  Effect(c)'
  BY AnsweredHasReceipt

-----------------------------------------------------------------------------
(* Sums of cases.  The library's induction over finite sets takes an operator  *)
(* as its parameter; what follows takes a smallest counterexample instead.     *)

LEMMA SmallestSet ==
    ASSUME NEW S, IsFiniteSet(S), NEW Bad \in SUBSET SUBSET S, Bad # {}
    PROVE  \E T \in Bad : \A U \in Bad : U \subseteq T => U = T
  <1>1. IsWellFoundedOn(StrictSubsetOrdering(S), SUBSET S)
    BY FS_StrictSubsetOrderingWellFounded, FS_FiniteSubsetsOfFinite
  <1>2. PICK T \in Bad : \A U \in Bad : ~ (<<U, T>> \in StrictSubsetOrdering(S))
    BY <1>1, WFMin
  <1>3. \A U \in Bad : U \subseteq T => U = T
    BY <1>2 DEF StrictSubsetOrdering
  <1> QED
    BY <1>3

(* The function that the fold over the subsets of S is. *)
Picked(T) == CHOOSE x \in T : TRUE
Sums(A, S) ==
    A = [T \in SUBSET S |->
           IF T = {} THEN 0 ELSE Picked(T).cases + A[T \ {Picked(T)}]]

LEMMA SumsAt ==
    ASSUME NEW S, NEW A, Sums(A, S), NEW T \in SUBSET S
    PROVE  /\ T = {} => A[T] = 0
           /\ T # {} => /\ Picked(T) \in T /\ T \ {Picked(T)} \in SUBSET S
                        /\ A[T] = Picked(T).cases + A[T \ {Picked(T)}]
  <1>1. A[T] = IF T = {} THEN 0 ELSE Picked(T).cases + A[T \ {Picked(T)}]
    BY DEF Sums
  <1>2. T # {} => Picked(T) \in T
    BY DEF Picked
  <1> QED
    BY <1>1, <1>2

LEMMA SumsAgree ==
    ASSUME NEW S, IsFiniteSet(S), NEW A, NEW B, NEW T \in SUBSET S, NEW U \in SUBSET S,
           Sums(A, T), Sums(B, U), NEW V \in SUBSET (T \cap U)
    PROVE  A[V] = B[V]
  <1> DEFINE Bad == {W \in SUBSET (T \cap U) : A[W] # B[W]}
  <1> SUFFICES ASSUME Bad # {}
               PROVE  FALSE
    OBVIOUS
  <1>1. IsFiniteSet(T \cap U)
    BY FS_Subset
  <1>0. Bad \in SUBSET SUBSET (T \cap U)
    OBVIOUS
  <1> HIDE DEF Bad
  <1>2. PICK W \in Bad : \A X \in Bad : X \subseteq W => X = W
    BY <1>0, <1>1, SmallestSet
  <1>3. W \in SUBSET T /\ W \in SUBSET U /\ A[W] # B[W]
    BY DEF Bad
  <1>4. W # {}
    BY <1>3, SumsAt
  <1>5. /\ Picked(W) \in W
        /\ A[W] = Picked(W).cases + A[W \ {Picked(W)}]
        /\ B[W] = Picked(W).cases + B[W \ {Picked(W)}]
    BY <1>3, <1>4, SumsAt
  <1>6. W \ {Picked(W)} \notin Bad
    BY <1>2, <1>5
  <1>7. W \ {Picked(W)} \in SUBSET (T \cap U)
    BY <1>3
  <1> QED
    BY <1>3, <1>5, <1>6, <1>7 DEF Bad

LEMMA SumsExist ==
    ASSUME NEW S, IsFiniteSet(S)
    PROVE  \E A : Sums(A, S)
  <1> DEFINE Bad == {T \in SUBSET S : ~ \E A : Sums(A, T)}
  <1> SUFFICES ASSUME Bad # {}
               PROVE  FALSE
    OBVIOUS
  <1>0. Bad \in SUBSET SUBSET S
    OBVIOUS
  <1> HIDE DEF Bad
  <1>1. PICK T \in Bad : \A U \in Bad : U \subseteq T => U = T
    BY <1>0, SmallestSet
  <1> DEFINE Of(U) == CHOOSE A : Sums(A, U)
             Rest(U) == U \ {Picked(U)}
             G == [U \in SUBSET T |->
                     IF U = {} THEN 0 ELSE Picked(U).cases + Of(Rest(U))[Rest(U)]]
  <1>2. \A U \in SUBSET T : U # T => Sums(Of(U), U)
    BY <1>0, <1>1 DEF Bad
  <1>3. \A U \in SUBSET T : U # {} => Rest(U) \in SUBSET T /\ Rest(U) # T /\ Rest(U) # U
    BY DEF Picked
  <1>4. T \in SUBSET S
    BY <1>0
  <1>5. \A U \in SUBSET T : G[U] = IF U = {} THEN 0
                                   ELSE Picked(U).cases + Of(Rest(U))[Rest(U)]
    OBVIOUS
  <1> HIDE DEF Of, Rest, G
  <1>6. ASSUME NEW V \in SUBSET T, V # T
        PROVE  Of(V)[V] = G[V]
    <2>1. CASE V = {}
      BY <1>2, <1>5, <1>6, <2>1, SumsAt
    <2>2. CASE V # {}
      <3>1. Sums(Of(V), V)
        BY <1>2, <1>6
      <3>2. Of(V)[V] = Picked(V).cases + Of(V)[Rest(V)]
        BY <2>2, <3>1, SumsAt DEF Rest
      <3>3. Rest(V) \in SUBSET T /\ Rest(V) # T /\ Rest(V) \in SUBSET V
        BY <1>3, <2>2 DEF Rest
      <3>4. Sums(Of(Rest(V)), Rest(V))
        BY <1>2, <3>3
      <3>5. Of(V)[Rest(V)] = Of(Rest(V))[Rest(V)]
        <4>1. V \in SUBSET S /\ Rest(V) \in SUBSET S /\ Rest(V) \in SUBSET (V \cap Rest(V))
          BY <1>4, <3>3
        <4> QED
          BY <3>1, <3>4, <4>1, SumsAgree
      <3> QED
        BY <1>5, <2>2, <3>2, <3>5
    <2> QED
      BY <2>1, <2>2
  <1>7. G = [U \in SUBSET T |-> IF U = {} THEN 0 ELSE Picked(U).cases + G[Rest(U)]]
    <2>1. \A U \in SUBSET T :
            G[U] = IF U = {} THEN 0 ELSE Picked(U).cases + G[Rest(U)]
      BY <1>3, <1>5, <1>6
    <2>2. G = [U \in SUBSET T |-> G[U]]
      BY DEF G
    <2> QED
      BY <2>1, <2>2
  <1>8. Sums(G, T)
    BY <1>7 DEF Sums, Rest
  <1> QED
    BY <1>1, <1>8 DEF Bad

Countable(rows) == IsFiniteSet(rows) /\ \A x \in rows : x.cases \in Nat

LEMMA CasesInIs ==
    ASSUME NEW S, IsFiniteSet(S)
    PROVE  \E A : Sums(A, S) /\ \A T \in SUBSET S : CasesIn(T) = A[T]
  <1>1. PICK A : Sums(A, S)
    BY SumsExist
  <1>2. ASSUME NEW T \in SUBSET S
        PROVE  CasesIn(T) = A[T]
    <2> DEFINE B == CHOOSE B : Sums(B, T)
    <2>1. CasesIn(T) = B[T]
      BY DEF CasesIn, MapThenSumSet, MapThenFoldSet, Sums, Picked
    <2>2. IsFiniteSet(T)
      BY FS_Subset
    <2>3. Sums(B, T)
      BY <2>2, SumsExist
    <2>4. A[T] = B[T]
      BY <1>1, <2>3, SumsAgree
    <2> QED
      BY <2>1, <2>4
  <1> QED
    BY <1>1, <1>2

LEMMA CasesInOnePicked ==
    ASSUME NEW S, IsFiniteSet(S)
    PROVE  /\ S = {} => CasesIn(S) = 0
           /\ S # {} => /\ Picked(S) \in S
                        /\ CasesIn(S) = Picked(S).cases + CasesIn(S \ {Picked(S)})
  <1>1. PICK A : Sums(A, S) /\ \A T \in SUBSET S : CasesIn(T) = A[T]
    BY CasesInIs
  <1> QED
    BY <1>1, SumsAt

(* A sum of cases is a number, nothing for no rows, and one term more for one
   row more. *)
LEMMA CasesInNat ==
    ASSUME NEW S, Countable(S)
    PROVE  CasesIn(S) \in Nat
  <1> DEFINE Bad == {T \in SUBSET S : CasesIn(T) \notin Nat}
  <1> SUFFICES ASSUME Bad # {}
               PROVE  FALSE
    OBVIOUS
  <1>0. Bad \in SUBSET SUBSET S
    OBVIOUS
  <1> HIDE DEF Bad
  <1>1. PICK T \in Bad : \A U \in Bad : U \subseteq T => U = T
    BY <1>0, SmallestSet DEF Countable
  <1>2. IsFiniteSet(T) /\ T \subseteq S /\ CasesIn(T) \notin Nat
    BY <1>0, FS_Subset DEF Countable, Bad
  <1>3. T # {}
    <2>1. T = {} => CasesIn(T) = 0
      BY <1>2, CasesInOnePicked
    <2> QED
      BY <1>2, <2>1
  <1>4. Picked(T) \in T /\ CasesIn(T) = Picked(T).cases + CasesIn(T \ {Picked(T)})
    BY <1>2, <1>3, CasesInOnePicked
  <1>5. T \ {Picked(T)} \notin Bad /\ T \ {Picked(T)} \in SUBSET S
    BY <1>1, <1>2, <1>4
  <1>6. Picked(T).cases \in Nat /\ CasesIn(T \ {Picked(T)}) \in Nat
    BY <1>2, <1>4, <1>5 DEF Countable, Bad
  <1> QED
    BY <1>2, <1>4, <1>6

LEMMA CasesInWithout ==
    ASSUME NEW S, Countable(S), NEW x \in S
    PROVE  CasesIn(S) = x.cases + CasesIn(S \ {x})
  <1> DEFINE Bad == {T \in SUBSET S :
                       \E y \in T : CasesIn(T) # y.cases + CasesIn(T \ {y})}
  <1> SUFFICES ASSUME Bad # {}
               PROVE  FALSE
    OBVIOUS
  <1>0. Bad \in SUBSET SUBSET S
    OBVIOUS
  <1> HIDE DEF Bad
  <1>1. PICK T \in Bad : \A U \in Bad : U \subseteq T => U = T
    BY <1>0, SmallestSet DEF Countable
  <1>2. PICK y \in T : CasesIn(T) # y.cases + CasesIn(T \ {y})
    BY <1>1 DEF Bad
  <1>3. IsFiniteSet(T) /\ T \subseteq S /\ T # {}
    BY <1>0, <1>2, FS_Subset DEF Countable
  <1>4. PICK p : p = Picked(T)
    OBVIOUS
  <1>5. p \in T /\ CasesIn(T) = p.cases + CasesIn(T \ {p})
    BY <1>3, <1>4, CasesInOnePicked
  <1>6. p # y
    BY <1>2, <1>5
  <1>7. CasesIn(T \ {p}) = y.cases + CasesIn((T \ {p}) \ {y})
    BY <1>1, <1>3, <1>5, <1>6 DEF Bad
  <1>8. CasesIn(T \ {y}) = p.cases + CasesIn((T \ {y}) \ {p})
    BY <1>1, <1>2, <1>3, <1>5, <1>6 DEF Bad
  <1>9. (T \ {p}) \ {y} = (T \ {y}) \ {p}
    OBVIOUS
  <1>10. CasesIn((T \ {p}) \ {y}) \in Nat /\ p.cases \in Nat /\ y.cases \in Nat
    <2>1. Countable((T \ {p}) \ {y})
      BY <1>3, FS_Subset DEF Countable
    <2> QED
      BY <1>2, <1>3, <1>5, <2>1, CasesInNat DEF Countable
  <1>11. CasesIn(T) = p.cases + (y.cases + CasesIn((T \ {p}) \ {y}))
    BY <1>5, <1>7
  <1>12. y.cases + CasesIn(T \ {y}) = y.cases + (p.cases + CasesIn((T \ {p}) \ {y}))
    BY <1>8, <1>9
  <1> QED
    BY <1>2, <1>10, <1>11, <1>12

LEMMA CasesInWith ==
    ASSUME NEW S, Countable(S), NEW x, x.cases \in Nat
    PROVE  /\ Countable(S \cup {x}) /\ CasesIn(S) \in Nat
           /\ x \notin S => CasesIn(S \cup {x}) = CasesIn(S) + x.cases
           /\ CasesIn(S \cup {x}) <= CasesIn(S) + x.cases
  <1>1. Countable(S \cup {x}) /\ CasesIn(S) \in Nat
    BY FS_AddElement, CasesInNat DEF Countable
  <1>2. CASE x \in S
    <2>1. S \cup {x} = S
      BY <1>2
    <2>2. CasesIn(S \cup {x}) = CasesIn(S)
      BY <2>1
    <2> QED
      BY <1>1, <1>2, <2>2
  <1>3. CASE x \notin S
    <2>1. (S \cup {x}) \ {x} = S /\ x \in S \cup {x}
      BY <1>3
    <2>2. CasesIn(S \cup {x}) = x.cases + CasesIn(S)
      BY <1>1, <2>1, CasesInWithout
    <2> QED
      BY <1>1, <1>3, <2>2
  <1> QED
    BY <1>1, <1>2, <1>3

LEMMA CasesInNothing == CasesIn({}) = 0 /\ Countable({})
  BY FS_EmptySet, CasesInOnePicked DEF Countable

(* Two sets of rows that share none. *)
LEMMA CasesInBoth ==
    ASSUME NEW S, NEW T, Countable(S), Countable(T), S \cap T = {}
    PROVE  Countable(S \cup T) /\ CasesIn(S \cup T) = CasesIn(S) + CasesIn(T)
  <1> DEFINE Adds(U) == /\ Countable(S \cup U)
                        /\ CasesIn(S \cup U) = CasesIn(S) + CasesIn(U)
             Bad == {U \in SUBSET T : ~Adds(U)}
  <1> HIDE DEF Adds
  <1>1. CASE Bad = {}
    <2>1. Adds(T)
      BY <1>1
    <2> QED
      BY <2>1 DEF Adds
  <1>2. ASSUME Bad # {}
        PROVE  FALSE
    <2>1. Bad \in SUBSET SUBSET T
      OBVIOUS
    <2> HIDE DEF Bad
    <2>2. PICK U \in Bad : \A V \in Bad : V \subseteq U => V = U
      BY <1>2, <2>1, SmallestSet DEF Countable
    <2>3. U \subseteq T
      BY <2>1
    <2>4. CasesIn(S) \in Nat
      BY CasesInNat
    <2>5. CASE U = {}
      <3>1. S \cup U = S /\ CasesIn(U) = 0
        BY <2>5, CasesInNothing
      <3> QED
        <4>1. Countable(S \cup U) /\ CasesIn(S \cup U) = CasesIn(S)
          BY <3>1
        <4>2. Adds(U)
          BY <2>4, <3>1, <4>1 DEF Adds
        <4> QED
          BY <2>2, <4>2 DEF Bad
    <2>6. ASSUME NEW x \in U
          PROVE  FALSE
      <3> DEFINE V == U \ {x}
      <3>1. V \notin Bad /\ V \subseteq T
        BY <2>2, <2>3
      <3>2. Countable(S \cup V) /\ CasesIn(S \cup V) = CasesIn(S) + CasesIn(V)
        BY <3>1 DEF Adds, Bad
      <3>3. Countable(V) /\ x.cases \in Nat /\ x \notin S \cup V /\ x \notin V
        BY <2>3, <3>1, FS_Subset DEF Countable
      <3>4. /\ CasesIn(V \cup {x}) = CasesIn(V) + x.cases /\ CasesIn(V) \in Nat
            /\ Countable((S \cup V) \cup {x})
            /\ CasesIn((S \cup V) \cup {x}) = CasesIn(S \cup V) + x.cases
        BY <3>2, <3>3, CasesInWith
      <3>5. V \cup {x} = U /\ (S \cup V) \cup {x} = S \cup U
        OBVIOUS
      <3> HIDE DEF V
      <3> QED
        <4>1. /\ CasesIn(U) = CasesIn(V) + x.cases
              /\ Countable(S \cup U)
              /\ CasesIn(S \cup U) = CasesIn(S \cup V) + x.cases
          BY <3>4, <3>5
        <4>2. Adds(U)
          BY <2>4, <3>2, <3>3, <3>4, <4>1 DEF Adds
        <4> QED
          BY <2>2, <4>2 DEF Bad
    <2> QED
      BY <2>5, <2>6
  <1> QED
    BY <1>1, <1>2

(* A set of numbers that is not empty has a least one. *)
LEMMA LeastOf ==
    ASSUME NEW T \in SUBSET Nat, T # {}
    PROVE  \E m \in T : \A n \in T : m <= n
  <1> DEFINE R == {ss \in Nat \X Nat : ss[1] < ss[2]}
  <1>1. IsWellFoundedOn(R, Nat)
    BY NatLessThanWellFounded DEF OpToRel
  <1>2. \A x, y \in Nat : y < x => <<y, x>> \in R
    OBVIOUS
  <1> HIDE DEF R
  <1>3. PICK m \in T : \A n \in T : ~ (<<n, m>> \in R)
    BY <1>1, WFMin
  <1>4. ASSUME NEW n \in T
        PROVE  m <= n
    <2>1. m \in Nat /\ n \in Nat /\ ~(n < m)
      BY <1>2, <1>3
    <2> QED
      BY <2>1
  <1> QED
    BY <1>4

-----------------------------------------------------------------------------
(* Where the orders of a revision come from *)

LEMMA OrdersAreKeyedInvariant == Spec => []OrdersAreKeyed
  <1>1. Init => OrdersAreKeyed
    BY DEF Init, OrdersAreKeyed
  <1>2. TypeOK /\ OrdersHaveParent /\ OrdersAreKeyed /\ [Next]_vars => OrdersAreKeyed'
    BY OrdersAreKeyedStep
  <1> QED
    BY <1>1, <1>2, TypeCorrect, OrdersHaveParentInvariant, PTL DEF Spec

(* The drafts are the revisions rev01. *)
DraftsAreRev01 ==
    \A i \in DOMAIN plans :
        (plans[i].status = "DRAFT_WITH_CONSTRAINTS") <=> (plans[i].rev = "rev01")

LEMMA DraftsAreRev01Step ==
    ASSUME NoRepairIsADraft, TypeOK, DraftsAreRev01, [Next]_vars
    PROVE  DraftsAreRev01'
  <1>1. CASE plans' = plans
    BY <1>1 DEF DraftsAreRev01
  <1>2. ASSUME NEW row, PlanAdded(row),
               (row.status = "DRAFT_WITH_CONSTRAINTS") <=> (row.rev = "rev01")
        PROVE  DraftsAreRev01'
    <2>1. \A i \in DOMAIN plans' :
             (i \in DOMAIN plans /\ plans'[i] = plans[i]) \/ plans'[i] = row
      BY <1>2, PlansDomain DEF PlanAdded
    <2> QED
      BY <1>2, <2>1 DEF DraftsAreRev01
  <1>3. ASSUME NEW i, NEW row, PlanReplaced(i, row), row.rev # "rev01"
        PROVE  DraftsAreRev01'
    <2>1. i \in DOMAIN plans /\ plans[i].status = "ACTIVE" /\ row.status = "ACTIVE"
      BY <1>3 DEF PlanReplaced, ActiveRows
    <2>2. ASSUME NEW j \in DOMAIN plans'
          PROVE  \/ j \in DOMAIN plans /\ plans'[j] = plans[j]
                 \/ plans'[j] = row
                 \/ plans'[j].rev = plans[i].rev /\ plans'[j].status = "SUPERSEDED"
      BY <1>3, <2>1, PlansDomain DEF PlanReplaced, PlanRow
    <2>3. plans[i].rev # "rev01"
      BY <2>1 DEF DraftsAreRev01
    <2> QED
      BY <1>3, <2>1, <2>2, <2>3 DEF DraftsAreRev01
  <1>4. ASSUME NEW i, PlanRecalled(i)
        PROVE  DraftsAreRev01'
    <2>1. i \in DOMAIN plans /\ plans[i].status = "ACTIVE"
      BY <1>4 DEF PlanRecalled, ActiveRows
    <2>2. ASSUME NEW j \in DOMAIN plans'
          PROVE  \/ j \in DOMAIN plans /\ plans'[j] = plans[j]
                 \/ /\ plans'[j].rev = plans[i].rev
                    /\ plans'[j].status = "INVALIDATED_RECALL"
      BY <1>4, <2>1, PlansDomain DEF PlanRecalled, PlanRow
    <2>3. plans[i].rev # "rev01"
      BY <2>1 DEF DraftsAreRev01
    <2> QED
      BY <2>2, <2>3 DEF DraftsAreRev01
  <1> QED
    BY <1>1, <1>2, <1>3, <1>4, PlansStep DEF NoRepairIsADraft

(* The orders of today's revisions come from a plan that was saved; a repair
   changes neither their ids nor their agencies. *)
SavedOrder(o) ==
    \E c \in {d \in Commands : d.type = "SAVE_PLAN_REVISION"} : \E x \in c.body.orders :
        x.order = o.line.order /\ x.agency = o.line.agency
OrdersAreSaved == \A o \in orders : o.rev # "rev01" => SavedOrder(o)

LEMMA OrdersAreSavedStep ==
    ASSUME TypeOK, DraftsAreRev01, OrdersAreSaved, [Next]_vars
    PROVE  OrdersAreSaved'
  <1>1. CASE orders' = orders
    BY <1>1 DEF OrdersAreSaved, SavedOrder
  <1>2. ASSUME NEW p, NEW r, NEW lines, orders' = orders \cup NewLines(p, r, lines),
               \A o \in NewLines(p, r, lines) : o.rev # "rev01" => SavedOrder(o)
        PROVE  OrdersAreSaved'
    <2>1. \A o \in orders' : o.rev # "rev01" => SavedOrder(o)
      BY <1>2 DEF OrdersAreSaved
    <2> QED
      BY <2>1 DEF OrdersAreSaved, SavedOrder
  <1>3. ASSUME NEW p, NEW r, NEW lines, NEW o \in NewLines(p, r, lines)
        PROVE  o.rev = r /\ o.line \in lines
    BY <1>3 DEF NewLines
  <1>4. ASSUME NEW c \in Commands, SavePlanRevision(c)
        PROVE  OrdersAreSaved'
    <2>1. /\ orders' = orders \cup NewLines(c.body.plan, c.body.rev, c.body.orders)
          /\ c.type = "SAVE_PLAN_REVISION"
      BY <1>4 DEF SavePlanRevision, Admitted
    <2>2. \A o \in NewLines(c.body.plan, c.body.rev, c.body.orders) : SavedOrder(o)
      BY <1>3, <2>1 DEF SavedOrder
    <2> QED
      BY <1>2, <2>1, <2>2
  <1>5. ASSUME NEW c \in Commands, CreateNextDayDraft(c)
        PROVE  OrdersAreSaved'
    <2>1. orders' = orders \cup NewLines(c.body.plan, "rev01", CandidateLines(c.body))
      BY <1>5 DEF CreateNextDayDraft
    <2> QED
      BY <1>2, <1>3, <2>1
  <1>6. ASSUME NEW c \in Commands, ActivateApprovedRepairPlan(c)
        PROVE  OrdersAreSaved'
    <2> DEFINE source == Lines(c.body.plan, c.body.source)
    <2>1. PICK a \in approvals, i \in ActiveRows :
            /\ plans[i].rev = c.body.source
            /\ orders' = orders \cup NewLines(c.body.plan, c.body.proposed,
                                              Repaired(source, a.diff))
      BY <1>6 DEF ActivateApprovedRepairPlan
    <2>2. c.body.source # "rev01"
      BY <2>1 DEF ActiveRows, DraftsAreRev01
    <2>3. ASSUME NEW l \in Repaired(source, a.diff)
          PROVE  \E o \in orders : /\ o.rev # "rev01" /\ o.line.order = l.order
                                   /\ o.line.agency = l.agency
      <3>1. PICK k \in source : l = RepairedLine(k, a.diff)
        BY DEF Repaired
      <3>2. PICK o \in orders : o.rev = c.body.source /\ o.line = k
        BY DEF Lines
      <3>3. k \in OrderLine
        BY <3>2 DEF TypeOK, OrderRow
      <3>4. l.order = k.order /\ l.agency = k.agency
        BY <3>1, <3>3 DEF RepairedLine, OrderLine
      <3> QED
        BY <2>2, <3>2, <3>4
    <2> HIDE DEF source
    <2>4. ASSUME NEW o \in NewLines(c.body.plan, c.body.proposed,
                                    Repaired(source, a.diff))
          PROVE  SavedOrder(o)
      <3>1. PICK z \in orders : /\ z.rev # "rev01" /\ z.line.order = o.line.order
                                /\ z.line.agency = o.line.agency
        BY <1>3, <2>3
      <3> QED
        BY <3>1 DEF OrdersAreSaved, SavedOrder
    <2> QED
      BY <1>2, <2>1, <2>4
  <1>7. ASSUME NEW c \in Commands, Execute(c),
               ~SavePlanRevision(c), ~CreateNextDayDraft(c),
               ~ActivateApprovedRepairPlan(c)
        PROVE  orders' = orders
    BY <1>7
    DEF Execute, DenyRole, DenyStaleRevision, RecordRefusal,
        PersistRepairProposal, PersistRepairApproval, PersistCoordinator,
        InvalidatePlan, OpenRecallIncident, SetIncidentStatus,
        ActivateMovementBarrier, AllocateSafeStock, RecordAcknowledgmentHold,
        ApplyPartnerEvidence, DenyPartnerEvidence, ReaffirmNextDayDraft,
        dataVars, planVars
  <1>8. Tick \/ UNCHANGED vars => orders' = orders
    BY DEF Tick, vars, planVars
  <1> QED
    BY <1>1, <1>4, <1>5, <1>6, <1>7, <1>8 DEF Next

LEMMA SavedOrdersInvariant ==
    ASSUME NoRepairIsADraft
    PROVE  Spec => [](DraftsAreRev01 /\ OrdersAreSaved)
  <1>1. Init => DraftsAreRev01 /\ OrdersAreSaved
    BY DEF Init, DraftsAreRev01, OrdersAreSaved
  <1>2. TypeOK /\ DraftsAreRev01 /\ OrdersAreSaved /\ [Next]_vars
        => (DraftsAreRev01 /\ OrdersAreSaved)'
    BY DraftsAreRev01Step, OrdersAreSavedStep
  <1> QED
    BY <1>1, <1>2, TypeCorrect, PTL DEF Spec

-----------------------------------------------------------------------------
(* What a repair reroutes fits beside what its vehicle carries. *)

(* The vehicles have distinct ids, and carry no more than they can. *)
VehiclesInv ==
    /\ \A v, w \in vehicles : v.vehicle = w.vehicle => v = w
    /\ \A v \in vehicles : v.load <= v.capacity

(* A revision has one rerouted order at most, that order fits on its vehicle, and
   a morning plan has none. *)
Rerouted(o) == o.line.status = "REROUTED"
HasRoom(l, vs) ==
    \E v \in vs : v.vehicle = l.vehicle /\ v.load + l.cases <= v.capacity
ReroutedInv ==
    \A o \in orders : Rerouted(o) =>
        /\ o.rev # "rev07"
        /\ \A x \in orders : x.plan = o.plan /\ x.rev = o.rev /\ Rerouted(x) => x = o
        /\ HasRoom(o.line, vehicles)

LEMMA WhoInsertsVehicles ==
    ASSUME [Next]_vars
    PROVE  vehicles' = vehicles \/ \E c \in Commands : SavePlanRevision(c)
  <1>1. ASSUME NEW c \in Commands, Execute(c), ~SavePlanRevision(c)
        PROVE  vehicles' = vehicles
    BY <1>1
    DEF Execute, DenyRole, DenyStaleRevision, RecordRefusal,
        PersistRepairProposal, PersistRepairApproval,
        ActivateApprovedRepairPlan, InvalidatePlan, PersistCoordinator,
        OpenRecallIncident, SetIncidentStatus, ActivateMovementBarrier,
        AllocateSafeStock, RecordAcknowledgmentHold, ApplyPartnerEvidence,
        DenyPartnerEvidence, CreateNextDayDraft, ReaffirmNextDayDraft,
        dataVars, stockVars
  <1> QED
    BY <1>1 DEF Next, Tick, vars, stockVars

LEMMA WhoInsertsOrders ==
    ASSUME [Next]_vars
    PROVE  \/ orders' = orders
           \/ \E c \in Commands : \/ SavePlanRevision(c) \/ CreateNextDayDraft(c)
                                  \/ ActivateApprovedRepairPlan(c)
  <1>1. ASSUME NEW c \in Commands, Execute(c),
               ~SavePlanRevision(c), ~CreateNextDayDraft(c),
               ~ActivateApprovedRepairPlan(c)
        PROVE  orders' = orders
    BY <1>1
    DEF Execute, DenyRole, DenyStaleRevision, RecordRefusal,
        PersistRepairProposal, PersistRepairApproval, PersistCoordinator,
        InvalidatePlan, OpenRecallIncident, SetIncidentStatus,
        ActivateMovementBarrier, AllocateSafeStock, RecordAcknowledgmentHold,
        ApplyPartnerEvidence, DenyPartnerEvidence, ReaffirmNextDayDraft,
        dataVars, planVars
  <1> QED
    BY <1>1 DEF Next, Tick, vars, planVars

LEMMA VehiclesInvStep ==
    ASSUME VehiclesInv, [Next]_vars
    PROVE  VehiclesInv' /\ vehicles \subseteq vehicles'
  <1>1. CASE vehicles' = vehicles
    BY <1>1 DEF VehiclesInv
  <1>2. ASSUME NEW c \in Commands, SavePlanRevision(c)
        PROVE  VehiclesInv' /\ vehicles \subseteq vehicles'
    <2> DEFINE new == c.body.vehicles
    <2>1. /\ vehicles' = vehicles \cup new
          /\ \A v, w \in new : v.vehicle = w.vehicle => v = w
          /\ \A v \in new, w \in vehicles : v.vehicle # w.vehicle
          /\ \A v \in new : v.load <= v.capacity
      BY <1>2 DEF SavePlanRevision, SaveOk, Insertable, SavedPlanIsCoherent
    <2> HIDE DEF new
    <2> QED
      BY <2>1 DEF VehiclesInv
  <1> QED
    BY <1>1, <1>2, WhoInsertsVehicles

LEMMA VehiclesInvariant == Spec => []VehiclesInv
  <1>1. Init => VehiclesInv
    BY DEF Init, VehiclesInv
  <1>2. VehiclesInv /\ [Next]_vars => VehiclesInv'
    BY VehiclesInvStep
  <1> QED
    BY <1>1, <1>2, PTL DEF Spec

(* New lines of which one is rerouted, and fits, or none. *)
LEMMA ReroutedWhenInserted ==
    ASSUME ReroutedInv, OrdersHaveParent, vehicles \subseteq vehicles',
           NEW p, NEW r, NEW lines, ~PlanExists(p, r),
           orders' = orders \cup NewLines(p, r, lines),
           \A l \in lines : l.status = "REROUTED" =>
               /\ r # "rev07"
               /\ \A m \in lines : m.status = "REROUTED" => m = l
               /\ HasRoom(l, vehicles)
    PROVE  ReroutedInv'
  <1>1. \A o \in orders : ~(o.plan = p /\ o.rev = r)
    BY DEF OrdersHaveParent
  <1>2. \A o \in NewLines(p, r, lines) :
           /\ o.plan = p /\ o.rev = r /\ o.line \in lines
           /\ o = [plan |-> p, rev |-> r, line |-> o.line]
    BY DEF NewLines
  <1>3. ASSUME NEW o \in orders', o.line.status = "REROUTED"
        PROVE  /\ o.rev # "rev07"
               /\ \A x \in orders' :
                     x.plan = o.plan /\ x.rev = o.rev /\ x.line.status = "REROUTED" => x = o
               /\ HasRoom(o.line, vehicles')
    <2>0. HasRoom(o.line, vehicles) => HasRoom(o.line, vehicles')
      BY DEF HasRoom
    <2>1. CASE o \in orders
      <3>1. /\ o.rev # "rev07"
            /\ \A x \in orders :
                  x.plan = o.plan /\ x.rev = o.rev /\ x.line.status = "REROUTED" => x = o
            /\ HasRoom(o.line, vehicles)
        BY <1>3, <2>1 DEF ReroutedInv, Rerouted
      <3>2. ~(o.plan = p /\ o.rev = r)
        BY <1>1, <2>1
      <3>3. \A x \in orders' : x.plan = o.plan /\ x.rev = o.rev => x \in orders
        BY <1>2, <3>2
      <3>4. HasRoom(o.line, vehicles')
        BY <2>0, <3>1
      <3> QED
        BY <3>1, <3>3, <3>4
    <2>2. CASE o \in NewLines(p, r, lines)
      <3>1. /\ o.plan = p /\ o.rev = r /\ o.line \in lines
            /\ o = [plan |-> p, rev |-> r, line |-> o.line]
        BY <1>2, <2>2
      <3>2. /\ r # "rev07"
            /\ \A m \in lines : m.status = "REROUTED" => m = o.line
            /\ HasRoom(o.line, vehicles)
        BY <1>3, <3>1
      <3>3. ASSUME NEW x \in orders', x.plan = o.plan, x.rev = o.rev,
                   x.line.status = "REROUTED"
            PROVE  x = o
        <4>1. x \in NewLines(p, r, lines)
          BY <1>1, <3>1, <3>3
        <4>2. x.line \in lines /\ x = [plan |-> p, rev |-> r, line |-> x.line]
          BY <1>2, <4>1
        <4>3. x.line = o.line
          BY <3>2, <3>3, <4>2
        <4> QED
          BY <3>1, <4>2, <4>3
      <3>4. HasRoom(o.line, vehicles')
        BY <2>0, <3>2
      <3> QED
        BY <3>1, <3>2, <3>3, <3>4
    <2> QED
      BY <2>1, <2>2
  <1> QED
    BY <1>3 DEF ReroutedInv, Rerouted

LEMMA RepairReroutesOne ==
    ASSUME TypeOK, OrdersAreKeyed, ReroutedInv, NEW p, NEW diff,
           RepairFits(diff, Lines(p, "rev07")),
           NEW l \in Repaired(Lines(p, "rev07"), diff), l.status = "REROUTED"
    PROVE  /\ \A m \in Repaired(Lines(p, "rev07"), diff) : m.status = "REROUTED" => m = l
           /\ HasRoom(l, vehicles)
  <1> DEFINE source == Lines(p, "rev07")
  <1>1. LinesKeyed(source) /\ source \subseteq OrderLine
    BY LinesOfKeyed
  <1>2. \A m \in source : m.status # "REROUTED"
    BY DEF Lines, ReroutedInv, Rerouted
  <1>3. ASSUME NEW m \in Repaired(source, diff), m.status = "REROUTED"
        PROVE  \E k \in source : /\ k.order = diff.rerouteOrder
                                 /\ m = RepairedLine(k, diff)
                                 /\ m.vehicle = diff.rerouteTarget
                                 /\ m.cases = diff.rerouteCases
    <2>1. PICK k \in source : m = RepairedLine(k, diff)
      BY <1>3 DEF Repaired
    <2>2. k.order = diff.rerouteOrder => k.cases = diff.rerouteCases
      BY DEF RepairFits
    <2>3. k \in OrderLine /\ k.status # "REROUTED"
      BY <1>1, <1>2
    <2> HIDE DEF source
    <2> QED
      BY <1>3, <2>1, <2>2, <2>3 DEF RepairedLine, OrderLine
  <1>4. PICK k \in source : /\ k.order = diff.rerouteOrder
                            /\ l = RepairedLine(k, diff)
                            /\ l.vehicle = diff.rerouteTarget
                            /\ l.cases = diff.rerouteCases
    BY <1>3
  <1>5. \E v \in vehicles : /\ v.vehicle = diff.rerouteTarget
                            /\ v.load + diff.rerouteCases <= v.capacity
    BY DEF RepairFits
  <1>7. HasRoom(l, vehicles)
    BY <1>4, <1>5 DEF HasRoom
  <1>6. ASSUME NEW m \in Repaired(source, diff), m.status = "REROUTED"
        PROVE  m = l
    <2>1. PICK j \in source : j.order = diff.rerouteOrder /\ m = RepairedLine(j, diff)
      BY <1>3, <1>6
    <2>2. j = k
      BY <1>1, <1>4, <2>1 DEF LinesKeyed
    <2> QED
      BY <1>4, <2>1, <2>2
  <1> QED
    BY <1>6, <1>7

LEMMA ReroutedInvStep ==
    ASSUME MorningPlansAreRepairedOnce, TypeOK, OrdersHaveParent, OrdersAreKeyed,
           VehiclesInv, ReroutedInv, [Next]_vars
    PROVE  ReroutedInv'
  <1>0. vehicles \subseteq vehicles'
    BY VehiclesInvStep
  <1>1. CASE orders' = orders
    <2>1. ASSUME NEW o \in orders, HasRoom(o.line, vehicles)
          PROVE  HasRoom(o.line, vehicles')
      BY <1>0, <2>1 DEF HasRoom
    <2> QED
      BY <1>1, <2>1 DEF ReroutedInv, Rerouted
  <1>2. ASSUME NEW c \in Commands, SavePlanRevision(c)
        PROVE  ReroutedInv'
    <2>1. /\ orders' = orders \cup NewLines(c.body.plan, c.body.rev, c.body.orders)
          /\ ~PlanExists(c.body.plan, c.body.rev)
          /\ \A o \in c.body.orders : o.status # "REROUTED"
      BY <1>2 DEF SavePlanRevision, SaveOk, Admitted, MorningPlansAreRepairedOnce
    <2> QED
      BY <1>0, <2>1, ReroutedWhenInserted
  <1>3. ASSUME NEW c \in Commands, CreateNextDayDraft(c)
        PROVE  ReroutedInv'
    <2>1. /\ orders' = orders \cup NewLines(c.body.plan, "rev01", CandidateLines(c.body))
          /\ ~PlanExists(c.body.plan, "rev01")
      BY <1>3 DEF CreateNextDayDraft, DraftIsNew
    <2>2. \A l \in CandidateLines(c.body) : l.status # "REROUTED"
      BY DEF CandidateLines
    <2> QED
      BY <1>0, <2>1, <2>2, ReroutedWhenInserted
  <1>4. ASSUME NEW c \in Commands, ActivateApprovedRepairPlan(c)
        PROVE  ReroutedInv'
    <2> DEFINE p == c.body.plan
    <2>1. PICK a \in approvals, i \in ActiveRows :
            /\ orders' = orders \cup NewLines(p, c.body.proposed,
                                              Repaired(Lines(p, c.body.source), a.diff))
            /\ plans[i].plan = p /\ plans[i].rev = c.body.source
            /\ ~PlanExists(p, c.body.proposed)
            /\ RepairFits(a.diff, Lines(p, c.body.source))
      BY <1>4 DEF ActivateApprovedRepairPlan, ActivateOk
    <2>2. c.body.source = "rev07"
      BY <1>4 DEF ActivateApprovedRepairPlan, Admitted, MorningPlansAreRepairedOnce
    <2>3. c.body.proposed # "rev07"
      BY <2>1, <2>2 DEF PlanExists, ActiveRows
    <2>4. ASSUME NEW l \in Repaired(Lines(p, "rev07"), a.diff), l.status = "REROUTED"
          PROVE  /\ \A m \in Repaired(Lines(p, "rev07"), a.diff) :
                        m.status = "REROUTED" => m = l
                 /\ HasRoom(l, vehicles)
      BY <2>1, <2>2, <2>4, RepairReroutesOne
    <2> QED
      BY <1>0, <2>1, <2>2, <2>3, <2>4, ReroutedWhenInserted
  <1> QED
    BY <1>1, <1>2, <1>3, <1>4, WhoInsertsOrders

LEMMA ReroutedInvariant ==
    ASSUME MorningPlansAreRepairedOnce
    PROVE  Spec => []ReroutedInv
  <1>1. Init => ReroutedInv
    BY DEF Init, ReroutedInv
  <1>2. TypeOK /\ OrdersHaveParent /\ OrdersAreKeyed /\ VehiclesInv /\ ReroutedInv
            /\ [Next]_vars => ReroutedInv'
    BY ReroutedInvStep
  <1> QED
    BY <1>1, <1>2, TypeCorrect, OrdersHaveParentInvariant, OrdersAreKeyedInvariant,
       VehiclesInvariant, PTL DEF Spec

(* The cases a plan reroutes onto a vehicle fit beside its load, for every revision
   and not only the active one: a morning plan is repaired once, with one rerouted
   order, and no vehicle is ever replaced by another of its name. *)
THEOREM RepairsFitTheirVehicle ==
    ASSUME MorningPlansAreRepairedOnce
    PROVE  Spec => []ReroutesFit
  <1>1. TypeOK /\ VehiclesInv /\ ReroutedInv => ReroutesFit
    <2> SUFFICES ASSUME TypeOK, VehiclesInv, ReroutedInv,
                        NEW v \in vehicles, NEW i \in ActiveRows
                 PROVE  v.load + CasesIn({l \in Lines(plans[i].plan, plans[i].rev) :
                                              l.vehicle = v.vehicle /\ l.status = "REROUTED"})
                            <= v.capacity
      BY DEF ReroutesFit
    <2> DEFINE p == plans[i].plan
               r == plans[i].rev
               moved == {l \in Lines(p, r) : l.vehicle = v.vehicle /\ l.status = "REROUTED"}
    <2>0. v.load \in Nat /\ v.capacity \in Nat
      BY DEF TypeOK, VehicleRow, PosInt
    <2>1. ASSUME moved = {}
          PROVE  v.load + CasesIn(moved) <= v.capacity
      <3>1. CasesIn(moved) = 0
        BY <2>1, CasesInNothing
      <3>2. v.load <= v.capacity
        BY DEF VehiclesInv
      <3>3. v.load + CasesIn(moved) <= v.capacity
        BY <2>0, <3>1, <3>2
      <3> QED
        BY <3>3
    <2>2. ASSUME moved # {}
          PROVE  v.load + CasesIn(moved) <= v.capacity
      <3>1. PICK l \in moved : TRUE
        BY <2>2
      <3>2. PICK o \in orders : o.plan = p /\ o.rev = r /\ o.line = l
        BY <3>1 DEF Lines
      <3>3. o.line.status = "REROUTED" /\ o.line.vehicle = v.vehicle
        BY <3>1, <3>2
      <3>4. /\ \A x \in orders : /\ x.plan = p
                                 /\ x.rev = r
                                 /\ x.line.status = "REROUTED"
                                 => x = o
            /\ HasRoom(l, vehicles)
        BY <3>2, <3>3 DEF ReroutedInv, Rerouted
      <3>5. v.load + l.cases <= v.capacity
        BY <3>2, <3>3, <3>4 DEF VehiclesInv, HasRoom
      <3>6. moved = {l}
        BY <3>1, <3>2, <3>4 DEF Lines
      <3>7. l.cases \in Nat
        BY <3>2 DEF TypeOK, OrderRow, OrderLine, PosInt
      <3>8. CasesIn({l}) = l.cases
        <4>1. {} \cup {l} = {l} /\ l \notin {}
          OBVIOUS
        <4>2. CasesIn({} \cup {l}) = CasesIn({}) + l.cases
          BY <3>7, <4>1, CasesInNothing, CasesInWith
        <4> QED
          BY <3>7, <4>1, <4>2, CasesInNothing
      <3>9. CasesIn(moved) = l.cases
        BY <3>6, <3>8
      <3> QED
        BY <3>5, <3>9
    <2>3. v.load + CasesIn(moved) <= v.capacity
      BY <2>1, <2>2
    <2> QED
      BY <2>3
  <1> QED
    BY <1>1, TypeCorrect, VehiclesInvariant, ReroutedInvariant, PTL

=============================================================================
