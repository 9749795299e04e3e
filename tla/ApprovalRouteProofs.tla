------------------------ MODULE ApprovalRouteProofs ------------------------
(***************************************************************************)
(* Whatever the agents, the operators and the clock do: a revision that is *)
(* repaired is one that an operator submitted, it became active while that *)
(* request was alive, and who is told so got his own diff.                 *)
(***************************************************************************)
EXTENDS ApprovalRoute, PlanLedgerProofs

-----------------------------------------------------------------------------
(* A step of the route is at most one transaction of the ledger. *)

LEMMA AnsweredIsLedgerStep ==
    ASSUME NEW c, Answered(c)
    PROVE  [Next]_vars
  BY DEF Answered, Next

LEMMA RouteStepIsLedgerStep ==
    ASSUME [RouteNext]_approvalVars
    PROVE  [Next]_vars
  <1>1. CASE UNCHANGED approvalVars
    BY <1>1 DEF approvalVars
  <1>2. ASSUME NEW a \in Attempts, NEW p \in Proposals, Approve(a, p)
        PROVE  UNCHANGED vars
    BY <1>2 DEF Approve
  <1>3. ASSUME NEW k \in calls, CallStep(k)
        PROVE  [Next]_vars
    <2>1. CASE Persist(k)
      BY <2>1, AnsweredIsLedgerStep DEF Persist
    <2>2. CASE Activate(k)
      BY <2>2, AnsweredIsLedgerStep DEF Activate
    <2>3. CASE Sign(k) \/ VerifyAgain(k) \/ Fail(k) \/ GiveUp(k)
      BY <2>3 DEF Sign, VerifyAgain, Fail, GiveUp
    <2> QED
      BY <1>3, <2>1, <2>2, <2>3 DEF CallStep
  <1>4. ASSUME NEW c \in Offered, ExecuteCommand(c)
        PROVE  Next
    BY <1>4, ProposalsAndAttempts DEF ExecuteCommand, Next
  <1>5. CASE Passes
    BY <1>5 DEF Passes, Next
  <1> QED
    BY <1>1, <1>2, <1>3, <1>4, <1>5 DEF RouteNext

(* The human approval is a behaviour of the ledger's callers: both routes reach
   the tables through transactions of the executor only, and RouteSpec
   implements the ledger's specification. *)
THEOREM RouteUsesLedger == RouteSpec => Spec
  <1>1. RouteInit => Init
    BY DEF RouteInit
  <1>2. [RouteNext]_approvalVars => [Next]_vars
    BY RouteStepIsLedgerStep
  <1> QED
    BY <1>1, <1>2, PTL DEF RouteSpec, Spec

-----------------------------------------------------------------------------
(* Every approval in the ledger is one that an operator submitted. *)

SignedFor(a, q) ==
    <<a.plan, a.source, a.proposed, a.diff, a.expires>> =
    <<q.plan, q.source, q.proposed, q.diff, q.expires>>
ApprovalsAreAsked == \A a \in approvals : \E q \in submitted : SignedFor(a, q)
CallsAreAsked == calls \subseteq [req : submitted, step : CallSteps, heard : BOOLEAN]
AskedInv == CallsAreAsked /\ ApprovalsAreAsked

LEMMA SubmittedKept ==
    ASSUME [RouteNext]_approvalVars
    PROVE  submitted \subseteq submitted'
  <1>1. ASSUME NEW a \in Attempts, NEW p \in Proposals, Approve(a, p)
        PROVE  submitted \subseteq submitted'
    BY <1>1 DEF Approve
  <1>2. ASSUME NEW k \in calls, CallStep(k)
        PROVE  submitted' = submitted
    BY <1>2 DEF CallStep, Sign, Persist, VerifyAgain, Activate, Fail, GiveUp
  <1> QED
    BY <1>1, <1>2
    DEF RouteNext, ExecuteCommand, Passes, routeVars, approvalVars

LEMMA CallsStep ==
    ASSUME CallsAreAsked, [RouteNext]_approvalVars
    PROVE  CallsAreAsked'
  <1> USE DEF CallsAreAsked, CallSteps
  <1>1. ASSUME NEW a \in Attempts, NEW p \in Proposals, Approve(a, p)
        PROVE  CallsAreAsked'
    <2> DEFINE q == Request(a, p)
    <2>1. /\ submitted' = submitted \cup {q}
          /\ calls' = calls \cup {[req |-> q, step |-> "SIGN", heard |-> TRUE]}
      BY <1>1 DEF Approve
    <2> HIDE DEF q
    <2>2. ASSUME NEW k \in calls
          PROVE  k \in [req : submitted', step : CallSteps, heard : BOOLEAN]
      <3>1. k \in [req : submitted, step : CallSteps, heard : BOOLEAN]
        OBVIOUS
      <3>2. k.req \in submitted'
        BY <2>1, <3>1
      <3> QED
        BY <3>1, <3>2
    <2>3. [req |-> q, step |-> "SIGN", heard |-> TRUE]
              \in [req : submitted', step : CallSteps, heard : BOOLEAN]
      BY <2>1
    <2> QED
      BY <2>1, <2>2, <2>3
  <1>2. ASSUME NEW k \in calls, CallStep(k)
        PROVE  CallsAreAsked'
    <2>1. submitted' = submitted
      BY <1>2 DEF CallStep, Sign, Persist, VerifyAgain, Activate, Fail, GiveUp
    <2>2. CASE \E what : Ends(k, what)
      BY <2>1, <2>2 DEF Ends
    <2>3. ASSUME NEW step \in CallSteps, Goes(k, step)
          PROVE  CallsAreAsked'
      BY <2>1, <2>3 DEF Goes
    <2>4. CASE GiveUp(k)
      BY <2>1, <2>4 DEF GiveUp
    <2> QED
      BY <1>2, <2>2, <2>3, <2>4
      DEF CallStep, Sign, Persist, VerifyAgain, Activate, Fail
  <1> QED
    BY <1>1, <1>2
    DEF RouteNext, ExecuteCommand, Passes, routeVars, approvalVars

(* Only PERSIST_REPAIR_APPROVAL writes an approval. *)
LEMMA ApprovalsStep ==
    ASSUME NEW c \in Commands, Execute(c), c.type # "PERSIST_REPAIR_APPROVAL"
    PROVE  approvals' = approvals
  BY DEF Execute, Admitted, DenyRole, DenyStaleRevision, RecordRefusal,
      SavePlanRevision, PersistRepairProposal, PersistRepairApproval,
      ActivateApprovedRepairPlan, InvalidatePlan, PersistCoordinator,
      OpenRecallIncident, SetIncidentStatus, ActivateMovementBarrier,
      AllocateSafeStock, RecordAcknowledgmentHold, ApplyPartnerEvidence,
      DenyPartnerEvidence, CreateNextDayDraft, ReaffirmNextDayDraft,
      dataVars, planVars

(* The approval that the route persists is the operator's. *)
LEMMA PersistedIsAsked ==
    ASSUME NEW q, Answered(ApprovalCommand(q)), NEW a \in approvals',
           a \notin approvals
    PROVE  SignedFor(a, q)
  <1> DEFINE c == ApprovalCommand(q)
  <1>1. Execute(c) /\ c \in Commands
    BY DEF Answered, vars, planVars
  <1>2. c.type = "PERSIST_REPAIR_APPROVAL" /\ c.body.plan = q.plan
        /\ c.body.source = q.source /\ c.body.proposed = q.proposed
        /\ c.body.diff = q.diff /\ c.body.expires = q.expires
    BY DEF ApprovalCommand, RouteCommand
  <1> HIDE DEF c
  <1>3. PersistRepairApproval(c)
    BY <1>1, <1>2
    DEF Execute, Admitted, DenyRole, DenyStaleRevision, RecordRefusal,
        SavePlanRevision, PersistRepairProposal, ActivateApprovedRepairPlan,
        InvalidatePlan, PersistCoordinator, OpenRecallIncident,
        SetIncidentStatus, ActivateMovementBarrier, AllocateSafeStock,
        RecordAcknowledgmentHold, ApplyPartnerEvidence, DenyPartnerEvidence,
        CreateNextDayDraft, ReaffirmNextDayDraft, dataVars, planVars
  <1>4. /\ a.plan = c.body.plan /\ a.source = c.body.source
        /\ a.proposed = c.body.proposed /\ a.diff = c.body.diff
        /\ a.expires = c.body.expires
    BY <1>3 DEF PersistRepairApproval
  <1> QED
    BY <1>2, <1>4 DEF SignedFor

LEMMA ApprovalsAskedStep ==
    ASSUME AskedInv, [RouteNext]_approvalVars
    PROVE  ApprovalsAreAsked'
  <1>1. CASE approvals' = approvals
    BY <1>1, SubmittedKept DEF AskedInv, ApprovalsAreAsked, SignedFor
  <1>2. ASSUME NEW k \in calls, Persist(k)
        PROVE  ApprovalsAreAsked'
    BY <1>2, PersistedIsAsked, SubmittedKept
    DEF Persist, AskedInv, CallsAreAsked, ApprovalsAreAsked, SignedFor
  <1>3. ASSUME NEW k \in calls, Activate(k)
        PROVE  approvals' = approvals
    <2>1. ActivationCommand(k.req).type # "PERSIST_REPAIR_APPROVAL"
      BY DEF ActivationCommand, RouteCommand
    <2> QED
      BY <1>3, <2>1, ApprovalsStep DEF Activate, Answered, vars, planVars
  <1>4. ASSUME NEW k \in calls, CallStep(k), ~Persist(k), ~Activate(k)
        PROVE  approvals' = approvals
    BY <1>4 DEF CallStep, Sign, VerifyAgain, Fail, GiveUp, vars, planVars
  <1>5. ASSUME NEW c \in Offered, ExecuteCommand(c)
        PROVE  approvals' = approvals
    BY <1>5, ApprovalsStep, ProposalsAndAttempts DEF ExecuteCommand, HumanRouteTypes
  <1>6. UNCHANGED approvalVars \/ Passes
            \/ (\E a \in Attempts, p \in Proposals : Approve(a, p))
          => approvals' = approvals
    BY DEF approvalVars, Passes, Tick, Approve, vars, planVars
  <1> QED
    BY <1>1, <1>2, <1>3, <1>4, <1>5, <1>6 DEF RouteNext

LEMMA AskedInvariant == RouteSpec => []AskedInv
  <1>1. RouteInit => AskedInv
    BY DEF RouteInit, Init, AskedInv, CallsAreAsked, ApprovalsAreAsked
  <1>2. AskedInv /\ [RouteNext]_approvalVars => AskedInv'
    BY CallsStep, ApprovalsAskedStep DEF AskedInv
  <1> QED
    BY <1>1, <1>2, PTL DEF RouteSpec

(* Every repaired revision is what an operator submitted, order for order, for
   every set of proposals, requests and commands of the agents. *)
THEOREM RepairsAreHuman == RouteSpec => []RepairsAreAsked
  <1>1. ApprovalsAreAsked /\ RepairedAsApproved => RepairsAreAsked
    <2> SUFFICES ASSUME ApprovalsAreAsked, RepairedAsApproved,
                        NEW i \in DOMAIN plans, IsRepaired(i)
                 PROVE  \E q \in submitted :
                           /\ q.plan = plans[i].plan /\ q.proposed = plans[i].rev
                           /\ CarriedOut(q)
      BY DEF RepairsAreAsked
    <2>1. PICK a \in approvals :
            /\ a.plan = plans[i].plan /\ a.proposed = plans[i].rev
            /\ Lines(a.plan, a.proposed) = Repaired(Lines(a.plan, a.source), a.diff)
      BY DEF RepairedAsApproved
    <2>2. PICK q \in submitted : SignedFor(a, q)
      BY DEF ApprovalsAreAsked
    <2>3. q.plan = a.plan /\ q.source = a.source /\ q.proposed = a.proposed
          /\ q.diff = a.diff
      BY <2>2 DEF SignedFor
    <2> QED
      BY <2>1, <2>3 DEF CarriedOut, PlanExists
  <1> QED
    BY <1>1, AskedInvariant, RouteUsesLedger, SignedRepairs, PTL DEF AskedInv

-----------------------------------------------------------------------------
(* No activation outlives its request. *)

LEMMA ActivatedInTimeStep ==
    ASSUME TypeOK, OrdersHaveParent, ApprovalsAreAsked, [Next]_vars,
           NEW i \in DOMAIN plans', i \notin DOMAIN plans, IsRepaired(i)'
    PROVE  \E q \in submitted :
              /\ q.plan = plans'[i].plan /\ q.proposed = plans'[i].rev
              /\ now < q.expires
              /\ CarriedOut(q)'
  <1>1. PICK c \in Commands :
          /\ ActivateApprovedRepairPlan(c)
          /\ plans'[i].plan = c.body.plan /\ plans'[i].rev = c.body.proposed
    BY RepairedByActivation
  <1>2. PICK a \in approvals :
          /\ now < a.expires
          /\ a.plan = c.body.plan /\ a.proposed = c.body.proposed
          /\ Lines(a.plan, a.proposed)' = Repaired(Lines(a.plan, a.source)', a.diff)
    BY <1>1, ActivationSigned
  <1>3. PICK q \in submitted : SignedFor(a, q)
    BY DEF ApprovalsAreAsked
  <1>4. q.plan = a.plan /\ q.source = a.source /\ q.proposed = a.proposed
        /\ q.diff = a.diff /\ q.expires = a.expires
    BY <1>3 DEF SignedFor
  <1>5. PlanExists(q.plan, q.proposed)'
    BY <1>1, <1>2, <1>4 DEF PlanExists
  <1>6. Lines(q.plan, q.proposed)' = Repaired(Lines(q.plan, q.source)', q.diff)
    BY <1>2, <1>4
  <1>7. CarriedOut(q)'
    BY <1>5, <1>6 DEF CarriedOut, Repaired, RepairedLine
  <1> QED
    BY <1>1, <1>2, <1>4, <1>7

(* A repair becomes active only while a request for that diff is alive, for
   every clock, validity and interleaving of calls. *)
THEOREM NoLateActivation == RouteSpec => ActivatedInTime
  <1>1. TypeOK /\ OrdersHaveParent /\ AskedInv /\ [RouteNext]_approvalVars
            => [\A i \in DOMAIN plans' :
                  i \notin DOMAIN plans /\ IsRepaired(i)' =>
                      \E q \in submitted :
                          /\ q.plan = plans'[i].plan /\ q.proposed = plans'[i].rev
                          /\ now < q.expires
                          /\ CarriedOut(q)']_approvalVars
    BY RouteStepIsLedgerStep, ActivatedInTimeStep DEF AskedInv
  <1> QED
    BY <1>1, AskedInvariant, RouteUsesLedger, TypeCorrect,
       OrdersHaveParentInvariant, PTL
    DEF RouteSpec, ActivatedInTime

-----------------------------------------------------------------------------
(* What an operator is told is so.  The two receipts of a call belong together *)
(* by the approval id alone: the first says that an approval of that id holds  *)
(* the operator's diff, the second that the diff of an approval of that id is  *)
(* carried out, and approval ids are unique.                                   *)

ApprovalsAreKeyed == \A a, b \in approvals : a.approval = b.approval => a = b

LEMMA ApprovalsKeyedStep ==
    ASSUME ApprovalsAreKeyed, [Next]_vars
    PROVE  ApprovalsAreKeyed'
  <1>1. CASE approvals' = approvals
    BY <1>1 DEF ApprovalsAreKeyed
  <1>2. ASSUME NEW c \in Commands, PersistRepairApproval(c)
        PROVE  ApprovalsAreKeyed'
    <2> DEFINE new == [approval |-> c.body.approval, inc |-> c.inc,
                       plan |-> c.body.plan, source |-> c.body.source,
                       proposed |-> c.body.proposed, day |-> c.body.day,
                       scope |-> c.body.scope, diff |-> c.body.diff,
                       hash |-> c.body.hash, expires |-> c.body.expires]
    <2>1. approvals' = approvals \cup {new}
      BY <1>2 DEF PersistRepairApproval
    <2>2. new.approval = c.body.approval
      OBVIOUS
    <2>3. \A a \in approvals : a.approval # c.body.approval
      BY <1>2 DEF PersistRepairApproval, ApprovalOk
    <2> HIDE DEF new
    <2> QED
      BY <2>1, <2>2, <2>3 DEF ApprovalsAreKeyed
  <1>3. ASSUME NEW c \in Commands, Execute(c), ~PersistRepairApproval(c)
        PROVE  approvals' = approvals
    BY <1>3
    DEF Execute, DenyRole, DenyStaleRevision, RecordRefusal, SavePlanRevision,
        PersistRepairProposal, ActivateApprovedRepairPlan, InvalidatePlan,
        PersistCoordinator, OpenRecallIncident, SetIncidentStatus,
        ActivateMovementBarrier, AllocateSafeStock, RecordAcknowledgmentHold,
        ApplyPartnerEvidence, DenyPartnerEvidence, CreateNextDayDraft,
        ReaffirmNextDayDraft, dataVars, planVars
  <1> QED
    BY <1>1, <1>2, <1>3 DEF Next, Tick, vars, planVars

Granted(q) == ApprovalStands(ApprovalCommand(q))
Carried(q) == PlanExists(q.plan, q.source) /\ CarriedOut(q)
AnswersInv ==
    /\ ApprovalsAreKeyed
    /\ \A k \in calls : k.step \in {"VERIFY", "ACTIVATE"} => Granted(k.req)
    /\ \A x \in answers : x.what = "APPROVED" => Carried(x.req)

LEMMA GrantedKept ==
    ASSUME [Next]_vars, NEW q, Granted(q)
    PROVE  Granted(q)'
  BY ApprovalsKept DEF Granted, ApprovalStands, ApprovalCommand, RouteCommand, DiffHash

LEMMA CarriedKept ==
    ASSUME TypeOK, OrdersHaveParent, [Next]_vars, NEW q, Carried(q)
    PROVE  Carried(q)'
  <1>1. PlanExists(q.plan, q.source) /\ PlanExists(q.plan, q.proposed)
    BY DEF Carried, CarriedOut
  <1>2. PlanExists(q.plan, q.source)' /\ PlanExists(q.plan, q.proposed)'
    BY <1>1, PlanExistsKept
  <1>3. /\ Lines(q.plan, q.source)' = Lines(q.plan, q.source)
        /\ Lines(q.plan, q.proposed)' = Lines(q.plan, q.proposed)
    BY <1>1, LinesKept
  <1>4. Lines(q.plan, q.proposed)' = Repaired(Lines(q.plan, q.source)', q.diff)
    BY <1>3 DEF Carried, CarriedOut
  <1> QED
    BY <1>2, <1>4 DEF Carried, CarriedOut, Repaired, RepairedLine

(* An answer of success to the approval grants the diff that was asked for. *)
LEMMA PersistGrants ==
    ASSUME TypeOK, ReceiptsInv, NEW q, Answered(ApprovalCommand(q)),
           Succeeded(ApprovalCommand(q))
    PROVE  Granted(q)'
  <1> DEFINE c == ApprovalCommand(q)
  <1>1. c.type = "PERSIST_REPAIR_APPROVAL"
    BY DEF ApprovalCommand, RouteCommand
  <1>2. Answered(c) /\ Succeeded(c)
    OBVIOUS
  <1>3. Effect(c)'
    <2> HIDE DEF c
    <2> QED
      BY <1>1, <1>2, AnsweredTellsTheTruth
  <1> QED
    BY <1>1, <1>3 DEF Effect, Granted

(* An answer of success to the activation finds the diff granted carried out. *)
LEMMA ActivateCarries ==
    ASSUME TypeOK, ReceiptsInv, ApprovalsAreKeyed, NEW q, Granted(q),
           Answered(ActivationCommand(q)), Succeeded(ActivationCommand(q))
    PROVE  Carried(q)'
  <1> DEFINE c == ActivationCommand(q)
  <1>1. /\ c.type = "ACTIVATE_APPROVED_REPAIR_PLAN"
        /\ c.body.approval = q.approval /\ c.body.plan = q.plan
        /\ c.body.source = q.source /\ c.body.proposed = q.proposed
    BY DEF ActivationCommand, RouteCommand
  <1>2. Answered(c) /\ Succeeded(c)
    OBVIOUS
  <1> HIDE DEF c
  <1>3. Effect(c)' /\ [Next]_vars
    BY <1>1, <1>2, AnsweredTellsTheTruth, AnsweredIsLedgerStep
  <1>4. RepairStands(c)'
    BY <1>1, <1>3 DEF Effect
  <1>5. PICK a \in approvals' :
          /\ a.approval = q.approval /\ a.plan = q.plan
          /\ a.source = q.source /\ a.proposed = q.proposed
          /\ PlanExists(a.plan, a.source)' /\ PlanExists(a.plan, a.proposed)'
          /\ Lines(a.plan, a.proposed)' = Repaired(Lines(a.plan, a.source)', a.diff)
    BY <1>1, <1>4 DEF RepairStands, Repaired, RepairedLine
  <1>6. PICK b \in approvals : b.approval = q.approval /\ b.diff = q.diff
    BY DEF Granted, ApprovalStands, ApprovalCommand, RouteCommand
  <1>7. b \in approvals' /\ ApprovalsAreKeyed'
    BY <1>3, ApprovalsKept, ApprovalsKeyedStep
  <1>8. a.diff = q.diff
    BY <1>5, <1>6, <1>7 DEF ApprovalsAreKeyed
  <1>9. PlanExists(q.plan, q.source)' /\ PlanExists(q.plan, q.proposed)'
    BY <1>5
  <1>10. Lines(q.plan, q.proposed)' = Repaired(Lines(q.plan, q.source)', q.diff)
    BY <1>5, <1>8
  <1> QED
    BY <1>9, <1>10 DEF Carried, CarriedOut, Repaired, RepairedLine

LEMMA AnswersInvStep ==
    ASSUME TypeOK, ReceiptsInv, CallsAreAsked, AnswersInv, [RouteNext]_approvalVars
    PROVE  AnswersInv'
  <1>1. [Next]_vars
    BY RouteStepIsLedgerStep
  <1>2. ApprovalsAreKeyed'
    BY <1>1, ApprovalsKeyedStep DEF AnswersInv
  <1>3. \A q : (Granted(q) => Granted(q)') /\ (Carried(q) => Carried(q)')
    BY <1>1, GrantedKept, CarriedKept DEF ReceiptsInv
  <1>4. CASE calls' = calls /\ answers' = answers
    BY <1>2, <1>3, <1>4 DEF AnswersInv
  <1>5. ASSUME NEW a \in Attempts, NEW p \in Proposals, Approve(a, p)
        PROVE  AnswersInv'
    <2> DEFINE k == [req |-> Request(a, p), step |-> "SIGN", heard |-> TRUE]
    <2>1. calls' = calls \cup {k} /\ answers' = answers
      BY <1>5 DEF Approve
    <2>2. k.step = "SIGN"
      OBVIOUS
    <2> HIDE DEF k
    <2> QED
      BY <1>2, <1>3, <2>1, <2>2 DEF AnswersInv
  <1>6. ASSUME NEW k \in calls, CallStep(k)
        PROVE  AnswersInv'
    <2>1. k.req \in submitted
      BY DEF CallsAreAsked
    <2>2. ASSUME NEW what, Ends(k, what), what = "APPROVED" => Carried(k.req)'
          PROVE  AnswersInv'
      <3>1. \A x \in answers' : x.what = "APPROVED" => Carried(x.req)'
        <4> DEFINE x == [req |-> k.req, what |-> what]
        <4>1. answers' \subseteq answers \cup {x}
          BY <2>2 DEF Ends, Told
        <4>2. x.req = k.req /\ x.what = what
          OBVIOUS
        <4> HIDE DEF x
        <4> QED
          BY <1>3, <2>2, <4>1, <4>2 DEF AnswersInv
      <3> QED
        BY <1>2, <1>3, <2>2, <3>1 DEF AnswersInv, Ends
    <2>3. ASSUME NEW step, Goes(k, step),
                 step \in {"VERIFY", "ACTIVATE"} => Granted(k.req)'
          PROVE  AnswersInv'
      <3> DEFINE next == [k EXCEPT !.step = step]
      <3>1. next.req = k.req /\ next.step = step
        BY DEF CallsAreAsked
      <3>2. calls' = (calls \ {k}) \cup {next} /\ answers' = answers
        BY <2>3 DEF Goes
      <3> HIDE DEF next
      <3> QED
        BY <1>2, <1>3, <2>3, <3>1, <3>2 DEF AnswersInv
    <2>4. CASE Sign(k)
      BY <2>3, <2>4 DEF Sign
    <2>5. CASE Persist(k)
      BY <2>2, <2>3, <2>5, PersistGrants DEF Persist
    <2>6. CASE VerifyAgain(k)
      BY <1>3, <2>3, <2>6 DEF VerifyAgain, AnswersInv
    <2>7. CASE Activate(k)
      BY <2>2, <2>7, ActivateCarries DEF Activate, AnswersInv
    <2>8. CASE Fail(k)
      BY <2>2, <2>8 DEF Fail, Errors
    <2>9. CASE GiveUp(k)
      <3> DEFINE next == [k EXCEPT !.heard = FALSE]
      <3>1. next.req = k.req /\ next.step = k.step
        BY DEF CallsAreAsked
      <3>2. PICK what \in Errors : Told(k, what)
        BY <2>9 DEF GiveUp
      <3>3. calls' = (calls \ {k}) \cup {next}
        BY <2>9 DEF GiveUp
      <3> HIDE DEF next
      <3>4. \A x \in answers' : x.what = "APPROVED" => Carried(x.req)'
        BY <1>3, <3>2 DEF AnswersInv, Told, Errors
      <3> QED
        BY <1>2, <1>3, <3>1, <3>3, <3>4 DEF AnswersInv
    <2> QED
      BY <1>6, <2>4, <2>5, <2>6, <2>7, <2>8, <2>9 DEF CallStep
  <1> QED
    BY <1>4, <1>5, <1>6
    DEF RouteNext, ExecuteCommand, Passes, routeVars, approvalVars

(* Whoever is told that a repair is approved has got his own diff: no receipt
   of a colleague's request under the same key can tell him so. *)
THEOREM NobodyIsMisled == RouteSpec => []AnswersAreTrue
  <1>1. RouteInit => AnswersInv
    BY DEF RouteInit, Init, AnswersInv, ApprovalsAreKeyed
  <1>2. TypeOK /\ ReceiptsInv /\ AskedInv /\ AnswersInv /\ [RouteNext]_approvalVars
            => AnswersInv'
    BY AnswersInvStep DEF AskedInv
  <1>3. AnswersInv => AnswersAreTrue
    BY DEF AnswersInv, AnswersAreTrue, Carried
  <1> QED
    BY <1>1, <1>2, <1>3, AskedInvariant, RouteUsesLedger, TypeCorrect,
       ReceiptsInvariant, PTL
    DEF RouteSpec
=============================================================================
