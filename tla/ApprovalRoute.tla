--------------------------- MODULE ApprovalRoute ---------------------------
(***************************************************************************)
(* The human approval of a repair: the operator's browser, the route       *)
(* approve_and_activate that signs and then makes two ledger transactions, *)
(* and the route for all other commands, which turns approvals away.       *)
(*                                                                         *)
(* Several presses of the button may be on their way at once, each with    *)
(* its own trace.  Between any two steps of a call the clock may pass the  *)
(* expiry, a recall may invalidate the plan, KMS or the ledger may fail,   *)
(* the process may die, and the browser may hear an error while the call   *)
(* goes on.                                                                *)
(***************************************************************************)
EXTENDS PlanLedger

CONSTANTS
    Proposals,  \* the repairs that operators are shown
    Attempts,   \* presses of the approve button, each the trace of one call
    Validity,   \* how long the browser lets an approval live
    Offered     \* what callers send to the route for all other commands

ProposalRow == [inc : STRING, plan : STRING, source : STRING, proposed : STRING,
                diff : PlanDiff]

ASSUME ProposalsAndAttempts ==
    /\ Proposals \subseteq ProposalRow /\ Attempts \subseteq STRING
    /\ Validity \in PosInt /\ Offered \subseteq Commands

VARIABLES
    submitted,  \* every request an operator has made
    calls,      \* the calls in progress
    answers     \* what the browser has told its operator of each request

routeVars == <<submitted, calls, answers>>
approvalVars == <<vars, routeVars>>

-----------------------------------------------------------------------------
(* The operator's request and the two commands made from it *)

\* postApproval: key and approval id name plan and revision, and nothing of the
\* diff; the expiry is counted from the press of the button.
RequestUntil(a, p, expires) ==
    [attempt |-> a, inc |-> p.inc, plan |-> p.plan, source |-> p.source,
     proposed |-> p.proposed, diff |-> p.diff,
     key |-> p.plan \o ":" \o p.proposed \o ":approve",
     approval |-> "APR-" \o p.proposed, expires |-> expires]
Request(a, p) == RequestUntil(a, p, now + Validity)

RouteCommand(q, key, type, body) ==
    [key |-> key, inc |-> q.inc, role |-> "FULFILLMENT_RECOVERY_PLANNER",
     type |-> type, exp |-> q.source, trace |-> q.attempt, body |-> body]
ApprovalCommand(q) ==
    RouteCommand(q, q.key, "PERSIST_REPAIR_APPROVAL",
        [approval |-> q.approval, plan |-> q.plan, source |-> q.source,
         proposed |-> q.proposed, day |-> Today, scope |-> Today, diff |-> q.diff,
         hash |-> DiffHash(q.source, q.proposed, q.diff), expires |-> q.expires])
ActivationCommand(q) ==
    RouteCommand(q, q.key \o ":activate", "ACTIVATE_APPROVED_REPAIR_PLAN",
        [approval |-> q.approval, plan |-> q.plan, source |-> q.source,
         proposed |-> q.proposed, day |-> Today, scope |-> Today])

-----------------------------------------------------------------------------
(* The course of a call *)

Told(k, what) ==
    answers' = IF k.heard THEN answers \cup {[req |-> k.req, what |-> what]}
               ELSE answers
Ends(k, what) == calls' = calls \ {k} /\ Told(k, what)
Goes(k, step) ==
    calls' = (calls \ {k}) \cup {[k EXCEPT !.step = step]} /\ UNCHANGED answers

Approve(a, p) ==
    /\ \A q \in submitted : q.attempt # a
    /\ submitted' = submitted \cup {Request(a, p)}
    /\ calls' = calls \cup
          {[req |-> Request(a, p), step |-> "SIGN", heard |-> TRUE]}
    /\ UNCHANGED <<vars, answers>>

\* create_signed_approval_envelope, and the first verification: one expiry check
\* decides both.
Sign(k) ==
    /\ k.step = "SIGN"
    /\ k.req.source = "rev07" /\ k.req.proposed = "rev08"
    /\ now < k.req.expires
    /\ Goes(k, "PERSIST")
    /\ UNCHANGED <<vars, submitted>>

Persist(k) ==
    /\ k.step = "PERSIST"
    /\ Answered(ApprovalCommand(k.req))
    /\ IF Succeeded(ApprovalCommand(k.req)) THEN Goes(k, "VERIFY")
       ELSE Ends(k, "REJECTED")
    /\ UNCHANGED submitted

VerifyAgain(k) ==
    /\ k.step = "VERIFY"
    /\ now < k.req.expires
    /\ Goes(k, "ACTIVATE")
    /\ UNCHANGED <<vars, submitted>>

Activate(k) ==
    /\ k.step = "ACTIVATE"
    /\ Answered(ActivationCommand(k.req))
    /\ IF Succeeded(ActivationCommand(k.req)) THEN Ends(k, "APPROVED")
       ELSE Ends(k, "REJECTED")
    /\ UNCHANGED submitted

Errors == {"REJECTED", "UNREACHABLE"}

\* The revisions are not the canonical ones, the approval has expired, KMS
\* fails, the ledger refuses or cannot be reached, or a process dies.
Fail(k) ==
    /\ \E what \in Errors : Ends(k, what)
    /\ UNCHANGED <<vars, submitted>>

\* The orchestrator times out or the connection breaks while the call goes on.
GiveUp(k) ==
    /\ k.heard
    /\ \E what \in Errors : Told(k, what)
    /\ calls' = (calls \ {k}) \cup {[k EXCEPT !.heard = FALSE]}
    /\ UNCHANGED <<vars, submitted>>

-----------------------------------------------------------------------------
(* execute_ledger_command: the route for all other commands *)

MutantNoTypes == {}
HumanRouteTypes == {"PERSIST_REPAIR_APPROVAL", "ACTIVATE_APPROVED_REPAIR_PLAN"}

ExecuteCommand(c) ==
    /\ c.type \notin HumanRouteTypes
    /\ Execute(c)
    /\ UNCHANGED routeVars

Passes == Tick /\ UNCHANGED routeVars

-----------------------------------------------------------------------------

RouteInit == Init /\ submitted = {} /\ calls = {} /\ answers = {}

CallStep(k) ==
    \/ Sign(k) \/ Persist(k) \/ VerifyAgain(k) \/ Activate(k)
    \/ Fail(k) \/ GiveUp(k)

RouteNext ==
    \/ \E a \in Attempts, p \in Proposals : Approve(a, p)
    \/ \E k \in calls : CallStep(k)
    \/ \E c \in Offered : ExecuteCommand(c)
    \/ Passes

RouteSpec == RouteInit /\ [][RouteNext]_approvalVars

-----------------------------------------------------------------------------
(* Properties *)

RequestRow == [attempt : Attempts, inc : STRING, plan : STRING, source : STRING,
               proposed : STRING, diff : PlanDiff, key : STRING,
               approval : STRING, expires : Nat]

CallSteps == {"SIGN", "PERSIST", "VERIFY", "ACTIVATE"}

\* The route's state has its type, and both commands it makes of a request pass
\* the payload validation of the ledger.
RouteTypeOK ==
    /\ submitted \subseteq RequestRow
    /\ calls \subseteq [req : submitted, step : CallSteps, heard : BOOLEAN]
    /\ answers \subseteq [req : submitted, what : {"APPROVED"} \cup Errors]
    /\ \A q \in submitted : {ApprovalCommand(q), ActivationCommand(q)} \subseteq Commands

\* What a plan looks like once the diff of q is applied to it.
CarriedOut(q) ==
    /\ PlanExists(q.plan, q.proposed)
    /\ Lines(q.plan, q.proposed) = Repaired(Lines(q.plan, q.source), q.diff)

\* Agents propose and an operator decides: every repaired revision is what an
\* operator submitted, order for order, whatever the agents send to the ledger
\* themselves (plan-ledger main.py:315-318, ledger_executor.py:617-749).
RepairsAreAsked ==
    \A i \in DOMAIN plans : IsRepaired(i) =>
        \E q \in submitted :
            q.plan = plans[i].plan /\ q.proposed = plans[i].rev /\ CarriedOut(q)

\* An operator who is told that the repair is approved has got the diff of his
\* own request, not that of a colleague whose request used the same key.
AnswersAreTrue == \A x \in answers : x.what = "APPROVED" => CarriedOut(x.req)

\* A repair becomes active only while a request for that very diff is alive: a
\* call that was held up, a retry and a replayed receipt carry nothing past its
\* expiry.
ActivatedInTime ==
    [][\A i \in DOMAIN plans' :
          i \notin DOMAIN plans /\ IsRepaired(i)' =>
              \E q \in submitted :
                  /\ q.plan = plans'[i].plan /\ q.proposed = plans'[i].rev
                  /\ now < q.expires
                  /\ CarriedOut(q)']_approvalVars

=============================================================================
