-------------------------- MODULE MCManagedRecall --------------------------
(***************************************************************************)
(* One operating day whose repaired plan rev08 carries two lots that are   *)
(* recalled.  INC-1 arrives as a notice that is published twice, INC-2 by  *)
(* a coordinator of its own, so both recalls may run at once on one plan   *)
(* and draw on the same two safe lots, which cover neither of them.        *)
(***************************************************************************)
EXTENDS ManagedRecall

Planner == "FULFILLMENT_RECOVERY_PLANNER"
CoordinatorRole == "INCIDENT_COORDINATOR"

Notice(id, coordinator, incident, lot) ==
    [id |-> id, coordinator |-> coordinator, incident |-> incident, lot |-> lot]
MCNotices == {Notice("n1", "DAY-A", "INC-1", "LOT-A"),
              Notice("n2", "DAY-A", "INC-1", "LOT-A"),
              Notice("n3", "DAY-C", "INC-2", "LOT-C")}
MCTraces == {"t1", "t2"}
MCSiteBinding == [s \in {"SITE-A", "SITE-C"} |-> [partner |-> "PTR-" \o s, node |-> s]]

Cmd(key, type, role, exp, body) ==
    [key |-> key, inc |-> "INC-TRUCK", role |-> role, type |-> type,
     exp |-> exp, trace |-> "t0", body |-> body]
Line(o, cases, lot) ==
    [order |-> o, agency |-> "AG-" \o o, cases |-> cases, lot |-> lot,
     vehicle |-> "V1", status |-> "SCHEDULED"]
Node(n, cases, ack) == [node |-> n, name |-> n, cases |-> cases, ack |-> ack]
Edge(site, cases, lot) ==
    [edge |-> "DOCK-" \o site, source |-> "DOCK", target |-> site, lot |-> lot,
     cases |-> cases]
Diff == [rerouteOrder |-> "O1", rerouteCases |-> 3, rerouteTarget |-> "V2",
         pickupOrder |-> "O2", pickupCases |-> 2]

LinesA == {Line("O1", 3, "LOT-A")}
LinesC == {Line("O2", 2, "LOT-C"), Line("O3", 1, "LOT-C")}
SafeLots == {[lot |-> "LOT-B", hazard |-> "CLEAR_SAFE", cases |-> 1],
             [lot |-> "LOT-D", hazard |-> "CLEAR_SAFE", cases |-> 1]}

Save ==
    Cmd("save", "SAVE_PLAN_REVISION", Planner, "rev07",
        [plan |-> "P1", rev |-> "rev07", status |-> "ACTIVE",
         day |-> "day1", scope |-> "day1",
         orders |-> LinesA \cup LinesC,
         lots |-> SafeLots \cup {[lot |-> "LOT-A", hazard |-> "SAFE", cases |-> 3],
                                 [lot |-> "LOT-C", hazard |-> "SAFE", cases |-> 3]},
         vehicles |-> {[vehicle |-> v, capacity |-> 4, load |-> 0,
                        operational |-> TRUE] : v \in {"V1", "V2"}},
         nodes |-> {Node("DOCK", 0, "TOPOLOGY_ONLY"), Node("SITE-A", 3, "UNCONFIRMED"),
                    Node("SITE-C", 3, "UNCONFIRMED")},
         edges |-> {Edge("SITE-A", 3, "LOT-A"), Edge("SITE-C", 3, "LOT-C")}])
Approve ==
    Cmd("approve", "PERSIST_REPAIR_APPROVAL", Planner, "rev07",
        [approval |-> "APP", plan |-> "P1", source |-> "rev07", proposed |-> "rev08",
         day |-> "day1", scope |-> "day1", diff |-> Diff,
         hash |-> DiffHash("rev07", "rev08", Diff), expires |-> 1])
Activate ==
    Cmd("approve:activate", "ACTIVATE_APPROVED_REPAIR_PLAN", Planner, "rev07",
        [approval |-> "APP", plan |-> "P1", source |-> "rev07", proposed |-> "rev08",
         day |-> "day1", scope |-> "day1"])
Wait(coordinator, incident) ==
    Cmd("wait-" \o coordinator, "PERSIST_COORDINATOR", CoordinatorRole, "rev08",
        [coordinator |-> coordinator, state |-> "WAITING_FOR_EVENTS",
         checkpoint |-> "REV08", rev |-> "rev08", children |-> {incident}])
WaitA == Wait("DAY-A", "INC-TRUCK")
WaitC == Wait("DAY-C", "INC-TRUCK")
MCOffered == {Save, Approve, Activate, WaitA, WaitC}

\* What the saga and the deadline callback can send in this instance.
RunOf(n, t, step, lines, ls, site) ==
    [notice |-> n, trace |-> t, rev |-> "rev08", step |-> step, plan |-> "P1",
     recovery |-> Recovery(n.incident, lines, ls), site |-> site, cases |-> 3]
RunsA == {RunOf(n, t, step, os, ls, "SITE-A") :
              t \in MCTraces, step \in LedgerSteps, os \in SetToSeqs(LinesA),
              ls \in SetToSeqs(SafeLots),
              n \in {x \in MCNotices : x.incident = "INC-1"}}
RunsC == {RunOf(n, t, step, os, ls, "SITE-C") :
              t \in MCTraces, step \in LedgerSteps, os \in SetToSeqs(LinesC),
              ls \in SetToSeqs(SafeLots),
              n \in {x \in MCNotices : x.incident = "INC-2"}}
TaskOf(prefix, t, inc, lot, site) ==
    [id |-> prefix \o t, trace |-> t, incident |-> inc, hold |-> HoldId(inc, site),
     lot |-> lot, site |-> site, cases |-> 3, answered |-> FALSE]
IdPrefixes == {"ack-", "site01-"}
Days == {"day1", "day2"}
SagaCommands == {SagaCommand(r) : r \in RunsA \cup RunsC}
HoldsA == {HoldCommandOn(TaskOf(p, t, "INC-1", "LOT-A", "SITE-A"), d) :
              p \in IdPrefixes, t \in MCTraces, d \in Days}
HoldsC == {HoldCommandOn(TaskOf(p, t, "INC-2", "LOT-C", "SITE-C"), d) :
              p \in IdPrefixes, t \in MCTraces, d \in Days}
MCCommands == MCOffered \cup SagaCommands \cup HoldsA \cup HoldsC

ASSUME SagaMovesStatus /\ SagaRunsRecalls /\ OnePlanOfTheDay /\ HoldIdsAreNew
       /\ NoRepairIsADraft
=============================================================================
