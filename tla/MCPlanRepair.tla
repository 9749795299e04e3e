---------------------------- MODULE MCPlanRepair ----------------------------
(***************************************************************************)
(* One operating day with two plans and competing repairs of the first:    *)
(* two approvals of the same source with different diffs and expiries, one *)
(* approval whose reroute does not fit, one command that names the wrong   *)
(* plan for its approval, and a recall invalidation racing all of them.    *)
(***************************************************************************)
EXTENDS PlanLedger

Planner == "FULFILLMENT_RECOVERY_PLANNER"
Coordinator == "INCIDENT_COORDINATOR"

Cmd(key, type, role, exp, body) ==
    [key |-> key, inc |-> "INC-TRUCK", role |-> role, type |-> type,
     exp |-> exp, trace |-> "t1", body |-> body]

Line(o, cases, lot, v) ==
    [order |-> o, agency |-> "A-" \o o, cases |-> cases, lot |-> lot,
     vehicle |-> v, status |-> "SCHEDULED"]

\* Two trucks, two orders of the first and one of the second.
PlanOf(p, lot, v1, v2) ==
    [plan |-> p, rev |-> "rev07", status |-> "ACTIVE",
     day |-> "day1", scope |-> "day1",
     orders |-> {Line("O202", 2, lot, v1), Line("O203", 3, lot, v1),
                 Line("O204", 1, lot, v2)},
     lots |-> {[lot |-> lot, hazard |-> "SAFE", cases |-> 8]},
     vehicles |-> {[vehicle |-> v1, capacity |-> 6, load |-> 5, operational |-> TRUE],
                   [vehicle |-> v2, capacity |-> 4, load |-> 1, operational |-> TRUE]},
     nodes |-> {[node |-> lot \o "-dock", name |-> "dock", cases |-> 8,
                 ack |-> "CONFIRMED"]},
     edges |-> {[edge |-> lot \o "-edge", source |-> lot \o "-dock",
                 target |-> lot \o "-dock", lot |-> lot, cases |-> 8]}]

Diff(reroute, cases, target, pickup, pcases) ==
    [rerouteOrder |-> reroute, rerouteCases |-> cases, rerouteTarget |-> target,
     pickupOrder |-> pickup, pickupCases |-> pcases]
DiffA == Diff("O202", 2, "V2", "O203", 3)
DiffB == Diff("O203", 3, "V2", "O202", 2)
DiffTooBig == Diff("O202", 2, "V1", "O203", 3)

Approve(key, id, diff, expires) ==
    Cmd(key, "PERSIST_REPAIR_APPROVAL", Planner, "rev07",
        [approval |-> id, plan |-> "P1", source |-> "rev07", proposed |-> "rev08",
         day |-> "day1", scope |-> "day1", diff |-> diff,
         hash |-> DiffHash("rev07", "rev08", diff), expires |-> expires])
ActivateAs(key, role, id, plan) ==
    Cmd(key, "ACTIVATE_APPROVED_REPAIR_PLAN", role, "rev07",
        [approval |-> id, plan |-> plan, source |-> "rev07", proposed |-> "rev08",
         day |-> "day1", scope |-> "day1"])
Invalidate(key, plan, rev) ==
    Cmd(key, "INVALIDATE_PLAN", Coordinator, rev, [plan |-> plan, rev |-> rev])
Propose ==
    Cmd("propose", "PERSIST_REPAIR_PROPOSAL", Planner, "rev07",
        [proposal |-> "PROP-1", event |-> "refrigeration-1", plan |-> "P1",
         source |-> "rev07", proposed |-> "rev08", vehicle |-> "V1",
         capacity |-> 4, committed |-> 1, diff |-> DiffA])

Save1 == Cmd("save-1", "SAVE_PLAN_REVISION", Planner, "rev07",
             PlanOf("P1", "LOT-A", "V1", "V2"))
Save2 == Cmd("save-2", "SAVE_PLAN_REVISION", Planner, "rev07",
             PlanOf("P2", "LOT-B", "W1", "W2"))
ApproveA == Approve("a", "APP-A", DiffA, 1)
ApproveB == Approve("b", "APP-B", DiffB, 2)
ApproveTooBig == Approve("c", "APP-C", DiffTooBig, 2)
ActivateB == ActivateAs("b:activate", Planner, "APP-B", "P1")
OtherActivations ==
    {ActivateAs("a:activate", Planner, "APP-A", "P1"),
     ActivateAs("c:activate", Planner, "APP-C", "P1"),
     ActivateAs("b-p2:activate", Planner, "APP-B", "P2")}
Invalidations ==
    {Invalidate("invalidate-07", "P1", "rev07"),
     Invalidate("invalidate-08", "P1", "rev08")}

\* Commands are named definitions, so that TLC evaluates each of them once.
MCCommands ==
    {Save1, Save2, Propose, ApproveA, ApproveB, ApproveTooBig, ActivateB}
    \cup OtherActivations \cup Invalidations

ASSUME MorningPlansAreRepairedOnce
=============================================================================
