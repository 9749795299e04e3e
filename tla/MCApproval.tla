---------------------------- MODULE MCApproval ----------------------------
(***************************************************************************)
(* Two presses of the button, for the same or for different repairs of one *)
(* plan or for a further repair of the repaired plan; an agent sends an    *)
(* approval of its own to the other route; a recall races all of them.     *)
(***************************************************************************)
EXTENDS ApprovalRoute

MCAttempts == {"a1", "a2"}

Diff(reroute, cases, pickup, pcases) ==
    [rerouteOrder |-> reroute, rerouteCases |-> cases, rerouteTarget |-> "V2",
     pickupOrder |-> pickup, pickupCases |-> pcases]
Proposal(source, proposed, diff) ==
    [inc |-> "INC-TRUCK", plan |-> "P1", source |-> source, proposed |-> proposed,
     diff |-> diff]
DiffA == Diff("O202", 2, "O203", 3)
DiffB == Diff("O203", 3, "O202", 2)
MCProposals == {Proposal("rev07", "rev08", DiffA), Proposal("rev07", "rev08", DiffB),
                Proposal("rev08", "rev09", DiffA)}

Cmd(key, type, role, exp, body) ==
    [key |-> key, inc |-> "INC-TRUCK", role |-> role, type |-> type,
     exp |-> exp, trace |-> "t0", body |-> body]
Line(o, cases) ==
    [order |-> o, agency |-> "A-" \o o, cases |-> cases, lot |-> "LOT-A",
     vehicle |-> "V1", status |-> "SCHEDULED"]
Save ==
    Cmd("save", "SAVE_PLAN_REVISION", "FULFILLMENT_RECOVERY_PLANNER", "rev07",
        [plan |-> "P1", rev |-> "rev07", status |-> "ACTIVE",
         day |-> "day1", scope |-> "day1",
         orders |-> {Line("O202", 2), Line("O203", 3)},
         lots |-> {[lot |-> "LOT-A", hazard |-> "SAFE", cases |-> 5]},
         vehicles |-> {[vehicle |-> v, capacity |-> 5, load |-> 0,
                        operational |-> TRUE] : v \in {"V1", "V2"}},
         nodes |-> {[node |-> "DOCK", name |-> "dock", cases |-> 5,
                     ack |-> "CONFIRMED"]},
         edges |-> {[edge |-> "E1", source |-> "DOCK", target |-> "DOCK",
                     lot |-> "LOT-A", cases |-> 5]}])
Invalidate(rev) ==
    Cmd("invalidate-" \o rev, "INVALIDATE_PLAN", "INCIDENT_COORDINATOR", rev,
        [plan |-> "P1", rev |-> rev])

\* An agent approves a diff that no operator was shown.
ForgedDiff == [DiffA EXCEPT !.rerouteTarget = "V1"]
ForgedApproval ==
    Cmd("agent", "PERSIST_REPAIR_APPROVAL", "FULFILLMENT_RECOVERY_PLANNER", "rev07",
        [approval |-> "APR-agent", plan |-> "P1", source |-> "rev07",
         proposed |-> "rev08", day |-> "day1", scope |-> "day1",
         diff |-> ForgedDiff, hash |-> DiffHash("rev07", "rev08", ForgedDiff),
         expires |-> 3])
ForgedActivation ==
    Cmd("agent:activate", "ACTIVATE_APPROVED_REPAIR_PLAN",
        "FULFILLMENT_RECOVERY_PLANNER", "rev07",
        [approval |-> "APR-agent", plan |-> "P1", source |-> "rev07",
         proposed |-> "rev08", day |-> "day1", scope |-> "day1"])
InvalidateSource == Invalidate("rev07")
InvalidateRepaired == Invalidate("rev08")
MCOffered ==
    {Save, InvalidateSource, InvalidateRepaired, ForgedApproval, ForgedActivation}

\* What the route can send in this instance.
MCRequests == {RequestUntil(a, p, t + Validity) :
                  a \in MCAttempts, p \in MCProposals, t \in 0..MaxNow}
MCCommands ==
    MCOffered \cup {ApprovalCommand(q) : q \in MCRequests}
              \cup {ActivationCommand(q) : q \in MCRequests}
=============================================================================
