--------------------------- MODULE MCDayPlanning ---------------------------
(***************************************************************************)
(* One operating day: the morning plan, two vehicle faults, one repair that*)
(* is approved, the recall of LOT-A up to its deadline hold beside a late  *)
(* recall of LOT-C, a partner's evidence and the draft of the next day.    *)
(* The safe lots cover the recalled one in part: three agencies stay       *)
(* short, one of them by more than any lot or vehicle can take.            *)
(***************************************************************************)
EXTENDS DayPlanning

Line(o, agency, cases, lot, vehicle) ==
    [order |-> o, agency |-> agency, cases |-> cases, lot |-> lot,
     vehicle |-> vehicle, status |-> "SCHEDULED"]
Lot(id, hazard, cases) == [lot |-> id, hazard |-> hazard, cases |-> cases]
Vehicle(id, load) ==
    [vehicle |-> id, capacity |-> 6, load |-> load, operational |-> TRUE]
Plan ==
    [plan |-> "PLAN-day1", rev |-> "rev07", status |-> "ACTIVE",
     day |-> "day1", scope |-> "day1",
     orders |-> {Line("O1", "AG1", 4, "LOT-A", "V1"), Line("O2", "AG2", 3, "LOT-A", "V1"),
                 Line("O3", "AG3", 4, "LOT-A", "V2"), Line("O4", "AG1", 1, "LOT-C", "V2"),
                 Line("O5", "AG4", 2, "LOT-A", "V2")},
     lots |-> {Lot("LOT-A", "SAFE", 13), Lot("LOT-B", "CLEAR_SAFE", 3),
               Lot("LOT-C", "CLEAR_SAFE", 2)},
     vehicles |-> {Vehicle("V1", 4), Vehicle("V2", 3)},
     nodes |-> {[node |-> "DOCK", name |-> "Dock", cases |-> 11, ack |-> "CONFIRMED"],
                [node |-> "SITE", name |-> "Site 01", cases |-> 2, ack |-> "UNCONFIRMED"]},
     edges |-> {[edge |-> "E1", source |-> "DOCK", target |-> "SITE", lot |-> "LOT-A",
                 cases |-> 2]}]
\* The same plan published again with a correction.
Corrected == [Plan EXCEPT !.lots = {Lot("LOT-A", "SAFE", 13), Lot("LOT-B", "CLEAR_SAFE", 3),
                                    Lot("LOT-C", "CLEAR_SAFE", 3)}]

Request(kind, id, body) == [kind |-> kind, id |-> id, body |-> body]
Morning == Request("PLAN_DAY", "m1", Plan)
MorningAgain == Request("PLAN_DAY", "m2", Corrected)
NextDay == Request("PLAN_NEXT_DAY", "m3", None)
FaultOne == Request("FAULT", "f1", "V1")
FaultTwo == Request("FAULT", "f2", "V2")
Wait == Request("WAIT", "INC-DAY",
                [coordinator |-> "DAY", state |-> "WAITING_FOR_EVENTS",
                 checkpoint |-> "REV08", rev |-> "rev08", children |-> {}])
Callback == Request("EVIDENCE", "e1", [inc |-> "INC-1", partner |-> "PTR",
                                       text |-> "isolated", day |-> "day1"])
MCRequests == {Morning, MorningAgain, NextDay, FaultOne, FaultTwo, Wait,
               Callback}
MCDeliveries ==
    [q \in MCRequests |-> IF q \in {NextDay, Callback} THEN 2 ELSE 1]

-----------------------------------------------------------------------------
Coordinator == "INCIDENT_COORDINATOR"
Planner == "FULFILLMENT_RECOVERY_PLANNER"

Diff == [rerouteOrder |-> "O2", rerouteCases |-> 3, rerouteTarget |-> "V2",
         pickupOrder |-> "O1", pickupCases |-> 4]
Approve ==
    Cmd("approve", "INC-TRUCK", Planner, "PERSIST_REPAIR_APPROVAL", "rev07",
        [approval |-> "APP", plan |-> "PLAN-day1", source |-> "rev07",
         proposed |-> "rev08", day |-> "day1", scope |-> "day1", diff |-> Diff,
         hash |-> DiffHash("rev07", "rev08", Diff), expires |-> 1])
Activate ==
    Cmd("approve:activate", "INC-TRUCK", Planner, "ACTIVATE_APPROVED_REPAIR_PLAN",
        "rev07",
        [approval |-> "APP", plan |-> "PLAN-day1", source |-> "rev07",
         proposed |-> "rev08", day |-> "day1", scope |-> "day1"])

Saga(inc, action, role, type, body) ==
    Cmd(inc \o ":" \o action, inc, role, type, "rev08", body)
Open(inc, lot) ==
    Saga(inc, "open", Coordinator, "OPEN_RECALL_INCIDENT",
         [incident |-> inc, coordinator |-> "DAY", lot |-> lot,
          event |-> "notice-" \o inc, armor |-> "trace"])
Status(inc, expected, new, unconfirmed) ==
    Saga(inc, "status:" \o new, Coordinator, "SET_INCIDENT_STATUS",
         [incident |-> inc, expected |-> expected, new |-> new,
          terminal |-> TerminalStateOf(new), unconfirmed |-> unconfirmed])
Barrier(inc, lot) ==
    Saga(inc, "movement-barrier", Coordinator, "ACTIVATE_MOVEMENT_BARRIER",
         [barrier |-> "BARRIER-" \o lot, incident |-> inc, lot |-> lot,
          workItem |-> <<"WORK", inc, lot>>])
Invalidate ==
    Saga("INC-1", "plan:invalidate", Coordinator, "INVALIDATE_PLAN",
         [plan |-> "PLAN-day1", rev |-> "rev08"])
Allocation(agency, lot, cases) ==
    [id |-> "ALLOC-" \o agency \o "-" \o lot, agency |-> agency, lot |-> lot,
     cases |-> cases]
Allocate ==
    Saga("INC-1", "safe-recovery", Planner, "ALLOCATE_SAFE_STOCK",
         [incident |-> "INC-1",
          allocations |-> {Allocation("AG1", "LOT-B", 3), Allocation("AG1", "LOT-C", 1),
                           Allocation("AG2", "LOT-C", 1)},
          shortfalls |-> {[id |-> "SHORT-2", agency |-> "AG2", cases |-> 2],
                          [id |-> "SHORT-3", agency |-> "AG3", cases |-> 4],
                          [id |-> "SHORT-5", agency |-> "AG4", cases |-> 2]}])
Hold ==
    Cmd("cloud-task:ack", "INC-1", "PARTNER_OPERATIONS_AGENT",
        "RECORD_ACKNOWLEDGMENT_HOLD", None,
        [incident |-> "INC-1", hold |-> "HOLD-1", lot |-> "LOT-A", site |-> "S1",
         cases |-> 2, task |-> "ack", partner |-> "PTR", node |-> "SITE",
         day |-> "day1"])
MCTraffic ==
    [operator |-> <<Approve, Activate>>,
     recall |-> <<Open("INC-1", "LOT-A"), Status("INC-1", "DETECTED", "SCOPING", None),
                  Barrier("INC-1", "LOT-A"),
                  Status("INC-1", "SCOPING", "CONTAINMENT_IN_PROGRESS", None),
                  Invalidate, Allocate,
                  Status("INC-1", "CONTAINMENT_IN_PROGRESS", "PARTIALLY_CONTAINED", 2),
                  Hold>>,
     late |-> <<Open("INC-2", "LOT-C"), Status("INC-2", "DETECTED", "SCOPING", None),
                Barrier("INC-2", "LOT-C")>>]

Said(v) == [value |-> v, anchored |-> TRUE]
Complete ==
    [incident |-> "INC-1", partner |-> "PTR", site |-> "S1", node |-> "SITE",
     workItem |-> <<"WORK-PCF", "INC-1", "PTR", "S1", "LOT-A">>,
     lot |-> Said("LOT-A"), quantity |-> Said(2), location |-> Said("Site 01"),
     disposition |-> Said("ISOLATED_IN_QUARANTINE"), time |-> Said("10:15"),
     abstain |-> FALSE, mutation |-> "CONFIRM_CUSTODY"]
Vague == [Complete EXCEPT !.quantity = None, !.abstain = TRUE, !.mutation = None]
MCReadings == {Complete, Vague}

MCIds == <<"AG1", "AG2", "AG3", "AG4", "CAND-PLAN-day2-SHORT-2", "CAND-PLAN-day2-SHORT-5",
           "LOT-A", "LOT-B", "LOT-C", "O1", "O2", "O3", "O4", "O5",
           "SHORT-2", "SHORT-3", "SHORT-5", "V1", "V2">>

-----------------------------------------------------------------------------
(* What the handlers can send in this instance *)

Proposal(q, capacity, committed, diff) ==
    PlannerCmd(RepairKey("rev07", q), "NONE", "PERSIST_REPAIR_PROPOSAL", "rev07",
        [proposal |-> "PROP-rev07" \o q.id, event |-> q.id, plan |-> "PLAN-day1",
         source |-> "rev07", proposed |-> "rev08", vehicle |-> q.body,
         capacity |-> capacity, committed |-> committed, diff |-> diff])
ProposalOne == Proposal(FaultOne, 6, 3, Diff)
ProposalTwo ==
    Proposal(FaultTwo, 6, 4,
        [rerouteOrder |-> "O4", rerouteCases |-> 1, rerouteTarget |-> "V1",
         pickupOrder |-> "O3", pickupCases |-> 4])
Callbacks(q, proposal) ==
    Cmd("partner-evidence:" \o q.id, "INC-1", "PARTNER_OPERATIONS_AGENT",
        "PROCESS_PARTNER_EVIDENCE", "rev08",
        [event |-> q.id, day |-> "day1", occurred |-> "day1", text |-> q.body.text,
         partner |-> "PTR", proposal |-> proposal])
ServedBy(n, agency, lot) ==
    [order |-> "CAND-PLAN-day2-SHORT-" \o n, agency |-> agency, cases |-> 2,
     lot |-> lot, shortfall |-> "SHORT-" \o n]
On(vehicle, load, stop) ==
    [vehicle |-> vehicle, capacity |-> 6, committed |-> load, load |-> 2,
     stops |-> {stop}]
Draft ==
    PlannerCmd("PLAN-day2:rev01:day-close", "INC-1", "CREATE_NEXT_DAY_DRAFT", "rev08",
        [event |-> "NEXTDAY-PLAN-day2", plan |-> "PLAN-day2", date |-> "day2",
         coordinator |-> "COORD-day2",
         barriers |-> {[barrier |-> "BARRIER-LOT-A", lot |-> "LOT-A"]},
         shortfalls |-> Allocate.body.shortfalls,
         holds |-> {[hold |-> "HOLD-1", site |-> "S1", cases |-> 2]},
         vehicles |-> {On("V1", 4, ServedBy("2", "AG2", "LOT-B")),
                       On("V2", 3, ServedBy("5", "AG4", "LOT-C"))},
         unassigned |-> {[shortfall |-> "SHORT-3", agency |-> "AG3", cases |-> 4]}])
MCCommands ==
    UNION {Range(MCTraffic[k]) : k \in DOMAIN MCTraffic}
    \cup {MorningPlan(Morning), MorningPlan(MorningAgain), Waiting(Wait),
          ProposalOne, ProposalTwo, Draft}
    \cup {Callbacks(Callback, p) : p \in MCReadings}

ASSUME /\ OnlyFaultsPropose /\ MorningKeysTell /\ IdsAreListed /\ OnePlanOfTheDay
       /\ RepairsMakeRev08 /\ FaultEventsTell /\ NextDayEventsTell
       /\ HoldIdsAreNew /\ HoldIdsTell /\ BarrierIdsTell /\ RecallsTakeRev08Down
=============================================================================
