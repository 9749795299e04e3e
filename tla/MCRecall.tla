------------------------------ MODULE MCRecall ------------------------------
(***************************************************************************)
(* A recall of LOT-A from its opening to the draft of the next day: the    *)
(* barrier, the lifecycle, the recovery from LOT-B, the deadline hold for  *)
(* Site 01, a vague and a complete callback of the partner, and the        *)
(* inherited draft.  Commands arrive in any order the guards allow; some   *)
(* come from the wrong role, against a stale revision, or too early.       *)
(***************************************************************************)
EXTENDS PlanLedger

Planner == "FULFILLMENT_RECOVERY_PLANNER"
Coordinator == "INCIDENT_COORDINATOR"
Partner == "PARTNER_OPERATIONS_AGENT"
Inc == "INC-1"

Cmd(key, type, role, body) ==
    [key |-> key, inc |-> Inc, role |-> role, type |-> type,
     exp |-> "rev07", trace |-> "t1", body |-> body]

Save ==
    Cmd("save", "SAVE_PLAN_REVISION", Planner,
        [plan |-> "P1", rev |-> "rev07", status |-> "ACTIVE",
         day |-> "day1", scope |-> "day1",
         orders |-> {[order |-> "O1", agency |-> "AG1", cases |-> 3, lot |-> "LOT-A",
                      vehicle |-> "V1", status |-> "SCHEDULED"]},
         lots |-> {[lot |-> "LOT-A", hazard |-> "SAFE", cases |-> 3],
                   [lot |-> "LOT-B", hazard |-> "CLEAR_SAFE", cases |-> 2]},
         vehicles |-> {[vehicle |-> "V1", capacity |-> 4, load |-> 1,
                        operational |-> TRUE]},
         nodes |-> {[node |-> "DOCK", name |-> "Dock", cases |-> 2, ack |-> "CONFIRMED"],
                    [node |-> "SITE", name |-> "Site 01", cases |-> 1,
                     ack |-> "UNCONFIRMED"]},
         edges |-> {[edge |-> "E1", source |-> "DOCK", target |-> "SITE",
                     lot |-> "LOT-A", cases |-> 1]}])

WaitingCoordinator ==
    Cmd("wait", "PERSIST_COORDINATOR", Coordinator,
        [coordinator |-> "DAY", state |-> "WAITING_FOR_EVENTS",
         checkpoint |-> "REV07", rev |-> "rev07", children |-> {}])
Open ==
    Cmd("open", "OPEN_RECALL_INCIDENT", Coordinator,
        [incident |-> Inc, coordinator |-> "DAY", lot |-> "LOT-A",
         event |-> "notice-1", armor |-> "t1"])
Status(expected, new, unconfirmed) ==
    Cmd("status-" \o new, "SET_INCIDENT_STATUS", Coordinator,
        [incident |-> Inc, expected |-> expected, new |-> new,
         terminal |-> TerminalStateOf(new), unconfirmed |-> unconfirmed])
Barrier ==
    Cmd("barrier", "ACTIVATE_MOVEMENT_BARRIER", Coordinator,
        [barrier |-> "BAR-A", incident |-> Inc, lot |-> "LOT-A",
         workItem |-> <<"WORK", Inc, "LOT-A">>])
Invalidate ==
    Cmd("invalidate", "INVALIDATE_PLAN", Coordinator, [plan |-> "P1", rev |-> "rev07"])
Allocate(key, lot) ==
    Cmd(key, "ALLOCATE_SAFE_STOCK", Planner,
        [incident |-> Inc,
         allocations |-> {[id |-> key, agency |-> "AG1", lot |-> lot, cases |-> 2]},
         shortfalls |-> {[id |-> key \o "-short", agency |-> "AG1", cases |-> 1]}])
Refusal(role) ==
    Cmd("refuse-" \o role, "RECORD_REFUSAL", role, [incident |-> Inc, subject |-> Inc])
Hold ==
    Cmd("hold", "RECORD_ACKNOWLEDGMENT_HOLD", Partner,
        [incident |-> Inc, hold |-> "HOLD-1", lot |-> "LOT-A", site |-> "S1",
         cases |-> 1, task |-> "ack-1", partner |-> "PTR", node |-> "SITE",
         day |-> "day1"])

Said(v) == [value |-> v, anchored |-> TRUE]
Vague ==
    [incident |-> Inc, partner |-> "PTR", site |-> "S1", node |-> "SITE",
     workItem |-> <<"WORK-PCF", Inc, "PTR", "S1", "LOT-A">>,
     lot |-> Said("LOT-A"), quantity |-> None, location |-> Said("Site 01"),
     disposition |-> None, time |-> None, abstain |-> TRUE, mutation |-> None]
Complete ==
    [Vague EXCEPT !.quantity = Said(1), !.disposition = Said("ISOLATED_IN_QUARANTINE"),
                  !.time = Said("10:15"), !.abstain = FALSE,
                  !.mutation = "CONFIRM_CUSTODY"]
Evidence(event, proposal) ==
    Cmd("evidence-" \o event, "PROCESS_PARTNER_EVIDENCE", Partner,
        [event |-> event, day |-> "day1", occurred |-> "day1", text |-> event,
         partner |-> "PTR", proposal |-> proposal])
Draft(key, lot) ==
    Cmd(key, "CREATE_NEXT_DAY_DRAFT", Planner,
        [event |-> "next-day", plan |-> "PLAN-day2", date |-> "day2",
         coordinator |-> "NEXT",
         barriers |-> {[barrier |-> "BAR-A", lot |-> "LOT-A"]},
         shortfalls |-> {[id |-> "alloc-B-short", agency |-> "AG1", cases |-> 1]},
         holds |-> {[hold |-> "HOLD-1", site |-> "S1", cases |-> 1]},
         vehicles |-> {[vehicle |-> "V1", capacity |-> 4, committed |-> 1, load |-> 1,
                        stops |-> {[order |-> "N1", agency |-> "AG1", cases |-> 1,
                                    lot |-> lot, shortfall |-> "alloc-B-short"]}]},
         unassigned |-> {}])

StatusCommands ==
    {Status("DETECTED", "SCOPING", None),
     Status("SCOPING", "CONTAINMENT_IN_PROGRESS", None),
     Status("CONTAINMENT_IN_PROGRESS", "PARTIALLY_CONTAINED", 1)}
Allocations == {Allocate("alloc-A", "LOT-A"), Allocate("alloc-B", "LOT-B")}
Refusals == {Refusal(Coordinator), Refusal(Partner)}
Callbacks ==
    {Evidence("call-1", Vague), Evidence("call-2", Complete),
     Evidence("call-3", Complete)}
Drafts == {Draft("draft", "LOT-B"), Draft("draft-again", "LOT-B"),
           Draft("draft-A", "LOT-A")}

\* Commands are named definitions, so that TLC evaluates each of them once.
MCCommands ==
    {Save, WaitingCoordinator, Open, Barrier, Invalidate, Hold}
    \cup StatusCommands \cup Allocations \cup Refusals \cup Callbacks
    \cup Drafts

ASSUME HoldIdsAreNew
=============================================================================
