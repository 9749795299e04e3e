------------------------------ MODULE MCFleet ------------------------------
(***************************************************************************)
(* One notice about one lot at two nodes and on one order, and for every   *)
(* specialist the right answer together with one answer for each thing it  *)
(* may get wrong.                                                          *)
(***************************************************************************)
EXTENDS AgentFleet, TLC

MCNotice == [q1 |-> {"LOT-A"}, q2 |-> {"E. coli"}, q3 |-> {"LOT-B"},
             q4 |-> {"4 cases"}, q5 |-> {"half past nine"}]
MCGraph ==
    [positions |-> [hub |-> 3, site |-> 2, order |-> 0],
     status |-> [hub |-> "CONFIRMED", site |-> "UNCONFIRMED",
                 order |-> "TOPOLOGY_ONLY"],
     edges |-> {"hub-site"}, depth |-> 1, commitments |-> {"O1", "O2"}]
MCCandidates ==
    [asc |-> [revision |-> "rev08", outcome |-> {"ALLOC-O1"}],
     old |-> [revision |-> "rev07", outcome |-> {"ALLOC-O2"}],
     nil |-> [revision |-> "rev08", outcome |-> {}]]
\* Only the repair passes the revision it expects.
MCExpected == [t \in Triggers |-> IF t = "FLEET_FAILURE" THEN "rev08" ELSE None]

Claim(value, quote) == [value |-> value, quote |-> quote]
LeadRight ==
    [event |-> "E1", playbook |-> "recall-response-playbook-v1",
     specialists |-> {Custody, Planner}]
LeadOutputs ==
    {LeadRight,
     [LeadRight EXCEPT !.event = "E2"],
     [LeadRight EXCEPT !.playbook = "another"],
     [LeadRight EXCEPT !.specialists = {Planner}],
     [LeadRight EXCEPT !.specialists = {Custody}],
     [LeadRight EXCEPT !.specialists = {}],
     [LeadRight EXCEPT !.specialists = {Custody, Planner, Lead}]}

ExtractionRight ==
    [event |-> "E1", lot |-> Claim("LOT-A", "q1"), hazard |-> Claim("E. coli", "q2"),
     scope |-> {Claim("4 cases", "q4")}, time |-> Claim("09:30", "q5")]
ExtractionOutputs ==
    {ExtractionRight,
     [ExtractionRight EXCEPT !.hazard = None],
     [ExtractionRight EXCEPT !.event = "E2"],
     [ExtractionRight EXCEPT !.lot = None],
     [ExtractionRight EXCEPT !.lot = Claim("LOT-A", "q2")],
     [ExtractionRight EXCEPT !.lot = Claim("LOT-A", "unsaid")],
     [ExtractionRight EXCEPT !.lot = Claim("LOT-B", "q3")],
     [ExtractionRight EXCEPT !.hazard = Claim("Listeria", "q2")],
     [ExtractionRight EXCEPT !.scope = {}],
     [ExtractionRight EXCEPT !.scope = {Claim("4 cases", "q4"), Claim("9 cases", "q4")}],
     [ExtractionRight EXCEPT !.time = None],
     [ExtractionRight EXCEPT !.time = Claim("09:30", "unsaid")]}

CustodyRight ==
    [lot |-> "LOT-A", total |-> 5, confirmed |-> 3, unconfirmed |-> 2,
     nodes |-> {"site"}, depth |-> 1, containment |-> "UNCONFIRMED_DOWNSTREAM",
     positions |-> [hub |-> 3, site |-> 2], edges |-> {"hub-site"},
     commitments |-> {"O1"}, obligations |-> {"site"}]
CustodyOutputs ==
    {CustodyRight,
     [CustodyRight EXCEPT !.lot = "LOT-B"],
     [CustodyRight EXCEPT !.total = 4],
     [CustodyRight EXCEPT !.confirmed = 5],
     [CustodyRight EXCEPT !.unconfirmed = 0],
     [CustodyRight EXCEPT !.nodes = {}],
     [CustodyRight EXCEPT !.depth = 2],
     [CustodyRight EXCEPT !.containment = "FULLY_TRACED"],
     [CustodyRight EXCEPT !.positions = [hub |-> 5, site |-> 0]],
     [CustodyRight EXCEPT !.positions = [hub |-> 3, attic |-> 2]],
     [CustodyRight EXCEPT !.edges = {"attic-site"}],
     [CustodyRight EXCEPT !.commitments = {}],
     [CustodyRight EXCEPT !.obligations = {}],
     [CustodyRight EXCEPT !.obligations = {"hub", "site"}],
     [CustodyRight EXCEPT !.obligations = {"order"}]}

PlannerRight == [candidate |-> "asc", confident |-> TRUE]
PlannerOutputs ==
    {[PlannerRight EXCEPT !.candidate = c] : c \in {"asc", "old", "nil", "invented"}}
    \cup {[PlannerRight EXCEPT !.confident = FALSE]}

MCOutputs ==
    (Lead :> LeadOutputs) @@ (Extraction :> ExtractionOutputs)
    @@ (Custody :> CustodyOutputs) @@ (Planner :> PlannerOutputs)
    @@ (PartnerOps :> {})

ASSUME GraphIsCounted
=============================================================================
