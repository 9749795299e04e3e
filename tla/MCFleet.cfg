SPECIFICATION Spec
CONSTANTS
    None = None
    Event = "E1"
    Lot = "LOT-A"
    Notice <- MCNotice
    Anchored = {"LOT-A", "LOT-B"}
    Graph <- MCGraph
    Candidates <- MCCandidates
    Expected <- MCExpected
    Outputs <- MCOutputs
INVARIANTS
    ProposalsAreGrounded
    LeadGatesDispatch
    TraceTellsTheRun
PROPERTIES
    RunsEnd
CHECK_DEADLOCK FALSE
