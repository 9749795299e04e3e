SPECIFICATION Spec
CONSTANTS
    None = None
    Commands <- MCCommands
    Today = "day1"
    MaxNow = 2
INVARIANTS
    TypeOK
    OneActivePerPlan
    RepairedAsApproved
    RecalledPlanStaysDown
    ReroutesFit
PROPERTIES
    RetiredRevisionsAreFinal
    ExactlyOnceCommands
CHECK_DEADLOCK FALSE
