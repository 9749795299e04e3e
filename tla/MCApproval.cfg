SPECIFICATION RouteSpec
CONSTANTS
    None = None
    Commands <- MCCommands
    Today = "day1"
    MaxNow = 2
    Proposals <- MCProposals
    Attempts <- MCAttempts
    Validity = 1
    Offered <- MCOffered
INVARIANTS
    RepairsAreAsked
    AnswersAreTrue
PROPERTIES
    ActivatedInTime
CHECK_DEADLOCK FALSE
