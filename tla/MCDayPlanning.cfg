SPECIFICATION DaySpec
CONSTANTS
    None = None
    Commands <- MCCommands
    Today = "day1"
    Tomorrow = "day2"
    MaxNow = 0
    Requests <- MCRequests
    Deliveries <- MCDeliveries
    MaxDeliveries = 4
    MaxJobs = 2
    Traffic <- MCTraffic
    Readings <- MCReadings
    Ids <- MCIds
INVARIANTS
    CandidatesAreTruthful
    NothingGoesStaleUnseen
    ProposalsDoNotCompete
    AnswersAgreeWithLedger
CHECK_DEADLOCK FALSE
