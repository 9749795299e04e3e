SPECIFICATION RecallSpec
CONSTANTS
    None = None
    Commands <- MCCommands
    Today = "day1"
    Tomorrow = "day2"
    MaxNow = 0
    Notices <- MCNotices
    Traces <- MCTraces
    Offered <- MCOffered
    SiteBinding <- MCSiteBinding
INVARIANTS
    OneWriterPerRecall
    StatusTellsTheTruth
    ContainedLotsAreNotShipped
    SafeStockPromisedOnce
    RecoveryAccountsForEveryCase
PROPERTIES
    DeadlineIsRecorded
CHECK_DEADLOCK FALSE
