SPECIFICATION Spec
CONSTANTS
    None = None
    Commands <- MCCommands
    Today = "day1"
    MaxNow = 0
INVARIANTS
    BarredLotsStayRecalled
    CustodyConfirmedOnce
    HoldsHaveWork
PROPERTIES
    NothingNewFromABarredLot
    RecallNeverRegresses
CHECK_DEADLOCK FALSE
