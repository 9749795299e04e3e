SPECIFICATION Spec
CONSTANTS
    None = None
    Keys = {k1}
    Proofs = {vague}
    Threads = {t1}
    Readers = {r1}
    Controls = {"advance", "pause", "branch", "reset"}
INVARIANTS
    GateHeld
    ModeTellsTheTruth
    NothingFromTheFuture
PROPERTIES
    StreamsFollowTheFeed
    ReadersCatchUp
    ApprovedDayPlaysOut
CHECK_DEADLOCK FALSE
