SPECIFICATION Spec
CONSTANTS
    None = None
    Requests = {h1, h2, h3}
    Strays = {s1}
    MaxSessions = 1
INVARIANTS
    EverySessionIsRemembered
    ClosedSessionsLeave
PROPERTIES
    StoreSettles
CHECK_DEADLOCK FALSE
