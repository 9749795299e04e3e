SPECIFICATION Spec
CONSTANTS
    None = None
    Keys = {k1}
    Proofs = {}
    Threads = {t1}
    Readers = {}
    Controls = {}
PROPERTY
    GateSurvival
CHECK_DEADLOCK FALSE
