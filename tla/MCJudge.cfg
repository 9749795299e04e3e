SPECIFICATION Spec
CONSTANTS
    None = None
    Judges = {"a", "b"}
    Tabs <- MCTabs
    JudgeOf <- MCJudgeOf
    Sids = {s1, s2, s3}
    Ttl = 2
    MaxNow = 4
INVARIANTS
    OneRunAtATime
    OneLoginPerJudge
CHECK_DEADLOCK FALSE
