SPECIFICATION FairSpec
CONSTANTS
    t1 = t1
    t2 = t2
    c1 = c1
    s1 = s1
    s2 = s2
    None = None
    Tasks <- MCTasks
    Callers = {c1}
    Subscribers <- MCSubscribers
    AgentCounts = 2
    OtherCounts = 3
    KeepSingle <- MCKeepSingle
    Delayed <- MCDelayed
    NoInvoker <- MCNoInvoker
    Same <- MCSame
    MaxRetries = 1
    MaxForeign = 1
INVARIANTS
    TypeOK
    OnePlace
    WorkingIsMapped
    SingleUnlessRetried
    NoticeIsExact
    FreedAfterRest
PROPERTY TaskEnds
CHECK_DEADLOCK FALSE
