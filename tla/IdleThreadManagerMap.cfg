SPECIFICATION Spec
CONSTANTS
    t1 = t1
    t2 = t2
    c1 = c1
    None = None
    NoID = NoID
    Tasks <- MCTasks
    Callers = {c1}
    m_nThreadNums = 2
    MaxRunList = 5
    KeepSingle <- MCKeepSingle
    Same <- MCSame
    OtherNums = 0
    MaxForeign = 0
INVARIANT MapTellsThread
CHECK_DEADLOCK FALSE
