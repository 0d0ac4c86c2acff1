SPECIFICATION FairSpec
CONSTANTS
    t1 = t1
    t2 = t2
    c1 = c1
    None = None
    NoID = NoID
    Tasks <- MCTasks
    Callers = {c1}
    m_nThreadNums = 2
    MaxRunList = 5
    KeepSingle <- MCKeepSingle
    Same <- MCSame
    OtherNums = 3
    MaxForeign = 1
INVARIANTS
    TypeOK
    SingleAmongKnown
    OnlyStrangersGoWrong
PROPERTY CallReturns
CHECK_DEADLOCK FALSE
