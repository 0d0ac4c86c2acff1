SPECIFICATION FairSpec
CONSTANTS
    t1 = t1
    t2 = t2
    t3 = t3
    c1 = c1
    c2 = c2
    Worker = Worker
    None = None
    Tasks <- MCTasks
    Callers <- MCCallers
    MSVC = FALSE
    MaxRunList = 2
    TaskType <- PosixType
    KeepSingle <- PosixKeepSingle
    SyncCallback <- WinSync
    HasCallback <- MCHasCallback
    Same <- MCSame
    Selections <- PosixSelections
    HandlerTasks <- WinHandlerTasks
PROPERTIES
    AcceptedIsRun
CHECK_DEADLOCK FALSE
