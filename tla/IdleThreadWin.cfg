SPECIFICATION Spec
CONSTANTS
    t1 = t1
    t2 = t2
    t3 = t3
    c1 = c1
    c2 = c2
    Worker = Worker
    None = None
    Tasks <- MCTasks
    Callers <- MCCallers
    MSVC = TRUE
    MaxRunList = 2
    TaskType <- WinType
    KeepSingle <- WinKeepSingle
    SyncCallback <- WinSync
    HasCallback <- MCHasCallback
    Same <- MCSame
    Selections <- WinSelections
    HandlerTasks <- WinHandlerTasks
INVARIANTS
    TypeOK
    RunInOrder
    OnePlace
    CallbackNotLost
    OnlyKnownFaults
PROPERTIES
    CancelIsThorough
CHECK_DEADLOCK FALSE
