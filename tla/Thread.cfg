SPECIFICATION FairSpec
CONSTANTS
    p1 = p1
    NoDraft = NoDraft
    Posters <- MCPosters
    Levels <- MCLevels
    MAXINT = 1
    MsgIds <- MCMsgIds
    WM_QUIT = 0
    Delays <- MCDelays
    TicksPerSec = 2
    MaxPosts = 2
    MaxClock = 2
INVARIANTS
    TypeOK
    ServedInOrder
    NeverASecondEarly
    SuspendHolds
PROPERTIES
    MailboxSpec
    StopReturns
CHECK_DEADLOCK FALSE
