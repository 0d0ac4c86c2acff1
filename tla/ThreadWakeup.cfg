SPECIFICATION FairSpec
CONSTANTS
    p1 = p1
    NoDraft = NoDraft
    Posters <- MCPosters
    Levels <- MCLevels
    MAXINT = 1
    MsgIds <- MCMsgIds
    WM_QUIT = 0
    Delays <- MCDelays
    TicksPerSec = 2
    MaxPosts = 1
    MaxClock = 1
PROPERTY ResumeWakes
CHECK_DEADLOCK FALSE
