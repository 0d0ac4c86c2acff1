SPECIFICATION Spec
CONSTANTS
    Configs <- MCConfigs
    MB = 2
    MaxMove = 2
    MaxEntries = 7
    MaxRuns = 2
INVARIANTS
    TypeOK
    EntriesInOrder
    NothingElseLost
    FilesBounded
    KeptUnlessTorn
CHECK_DEADLOCK FALSE
