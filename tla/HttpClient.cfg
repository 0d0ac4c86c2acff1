SPECIFICATION FairClientSpec
CONSTANTS
    TRYCOUNT_DOWNLOAD = 2
    TryCounts <- MCTryCounts
    Sizes <- MCSizes
    BodySize = 2
    MaxBegun = 3
INVARIANTS
    ClientTypeOK
    FileIsPrefix
    SuccessIsWhole
    DataIsOfLastTry
PROPERTY CallReturns
CHECK_DEADLOCK FALSE
