SPECIFICATION Spec
CONSTANTS
    t1 = t1
    t2 = t2
    Threads <- MCThreads
    Zone <- MCZone
    Nows <- MCNows
    Dates <- MCDates
    Settings <- MCSettings
    Amounts <- MCAmounts
    Spans <- MCSpans
    MaxCalls = 2
    MaxParsing = 1
INVARIANTS
    TypeOK
PROPERTIES
    ParsesBack
    SpansAreExact
SYMMETRY MCSymmetry
CHECK_DEADLOCK FALSE
