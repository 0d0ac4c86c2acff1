SPECIFICATION Spec
CONSTANTS
    p1 = p1
    p2 = p2
    None = None
    Procs <- MCProcs
    Settings <- MCSettings
    Cuts <- MCCuts
    MaxSets = 4
    MaxSpoilt = 2
INVARIANTS
    TypeOK
    ReadsBack
PROPERTIES
    TornSparesEarlier
SYMMETRY MCSymmetry
CHECK_DEADLOCK FALSE
