SPECIFICATION SafetySpec
CONSTANTS
    a = a
    b = b
    tmp = tmp
    c = c
    d = d
    Gone = Gone
    NoPath = NoPath
    Paths <- MCTwoPaths
    Ignored <- MCNone
    Contents <- MCOneContent
    Budget = 3
INVARIANT RenamesAreTold
CHECK_DEADLOCK FALSE
