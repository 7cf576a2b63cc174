SPECIFICATION Spec
CONSTANTS
    a = a
    b = b
    tmp = tmp
    c = c
    d = d
    Gone = Gone
    NoPath = NoPath
    Paths <- MCTwoPaths
    Ignored <- MCNone
    Contents <- MCOneContent
    Budget = 4
PROPERTIES
    Settles
    StopTerminates
CHECK_DEADLOCK FALSE
