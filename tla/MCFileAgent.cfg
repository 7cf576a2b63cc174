SPECIFICATION SafetySpec
CONSTANTS
    a = a
    b = b
    tmp = tmp
    c = c
    d = d
    Gone = Gone
    NoPath = NoPath
    Paths <- MCPaths
    Ignored <- MCIgnored
    Contents <- MCContents
    Budget = 4
INVARIANTS
    TypeOK
    QuietCacheExact
    IgnoredStaysOut
    QuietReported
PROPERTY LabelsTellNews
SYMMETRY MCSymmetry
CHECK_DEADLOCK FALSE
