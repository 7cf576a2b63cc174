SPECIFICATION SafetySpec
CONSTANTS
    a = a
    b = b
    Paths <- MCPaths
    MaxSchedules = 3
INVARIANT FiresOnlyAfterQuiet
CHECK_DEADLOCK FALSE
