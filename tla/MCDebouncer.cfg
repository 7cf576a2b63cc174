SPECIFICATION Spec
CONSTANTS
    a = a
    b = b
    Paths <- MCPaths
    MaxSchedules = 4
INVARIANTS
    TypeOK
    NoLostPending
    FiredOnce
PROPERTIES
    NothingTakenAfterCancel
    EveryPendingResolved
    ImplementsSlots
CHECK_DEADLOCK FALSE
