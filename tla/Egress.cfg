SPECIFICATION Spec
CONSTANTS
    MaxEvents = 3
    Retries = 1
INVARIANTS
    TypeOK
    AckedIsRecorded
    AckedInOrder
    BoundedDelivery
    StopDrains
PROPERTIES
    EveryEventDecided
    ImplementsDelivery
CHECK_DEADLOCK FALSE
