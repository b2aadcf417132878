SPECIFICATION MemorySpec
CONSTANTS
    Events = {e1, e2}
    MaxRecordsCount = 3
    ReadRecordsCount = 2
    MaxPuts = 5
CHECK_DEADLOCK FALSE
INVARIANTS NothingDropped
PROPERTIES ImplementsEventStorage
