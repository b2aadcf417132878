SPECIFICATION Spec
CONSTANTS
    e1 = e1
    e2 = e2
    e3 = e3
    e4 = e4
    e5 = e5
    Events = {e1, e2, e3, e4, e5}
    MaxFileCount = 2
    MaxRecordsPerFile = 2
    MaxReadRecords = 3
    MaxCrashes = 2
    Torn = Torn
SYMMETRY Symmetry
CHECK_DEADLOCK FALSE
INVARIANTS FilesInPlace  DoneStaysDone PacksInOrder
