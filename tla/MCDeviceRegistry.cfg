SPECIFICATION FairSpec
CONSTANTS
    Devices = {"d1"}
    NewNames = {"n1"}
    MaxCalls = 2
    MaxNotices = 3
    MaxFaults = 1
CHECK_DEADLOCK FALSE
INVARIANTS  DeletedStaysDeleted RegistriesAgree
 
