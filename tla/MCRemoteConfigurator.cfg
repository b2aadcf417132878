SPECIFICATION FairSpec
CONSTANTS
    Connectors <- Order
    GrpcConnectors = {"g"}
    MaxEdits = 1
    Settings = {"s1", "s2", "s3"}
    Reachable = {"s1", "s3"}
    First = "s1"
    MaxRequests = 2
    MaxChanges = 2
CHECK_DEADLOCK FALSE
INVARIANTS  SavedSettingsConnect StorageRuns
 
