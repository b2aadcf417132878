SPECIFICATION Spec
CONSTANTS
    Kinds <- AllKinds
    Order <- TwoDevices
    MaxSamples = 3
    MaxEvents = 2
    MaxPending = 2
    ReadLimit = 1
CONSTRAINT FewerReadings
CHECK_DEADLOCK FALSE
INVARIANTS SentOnceInOrder    
