SPECIFICATION FairSpec
CONSTANTS
    Kinds <- AllKinds
    Order <- TwoDevices
    MaxSamples = 1
    MaxEvents = 2
    MaxPending = 2
    ReadLimit = 1
CHECK_DEADLOCK FALSE
PROPERTIES  DevicesServed HandlerReturns
