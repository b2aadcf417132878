SPECIFICATION Spec
CONSTANTS
    e1 = e1
    e2 = e2
    e3 = e3
    d1 = d1
    d2 = d2
    Events = {e1, e2}
    Devices = {d1, d2}
    DeviceOf <- MCDeviceOf
    PartsOf <- MCPartsOf
    Unparsable = {}
    QualityOfService = 1
    PublishMayRaise = TRUE
    MaxCrashes = 1
INVARIANTS ClearedWasHandedOver ClearedWasDelivered PackCovered
