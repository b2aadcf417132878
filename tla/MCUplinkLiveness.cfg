SPECIFICATION FairSpec
CONSTANTS
    e1 = e1
    e2 = e2
    e3 = e3
    d1 = d1
    d2 = d2
    Events = {e1, e2}
    Devices = {d1, d2}
    DeviceOf <- MCDeviceOf
    PartsOf <- MCPartsOf
    Unparsable = {}
    QualityOfService = 1
    PublishMayRaise = FALSE
    MaxCrashes = 0
PROPERTIES
    EverythingIsSent
