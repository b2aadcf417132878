SPECIFICATION FairSpec
CONSTANTS
    r1 = r1
    r2 = r2
    d1 = d1
    Requests = {r1, r2}
    Devices = {d1}
    DeviceOf <- MCDeviceOf
    TwoWay = {r1, r2}
    MaxChanges = 1
    NoRequest = NoRequest
CHECK_DEADLOCK FALSE
INVARIANTS  AnswerIsExpected
PROPERTIES QueuedIsTaken ScheduledIsCalled
