SPECIFICATION ClientSpec
CONSTANTS
    MaxFaults = 2
    MaxRefused = 1
CHECK_DEADLOCK FALSE
INVARIANTS OneConnectLoop
PROPERTIES SupervisorEnds EventuallyConnected
