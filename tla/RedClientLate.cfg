CONSTANTS
    Local = {"inputs"}
    Worker <- OneDevice
    NeedData = {"main", "inputs", "display", "display2"}
    Modes <- Late
    MaxLinks = 1
    MaxLatency = 0
SPECIFICATION Spec
INVARIANT ClientAlive
CHECK_DEADLOCK FALSE
