CONSTANTS
    Local = {"inputs"}
    Worker <- OneDevice
    NeedData = {"main", "inputs", "display", "display2"}
    Modes <- Prompt
    MaxLinks = 2
    MaxLatency = 2
SPECIFICATION FairSpec
INVARIANTS TypeOK RccAlive ClientAlive RefsBalanced NeverAborts MigrationCount DataExpected
PROPERTIES ClientFreed MigrationTold
CHECK_DEADLOCK FALSE
