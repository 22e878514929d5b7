CONSTANTS
    HandleAcks = FALSE
    MonitorLatency = TRUE
    MonitorConn = TRUE
    CanMigrate = TRUE
    Window = 1
    Modulus = 16
    ItemKinds = {"data", "empty"}
    SockCap = 2
    MaxItems = 1
    MaxSetAck = 0
    MaxPingRounds = 2
SPECIFICATION FairSpec
CHECK_DEADLOCK FALSE
INVARIANTS TypeOK PingsOutstanding NoConnectivityMismatch
PROPERTY LatencyTestEnds
