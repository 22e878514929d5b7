CONSTANTS
    HandleAcks = TRUE
    MonitorLatency = FALSE
    MonitorConn = FALSE
    CanMigrate = FALSE
    Window = 1
    Modulus = 16
    ItemKinds = {"data_deps", "data_inval", "nothing"}
    SockCap = 3
    MaxItems = 3
    MaxSetAck = 2
    MaxPingRounds = 0
SPECIFICATION FairSpec
CHECK_DEADLOCK FALSE
INVARIANTS NoItemBeingSent DisconnectedIsEmpty SerialMatchesPeer WindowAccounted
PROPERTIES FlowControlled PipeDrains
