SPECIFICATION Spec
CONSTANTS
    Window = 3
    Interval = 2
    SelfTokens = 1
    ReadBufs = 2
    SendTokens = 1
    Room = 1
    Modes <- Reconnect
INVARIANT NoBufferLeft
