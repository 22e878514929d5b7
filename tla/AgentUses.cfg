SPECIFICATION Spec
CONSTANTS
    Window = 2
    Interval = 2
    SelfTokens = 1
    ReadBufs = 1
    SendTokens = 1
    Room = 1
    Modes <- OldAndNew
INVARIANTS TypeOK TokenAccounting SelfAccounting WriteRetried ReadRetried NeverAborts
PROPERTY MouseServed
