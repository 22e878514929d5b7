CONSTANTS
    c1 = c1
    c2 = c2
    Clients = {c1, c2}
    Modes <- Shared
    MaxPipeSize = 1
    Retries = 1
    MaxSec = 3
    MaxDraws = 2
    MaxConnects = 2
    Second = 3
    Pace = 1
SPECIFICATION Spec
SYMMETRY Symmetry
INVARIANTS TypeOK FrameRate FrameIntact
PROPERTY NoOlderPicture
