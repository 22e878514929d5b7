CONSTANTS
    c1 = c1
    Clients = {c1}
    Modes <- PicturesOnly
    MaxPipeSize = 1
    Retries = 2
    MaxSec = 3
    MaxDraws = 3
    MaxConnects = 2
    Second = 3
    Pace = 1
SPECIFICATION FairSpec
INVARIANTS WorkerAlive UpdatePending
PROPERTY LastPictureShown
