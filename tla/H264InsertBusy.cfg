CONSTANTS
    c1 = c1
    Clients = {c1}
    Modes <- WithOthers
    MaxPipeSize = 1
    Retries = 2
    MaxSec = 3
    MaxDraws = 3
    MaxConnects = 2
    Second = 3
    Pace = 1
SPECIFICATION Spec
INVARIANT WorkerAlive
