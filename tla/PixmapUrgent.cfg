CONSTANTS
    c1 = c1
    c2 = c2
    Channels = {c1, c2}
    i1 = i1
    i2 = i2
    Images = {i1, i2}
    Big = {}
    Size = 1
    Modes <- MiniModes
    Migrates = FALSE
    MaxItems = 4
SYMMETRY Symmetry
SPECIFICATION Spec
CHECK_DEADLOCK FALSE
INVARIANT InvalFindsImage
