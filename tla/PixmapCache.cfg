CONSTANTS
    c1 = c1
    c2 = c2
    Channels = {c1, c2}
    i1 = i1
    i2 = i2
    i3 = i3
    Images = {i1, i2, i3}
    Big = {i3}
    Size = 2
    Modes <- OrderedModes
    Migrates = TRUE
    MaxItems = 3
SYMMETRY Symmetry
SPECIFICATION Spec
CHECK_DEADLOCK FALSE
INVARIANTS TypeOK NoStandstill NothingMissing NothingLeft SizeAccounted
