CONSTANTS
    Process = {p1}
    Hub = {}
    Issue = {i1, i2}
    Command = {"write"}
    Free = Free
    MaxCommits = 4
    Indexed = TRUE
    MaxRaw = 1
    MaxPulls = 0
    MaxFaults = 0
    MaxCrashes = 0
SPECIFICATION Spec
INVARIANTS
    MarkedRowsAreCurrent
CHECK_DEADLOCK FALSE
