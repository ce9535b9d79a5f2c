CONSTANTS
    Process = {p1, p2}
    Hub = {p1}
    Issue = {i1}
    Command = {"write", "events"}
    Free = Free
    MaxCommits = 3
    Indexed = TRUE
    MaxRaw = 0
    MaxPulls = 0
    MaxFaults = 1
    MaxCrashes = 0
SPECIFICATION HubSpec
INVARIANTS
    MarkedHistoryIsComplete
PROPERTIES
    CommitsAreAnnounced
CHECK_DEADLOCK FALSE
