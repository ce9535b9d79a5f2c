CONSTANTS
    p1 = p1
    i1 = i1
    i2 = i2
    a = a
    b = b
    Process = {p1}
    Hub = {}
    Issue = {i1, i2}
    Command = {"write", "all", "events", "sync"}
    Free = Free
    MaxCommits = 3
    Indexed = FALSE
    MaxRaw = 0
    MaxPulls = 1
    MaxFaults = 0
    MaxCrashes = 2
    Clone = {a, b}
    Prepared = {a}
    Keys = {"status"}
    Legal = {}
    Settable <- MCSettable
    Start <- MCStart
    Network = TRUE
    Overlap = TRUE
    MaxRetries = 2
    MaxEdits = 1
SPECIFICATION ProgressSpec
INVARIANTS
    MarkedRowsAreCurrent
PROPERTIES
    ReaderCatchesUp
    NoCommitIsDropped
    SyncEnds
CHECK_DEADLOCK FALSE
