CONSTANTS
    Process = {p1, p2}
    IssuePath = {issue}
    DocPath = {page, moved}
    Human = human
    Absent = Absent
    Free = Free
    NoPlan = NoPlan
    MaxStaged = 2
    MaxFaults = 1
    MaxUndoFaults = 0
    MaxCrashes = 0
    MaxHuman = 0
    t1 = t1
    fa = fa
SPECIFICATION MCSpec
PROPERTIES
    ImplementsAtomicCommit
    BusyIsTemporary
    NoOrphanServes
CHECK_DEADLOCK FALSE
