CONSTANTS
    p1 = p1
    p2 = p2
    Process = {p1, p2}
    IssuePath = {issue}
    DocPath = {page, moved}
    moved = moved
    Human = human
    Absent = Absent
    Free = Free
    NoPlan = NoPlan
    MaxStaged = 2
    MaxFaults = 1
    MaxUndoFaults = 1
    MaxCrashes = 1
    MaxHuman = 1
SPECIFICATION Spec
SYMMETRY Symmetry
CONSTRAINT Bounded
INVARIANTS
    SingleWriter
    FailedWriteLeavesNothing
PROPERTIES
    NoCommittedEditLost
