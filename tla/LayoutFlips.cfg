CONSTANTS
    Process = {p1}
    Issue = {issue}
    Page = {page}
    Attrs = Attrs
    Free = Free
    MaxWrites = 1
    MaxFaults = 0
SPECIFICATION Spec
PROPERTIES
    StaysUntilMigrated
CHECK_DEADLOCK FALSE
