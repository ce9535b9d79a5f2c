CONSTANTS
    s1 = s1
    s2 = s2
    n1 = n1
    n2 = n2
    e1 = e1
    e2 = e2
    Session = {s1, s2}
    Ops = {"create", "delete", "renumber", "policy"}
    Nobody = Nobody
    MaxIssues = 3
    Batch = 2
    Limit = 4
    Gone = Gone
    Unnumbered = Unnumbered
    Sessions = {s1, s2}
    Pages = {1, 2}
    Names = {n1, n2}
    Envs = {e1, e2}
    None = None
    MaxSpec = 2
    MaxCalls = 3
    Process = {s1, s2}
    Issue = {"issue"}
    Page = {"page"}
    Attrs = Attrs
    Free = Free
    MaxWrites = 2
    MaxFaults = 1
    Clone = {s1, s2}
    Prepared = {s1, s2}
    Keys = {"claimed_by", "labels"}
    Legal = {}
    Settable <- MCSettable
    Start <- MCStart
    Network = FALSE
    Overlap = FALSE
    MaxRetries = 1
    MaxEdits = 2
    Upgrader = {s1, s2}
    Version = {v1, v2, v3}
    Signed = {v2, v3}
    Installed = v1
    Latest = Latest
    MaxUpgrades = 3
SPECIFICATION BenchSpec
SYMMETRY Symmetry
CONSTRAINT Bounded
INVARIANTS
    HeldSeamsWereProven
    SettledRowsAreTheFences
    MigrationIsWhole
    ReplaysAreFaithful
    BinaryIsWhole
    SetupIsSafe
PROPERTIES
    NumbersAreSound
    NamedScenariosStay
    ProofsAreKept
CHECK_DEADLOCK FALSE
