CONSTANTS
    s1 = s1
    s2 = s2
    a1 = a1
    a2 = a2
    first = first
    second = second
    Session = {s1, s2}
    Actor = {a1, a2}
    Issue = {first, second}
    Blockers <- Chain
    InUse = {"todo", "done"}
    Options = {{}, {"takeover"}, {"renew"}, {"release"}}
    Nobody = Nobody
    Ttl = 1
    MaxTime = 2
    MaxUpsets = 1
SPECIFICATION Spec
SYMMETRY Symmetry
CONSTRAINT Bounded
PROPERTIES
    LiveClaimsAreRespected
    TtlIsGranted
    BlockersAreDone
    EditsDoNotCross
