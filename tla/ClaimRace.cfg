CONSTANTS
    s1 = s1
    s2 = s2
    a1 = a1
    a2 = a2
    first = first
    second = second
    Session = {s1, s2}
    Actor = {a1, a2}
    Issue = {first, second}
    Blockers <- Chain
    InUse = {"todo"}
    Options = {{}}
    Nobody = Nobody
    Ttl = 1
    MaxTime = 3
    MaxUpsets = 0
SPECIFICATION Spec
SYMMETRY Symmetry
PROPERTIES
    NoLiveClaimIsReplaced
