SPECIFICATION Spec
CONSTANTS
    c1 = c1
    s1 = s1
    s2 = s2
    k1 = k1
    r1 = r1
    r2 = r2
    None = None
    Clients = {c1}
    SessionIds = {s1, s2}
    Links = {k1}
    Requests = {r1, r2}
    MaxRotated = 1
    MaxTokens = 2
    MaxFaults = 1
SYMMETRY Symmetry
CHECK_DEADLOCK FALSE
INVARIANTS
    TypeOK
    HeldIsHonoured
    IssuedIsKnown
    ResetKicksOut
PROPERTY
    ImplementsTokenChain
