SPECIFICATION Spec
CONSTANTS
    u1 = u1
    u2 = u2
    k1 = k1
    k2 = k2
    None = None
    Items = {1, 2}
    Legacy = {}
    Keyed = {}
    Racing = {}
    Users = {u1, u2}
    Runs = {k1}
    MaxAttempts = 1
    MaxFaults = 1
INVARIANTS
    OwnersSessionOnly
