SPECIFICATION FairSpec
CONSTANTS
    u1 = u1
    u2 = u2
    k1 = k1
    k2 = k2
    None = None
    Items = {1}
    Legacy = {1}
    Keyed = {1}
    Racing = {}
    Users = {u1, u2}
    Runs = {k1}
    MaxAttempts = 3
    MaxFaults = 2
PROPERTY
    Drains
