SPECIFICATION Spec
CONSTANTS
    u1 = u1
    u2 = u2
    k1 = k1
    k2 = k2
    None = None
    Items = {1}
    Legacy = {}
    Keyed = {1}
    Racing = {1}
    Users = {u1, u2}
    Runs = {k1, k2}
    MaxAttempts = 2
    MaxFaults = 1
SYMMETRY Symmetry
INVARIANTS
    TypeOK
    SyncingIsInFlight
    KeyedOnce
    FailedForCause
PROPERTIES
    ImplementsOutbox
