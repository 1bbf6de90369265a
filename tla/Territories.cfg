SPECIFICATION Spec
CONSTANTS
    NodeIds = {n1, n2, n3}
    Depth = 2
    Rounds = 1
    MaxRelabelled = 1
    Requests = {r1, r2}
    None = None
    Gone = Gone
    Same = Same
SYMMETRY Symmetry
INVARIANTS
    TypeOK
    Forest
    ParentsExist
    TeamIsWhole
CHECK_DEADLOCK FALSE
