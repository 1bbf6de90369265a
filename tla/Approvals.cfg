SPECIFICATION Spec
CONSTANTS
    o1 = o1
    a1 = a1
    a2 = a2
    r1 = r1
    r2 = r2
    r3 = r3
    None = None
    Orders = {o1}
    ApprovalIds = {a1, a2}
    Requests = {r1, r2, r3}
SYMMETRY Symmetry
INVARIANTS
    TypeOK
    WaitsOnRequest
    DecidedOnce
    DirectApprovalSettles
