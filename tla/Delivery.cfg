SPECIFICATION Spec
CONSTANTS
    o1 = o1
    p1 = p1
    p2 = p2
    d1 = d1
    d2 = d2
    t1 = t1
    t2 = t2
    r1 = r1
    r2 = r2
    None = None
    Orders = {o1}
    Products = {p1, p2}
    Quantity <- MCQuantity
    Contents <- MCContents
    Records = {d1, d2}
    Returns = {t1}
    Requests = {r1, r2}
    MaxCount = 1
    MaxFaults = 1
SYMMETRY Symmetry
CHECK_DEADLOCK FALSE
INVARIANTS
    TypeOK
    RecordMeansShipped
    ConfirmedOnce
    ConfirmationAgrees
    GoodsFollowReturn
PROPERTY
    ImplementsOrderLife
