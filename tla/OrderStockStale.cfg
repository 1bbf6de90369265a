SPECIFICATION Spec
CONSTANTS
    o1 = o1
    o2 = o2
    p = p
    b1 = b1
    b2 = b2
    r1 = r1
    r2 = r2
    None = None
    Orders = {o1}
    Products = {p}
    Batches = {b1}
    ProductOf <- MCProductOf
    Demand <- MCDemand
    Perishable = {b1}
    OwnBatches = {b1}
    Opening <- MCOpening
    Adjustments <- Edits
    Requests = {r1, r2}
    MaxQty = 2
    MaxStock = 3
    MaxFaults = 1
    MaxStale = 1
SYMMETRY Symmetry
CHECK_DEADLOCK FALSE
INVARIANTS
    StockConservation
    ApprovedIsFilled
