SPECIFICATION FairSpec
CONSTANTS
    o1 = o1
    o2 = o2
    p = p
    b1 = b1
    b2 = b2
    r1 = r1
    r2 = r2
    None = None
    Orders = {o1, o2}
    Products = {p}
    Batches = {b1, b2}
    ProductOf <- MCProductOf
    Demand <- MCDemand
    Perishable = {b1}
    OwnBatches = {b1}
    Opening <- MCOpening
    Adjustments <- NoEdits
    Requests = {}
    MaxQty = 2
    MaxStock = 2
    MaxFaults = 1
    MaxStale = 2
CHECK_DEADLOCK FALSE
PROPERTIES
    HeldOrdersExpire
