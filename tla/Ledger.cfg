SPECIFICATION Spec
CONSTANTS
    p1 = p1
    p2 = p2
    p3 = p3
    o1 = o1
    o2 = o2
    r1 = r1
    r2 = r2
    None = None
    Payments = {p1, p2, p3}
    Orders = {o1, o2}
    Grand <- MCGrand
    Requests = {r1, r2}
    MaxAmount = 2
    MaxInvoices = 2
SYMMETRY Symmetry
INVARIANTS
    TypeOK
    BalanceAccounts
    PaidIsAllocated
    InvoiceAgrees
