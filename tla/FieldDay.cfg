SPECIFICATION Spec
CONSTANTS
    s1 = s1
    s2 = s2
    v1 = v1
    v2 = v2
    l1 = l1
    l2 = l2
    o1 = o1
    r1 = r1
    r2 = r2
    None = None
    SessionIds = {s1, s2}
    VisitIds = {v1, v2}
    Outlets = {l1, l2}
    OrderIds = {o1}
    Requests = {r1, r2}
    MaxDays = 1
SYMMETRY Symmetry
INVARIANTS
    TypeOK
    DaysApart
    
    DayClosesVisits
PROPERTY
    DraftHoldsVisit
