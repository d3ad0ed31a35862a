CONSTANTS
    o1 = o1  p1 = p1
    OrderIds = {o1}
    Products = {p1}
    Requests = {1}
    Batch = 3
    MaxRows = 2
    MaxLosses = 0
    MaxFaults = 0
SPECIFICATION Spec
INVARIANT NoGaps
CHECK_DEADLOCK FALSE
