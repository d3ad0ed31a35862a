CONSTANTS
    o1 = o1  p1 = p1
    OrderIds = {o1}
    Products = {p1}
    Requests = {1}
    Batch = 3
    MaxRows = 4
    MaxLosses = 0
    MaxFaults = 0
SPECIFICATION FairSpec
PROPERTY LastWriterWins
CHECK_DEADLOCK FALSE
