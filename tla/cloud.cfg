\* Two rows make a batch, so that a full one can be refused.
CONSTANTS
    o1 = o1  p1 = p1
    OrderIds = {o1}
    Products = {p1}
    Requests = {1, 2}
    Batch = 2
    MaxRows = 4
    MaxLosses = 1
    MaxFaults = 1
SPECIFICATION FairSpec
INVARIANTS TypeOK GapsExplained NothingPassedOver MirrorNotStale
PROPERTIES OutboxDrains CatalogSettles
CHECK_DEADLOCK FALSE
