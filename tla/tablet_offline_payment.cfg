CONSTANTS
    s1 = s1  s2 = s2
    NoSale = NoSale
    Sales = {s1}
    Hopeless = {}
    MaxCharges = 1
    MaxLosses = 0
    MaxTroubles = 0
SPECIFICATION FairSpec
PROPERTY OfflinePaymentSyncs
CHECK_DEADLOCK FALSE
