CONSTANTS
    s1 = s1  s2 = s2
    NoSale = NoSale
    Sales = {s1, s2}
    Hopeless = {s2}
    MaxCharges = 2
    MaxLosses = 1
    MaxTroubles = 1
SPECIFICATION SyncSpec
INVARIANTS TypeOK DoneIsPaid KitchenTold SecondOrderExplained
PROPERTIES ClearsOwnCart ImplementsSpool QueueDrains
CHECK_DEADLOCK FALSE
