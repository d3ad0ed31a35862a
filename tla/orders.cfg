CONSTANTS
    o1 = o1  o2 = o2  d1 = d1  k1 = k1  beans = beans  milk = milk
    NoId = NoId
    OrderIds = {o1, o2}
    DeviceIds = {d1}
    Keys = {k1}
    Carts = {"latte"}
    Ings = {beans}
    Recipe <- MCRecipe
    Discounts = {0, 1}
    CartTotal <- MCTotal
    EditTotal <- MCEditTotal
    Amounts = {1, 3}
    Opening <- MCOpening
    MaxManual = 1
    Quantities = {1}
    HoldFrom = {"open", "held"}
    MaxCharges = 2
    MaxCrashes = 1
SPECIFICATION Spec
SYMMETRY Sym
INVARIANTS TypeOK OneOrderPerDevice StatusMatchesTill ReturnedOnce StockExplained StaleByCrashOnly
PROPERTY ImplementsSale
CHECK_DEADLOCK FALSE
