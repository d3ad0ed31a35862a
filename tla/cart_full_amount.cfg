\* A delivery is charged one fee too much.
SPECIFICATION Spec
CONSTANTS
    Items = {"tea", "cake"}
    Taxable = {"cake"}
    Price <- MCPrice
    NewPrices <- MCNewPrices
    Gone = Gone
    BuiltIn <- MCBuiltIn
    Settings <- MCSettings
    LineDiscounts = {15}
    OrderDiscounts = {0, 5}
    Fees = {3}
    HoldIds = {}
    Methods = {"cash", "card", "split"}
    NoFee = NoFee
    MaxPieces = 2
    MaxEdits = 1
    MaxHolding = 0
    MaxTogether = 3
PROPERTIES FullAmountSent
