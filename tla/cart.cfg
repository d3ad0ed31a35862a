\* Two carts parked, or one with a discount, a fee, an edit or a charge left alone.
SPECIFICATION Spec
CONSTANTS
    Items = {"tea"}
    Taxable = {"tea"}
    Price <- MCPrice
    NewPrices <- MCNewPrices
    Gone = Gone
    BuiltIn <- MCBuiltIn
    Settings <- MCSettings
    LineDiscounts = {15}
    OrderDiscounts = {5}
    Fees = {3}
    HoldIds = {h1, h2}
    Methods = {"card"}
    NoFee = NoFee
    MaxPieces = 2
    MaxEdits = 1
    MaxHolding = 2
    MaxTogether = 2
INVARIANTS TypeOK
PROPERTIES ChargedIsDue NotOvercharged CartsKept
SYMMETRY Symmetry
