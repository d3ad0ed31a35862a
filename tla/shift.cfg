\* Two cashiers, one of whom may refund; each order costs 2 and is charged a fee too
\* much, and a split has 1 in cash.
SPECIFICATION Spec
CONSTANTS
    Users = {"ann", "ben"}
    Refunders = {"ann"}
    OrderIds = {o1, o2}
    Total <- MCTotal
    CashPart <- MCCashPart
    Charges = {3}
    Methods = {"cash", "split", "card", "bank_transfer"}
    Floats = {5}
    Miscounts = {0}
    None = None
    MaxClock = 7
    MaxShifts = 2
    MaxRefunds = 1
    DayLength = 4
INVARIANTS TypeOK CountedOnce ReportMatchesShifts BooksAddUp
PROPERTIES ClosingExplained
SYMMETRY Symmetry
CHECK_DEADLOCK FALSE
