------------------------------- MODULE PosCart --------------------------------
(***************************************************************************)
(* The till screen of a tablet: the cart, the carts parked on the device,  *)
(* the amount the payment dialog asks for, and what the server makes of    *)
(* the order and the payment when they reach it.                           *)
(*                                                                         *)
(* An item is a product with a choice of modifier options; its price is    *)
(* the product's with the options'.  The screen prices a cart from its     *)
(* copy of the catalogue, the server from its own.  Parking a cart waits   *)
(* for IndexedDB once, resuming one twice, a charge for the server; every  *)
(* dialog can be left meanwhile and other handlers run.  One charge waits  *)
(* at a time; what becomes of several, and of lost answers, is PosTablet's.*)
(*                                                                         *)
(* Not the program's are quoted, what the payment dialog computed its      *)
(* amount from, overtaken, that the cart was changed below the open dialog *)
(* since, and disturbed, that while a cart is being parked or resumed      *)
(* something else changed the cart or was begun.                           *)
(***************************************************************************)
EXTENDS Integers, Sequences, FiniteSets, FiniteSetsExt, SequencesExt

CONSTANTS
    Items,          \* products with their options
    Taxable,        \* the items that are taxed
    Price,          \* Price[i]: the price the day starts with
    NewPrices,      \* NewPrices[i]: the prices an edit of the catalogue may set
    Gone,           \* instead of a price: the product is not active
    BuiltIn,        \* the tax and service percentages the tablet has built in
    Settings,       \* the percentages an admin may set
    LineDiscounts,  \* what the item discount dialog is given
    OrderDiscounts, \* what the order discount dialog is given
    Fees,           \* delivery fees
    Methods,        \* ways to pay, of those the server tells apart
    HoldIds,        \* ids of parked carts
    NoFee,          \* deliveryInfo is null
    MaxPieces,      \* bound: pieces in the cart
    MaxEdits,       \* bound: changes of the catalogue and the settings
    MaxHolding,     \* bound: runs of holdCurrent under way
    MaxTogether     \* bound: while a cart is parked, changes of the catalogue, parked
                    \* carts, a fee, discounts and a charge left alone at a time

Rates == [tax : Nat, service : Nat]

ASSUME ConstantsAssumption ==
    /\ Taxable \subseteq Items
    /\ Price \in [Items -> Nat]
    /\ NewPrices \in [Items -> SUBSET (Nat \cup {Gone})]
    /\ BuiltIn \in Rates
    /\ Settings \subseteq Rates
    /\ LineDiscounts \cup OrderDiscounts \subseteq Int
    /\ Fees \subseteq Nat
    /\ NoFee \notin Fees
    /\ Methods \subseteq {"cash", "card", "split"}
    /\ {MaxPieces, MaxEdits, MaxHolding, MaxTogether} \subseteq Nat

VARIABLES
    menu,          \* products of the server, with their prices
    settings,      \* the server's tax and service percentages
    edits,         \* how often these two were changed
    products,      \* the store's copy of the menu
    cart,
    orderType,
    orderDiscount,
    deliveryInfo,  \* the fee, or NoFee
    memo,          \* the total the cart panel computed last
    heldOrders,    \* the parked carts; an empty one is no row
    holding,       \* runs of holdCurrent that wait for the row to be put
    fetching,      \* rows that a run of resume waits to read
    resuming,      \* rows that a run of resume waits to delete
    dialog,
    grand,         \* the amount of the open payment dialog
    quoted,
    overtaken,
    sale,          \* the charge the server has to answer
    disturbed

catalogVars == <<menu, settings, edits>>
orderVars == <<orderType, orderDiscount, deliveryInfo>>
holdVars == <<heldOrders, holding, fetching, resuming>>
payVars == <<grand, quoted, overtaken, sale>>
vars == <<catalogVars, products, cart, orderVars, memo, holdVars, dialog, payVars, disturbed>>

-------------------------------------------------------------------------------
(* Money *)

\* Math.round(n / d): half a cent goes up.
Round(n, d) == (2 * n + d) \div (2 * d)

Clamp(x, low, high) == Min({Max({x, low}), high})

\* computeTotals of lines that cost lineTotal and are taxed where taxed says.
ComputeTotals(lineTotal, taxed, discount, rates, fee) ==
    LET subtotal == SumFunction(lineTotal)
        after == subtotal - Clamp(discount, 0, subtotal)
        taxable == SumFunctionOnSet(lineTotal, taxed)
        base == IF subtotal > 0 THEN Round(after * taxable, subtotal) ELSE 0
    IN after + Round(base * rates.tax, 100) + Round(after * rates.service, 100) + fee

PriceIn(catalog, i) == IF catalog[i] = Gone THEN 0 ELSE catalog[i]

TaxedLines(lines) == {n \in DOMAIN lines : lines[n].item \in Taxable}

\* The screen's line total: a product that left the copy costs nothing, and
\* the discount may exceed the line.
LineTotal(l) == l.qty * PriceIn(products, l.item) - l.discount

\* resolveLines: the server keeps the discount within the line.
ResolvedTotal(l) ==
    l.qty * PriceIn(menu, l.item) - Clamp(l.discount, 0, l.qty * PriceIn(menu, l.item))

Fee == IF orderType = "delivery" /\ deliveryInfo # NoFee THEN deliveryInfo ELSE 0

\* Mutation: the amount of the dialog forgets the order discount.
ScreenTotalUndiscounted ==
    ComputeTotals([n \in DOMAIN cart |-> LineTotal(cart[n])], TaxedLines(cart), 0, BuiltIn, Fee)

ScreenTotal ==
    ComputeTotals([n \in DOMAIN cart |-> LineTotal(cart[n])], TaxedLines(cart),
                  orderDiscount, BuiltIn, Fee)

\* The amount of PaymentModal: the fee is in the total and is added to it.
Grand == ScreenTotal + Fee

\* What the dialog computes its amount from.
Basis == [catalog |-> products, lines |-> cart, discount |-> orderDiscount, fee |-> Fee]

\* What createOrder makes of the order.
Due(s) ==
    ComputeTotals([n \in DOMAIN s.lines |-> ResolvedTotal(s.lines[n])],
                  TaxedLines(s.lines), s.discount, settings, s.fee)

-------------------------------------------------------------------------------
(* State *)

Line == [item : Items, qty : Nat \ {0}, discount : Nat]

NoBasis == [catalog |-> Price, lines |-> <<>>, discount |-> 0, fee |-> 0]

NoSale == [method |-> "none", lines |-> <<>>, discount |-> 0, fee |-> 0, amount |-> 0,
           quoted |-> NoBasis, overtaken |-> FALSE, left |-> FALSE]

Init ==
    /\ menu = Price
    /\ settings = BuiltIn
    /\ edits = 0
    /\ products = Price
    /\ cart = <<>>
    /\ orderType = "takeaway"
    /\ orderDiscount = 0
    /\ deliveryInfo = NoFee
    /\ memo = 0
    /\ heldOrders = [h \in HoldIds |-> <<>>]
    /\ holding = 0
    /\ fetching = {}
    /\ resuming = {}
    /\ dialog = "none"
    /\ grand = 0
    /\ quoted = NoBasis
    /\ overtaken = FALSE
    /\ sale = NoSale
    /\ disturbed = FALSE

\* No run of holdCurrent or resume is under way.
Settled == holding = 0 /\ fetching = {} /\ resuming = {}

\* Mutation: the screen can be used beside the payment dialog.
OnScreenBesidePay == dialog # "hold"

\* The cart and its dialogs are reachable.
OnScreen == dialog = "none"

\* A change of the cart under a hold, or a resume that has put its lines there.
Touch == disturbed' = (disturbed \/ holding > 0 \/ resuming # {})

SetCart(c) == cart' = c /\ Touch

OrderOnly == UNCHANGED <<catalogVars, products, holdVars, dialog, payVars>>

\* The cart panel computes its total anew when it gets another cart or another
\* order discount, and only then.
Reprice == memo' = ScreenTotal'

\* The open payment dialog computes its amount anew when the order type or the
\* delivery changes below it, and only then.
Requote ==
    IF dialog = "pay" /\ deliveryInfo' # deliveryInfo
    THEN grand' = Grand' /\ quoted' = Basis'
    ELSE UNCHANGED <<grand, quoted>>

\* The cart is changed by what was begun before the dialog was opened.
Overtake == Requote /\ overtaken' = (overtaken \/ dialog = "pay")

\* What MaxTogether counts, and whether there may be one more of it.
Parked == {h \in HoldIds : heldOrders[h] # <<>>}
Discounted ==
    {c \in {cart} \cup {heldOrders[h] : h \in HoldIds} :
        \E n \in DOMAIN c : c[n].discount > 0}
Together ==
    edits + Cardinality(Parked) + (IF deliveryInfo # NoFee THEN 1 ELSE 0)
      + (IF orderDiscount # 0 THEN 1 ELSE 0) + (IF sale.left THEN 1 ELSE 0)
      + (IF Discounted # {} THEN 1 ELSE 0)
RoomForOne == Parked = {} \/ Together < MaxTogether

Pieces == SumFunction([n \in DOMAIN cart |-> cart[n].qty])

-------------------------------------------------------------------------------
(* The cart *)

\* The line of the same product with the same options.
LineOf(i) == {n \in DOMAIN cart : cart[n].item = i}

\* addProduct, of an item that the screen shows.
AddProduct(i) ==
    /\ OnScreen
    /\ products[i] # Gone
    /\ Pieces < MaxPieces
    /\ IF LineOf(i) # {}
       THEN SetCart([cart EXCEPT ![Min(LineOf(i))].qty = @ + 1])
       ELSE SetCart(Append(cart, [item |-> i, qty |-> 1, discount |-> 0]))
    /\ UNCHANGED orderVars /\ OrderOnly /\ Reprice

\* Mutation: a line whose last piece is taken away stays.
IncLineKeepsEmpty(n, delta) ==
    /\ OnScreen
    /\ Pieces + delta <= MaxPieces
    /\ SetCart([cart EXCEPT ![n].qty = @ + delta])
    /\ UNCHANGED orderVars /\ OrderOnly /\ Reprice

\* The filter takes the line away with its last piece; each other line has one.
IncLine(n, delta) ==
    /\ OnScreen
    /\ Pieces + delta <= MaxPieces
    /\ IF cart[n].qty + delta > 0
       THEN SetCart([cart EXCEPT ![n].qty = @ + delta])
       ELSE SetCart(RemoveAt(cart, n))
    /\ UNCHANGED orderVars /\ OrderOnly /\ Reprice

SetLineDiscount(n, cents) ==
    /\ OnScreen /\ RoomForOne
    /\ SetCart([cart EXCEPT ![n].discount = Max({0, cents})])
    /\ UNCHANGED orderVars /\ OrderOnly /\ Reprice

RemoveLine(n) ==
    /\ OnScreen
    /\ SetCart(RemoveAt(cart, n))
    /\ UNCHANGED orderVars /\ OrderOnly /\ Reprice

SetOrderType(t) ==
    /\ OnScreen
    /\ orderType' = t
    /\ UNCHANGED <<cart, orderDiscount, deliveryInfo, memo, disturbed>> /\ OrderOnly

SetDeliveryInfo(fee) ==
    /\ OnScreen
    /\ orderType = "delivery" /\ RoomForOne
    /\ deliveryInfo' = fee
    /\ UNCHANGED <<cart, orderType, orderDiscount, memo, disturbed>> /\ OrderOnly

SetOrderDiscount(cents) ==
    /\ OnScreen /\ RoomForOne
    /\ orderDiscount' = Max({0, cents})
    /\ UNCHANGED <<cart, orderType, deliveryInfo, disturbed>> /\ OrderOnly
    /\ IF orderDiscount' # orderDiscount THEN Reprice ELSE UNCHANGED memo

\* clearCart keeps the order type.
ClearCart ==
    /\ cart' = <<>>
    /\ orderDiscount' = 0
    /\ deliveryInfo' = NoFee
    /\ UNCHANGED orderType

\* The Cancel button.
Cancel ==
    /\ OnScreen
    /\ ClearCart
    /\ Touch
    /\ OrderOnly /\ Reprice

-------------------------------------------------------------------------------
(* The hold dialog *)

OpenHold ==
    /\ OnScreen
    /\ dialog' = "hold"
    /\ UNCHANGED <<catalogVars, products, cart, orderVars, memo, holdVars, payVars, disturbed>>

\* Back and the backdrop of a dialog, which work during a charge as well; the
\* charge goes on.
CloseDialog ==
    /\ dialog # "none"
    /\ dialog' = "none"
    /\ grand' = 0
    /\ quoted' = NoBasis
    /\ overtaken' = FALSE
    /\ IF dialog = "pay" /\ sale # NoSale
       THEN (sale.left \/ Together < MaxTogether) /\ sale' = [sale EXCEPT !.left = TRUE]
       ELSE UNCHANGED sale
    /\ UNCHANGED <<catalogVars, products, cart, orderVars, memo, holdVars, disturbed>>

\* holdCurrent up to its await: the lines of the cart, and only they, are put.
HoldCurrent(h) ==
    /\ dialog = "hold"
    /\ cart # <<>>
    /\ heldOrders[h] = <<>>
    /\ h \notin fetching \cup resuming
    /\ holding < MaxHolding /\ Together < MaxTogether
    /\ heldOrders' = [heldOrders EXCEPT ![h] = cart]
    /\ holding' = holding + 1
    /\ disturbed' = ~Settled
    /\ UNCHANGED <<catalogVars, products, cart, orderVars, memo, fetching, resuming, dialog,
                   payVars>>

\* A run of holdCurrent or resume ends; with the last one disturbed is forgotten.
Forget == disturbed' = (disturbed /\ ~Settled')

\* holdCurrent after its await: the screen is cleared, whatever is on it.
HoldDone ==
    /\ holding > 0
    /\ holding' = holding - 1
    /\ ClearCart
    /\ UNCHANGED <<catalogVars, products, heldOrders, fetching, resuming, dialog, sale>>
    /\ Forget
    /\ Reprice /\ Overtake

\* resume up to its first await.
Resume(h) ==
    /\ dialog = "hold"
    /\ heldOrders[h] # <<>>
    /\ fetching' = fetching \cup {h}
    /\ disturbed' = ~Settled
    /\ UNCHANGED <<catalogVars, products, cart, orderVars, memo, heldOrders, holding, resuming,
                   dialog, payVars>>

\* Mutation: the row is deleted before its lines are on the screen.
ResumedDeletesFirst(h) ==
    /\ h \in fetching
    /\ heldOrders[h] # <<>>
    /\ fetching' = fetching \ {h}
    /\ heldOrders' = [heldOrders EXCEPT ![h] = <<>>]
    /\ resuming' = resuming \cup {h}
    /\ UNCHANGED <<catalogVars, products, cart, orderVars, memo, holding, dialog, payVars,
                   disturbed>>

\* resume up to its second await: the lines of the row, if it is still there,
\* replace those in the store, whatever dialog is open by now.
Resumed(h) ==
    /\ h \in fetching
    /\ fetching' = fetching \ {h}
    /\ UNCHANGED <<catalogVars, products, orderVars, heldOrders, holding, dialog, sale>>
    /\ \/ /\ heldOrders[h] = <<>>
          /\ UNCHANGED <<cart, memo, resuming, grand, quoted, overtaken>>
          /\ Forget
       \/ /\ heldOrders[h] # <<>>
          /\ cart' = heldOrders[h]
          /\ resuming' = resuming \cup {h}
          /\ UNCHANGED disturbed
          /\ Reprice /\ Overtake

\* resume after it: the row is gone and the dialog closes.
ResumeDone(h) ==
    /\ h \in resuming
    /\ heldOrders' = [heldOrders EXCEPT ![h] = <<>>]
    /\ resuming' = resuming \ {h}
    /\ dialog' = IF dialog = "hold" THEN "none" ELSE dialog
    /\ UNCHANGED <<catalogVars, products, cart, orderVars, memo, holding, fetching, payVars>>
    /\ Forget

-------------------------------------------------------------------------------
(* Paying *)

OpenPay ==
    /\ OnScreen
    /\ cart # <<>>
    /\ dialog' = "pay"
    /\ grand' = Grand
    /\ quoted' = Basis
    /\ overtaken' = FALSE
    /\ UNCHANGED <<catalogVars, products, cart, orderVars, memo, holdVars, sale, disturbed>>

\* charge up to the server: submitOrder's payload, of the cart there is now, and
\* the dialog's amount.
Charge(m) ==
    /\ dialog = "pay"
    /\ sale = NoSale
    /\ cart # <<>>
    /\ sale' = [method |-> m, lines |-> cart, discount |-> orderDiscount, fee |-> Fee,
                amount |-> grand, quoted |-> quoted, overtaken |-> overtaken, left |-> FALSE]
    /\ UNCHANGED <<catalogVars, products, cart, orderVars, memo, holdVars, dialog, grand, quoted,
                   overtaken, disturbed>>

\* createOrder knows every product, and payOrder takes the amount.  Cash is
\* what the dialog asks for, so it covers the total if the amount does; the
\* parts of a split add up to the amount.
Accepts(s) ==
    /\ \A n \in DOMAIN s.lines : menu[s.lines[n].item] # Gone
    /\ s.amount > 0
    /\ Due(s) > 0 => s.amount >= Due(s) - 1
    /\ s.method = "cash" => s.amount >= Due(s)
    /\ s.method = "split" => s.amount - Due(s) \in -1..1

\* The answer: the cart of now is cleared, or an error is shown.
Answer ==
    /\ sale # NoSale
    /\ sale' = NoSale
    /\ UNCHANGED <<catalogVars, products, holdVars>>
    /\ \/ /\ Accepts(sale)
          /\ ClearCart
          /\ Touch
          /\ Reprice
          /\ IF sale.left
             THEN Overtake /\ UNCHANGED dialog
             ELSE dialog' = "none" /\ grand' = 0 /\ quoted' = NoBasis /\ overtaken' = FALSE
       \/ /\ ~Accepts(sale)
          /\ UNCHANGED <<cart, orderVars, memo, dialog, grand, quoted, overtaken, disturbed>>

-------------------------------------------------------------------------------
(* The catalogue *)

EditMenu(i, price) ==
    /\ edits < MaxEdits /\ RoomForOne
    /\ menu[i] # price
    /\ menu' = [menu EXCEPT ![i] = price]
    /\ edits' = edits + 1
    /\ UNCHANGED <<settings, products, cart, orderVars, memo, holdVars, dialog, payVars, disturbed>>

EditSettings(rates) ==
    /\ edits < MaxEdits /\ RoomForOne
    /\ settings # rates
    /\ settings' = rates
    /\ edits' = edits + 1
    /\ UNCHANGED <<menu, products, cart, orderVars, memo, holdVars, dialog, payVars, disturbed>>

\* loadCatalog, every thirty seconds and after a sync: whatever is open.
LoadCatalog ==
    /\ products # menu
    /\ products' = menu
    /\ UNCHANGED <<catalogVars, cart, orderVars, memo, holdVars, dialog, payVars, disturbed>>

Next ==
    \/ \E i \in Items : AddProduct(i)
    \/ \E n \in DOMAIN cart, delta \in {-1, 1} : IncLine(n, delta)
    \/ \E n \in DOMAIN cart, cents \in LineDiscounts : SetLineDiscount(n, cents)
    \/ \E n \in DOMAIN cart : RemoveLine(n)
    \/ \E t \in {"takeaway", "delivery"} : SetOrderType(t)
    \/ \E fee \in Fees : SetDeliveryInfo(fee)
    \/ \E cents \in OrderDiscounts : SetOrderDiscount(cents)
    \/ Cancel
    \/ OpenHold \/ CloseDialog
    \/ \E h \in HoldIds : HoldCurrent(h) \/ Resume(h) \/ Resumed(h) \/ ResumeDone(h)
    \/ HoldDone
    \/ OpenPay
    \/ \E m \in Methods : Charge(m)
    \/ Answer
    \/ \E i \in Items : \E price \in NewPrices[i] : EditMenu(i, price)
    \/ \E rates \in Settings : EditSettings(rates)
    \/ LoadCatalog

Spec == Init /\ [][Next]_vars

-------------------------------------------------------------------------------
(* Properties *)

\* The store, the parked carts and the open dialog hold what their types say.
TypeOK ==
    /\ menu \in [Items -> Nat \cup {Gone}]
    /\ products \in [Items -> Nat \cup {Gone}]
    /\ settings \in Rates
    /\ edits \in 0..MaxEdits
    /\ cart \in Seq(Line)
    /\ orderType \in {"takeaway", "delivery"}
    /\ orderDiscount \in Nat
    /\ deliveryInfo \in Fees \cup {NoFee}
    /\ memo \in Int
    /\ heldOrders \in [HoldIds -> Seq(Line)]
    /\ holding \in Nat
    /\ fetching \cup resuming \subseteq HoldIds
    /\ dialog \in {"none", "hold", "pay"}
    /\ grand \in Int
    /\ quoted.lines \in Seq(Line)
    /\ sale.lines \in Seq(Line)
    /\ sale # NoSale => dialog = "pay" \/ sale.left

\* What no price in a sale can have gone wrong by: the dialog was priced from
\* what the server has now, the percentages are those built into the tablet,
\* and no line has a discount above its price.
Ordinary(q) ==
    /\ settings = BuiltIn
    /\ \A n \in DOMAIN q.lines :
          LET i == q.lines[n].item
          IN q.catalog[i] = menu[i] /\ q.lines[n].discount <= q.lines[n].qty * PriceIn(menu, i)

\* At ordinary prices the customer is charged what the server says is due for
\* the cart that the dialog was opened on, and for a delivery exactly one fee
\* more.  That cart is the one that is sent, unless a hold, a resume or a charge
\* begun before the dialog came to its end below it: nothing else gets between
\* the amount and the cart, whatever is left, reopened or answered meanwhile.
ChargedIsDue ==
    [][Answer =>
         /\ Ordinary(sale.quoted) => sale.amount = Due(sale.quoted) + sale.fee
         /\ \/ sale.overtaken
            \/ <<sale.lines, sale.discount>> = <<sale.quoted.lines, sale.quoted.discount>>]_vars

\* However old the prices of the dialog are, and whatever a discount is too much
\* by: no customer pays more than what is due and one fee, unless an item became
\* cheaper or the percentages changed, or the cart was changed below the dialog.
NotOvercharged ==
    [][(/\ Answer /\ Accepts(sale)
        /\ ~sale.overtaken /\ settings = BuiltIn
        /\ \A i \in {sale.lines[n].item : n \in DOMAIN sale.lines} :
              PriceIn(sale.quoted.catalog, i) <= PriceIn(menu, i))
       => sale.amount <= Due(sale) + sale.fee]_vars

\* What the button of the cart panel says before the dialog opens.
ButtonAmount == memo + Fee

\* While prices stay what they were, the button never says less than what the
\* server will ask for, and at most a delivery fee more: the panel does not see
\* the order type or the fee change, and adds the fee to a total that may have
\* it.
ButtonShowsDue ==
    [][(OpenPay /\ edits = 0 /\ \A n \in DOMAIN cart : LineTotal(cart[n]) >= 0) =>
         \E fee \in Fees \cup {0} :
           ButtonAmount = fee + Due([lines |-> cart, discount |-> orderDiscount, fee |-> Fee])]_vars

\* The carts in play.
Carts == ({cart} \cup {heldOrders[h] : h \in HoldIds}) \ {<<>>}

\* What a hold or a resume loses is at most what was on the screen: as long as
\* one runs at a time and the cart is left alone meanwhile, a parked cart is
\* parked or on the screen.  Of two that overlap, the end of the first may clear
\* or replace the cart that the second has just taken off its row.
CartsKept ==
    [][(heldOrders' # heldOrders \/ holding' < holding \/ fetching' # fetching) =>
          Carts \ Carts' \subseteq {cart} \/ disturbed]_vars

\* The comment on the underpayment guard of payOrder: POS clients always send
\* the full amount.
FullAmountSent ==
    [][(Answer /\ ~sale.overtaken /\ Ordinary(sale.quoted)) => sale.amount = Due(sale)]_vars

===============================================================================
