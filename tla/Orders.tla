-------------------------------- MODULE Orders --------------------------------
(***************************************************************************)
(* The order service of the cafe server: creating, discounting, paying,    *)
(* refunding, cancelling, holding and resuming orders, the stock that      *)
(* orders draw and give back, and what each operation leaves in the sync   *)
(* outbox.                                                                 *)
(*                                                                         *)
(* The server runs on one thread and SQLite calls are synchronous, so a    *)
(* handler is one action.  What may happen in the middle of a handler is   *)
(* the death of the process: the statements before it are committed, the   *)
(* rest never runs.  A handler with work after its transaction therefore   *)
(* takes, as an input, how much of that work was done.                     *)
(***************************************************************************)
EXTENDS Integers, FiniteSets, FiniteSetsExt

CONSTANTS
    OrderIds,    \* the row ids newId() may give
    DeviceIds,   \* the deviceOrderIds tablets send
    Keys,        \* the idempotency keys tablets send
    NoId,        \* SQL NULL: no device id, no key, no order
    Carts,       \* what the lines of an order may be
    Ings,        \* ingredients
    Recipe,      \* Recipe[c][i]: how much of ingredient i cart c uses
    Discounts,   \* order discounts a request may carry
    CartTotal,   \* CartTotal[c][d]: the total createOrder computes
    EditTotal,   \* EditTotal[c][d]: the total applyOrderDiscount computes
    Amounts,     \* the amounts a payment or refund request may carry
    Opening,     \* Opening[i]: the stock the database starts with
    MaxManual,   \* bound: how far adjustments may move a stock in total
    Quantities,  \* the quantities an adjustment may carry
    HoldFrom,    \* the statuses of the orders clients call hold on
    MaxCharges,  \* bound: payment rows per order
    MaxCrashes   \* bound: times the process dies inside a handler

\* Mutation: a cancelled order counts as editable.
EditableWithCancelled == {"open", "held", "cancelled"}

\* Mutation: so does a paid one.
EditableWithPaid == {"open", "held", "paid"}

Editable == {"open", "held"}
Statuses == Editable \cup
            {"paid", "completed", "cancelled", "refunded", "partially_refunded"}

ASSUME ConstantsAssumption ==
    /\ IsFiniteSet(OrderIds) /\ IsFiniteSet(Ings)
    /\ NoId \notin OrderIds \cup DeviceIds \cup Keys \cup Carts
    /\ Recipe \in [Carts -> [Ings -> Nat]]
    /\ CartTotal \in [Carts -> [Discounts -> Nat]]
    /\ EditTotal \in [Carts -> [Discounts -> Nat]]
    /\ Amounts \subseteq Int
    /\ Opening \in [Ings -> Int]
    /\ MaxManual \in Nat
    /\ Quantities \subseteq Int
    /\ HoldFrom \subseteq Statuses
    /\ MaxCharges \in Nat
    /\ MaxCrashes \in Nat

VARIABLES
    counter,     \* counters.order_no, 0 while the row does not exist
    orders,      \* the orders table; status "none" is an unused id
    till,        \* per order, its payments and refunds rows summed up
    keys,        \* payments.idempotency_key -> payments.order_id
    stock,       \* ingredients.stock_qty
    inventoryTx, \* per ingredient, its inventory_tx rows summed up
    returned,    \* per order and ingredient, its 'return' rows
    sentOrders,  \* sync_outbox, as a replica that reads it in order would
    sentPaid,    \* hold it: the newest snapshot of each order, its payment
    sentRefunded, \* and refund rows summed up, and the stock movements
    sentStock,
    crashes      \* how often the process died inside a handler

stockVars == <<stock, inventoryTx, returned>>
outbox == <<sentOrders, sentPaid, sentRefunded, sentStock>>
vars == <<counter, orders, till, keys, stockVars, outbox, crashes>>

-------------------------------------------------------------------------------
(* Rows *)

NoOrder == [status |-> "none", device |-> NoId, no |-> 0, cart |-> NoId,
            total |-> 0]

Order == [status : Statuses \cup {"none"}, device : DeviceIds \cup {NoId},
          no : Nat, cart : Carts \cup {NoId}, total : Nat]

\* captured: the payments with status 'captured'; received: all of them, with
\* their number in charges; refunded: the refunds; restock: some refund asked
\* for the goods to be put back.
Till == [captured : Nat, received : Nat, charges : Nat, refunded : Nat,
         restock : BOOLEAN]

NoMoney == [captured |-> 0, received |-> 0, charges |-> 0, refunded |-> 0,
            restock |-> FALSE]

\* Sums of delta_qty by the kind of row.
Ledger == [sale : Int, return : Int, manual : Int]

Snapshots == [status : Statuses \cup {"none"}, total : Nat]

Snapshot(order) == [status |-> order.status, total |-> order.total]

Exists(o) == orders[o].status # "none"

Used(c) == {i \in Ings : Recipe[c][i] > 0}

Init ==
    /\ counter = 0
    /\ orders = [o \in OrderIds |-> NoOrder]
    /\ till = [o \in OrderIds |-> NoMoney]
    /\ keys = [k \in Keys |-> NoId]
    /\ stock = Opening
    /\ inventoryTx = [i \in Ings |-> [sale |-> 0, return |-> 0, manual |-> 0]]
    /\ returned = [o \in OrderIds |-> [i \in Ings |-> 0]]
    /\ sentOrders = [o \in OrderIds |-> Snapshot(NoOrder)]
    /\ sentPaid = [o \in OrderIds |-> 0]
    /\ sentRefunded = [o \in OrderIds |-> 0]
    /\ sentStock = [i \in Ings |-> 0]
    /\ crashes = 0

-------------------------------------------------------------------------------
(* Helpers of the handlers *)

\* A handler whose last statement did not run was cut short by a crash.
Finishes(last) ==
    IF last THEN UNCHANGED crashes
            ELSE crashes < MaxCrashes /\ crashes' = crashes + 1

NextOrderNumber == IF counter = 0 THEN 1000 ELSE counter + 1

\* deductForOrder: one stock update and one 'sale' row per used ingredient.
DeductForOrder(c) ==
    /\ stock' = [i \in Ings |-> stock[i] - Recipe[c][i]]
    /\ inventoryTx' = [i \in Ings |->
         IF i \in Used(c)
         THEN [inventoryTx[i] EXCEPT !.sale = @ - Recipe[c][i]]
         ELSE inventoryTx[i]]

\* Mutation: the stock is put back without its rows.
RestockWithoutRows(o, back, torn) ==
    /\ stock' = [i \in Ings |-> IF i \in back \cup torn
                                THEN stock[i] + Recipe[orders[o].cart][i] ELSE stock[i]]
    /\ UNCHANGED <<inventoryTx, returned>>

\* restockOrderItems: every used ingredient is put back and gets a 'return'
\* row.  Outside a transaction a crash may leave the ingredients in back done,
\* the one in torn with its stock updated but no row, and the others untouched.
RestockOrderItems(o, back, torn) ==
    LET c == orders[o].cart IN
    /\ stock' = [i \in Ings |-> IF i \in back \cup torn
                                THEN stock[i] + Recipe[c][i] ELSE stock[i]]
    /\ inventoryTx' = [i \in Ings |->
         IF i \in back
         THEN [inventoryTx[i] EXCEPT !.return = @ + Recipe[c][i]]
         ELSE inventoryTx[i]]
    /\ returned' = [returned EXCEPT ![o] =
         [i \in Ings |-> IF i \in back THEN @[i] + 1 ELSE @[i]]]

\* Mutation: the envelope carries the order as it was loaded at the start.
OrderEnvelopeLoadedEarly(o, sent) ==
    sentOrders' = IF sent THEN [sentOrders EXCEPT ![o] = Snapshot(orders[o])]
                          ELSE sentOrders

\* enqueueOutbox("orders", ..., loadOrder(o)), unless the process died first.
OrderEnvelope(o, sent) ==
    sentOrders' = IF sent THEN [sentOrders EXCEPT ![o] = Snapshot(orders'[o])]
                          ELSE sentOrders

-------------------------------------------------------------------------------
(* Operations *)

\* Mutation: only an order that is still open is recognised as the same sale.
IsReplayOfOpen(d) ==
    d # NoId /\ \E p \in OrderIds : orders[p].device = d /\ orders[p].status = "open"

\* createOrder for a device id that has no order yet; for one that has, the
\* handler returns the existing row and changes nothing.
IsReplay(d) == d # NoId /\ \E p \in OrderIds : Exists(p) /\ orders[p].device = d

CreateOrder(o, d, c, disc, drawn, sent) ==
    /\ ~Exists(o)
    /\ ~IsReplay(d)
    /\ sent => drawn = Used(c)
    /\ counter' = NextOrderNumber
    /\ orders' = [orders EXCEPT ![o] =
         [status |-> "open", device |-> d, no |-> NextOrderNumber, cart |-> c,
          total |-> CartTotal[c][disc]]]
    /\ DeductForOrder(c)
    /\ sentStock' = [i \in Ings |-> IF i \in drawn THEN sentStock[i] - Recipe[c][i]
                                                   ELSE sentStock[i]]
    /\ OrderEnvelope(o, sent)
    /\ Finishes(sent)
    /\ UNCHANGED <<till, keys, returned, sentPaid, sentRefunded>>

\* applyOrderDiscount: no transaction, one UPDATE.
ApplyOrderDiscount(o, disc, sent) ==
    /\ orders[o].status \in Editable
    /\ orders' = [orders EXCEPT ![o].total = EditTotal[orders[o].cart][disc]]
    /\ OrderEnvelope(o, sent)
    /\ Finishes(sent)
    /\ UNCHANGED <<counter, till, keys, stockVars, sentPaid, sentRefunded, sentStock>>

Due(o) == orders[o].total - till[o].captured

\* The checks payOrder makes on the request, in the order it makes them.
\* received is cashReceivedCents (or the amount), parts the sum of splitParts.
CashCovers(o, pay) ==
    pay.method = "cash" => ~(pay.received < orders[o].total
                             /\ Due(o) = orders[o].total)

AmountCovers(o, pay) ==
    IF pay.method = "split"
    THEN pay.parts - orders[o].total \in -1..1
    ELSE ~(pay.amount < Due(o) - 1 /\ Due(o) > 0)

\* Mutation: > for >=.
PaidStatusStrict(o, amount) ==
    IF till[o].captured + amount > orders[o].total THEN "completed" ELSE "paid"

\* Mutation: a status the CHECK constraint of the table does not know.
PaidStatusUnknown(o, amount) ==
    IF till[o].captured + amount >= orders[o].total THEN "completed"
                                                    ELSE "partially_paid"

PaidStatus(o, amount) ==
    IF till[o].captured + amount >= orders[o].total THEN "completed" ELSE "paid"

PayOrder(o, key, pay, sentPayment, sent) ==
    /\ key # NoId => keys[key] = NoId    \* else the earlier payment's order is returned
    /\ orders[o].status \in Editable
    /\ CashCovers(o, pay)
    /\ pay.amount > 0
    /\ AmountCovers(o, pay)
    /\ till[o].charges < MaxCharges
    /\ sent => sentPayment
    /\ keys' = IF key = NoId THEN keys ELSE [keys EXCEPT ![key] = o]
    /\ till' = [till EXCEPT ![o] =
         [captured |-> @.captured + pay.amount, received |-> @.received + pay.amount,
          charges |-> @.charges + 1, refunded |-> @.refunded, restock |-> @.restock]]
    /\ orders' = [orders EXCEPT ![o].status = PaidStatus(o, pay.amount)]
    /\ sentPaid' = [sentPaid EXCEPT ![o] = IF sentPayment THEN @ + pay.amount ELSE @]
    /\ OrderEnvelope(o, sent)
    /\ Finishes(sent)
    /\ UNCHANGED <<counter, stockVars, sentRefunded, sentStock>>

\* What refundOrder still allows.  The refunds already made are looked up by
\* the id in the URL, which finds none when that is the device id.
Refundable(o, byDevice) ==
    till[o].captured - (IF byDevice THEN 0 ELSE till[o].refunded)

RefundStatus(o, refundedTotal) ==
    IF refundedTotal >= till[o].captured THEN "refunded" ELSE "partially_refunded"

\* refundOrder: the refund row and the statuses are one transaction, the
\* restock and the envelopes follow it.  Every captured payment of the order
\* takes the order's new status, so none is captured any more.
RefundOrder(o, byDevice, amount, restock, back, torn, sentRefund, sent) ==
    LET total == till[o].refunded + amount IN
    /\ orders[o].status \in {"completed", "paid", "partially_refunded"}
    /\ byDevice => orders[o].device # NoId
    /\ 0 < amount /\ amount <= Refundable(o, byDevice)
    /\ sentRefund => back = (IF restock THEN Used(orders[o].cart) ELSE {}) /\ torn = {}
    /\ ~restock => back \cup torn = {}
    /\ sent => sentRefund
    /\ till' = [till EXCEPT ![o] =
         [captured |-> 0, received |-> @.received, charges |-> @.charges,
          refunded |-> total, restock |-> @.restock \/ restock]]
    /\ orders' = [orders EXCEPT ![o].status = RefundStatus(o, total)]
    /\ RestockOrderItems(o, back, torn)
    /\ sentRefunded' = [sentRefunded EXCEPT ![o] = IF sentRefund THEN @ + amount ELSE @]
    /\ OrderEnvelope(o, sent)
    /\ Finishes(sent)
    /\ UNCHANGED <<counter, keys, sentPaid, sentStock>>

\* cancelOrder: status and restock in one transaction.
CancelOrder(o, sent) ==
    /\ orders[o].status \in Editable
    /\ orders' = [orders EXCEPT ![o].status = "cancelled"]
    /\ RestockOrderItems(o, Used(orders[o].cart), {})
    /\ OrderEnvelope(o, sent)
    /\ Finishes(sent)
    /\ UNCHANGED <<counter, till, keys, sentPaid, sentRefunded, sentStock>>

\* holdOrder: one UPDATE whatever the status, no envelope.  HoldFrom is what
\* clients are assumed to hold; the code checks nothing.
HoldOrder(o) ==
    /\ orders[o].status \in HoldFrom
    /\ orders' = [orders EXCEPT ![o].status = "held"]
    /\ UNCHANGED <<counter, till, keys, stockVars, outbox, crashes>>

ResumeOrder(o) ==
    /\ orders[o].status = "held"
    /\ orders' = [orders EXCEPT ![o].status = "open"]
    /\ UNCHANGED <<counter, till, keys, stockVars, outbox, crashes>>

\* POST /ingredients/:id/adjust: a stock count is absolute, the other kinds
\* (purchase, adjustment, waste, damage) are relative.
AdjustStock(i, absolute, qty, sent) ==
    LET balance == IF absolute THEN qty ELSE stock[i] + qty
        delta == balance - stock[i]
    IN
    /\ inventoryTx[i].manual + delta \in -MaxManual..MaxManual
    /\ stock' = [stock EXCEPT ![i] = balance]
    /\ inventoryTx' = [inventoryTx EXCEPT ![i].manual = @ + delta]
    /\ sentStock' = [sentStock EXCEPT ![i] = IF sent THEN @ + delta ELSE @]
    /\ Finishes(sent)
    /\ UNCHANGED <<counter, orders, till, keys, returned, sentOrders, sentPaid,
                   sentRefunded>>

\* The payment requests clients make: the till's cash, a card, or a split.
PaymentInput ==
    [method : {"cash"}, amount : Amounts, received : Amounts, parts : {0}]
      \cup [method : {"card"}, amount : Amounts, received : {0}, parts : {0}]
      \cup [method : {"split"}, amount : Amounts, received : {0}, parts : Amounts]

Create ==
    \E o \in OrderIds, d \in DeviceIds \cup {NoId}, c \in Carts,
       disc \in Discounts, sent \in BOOLEAN :
      \E drawn \in SUBSET Used(c) :
        CreateOrder(o, d, c, disc, drawn, sent)

Discount ==
    \E o \in OrderIds, disc \in Discounts, sent \in BOOLEAN :
      ApplyOrderDiscount(o, disc, sent)

Pay ==
    \E o \in OrderIds, key \in Keys \cup {NoId}, pay \in PaymentInput,
       sentPayment, sent \in BOOLEAN :
      PayOrder(o, key, pay, sentPayment, sent)

Refund ==
    \E o \in OrderIds : Exists(o) /\
      \E byDevice, restock, sentRefund, sent \in BOOLEAN,
         amount \in Amounts, back \in SUBSET Used(orders[o].cart) :
        \E torn \in SUBSET (Used(orders[o].cart) \ back) :
          /\ Cardinality(torn) <= 1
          /\ RefundOrder(o, byDevice, amount, restock, back, torn, sentRefund, sent)

Cancel == \E o \in OrderIds, sent \in BOOLEAN : CancelOrder(o, sent)

Hold == \E o \in OrderIds : HoldOrder(o)

Resume == \E o \in OrderIds : ResumeOrder(o)

Adjust ==
    \E i \in Ings, absolute, sent \in BOOLEAN, qty \in Quantities :
      AdjustStock(i, absolute, qty, sent)

Next ==
    \/ Create \/ Discount \/ Pay \/ Refund \/ Cancel \/ Hold \/ Resume \/ Adjust

Spec == Init /\ [][Next]_vars

-------------------------------------------------------------------------------
(* Properties *)

\* Every column holds a value of its type: money and the counters are never
\* negative, statuses are those of the CHECK constraint.
TypeOK ==
    /\ counter \in Nat
    /\ orders \in [OrderIds -> Order]
    /\ till \in [OrderIds -> Till]
    /\ keys \in [Keys -> OrderIds \cup {NoId}]
    /\ stock \in [Ings -> Int]
    /\ inventoryTx \in [Ings -> Ledger]
    /\ returned \in [OrderIds -> [Ings -> Nat]]
    /\ sentOrders \in [OrderIds -> Snapshots]
    /\ sentPaid \in [OrderIds -> Nat]
    /\ sentRefunded \in [OrderIds -> Nat]
    /\ sentStock \in [Ings -> Int]
    /\ crashes \in 0..MaxCrashes

\* The order numbers given out are 1000, 1001, ... without gaps, no two orders
\* share one, and the counter row is the last: nextOrderNumber runs inside the
\* transaction that inserts the order.
OrderNumbersDense ==
    /\ {orders[o].no : o \in {p \in OrderIds : Exists(p)}} = 1000..counter
    /\ \A o, p \in OrderIds :
         Exists(o) /\ Exists(p) /\ orders[o].no = orders[p].no => o = p

\* However often a tablet replays a sale, whatever became of the first order
\* meanwhile, one deviceOrderId has one order.
OneOrderPerDevice ==
    \A o, p \in OrderIds :
      orders[o].device = orders[p].device /\ orders[o].device # NoId => o = p

\* The status of an order is what its payments and refunds say: nothing was
\* taken for an open, held or cancelled one, a completed one is covered, a paid
\* one is short, and a refunded one gave everything back.
StatusMatchesTill ==
    \A o \in OrderIds :
      LET t == till[o]
          status == orders[o].status
      IN
      /\ status \in {"none", "open", "held", "cancelled"} => t = NoMoney
      /\ status = "completed" => t.captured >= orders[o].total
      /\ status = "paid" => 0 < t.captured /\ t.captured < orders[o].total
      /\ status \in {"paid", "completed"} => t.captured = t.received /\ t.refunded = 0
      /\ status = "refunded" => t.refunded = t.received /\ t.received > 0
      /\ status = "partially_refunded" => 0 < t.refunded /\ t.refunded < t.received
      /\ status \in {"refunded", "partially_refunded"} => t.captured = 0

\* No operation sequence gives back more than was taken, not even one that
\* holds a refunded order, takes money for it again and refunds it again.
RefundsBounded ==
    \A o \in OrderIds : till[o].captured + till[o].refunded <= till[o].received

\* An order's ingredients are given back at most once, by a cancellation or by
\* a refund that restocks, and only by those.
ReturnedOnce ==
    \A o \in OrderIds, i \in Ings :
      /\ returned[o][i] <= 1
      /\ returned[o][i] = 1 => orders[o].status = "cancelled" \/ till[o].restock

\* What an order still owes the shelf: the goods it drew and has not returned.
Consumes(o) == Exists(o) /\ orders[o].status # "cancelled" /\ ~till[o].restock

\* How much of ingredient i the orders have drawn and kept.
Consumed(i) ==
    SumFunction([o \in {p \in OrderIds : Consumes(p)} |-> Recipe[orders[o].cart][i]])

\* What the ledger of ingredient i adds up to.
LedgerSays(i) == Opening[i] + inventoryTx[i].sale + inventoryTx[i].return + inventoryTx[i].manual

\* The ledger and the orders both explain the stock.  An ingredient whose rows
\* do not add up to it was left so by a crash between the two statements of a
\* restock, one ingredient per crash; and without a crash the rows are those of
\* the manual adjustments and of the orders that kept their goods: createOrder
\* deducts once and cancellations and restocking refunds undo it once.
StockExplained ==
    /\ Cardinality({i \in Ings : stock[i] # LedgerSays(i)}) <= crashes
    /\ crashes = 0 =>
         \A i \in Ings : stock[i] = Opening[i] + inventoryTx[i].manual - Consumed(i)

\* Whether a replica of the outbox has the money and the stage of order o.  Hold
\* and resume write no envelope, so open and held are one stage to it.
Stage(status) == IF status = "held" THEN "open" ELSE status

UpToDate(o) ==
    /\ sentPaid[o] = till[o].received
    /\ sentRefunded[o] = till[o].refunded
    /\ sentOrders[o].total = orders[o].total
    /\ Stage(sentOrders[o].status) = Stage(orders[o].status)

\* Envelopes are written after the commit, so a crash can lose them, but only
\* those of the order whose handler it cut short.
StaleByCrashOnly ==
    Cardinality({o \in OrderIds : ~UpToDate(o)}) <= crashes

\* The lifecycle of docs/DATABASE.md: an order leaves open and held once, for a
\* paid or the cancelled status, and what is paid can only be refunded.
Lifecycle ==
    [][\A o \in OrderIds :
         LET from == orders[o].status
             to == orders'[o].status
         IN from # to =>
              CASE from = "none" -> to = "open"
                [] from \in {"open", "held"} ->
                     to \in {"open", "held", "paid", "completed", "cancelled"}
                [] from \in {"paid", "completed", "partially_refunded"} ->
                     to \in {"refunded", "partially_refunded"}
                [] OTHER -> FALSE]_orders

\* The stage of a sale that the status of its order stands for.
SaleStage(status) ==
    CASE status \in {"open", "held"} -> "open"
      [] status \in {"paid", "completed", "partially_refunded"} -> "sold"
      [] status = "cancelled" -> "off"
      [] status = "refunded" -> "returned"
      [] OTHER -> "none"

Promise == INSTANCE Sale WITH
    Sales <- OrderIds,
    stage <- [o \in OrderIds |-> SaleStage(orders[o].status)],
    taken <- [o \in OrderIds |-> till[o].received],
    given <- [o \in OrderIds |-> till[o].refunded]

\* The order service implements Sale: seen through its status and the sums of
\* its payments and refunds, an order is made once, charged once and never
\* after it was called off, and refunded within what it was charged, through
\* replays, requests that name it by either id, holds and crashes.
ImplementsSale == Promise!Spec
===============================================================================
