---------------------------- MODULE OrdersProofs ------------------------------
(***************************************************************************)
(* Theorems about the order service, for all values of the constants.      *)
(***************************************************************************)
EXTENDS Orders, SetFacts, TLAPS

-------------------------------------------------------------------------------
(* What the helpers of the handlers keep *)

\* The snapshot of a well-typed order row is a well-typed envelope.
LEMMA EnvelopeType ==
    ASSUME sentOrders \in [OrderIds -> Snapshots], orders' \in [OrderIds -> Order],
           NEW o \in OrderIds, NEW sent \in BOOLEAN, OrderEnvelope(o, sent)
    PROVE  sentOrders' \in [OrderIds -> Snapshots]
BY DEF Order, OrderEnvelope, Snapshot, Snapshots

\* A crash is counted within its bound.
LEMMA FinishesType ==
    ASSUME crashes \in 0..MaxCrashes, NEW sent \in BOOLEAN, Finishes(sent)
    PROVE  crashes' \in 0..MaxCrashes
BY ConstantsAssumption DEF Finishes

\* The recipe of a cart lists natural quantities.
LEMMA RecipeType ==
    ASSUME NEW c \in Carts, NEW i \in Ings
    PROVE  Recipe[c][i] \in Nat
BY ConstantsAssumption

\* Giving goods back keeps the stock and its ledger numbers.
LEMMA RestockType ==
    ASSUME TypeOK, NEW o \in OrderIds, orders[o].cart \in Carts,
           NEW back \in SUBSET Ings, NEW torn \in SUBSET Ings,
           RestockOrderItems(o, back, torn)
    PROVE  /\ stock' \in [Ings -> Int]
           /\ inventoryTx' \in [Ings -> Ledger]
           /\ returned' \in [OrderIds -> [Ings -> Nat]]
<1> DEFINE c == orders[o].cart
<1>1. \A i \in Ings : Recipe[c][i] \in Nat
  BY RecipeType
<1> HIDE DEF c
<1>2. /\ stock \in [Ings -> Int]
      /\ inventoryTx \in [Ings -> Ledger]
      /\ returned \in [OrderIds -> [Ings -> Nat]]
  BY DEF TypeOK
<1>3. /\ stock' = [i \in Ings |-> IF i \in back \cup torn
                                  THEN stock[i] + Recipe[c][i] ELSE stock[i]]
      /\ inventoryTx' = [i \in Ings |->
           IF i \in back
           THEN [inventoryTx[i] EXCEPT !.return = @ + Recipe[c][i]]
           ELSE inventoryTx[i]]
      /\ returned' = [returned EXCEPT ![o] =
           [i \in Ings |-> IF i \in back THEN @[i] + 1 ELSE @[i]]]
  BY DEF RestockOrderItems, c
<1>4. stock' \in [Ings -> Int]
  BY ONLY <1>1, <1>2, <1>3
<1>5. inventoryTx' \in [Ings -> Ledger]
  BY ONLY <1>1, <1>2, <1>3 DEF Ledger
<1>6. returned' \in [OrderIds -> [Ings -> Nat]]
  BY ONLY <1>2, <1>3, o \in OrderIds
<1> QED
  BY <1>4, <1>5, <1>6

\* So does drawing them.
LEMMA DeductType ==
    ASSUME TypeOK, NEW c \in Carts, DeductForOrder(c)
    PROVE  stock' \in [Ings -> Int] /\ inventoryTx' \in [Ings -> Ledger]
<1>1. \A i \in Ings : Recipe[c][i] \in Nat
  BY RecipeType
<1>2. stock \in [Ings -> Int] /\ inventoryTx \in [Ings -> Ledger]
  BY DEF TypeOK
<1>3. /\ stock' = [i \in Ings |-> stock[i] - Recipe[c][i]]
      /\ inventoryTx' = [i \in Ings |->
           IF i \in Used(c)
           THEN [inventoryTx[i] EXCEPT !.sale = @ - Recipe[c][i]]
           ELSE inventoryTx[i]]
  BY DEF DeductForOrder
<1>4. stock' \in [Ings -> Int]
  BY ONLY <1>1, <1>2, <1>3
<1>5. inventoryTx' \in [Ings -> Ledger]
  BY ONLY <1>1, <1>2, <1>3 DEF Ledger
<1> QED
  BY <1>4, <1>5

-------------------------------------------------------------------------------
(* Type correctness *)

\* Only a row that was never inserted has no cart.
CartKnown == \A o \in OrderIds : Exists(o) => orders[o].cart \in Carts

WellTyped == TypeOK /\ CartKnown

\* A new status keeps the row and its cart.
LEMMA StatusUpdate ==
    ASSUME WellTyped, NEW o \in OrderIds, Exists(o), NEW status \in Statuses,
           orders' = [orders EXCEPT ![o].status = status]
    PROVE  orders' \in [OrderIds -> Order] /\ CartKnown'
<1>1. orders \in [OrderIds -> Order] /\ CartKnown
  BY DEF WellTyped, TypeOK
<1>2. orders' \in [OrderIds -> Order]
  BY ONLY <1>1, status \in Statuses, o \in OrderIds,
          orders' = [orders EXCEPT ![o].status = status] DEF Order
<1>3. CartKnown'
  BY ONLY <1>1, Exists(o), o \in OrderIds,
          orders' = [orders EXCEPT ![o].status = status] DEF CartKnown, Exists, Order
<1> QED
  BY <1>2, <1>3

\* A refund step is one call of refundOrder for an order that exists.
LEMMA RefundStep ==
    ASSUME Refund
    PROVE  \E o \in OrderIds, byDevice \in BOOLEAN, restock \in BOOLEAN,
              sentRefund \in BOOLEAN, sent \in BOOLEAN, amount \in Amounts,
              back \in SUBSET Ings, torn \in SUBSET Ings :
             /\ Exists(o)
             /\ RefundOrder(o, byDevice, amount, restock, back, torn, sentRefund, sent)
             /\ \A i, j \in torn : i = j
<1>1. PICK o \in OrderIds : Exists(o) /\
        \E byDevice, restock, sentRefund, sent \in BOOLEAN,
           amount \in Amounts, back \in SUBSET Used(orders[o].cart) :
          \E torn \in SUBSET (Used(orders[o].cart) \ back) :
            /\ Cardinality(torn) <= 1
            /\ RefundOrder(o, byDevice, amount, restock, back, torn, sentRefund, sent)
  BY DEF Refund
<1>2. PICK byDevice \in BOOLEAN, restock \in BOOLEAN, sentRefund \in BOOLEAN,
           sent \in BOOLEAN, amount \in Amounts, back \in SUBSET Ings,
           torn \in SUBSET Ings :
        /\ Cardinality(torn) <= 1
        /\ RefundOrder(o, byDevice, amount, restock, back, torn, sentRefund, sent)
  BY <1>1 DEF Used
<1>3. IsFiniteSet(torn)
  BY ConstantsAssumption, FS_Subset
<1>4. \A i, j \in torn : i = j
  BY <1>2, <1>3, NoTwo
<1> QED
  BY <1>1, <1>2, <1>4

LEMMA InitWellTyped == Init => WellTyped
<1> SUFFICES ASSUME Init PROVE WellTyped
  OBVIOUS
<1>1. TypeOK
  BY ConstantsAssumption
     DEF Init, TypeOK, NoOrder, Order, NoMoney, Till, Ledger, Snapshots, Snapshot
<1>2. CartKnown
  BY DEF Init, CartKnown, Exists, NoOrder
<1> QED
  BY <1>1, <1>2 DEF WellTyped

LEMMA StepWellTyped == WellTyped /\ [Next]_vars => WellTyped'
<1> SUFFICES ASSUME WellTyped, [Next]_vars PROVE WellTyped'
  OBVIOUS
<1>0. /\ counter \in Nat
      /\ orders \in [OrderIds -> Order]
      /\ till \in [OrderIds -> Till]
      /\ keys \in [Keys -> OrderIds \cup {NoId}]
      /\ sentOrders \in [OrderIds -> Snapshots]
      /\ sentPaid \in [OrderIds -> Nat]
      /\ sentRefunded \in [OrderIds -> Nat]
      /\ sentStock \in [Ings -> Int]
      /\ crashes \in 0..MaxCrashes
      /\ stock \in [Ings -> Int]
      /\ TypeOK
      /\ CartKnown
  BY DEF WellTyped, TypeOK
<1>1. CASE Create
  <2>1. PICK o \in OrderIds, d \in DeviceIds \cup {NoId}, c \in Carts,
             disc \in Discounts, sent \in BOOLEAN :
          \E drawn \in SUBSET Used(c) : CreateOrder(o, d, c, disc, drawn, sent)
    BY <1>1 DEF Create
  <2>2. PICK drawn \in SUBSET Used(c) : CreateOrder(o, d, c, disc, drawn, sent)
    BY <2>1
  <2>3. \A i \in Ings : Recipe[c][i] \in Nat
    BY RecipeType
  <2>4. CartTotal[c][disc] \in Nat
    BY ConstantsAssumption
  <2>5. NextOrderNumber \in Nat
    BY <1>0 DEF NextOrderNumber
  <2>6. orders' = [orders EXCEPT ![o] =
          [status |-> "open", device |-> d, no |-> NextOrderNumber, cart |-> c,
           total |-> CartTotal[c][disc]]]
    BY <2>2 DEF CreateOrder
  <2>7. orders' \in [OrderIds -> Order]
    BY ONLY <1>0, <2>4, <2>5, <2>6, o \in OrderIds, c \in Carts,
            d \in DeviceIds \cup {NoId} DEF Order, Statuses, Editable
  <2>8. CartKnown'
    BY ONLY <1>0, <2>6, c \in Carts, o \in OrderIds DEF CartKnown, Exists, Order
  <2>9. sentStock' \in [Ings -> Int]
    <3>1. sentStock' = [i \in Ings |-> IF i \in drawn THEN sentStock[i] - Recipe[c][i]
                                                      ELSE sentStock[i]]
      BY <2>2 DEF CreateOrder
    <3> QED
      BY ONLY <1>0, <2>3, <3>1
  <2>10. sentOrders' \in [OrderIds -> Snapshots]
    BY <1>0, <2>2, <2>7, EnvelopeType DEF CreateOrder
  <2>11. stock' \in [Ings -> Int] /\ inventoryTx' \in [Ings -> Ledger]
    BY <1>0, <2>2, DeductType DEF CreateOrder
  <2>12. crashes' \in 0..MaxCrashes
    BY <1>0, <2>2, FinishesType DEF CreateOrder
  <2>13. counter' \in Nat
    BY <2>2, <2>5 DEF CreateOrder
  <2> QED
    BY <1>0, <2>2, <2>7, <2>8, <2>9, <2>10, <2>11, <2>12, <2>13
       DEF CreateOrder, WellTyped, TypeOK
<1>2. CASE Discount
  <2>1. PICK o \in OrderIds, disc \in Discounts, sent \in BOOLEAN :
          ApplyOrderDiscount(o, disc, sent)
    BY <1>2 DEF Discount
  <2>2. Exists(o) /\ orders[o].cart \in Carts
    BY <1>0, <2>1 DEF ApplyOrderDiscount, Editable, Exists, CartKnown
  <2>3. EditTotal[orders[o].cart][disc] \in Nat
    BY <2>2, ConstantsAssumption
  <2>4. orders' = [orders EXCEPT ![o].total = EditTotal[orders[o].cart][disc]]
    BY <2>1 DEF ApplyOrderDiscount
  <2>5. orders' \in [OrderIds -> Order]
    <3> DEFINE new == [orders[o] EXCEPT !.total = EditTotal[orders[o].cart][disc]]
    <3>1. orders[o] \in Order
      BY <1>0
    <3>2. new \in Order
      BY ONLY <2>3, <3>1 DEF Order
    <3>3. orders' = [orders EXCEPT ![o] = new]
      BY <2>4
    <3> HIDE DEF new
    <3> QED
      BY ONLY <1>0, <3>2, <3>3
  <2>6. CartKnown'
    BY ONLY <1>0, <2>2, <2>4, o \in OrderIds DEF CartKnown, Exists, Order
  <2>7. sentOrders' \in [OrderIds -> Snapshots]
    BY <1>0, <2>1, <2>5, EnvelopeType DEF ApplyOrderDiscount
  <2>8. crashes' \in 0..MaxCrashes
    BY <1>0, <2>1, FinishesType DEF ApplyOrderDiscount
  <2> QED
    BY <1>0, <2>1, <2>5, <2>6, <2>7, <2>8
       DEF ApplyOrderDiscount, WellTyped, TypeOK, stockVars
<1>3. CASE Pay
  <2>1. PICK o \in OrderIds, key \in Keys \cup {NoId}, pay \in PaymentInput,
             sentPayment \in BOOLEAN, sent \in BOOLEAN :
          PayOrder(o, key, pay, sentPayment, sent)
    BY <1>3 DEF Pay
  <2>2. Exists(o) /\ pay.amount \in Nat
    BY <2>1, ConstantsAssumption DEF PayOrder, Editable, Exists, PaymentInput
  <2>3. PaidStatus(o, pay.amount) \in Statuses
    BY DEF PaidStatus, Statuses
  <2>4. orders' \in [OrderIds -> Order] /\ CartKnown'
    BY <2>1, <2>2, <2>3, StatusUpdate DEF PayOrder
  <2>5. till' \in [OrderIds -> Till]
    <3>1. till' = [till EXCEPT ![o] =
            [captured |-> @.captured + pay.amount, received |-> @.received + pay.amount,
             charges |-> @.charges + 1, refunded |-> @.refunded, restock |-> @.restock]]
      BY <2>1 DEF PayOrder
    <3> QED
      BY ONLY <1>0, <2>2, <3>1, o \in OrderIds DEF Till
  <2>6. keys' \in [Keys -> OrderIds \cup {NoId}]
    <3>1. keys' = IF key = NoId THEN keys ELSE [keys EXCEPT ![key] = o]
      BY <2>1 DEF PayOrder
    <3> QED
      BY ONLY <1>0, <3>1, o \in OrderIds
  <2>7. sentPaid' \in [OrderIds -> Nat]
    <3>1. sentPaid' = [sentPaid EXCEPT ![o] = IF sentPayment THEN @ + pay.amount ELSE @]
      BY <2>1 DEF PayOrder
    <3> QED
      BY ONLY <1>0, <2>2, <3>1, o \in OrderIds
  <2>8. sentOrders' \in [OrderIds -> Snapshots]
    BY <1>0, <2>1, <2>4, EnvelopeType DEF PayOrder
  <2>9. crashes' \in 0..MaxCrashes
    BY <1>0, <2>1, FinishesType DEF PayOrder
  <2> QED
    BY <1>0, <2>1, <2>4, <2>5, <2>6, <2>7, <2>8, <2>9
       DEF PayOrder, WellTyped, TypeOK, stockVars
<1>4. CASE Refund
  <2>1. PICK o \in OrderIds, byDevice \in BOOLEAN, restock \in BOOLEAN,
             sentRefund \in BOOLEAN, sent \in BOOLEAN, amount \in Amounts,
             back \in SUBSET Ings, torn \in SUBSET Ings :
          /\ Exists(o)
          /\ RefundOrder(o, byDevice, amount, restock, back, torn, sentRefund, sent)
    BY <1>4, RefundStep
  <2>2. RefundOrder(o, byDevice, amount, restock, back, torn, sentRefund, sent)
    BY <2>1
  <2>3. amount \in Nat /\ orders[o].cart \in Carts
    BY <1>0, <2>1, <2>2, ConstantsAssumption DEF RefundOrder, CartKnown
  <2>4. orders' \in [OrderIds -> Order] /\ CartKnown'
    <3>1. RefundStatus(o, till[o].refunded + amount) \in Statuses
      BY DEF RefundStatus, Statuses
    <3> QED
      BY <2>1, <2>2, <3>1, StatusUpdate DEF RefundOrder
  <2>5. till' \in [OrderIds -> Till]
    <3>1. till' = [till EXCEPT ![o] =
            [captured |-> 0, received |-> @.received, charges |-> @.charges,
             refunded |-> till[o].refunded + amount, restock |-> @.restock \/ restock]]
      BY <2>2 DEF RefundOrder
    <3> QED
      BY ONLY <1>0, <2>3, <3>1, o \in OrderIds, restock \in BOOLEAN DEF Till
  <2>6. /\ stock' \in [Ings -> Int]
        /\ inventoryTx' \in [Ings -> Ledger]
        /\ returned' \in [OrderIds -> [Ings -> Nat]]
    BY <1>0, <2>2, <2>3, RestockType DEF RefundOrder
  <2>7. sentRefunded' \in [OrderIds -> Nat]
    <3>1. sentRefunded' = [sentRefunded EXCEPT ![o] = IF sentRefund THEN @ + amount ELSE @]
      BY <2>2 DEF RefundOrder
    <3> QED
      BY ONLY <1>0, <2>3, <3>1, o \in OrderIds
  <2>8. sentOrders' \in [OrderIds -> Snapshots]
    BY <1>0, <2>2, <2>4, EnvelopeType DEF RefundOrder
  <2>9. crashes' \in 0..MaxCrashes
    BY <1>0, <2>2, FinishesType DEF RefundOrder
  <2> QED
    BY <1>0, <2>2, <2>4, <2>5, <2>6, <2>7, <2>8, <2>9
       DEF RefundOrder, WellTyped, TypeOK
<1>5. CASE Cancel
  <2>1. PICK o \in OrderIds, sent \in BOOLEAN : CancelOrder(o, sent)
    BY <1>5 DEF Cancel
  <2>2. Exists(o) /\ orders[o].cart \in Carts
    BY <1>0, <2>1 DEF CancelOrder, Editable, Exists, CartKnown
  <2>3. orders' \in [OrderIds -> Order] /\ CartKnown'
    BY <2>1, <2>2, StatusUpdate DEF CancelOrder, Statuses
  <2>4. /\ stock' \in [Ings -> Int]
        /\ inventoryTx' \in [Ings -> Ledger]
        /\ returned' \in [OrderIds -> [Ings -> Nat]]
    <3>1. Used(orders[o].cart) \in SUBSET Ings /\ {} \in SUBSET Ings
      BY DEF Used
    <3>2. \A back, torn \in SUBSET Ings :
            RestockOrderItems(o, back, torn) =>
              /\ stock' \in [Ings -> Int]
              /\ inventoryTx' \in [Ings -> Ledger]
              /\ returned' \in [OrderIds -> [Ings -> Nat]]
      BY <1>0, <2>2, RestockType
    <3>3. RestockOrderItems(o, Used(orders[o].cart), {})
      BY <2>1 DEF CancelOrder
    <3> QED
      BY ONLY <3>1, <3>2, <3>3
  <2>5. sentOrders' \in [OrderIds -> Snapshots]
    BY <1>0, <2>1, <2>3, EnvelopeType DEF CancelOrder
  <2>6. crashes' \in 0..MaxCrashes
    BY <1>0, <2>1, FinishesType DEF CancelOrder
  <2> QED
    BY <1>0, <2>1, <2>3, <2>4, <2>5, <2>6 DEF CancelOrder, WellTyped, TypeOK
<1>6. CASE Hold
  <2>1. PICK o \in OrderIds : HoldOrder(o)
    BY <1>6 DEF Hold
  <2>2. Exists(o)
    BY <2>1, ConstantsAssumption DEF HoldOrder, Exists, Statuses, Editable
  <2>3. orders' \in [OrderIds -> Order] /\ CartKnown'
    BY <2>1, <2>2, StatusUpdate DEF HoldOrder, Statuses, Editable
  <2> QED
    BY <1>0, <2>1, <2>3 DEF HoldOrder, WellTyped, TypeOK, stockVars, outbox
<1>7. CASE Resume
  <2>1. PICK o \in OrderIds : ResumeOrder(o)
    BY <1>7 DEF Resume
  <2>2. Exists(o)
    BY <2>1 DEF ResumeOrder, Exists
  <2>3. orders' \in [OrderIds -> Order] /\ CartKnown'
    BY <2>1, <2>2, StatusUpdate DEF ResumeOrder, Statuses, Editable
  <2> QED
    BY <1>0, <2>1, <2>3 DEF ResumeOrder, WellTyped, TypeOK, stockVars, outbox
<1>8. CASE Adjust
  <2>1. PICK i \in Ings, absolute \in BOOLEAN, sent \in BOOLEAN, qty \in Quantities :
          AdjustStock(i, absolute, qty, sent)
    BY <1>8 DEF Adjust
  <2> DEFINE balance == IF absolute THEN qty ELSE stock[i] + qty
             delta == balance - stock[i]
  <2>2. balance \in Int /\ delta \in Int
    BY <1>0, ConstantsAssumption
  <2>3. /\ stock' = [stock EXCEPT ![i] = balance]
        /\ inventoryTx' = [inventoryTx EXCEPT ![i].manual = @ + delta]
        /\ sentStock' = [sentStock EXCEPT ![i] = IF sent THEN @ + delta ELSE @]
        /\ Finishes(sent)
    BY <2>1 DEF AdjustStock
  <2> HIDE DEF balance, delta
  <2>4. stock' \in [Ings -> Int]
    BY ONLY <1>0, <2>2, <2>3, i \in Ings
  <2>5. inventoryTx' \in [Ings -> Ledger]
    <3>1. inventoryTx \in [Ings -> Ledger]
      BY <1>0 DEF TypeOK
    <3> QED
      BY ONLY <2>2, <2>3, <3>1, i \in Ings DEF Ledger
  <2>6. sentStock' \in [Ings -> Int]
    BY ONLY <1>0, <2>2, <2>3, i \in Ings
  <2>7. crashes' \in 0..MaxCrashes
    BY <1>0, <2>3, FinishesType
  <2> QED
    BY <1>0, <2>1, <2>4, <2>5, <2>6, <2>7
       DEF AdjustStock, WellTyped, TypeOK, CartKnown, Exists
<1>9. CASE UNCHANGED vars
  BY <1>0, <1>9 DEF vars, stockVars, outbox, WellTyped, TypeOK, CartKnown, Exists
<1> QED
  BY <1>1, <1>2, <1>3, <1>4, <1>5, <1>6, <1>7, <1>8, <1>9 DEF Next

\* Every column keeps its type, whatever clients call: no amount, number or
\* count of the orders, payments and refunds tables ever becomes negative.
THEOREM TypeCorrect == Spec => []TypeOK
<1>1. Spec => []WellTyped
  BY InitWellTyped, StepWellTyped, PTL DEF Spec
<1>2. WellTyped => TypeOK
  BY DEF WellTyped
<1> QED
  BY <1>1, <1>2, PTL

-------------------------------------------------------------------------------
(* Order numbers and device ids *)

\* What identifies an order: nothing but its creation writes it.
RowsKept ==
    /\ counter' = counter
    /\ \A o \in OrderIds :
         /\ Exists(o)' <=> Exists(o)
         /\ orders'[o].no = orders[o].no
         /\ orders'[o].device = orders[o].device

\* A change of one existing order's status or total keeps all identities.
LEMMA UpdateKeepsRows ==
    ASSUME WellTyped, NEW o \in OrderIds, Exists(o), counter' = counter,
           \/ \E status \in Statuses : orders' = [orders EXCEPT ![o].status = status]
           \/ \E total : orders' = [orders EXCEPT ![o].total = total]
    PROVE  RowsKept
<1>1. orders \in [OrderIds -> Order]
  BY DEF WellTyped, TypeOK
<1>2. "none" \notin Statuses
  BY DEF Statuses, Editable
<1>3. CASE \E status \in Statuses : orders' = [orders EXCEPT ![o].status = status]
  BY ONLY <1>1, <1>2, <1>3, Exists(o), counter' = counter, o \in OrderIds
     DEF RowsKept, Exists, Order
<1>4. CASE \E total : orders' = [orders EXCEPT ![o].total = total]
  BY ONLY <1>1, <1>4, Exists(o), counter' = counter, o \in OrderIds
     DEF RowsKept, Exists, Order
<1> QED
  BY <1>3, <1>4

LEMMA StepKeepsRows == WellTyped /\ [Next]_vars => Create \/ RowsKept
<1> SUFFICES ASSUME WellTyped, [Next]_vars PROVE Create \/ RowsKept
  OBVIOUS
<1>1. CASE Discount
  <2>1. PICK o \in OrderIds, disc \in Discounts, sent \in BOOLEAN :
          ApplyOrderDiscount(o, disc, sent)
    BY <1>1 DEF Discount
  <2>2. Exists(o)
    BY <2>1 DEF ApplyOrderDiscount, Exists, Editable
  <2> QED
    BY <2>1, <2>2, UpdateKeepsRows DEF ApplyOrderDiscount
<1>2. CASE Pay
  <2>1. PICK o \in OrderIds, key \in Keys \cup {NoId}, pay \in PaymentInput,
             sentPayment \in BOOLEAN, sent \in BOOLEAN :
          PayOrder(o, key, pay, sentPayment, sent)
    BY <1>2 DEF Pay
  <2>2. Exists(o) /\ PaidStatus(o, pay.amount) \in Statuses
    BY <2>1 DEF PayOrder, Exists, Editable, PaidStatus, Statuses
  <2> QED
    BY <2>1, <2>2, UpdateKeepsRows DEF PayOrder
<1>3. CASE Refund
  <2>1. PICK o \in OrderIds, byDevice \in BOOLEAN, restock \in BOOLEAN,
             sentRefund \in BOOLEAN, sent \in BOOLEAN, amount \in Amounts,
             back \in SUBSET Ings, torn \in SUBSET Ings :
          /\ Exists(o)
          /\ RefundOrder(o, byDevice, amount, restock, back, torn, sentRefund, sent)
    BY <1>3, RefundStep
  <2>2. RefundStatus(o, till[o].refunded + amount) \in Statuses
    BY DEF RefundStatus, Statuses
  <2> QED
    BY <2>1, <2>2, UpdateKeepsRows DEF RefundOrder
<1>4. CASE Cancel
  <2>1. PICK o \in OrderIds, sent \in BOOLEAN : CancelOrder(o, sent)
    BY <1>4 DEF Cancel
  <2>2. Exists(o) /\ "cancelled" \in Statuses
    BY <2>1 DEF CancelOrder, Exists, Editable, Statuses
  <2> QED
    BY <2>1, <2>2, UpdateKeepsRows DEF CancelOrder
<1>5. CASE Hold
  <2>1. PICK o \in OrderIds : HoldOrder(o)
    BY <1>5 DEF Hold
  <2>2. Exists(o) /\ "held" \in Statuses
    BY <2>1, ConstantsAssumption DEF HoldOrder, Exists, Editable, Statuses
  <2> QED
    BY <2>1, <2>2, UpdateKeepsRows DEF HoldOrder
<1>6. CASE Resume
  <2>1. PICK o \in OrderIds : ResumeOrder(o)
    BY <1>6 DEF Resume
  <2>2. Exists(o) /\ "open" \in Statuses
    BY <2>1 DEF ResumeOrder, Exists, Editable, Statuses
  <2> QED
    BY <2>1, <2>2, UpdateKeepsRows DEF ResumeOrder
<1>7. CASE Adjust
  BY <1>7 DEF Adjust, AdjustStock, RowsKept, Exists
<1>8. CASE UNCHANGED vars
  BY <1>8 DEF vars, RowsKept, Exists
<1> QED
  BY <1>1, <1>2, <1>3, <1>4, <1>5, <1>6, <1>7, <1>8 DEF Next

\* What a creation does to the identities.
LEMMA CreateRow ==
    ASSUME WellTyped, Create
    PROVE  \E o \in OrderIds, d \in DeviceIds \cup {NoId} :
             /\ ~Exists(o) /\ ~IsReplay(d)
             /\ counter' = NextOrderNumber
             /\ Exists(o)' /\ orders'[o].no = NextOrderNumber /\ orders'[o].device = d
             /\ \A p \in OrderIds \ {o} : orders'[p] = orders[p]
<1>1. PICK o \in OrderIds, d \in DeviceIds \cup {NoId}, c \in Carts,
           disc \in Discounts, sent \in BOOLEAN :
        \E drawn \in SUBSET Used(c) : CreateOrder(o, d, c, disc, drawn, sent)
  BY DEF Create
<1>2. orders' = [orders EXCEPT ![o] =
        [status |-> "open", device |-> d, no |-> NextOrderNumber, cart |-> c,
         total |-> CartTotal[c][disc]]]
  BY <1>1 DEF CreateOrder
<1>3. orders \in [OrderIds -> Order]
  BY DEF WellTyped, TypeOK
<1>4. orders'[o] = [status |-> "open", device |-> d, no |-> NextOrderNumber, cart |-> c,
                    total |-> CartTotal[c][disc]]
      /\ \A p \in OrderIds \ {o} : orders'[p] = orders[p]
  BY ONLY <1>2, <1>3, o \in OrderIds
<1>5. Exists(o)' /\ orders'[o].no = NextOrderNumber /\ orders'[o].device = d
  BY <1>4 DEF Exists
<1> QED
  BY <1>1, <1>4, <1>5 DEF CreateOrder

\* The counter row does not exist or holds the last number given out.
NumbersInv ==
    /\ OrderNumbersDense
    /\ counter = 0 \/ counter >= 1000

LEMMA StepNumbers == WellTyped /\ NumbersInv /\ [Next]_vars => NumbersInv'
<1> SUFFICES ASSUME WellTyped, NumbersInv, [Next]_vars PROVE NumbersInv'
  OBVIOUS
<1>0. /\ counter \in Nat
      /\ \A n : (\E o \in OrderIds : Exists(o) /\ orders[o].no = n) <=> n \in 1000..counter
      /\ \A o, p \in OrderIds :
           Exists(o) /\ Exists(p) /\ orders[o].no = orders[p].no => o = p
  <2>1. {orders[o].no : o \in {p \in OrderIds : Exists(p)}} = 1000..counter
    BY DEF NumbersInv, OrderNumbersDense
  <2>2. counter \in Nat
    BY DEF WellTyped, TypeOK
  <2>3. \A n : (\E o \in OrderIds : Exists(o) /\ orders[o].no = n) <=> n \in 1000..counter
    BY ONLY <2>1
  <2> QED
    BY <2>2, <2>3 DEF NumbersInv, OrderNumbersDense
<1>1. CASE RowsKept
  <2>1. \A n : (\E o \in OrderIds : Exists(o)' /\ orders'[o].no = n) <=> n \in 1000..counter'
    BY <1>0, <1>1 DEF RowsKept
  <2>2. {orders'[o].no : o \in {p \in OrderIds : Exists(p)'}} = 1000..counter'
    BY ONLY <2>1
  <2> QED
    BY <1>0, <1>1, <2>2 DEF RowsKept, NumbersInv, OrderNumbersDense
<1>2. CASE Create
  <2>1. PICK o \in OrderIds, d \in DeviceIds \cup {NoId} :
          /\ ~Exists(o)
          /\ counter' = NextOrderNumber
          /\ Exists(o)' /\ orders'[o].no = NextOrderNumber
          /\ \A p \in OrderIds \ {o} : orders'[p] = orders[p]
    BY <1>2, CreateRow
  <2>2. \A p \in OrderIds \ {o} : Exists(p)' <=> Exists(p)
    BY <2>1 DEF Exists
  <2>3. /\ counter' \in Nat /\ counter' >= 1000
        /\ counter' \notin 1000..counter
        /\ 1000..counter' = (1000..counter) \cup {counter'}
    BY <1>0, <2>1 DEF NumbersInv, NextOrderNumber
  <2>4. \A n : (\E p \in OrderIds : Exists(p)' /\ orders'[p].no = n) <=> n \in 1000..counter'
    BY ONLY <1>0, <2>1, <2>2, <2>3, o \in OrderIds
  <2>5. {orders'[q].no : q \in {p \in OrderIds : Exists(p)'}} = 1000..counter'
    BY ONLY <2>4
  <2>6. \A p, q \in OrderIds :
          Exists(p)' /\ Exists(q)' /\ orders'[p].no = orders'[q].no => p = q
    BY ONLY <1>0, <2>1, <2>2, <2>3, o \in OrderIds
  <2> QED
    BY <2>3, <2>5, <2>6 DEF NumbersInv, OrderNumbersDense
<1> QED
  BY <1>1, <1>2, StepKeepsRows

\* An order number is never skipped and never given out twice, however many
\* orders there are: the number is taken in the transaction of the insert.
THEOREM NumbersDense == Spec => []OrderNumbersDense
<1>1. Init => NumbersInv
  <2> SUFFICES ASSUME Init PROVE NumbersInv
    OBVIOUS
  <2>1. counter = 0 /\ \A o \in OrderIds : ~Exists(o)
    BY DEF Init, Exists, NoOrder
  <2>2. {orders[o].no : o \in {p \in OrderIds : Exists(p)}} = {}
    BY ONLY <2>1
  <2>3. 1000..counter = {}
    BY ONLY <2>1
  <2> QED
    BY <2>1, <2>2, <2>3 DEF NumbersInv, OrderNumbersDense
<1>2. NumbersInv => OrderNumbersDense
  BY DEF NumbersInv
<1> QED
  BY <1>1, <1>2, InitWellTyped, StepWellTyped, StepNumbers, PTL DEF Spec

\* One order per device id, and no device id on a row that is not there.
DevicesInv ==
    /\ OneOrderPerDevice
    /\ \A o \in OrderIds : ~Exists(o) => orders[o].device = NoId

LEMMA StepDevices == WellTyped /\ DevicesInv /\ [Next]_vars => DevicesInv'
<1> SUFFICES ASSUME WellTyped, DevicesInv, [Next]_vars PROVE DevicesInv'
  OBVIOUS
<1>1. CASE RowsKept
  BY <1>1 DEF RowsKept, DevicesInv, OneOrderPerDevice
<1>2. CASE Create
  <2>1. PICK o \in OrderIds, d \in DeviceIds \cup {NoId} :
          /\ ~Exists(o) /\ ~IsReplay(d)
          /\ Exists(o)' /\ orders'[o].device = d
          /\ \A p \in OrderIds \ {o} : orders'[p] = orders[p]
    BY <1>2, CreateRow
  <2>2. \A p \in OrderIds \ {o} : d # NoId => orders[p].device # d
    BY <2>1 DEF IsReplay, DevicesInv
  <2>3. OneOrderPerDevice'
    BY <2>1, <2>2 DEF DevicesInv, OneOrderPerDevice
  <2>4. \A p \in OrderIds \ {o} : Exists(p)' <=> Exists(p)
    BY <2>1 DEF Exists
  <2> QED
    BY <2>1, <2>3, <2>4 DEF DevicesInv
<1> QED
  BY <1>1, <1>2, StepKeepsRows

\* However often a tablet sends the same sale, and whatever has become of the
\* order since, one deviceOrderId has one order.
THEOREM ReplaysMakeNoOrder == Spec => []OneOrderPerDevice
<1>1. Init => DevicesInv
  BY DEF Init, DevicesInv, OneOrderPerDevice, NoOrder
<1>2. DevicesInv => OneOrderPerDevice
  BY DEF DevicesInv
<1> QED
  BY <1>1, <1>2, InitWellTyped, StepWellTyped, StepDevices, PTL DEF Spec

-------------------------------------------------------------------------------
(* Money and goods *)

\* The steps that touch neither the payments nor the refunds.
LEMMA MoneyKept ==
    ASSUME Create \/ Discount \/ Cancel \/ Hold \/ Resume \/ Adjust \/ UNCHANGED vars
    PROVE  till' = till
BY DEF Create, CreateOrder, Discount, ApplyOrderDiscount, Cancel, CancelOrder, Hold,
       HoldOrder, Resume, ResumeOrder, Adjust, AdjustStock, vars

\* What payOrder does to the money and the status of one editable order.
LEMMA PayStep ==
    ASSUME WellTyped, Pay
    PROVE  \E o \in OrderIds, amount \in Nat :
             /\ orders[o].status \in Editable /\ amount > 0
             /\ till' = [till EXCEPT ![o] =
                  [captured |-> @.captured + amount, received |-> @.received + amount,
                   charges |-> @.charges + 1, refunded |-> @.refunded,
                   restock |-> @.restock]]
             /\ orders' = [orders EXCEPT ![o].status = PaidStatus(o, amount)]
             /\ UNCHANGED returned
<1>1. PICK o \in OrderIds, key \in Keys \cup {NoId}, pay \in PaymentInput,
           sentPayment \in BOOLEAN, sent \in BOOLEAN :
        PayOrder(o, key, pay, sentPayment, sent)
  BY DEF Pay
<1>2. pay.amount \in Nat
  BY <1>1, ConstantsAssumption DEF PayOrder, PaymentInput
<1> QED
  BY <1>1, <1>2 DEF PayOrder, stockVars

\* Whatever clients do, holding a refunded order and charging it again
\* included, the refunds of an order and what is still captured for it never
\* exceed what was received.
THEOREM NeverRefundsMore == Spec => []RefundsBounded
<1>1. Init => RefundsBounded
  BY DEF Init, RefundsBounded, NoMoney
<1>2. WellTyped /\ RefundsBounded /\ [Next]_vars => RefundsBounded'
  <2> SUFFICES ASSUME WellTyped, RefundsBounded, [Next]_vars PROVE RefundsBounded'
    OBVIOUS
  <2>0. /\ till \in [OrderIds -> Till]
        /\ \A o \in OrderIds : till[o].captured + till[o].refunded <= till[o].received
    BY DEF WellTyped, TypeOK, RefundsBounded
  <2>1. CASE Pay
    <3>1. PICK o \in OrderIds, amount \in Nat :
            till' = [till EXCEPT ![o] =
              [captured |-> @.captured + amount, received |-> @.received + amount,
               charges |-> @.charges + 1, refunded |-> @.refunded, restock |-> @.restock]]
      BY <2>1, PayStep
    <3>2. \A p \in OrderIds : till'[p].captured + till'[p].refunded <= till'[p].received
      BY ONLY <2>0, <3>1, o \in OrderIds, amount \in Nat DEF Till
    <3> QED
      BY <3>2 DEF RefundsBounded
  <2>2. CASE Refund
    <3>1. PICK o \in OrderIds, byDevice \in BOOLEAN, restock \in BOOLEAN,
               sentRefund \in BOOLEAN, sent \in BOOLEAN, amount \in Amounts,
               back \in SUBSET Ings, torn \in SUBSET Ings :
            RefundOrder(o, byDevice, amount, restock, back, torn, sentRefund, sent)
      BY <2>2, RefundStep
    <3>2. amount \in Nat /\ amount <= till[o].captured
      BY <2>0, <3>1, ConstantsAssumption DEF RefundOrder, Refundable, Till
    <3>3. till' = [till EXCEPT ![o] =
            [captured |-> 0, received |-> @.received, charges |-> @.charges,
             refunded |-> till[o].refunded + amount, restock |-> @.restock \/ restock]]
      BY <3>1 DEF RefundOrder
    <3>4. \A p \in OrderIds : till'[p].captured + till'[p].refunded <= till'[p].received
      BY ONLY <2>0, <3>2, <3>3, o \in OrderIds DEF Till
    <3> QED
      BY <3>4 DEF RefundsBounded
  <2>3. CASE till' = till
    BY <2>3 DEF RefundsBounded
  <2> QED
    BY <2>1, <2>2, <2>3, MoneyKept DEF Next
<1> QED
  BY <1>1, <1>2, InitWellTyped, StepWellTyped, PTL DEF Spec

\* What the till of a refunded order and its goods say: the order was refunded
\* if its goods were put back, and goods are put back once.
RestockAfterRefund == \A o \in OrderIds : till[o].restock => till[o].refunded > 0

MoneyInv == StatusMatchesTill /\ RestockAfterRefund /\ ReturnedOnce

\* The part of MoneyInv about one order, as a predicate of its columns.
Sound(status, total, t, back) ==
    /\ status \in {"none", "open", "held", "cancelled"} => t = NoMoney
    /\ status = "completed" => t.captured >= total
    /\ status = "paid" => 0 < t.captured /\ t.captured < total
    /\ status \in {"paid", "completed"} => t.captured = t.received /\ t.refunded = 0
    /\ status = "refunded" => t.refunded = t.received /\ t.received > 0
    /\ status = "partially_refunded" => 0 < t.refunded /\ t.refunded < t.received
    /\ status \in {"refunded", "partially_refunded"} => t.captured = 0
    /\ t.restock => t.refunded > 0
    /\ \A i \in Ings : /\ back[i] <= 1
                       /\ back[i] = 1 => status = "cancelled" \/ t.restock

LEMMA MoneyInvSound ==
    MoneyInv <=> \A o \in OrderIds :
                   Sound(orders[o].status, orders[o].total, till[o], returned[o])
BY DEF MoneyInv, StatusMatchesTill, RestockAfterRefund, ReturnedOnce, Sound

\* If one order is sound after a step and the others are as before, all are.
LEMMA OneOrderChanged ==
    ASSUME MoneyInv, NEW o \in OrderIds,
           Sound(orders'[o].status, orders'[o].total, till'[o], returned'[o]),
           \A p \in OrderIds \ {o} :
             orders'[p] = orders[p] /\ till'[p] = till[p] /\ returned'[p] = returned[p]
    PROVE  MoneyInv'
<1>1. \A p \in OrderIds : Sound(orders[p].status, orders[p].total, till[p], returned[p])
  BY MoneyInvSound
<1>2. \A p \in OrderIds :
        Sound(orders'[p].status, orders'[p].total, till'[p], returned'[p])
  BY <1>1
<1>3. StatusMatchesTill' /\ RestockAfterRefund' /\ ReturnedOnce'
  BY <1>2 DEF StatusMatchesTill, RestockAfterRefund, ReturnedOnce, Sound
<1> QED
  BY <1>3 DEF MoneyInv

LEMMA StepMoney ==
    ASSUME HoldFrom \subseteq Editable, WellTyped, MoneyInv, [Next]_vars
    PROVE  MoneyInv'
<1>0. /\ orders \in [OrderIds -> Order]
      /\ till \in [OrderIds -> Till]
      /\ returned \in [OrderIds -> [Ings -> Nat]]
      /\ \A p \in OrderIds : Sound(orders[p].status, orders[p].total, till[p], returned[p])
  BY MoneyInvSound DEF WellTyped, TypeOK
<1>1. CASE Create
  <2>1. PICK o \in OrderIds, d \in DeviceIds \cup {NoId}, c \in Carts,
             disc \in Discounts, sent \in BOOLEAN :
          \E drawn \in SUBSET Used(c) : CreateOrder(o, d, c, disc, drawn, sent)
    BY <1>1 DEF Create
  <2>2. /\ orders[o].status = "none"
        /\ orders' = [orders EXCEPT ![o] =
             [status |-> "open", device |-> d, no |-> NextOrderNumber, cart |-> c,
              total |-> CartTotal[c][disc]]]
        /\ till' = till /\ returned' = returned
    BY <2>1 DEF CreateOrder, Exists
  <2>3. /\ orders'[o].status = "open"
        /\ \A p \in OrderIds \ {o} : orders'[p] = orders[p]
    BY ONLY <1>0, <2>2
  <2>4. Sound(orders'[o].status, orders'[o].total, till'[o], returned'[o])
    BY ONLY <1>0, <2>2, <2>3 DEF Sound, NoMoney
  <2> QED
    BY <2>2, <2>3, <2>4, OneOrderChanged
<1>2. CASE Discount
  <2>1. PICK o \in OrderIds, disc \in Discounts, sent \in BOOLEAN :
          ApplyOrderDiscount(o, disc, sent)
    BY <1>2 DEF Discount
  <2>2. /\ orders[o].status \in {"open", "held"}
        /\ orders' = [orders EXCEPT ![o].total = EditTotal[orders[o].cart][disc]]
        /\ till' = till /\ returned' = returned
    BY <2>1 DEF ApplyOrderDiscount, Editable, stockVars
  <2>3. /\ orders'[o].status = orders[o].status
        /\ \A p \in OrderIds \ {o} : orders'[p] = orders[p]
    BY ONLY <1>0, <2>2 DEF Order
  <2>4. Sound(orders'[o].status, orders'[o].total, till'[o], returned'[o])
    BY ONLY <1>0, <2>2, <2>3 DEF Sound
  <2> QED
    BY <2>2, <2>3, <2>4, OneOrderChanged
<1>3. CASE Pay
  <2>1. PICK o \in OrderIds, amount \in Nat :
          /\ orders[o].status \in Editable /\ amount > 0
          /\ till' = [till EXCEPT ![o] =
               [captured |-> @.captured + amount, received |-> @.received + amount,
                charges |-> @.charges + 1, refunded |-> @.refunded,
                restock |-> @.restock]]
          /\ orders' = [orders EXCEPT ![o].status = PaidStatus(o, amount)]
          /\ UNCHANGED returned
    BY <1>3, PayStep
  <2>2. /\ till[o] = NoMoney
        /\ \A i \in Ings : returned[o][i] <= 1 /\ returned[o][i] # 1
    BY <1>0, <2>1 DEF Sound, Editable, NoMoney
  <2>3. /\ orders'[o].status = PaidStatus(o, amount)
        /\ orders'[o].total = orders[o].total
        /\ till'[o].captured = amount /\ till'[o].received = amount
        /\ till'[o].refunded = 0 /\ till'[o].restock = FALSE
        /\ \A p \in OrderIds \ {o} : orders'[p] = orders[p] /\ till'[p] = till[p]
    BY ONLY <1>0, <2>1, <2>2 DEF Order, NoMoney
  <2>4. PaidStatus(o, amount) = IF amount >= orders[o].total THEN "completed" ELSE "paid"
    BY <2>1, <2>2 DEF PaidStatus, NoMoney
  <2>5. Sound(orders'[o].status, orders'[o].total, till'[o], returned'[o])
    <3>1. orders[o].total \in Nat
      BY <1>0 DEF Order
    <3> QED
      BY ONLY <2>1, <2>2, <2>3, <2>4, <3>1, amount \in Nat DEF Sound
  <2> QED
    BY <2>1, <2>3, <2>5, OneOrderChanged
<1>4. CASE Refund
  <2>1. PICK o \in OrderIds, byDevice \in BOOLEAN, restock \in BOOLEAN,
             sentRefund \in BOOLEAN, sent \in BOOLEAN, amount \in Amounts,
             back \in SUBSET Ings, torn \in SUBSET Ings :
          RefundOrder(o, byDevice, amount, restock, back, torn, sentRefund, sent)
    BY <1>4, RefundStep
  <2>2. /\ orders[o].status \in {"completed", "paid", "partially_refunded"}
        /\ 0 < amount /\ amount <= Refundable(o, byDevice)
        /\ ~restock => back = {}
        /\ till' = [till EXCEPT ![o] =
             [captured |-> 0, received |-> @.received, charges |-> @.charges,
              refunded |-> till[o].refunded + amount, restock |-> @.restock \/ restock]]
        /\ orders' = [orders EXCEPT ![o].status =
                        RefundStatus(o, till[o].refunded + amount)]
        /\ returned' = [returned EXCEPT ![o] =
             [i \in Ings |-> IF i \in back THEN @[i] + 1 ELSE @[i]]]
        /\ amount \in Int
    BY <2>1, ConstantsAssumption DEF RefundOrder, RestockOrderItems
  <2>3. till[o] \in Till /\ orders[o] \in Order
    BY <1>0
  <2>4. amount <= till[o].captured
    BY <2>2, <2>3 DEF Refundable, Till
  <2>5. /\ orders[o].status \in {"completed", "paid"}
        /\ till[o].captured = till[o].received
        /\ till[o].refunded = 0 /\ till[o].restock = FALSE
    BY ONLY <1>0, <2>2, <2>3, <2>4 DEF Sound, Till
  <2>6. \A i \in Ings : returned[o][i] <= 1 /\ returned[o][i] # 1
    BY ONLY <1>0, <2>5 DEF Sound
  <2>7. /\ orders'[o].status = RefundStatus(o, amount)
        /\ till'[o].captured = 0 /\ till'[o].received = till[o].received
        /\ till'[o].refunded = amount /\ till'[o].restock = restock
        /\ \A i \in Ings : returned'[o][i] = IF i \in back THEN returned[o][i] + 1
                                                          ELSE returned[o][i]
        /\ \A p \in OrderIds \ {o} :
             orders'[p] = orders[p] /\ till'[p] = till[p] /\ returned'[p] = returned[p]
    BY ONLY <1>0, <2>2, <2>5, restock \in BOOLEAN DEF Order
  <2>8. RefundStatus(o, amount) =
          IF amount >= till[o].received THEN "refunded" ELSE "partially_refunded"
    BY <2>5 DEF RefundStatus
  <2>9. \A i \in Ings : returned'[o][i] <= 1 /\ (returned'[o][i] = 1 => restock)
    <3>1. \A i \in Ings : returned[o][i] \in Nat
      BY <1>0
    <3>2. \A i \in Ings : returned[o][i] = 0
      BY <2>6, <3>1
    <3>3. CASE restock
      BY <2>7, <3>2, <3>3
    <3>4. CASE ~restock
      BY <2>2, <2>7, <3>2, <3>4
    <3> QED
      BY <3>3, <3>4
  <2>10. Sound(orders'[o].status, orders'[o].total, till'[o], returned'[o])
    BY ONLY <2>2, <2>3, <2>4, <2>5, <2>7, <2>8, <2>9, restock \in BOOLEAN DEF Sound, Till
  <2> QED
    BY <2>7, <2>10, OneOrderChanged
<1>5. CASE Cancel
  <2>1. PICK o \in OrderIds, sent \in BOOLEAN : CancelOrder(o, sent)
    BY <1>5 DEF Cancel
  <2>2. /\ orders[o].status \in {"open", "held"}
        /\ orders' = [orders EXCEPT ![o].status = "cancelled"]
        /\ till' = till
        /\ returned' = [returned EXCEPT ![o] =
             [i \in Ings |-> IF i \in Used(orders[o].cart) THEN @[i] + 1 ELSE @[i]]]
    BY <2>1 DEF CancelOrder, Editable, RestockOrderItems
  <2>3. /\ till[o] = NoMoney
        /\ \A i \in Ings : returned[o][i] <= 1 /\ returned[o][i] # 1
    BY ONLY <1>0, <2>2 DEF Sound, NoMoney
  <2>4. /\ orders'[o].status = "cancelled"
        /\ \A i \in Ings : returned'[o][i] <= 1
        /\ \A p \in OrderIds \ {o} : orders'[p] = orders[p] /\ returned'[p] = returned[p]
    BY ONLY <1>0, <2>2, <2>3 DEF Order
  <2>5. Sound(orders'[o].status, orders'[o].total, till'[o], returned'[o])
    BY ONLY <2>2, <2>3, <2>4 DEF Sound, NoMoney
  <2> QED
    BY <2>2, <2>4, <2>5, OneOrderChanged
<1>6. CASE Hold \/ Resume
  <2>1. PICK o \in OrderIds, status \in {"open", "held"} :
          /\ orders[o].status \in {"open", "held"}
          /\ orders' = [orders EXCEPT ![o].status = status]
          /\ till' = till /\ returned' = returned
    <3>1. ASSUME NEW o \in OrderIds, HoldOrder(o)
          PROVE  /\ orders[o].status \in {"open", "held"}
                 /\ orders' = [orders EXCEPT ![o].status = "held"]
                 /\ till' = till /\ returned' = returned
      BY <3>1 DEF HoldOrder, Editable, stockVars
    <3>2. ASSUME NEW o \in OrderIds, ResumeOrder(o)
          PROVE  /\ orders[o].status \in {"open", "held"}
                 /\ orders' = [orders EXCEPT ![o].status = "open"]
                 /\ till' = till /\ returned' = returned
      BY <3>2 DEF ResumeOrder, stockVars
    <3> QED
      BY <1>6, <3>1, <3>2 DEF Hold, Resume
  <2>2. /\ orders'[o].status = status
        /\ \A p \in OrderIds \ {o} : orders'[p] = orders[p]
    BY ONLY <1>0, <2>1 DEF Order
  <2>3. Sound(orders'[o].status, orders'[o].total, till'[o], returned'[o])
    BY ONLY <1>0, <2>1, <2>2 DEF Sound, NoMoney
  <2> QED
    BY <2>1, <2>2, <2>3, OneOrderChanged
<1>7. CASE Adjust \/ UNCHANGED vars
  <2>1. UNCHANGED <<orders, till, returned>>
    BY <1>7 DEF Adjust, AdjustStock, vars, stockVars
  <2> QED
    BY <2>1 DEF MoneyInv, StatusMatchesTill, RestockAfterRefund, ReturnedOnce
<1> QED
  BY <1>1, <1>2, <1>3, <1>4, <1>5, <1>6, <1>7 DEF Next

LEMMA MoneyAlways ==
    ASSUME HoldFrom \subseteq Editable
    PROVE  Spec => []MoneyInv
<1>1. Init => MoneyInv
  BY DEF Init, MoneyInv, StatusMatchesTill, RestockAfterRefund, ReturnedOnce, NoMoney,
         NoOrder
<1>2. WellTyped /\ MoneyInv /\ [Next]_vars => MoneyInv'
  BY StepMoney
<1> QED
  BY <1>1, <1>2, InitWellTyped, StepWellTyped, PTL DEF Spec

\* As long as clients hold only orders that are open or held, which the code
\* leaves to them, the status of an order says what was taken and given back.
THEOREM StatusIsTheTill ==
    ASSUME HoldFrom \subseteq Editable
    PROVE  Spec => []StatusMatchesTill
<1>1. MoneyInv => StatusMatchesTill
  BY DEF MoneyInv
<1> QED
  BY <1>1, MoneyAlways, PTL

\* Under the same condition the goods of an order are put back at most once,
\* whatever mix of cancellations, partial refunds and crashes it goes through.
THEOREM GoodsReturnedOnce ==
    ASSUME HoldFrom \subseteq Editable
    PROVE  Spec => []ReturnedOnce
<1>1. MoneyInv => ReturnedOnce
  BY DEF MoneyInv
<1> QED
  BY <1>1, MoneyAlways, PTL

\* The steps of one order's status that Lifecycle allows.
Allowed(from, to) ==
    from # to =>
      CASE from = "none" -> to = "open"
        [] from \in {"open", "held"} -> to \in {"open", "held", "paid", "completed", "cancelled"}
        [] from \in {"paid", "completed", "partially_refunded"} ->
             to \in {"refunded", "partially_refunded"}
        [] OTHER -> FALSE

\* It is enough that the one order a handler writes takes an allowed step.
LEMMA OneStatusMoves ==
    ASSUME orders \in [OrderIds -> Order], NEW o \in OrderIds, NEW row,
           orders' = [orders EXCEPT ![o] = row],
           Allowed(orders[o].status, row.status)
    PROVE  \A p \in OrderIds : Allowed(orders[p].status, orders'[p].status)
<1>1. \A p \in OrderIds : orders'[p] = IF p = o THEN row ELSE orders[p]
  OBVIOUS
<1>2. \A p \in OrderIds : Allowed(orders[p].status, orders[p].status)
  BY DEF Allowed
<1> QED
  BY <1>1, <1>2

\* Orders take no status back: the lifecycle of the documentation, if clients
\* hold open and held orders only.
THEOREM StatusesAdvance ==
    ASSUME HoldFrom \subseteq Editable
    PROVE  Spec => Lifecycle
<1>1. ASSUME WellTyped, Next
      PROVE  \A o \in OrderIds : Allowed(orders[o].status, orders'[o].status)
  <2>0. orders \in [OrderIds -> Order]
    BY <1>1 DEF WellTyped, TypeOK
  <2>1. ASSUME NEW o \in OrderIds, NEW status, Allowed(orders[o].status, status),
               orders' = [orders EXCEPT ![o].status = status]
        PROVE  \A p \in OrderIds : Allowed(orders[p].status, orders'[p].status)
    <3> DEFINE row == [orders[o] EXCEPT !.status = status]
    <3>1. orders[o] \in Order
      BY <2>0
    <3>2. row.status = status
      BY ONLY <3>1 DEF Order
    <3>3. orders' = [orders EXCEPT ![o] = row]
      BY <2>1
    <3> HIDE DEF row
    <3> QED
      BY <2>0, <2>1, <3>2, <3>3, OneStatusMoves
  <2>2. CASE Create
    <3>1. PICK o \in OrderIds, d \in DeviceIds \cup {NoId}, c \in Carts,
               disc \in Discounts, sent \in BOOLEAN :
            \E drawn \in SUBSET Used(c) : CreateOrder(o, d, c, disc, drawn, sent)
      BY <2>2 DEF Create
    <3> DEFINE row == [status |-> "open", device |-> d, no |-> NextOrderNumber, cart |-> c,
                       total |-> CartTotal[c][disc]]
    <3>2. orders[o].status = "none" /\ orders' = [orders EXCEPT ![o] = row]
      BY <3>1 DEF CreateOrder, Exists
    <3>3. row.status = "open"
      OBVIOUS
    <3> HIDE DEF row
    <3>4. Allowed(orders[o].status, row.status)
      BY <3>2, <3>3 DEF Allowed
    <3> QED
      BY <2>0, <3>2, <3>4, OneStatusMoves
  <2>3. CASE Discount
    <3>1. PICK o \in OrderIds, disc \in Discounts :
            orders' = [orders EXCEPT ![o].total = EditTotal[orders[o].cart][disc]]
      BY <2>3 DEF Discount, ApplyOrderDiscount
    <3>2. \A p \in OrderIds : orders'[p].status = orders[p].status
      BY ONLY <2>0, <3>1 DEF Order
    <3> QED
      BY <3>2 DEF Allowed
  <2>4. CASE Pay
    <3>1. PICK o \in OrderIds, amount \in Nat :
            /\ orders[o].status \in Editable
            /\ orders' = [orders EXCEPT ![o].status = PaidStatus(o, amount)]
      BY <1>1, <2>4, PayStep
    <3>2. PaidStatus(o, amount) \in {"paid", "completed"}
      BY DEF PaidStatus
    <3> QED
      BY <2>1, <3>1, <3>2 DEF Allowed, Editable
  <2>5. CASE Refund
    <3>1. PICK o \in OrderIds, byDevice \in BOOLEAN, restock \in BOOLEAN,
               sentRefund \in BOOLEAN, sent \in BOOLEAN, amount \in Amounts,
               back \in SUBSET Ings, torn \in SUBSET Ings :
            RefundOrder(o, byDevice, amount, restock, back, torn, sentRefund, sent)
      BY <2>5, RefundStep
    <3>2. /\ orders[o].status \in {"completed", "paid", "partially_refunded"}
          /\ orders' = [orders EXCEPT ![o].status =
                          RefundStatus(o, till[o].refunded + amount)]
      BY <3>1 DEF RefundOrder
    <3>3. RefundStatus(o, till[o].refunded + amount) \in {"refunded", "partially_refunded"}
      BY DEF RefundStatus
    <3> QED
      BY <2>1, <3>2, <3>3 DEF Allowed
  <2>6. CASE Cancel
    <3>1. PICK o \in OrderIds :
            /\ orders[o].status \in {"open", "held"}
            /\ orders' = [orders EXCEPT ![o].status = "cancelled"]
      BY <2>6 DEF Cancel, CancelOrder, Editable
    <3> QED
      BY <2>1, <3>1 DEF Allowed
  <2>7. CASE Hold \/ Resume
    <3>1. PICK o \in OrderIds, status \in {"open", "held"} :
            /\ orders[o].status \in {"open", "held"}
            /\ orders' = [orders EXCEPT ![o].status = status]
      BY <2>7 DEF Hold, HoldOrder, Resume, ResumeOrder, Editable
    <3> QED
      BY <2>1, <3>1 DEF Allowed
  <2>8. CASE Adjust
    BY <2>8 DEF Adjust, AdjustStock, Allowed
  <2> QED
    BY <1>1, <2>2, <2>3, <2>4, <2>5, <2>6, <2>7, <2>8 DEF Next
<1> DEFINE Steps ==
      \A o \in OrderIds :
         LET from == orders[o].status
             to == orders'[o].status
         IN from # to =>
              CASE from = "none" -> to = "open"
                [] from \in {"open", "held"} ->
                     to \in {"open", "held", "paid", "completed", "cancelled"}
                [] from \in {"paid", "completed", "partially_refunded"} ->
                     to \in {"refunded", "partially_refunded"}
                [] OTHER -> FALSE
<1>2. WellTyped /\ [Next]_vars => [Steps]_orders
  BY <1>1 DEF Allowed, vars
<1> QED
  BY <1>2, InitWellTyped, StepWellTyped, PTL DEF Spec, Lifecycle

-------------------------------------------------------------------------------
(* The order service implements Sale *)

\* What a reader of Sale sees of one order's columns.
LEMMA SaleOf ==
    ASSUME orders \in [OrderIds -> Order], till \in [OrderIds -> Till],
           NEW o \in OrderIds, NEW row, NEW t,
           orders' = [orders EXCEPT ![o] = row], till' = [till EXCEPT ![o] = t]
    PROVE  /\ [p \in OrderIds |-> SaleStage(orders'[p].status)]
                = [[p \in OrderIds |-> SaleStage(orders[p].status)]
                     EXCEPT ![o] = SaleStage(row.status)]
           /\ [p \in OrderIds |-> till'[p].received]
                = [[p \in OrderIds |-> till[p].received] EXCEPT ![o] = t.received]
           /\ [p \in OrderIds |-> till'[p].refunded]
                = [[p \in OrderIds |-> till[p].refunded] EXCEPT ![o] = t.refunded]
<1>1. \A p \in OrderIds : /\ orders'[p] = IF p = o THEN row ELSE orders[p]
                          /\ till'[p] = IF p = o THEN t ELSE till[p]
  OBVIOUS
<1> QED
  BY <1>1

\* A step that moves one order and no money.
LEMMA SaleOfStatus ==
    ASSUME orders \in [OrderIds -> Order], till \in [OrderIds -> Till],
           NEW o \in OrderIds, NEW row, orders' = [orders EXCEPT ![o] = row],
           till' = till
    PROVE  /\ [p \in OrderIds |-> SaleStage(orders'[p].status)]
                = [[p \in OrderIds |-> SaleStage(orders[p].status)]
                     EXCEPT ![o] = SaleStage(row.status)]
           /\ [p \in OrderIds |-> till'[p].received] = [p \in OrderIds |-> till[p].received]
           /\ [p \in OrderIds |-> till'[p].refunded] = [p \in OrderIds |-> till[p].refunded]
<1>1. till' = [till EXCEPT ![o] = till[o]]
  OBVIOUS
<1> QED
  BY <1>1, SaleOf

\* A step that leaves the stage of every order and all money alone.
LEMMA SaleStutters ==
    ASSUME \A p \in OrderIds : SaleStage(orders'[p].status) = SaleStage(orders[p].status),
           till' = till
    PROVE  UNCHANGED Promise!vars
<1>1. [p \in OrderIds |-> SaleStage(orders'[p].status)]
        = [p \in OrderIds |-> SaleStage(orders[p].status)]
  OBVIOUS
<1> QED
  BY <1>1 DEF Promise!vars

LEMMA StepSale ==
    ASSUME HoldFrom \subseteq Editable, WellTyped, MoneyInv, [Next]_vars
    PROVE  [Promise!Next]_(Promise!vars)
<1>0. /\ orders \in [OrderIds -> Order]
      /\ till \in [OrderIds -> Till]
      /\ \A p \in OrderIds : Sound(orders[p].status, orders[p].total, till[p], returned[p])
  BY MoneyInvSound DEF WellTyped, TypeOK
<1> DEFINE stage == [p \in OrderIds |-> SaleStage(orders[p].status)]
           taken == [p \in OrderIds |-> till[p].received]
           given == [p \in OrderIds |-> till[p].refunded]
<1>1. CASE Create
  <2>1. PICK o \in OrderIds, d \in DeviceIds \cup {NoId}, c \in Carts,
             disc \in Discounts, sent \in BOOLEAN :
          \E drawn \in SUBSET Used(c) : CreateOrder(o, d, c, disc, drawn, sent)
    BY <1>1 DEF Create
  <2> DEFINE row == [status |-> "open", device |-> d, no |-> NextOrderNumber, cart |-> c,
                     total |-> CartTotal[c][disc]]
  <2>2. /\ orders[o].status = "none" /\ till' = till
        /\ orders' = [orders EXCEPT ![o] = row]
    BY <2>1 DEF CreateOrder, Exists
  <2>3. SaleStage(row.status) = "open" /\ stage[o] = "none"
    BY <2>2 DEF SaleStage
  <2> HIDE DEF row
  <2>4. stage' = [stage EXCEPT ![o] = "open"] /\ taken' = taken /\ given' = given
    BY <1>0, <2>2, <2>3, SaleOfStatus
  <2>5. Promise!Make(o)
    BY <2>3, <2>4 DEF Promise!Make
  <2> QED
    BY <2>5 DEF Promise!Next
<1>2. CASE Discount
  <2>1. PICK o \in OrderIds, disc \in Discounts :
          /\ orders' = [orders EXCEPT ![o].total = EditTotal[orders[o].cart][disc]]
          /\ till' = till
    BY <1>2 DEF Discount, ApplyOrderDiscount
  <2>2. \A p \in OrderIds : orders'[p].status = orders[p].status
    BY ONLY <1>0, <2>1 DEF Order
  <2> QED
    BY <2>1, <2>2, SaleStutters
<1>3. CASE Pay
  <2>1. PICK o \in OrderIds, key \in Keys \cup {NoId}, pay \in PaymentInput,
             sentPayment \in BOOLEAN, sent \in BOOLEAN :
          PayOrder(o, key, pay, sentPayment, sent)
    BY <1>3 DEF Pay
  <2> DEFINE t == [captured |-> till[o].captured + pay.amount,
                   received |-> till[o].received + pay.amount,
                   charges |-> till[o].charges + 1, refunded |-> till[o].refunded,
                   restock |-> till[o].restock]
             row == [orders[o] EXCEPT !.status = PaidStatus(o, pay.amount)]
  <2>2. /\ orders[o].status \in {"open", "held"}
        /\ pay.amount > 0 /\ pay.amount \in Amounts /\ pay.amount \in Int
        /\ till' = [till EXCEPT ![o] = t]
        /\ orders' = [orders EXCEPT ![o] = row]
    BY <2>1, ConstantsAssumption DEF PayOrder, PaymentInput, Editable
  <2>3. till[o].received = 0 /\ till[o].refunded = 0
    BY <1>0, <2>2 DEF Sound, NoMoney
  <2>4. t.received = pay.amount /\ t.refunded = 0
    BY <2>2, <2>3
  <2>5. SaleStage(row.status) = "sold" /\ stage[o] = "open"
    <3>1. orders[o] \in Order
      BY <1>0
    <3>2. row.status \in {"paid", "completed"}
      BY <3>1 DEF PaidStatus, Order
    <3> QED
      BY <2>2, <3>2 DEF SaleStage
  <2> HIDE DEF t, row
  <2>6. /\ stage' = [stage EXCEPT ![o] = "sold"]
        /\ taken' = [taken EXCEPT ![o] = pay.amount]
        /\ given' = [given EXCEPT ![o] = 0]
    BY <1>0, <2>2, <2>4, <2>5, SaleOf
  <2>7. given' = given
    BY <2>3, <2>6
  <2>8. Promise!Take(o, pay.amount)
    BY <2>2, <2>5, <2>6, <2>7 DEF Promise!Take
  <2> QED
    BY <2>2, <2>8 DEF Promise!Next
<1>4. CASE Refund
  <2>1. PICK o \in OrderIds, byDevice \in BOOLEAN, restock \in BOOLEAN,
             sentRefund \in BOOLEAN, sent \in BOOLEAN, amount \in Amounts,
             back \in SUBSET Ings, torn \in SUBSET Ings :
          RefundOrder(o, byDevice, amount, restock, back, torn, sentRefund, sent)
    BY <1>4, RefundStep
  <2> DEFINE t == [captured |-> 0, received |-> till[o].received,
                   charges |-> till[o].charges, refunded |-> till[o].refunded + amount,
                   restock |-> till[o].restock \/ restock]
             row == [orders[o] EXCEPT !.status =
                        RefundStatus(o, till[o].refunded + amount)]
  <2>2. /\ orders[o].status \in {"completed", "paid", "partially_refunded"}
        /\ 0 < amount /\ amount <= Refundable(o, byDevice) /\ amount \in Int
        /\ till' = [till EXCEPT ![o] = t]
        /\ orders' = [orders EXCEPT ![o] = row]
    BY <2>1, ConstantsAssumption DEF RefundOrder
  <2>3. till[o] \in Till /\ orders[o] \in Order
    BY <1>0
  <2>4. amount <= till[o].captured
    BY <2>2, <2>3 DEF Refundable, Till
  <2>5. till[o].captured = till[o].received /\ till[o].refunded = 0
    BY ONLY <1>0, <2>2, <2>3, <2>4 DEF Sound, Till
  <2>6. t.received = till[o].received /\ t.refunded = amount
    BY <2>2, <2>5
  <2>7. /\ stage[o] = "sold"
        /\ SaleStage(row.status) = IF amount = till[o].received THEN "returned" ELSE "sold"
    <3>1. row.status = IF amount = till[o].received THEN "refunded"
                                                    ELSE "partially_refunded"
      BY ONLY <2>2, <2>3, <2>4, <2>5 DEF RefundStatus, Order, Till
    <3> QED
      BY <2>2, <3>1 DEF SaleStage
  <2> HIDE DEF t, row
  <2>8. /\ stage' = [stage EXCEPT ![o] =
                IF amount = till[o].received THEN "returned" ELSE "sold"]
        /\ taken' = [taken EXCEPT ![o] = till[o].received]
        /\ given' = [given EXCEPT ![o] = amount]
    BY <1>0, <2>2, <2>6, <2>7, SaleOf
  <2>9. /\ taken[o] = till[o].received /\ given[o] = 0
        /\ taken[o] - given[o] = till[o].received
    BY <2>3, <2>5 DEF Till
  <2>10. amount <= taken[o] - given[o] /\ taken' = taken
         /\ given' = [given EXCEPT ![o] = @ + amount]
    <3>1. amount <= taken[o] - given[o]
      BY <2>4, <2>5, <2>9
    <3>2. taken' = taken
      BY <2>8
    <3>3. given[o] + amount = amount
      BY <2>2, <2>9
    <3> QED
      BY <2>8, <3>1, <3>2, <3>3
  <2>11. Promise!GiveBack(o, amount)
    <3>1. stage' = [stage EXCEPT ![o] =
             IF amount = taken[o] - given[o] THEN "returned" ELSE "sold"]
      BY <2>8, <2>9
    <3> QED
      BY <2>2, <2>7, <2>10, <3>1 DEF Promise!GiveBack
  <2> QED
    BY <2>11 DEF Promise!Next
<1>5. CASE Cancel
  <2>1. PICK o \in OrderIds :
          /\ orders[o].status \in {"open", "held"}
          /\ orders' = [orders EXCEPT ![o].status = "cancelled"]
          /\ till' = till
    BY <1>5 DEF Cancel, CancelOrder, Editable
  <2> DEFINE row == [orders[o] EXCEPT !.status = "cancelled"]
  <2>2. SaleStage(row.status) = "off" /\ stage[o] = "open"
    <3>1. orders[o] \in Order
      BY <1>0
    <3>2. row.status = "cancelled"
      BY ONLY <3>1 DEF Order
    <3> QED
      BY <2>1, <3>2 DEF SaleStage
  <2>3. orders' = [orders EXCEPT ![o] = row]
    BY <2>1
  <2> HIDE DEF row
  <2>4. stage' = [stage EXCEPT ![o] = "off"] /\ taken' = taken /\ given' = given
    BY <1>0, <2>1, <2>2, <2>3, SaleOfStatus
  <2>5. Promise!CallOff(o)
    BY <2>2, <2>4 DEF Promise!CallOff
  <2> QED
    BY <2>5 DEF Promise!Next
<1>6. CASE Hold \/ Resume
  <2>1. PICK o \in OrderIds, status \in {"open", "held"} :
          /\ orders[o].status \in {"open", "held"}
          /\ orders' = [orders EXCEPT ![o].status = status]
          /\ till' = till
    BY <1>6 DEF Hold, HoldOrder, Resume, ResumeOrder, Editable
  <2>2. \A p \in OrderIds : orders'[p].status = IF p = o THEN status ELSE orders[p].status
    BY ONLY <1>0, <2>1 DEF Order
  <2>3. \A p \in OrderIds : SaleStage(orders'[p].status) = SaleStage(orders[p].status)
    BY <2>1, <2>2 DEF SaleStage
  <2> QED
    BY <2>1, <2>3, SaleStutters
<1>7. CASE Adjust \/ UNCHANGED vars
  <2>1. UNCHANGED <<orders, till>>
    BY <1>7 DEF Adjust, AdjustStock, vars
  <2> QED
    BY <2>1, SaleStutters
<1> QED
  BY <1>1, <1>2, <1>3, <1>4, <1>5, <1>6, <1>7 DEF Next

\* Every behaviour of the order service is one that Sale allows, for any
\* number of orders, any prices and any requests, if clients hold only orders
\* that are open or held.
THEOREM SaleIsKept ==
    ASSUME HoldFrom \subseteq Editable
    PROVE  Spec => ImplementsSale
<1>1. Init => Promise!Init
  BY DEF Init, Promise!Init, NoOrder, NoMoney, SaleStage
<1>2. WellTyped /\ MoneyInv /\ [Next]_vars => [Promise!Next]_(Promise!vars)
  BY StepSale
<1> QED
  BY <1>1, <1>2, InitWellTyped, StepWellTyped, MoneyAlways, PTL
     DEF Spec, ImplementsSale, Promise!Spec

-------------------------------------------------------------------------------
(* Crashes *)

\* What one crash can add to a finite set of damages.
LEMMA OneMore ==
    ASSUME NEW S, IsFiniteSet(S), NEW T, NEW x, T \subseteq S \cup {x}
    PROVE  Cardinality(T) \in Nat /\ Cardinality(S) \in Nat /\ Cardinality(T) <= Cardinality(S) + 1
<1>1. IsFiniteSet(S \cup {x}) /\ Cardinality(S) \in Nat
  BY FS_AddElement, FS_CardinalityType
<1>2. Cardinality(S \cup {x}) <= Cardinality(S) + 1
  <2>1. CASE x \in S
    <3>1. S \cup {x} = S
      BY <2>1
    <3> QED
      BY <1>1, <3>1
  <2>2. CASE x \notin S
    BY <1>1, <2>2, FS_AddElement
  <2> QED
    BY <2>1, <2>2
<1>3. IsFiniteSet(T) /\ Cardinality(T) <= Cardinality(S \cup {x}) /\ Cardinality(S \cup {x}) \in Nat
  BY <1>1, FS_Subset, FS_CardinalityType
<1>4. Cardinality(T) \in Nat
  BY <1>3, FS_CardinalityType
<1> QED
  BY <1>1, <1>2, <1>3, <1>4

\* If a crash adds at most one element to a finite set, and nothing else adds
\* any, the crashes bound its size.
LEMMA CrashesBound ==
    ASSUME NEW S, IsFiniteSet(S), NEW T, Cardinality(S) <= crashes,
           crashes \in Nat, crashes' \in Nat,
           \/ T \subseteq S /\ crashes <= crashes'
           \/ crashes' = crashes + 1 /\ \E x : T \subseteq S \cup {x}
    PROVE  Cardinality(T) <= crashes'
<1>1. CASE T \subseteq S /\ crashes <= crashes'
  <2>1. IsFiniteSet(T) /\ Cardinality(T) <= Cardinality(S)
    BY <1>1, FS_Subset
  <2>2. Cardinality(T) \in Nat /\ Cardinality(S) \in Nat
    BY <2>1, FS_CardinalityType
  <2> QED
    BY <1>1, <2>1, <2>2
<1>2. CASE crashes' = crashes + 1 /\ \E x : T \subseteq S \cup {x}
  <2>1. PICK x : T \subseteq S \cup {x}
    BY <1>2
  <2>2. Cardinality(T) \in Nat /\ Cardinality(S) \in Nat /\ Cardinality(T) <= Cardinality(S) + 1
    BY <2>1, OneMore
  <2> QED
    BY <1>2, <2>2
<1> QED
  BY <1>1, <1>2

\* A step damages the replica's copy of no order, or of one and counts a crash.
OneStale ==
    \/ crashes <= crashes' /\ \A p \in OrderIds : UpToDate(p) => UpToDate(p)'
    \/ /\ crashes' = crashes + 1
       /\ \E o \in OrderIds : \A p \in OrderIds \ {o} : UpToDate(p) => UpToDate(p)'

\* A handler that writes one order, and its envelope if it lives to do so.
LEMMA OneEnvelope ==
    ASSUME crashes \in Nat, NEW o \in OrderIds, NEW sent \in BOOLEAN, Finishes(sent),
           \A p \in OrderIds \ {o} :
             /\ orders'[p] = orders[p] /\ till'[p] = till[p] /\ sentOrders'[p] = sentOrders[p]
             /\ sentPaid'[p] = sentPaid[p] /\ sentRefunded'[p] = sentRefunded[p],
           sent => (UpToDate(o) => UpToDate(o)')
    PROVE  OneStale
<1>1. \A p \in OrderIds \ {o} : UpToDate(p) => UpToDate(p)'
  BY DEF UpToDate
<1>2. CASE sent
  <2>1. crashes <= crashes'
    BY <1>2 DEF Finishes
  <2>2. \A p \in OrderIds : UpToDate(p) => UpToDate(p)'
    <3> SUFFICES ASSUME NEW p \in OrderIds
                 PROVE  UpToDate(p) => UpToDate(p)'
      OBVIOUS
    <3>1. CASE p = o
      BY <1>2, <3>1 DEF UpToDate
    <3>2. CASE p # o
      BY <1>1, <3>2
    <3> QED
      BY <3>1, <3>2
  <2> QED
    BY <2>1, <2>2 DEF OneStale
<1>3. CASE ~sent
  <2>1. crashes' = crashes + 1
    BY <1>3 DEF Finishes
  <2> QED
    BY <1>1, <2>1 DEF OneStale
<1> QED
  BY <1>2, <1>3

\* Every step is of that kind: no handler leaves an envelope out.
LEMMA StepEnvelopes ==
    ASSUME HoldFrom \subseteq Editable, WellTyped, [Next]_vars
    PROVE  OneStale
<1>0. /\ orders \in [OrderIds -> Order] /\ till \in [OrderIds -> Till]
      /\ sentOrders \in [OrderIds -> Snapshots]
      /\ sentPaid \in [OrderIds -> Nat] /\ sentRefunded \in [OrderIds -> Nat]
      /\ crashes \in Nat
  BY ConstantsAssumption DEF WellTyped, TypeOK
<1>1. CASE Create
  <2>1. PICK o \in OrderIds, d \in DeviceIds \cup {NoId}, c \in Carts,
             disc \in Discounts, sent \in BOOLEAN :
          \E drawn \in SUBSET Used(c) : CreateOrder(o, d, c, disc, drawn, sent)
    BY <1>1 DEF Create
  <2> DEFINE row == [status |-> "open", device |-> d, no |-> NextOrderNumber, cart |-> c,
                     total |-> CartTotal[c][disc]]
  <2>2. /\ orders' = [orders EXCEPT ![o] = row]
        /\ UNCHANGED <<till, sentPaid, sentRefunded>> /\ OrderEnvelope(o, sent) /\ Finishes(sent)
    BY <2>1 DEF CreateOrder
  <2> HIDE DEF row
  <2>3. orders'[o] = row /\ \A p \in OrderIds \ {o} : orders'[p] = orders[p]
    BY <1>0, <2>2
  <2>4. /\ \A p \in OrderIds \ {o} : sentOrders'[p] = sentOrders[p]
        /\ sent => sentOrders'[o].total = orders'[o].total /\ sentOrders'[o].status = orders'[o].status
    BY <1>0, <2>2 DEF OrderEnvelope, Snapshot
  <2>5. sent => (UpToDate(o) => UpToDate(o)')
    BY <2>2, <2>4 DEF UpToDate
  <2> QED
    BY <1>0, <2>2, <2>3, <2>4, <2>5, OneEnvelope
<1>2. CASE Discount
  <2>1. PICK o \in OrderIds, disc \in Discounts, sent \in BOOLEAN :
          ApplyOrderDiscount(o, disc, sent)
    BY <1>2 DEF Discount
  <2>2. /\ orders' = [orders EXCEPT ![o].total = EditTotal[orders[o].cart][disc]]
        /\ UNCHANGED <<till, sentPaid, sentRefunded>> /\ OrderEnvelope(o, sent) /\ Finishes(sent)
    BY <2>1 DEF ApplyOrderDiscount
  <2>3. \A p \in OrderIds \ {o} : orders'[p] = orders[p]
    BY <1>0, <2>2
  <2>4. /\ \A p \in OrderIds \ {o} : sentOrders'[p] = sentOrders[p]
        /\ sent => sentOrders'[o].total = orders'[o].total /\ sentOrders'[o].status = orders'[o].status
    BY <1>0, <2>2 DEF OrderEnvelope, Snapshot
  <2>5. sent => (UpToDate(o) => UpToDate(o)')
    BY <2>2, <2>4 DEF UpToDate
  <2> QED
    BY <1>0, <2>2, <2>3, <2>4, <2>5, OneEnvelope
<1>3. CASE Pay
  <2>1. PICK o \in OrderIds, key \in Keys \cup {NoId}, pay \in PaymentInput,
             sentPayment \in BOOLEAN, sent \in BOOLEAN :
          PayOrder(o, key, pay, sentPayment, sent)
    BY <1>3 DEF Pay
  <2>2. /\ orders' = [orders EXCEPT ![o].status = PaidStatus(o, pay.amount)]
        /\ till' = [till EXCEPT ![o] =
             [captured |-> @.captured + pay.amount, received |-> @.received + pay.amount,
              charges |-> @.charges + 1, refunded |-> @.refunded, restock |-> @.restock]]
        /\ sentPaid' = [sentPaid EXCEPT ![o] = IF sentPayment THEN @ + pay.amount ELSE @]
        /\ sent => sentPayment
        /\ sentRefunded' = sentRefunded /\ OrderEnvelope(o, sent) /\ Finishes(sent)
    BY <2>1 DEF PayOrder
  <2>3. /\ \A p \in OrderIds \ {o} : /\ orders'[p] = orders[p] /\ till'[p] = till[p]
                                     /\ sentPaid'[p] = sentPaid[p]
        /\ till'[o].received = till[o].received + pay.amount /\ till'[o].refunded = till[o].refunded
        /\ sent => sentPaid'[o] = sentPaid[o] + pay.amount
    BY <1>0, <2>2
  <2>4. /\ \A p \in OrderIds \ {o} : sentOrders'[p] = sentOrders[p]
        /\ sent => sentOrders'[o].total = orders'[o].total /\ sentOrders'[o].status = orders'[o].status
    BY <1>0, <2>2 DEF OrderEnvelope, Snapshot
  <2>5. sent => (UpToDate(o) => UpToDate(o)')
    BY <2>2, <2>3, <2>4 DEF UpToDate
  <2> QED
    BY <1>0, <2>2, <2>3, <2>4, <2>5, OneEnvelope
<1>4. CASE Refund
  <2>1. PICK o \in OrderIds, byDevice \in BOOLEAN, restock \in BOOLEAN,
             sentRefund \in BOOLEAN, sent \in BOOLEAN, amount \in Amounts,
             back \in SUBSET Ings, torn \in SUBSET Ings :
          RefundOrder(o, byDevice, amount, restock, back, torn, sentRefund, sent)
    BY <1>4, RefundStep
  <2>2. /\ orders' = [orders EXCEPT ![o].status = RefundStatus(o, till[o].refunded + amount)]
        /\ till' = [till EXCEPT ![o] =
             [captured |-> 0, received |-> @.received, charges |-> @.charges,
              refunded |-> till[o].refunded + amount, restock |-> @.restock \/ restock]]
        /\ sentRefunded' = [sentRefunded EXCEPT ![o] = IF sentRefund THEN @ + amount ELSE @]
        /\ sent => sentRefund
        /\ sentPaid' = sentPaid /\ OrderEnvelope(o, sent) /\ Finishes(sent)
    BY <2>1 DEF RefundOrder
  <2>3. /\ \A p \in OrderIds \ {o} : /\ orders'[p] = orders[p] /\ till'[p] = till[p]
                                     /\ sentRefunded'[p] = sentRefunded[p]
        /\ till'[o].received = till[o].received /\ till'[o].refunded = till[o].refunded + amount
        /\ sent => sentRefunded'[o] = sentRefunded[o] + amount
    BY <1>0, <2>2
  <2>4. /\ \A p \in OrderIds \ {o} : sentOrders'[p] = sentOrders[p]
        /\ sent => sentOrders'[o].total = orders'[o].total /\ sentOrders'[o].status = orders'[o].status
    BY <1>0, <2>2 DEF OrderEnvelope, Snapshot
  <2>5. sent => (UpToDate(o) => UpToDate(o)')
    BY <2>2, <2>3, <2>4 DEF UpToDate
  <2> QED
    BY <1>0, <2>2, <2>3, <2>4, <2>5, OneEnvelope
<1>5. CASE Cancel
  <2>1. PICK o \in OrderIds, sent \in BOOLEAN : CancelOrder(o, sent)
    BY <1>5 DEF Cancel
  <2>2. /\ orders' = [orders EXCEPT ![o].status = "cancelled"]
        /\ UNCHANGED <<till, sentPaid, sentRefunded>> /\ OrderEnvelope(o, sent) /\ Finishes(sent)
    BY <2>1 DEF CancelOrder
  <2>3. \A p \in OrderIds \ {o} : orders'[p] = orders[p]
    BY <1>0, <2>2
  <2>4. /\ \A p \in OrderIds \ {o} : sentOrders'[p] = sentOrders[p]
        /\ sent => sentOrders'[o].total = orders'[o].total /\ sentOrders'[o].status = orders'[o].status
    BY <1>0, <2>2 DEF OrderEnvelope, Snapshot
  <2>5. sent => (UpToDate(o) => UpToDate(o)')
    BY <2>2, <2>4 DEF UpToDate
  <2> QED
    BY <1>0, <2>2, <2>3, <2>4, <2>5, OneEnvelope
<1>6. CASE Hold \/ Resume
  <2>1. PICK o \in OrderIds, status \in {"open", "held"} :
          /\ orders[o].status \in {"open", "held"}
          /\ orders' = [orders EXCEPT ![o].status = status]
          /\ UNCHANGED <<till, sentPaid, sentRefunded, sentOrders, crashes>>
    <3>1. ASSUME NEW o \in OrderIds, HoldOrder(o)
          PROVE  /\ orders[o].status \in {"open", "held"}
                 /\ orders' = [orders EXCEPT ![o].status = "held"]
                 /\ UNCHANGED <<till, sentPaid, sentRefunded, sentOrders, crashes>>
      BY <3>1 DEF HoldOrder, Editable, outbox
    <3>2. ASSUME NEW o \in OrderIds, ResumeOrder(o)
          PROVE  /\ orders[o].status \in {"open", "held"}
                 /\ orders' = [orders EXCEPT ![o].status = "open"]
                 /\ UNCHANGED <<till, sentPaid, sentRefunded, sentOrders, crashes>>
      BY <3>2 DEF ResumeOrder, outbox
    <3> QED
      BY <1>6, <3>1, <3>2 DEF Hold, Resume
  <2>2. /\ orders'[o].status = status /\ orders'[o].total = orders[o].total
        /\ \A p \in OrderIds \ {o} : orders'[p] = orders[p]
    BY ONLY <1>0, <2>1 DEF Order
  <2>3. \A p \in OrderIds : UpToDate(p) => UpToDate(p)'
    <3> SUFFICES ASSUME NEW p \in OrderIds
                 PROVE  UpToDate(p) => UpToDate(p)'
      OBVIOUS
    <3>1. Stage(orders'[p].status) = Stage(orders[p].status) /\ orders'[p].total = orders[p].total
      BY <2>1, <2>2 DEF Stage
    <3> QED
      BY <2>1, <3>1 DEF UpToDate
  <2> QED
    BY <1>0, <2>1, <2>3 DEF OneStale
<1>7. CASE Adjust
  <2>1. PICK i \in Ings, absolute \in BOOLEAN, sent \in BOOLEAN, qty \in Quantities :
          AdjustStock(i, absolute, qty, sent)
    BY <1>7 DEF Adjust
  <2>2. UNCHANGED <<orders, till, sentOrders, sentPaid, sentRefunded>> /\ Finishes(sent)
    BY <2>1 DEF AdjustStock
  <2>3. crashes <= crashes'
    BY <1>0, <2>2 DEF Finishes
  <2> QED
    BY <2>2, <2>3 DEF OneStale, UpToDate
<1>8. CASE UNCHANGED vars
  BY <1>0, <1>8 DEF vars, outbox, OneStale, UpToDate
<1> QED
  BY <1>1, <1>2, <1>3, <1>4, <1>5, <1>6, <1>7, <1>8 DEF Next

\* A replica of the outbox is behind on at most one order for each crash, for
\* any number of orders and crashes, if clients hold only orders that are open
\* or held.
THEOREM EnvelopesLostByCrashOnly ==
    ASSUME HoldFrom \subseteq Editable
    PROVE  Spec => []StaleByCrashOnly
<1> DEFINE stale == {o \in OrderIds : ~UpToDate(o)}
<1>1. Init => StaleByCrashOnly
  <2> SUFFICES ASSUME Init PROVE StaleByCrashOnly
    OBVIOUS
  <2>1. \A o \in OrderIds : UpToDate(o)
    BY DEF Init, UpToDate, NoOrder, NoMoney, Snapshot
  <2>2. stale = {} /\ crashes = 0
    BY <2>1 DEF Init
  <2>3. Cardinality({}) = 0
    BY FS_EmptySet, Zenon
  <2> QED
    BY <2>2, <2>3 DEF StaleByCrashOnly
<1>2. WellTyped /\ WellTyped' /\ StaleByCrashOnly /\ [Next]_vars => StaleByCrashOnly'
  <2> SUFFICES ASSUME WellTyped, WellTyped', StaleByCrashOnly, [Next]_vars
               PROVE  StaleByCrashOnly'
    OBVIOUS
  <2>1. crashes \in Nat /\ crashes' \in Nat
    BY ConstantsAssumption DEF WellTyped, TypeOK
  <2>2. IsFiniteSet(stale) /\ Cardinality(stale) <= crashes
    BY ConstantsAssumption, FS_Subset DEF StaleByCrashOnly
  <2>3. \/ stale' \subseteq stale /\ crashes <= crashes'
        \/ crashes' = crashes + 1 /\ \E x : stale' \subseteq stale \cup {x}
    <3>1. OneStale
      BY StepEnvelopes
    <3>2. CASE crashes <= crashes' /\ \A p \in OrderIds : UpToDate(p) => UpToDate(p)'
      BY <3>2
    <3>3. CASE /\ crashes' = crashes + 1
               /\ \E o \in OrderIds : \A p \in OrderIds \ {o} : UpToDate(p) => UpToDate(p)'
      <4>1. PICK o \in OrderIds : \A p \in OrderIds \ {o} : UpToDate(p) => UpToDate(p)'
        BY <3>3
      <4>2. stale' \subseteq stale \cup {o}
        BY <4>1
      <4> QED
        BY <3>3, <4>2
    <3> QED
      BY <3>1, <3>2, <3>3 DEF OneStale
  <2> HIDE DEF stale
  <2>4. Cardinality(stale') <= crashes'
    BY <2>1, <2>2, <2>3, CrashesBound
  <2> QED
    BY <2>4 DEF StaleByCrashOnly, stale
<1> QED
  BY <1>1, <1>2, InitWellTyped, StepWellTyped, PTL DEF Spec

-------------------------------------------------------------------------------
(* The stock *)

Balanced(i) == stock[i] = LedgerSays(i)

\* A step leaves the ledger as right as it was, or wrong for one ingredient
\* more and counts a crash.
OneTorn ==
    \/ crashes <= crashes' /\ \A i \in Ings : Balanced(i) => Balanced(i)'
    \/ /\ crashes' = crashes + 1
       /\ \E j \in Ings : \A i \in Ings \ {j} : Balanced(i) => Balanced(i)'

\* Goods that are put back are put back in the ledger, but for the torn one.
LEMMA RestockBalances ==
    ASSUME WellTyped, NEW o \in OrderIds, orders[o].cart \in Carts,
           NEW back \in SUBSET Ings, NEW torn \in SUBSET Ings,
           RestockOrderItems(o, back, torn)
    PROVE  \A i \in Ings \ torn : Balanced(i) => Balanced(i)'
<1> SUFFICES ASSUME NEW i \in Ings, i \notin torn, Balanced(i)
             PROVE  Balanced(i)'
  OBVIOUS
<1> DEFINE r == Recipe[orders[o].cart][i]
<1> DEFINE tx == inventoryTx[i]
<1>1. r \in Nat /\ stock[i] \in Int /\ tx \in Ledger /\ Opening[i] \in Int
  BY RecipeType, ConstantsAssumption DEF WellTyped, TypeOK
<1>2. /\ stock'[i] = IF i \in back THEN stock[i] + r ELSE stock[i]
      /\ inventoryTx'[i] = IF i \in back THEN [tx EXCEPT !.return = @ + r] ELSE tx
  BY DEF RestockOrderItems
<1> HIDE DEF r, tx
<1>3. /\ tx.sale \in Int /\ tx.return \in Int /\ tx.manual \in Int
      /\ stock[i] = Opening[i] + tx.sale + tx.return + tx.manual
  BY <1>1 DEF Balanced, LedgerSays, Ledger, tx
<1>4. /\ inventoryTx'[i].sale = tx.sale /\ inventoryTx'[i].manual = tx.manual
      /\ inventoryTx'[i].return = IF i \in back THEN tx.return + r ELSE tx.return
  BY <1>1, <1>2 DEF Ledger
<1>5. stock'[i] = Opening[i] + inventoryTx'[i].sale + inventoryTx'[i].return + inventoryTx'[i].manual
  BY <1>1, <1>2, <1>3, <1>4
<1> QED
  BY <1>5 DEF Balanced, LedgerSays

\* Every step is of that kind.
LEMMA StepBalances ==
    ASSUME WellTyped, [Next]_vars
    PROVE  OneTorn
<1>0. /\ crashes \in Nat /\ stock \in [Ings -> Int] /\ inventoryTx \in [Ings -> Ledger]
      /\ Opening \in [Ings -> Int]
  BY ConstantsAssumption DEF WellTyped, TypeOK
<1>1. CASE Create
  <2>1. PICK o \in OrderIds, d \in DeviceIds \cup {NoId}, c \in Carts,
             disc \in Discounts, sent \in BOOLEAN :
          \E drawn \in SUBSET Used(c) : CreateOrder(o, d, c, disc, drawn, sent)
    BY <1>1 DEF Create
  <2>2. DeductForOrder(c) /\ Finishes(sent)
    BY <2>1 DEF CreateOrder
  <2>3. \A i \in Ings : Balanced(i) => Balanced(i)'
    <3> SUFFICES ASSUME NEW i \in Ings, Balanced(i)
                 PROVE  Balanced(i)'
      OBVIOUS
    <3> DEFINE r == Recipe[c][i]
    <3> DEFINE tx == inventoryTx[i]
    <3>1. r \in Nat /\ stock[i] \in Int /\ tx \in Ledger /\ Opening[i] \in Int
      BY <1>0, RecipeType
    <3>2. /\ stock'[i] = stock[i] - r
          /\ inventoryTx'[i] = IF r > 0 THEN [tx EXCEPT !.sale = @ - r] ELSE tx
      BY <2>2 DEF DeductForOrder, Used
    <3> HIDE DEF r, tx
    <3>3. /\ tx.sale \in Int /\ tx.return \in Int /\ tx.manual \in Int
          /\ stock[i] = Opening[i] + tx.sale + tx.return + tx.manual
      BY <3>1 DEF Balanced, LedgerSays, Ledger, tx
    <3>4. /\ inventoryTx'[i].return = tx.return /\ inventoryTx'[i].manual = tx.manual
          /\ inventoryTx'[i].sale = tx.sale - r
      BY <3>1, <3>2, <3>3 DEF Ledger
    <3>5. stock'[i] = Opening[i] + inventoryTx'[i].sale + inventoryTx'[i].return + inventoryTx'[i].manual
      BY <3>1, <3>2, <3>3, <3>4
    <3> QED
      BY <3>5 DEF Balanced, LedgerSays
  <2>4. crashes <= crashes'
    BY <1>0, <2>2 DEF Finishes
  <2> QED
    BY <2>3, <2>4 DEF OneTorn
<1>2. CASE Refund
  <2>1. PICK o \in OrderIds, byDevice \in BOOLEAN, restock \in BOOLEAN,
             sentRefund \in BOOLEAN, sent \in BOOLEAN, amount \in Amounts,
             back \in SUBSET Ings, torn \in SUBSET Ings :
          /\ Exists(o)
          /\ RefundOrder(o, byDevice, amount, restock, back, torn, sentRefund, sent)
          /\ \A i, j \in torn : i = j
    BY <1>2, RefundStep
  <2>2. /\ RestockOrderItems(o, back, torn) /\ Finishes(sent)
        /\ sent => torn = {} /\ orders[o].cart \in Carts
    BY <2>1 DEF RefundOrder, WellTyped, CartKnown
  <2>3. orders[o].cart \in Carts
    BY <2>1 DEF WellTyped, CartKnown
  <2>4. \A i \in Ings \ torn : Balanced(i) => Balanced(i)'
    BY <2>2, <2>3, RestockBalances
  <2>5. CASE torn = {}
    <3>1. crashes <= crashes'
      BY <1>0, <2>2 DEF Finishes
    <3> QED
      BY <2>4, <2>5, <3>1 DEF OneTorn
  <2>6. CASE torn # {}
    <3>1. crashes' = crashes + 1
      BY <2>2, <2>6 DEF Finishes
    <3>2. PICK j \in torn : TRUE
      BY <2>6
    <3>3. torn = {j}
      BY <2>1, <3>2
    <3> QED
      BY <2>4, <3>1, <3>3 DEF OneTorn
  <2> QED
    BY <2>5, <2>6
<1>3. CASE Cancel
  <2>1. PICK o \in OrderIds, sent \in BOOLEAN : CancelOrder(o, sent)
    BY <1>3 DEF Cancel
  <2> DEFINE back == Used(orders[o].cart)
  <2>2. /\ RestockOrderItems(o, back, {}) /\ Finishes(sent)
        /\ orders[o].cart \in Carts /\ back \in SUBSET Ings
    BY <2>1 DEF CancelOrder, WellTyped, CartKnown, Exists, Editable, Used
  <2> HIDE DEF back
  <2>3. \A torn \in SUBSET Ings :
          RestockOrderItems(o, back, torn) => \A i \in Ings \ torn : Balanced(i) => Balanced(i)'
    BY <2>2, RestockBalances
  <2>4. \A i \in Ings : Balanced(i) => Balanced(i)'
    BY <2>2, <2>3
  <2>5. crashes <= crashes'
    BY <1>0, <2>2 DEF Finishes
  <2> QED
    BY <2>4, <2>5 DEF OneTorn
<1>4. CASE Adjust
  <2>1. PICK j \in Ings, absolute \in BOOLEAN, sent \in BOOLEAN, qty \in Quantities :
          AdjustStock(j, absolute, qty, sent)
    BY <1>4 DEF Adjust
  <2> DEFINE balance == IF absolute THEN qty ELSE stock[j] + qty
  <2>2. /\ stock' = [stock EXCEPT ![j] = balance]
        /\ inventoryTx' = [inventoryTx EXCEPT ![j].manual = @ + (balance - stock[j])]
        /\ Finishes(sent) /\ balance \in Int
    BY <1>0, <2>1, ConstantsAssumption DEF AdjustStock
  <2> HIDE DEF balance
  <2>3. \A i \in Ings : Balanced(i) => Balanced(i)'
    <3> SUFFICES ASSUME NEW i \in Ings, Balanced(i)
                 PROVE  Balanced(i)'
      OBVIOUS
    <3> DEFINE tx == inventoryTx[i]
    <3>1. /\ tx.sale \in Int /\ tx.return \in Int /\ tx.manual \in Int /\ stock[i] \in Int
          /\ stock[i] = Opening[i] + tx.sale + tx.return + tx.manual /\ Opening[i] \in Int
      BY <1>0 DEF Balanced, LedgerSays, Ledger
    <3>2. /\ inventoryTx'[i].sale = tx.sale /\ inventoryTx'[i].return = tx.return
          /\ inventoryTx'[i].manual = IF i = j THEN tx.manual + (balance - stock[i]) ELSE tx.manual
          /\ stock'[i] = IF i = j THEN balance ELSE stock[i]
      BY <1>0, <2>2 DEF Ledger
    <3> HIDE DEF tx
    <3>3. stock'[i] = Opening[i] + inventoryTx'[i].sale + inventoryTx'[i].return + inventoryTx'[i].manual
      BY <2>2, <3>1, <3>2
    <3> QED
      BY <3>3 DEF Balanced, LedgerSays
  <2>4. crashes <= crashes'
    BY <1>0, <2>2 DEF Finishes
  <2> QED
    BY <2>3, <2>4 DEF OneTorn
<1>5. CASE Discount \/ Pay \/ Hold \/ Resume \/ UNCHANGED vars
  <2>1. UNCHANGED <<stock, inventoryTx>>
    BY <1>5 DEF Discount, ApplyOrderDiscount, Pay, PayOrder, Hold, HoldOrder, Resume, ResumeOrder,
                vars, stockVars
  <2>2. crashes <= crashes'
    BY <1>0, <1>5 DEF Discount, ApplyOrderDiscount, Pay, PayOrder, Hold, HoldOrder, Resume, ResumeOrder,
                vars, Finishes
  <2> QED
    BY <2>1, <2>2 DEF OneTorn, Balanced, LedgerSays
<1> QED
  BY <1>1, <1>2, <1>3, <1>4, <1>5 DEF Next

\* What order o keeps of ingredient i.
Share(o, i) == IF Consumes(o) THEN Recipe[orders[o].cart][i] ELSE 0

\* What the orders consume changes by what the one that changes does.
LEMMA OneConsumer ==
    ASSUME WellTyped, WellTyped', NEW o \in OrderIds, NEW i \in Ings,
           \A p \in OrderIds \ {o} : orders'[p] = orders[p] /\ till'[p] = till[p]
    PROVE  /\ Consumed(i) \in Int /\ Consumed(i)' \in Int
           /\ Share(o, i) \in Int /\ Share(o, i)' \in Int
           /\ Consumed(i)' - Share(o, i)' = Consumed(i) - Share(o, i)
<1> DEFINE K == {p \in OrderIds : Consumes(p)}
<1> DEFINE w == [p \in K |-> Recipe[orders[p].cart][i]]
<1> DEFINE rest == SumFunctionOnSet(w, K \ {o})
<1>1. /\ \A p \in K : w[p] = Recipe[orders[p].cart][i] /\ w[p] \in Int
      /\ \A p \in K' : w'[p] = Recipe[orders'[p].cart][i] /\ w'[p] \in Int
  <2>1. \A p \in K : w[p] = Recipe[orders[p].cart][i] /\ orders[p].cart \in Carts
    BY DEF WellTyped, CartKnown, Consumes
  <2>2. \A p \in K' : w'[p] = Recipe[orders'[p].cart][i] /\ orders'[p].cart \in Carts
    BY DEF WellTyped, CartKnown, Consumes, Exists
  <2>3. \A c \in Carts : Recipe[c][i] \in Int
    BY RecipeType
  <2> HIDE DEF w, K
  <2> QED
    BY <2>1, <2>2, <2>3
<1>2. IsFiniteSet(K) /\ IsFiniteSet(K')
  BY ConstantsAssumption, FS_Subset
<1>3. K' \ {o} = K \ {o}
  BY DEF Consumes, Exists
<1>4. \A p \in K \ {o} : w'[p] = w[p]
  <2> SUFFICES ASSUME NEW p \in K, p # o
               PROVE  w'[p] = w[p]
    OBVIOUS
  <2>1. p \in K' /\ orders'[p] = orders[p]
    BY <1>3
  <2> QED
    BY <1>1, <2>1
<1>5. Consumed(i) = SumFunctionOnSet(w, K) /\ Consumed(i)' = SumFunctionOnSet(w', K')
  BY DEF Consumed, SumFunction
<1>6. /\ o \in K <=> Consumes(o)
      /\ o \in K' <=> Consumes(o)'
  OBVIOUS
<1> HIDE DEF w, K
<1>7. rest \in Int /\ SumFunctionOnSet(w', K' \ {o}) = rest
  <2>1. IsFiniteSet(K \ {o}) /\ \A p \in K \ {o} : w[p] \in Int
    BY <1>1, <1>2, FS_Subset
  <2>2. rest \in Int
    BY <2>1, SumIsInt
  <2>3. SumFunctionOnSet(w', K \ {o}) = rest
    BY <1>4, <2>1, SumSame
  <2> QED
    BY <1>3, <2>2, <2>3
<1>8. Consumed(i) = Share(o, i) + rest /\ Share(o, i) \in Int
  <2>1. CASE Consumes(o)
    <3>1. SumFunctionOnSet(w, K) = w[o] + rest
      BY <1>1, <1>2, <1>6, <2>1, SumAdd
    <3>2. w[o] = Share(o, i) /\ w[o] \in Int
      BY <1>1, <1>6, <2>1 DEF Share
    <3> QED
      BY <1>5, <3>1, <3>2
  <2>2. CASE ~Consumes(o)
    <3>1. K \ {o} = K /\ Share(o, i) = 0
      BY <1>6, <2>2 DEF Share
    <3>2. Consumed(i) = rest
      BY <1>5, <3>1 DEF rest
    <3> QED
      BY <1>7, <3>1, <3>2
  <2> QED
    BY <2>1, <2>2
<1>9. Consumed(i)' = Share(o, i)' + rest /\ Share(o, i)' \in Int
  <2>1. CASE Consumes(o)'
    <3>1. SumFunctionOnSet(w', K') = w'[o] + SumFunctionOnSet(w', K' \ {o})
      BY <1>1, <1>2, <1>6, <2>1, SumAdd
    <3>2. w'[o] = Share(o, i)' /\ w'[o] \in Int
      BY <1>1, <1>6, <2>1 DEF Share
    <3> QED
      BY <1>5, <1>7, <3>1, <3>2
  <2>2. CASE ~Consumes(o)'
    <3>1. K' \ {o} = K' /\ Share(o, i)' = 0
      BY <1>6, <2>2 DEF Share
    <3>2. Consumed(i)' = rest
      BY <1>5, <1>7, <3>1
    <3> QED
      BY <1>7, <3>1, <3>2
  <2> QED
    BY <2>1, <2>2
<1> HIDE DEF rest
<1> QED
  BY <1>7, <1>8, <1>9

\* What the orders consume of an ingredient is a number.
LEMMA ConsumedIsInt ==
    ASSUME WellTyped, WellTyped', NEW i \in Ings
    PROVE  Consumed(i) \in Int /\ Consumed(i)' \in Int
<1> DEFINE K == {p \in OrderIds : Consumes(p)}
<1> DEFINE w == [p \in K |-> Recipe[orders[p].cart][i]]
<1>1. \A c \in Carts : Recipe[c][i] \in Int
  BY RecipeType
<1>2. \A p \in K : w[p] \in Int
  BY <1>1 DEF WellTyped, CartKnown, Consumes
<1>3. \A p \in K' : w'[p] \in Int
  BY <1>1 DEF WellTyped, CartKnown, Consumes, Exists
<1>4. IsFiniteSet(K) /\ IsFiniteSet(K')
  BY ConstantsAssumption, FS_Subset
<1>5. Consumed(i) = SumFunctionOnSet(w, K) /\ Consumed(i)' = SumFunctionOnSet(w', K')
  BY DEF Consumed, SumFunction
<1> HIDE DEF w, K
<1>6. SumFunctionOnSet(w, K) \in Int
  BY <1>2, <1>4, SumIsInt
<1>7. SumFunctionOnSet(w', K') \in Int
  BY <1>3, <1>4, SumIsInt
<1> QED
  BY <1>5, <1>6, <1>7

\* Without a crash, the stock and what the orders consume move together.
Together(i) == stock'[i] + Consumed(i)' - inventoryTx'[i].manual
                 = stock[i] + Consumed(i) - inventoryTx[i].manual

LEMMA StepConsumes ==
    ASSUME HoldFrom \subseteq Editable, WellTyped, WellTyped', MoneyInv, [Next]_vars, crashes' = crashes
    PROVE  \A i \in Ings : Together(i)
<1> SUFFICES ASSUME NEW i \in Ings PROVE Together(i)
  OBVIOUS
<1>0. /\ orders \in [OrderIds -> Order] /\ till \in [OrderIds -> Till]
      /\ crashes \in Nat /\ crashes # crashes + 1
      /\ stock \in [Ings -> Int] /\ inventoryTx \in [Ings -> Ledger]
      /\ \A p \in OrderIds : Sound(orders[p].status, orders[p].total, till[p], returned[p])
  BY ConstantsAssumption, MoneyInvSound DEF WellTyped, TypeOK
<1>1. /\ stock[i] \in Int /\ inventoryTx[i] \in Ledger /\ inventoryTx[i].manual \in Int
      /\ inventoryTx[i].sale \in Int /\ inventoryTx[i].return \in Int
      /\ stock'[i] \in Int /\ inventoryTx'[i].manual \in Int
  BY DEF WellTyped, TypeOK, Ledger
<1>2. CASE Create
  <2>1. PICK o \in OrderIds, d \in DeviceIds \cup {NoId}, c \in Carts,
             disc \in Discounts, sent \in BOOLEAN :
          \E drawn \in SUBSET Used(c) : CreateOrder(o, d, c, disc, drawn, sent)
    BY <1>2 DEF Create
  <2>2. /\ orders[o].status = "none"
        /\ orders' = [orders EXCEPT ![o] =
             [status |-> "open", device |-> d, no |-> NextOrderNumber, cart |-> c,
              total |-> CartTotal[c][disc]]]
        /\ till' = till /\ DeductForOrder(c)
    BY <2>1 DEF CreateOrder, Exists
  <2>3. /\ orders'[o].status = "open" /\ orders'[o].cart = c
        /\ \A p \in OrderIds \ {o} : orders'[p] = orders[p]
    BY ONLY <1>0, <2>2
  <2>4. till[o].restock = FALSE
    BY <1>0, <2>2 DEF Sound, NoMoney
  <2>5. Share(o, i) = 0 /\ Share(o, i)' = Recipe[c][i]
    BY <2>2, <2>3, <2>4 DEF Share, Consumes, Exists
  <2>6. Consumed(i) \in Int /\ Consumed(i)' \in Int /\ Consumed(i)' - Share(o, i)' = Consumed(i) - Share(o, i)
    BY <2>2, <2>3, OneConsumer
  <2>7. Recipe[c][i] \in Nat
    BY RecipeType
  <2>8. stock'[i] = stock[i] - Recipe[c][i] /\ inventoryTx'[i].manual = inventoryTx[i].manual
    BY <1>1, <2>2 DEF DeductForOrder, Ledger
  <2> QED
    BY <1>1, <2>5, <2>6, <2>7, <2>8 DEF Together
<1>3. CASE Discount
  <2>1. PICK o \in OrderIds, disc \in Discounts, sent \in BOOLEAN :
          ApplyOrderDiscount(o, disc, sent)
    BY <1>3 DEF Discount
  <2>2. /\ orders' = [orders EXCEPT ![o].total = EditTotal[orders[o].cart][disc]]
        /\ till' = till /\ stock' = stock /\ inventoryTx' = inventoryTx
    BY <2>1 DEF ApplyOrderDiscount, stockVars
  <2>3. /\ orders'[o].status = orders[o].status /\ orders'[o].cart = orders[o].cart
        /\ \A p \in OrderIds \ {o} : orders'[p] = orders[p]
    BY ONLY <1>0, <2>2 DEF Order
  <2>4. Share(o, i)' = Share(o, i)
    BY <2>2, <2>3 DEF Share, Consumes, Exists
  <2>5. /\ Consumed(i) \in Int /\ Consumed(i)' \in Int /\ Share(o, i) \in Int
        /\ Consumed(i)' - Share(o, i)' = Consumed(i) - Share(o, i)
    BY <2>2, <2>3, OneConsumer
  <2>6. Consumed(i)' = Consumed(i)
    BY <2>4, <2>5
  <2> QED
    BY <2>2, <2>6 DEF Together
<1>4. CASE Pay
  <2>1. PICK o \in OrderIds, amount \in Nat :
          /\ orders[o].status \in Editable
          /\ till' = [till EXCEPT ![o] =
               [captured |-> @.captured + amount, received |-> @.received + amount,
                charges |-> @.charges + 1, refunded |-> @.refunded,
                restock |-> @.restock]]
          /\ orders' = [orders EXCEPT ![o].status = PaidStatus(o, amount)]
    BY <1>4, PayStep
  <2>2. stock' = stock /\ inventoryTx' = inventoryTx
    BY <1>4 DEF Pay, PayOrder, stockVars
  <2>3. /\ orders'[o].status = PaidStatus(o, amount) /\ orders'[o].cart = orders[o].cart
        /\ till'[o].restock = till[o].restock
        /\ \A p \in OrderIds \ {o} : orders'[p] = orders[p] /\ till'[p] = till[p]
    BY ONLY <1>0, <2>1 DEF Order
  <2>4. Share(o, i)' = Share(o, i)
    <3>1. Consumes(o)' <=> Consumes(o)
      BY <2>1, <2>3 DEF Consumes, Exists, Editable, PaidStatus
    <3> QED
      BY <2>3, <3>1 DEF Share
  <2>5. /\ Consumed(i) \in Int /\ Consumed(i)' \in Int /\ Share(o, i) \in Int
        /\ Consumed(i)' - Share(o, i)' = Consumed(i) - Share(o, i)
    BY <2>3, OneConsumer
  <2>6. Consumed(i)' = Consumed(i)
    BY <2>4, <2>5
  <2> QED
    BY <2>2, <2>6 DEF Together
<1>5. CASE Refund
  <2>1. PICK o \in OrderIds, byDevice \in BOOLEAN, restock \in BOOLEAN,
             sentRefund \in BOOLEAN, sent \in BOOLEAN, amount \in Amounts,
             back \in SUBSET Ings, torn \in SUBSET Ings :
          /\ Exists(o)
          /\ RefundOrder(o, byDevice, amount, restock, back, torn, sentRefund, sent)
    BY <1>5, RefundStep
  <2>2. sent
    BY <1>0, <2>1 DEF RefundOrder, Finishes
  <2>3. /\ orders[o].status \in {"completed", "paid", "partially_refunded"}
        /\ 0 < amount /\ amount <= Refundable(o, byDevice) /\ amount \in Int
        /\ orders' = [orders EXCEPT ![o].status = RefundStatus(o, till[o].refunded + amount)]
        /\ till' = [till EXCEPT ![o] =
             [captured |-> 0, received |-> @.received, charges |-> @.charges,
              refunded |-> till[o].refunded + amount, restock |-> @.restock \/ restock]]
        /\ RestockOrderItems(o, back, {})
        /\ back = (IF restock THEN Used(orders[o].cart) ELSE {})
    BY <2>1, <2>2, ConstantsAssumption DEF RefundOrder
  <2>4. till[o] \in Till /\ orders[o] \in Order /\ orders[o].cart \in Carts
    BY <1>0, <2>1 DEF WellTyped, CartKnown
  <2>5. amount <= till[o].captured
    BY <2>3, <2>4 DEF Refundable, Till
  <2>6. orders[o].status \in {"completed", "paid"} /\ till[o].restock = FALSE
    BY ONLY <1>0, <2>3, <2>4, <2>5 DEF Sound, Till
  <2>7. /\ orders'[o].status \in {"refunded", "partially_refunded"} /\ orders'[o].cart = orders[o].cart
        /\ till'[o].restock = restock
        /\ \A p \in OrderIds \ {o} : orders'[p] = orders[p] /\ till'[p] = till[p]
    BY <1>0, <2>3, <2>4, <2>6 DEF Order, RefundStatus
  <2> DEFINE r == Recipe[orders[o].cart][i]
  <2>8. Share(o, i) = r /\ Share(o, i)' = IF restock THEN 0 ELSE r
    BY <2>6, <2>7 DEF Share, Consumes, Exists
  <2>9. r \in Nat
    BY <2>4, RecipeType
  <2>10. stock'[i] = IF i \in back THEN stock[i] + r ELSE stock[i]
    BY <2>3 DEF RestockOrderItems
  <2>11. inventoryTx'[i].manual = inventoryTx[i].manual
    BY <1>1, <2>3 DEF RestockOrderItems, Ledger
  <2>12. i \in back <=> restock /\ r > 0
    BY <2>3 DEF Used
  <2>13. /\ Consumed(i) \in Int /\ Consumed(i)' \in Int
         /\ Consumed(i)' - Share(o, i)' = Consumed(i) - Share(o, i)
    BY <2>7, OneConsumer
  <2> HIDE DEF r
  <2>14. stock'[i] + Share(o, i)' = stock[i] + Share(o, i)
    BY <1>1, <2>8, <2>9, <2>10, <2>12
  <2> QED
    BY <1>1, <2>8, <2>9, <2>11, <2>13, <2>14 DEF Together
<1>6. CASE Cancel
  <2>1. PICK o \in OrderIds, sent \in BOOLEAN : CancelOrder(o, sent)
    BY <1>6 DEF Cancel
  <2>2. /\ orders[o].status \in {"open", "held"}
        /\ orders' = [orders EXCEPT ![o].status = "cancelled"]
        /\ till' = till
        /\ RestockOrderItems(o, Used(orders[o].cart), {})
    BY <2>1 DEF CancelOrder, Editable
  <2>3. /\ orders'[o].status = "cancelled"
        /\ \A p \in OrderIds \ {o} : orders'[p] = orders[p]
    BY ONLY <1>0, <2>2 DEF Order
  <2>4. till[o].restock = FALSE /\ orders[o].cart \in Carts
    BY <1>0, <2>2 DEF Sound, NoMoney, WellTyped, CartKnown, Exists
  <2> DEFINE r == Recipe[orders[o].cart][i]
  <2>5. Share(o, i) = r /\ Share(o, i)' = 0
    BY <2>2, <2>3, <2>4 DEF Share, Consumes, Exists
  <2>6. r \in Nat
    BY <2>4, RecipeType
  <2>7. stock'[i] = IF r > 0 THEN stock[i] + r ELSE stock[i]
    BY <2>2 DEF RestockOrderItems, Used
  <2>8. inventoryTx'[i].manual = inventoryTx[i].manual
    BY <1>1, <2>2 DEF RestockOrderItems, Ledger
  <2>9. /\ Consumed(i) \in Int /\ Consumed(i)' \in Int
        /\ Consumed(i)' - Share(o, i)' = Consumed(i) - Share(o, i)
    BY <2>2, <2>3, OneConsumer
  <2> HIDE DEF r
  <2>10. stock'[i] = stock[i] + r
    BY <1>1, <2>6, <2>7
  <2> QED
    BY <1>1, <2>5, <2>6, <2>8, <2>9, <2>10 DEF Together
<1>7. CASE Hold \/ Resume
  <2>1. PICK o \in OrderIds, status \in {"open", "held"} :
          /\ orders[o].status \in {"open", "held"}
          /\ orders' = [orders EXCEPT ![o].status = status]
          /\ UNCHANGED <<till, stock, inventoryTx>>
    <3>1. ASSUME NEW o \in OrderIds, HoldOrder(o)
          PROVE  /\ orders[o].status \in {"open", "held"}
                 /\ orders' = [orders EXCEPT ![o].status = "held"]
                 /\ UNCHANGED <<till, stock, inventoryTx>>
      BY <3>1 DEF HoldOrder, Editable, stockVars
    <3>2. ASSUME NEW o \in OrderIds, ResumeOrder(o)
          PROVE  /\ orders[o].status \in {"open", "held"}
                 /\ orders' = [orders EXCEPT ![o].status = "open"]
                 /\ UNCHANGED <<till, stock, inventoryTx>>
      BY <3>2 DEF ResumeOrder, stockVars
    <3> QED
      BY <1>7, <3>1, <3>2 DEF Hold, Resume
  <2>2. /\ orders'[o].status = status /\ orders'[o].cart = orders[o].cart
        /\ \A p \in OrderIds \ {o} : orders'[p] = orders[p]
    BY ONLY <1>0, <2>1 DEF Order
  <2>3. Share(o, i)' = Share(o, i)
    BY <2>1, <2>2 DEF Share, Consumes, Exists
  <2>4. /\ Consumed(i) \in Int /\ Consumed(i)' \in Int /\ Share(o, i) \in Int
        /\ Consumed(i)' - Share(o, i)' = Consumed(i) - Share(o, i)
    BY <2>1, <2>2, OneConsumer
  <2>5. Consumed(i)' = Consumed(i)
    BY <2>3, <2>4
  <2> QED
    BY <2>1, <2>5 DEF Together
<1>8. CASE Adjust \/ UNCHANGED vars
  <2>1. orders' = orders /\ till' = till
    BY <1>8 DEF Adjust, AdjustStock, vars
  <2>2. Consumed(i)' = Consumed(i)
    BY <2>1 DEF Consumed, Consumes, Exists
  <2>3. \/ stock' = stock /\ inventoryTx' = inventoryTx
        \/ \E j \in Ings, delta \in Int :
             /\ stock' = [stock EXCEPT ![j] = stock[j] + delta]
             /\ inventoryTx' = [inventoryTx EXCEPT ![j].manual = @ + delta]
    <3>1. CASE UNCHANGED vars
      BY <3>1 DEF vars, stockVars
    <3>2. CASE Adjust
      <4>1. PICK j \in Ings, absolute \in BOOLEAN, sent \in BOOLEAN, qty \in Quantities :
              AdjustStock(j, absolute, qty, sent)
        BY <3>2 DEF Adjust
      <4> DEFINE balance == IF absolute THEN qty ELSE stock[j] + qty
      <4>2. /\ stock' = [stock EXCEPT ![j] = balance]
            /\ inventoryTx' = [inventoryTx EXCEPT ![j].manual = @ + (balance - stock[j])]
        BY <4>1 DEF AdjustStock
      <4>3. balance \in Int /\ stock[j] \in Int
        BY <1>0, ConstantsAssumption
      <4> HIDE DEF balance
      <4>4. balance - stock[j] \in Int /\ balance = stock[j] + (balance - stock[j])
        BY <4>3
      <4> QED
        BY <4>2, <4>4
    <3> QED
      BY <1>8, <3>1, <3>2
  <2>4. CASE stock' = stock /\ inventoryTx' = inventoryTx
    BY <2>2, <2>4 DEF Together
  <2>5. ASSUME NEW j \in Ings, NEW delta \in Int,
               stock' = [stock EXCEPT ![j] = stock[j] + delta],
               inventoryTx' = [inventoryTx EXCEPT ![j].manual = @ + delta]
        PROVE  Together(i)
    <3>1. stock'[i] = IF i = j THEN stock[i] + delta ELSE stock[i]
      BY <1>0, <2>5
    <3>2. inventoryTx'[i].manual = IF i = j THEN inventoryTx[i].manual + delta ELSE inventoryTx[i].manual
      BY <1>0, <1>1, <2>5 DEF Ledger
    <3>3. Consumed(i) \in Int
      BY ConsumedIsInt
    <3> QED
      BY <1>1, <2>2, <2>5, <3>1, <3>2, <3>3 DEF Together
  <2> QED
    BY <2>3, <2>4, <2>5
<1> QED
  BY <1>2, <1>3, <1>4, <1>5, <1>6, <1>7, <1>8 DEF Next

\* The ledger explains the stock but for one ingredient a crash, and without a
\* crash the orders explain it: for any number of ingredients, recipes and
\* orders, through cancellations, partial refunds, restocks and adjustments, if
\* clients hold only orders that are open or held.
THEOREM StockIsExplained ==
    ASSUME HoldFrom \subseteq Editable
    PROVE  Spec => []StockExplained
<1> DEFINE wrong == {i \in Ings : stock[i] # LedgerSays(i)}
<1> DEFINE Kept == crashes = 0 => \A i \in Ings : stock[i] = Opening[i] + inventoryTx[i].manual - Consumed(i)
<1>1. Init => StockExplained
  <2> SUFFICES ASSUME Init PROVE StockExplained
    OBVIOUS
  <2>1. \A i \in Ings : Opening[i] \in Int /\ stock[i] = Opening[i] /\ LedgerSays(i) = Opening[i]
                        /\ inventoryTx[i].manual = 0
    BY ConstantsAssumption DEF Init, LedgerSays
  <2>2. wrong = {} /\ crashes = 0
    BY <2>1 DEF Init
  <2>3. Cardinality({}) = 0
    BY FS_EmptySet, Zenon
  <2>4. \A i \in Ings : Consumed(i) = 0
    <3> TAKE i \in Ings
    <3> DEFINE w == [o \in {p \in OrderIds : Consumes(p)} |-> Recipe[orders[o].cart][i]]
    <3>0. {p \in OrderIds : Consumes(p)} = {}
      BY DEF Init, Consumes, Exists, NoOrder
    <3>1. DOMAIN w = {}
      BY <3>0
    <3>2. Consumed(i) = SumFunctionOnSet(w, DOMAIN w)
      BY DEF Consumed, SumFunction
    <3> HIDE DEF w
    <3> QED
      BY <3>1, <3>2, SumEmpty
  <2>5. \A i \in Ings : stock[i] = Opening[i] + inventoryTx[i].manual - Consumed(i)
    BY <2>1, <2>4
  <2> QED
    BY <2>2, <2>3, <2>5 DEF StockExplained
<1>2. WellTyped /\ WellTyped' /\ MoneyInv /\ StockExplained /\ [Next]_vars => StockExplained'
  <2> SUFFICES ASSUME WellTyped, WellTyped', MoneyInv, StockExplained, [Next]_vars
               PROVE  StockExplained'
    OBVIOUS
  <2>1. crashes \in Nat /\ crashes' \in Nat
    BY ConstantsAssumption DEF WellTyped, TypeOK
  <2>2. OneTorn
    BY StepBalances
  <2>3. Cardinality(wrong') <= crashes'
    <3>1. IsFiniteSet(wrong) /\ Cardinality(wrong) <= crashes
      BY ConstantsAssumption, FS_Subset DEF StockExplained
    <3>2. \/ wrong' \subseteq wrong /\ crashes <= crashes'
          \/ crashes' = crashes + 1 /\ \E x : wrong' \subseteq wrong \cup {x}
      <4>1. CASE crashes <= crashes' /\ \A i \in Ings : Balanced(i) => Balanced(i)'
        BY <4>1 DEF Balanced
      <4>2. CASE /\ crashes' = crashes + 1
                 /\ \E j \in Ings : \A i \in Ings \ {j} : Balanced(i) => Balanced(i)'
        <5>1. PICK j \in Ings : \A i \in Ings \ {j} : Balanced(i) => Balanced(i)'
          BY <4>2
        <5>2. wrong' \subseteq wrong \cup {j}
          BY <5>1 DEF Balanced
        <5> QED
          BY <4>2, <5>2
      <4> QED
        BY <2>2, <4>1, <4>2 DEF OneTorn
    <3> HIDE DEF wrong
    <3> QED
      BY <2>1, <3>1, <3>2, CrashesBound
  <2>4. ASSUME crashes' = 0, NEW i \in Ings
        PROVE  stock'[i] = Opening[i] + inventoryTx'[i].manual - Consumed(i)'
    <3>1. crashes = 0
      BY <2>1, <2>2, <2>4 DEF OneTorn
    <3>2. stock[i] = Opening[i] + inventoryTx[i].manual - Consumed(i)
      BY <3>1 DEF StockExplained
    <3>3. Together(i)
      BY <2>4, <3>1, StepConsumes
    <3>4. /\ stock[i] \in Int /\ stock'[i] \in Int /\ Opening[i] \in Int
          /\ inventoryTx[i].manual \in Int /\ inventoryTx'[i].manual \in Int
      BY ConstantsAssumption DEF WellTyped, TypeOK, Ledger
    <3>5. Consumed(i) \in Int /\ Consumed(i)' \in Int
      BY ConsumedIsInt
    <3> QED
      BY <3>2, <3>3, <3>4, <3>5 DEF Together
  <2> QED
    BY <2>3, <2>4 DEF StockExplained
<1> QED
  BY <1>1, <1>2, InitWellTyped, StepWellTyped, MoneyAlways, PTL DEF Spec
===============================================================================
