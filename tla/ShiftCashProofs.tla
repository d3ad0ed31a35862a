---------------------------- MODULE ShiftCashProofs ----------------------------
(***************************************************************************)
(* Theorems about the shifts, the cash they account for and the reports,   *)
(* for every number of people, orders, shifts and refunds, and all prices. *)
(***************************************************************************)
EXTENDS Reports, SetFacts, SequenceTheorems, TLAPS

-------------------------------------------------------------------------------
(* The inductive invariant *)

PaidStatuses == {"paid", "completed", "partially_refunded", "refunded"}

\* An order has a method and a payer once it is paid, and was created before.
OrdersInOrder ==
    \A o \in OrderIds :
      /\ orders[o].status \in {"none", "open"} => orders[o].method = None /\ orders[o].payer = None
      /\ orders[o].status # "none" => orders[o].cashier \in Users /\ orders[o].created <= clock
      /\ orders[o].status \in PaidStatuses =>
           /\ orders[o].method \in Methods /\ orders[o].payer \in Users
           /\ orders[o].created < orders[o].paidAt /\ orders[o].paidAt <= clock

\* A refund is of an order that shows it.
RefundsInOrder ==
    \A n \in DOMAIN refunds :
      /\ orders[refunds[n].order].status \in {"partially_refunded", "refunded"}
      /\ refunds[n].at <= clock

\* A shift ends after it starts, and an open one has no figures yet.
ShiftsInOrder ==
    \A k \in DOMAIN shifts :
      /\ shifts[k].openedAt <= clock
      /\ shifts[k].status = "open" => shifts[k].closedAt = 0 /\ sold[k] = {}
      /\ shifts[k].status = "closed" => shifts[k].openedAt < shifts[k].closedAt /\ shifts[k].closedAt <= clock

\* The shifts of one cashier follow each other.
OneAtATime ==
    \A j, k \in DOMAIN shifts :
      j < k /\ shifts[j].user = shifts[k].user =>
        /\ shifts[j].status = "closed"
        /\ shifts[j].closings = 1 => shifts[j].closedAt < shifts[k].openedAt

\* A shift that was closed once counted the sales of its time, and no others.
FiguresStand ==
    \A k \in DOMAIN shifts : shifts[k].closings = 1 =>
      \A o \in OrderIds :
        LET during == /\ orders[o].cashier = shifts[k].user
                      /\ shifts[k].openedAt <= orders[o].paidAt
                      /\ orders[o].paidAt <= shifts[k].closedAt
        IN /\ o \in sold[k] => during /\ orders[o].status \in PaidStatuses
           /\ during /\ orders[o].status \in SoldStatuses => o \in sold[k]

\* The cash refunds that u gave since time t.
BackBy(u, t) ==
    {n \in DOMAIN refunds : /\ orders[refunds[n].order].method = "cash"
                            /\ refunds[n].user = u /\ refunds[n].at >= t}

\* The drawer of an open shift holds the float, the cash that was taken since,
\* whole payments and parts of split ones, less the cash that was given back.
Drawer ==
    \A k \in DOMAIN shifts, u \in Users, t \in Times :
      shifts[k].status = "open" /\ shifts[k].user = u /\ shifts[k].openedAt = t =>
        handled[k] = shifts[k].opening + Takings(TakenBy(u, t))
                       + SumFunctionOnSet(CashPart, SplitBy(u, t))
                       - SumFunctionOnSet(Amounts, BackBy(u, t))

IInv ==
    /\ TypeOK /\ OrdersInOrder /\ RefundsInOrder /\ ShiftsInOrder
    /\ OneAtATime /\ FiguresStand /\ Drawer

-------------------------------------------------------------------------------
(* Facts about the tables and their sums *)

\* The tables are what they are.
LEMMA Tables ==
    ASSUME TypeOK
    PROVE  /\ clock \in Nat /\ MaxClock \in Nat /\ clock <= MaxClock
           /\ Len(shifts) \in Nat /\ DOMAIN shifts = 1..Len(shifts) /\ DOMAIN handled = 1..Len(shifts)
           /\ DOMAIN sold = 1..Len(shifts)
           /\ \A k \in DOMAIN shifts : /\ shifts[k] \in Shift /\ handled[k] \in Int /\ sold[k] \in SUBSET OrderIds
           /\ Len(refunds) \in Nat /\ DOMAIN refunds = 1..Len(refunds)
           /\ \A n \in DOMAIN refunds : refunds[n] \in Refund
<1>1. clock \in Nat /\ MaxClock \in Nat /\ clock <= MaxClock
  BY ConstantsAssumption DEF TypeOK, Times
<1>2. /\ Len(shifts) \in Nat /\ DOMAIN shifts = 1..Len(shifts)
      /\ \A k \in DOMAIN shifts : shifts[k] \in Shift
  BY LenProperties, ElementOfSeq DEF TypeOK
<1>3. DOMAIN handled = 1..Len(shifts) /\ \A k \in 1..Len(shifts) : handled[k] \in Int
  BY LenProperties, ElementOfSeq DEF TypeOK
<1>4. DOMAIN sold = 1..Len(shifts) /\ \A k \in 1..Len(shifts) : sold[k] \in SUBSET OrderIds
  BY LenProperties, ElementOfSeq DEF TypeOK
<1>5. /\ Len(refunds) \in Nat /\ DOMAIN refunds = 1..Len(refunds)
      /\ \A n \in DOMAIN refunds : refunds[n] \in Refund
  BY LenProperties, ElementOfSeq DEF TypeOK
<1> QED
  BY <1>1, <1>2, <1>3, <1>4, <1>5

\* What orders are worth, and the cash in them, are numbers.
LEMMA OrderSums ==
    \A os \in SUBSET OrderIds :
      /\ IsFiniteSet(os)
      /\ \A o \in os : Total[o] \in Int /\ CashPart[o] \in Int
      /\ Value(os) \in Int /\ SumFunctionOnSet(CashPart, os) \in Int
<1> TAKE os \in SUBSET OrderIds
<1>1. IsFiniteSet(os)
  BY ConstantsAssumption, FS_Subset
<1>2. \A o \in os : Total[o] \in Nat
  BY ConstantsAssumption
<1>3. \A o \in os : CashPart[o] \in Int
  BY <1>2, ConstantsAssumption
<1>4. \A o \in os : Total[o] \in Int
  BY <1>2
<1>5. Value(os) \in Int
  BY <1>1, <1>4, SumIsInt DEF Value
<1>6. SumFunctionOnSet(CashPart, os) \in Int
  BY <1>1, <1>3, SumIsInt
<1> QED
  BY <1>1, <1>3, <1>4, <1>5, <1>6

\* What was paid for orders is a number.
LEMMA PaidSums ==
    ASSUME TypeOK
    PROVE  /\ \A o \in OrderIds : Paid[o] = orders[o].paid /\ Paid[o] \in Nat /\ Paid[o] \in Int
           /\ \A os \in SUBSET OrderIds : Takings(os) \in Int
<1>1. \A o \in OrderIds : Paid[o] = orders[o].paid /\ Paid[o] \in Nat
  BY DEF TypeOK, Order, Paid
<1>2. \A os \in SUBSET OrderIds : Takings(os) \in Int
  <2> TAKE os \in SUBSET OrderIds
  <2>1. IsFiniteSet(os)
    BY OrderSums
  <2>2. \A o \in os : Paid[o] \in Int
    BY <1>1
  <2> QED
    BY <2>1, <2>2, SumIsInt DEF Takings
<1> QED
  BY <1>1, <1>2

\* As long as their payments stay, so do the takings.
LEMMA TakingsStay ==
    ASSUME NEW os \in SUBSET OrderIds, \A o \in os : orders'[o].paid = orders[o].paid
    PROVE  SumFunctionOnSet(Paid', os) = Takings(os)
<1>1. IsFiniteSet(os)
  BY OrderSums
<1>2. \A o \in os : Paid'[o] = Paid[o]
  BY DEF Paid
<1> QED
  BY <1>1, <1>2, SumSame DEF Takings

\* Sales in two parts bring in what the parts do.
LEMMA TakingsSplit ==
    ASSUME TypeOK, NEW os \in SUBSET OrderIds, NEW part \in SUBSET os
    PROVE  Takings(os) = Takings(part) + Takings(os \ part)
<1>1. IsFiniteSet(os) /\ \A o \in os : Paid[o] \in Int
  BY OrderSums, PaidSums
<1>2. SumFunctionOnSet(Paid, os) = SumFunctionOnSet(Paid, part) + SumFunctionOnSet(Paid, os \ part)
  BY <1>1, SumSplit
<1> QED
  BY <1>2 DEF Takings

\* What was refunded is a number.
LEMMA RefundSums ==
    ASSUME TypeOK
    PROVE  \A ns \in SUBSET DOMAIN refunds :
             /\ IsFiniteSet(ns)
             /\ \A n \in ns : Amounts[n] \in Int
             /\ SumFunctionOnSet(Amounts, ns) \in Int
<1> TAKE ns \in SUBSET DOMAIN refunds
<1>1. IsFiniteSet(ns)
  <2>1. DOMAIN refunds = 1..Len(refunds) /\ 1 \in Int /\ Len(refunds) \in Int
    BY Tables
  <2>2. IsFiniteSet(1..Len(refunds))
    BY <2>1, FS_Interval
  <2> QED
    BY <2>1, <2>2, FS_Subset
<1>2. \A n \in ns : Amounts[n] \in Int
  BY Tables DEF Amounts, Refund
<1> QED
  BY <1>1, <1>2, SumIsInt

\* The expected cash of a shift is a number.
LEMMA ExpectedIsInt ==
    ASSUME TypeOK, NEW k \in DOMAIN shifts
    PROVE  Metrics(shifts[k]).expected \in Int
<1>1. SoldBy(shifts[k], "cash") \in SUBSET OrderIds
  BY DEF SoldBy, Counted
<1>2. Takings(SoldBy(shifts[k], "cash")) \in Int
  BY <1>1, PaidSums
<1> DEFINE ns == {n \in DOMAIN refunds : /\ orders[refunds[n].order].method = "cash"
                                         /\ refunds[n].user = shifts[k].user
                                         /\ refunds[n].at >= shifts[k].openedAt}
<1>3. CashRefunds(shifts[k]) = SumFunctionOnSet(Amounts, ns) /\ ns \in SUBSET DOMAIN refunds
  BY DEF CashRefunds
<1> HIDE DEF ns
<1>4. CashRefunds(shifts[k]) \in Int
  BY <1>3, RefundSums
<1>5. shifts[k].opening \in Int
  BY Tables DEF Shift
<1> QED
  BY <1>2, <1>4, <1>5 DEF Metrics

\* The day starts with empty tables.
LEMMA Starts ==
    ASSUME Init
    PROVE  IInv
<1>1. /\ clock = 0 /\ orders = [o \in OrderIds |-> NoOrder]
      /\ shifts = <<>> /\ refunds = <<>> /\ handled = <<>> /\ sold = <<>>
  BY DEF Init
<1>2. /\ shifts \in Seq(Shift) /\ refunds \in Seq(Refund) /\ handled \in Seq(Int)
      /\ sold \in Seq(SUBSET OrderIds)
      /\ Len(shifts) = 0 /\ Len(handled) = 0 /\ Len(sold) = 0
      /\ DOMAIN shifts = {} /\ DOMAIN refunds = {}
  BY <1>1, EmptySeq
<1>3. clock \in Times /\ orders \in [OrderIds -> Order]
  BY <1>1, ConstantsAssumption DEF Times, NoOrder, Order, Statuses
<1>4. TypeOK
  BY <1>2, <1>3 DEF TypeOK
<1>5. OrdersInOrder
  BY <1>1 DEF OrdersInOrder, NoOrder, PaidStatuses
<1> QED
  BY <1>2, <1>4, <1>5 DEF IInv, RefundsInOrder, ShiftsInOrder, OneAtATime, FiguresStand, Drawer

-------------------------------------------------------------------------------
(* Shifts *)

\* A shift opens when its cashier has none that is open.
LEMMA OpenShiftStep ==
    ASSUME IInv, NEW u \in Users, NEW opening \in Floats, OpenShift(u, opening)
    PROVE  IInv'
<1> DEFINE row == [user |-> u, opening |-> opening, status |-> "open",
                   openedAt |-> Now, closedAt |-> 0, expected |-> 0,
                   difference |-> 0, closings |-> 0]
<1> DEFINE n == Len(shifts) + 1
<1>0. /\ OpenShifts(u) = {} /\ clock < MaxClock /\ clock' = clock + 1
      /\ shifts' = Append(shifts, row) /\ handled' = Append(handled, opening)
      /\ sold' = Append(sold, {}) /\ UNCHANGED <<orders, refunds>>
  BY DEF OpenShift, Tick
<1>1. /\ clock \in Nat /\ MaxClock \in Nat /\ Len(shifts) \in Nat /\ DOMAIN shifts = 1..Len(shifts)
      /\ \A k \in DOMAIN shifts : shifts[k] \in Shift /\ sold[k] \in SUBSET OrderIds /\ handled[k] \in Int
      /\ DOMAIN refunds = 1..Len(refunds) /\ \A i \in DOMAIN refunds : refunds[i] \in Refund
      /\ clock' \in Nat /\ Now = clock' /\ opening \in Int
  BY <1>0, Tables, ConstantsAssumption DEF IInv, Now
<1>2. row \in Shift /\ clock' \in Times
  BY <1>0, <1>1 DEF Shift, Times
<1>3. /\ row.user = u /\ row.opening = opening /\ row.status = "open" /\ row.openedAt = clock'
      /\ row.closedAt = 0 /\ row.closings = 0
  BY <1>1
<1> HIDE DEF row
<1>4. /\ shifts' \in Seq(Shift) /\ Len(shifts') = n /\ DOMAIN shifts' = 1..n
      /\ \A k \in DOMAIN shifts : shifts'[k] = shifts[k]
      /\ shifts'[n] = row
  BY <1>0, <1>1, <1>2, AppendProperties, LenProperties DEF IInv, TypeOK
<1>5. /\ handled' \in Seq(Int) /\ Len(handled') = n
      /\ \A k \in DOMAIN shifts : handled'[k] = handled[k]
      /\ handled'[n] = opening
  BY <1>0, <1>1, AppendProperties, LenProperties DEF IInv, TypeOK
<1>6. /\ sold' \in Seq(SUBSET OrderIds) /\ Len(sold') = n
      /\ \A k \in DOMAIN shifts : sold'[k] = sold[k]
      /\ sold'[n] = {}
  <2>1. {} \in SUBSET OrderIds
    OBVIOUS
  <2> QED
    BY <1>0, <1>1, <2>1, AppendProperties, LenProperties DEF IInv, TypeOK
<1>7. \A k \in DOMAIN shifts' : k \in DOMAIN shifts \/ k = n
  BY <1>1, <1>4
<1>8. TypeOK'
  BY <1>0, <1>2, <1>3, <1>4, <1>5, <1>6, <1>7 DEF IInv, TypeOK
<1>9. OrdersInOrder'
  <2>1. \A o \in OrderIds : orders[o].created \in Nat /\ orders[o].paidAt \in Nat
    BY DEF IInv, TypeOK, Order, Times
  <2> QED
    BY <1>0, <1>1, <2>1 DEF IInv, OrdersInOrder
<1>10. RefundsInOrder'
  <2>1. \A i \in DOMAIN refunds : refunds[i].at \in Nat
    BY <1>1 DEF Refund, Times
  <2> QED
    BY <1>0, <1>1, <2>1 DEF IInv, RefundsInOrder
<1>11. \A k \in DOMAIN shifts : shifts[k].openedAt \in Nat /\ shifts[k].closedAt \in Nat /\ shifts[k].status \in {"open", "closed"}
  BY <1>1 DEF Shift, Times
<1>12. ShiftsInOrder'
  BY <1>0, <1>1, <1>3, <1>4, <1>6, <1>7, <1>11 DEF IInv, ShiftsInOrder
<1>13. OneAtATime'
  <2> SUFFICES ASSUME NEW j \in DOMAIN shifts', NEW k \in DOMAIN shifts',
                      j < k, shifts'[j].user = shifts'[k].user
               PROVE  /\ shifts'[j].status = "closed"
                      /\ shifts'[j].closings = 1 => shifts'[j].closedAt < shifts'[k].openedAt
    BY DEF OneAtATime
  <2>1. CASE k \in DOMAIN shifts
    <3>1. j \in DOMAIN shifts
      BY <1>1, <1>4, <2>1
    <3> QED
      BY <1>4, <2>1, <3>1 DEF IInv, OneAtATime
  <2>2. CASE k = n
    <3>1. j \in DOMAIN shifts
      BY <1>1, <1>4, <2>2
    <3>2. shifts[j].user = u
      BY <1>3, <1>4, <2>2, <3>1
    <3>3. shifts[j].status = "closed"
      BY <1>0, <1>11, <3>1, <3>2 DEF OpenShifts
    <3>4. shifts[j].closedAt < clock'
      BY <1>0, <1>1, <1>11, <3>1, <3>3 DEF IInv, ShiftsInOrder
    <3> QED
      BY <1>3, <1>4, <2>2, <3>1, <3>3, <3>4
  <2> QED
    BY <1>7, <2>1, <2>2
<1>14. FiguresStand'
  <2> SUFFICES ASSUME NEW k \in DOMAIN shifts', shifts'[k].closings = 1
               PROVE  \A o \in OrderIds :
                        LET during == /\ orders[o].cashier = shifts'[k].user
                                      /\ shifts'[k].openedAt <= orders[o].paidAt
                                      /\ orders[o].paidAt <= shifts'[k].closedAt
                        IN /\ o \in sold'[k] => during /\ orders[o].status \in PaidStatuses
                           /\ during /\ orders[o].status \in SoldStatuses => o \in sold'[k]
    BY <1>0 DEF FiguresStand
  <2>1. k # n
    BY <1>3, <1>4
  <2>2. k \in DOMAIN shifts /\ shifts'[k] = shifts[k] /\ sold'[k] = sold[k]
    BY <1>4, <1>6, <1>7, <2>1
  <2> QED
    BY <2>2 DEF IInv, FiguresStand
<1>15. Drawer'
  <2> SUFFICES ASSUME NEW k \in DOMAIN shifts', NEW v \in Users, NEW t \in Times,
                      shifts'[k].status = "open", shifts'[k].user = v, shifts'[k].openedAt = t
               PROVE  handled'[k] = shifts'[k].opening + SumFunctionOnSet(Paid', TakenBy(v, t)')
                                     + SumFunctionOnSet(CashPart, SplitBy(v, t)')
                                     - SumFunctionOnSet(Amounts', BackBy(v, t)')
    BY <1>2 DEF Drawer, Takings
  <2>0. /\ TakenBy(v, t)' = TakenBy(v, t) /\ SplitBy(v, t)' = SplitBy(v, t)
        /\ Amounts' = Amounts /\ BackBy(v, t)' = BackBy(v, t)
        /\ SumFunctionOnSet(Paid', TakenBy(v, t)') = Takings(TakenBy(v, t))
    BY <1>0 DEF TakenBy, SplitBy, BackBy, Amounts, Paid, Takings
  <2>1. CASE k \in DOMAIN shifts
    <3>1. shifts'[k] = shifts[k] /\ handled'[k] = handled[k]
      BY <1>4, <1>5, <2>1
    <3> QED
      BY <2>0, <2>1, <3>1 DEF IInv, Drawer
  <2>2. CASE k = n
    <3>1. t = clock'
      BY <1>3, <1>4, <2>2
    <3>2. TakenBy(v, t) = {} /\ SplitBy(v, t) = {}
      <4> SUFFICES ASSUME NEW o \in OrderIds, orders[o].payer = v, orders[o].paidAt >= t
                   PROVE  FALSE
        BY DEF TakenBy, SplitBy
      <4>1. orders[o].status \in PaidStatuses
        <5>1. orders[o].payer # None
          BY ConstantsAssumption
        <5>2. orders[o].status \in Statuses
          BY DEF IInv, TypeOK, Order
        <5> QED
          BY <5>1, <5>2 DEF IInv, OrdersInOrder, PaidStatuses, Statuses
      <4>2. orders[o].paidAt <= clock /\ orders[o].paidAt \in Nat
        BY <4>1 DEF IInv, OrdersInOrder, TypeOK, Order, Times
      <4> QED
        BY <1>0, <1>1, <3>1, <4>2
    <3>3. BackBy(v, t) = {}
      <4> SUFFICES ASSUME NEW i \in DOMAIN refunds, refunds[i].at >= t
                   PROVE  FALSE
        BY DEF BackBy
      <4>1. refunds[i].at <= clock /\ refunds[i].at \in Nat
        BY <1>1 DEF IInv, RefundsInOrder, Refund, Times
      <4> QED
        BY <1>0, <1>1, <3>1, <4>1
    <3>4. Takings({}) = 0 /\ SumFunctionOnSet(CashPart, {}) = 0 /\ SumFunctionOnSet(Amounts, {}) = 0
      BY SumEmpty DEF Takings
    <3>5. handled'[k] = opening /\ shifts'[k].opening = opening
      BY <1>3, <1>4, <1>5, <2>2
    <3> QED
      BY <1>1, <2>0, <3>2, <3>3, <3>4, <3>5
  <2> QED
    BY <1>7, <2>1, <2>2
<1> QED
  BY <1>8, <1>9, <1>10, <1>12, <1>13, <1>14, <1>15 DEF IInv

\* An order has been paid, or it has no payer and no method.
LEMMA PaidOrNot ==
    ASSUME TypeOK, OrdersInOrder
    PROVE  \A o \in OrderIds :
             /\ orders[o] \in Order
             /\ orders[o].status \in {"none", "open"} \cup PaidStatuses
             /\ orders[o].created \in Nat /\ orders[o].paidAt \in Nat
             /\ orders[o].payer # None \/ orders[o].method # None => orders[o].status \in PaidStatuses
             /\ orders[o].status \in SoldStatuses => orders[o].status \in PaidStatuses
             /\ orders[o].status \in PaidStatuses => orders[o].paidAt <= clock
<1> TAKE o \in OrderIds
<1>1. orders[o] \in Order
  BY DEF TypeOK
<1>2. orders[o].status \in {"none", "open"} \cup PaidStatuses
  BY <1>1 DEF Order, Statuses, PaidStatuses
<1>3. orders[o].created \in Nat /\ orders[o].paidAt \in Nat
  BY <1>1 DEF Order, Times
<1>4. orders[o].payer # None \/ orders[o].method # None => orders[o].status \in PaidStatuses
  BY <1>2 DEF OrdersInOrder
<1>5. orders[o].status \in SoldStatuses => orders[o].status \in PaidStatuses
  BY <1>2 DEF SoldStatuses, PaidStatuses
<1> QED
  BY <1>1, <1>2, <1>3, <1>4, <1>5 DEF OrdersInOrder

\* A shift is closed, for the first time or again.
LEMMA CloseShiftStep ==
    ASSUME IInv, NEW i \in DOMAIN shifts, NEW miscount \in Miscounts, CloseShift(i, miscount)
    PROVE  IInv'
<1> DEFINE expected == Metrics(shifts[i]).expected
<1> DEFINE counted == handled[i] + miscount
<1> DEFINE row == [user |-> shifts[i].user, opening |-> shifts[i].opening, status |-> "closed",
                   openedAt |-> shifts[i].openedAt, closedAt |-> Now, expected |-> expected,
                   difference |-> counted - expected, closings |-> shifts[i].closings + 1]
<1>0. /\ clock < MaxClock /\ clock' = clock + 1
      /\ shifts' = [shifts EXCEPT ![i] = row] /\ sold' = [sold EXCEPT ![i] = Counted(shifts[i])]
      /\ UNCHANGED <<orders, refunds, handled>>
  BY DEF CloseShift, Tick
<1>1. /\ clock \in Nat /\ MaxClock \in Nat /\ Len(shifts) \in Nat /\ DOMAIN shifts = 1..Len(shifts)
      /\ \A k \in DOMAIN shifts : shifts[k] \in Shift /\ sold[k] \in SUBSET OrderIds /\ handled[k] \in Int
      /\ DOMAIN sold = 1..Len(shifts)
      /\ DOMAIN refunds = 1..Len(refunds) /\ \A n \in DOMAIN refunds : refunds[n] \in Refund
      /\ clock' \in Nat /\ Now = clock'
  BY <1>0, Tables DEF IInv, Now
<1>2. expected \in Int /\ counted \in Int
  <2>1. expected \in Int
    BY ExpectedIsInt DEF IInv
  <2>2. miscount \in Int
    BY ConstantsAssumption
  <2> QED
    BY <1>1, <2>1, <2>2
<1> HIDE DEF expected, counted
<1>3. row \in Shift /\ clock' \in Times
  <2>1. clock' \in Times
    BY <1>0, <1>1 DEF Times
  <2>2. /\ shifts[i].user \in Users /\ shifts[i].opening \in Int /\ shifts[i].openedAt \in Times
        /\ shifts[i].closings \in Nat
    BY <1>1 DEF Shift
  <2>3. counted - expected \in Int /\ shifts[i].closings + 1 \in Nat
    BY <1>2, <2>2
  <2> QED
    BY <1>1, <1>2, <2>1, <2>2, <2>3 DEF Shift
<1>4. /\ row.user = shifts[i].user /\ row.opening = shifts[i].opening /\ row.status = "closed"
      /\ row.openedAt = shifts[i].openedAt /\ row.closedAt = clock'
      /\ row.closings = shifts[i].closings + 1
  BY <1>1
<1> HIDE DEF row
<1>5. /\ shifts' \in Seq(Shift) /\ Len(shifts') = Len(shifts) /\ DOMAIN shifts' = DOMAIN shifts
      /\ \A k \in DOMAIN shifts : k # i => shifts'[k] = shifts[k]
      /\ shifts'[i] = row
  <2>1. /\ shifts' \in Seq(Shift) /\ Len(shifts') = Len(shifts)
        /\ \A k \in 1..Len(shifts) : shifts'[k] = IF k = i THEN row ELSE shifts[k]
    BY <1>0, <1>1, <1>3, ExceptSeq DEF IInv, TypeOK
  <2> QED
    BY <1>0, <1>1, <2>1
<1>6. /\ sold' \in Seq(SUBSET OrderIds) /\ Len(sold') = Len(shifts)
      /\ \A k \in DOMAIN shifts : k # i => sold'[k] = sold[k]
      /\ sold'[i] = Counted(shifts[i])
  <2>1. Counted(shifts[i]) \in SUBSET OrderIds
    BY DEF Counted
  <2>2. sold \in Seq(SUBSET OrderIds) /\ Len(sold) = Len(shifts) /\ i \in 1..Len(sold)
    BY <1>1 DEF IInv, TypeOK
  <2> DEFINE x == Counted(shifts[i])
  <2> HIDE DEF x
  <2>3. sold' = [sold EXCEPT ![i] = x] /\ x \in SUBSET OrderIds
    BY <1>0, <2>1 DEF x
  <2>4. /\ sold' \in Seq(SUBSET OrderIds) /\ Len(sold') = Len(sold)
        /\ \A k \in 1..Len(sold) : sold'[k] = IF k = i THEN x ELSE sold[k]
    BY <2>2, <2>3, ExceptSeq
  <2> QED
    BY <1>1, <2>2, <2>4 DEF x
<1>7. \A k \in DOMAIN shifts : /\ shifts[k].openedAt \in Nat /\ shifts[k].closedAt \in Nat
                               /\ shifts[k].status \in {"open", "closed"} /\ shifts[k].closings \in Nat
                               /\ (shifts[k].status = "open") = (shifts[k].closings = 0)
  <2> TAKE k \in DOMAIN shifts
  <2>1. (shifts[k].status = "open") = (shifts[k].closings = 0)
    BY DEF IInv, TypeOK
  <2>2. shifts[k] \in Shift
    BY <1>1
  <2> QED
    BY <2>1, <2>2 DEF Shift, Times
<1>8. TypeOK'
  <2>1. \A k \in DOMAIN shifts' : (shifts'[k].status = "open") = (shifts'[k].closings = 0)
    BY <1>4, <1>5, <1>7
  <2> QED
    BY <1>0, <1>3, <1>5, <1>6, <2>1 DEF IInv, TypeOK
<1>9. OrdersInOrder'
  BY <1>0, <1>1, PaidOrNot DEF IInv, OrdersInOrder
<1>10. RefundsInOrder'
  <2>1. \A n \in DOMAIN refunds : refunds[n].at \in Nat
    BY <1>1 DEF Refund, Times
  <2> QED
    BY <1>0, <1>1, <2>1 DEF IInv, RefundsInOrder
<1>11. ShiftsInOrder'
  <2> SUFFICES ASSUME NEW k \in DOMAIN shifts
               PROVE  /\ shifts'[k].openedAt <= clock'
                      /\ shifts'[k].status = "open" => shifts'[k].closedAt = 0 /\ sold'[k] = {}
                      /\ shifts'[k].status = "closed" =>
                           shifts'[k].openedAt < shifts'[k].closedAt /\ shifts'[k].closedAt <= clock'
    BY <1>5 DEF ShiftsInOrder
  <2>1. shifts[k].openedAt <= clock
    BY DEF IInv, ShiftsInOrder
  <2>2. CASE k = i
    BY <1>0, <1>1, <1>4, <1>5, <1>7, <2>1, <2>2
  <2>3. CASE k # i
    BY <1>0, <1>1, <1>5, <1>6, <1>7, <2>3 DEF IInv, ShiftsInOrder
  <2> QED
    BY <2>2, <2>3
<1>12. OneAtATime'
  <2> SUFFICES ASSUME NEW j \in DOMAIN shifts, NEW k \in DOMAIN shifts,
                      j < k, shifts'[j].user = shifts'[k].user
               PROVE  /\ shifts'[j].status = "closed"
                      /\ shifts'[j].closings = 1 => shifts'[j].closedAt < shifts'[k].openedAt
    BY <1>5 DEF OneAtATime
  <2>1. shifts[j].user = shifts[k].user /\ shifts'[k].openedAt = shifts[k].openedAt
    BY <1>4, <1>5
  <2>2. /\ shifts[j].status = "closed"
        /\ shifts[j].closings = 1 => shifts[j].closedAt < shifts[k].openedAt
    BY <2>1 DEF IInv, OneAtATime
  <2>3. CASE j = i
    BY <1>4, <1>5, <1>7, <2>2, <2>3
  <2>4. CASE j # i
    BY <1>5, <2>1, <2>2, <2>4
  <2> QED
    BY <2>3, <2>4
<1>13. FiguresStand'
  <2> SUFFICES ASSUME NEW k \in DOMAIN shifts, shifts'[k].closings = 1
               PROVE  \A o \in OrderIds :
                        LET during == /\ orders[o].cashier = shifts'[k].user
                                      /\ shifts'[k].openedAt <= orders[o].paidAt
                                      /\ orders[o].paidAt <= shifts'[k].closedAt
                        IN /\ o \in sold'[k] => during /\ orders[o].status \in PaidStatuses
                           /\ during /\ orders[o].status \in SoldStatuses => o \in sold'[k]
    BY <1>0, <1>5 DEF FiguresStand
  <2>1. CASE k # i
    <3>1. shifts'[k] = shifts[k] /\ sold'[k] = sold[k]
      BY <1>5, <1>6, <2>1
    <3> QED
      BY <3>1 DEF IInv, FiguresStand
  <2>2. CASE k = i
    <3>1. shifts[i].closings = 0 /\ shifts[i].closedAt = 0
      BY <1>4, <1>5, <1>7, <2>2 DEF IInv, ShiftsInOrder
    <3>2. /\ sold'[k] = Counted(shifts[i]) /\ shifts'[k].user = shifts[i].user
          /\ shifts'[k].openedAt = shifts[i].openedAt /\ shifts'[k].closedAt = clock'
      BY <1>4, <1>5, <1>6, <2>2
    <3> TAKE o \in OrderIds
    <3>3. o \in Counted(shifts[i]) <=> /\ orders[o].cashier = shifts[i].user
                                       /\ orders[o].status \in SoldStatuses
                                       /\ orders[o].paidAt >= shifts[i].openedAt
      BY <3>1 DEF Counted
    <3>4. /\ orders[o].status \in SoldStatuses => orders[o].status \in PaidStatuses /\ orders[o].paidAt < clock'
          /\ orders[o].paidAt \in Nat
      BY <1>0, <1>1, PaidOrNot DEF IInv
    <3> QED
      BY <1>1, <1>7, <3>2, <3>3, <3>4
  <2> QED
    BY <2>1, <2>2
<1>14. Drawer'
  <2> SUFFICES ASSUME NEW k \in DOMAIN shifts', NEW v \in Users, NEW t \in Times,
                      shifts'[k].status = "open", shifts'[k].user = v, shifts'[k].openedAt = t
               PROVE  handled'[k] = shifts'[k].opening + SumFunctionOnSet(Paid', TakenBy(v, t)')
                                     + SumFunctionOnSet(CashPart, SplitBy(v, t)')
                                     - SumFunctionOnSet(Amounts', BackBy(v, t)')
    BY <1>3 DEF Drawer, Takings
  <2>1. /\ TakenBy(v, t)' = TakenBy(v, t) /\ SplitBy(v, t)' = SplitBy(v, t)
        /\ Amounts' = Amounts /\ BackBy(v, t)' = BackBy(v, t)
        /\ SumFunctionOnSet(Paid', TakenBy(v, t)') = Takings(TakenBy(v, t))
    BY <1>0 DEF TakenBy, SplitBy, BackBy, Amounts, Paid, Takings
  <2>2. k \in DOMAIN shifts /\ shifts'[k] = shifts[k] /\ handled'[k] = handled[k]
    BY <1>0, <1>4, <1>5
  <2> QED
    BY <2>1, <2>2 DEF IInv, Drawer
<1> QED
  BY <1>8, <1>9, <1>10, <1>11, <1>12, <1>13, <1>14 DEF IInv

-------------------------------------------------------------------------------
(* Orders, payments and refunds *)

\* An order is placed; no shift sees it before it is paid.
LEMMA CreateOrderStep ==
    ASSUME IInv, NEW x \in OrderIds, NEW u \in Users, CreateOrder(x, u)
    PROVE  IInv'
<1> DEFINE row == [status |-> "open", cashier |-> u, created |-> Now,
                   method |-> None, paid |-> 0, payer |-> None, paidAt |-> 0]
<1>0. /\ clock < MaxClock /\ clock' = clock + 1 /\ orders[x].status = "none"
      /\ orders' = [orders EXCEPT ![x] = row]
      /\ UNCHANGED <<shifts, refunds, handled, sold>>
  BY DEF CreateOrder, Tick
<1>1. /\ clock \in Nat /\ MaxClock \in Nat /\ clock' \in Nat /\ Now = clock'
      /\ \A k \in DOMAIN shifts : shifts[k] \in Shift
      /\ \A n \in DOMAIN refunds : refunds[n] \in Refund
  BY <1>0, Tables DEF IInv, Now
<1>2. row \in Order /\ clock' \in Times
  BY <1>0, <1>1 DEF Order, Times, Statuses
<1>3. /\ row.status = "open" /\ row.cashier = u /\ row.created = clock'
      /\ row.method = None /\ row.payer = None
  BY <1>1
<1> HIDE DEF row
<1>4. /\ orders' \in [OrderIds -> Order] /\ orders'[x] = row
      /\ \A o \in OrderIds : o # x => orders'[o] = orders[o]
  BY <1>0, <1>2 DEF IInv, TypeOK
<1>5. orders[x].method = None /\ orders[x].payer = None /\ orders[x].status \notin PaidStatuses
  BY <1>0 DEF IInv, OrdersInOrder, PaidStatuses
<1>6. \A n \in DOMAIN refunds : refunds[n].order \in OrderIds /\ refunds[n].order # x
  BY <1>0, <1>1 DEF IInv, RefundsInOrder, Refund
<1>7. TypeOK'
  BY <1>0, <1>2, <1>4 DEF IInv, TypeOK
<1>8. OrdersInOrder'
  <2> SUFFICES ASSUME NEW o \in OrderIds
               PROVE  /\ orders'[o].status \in {"none", "open"} => orders'[o].method = None /\ orders'[o].payer = None
                      /\ orders'[o].status # "none" => orders'[o].cashier \in Users /\ orders'[o].created <= clock'
                      /\ orders'[o].status \in PaidStatuses =>
                           /\ orders'[o].method \in Methods /\ orders'[o].payer \in Users
                           /\ orders'[o].created < orders'[o].paidAt /\ orders'[o].paidAt <= clock'
    BY DEF OrdersInOrder
  <2>1. CASE o = x
    BY <1>1, <1>3, <1>4, <2>1 DEF PaidStatuses
  <2>2. CASE o # x
    BY <1>0, <1>1, <1>4, <2>2, PaidOrNot DEF IInv, OrdersInOrder
  <2> QED
    BY <2>1, <2>2
<1>9. RefundsInOrder'
  <2>1. \A n \in DOMAIN refunds : refunds[n].at \in Nat
    BY <1>1 DEF Refund, Times
  <2> QED
    BY <1>0, <1>1, <1>4, <1>6, <2>1 DEF IInv, RefundsInOrder
<1>10. ShiftsInOrder'
  <2>1. \A k \in DOMAIN shifts : shifts[k].openedAt \in Nat /\ shifts[k].closedAt \in Nat
    BY <1>1 DEF Shift, Times
  <2> QED
    BY <1>0, <1>1, <2>1 DEF IInv, ShiftsInOrder
<1>11. OneAtATime'
  BY <1>0 DEF IInv, OneAtATime
<1>12. FiguresStand'
  <2> SUFFICES ASSUME NEW k \in DOMAIN shifts, shifts[k].closings = 1, NEW o \in OrderIds
               PROVE  LET during == /\ orders'[o].cashier = shifts[k].user
                                    /\ shifts[k].openedAt <= orders'[o].paidAt
                                    /\ orders'[o].paidAt <= shifts[k].closedAt
                      IN /\ o \in sold[k] => during /\ orders'[o].status \in PaidStatuses
                         /\ during /\ orders'[o].status \in SoldStatuses => o \in sold[k]
    BY <1>0 DEF FiguresStand
  <2>1. CASE o = x
    <3>1. o \notin sold[k]
      BY <1>5, <2>1 DEF IInv, FiguresStand
    <3> QED
      BY <1>3, <1>4, <2>1, <3>1 DEF SoldStatuses
  <2>2. CASE o # x
    BY <1>4, <2>2 DEF IInv, FiguresStand
  <2> QED
    BY <2>1, <2>2
<1>13. Drawer'
  <2> SUFFICES ASSUME NEW k \in DOMAIN shifts', NEW v \in Users, NEW t \in Times,
                      shifts'[k].status = "open", shifts'[k].user = v, shifts'[k].openedAt = t
               PROVE  handled'[k] = shifts'[k].opening + SumFunctionOnSet(Paid', TakenBy(v, t)')
                                     + SumFunctionOnSet(CashPart, SplitBy(v, t)')
                                     - SumFunctionOnSet(Amounts', BackBy(v, t)')
    BY <1>1 DEF Drawer, Takings
  <2>1. v # None
    BY ConstantsAssumption
  <2>2. /\ TakenBy(v, t)' = TakenBy(v, t) /\ SplitBy(v, t)' = SplitBy(v, t)
        /\ SumFunctionOnSet(Paid', TakenBy(v, t)') = Takings(TakenBy(v, t))
    <3>1. TakenBy(v, t)' = TakenBy(v, t) /\ SplitBy(v, t)' = SplitBy(v, t)
      BY <1>3, <1>4, <1>5, <2>1 DEF TakenBy, SplitBy
    <3>2. TakenBy(v, t) \in SUBSET OrderIds /\ \A o \in TakenBy(v, t) : o # x
      BY <1>5, <2>1 DEF TakenBy
    <3>3. \A o \in TakenBy(v, t) : orders'[o].paid = orders[o].paid
      BY <1>4, <3>2
    <3> QED
      BY <3>1, <3>2, <3>3, TakingsStay
  <2>3. Amounts' = Amounts
    BY <1>0 DEF Amounts
  <2>4. BackBy(v, t)' = BackBy(v, t)
    BY <1>0, <1>4, <1>6 DEF BackBy
  <2> QED
    BY <1>0, <2>2, <2>3, <2>4 DEF IInv, Drawer
<1> QED
  BY <1>7, <1>8, <1>9, <1>10, <1>11, <1>12, <1>13 DEF IInv

\* What the payments and the refunds move in the drawers.
LEMMA MoveCashAdds ==
    ASSUME TypeOK, NEW u \in Users, NEW amount \in Int, MoveCash(u, amount), shifts' = shifts
    PROVE  /\ handled' \in Seq(Int) /\ Len(handled') = Len(shifts)
           /\ \A k \in DOMAIN shifts :
                /\ shifts[k].status = "open" /\ shifts[k].user = u => handled'[k] = handled[k] + amount
                /\ shifts[k].user # u => handled'[k] = handled[k]
<1>1. /\ Len(shifts) \in Nat /\ DOMAIN shifts = 1..Len(shifts) /\ DOMAIN handled = 1..Len(shifts)
      /\ \A k \in DOMAIN shifts : handled[k] \in Int
  BY Tables
<1>2. handled' = [k \in 1..Len(shifts) |-> IF k \in OpenShifts(u) THEN handled[k] + amount ELSE handled[k]]
  BY <1>1 DEF MoveCash
<1>3. \A k \in 1..Len(shifts) : handled'[k] = IF k \in OpenShifts(u) THEN handled[k] + amount ELSE handled[k]
  BY <1>2
<1>4. \A k \in 1..Len(shifts) : handled'[k] \in Int
  BY <1>1, <1>3
<1>5. handled' \in [1..Len(shifts) -> Int]
  BY <1>2, <1>4
<1>6. handled' \in Seq(Int) /\ Len(handled') = Len(shifts)
  BY <1>1, <1>5, LenProperties DEF Seq
<1> QED
  BY <1>1, <1>3, <1>6 DEF OpenShifts

\* An order is paid, by its cashier or by another.
LEMMA PayOrderStep ==
    ASSUME IInv, NEW x \in OrderIds, NEW u \in Users, NEW m \in Methods, NEW amount \in Charges,
           PayOrder(x, u, m, amount)
    PROVE  IInv'
<1> DEFINE result == IF amount >= Total[x] THEN "completed" ELSE "paid"
<1> DEFINE row == [status |-> result, cashier |-> orders[x].cashier,
                   created |-> orders[x].created, method |-> m, paid |-> amount, payer |-> u,
                   paidAt |-> Now]
<1>0. /\ clock < MaxClock /\ clock' = clock + 1 /\ orders[x].status = "open"
      /\ orders' = [orders EXCEPT ![x] = row] /\ MoveCash(u, CashIn(x, m, amount))
      /\ UNCHANGED <<shifts, refunds, sold>>
  BY DEF PayOrder, Tick
<1>1. /\ clock \in Nat /\ MaxClock \in Nat /\ clock' \in Nat /\ Now = clock'
      /\ \A k \in DOMAIN shifts : shifts[k] \in Shift /\ handled[k] \in Int
      /\ \A n \in DOMAIN refunds : refunds[n] \in Refund
  BY <1>0, Tables DEF IInv, Now
<1>2. clock' \in Times /\ orders[x] \in Order
  BY <1>0, <1>1 DEF Times, IInv, TypeOK
<1>20. result \in {"paid", "completed"} /\ amount \in Nat
  BY ConstantsAssumption
<1> HIDE DEF result
<1>3. row \in Order
  BY <1>1, <1>2, <1>20 DEF Order, Statuses
<1>4. /\ row.status \in {"paid", "completed"} /\ row.paid = amount /\ row.cashier = orders[x].cashier /\ row.created = orders[x].created
      /\ row.method = m /\ row.payer = u /\ row.paidAt = clock'
  BY <1>1, <1>20
<1> HIDE DEF row
<1>5. /\ orders' \in [OrderIds -> Order] /\ orders'[x] = row
      /\ \A o \in OrderIds : o # x => orders'[o] = orders[o]
  BY <1>0, <1>3 DEF IInv, TypeOK
<1>6. orders[x].method = None /\ orders[x].payer = None /\ orders[x].status \notin PaidStatuses
  BY <1>0 DEF IInv, OrdersInOrder, PaidStatuses
<1>7. \A n \in DOMAIN refunds : refunds[n].order \in OrderIds /\ refunds[n].order # x
  BY <1>0, <1>1 DEF IInv, RefundsInOrder, Refund
<1>8. CashPart[x] \in Int /\ CashIn(x, m, amount) \in Int
  <2>1. CashPart[x] \in Int
    BY ConstantsAssumption
  <2> QED
    BY <1>20, <2>1 DEF CashIn
<1>9. /\ handled' \in Seq(Int) /\ Len(handled') = Len(shifts)
      /\ \A k \in DOMAIN shifts :
           /\ shifts[k].status = "open" /\ shifts[k].user = u => handled'[k] = handled[k] + CashIn(x, m, amount)
           /\ shifts[k].user # u => handled'[k] = handled[k]
  BY <1>0, <1>8, MoveCashAdds DEF IInv
<1>10. TypeOK'
  BY <1>0, <1>2, <1>5, <1>9 DEF IInv, TypeOK
<1>11. OrdersInOrder'
  <2> SUFFICES ASSUME NEW o \in OrderIds
               PROVE  /\ orders'[o].status \in {"none", "open"} => orders'[o].method = None /\ orders'[o].payer = None
                      /\ orders'[o].status # "none" => orders'[o].cashier \in Users /\ orders'[o].created <= clock'
                      /\ orders'[o].status \in PaidStatuses =>
                           /\ orders'[o].method \in Methods /\ orders'[o].payer \in Users
                           /\ orders'[o].created < orders'[o].paidAt /\ orders'[o].paidAt <= clock'
    BY DEF OrdersInOrder
  <2>1. CASE o = x
    <3>1. /\ orders[x].cashier \in Users /\ orders[x].created <= clock /\ orders[x].created \in Nat
      BY <1>0, PaidOrNot DEF IInv, OrdersInOrder
    <3> QED
      BY <1>0, <1>1, <1>4, <1>5, <2>1, <3>1
  <2>2. CASE o # x
    BY <1>0, <1>1, <1>5, <2>2, PaidOrNot DEF IInv, OrdersInOrder
  <2> QED
    BY <2>1, <2>2
<1>12. RefundsInOrder'
  <2>1. \A n \in DOMAIN refunds : refunds[n].at \in Nat
    BY <1>1 DEF Refund, Times
  <2> QED
    BY <1>0, <1>1, <1>5, <1>7, <2>1 DEF IInv, RefundsInOrder
<1>13. \A k \in DOMAIN shifts : /\ shifts[k].openedAt \in Nat /\ shifts[k].closedAt \in Nat
                                /\ shifts[k].openedAt <= clock /\ shifts[k].closedAt <= clock
  <2> TAKE k \in DOMAIN shifts
  <2>1. shifts[k].openedAt \in Nat /\ shifts[k].closedAt \in Nat /\ shifts[k].status \in {"open", "closed"}
    BY <1>1 DEF Shift, Times
  <2> QED
    BY <1>1, <2>1 DEF IInv, ShiftsInOrder
<1>14. ShiftsInOrder'
  BY <1>0, <1>1, <1>13 DEF IInv, ShiftsInOrder
<1>15. OneAtATime'
  BY <1>0 DEF IInv, OneAtATime
<1>16. FiguresStand'
  <2> SUFFICES ASSUME NEW k \in DOMAIN shifts, shifts[k].closings = 1, NEW o \in OrderIds
               PROVE  LET during == /\ orders'[o].cashier = shifts[k].user
                                    /\ shifts[k].openedAt <= orders'[o].paidAt
                                    /\ orders'[o].paidAt <= shifts[k].closedAt
                      IN /\ o \in sold[k] => during /\ orders'[o].status \in PaidStatuses
                         /\ during /\ orders'[o].status \in SoldStatuses => o \in sold[k]
    BY <1>0 DEF FiguresStand
  <2>1. CASE o = x
    <3>1. o \notin sold[k]
      BY <1>6, <2>1 DEF IInv, FiguresStand
    <3>2. ~ (orders'[o].paidAt <= shifts[k].closedAt)
      BY <1>0, <1>1, <1>4, <1>5, <1>13, <2>1
    <3> QED
      BY <3>1, <3>2
  <2>2. CASE o # x
    BY <1>5, <2>2 DEF IInv, FiguresStand
  <2> QED
    BY <2>1, <2>2
<1>17. Drawer'
  <2> SUFFICES ASSUME NEW k \in DOMAIN shifts, NEW v \in Users, NEW t \in Times,
                      shifts[k].status = "open", shifts[k].user = v, shifts[k].openedAt = t
               PROVE  handled'[k] = shifts[k].opening + SumFunctionOnSet(Paid', TakenBy(v, t)')
                                     + SumFunctionOnSet(CashPart, SplitBy(v, t)')
                                     - SumFunctionOnSet(Amounts', BackBy(v, t)')
    BY <1>0 DEF Drawer, Takings
  <2> DEFINE T == TakenBy(v, t)
  <2> DEFINE S == SplitBy(v, t)
  <2> DEFINE B == SumFunctionOnSet(Amounts, BackBy(v, t))
  <2>1. x \notin T /\ x \notin S /\ T \in SUBSET OrderIds /\ S \in SUBSET OrderIds
    BY <1>6, ConstantsAssumption DEF TakenBy, SplitBy
  <2>2. Amounts' = Amounts
    BY <1>0 DEF Amounts
  <2>3. BackBy(v, t)' = BackBy(v, t)
    BY <1>0, <1>5, <1>7 DEF BackBy
  <2>4. SumFunctionOnSet(Amounts', BackBy(v, t)') = B
    BY <2>2, <2>3
  <2>5. t \in Nat /\ t <= clock' /\ orders'[x].paidAt >= t
    BY <1>0, <1>1, <1>4, <1>5, <1>13
  <2>6. TakenBy(v, t)' = IF v = u /\ m = "cash" THEN T \cup {x} ELSE T
    BY <1>4, <1>5, <2>1, <2>5 DEF TakenBy
  <2>7. SplitBy(v, t)' = IF v = u /\ m = "split" THEN S \cup {x} ELSE S
    BY <1>4, <1>5, <2>1, <2>5 DEF SplitBy
  <2>8. handled[k] = shifts[k].opening + Takings(T) + SumFunctionOnSet(CashPart, S) - B
    BY DEF IInv, Drawer
  <2>9. B \in Int /\ shifts[k].opening \in Int /\ handled[k] \in Int
    <3>1. BackBy(v, t) \in SUBSET DOMAIN refunds
      BY DEF BackBy
    <3>2. B \in Int
      BY <3>1, RefundSums DEF IInv
    <3> QED
      BY <1>1, <3>2 DEF Shift
  <2>10. /\ Takings(T) \in Int /\ SumFunctionOnSet(CashPart, S) \in Int
         /\ SumFunctionOnSet(Paid', T) = Takings(T)
    <3>1. Takings(T) \in Int /\ SumFunctionOnSet(CashPart, S) \in Int
      BY <2>1, OrderSums, PaidSums DEF IInv
    <3>2. \A o \in T : orders'[o].paid = orders[o].paid
      BY <1>5, <2>1
    <3> QED
      BY <2>1, <3>1, <3>2, TakingsStay
  <2>14. Paid'[x] = amount /\ \A o \in OrderIds : Paid'[o] \in Int
    <3>1. \A o \in OrderIds : Paid'[o] = orders'[o].paid /\ orders'[o].paid \in Nat
      BY <1>5 DEF Order, Paid
    <3> QED
      BY <1>4, <1>5, <3>1
  <2> HIDE DEF T, S, B
  <2>11. /\ SumFunctionOnSet(Paid', T \cup {x}) = Takings(T) + amount
         /\ SumFunctionOnSet(CashPart, S \cup {x}) = SumFunctionOnSet(CashPart, S) + CashPart[x]
    <3>1. T \cup {x} \in SUBSET OrderIds /\ S \cup {x} \in SUBSET OrderIds
      BY <2>1
    <3>2. /\ IsFiniteSet(T) /\ IsFiniteSet(S)
          /\ \A o \in T \cup {x} : Paid'[o] \in Int
          /\ \A o \in S \cup {x} : CashPart[o] \in Int
      BY <2>1, <2>14, <3>1, OrderSums
    <3>3. SumFunctionOnSet(Paid', T \cup {x}) = SumFunctionOnSet(Paid', T) + Paid'[x]
      BY <2>1, <3>2, SumPlus
    <3>4. SumFunctionOnSet(CashPart, S \cup {x}) = SumFunctionOnSet(CashPart, S) + CashPart[x]
      BY <2>1, <3>2, SumPlus
    <3> QED
      BY <2>10, <2>14, <3>3, <3>4
  <2>12. CASE v # u
    <3>1. handled'[k] = handled[k] /\ TakenBy(v, t)' = T /\ SplitBy(v, t)' = S
      BY <1>9, <2>6, <2>7, <2>12
    <3> QED
      BY <2>4, <2>8, <2>10, <3>1
  <2>13. CASE v = u
    <3>1. handled'[k] = handled[k] + CashIn(x, m, amount)
      BY <1>9, <2>13
    <3>2. CASE m = "cash"
      <4>1. TakenBy(v, t)' = T \cup {x} /\ SplitBy(v, t)' = S /\ CashIn(x, m, amount) = amount
        BY <2>6, <2>7, <2>13, <3>2 DEF CashIn
      <4> QED
        BY <1>8, <1>20, <2>4, <2>8, <2>9, <2>10, <2>11, <3>1, <4>1
    <3>3. CASE m = "split"
      <4>1. TakenBy(v, t)' = T /\ SplitBy(v, t)' = S \cup {x} /\ CashIn(x, m, amount) = CashPart[x]
        BY <2>6, <2>7, <2>13, <3>3 DEF CashIn
      <4> QED
        BY <1>8, <1>20, <2>4, <2>8, <2>9, <2>10, <2>11, <3>1, <4>1
    <3>4. CASE m \notin {"cash", "split"}
      <4>1. TakenBy(v, t)' = T /\ SplitBy(v, t)' = S /\ CashIn(x, m, amount) = 0
        BY <2>6, <2>7, <3>4 DEF CashIn
      <4> QED
        BY <2>4, <2>8, <2>9, <2>10, <3>1, <4>1
    <3> QED
      BY <3>2, <3>3, <3>4
  <2> QED
    BY <2>12, <2>13
<1> QED
  BY <1>10, <1>11, <1>12, <1>14, <1>15, <1>16, <1>17 DEF IInv

\* A part of an order, or the rest of it, is given back.
LEMMA RefundOrderStep ==
    ASSUME IInv, NEW x \in OrderIds, NEW u \in Refunders, NEW amount \in 1..orders[x].paid,
           RefundOrder(x, u, amount)
    PROVE  IInv'
<1> DEFINE row == [order |-> x, user |-> u, amount |-> amount, at |-> Now]
<1> DEFINE n == Len(refunds) + 1
<1> DEFINE cash == IF orders[x].method = "cash" THEN -amount ELSE 0
<1>0. /\ clock < MaxClock /\ clock' = clock + 1 /\ orders[x].status \in SoldStatuses
      /\ refunds' = Append(refunds, row) /\ MoveCash(u, cash)
      /\ UNCHANGED <<shifts, sold>>
  BY DEF RefundOrder, Tick
<1>1. /\ clock \in Nat /\ MaxClock \in Nat /\ clock' \in Nat /\ Now = clock'
      /\ \A k \in DOMAIN shifts : shifts[k] \in Shift /\ handled[k] \in Int
      /\ Len(refunds) \in Nat /\ DOMAIN refunds = 1..Len(refunds)
      /\ \A i \in DOMAIN refunds : refunds[i] \in Refund
  BY <1>0, Tables DEF IInv, Now
<1>2. clock' \in Times /\ u \in Users /\ amount \in Nat \ {0}
  <2>1. orders[x].paid \in Nat
    BY DEF IInv, TypeOK, Order
  <2> QED
    BY <1>0, <1>1, <2>1, ConstantsAssumption DEF Times
<1>3. row \in Refund
  BY <1>1, <1>2 DEF Refund
<1>4. row.order = x /\ row.user = u /\ row.amount = amount /\ row.at = clock'
  BY <1>1
<1> HIDE DEF row
<1>5. /\ refunds' \in Seq(Refund) /\ DOMAIN refunds' = 1..n
      /\ \A i \in DOMAIN refunds : refunds'[i] = refunds[i]
      /\ refunds'[n] = row
  BY <1>0, <1>1, <1>3, AppendProperties, LenProperties DEF IInv, TypeOK
<1>6. \A i \in DOMAIN refunds' : i \in DOMAIN refunds \/ i = n
  BY <1>1, <1>5
<1>7. PICK status \in {"partially_refunded", "refunded"} : orders' = [orders EXCEPT ![x].status = status]
  <2> DEFINE s == IF Refunded(x) + amount >= Captured(x) THEN "refunded" ELSE "partially_refunded"
  <2>1. s \in {"partially_refunded", "refunded"}
    OBVIOUS
  <2>2. orders' = [orders EXCEPT ![x].status = s]
    BY DEF RefundOrder
  <2> HIDE DEF s
  <2> QED
    BY <2>1, <2>2
<1>8. orders[x] \in Order /\ orders[x].status \in PaidStatuses
  BY <1>0, PaidOrNot DEF IInv
<1>9. /\ orders'[x].status = status /\ orders'[x].cashier = orders[x].cashier
      /\ orders'[x].created = orders[x].created /\ orders'[x].method = orders[x].method
      /\ orders'[x].payer = orders[x].payer /\ orders'[x].paidAt = orders[x].paidAt
      /\ orders'[x].paid = orders[x].paid
      /\ \A o \in OrderIds : o # x => orders'[o] = orders[o]
  BY <1>7, <1>8 DEF IInv, TypeOK, Order
<1>10. /\ \A o \in OrderIds :
            /\ orders'[o].cashier = orders[o].cashier /\ orders'[o].created = orders[o].created
            /\ orders'[o].method = orders[o].method /\ orders'[o].payer = orders[o].payer
            /\ orders'[o].paidAt = orders[o].paidAt /\ orders'[o].paid = orders[o].paid
       /\ status \in PaidStatuses
  BY <1>9 DEF PaidStatuses
<1>11. orders' \in [OrderIds -> Order]
  <2> DEFINE old == orders[x]
  <2> DEFINE new == [status |-> status, cashier |-> old.cashier, created |-> old.created,
                     method |-> old.method, paid |-> old.paid, payer |-> old.payer,
                     paidAt |-> old.paidAt]
  <2>1. new \in Order
    BY <1>8 DEF Order, Statuses
  <2>2. [orders[x] EXCEPT !.status = status] = new
    BY <1>8 DEF Order
  <2>3. orders' = [orders EXCEPT ![x] = new]
    BY <1>7, <2>2
  <2> QED
    BY <2>1, <2>3 DEF IInv, TypeOK
<1>12. cash \in Int
  BY <1>2
<1>13. /\ handled' \in Seq(Int) /\ Len(handled') = Len(shifts)
       /\ \A k \in DOMAIN shifts :
            /\ shifts[k].status = "open" /\ shifts[k].user = u => handled'[k] = handled[k] + cash
            /\ shifts[k].user # u => handled'[k] = handled[k]
  BY <1>0, <1>2, <1>12, MoveCashAdds DEF IInv
<1> HIDE DEF cash
<1>14. TypeOK'
  BY <1>0, <1>2, <1>5, <1>11, <1>13 DEF IInv, TypeOK
<1>15. OrdersInOrder'
  <2> SUFFICES ASSUME NEW o \in OrderIds
               PROVE  /\ orders'[o].status \in {"none", "open"} => orders'[o].method = None /\ orders'[o].payer = None
                      /\ orders'[o].status # "none" => orders'[o].cashier \in Users /\ orders'[o].created <= clock'
                      /\ orders'[o].status \in PaidStatuses =>
                           /\ orders'[o].method \in Methods /\ orders'[o].payer \in Users
                           /\ orders'[o].created < orders'[o].paidAt /\ orders'[o].paidAt <= clock'
    BY DEF OrdersInOrder
  <2>1. CASE o = x
    <3>1. status \notin {"none", "open"} /\ orders[x].status # "none"
      BY <1>8 DEF PaidStatuses
    <3>2. /\ orders[x].method \in Methods /\ orders[x].payer \in Users /\ orders[x].cashier \in Users
          /\ orders[x].created <= clock /\ orders[x].created < orders[x].paidAt /\ orders[x].paidAt <= clock
      BY <1>8, <3>1 DEF IInv, OrdersInOrder
    <3> QED
      BY <1>0, <1>1, <1>8, <1>9, <2>1, <3>1, <3>2, PaidOrNot, SMTT(30) DEF IInv
  <2>2. CASE o # x
    BY <1>0, <1>1, <1>9, <2>2, PaidOrNot, SMTT(30) DEF IInv, OrdersInOrder
  <2> QED
    BY <2>1, <2>2
<1>16. RefundsInOrder'
  <2> SUFFICES ASSUME NEW i \in DOMAIN refunds'
               PROVE  /\ orders'[refunds'[i].order].status \in {"partially_refunded", "refunded"}
                      /\ refunds'[i].at <= clock'
    BY DEF RefundsInOrder
  <2>1. CASE i \in DOMAIN refunds
    <3>1. /\ refunds[i].at \in Nat /\ refunds[i].order \in OrderIds
          /\ refunds[i].at <= clock /\ orders[refunds[i].order].status \in {"partially_refunded", "refunded"}
      BY <1>1, <2>1 DEF IInv, RefundsInOrder, Refund, Times
    <3> QED
      BY <1>0, <1>1, <1>5, <1>9, <2>1, <3>1
  <2>2. CASE i = n
    BY <1>1, <1>4, <1>5, <1>9, <2>2
  <2> QED
    BY <1>6, <2>1, <2>2
<1>17. \A k \in DOMAIN shifts : /\ shifts[k].openedAt \in Nat /\ shifts[k].closedAt \in Nat
                                /\ shifts[k].openedAt <= clock /\ shifts[k].closedAt <= clock
  <2> TAKE k \in DOMAIN shifts
  <2>1. shifts[k].openedAt \in Nat /\ shifts[k].closedAt \in Nat /\ shifts[k].status \in {"open", "closed"}
    BY <1>1 DEF Shift, Times
  <2> QED
    BY <1>1, <2>1 DEF IInv, ShiftsInOrder
<1>18. ShiftsInOrder'
  BY <1>0, <1>1, <1>17 DEF IInv, ShiftsInOrder
<1>19. OneAtATime'
  BY <1>0 DEF IInv, OneAtATime
<1>20. FiguresStand'
  <2> SUFFICES ASSUME NEW k \in DOMAIN shifts, shifts[k].closings = 1, NEW o \in OrderIds
               PROVE  LET during == /\ orders'[o].cashier = shifts[k].user
                                    /\ shifts[k].openedAt <= orders'[o].paidAt
                                    /\ orders'[o].paidAt <= shifts[k].closedAt
                      IN /\ o \in sold[k] => during /\ orders'[o].status \in PaidStatuses
                         /\ during /\ orders'[o].status \in SoldStatuses => o \in sold[k]
    BY <1>0 DEF FiguresStand
  <2>1. CASE o = x
    BY <1>0, <1>9, <1>10, <2>1 DEF IInv, FiguresStand
  <2>2. CASE o # x
    BY <1>9, <2>2 DEF IInv, FiguresStand
  <2> QED
    BY <2>1, <2>2
<1>21. Drawer'
  <2> SUFFICES ASSUME NEW k \in DOMAIN shifts, NEW v \in Users, NEW t \in Times,
                      shifts[k].status = "open", shifts[k].user = v, shifts[k].openedAt = t
               PROVE  handled'[k] = shifts[k].opening + SumFunctionOnSet(Paid', TakenBy(v, t)')
                                     + SumFunctionOnSet(CashPart, SplitBy(v, t)')
                                     - SumFunctionOnSet(Amounts', BackBy(v, t)')
    BY <1>0 DEF Drawer, Takings
  <2> DEFINE B == BackBy(v, t)
  <2> DEFINE taken == Takings(TakenBy(v, t)) + SumFunctionOnSet(CashPart, SplitBy(v, t))
  <2> DEFINE given == SumFunctionOnSet(Amounts, B)
  <2>1. TakenBy(v, t)' = TakenBy(v, t) /\ SplitBy(v, t)' = SplitBy(v, t)
    BY <1>10 DEF TakenBy, SplitBy
  <2>2. taken \in Int /\ given \in Int /\ shifts[k].opening \in Int /\ handled[k] \in Int
    <3>1. TakenBy(v, t) \in SUBSET OrderIds /\ SplitBy(v, t) \in SUBSET OrderIds
      BY DEF TakenBy, SplitBy
    <3>2. Takings(TakenBy(v, t)) \in Int /\ SumFunctionOnSet(CashPart, SplitBy(v, t)) \in Int
      BY <3>1, OrderSums, PaidSums DEF IInv
    <3>3. B \in SUBSET DOMAIN refunds
      BY DEF BackBy
    <3>4. given \in Int
      BY <3>3, RefundSums DEF IInv
    <3> QED
      BY <1>1, <3>2, <3>4 DEF Shift
  <2>3. handled[k] = shifts[k].opening + taken - given
    <3>1. handled[k] = shifts[k].opening + Takings(TakenBy(v, t))
                         + SumFunctionOnSet(CashPart, SplitBy(v, t)) - given
      BY DEF IInv, Drawer
    <3>2. Takings(TakenBy(v, t)) \in Int /\ SumFunctionOnSet(CashPart, SplitBy(v, t)) \in Int
      <4>1. TakenBy(v, t) \in SUBSET OrderIds /\ SplitBy(v, t) \in SUBSET OrderIds
        BY DEF TakenBy, SplitBy
      <4> QED
        BY <4>1, OrderSums, PaidSums DEF IInv
    <3> HIDE DEF given
    <3> QED
      BY <2>2, <3>1, <3>2
  <2> DEFINE whole == Takings(TakenBy(v, t))
  <2> DEFINE part == SumFunctionOnSet(CashPart, SplitBy(v, t))
  <2>4. /\ SumFunctionOnSet(Paid', TakenBy(v, t)') = whole /\ SumFunctionOnSet(CashPart, SplitBy(v, t)') = part
        /\ whole \in Int /\ part \in Int /\ taken = whole + part
    <3>1. TakenBy(v, t) \in SUBSET OrderIds /\ SplitBy(v, t) \in SUBSET OrderIds
      BY DEF TakenBy, SplitBy
    <3> QED
      BY <1>10, <2>1, <3>1, OrderSums, PaidSums, TakingsStay DEF IInv
  <2> HIDE DEF whole, part
  <2>5. /\ B \in SUBSET DOMAIN refunds /\ n \notin B /\ IsFiniteSet(B)
        /\ \A i \in B \cup {n} : Amounts'[i] \in Int
        /\ \A i \in B : Amounts'[i] = Amounts[i] /\ Amounts[i] \in Int
        /\ Amounts'[n] = amount
    <3>1. B \in SUBSET DOMAIN refunds
      BY DEF BackBy
    <3>2. \A i \in DOMAIN refunds' : Amounts'[i] = refunds'[i].amount
      BY DEF Amounts
    <3>3. \A i \in DOMAIN refunds : Amounts[i] = refunds[i].amount /\ Amounts[i] \in Int
      BY <1>1 DEF Amounts, Refund
    <3>4. IsFiniteSet(B)
      BY <3>1, RefundSums DEF IInv
    <3> HIDE DEF B
    <3>5. n \in DOMAIN refunds' /\ \A i \in DOMAIN refunds : i \in DOMAIN refunds'
      BY <1>1, <1>5
    <3> QED
      BY <1>1, <1>2, <1>4, <1>5, <3>1, <3>2, <3>3, <3>4, <3>5
  <2>6. SumFunctionOnSet(Amounts', B) = given
    <3> HIDE DEF B
    <3> QED
      BY <2>5, SumSame DEF given
  <2>7. BackBy(v, t)' = IF v = u /\ orders[x].method = "cash" THEN B \cup {n} ELSE B
    <3>1. t \in Nat /\ clock' >= t
      BY <1>0, <1>1, <1>17
    <3>2. \A i \in DOMAIN refunds : refunds[i].order \in OrderIds
      BY <1>1 DEF Refund
    <3>3. \A i \in DOMAIN refunds : i # n
      BY <1>1
    <3>4. \A i : i \in BackBy(v, t)' <=>
            \/ i \in B
            \/ i = n /\ v = u /\ orders[x].method = "cash"
      <4> TAKE i
      <4>1. CASE i \in DOMAIN refunds
        BY <1>5, <1>10, <3>2, <3>3, <4>1, <1>1 DEF BackBy
      <4>2. CASE i = n
        BY <1>1, <1>4, <1>5, <1>10, <3>1, <3>3, <4>2 DEF BackBy
      <4>3. CASE i \notin DOMAIN refunds /\ i # n
        BY <1>6, <4>3 DEF BackBy
      <4> QED
        BY <4>1, <4>2, <4>3
    <3> QED
      BY <3>4
  <2> HIDE DEF B, taken
  <2>8. SumFunctionOnSet(Amounts', B \cup {n}) = SumFunctionOnSet(Amounts', B) + Amounts'[n]
    BY <2>5, SumPlus
  <2> HIDE DEF given
  <2>9. CASE v = u /\ orders[x].method = "cash"
    <3>1. SumFunctionOnSet(Amounts', BackBy(v, t)') = given + amount
      BY <2>5, <2>6, <2>7, <2>8, <2>9
    <3>2. handled'[k] = handled[k] - amount
      BY <1>1, <1>2, <1>13, <2>9 DEF cash
    <3> QED
      BY <1>2, <2>2, <2>3, <2>4, <3>1, <3>2
  <2>10. CASE ~ (v = u /\ orders[x].method = "cash")
    <3>1. SumFunctionOnSet(Amounts', BackBy(v, t)') = given
      BY <2>6, <2>7, <2>10
    <3>2. handled'[k] = handled[k]
      BY <1>1, <1>13, <2>10 DEF cash
    <3> QED
      BY <2>2, <2>3, <2>4, <3>1, <3>2
  <2> QED
    BY <2>9, <2>10
<1> QED
  BY <1>14, <1>15, <1>16, <1>18, <1>19, <1>20, <1>21 DEF IInv

\* The invariant holds in every reachable state.
LEMMA Invariance == Spec => []IInv
<1>1. Init => IInv
  BY Starts
<1>2. IInv /\ [Next]_vars => IInv'
  <2> SUFFICES ASSUME IInv, [Next]_vars
               PROVE  IInv'
    OBVIOUS
  <2>1. CASE UNCHANGED vars
    <3>1. Drawer'
      <4>0. shifts' = shifts /\ handled' = handled
        BY <2>1 DEF vars
      <4> SUFFICES ASSUME NEW k \in DOMAIN shifts, NEW v \in Users, NEW t \in Times,
                          shifts[k].status = "open", shifts[k].user = v, shifts[k].openedAt = t
                   PROVE  handled[k] = shifts[k].opening + SumFunctionOnSet(Paid', TakenBy(v, t)')
                                         + SumFunctionOnSet(CashPart, SplitBy(v, t)')
                                         - SumFunctionOnSet(Amounts', BackBy(v, t)')
        BY <4>0 DEF Drawer, Takings
      <4>1. /\ TakenBy(v, t)' = TakenBy(v, t) /\ SplitBy(v, t)' = SplitBy(v, t)
            /\ Amounts' = Amounts /\ BackBy(v, t)' = BackBy(v, t)
            /\ SumFunctionOnSet(Paid', TakenBy(v, t)') = Takings(TakenBy(v, t))
        BY <2>1 DEF vars, TakenBy, SplitBy, BackBy, Amounts, Paid, Takings
      <4> QED
        BY <4>1 DEF IInv, Drawer
    <3> QED
      BY <2>1, <3>1 DEF vars, IInv, TypeOK, OrdersInOrder, RefundsInOrder, ShiftsInOrder,
                        OneAtATime, FiguresStand
  <2>2. CASE \E u \in Users, opening \in Floats : OpenShift(u, opening)
    BY <2>2, OpenShiftStep
  <2>3. CASE \E k \in DOMAIN shifts, miscount \in Miscounts : CloseShift(k, miscount)
    BY <2>3, CloseShiftStep
  <2>4. CASE \E o \in OrderIds, u \in Users : CreateOrder(o, u)
    BY <2>4, CreateOrderStep
  <2>5. CASE \E o \in OrderIds, u \in Users, m \in Methods, amount \in Charges :
               PayOrder(o, u, m, amount)
    BY <2>5, PayOrderStep
  <2>6. CASE \E o \in OrderIds, u \in Refunders :
               \E amount \in 1..orders[o].paid : RefundOrder(o, u, amount)
    BY <2>6, RefundOrderStep
  <2> QED
    BY <2>1, <2>2, <2>3, <2>4, <2>5, <2>6 DEF Next
<1> QED
  BY <1>1, <1>2, PTL DEF Spec

-------------------------------------------------------------------------------
(* Theorems *)

\* The tables are the schema's, and a shift is open exactly as long as it was
\* never closed, in every reachable state.
THEOREM TypeCorrect == Spec => []TypeOK
<1>1. IInv => TypeOK
  BY DEF IInv
<1> QED
  BY <1>1, Invariance, PTL

\* No sale is in the closing figures of two shifts that were closed once, for
\* shifts of any number and length.
THEOREM SoldOnce == Spec => []CountedOnce
<1>1. IInv => CountedOnce
  <2> SUFFICES ASSUME IInv, NEW j \in DOMAIN shifts, NEW k \in DOMAIN shifts, j # k,
                      NEW o \in sold[j] \cap sold[k],
                      ~ (shifts[j].closings > 1), ~ (shifts[k].closings > 1)
               PROVE  FALSE
    BY DEF CountedOnce
  <2>1. \A i \in {j, k} :
          /\ o \in OrderIds /\ shifts[i].closings = 1
          /\ orders[o].cashier = shifts[i].user
          /\ shifts[i].openedAt <= orders[o].paidAt /\ orders[o].paidAt <= shifts[i].closedAt
          /\ shifts[i].openedAt \in Nat /\ shifts[i].closedAt \in Nat /\ orders[o].paidAt \in Nat
    <3> TAKE i \in {j, k}
    <3>1. i \in DOMAIN shifts /\ o \in sold[i] /\ shifts[i] \in Shift /\ sold[i] \in SUBSET OrderIds
      BY Tables DEF IInv
    <3>2. o \in OrderIds /\ shifts[i].closings \in Nat /\ shifts[i].status \in {"open", "closed"}
      BY <3>1 DEF Shift
    <3>3. shifts[i].status # "open"
      BY <3>1 DEF IInv, ShiftsInOrder
    <3>4. shifts[i].closings # 0
      BY <3>1, <3>3 DEF IInv, TypeOK
    <3>5. shifts[i].closings = 1
      BY <3>2, <3>4
    <3>6. shifts[i].openedAt \in Nat /\ shifts[i].closedAt \in Nat /\ orders[o].paidAt \in Nat
      BY <3>1, <3>2, PaidOrNot DEF IInv, Shift, Times
    <3> QED
      BY <3>1, <3>2, <3>5, <3>6 DEF IInv, FiguresStand
  <2>2. j \in Nat /\ k \in Nat
    BY Tables DEF IInv
  <2>3. CASE j < k
    <3>1. shifts[j].closedAt < shifts[k].openedAt
      BY <2>1, <2>3 DEF IInv, OneAtATime
    <3> QED
      BY <2>1, <3>1
  <2>4. CASE k < j
    <3>1. shifts[k].closedAt < shifts[j].openedAt
      BY <2>1, <2>4 DEF IInv, OneAtATime
    <3> QED
      BY <2>1, <3>1
  <2> QED
    BY <2>2, <2>3, <2>4
<1> QED
  BY <1>1, Invariance, PTL

\* The cashier report and the shifts show the same sales of a cashier, however
\* payments, refunds and closings interleave.
THEOREM CashiersShow == Spec => []ReportMatchesShifts
<1>1. IInv => ReportMatchesShifts
  <2> SUFFICES ASSUME IInv, NEW o \in OrderIds, orders[o].status \in SoldStatuses,
                      ~ OffShift(orders[o].cashier, orders[o].paidAt)
               PROVE  \E k \in DOMAIN shifts : shifts[k].user = orders[o].cashier /\ o \in Figures(k)
    BY DEF ReportMatchesShifts, SoldSince, SoldOrders
  <2>1. PICK k \in DOMAIN shifts :
          /\ shifts[k].user = orders[o].cashier
          /\ ~ (orders[o].paidAt < shifts[k].openedAt)
          /\ shifts[k].status = "closed" =>
               ~ (orders[o].paidAt > shifts[k].closedAt) /\ ~ (shifts[k].closings > 1)
    BY DEF OffShift
  <2>2. /\ shifts[k].openedAt \in Nat /\ shifts[k].closedAt \in Nat /\ shifts[k].closings \in Nat
        /\ orders[o].paidAt \in Nat /\ shifts[k].status \in {"open", "closed"}
    BY Tables, PaidOrNot DEF IInv, Shift, Times
  <2>3. CASE shifts[k].status = "open"
    <3>1. shifts[k].closedAt = 0
      BY <2>3 DEF IInv, ShiftsInOrder
    <3>2. o \in Counted(shifts[k])
      BY <2>1, <2>2, <3>1 DEF Counted
    <3> QED
      BY <2>1, <2>3, <3>2 DEF Figures
  <2>4. CASE shifts[k].status = "closed"
    <3>1. shifts[k].closings # 0
      BY <2>4 DEF IInv, TypeOK
    <3>2. shifts[k].closings = 1
      BY <2>1, <2>2, <2>4, <3>1
    <3>3. shifts[k].openedAt <= orders[o].paidAt /\ orders[o].paidAt <= shifts[k].closedAt
      BY <2>1, <2>2, <2>4
    <3>4. o \in sold[k]
      BY <2>1, <3>2, <3>3 DEF IInv, FiguresStand
    <3> QED
      BY <2>1, <2>4, <3>4 DEF Figures
  <2> QED
    BY <2>2, <2>3, <2>4
<1> QED
  BY <1>1, Invariance, PTL

\* What a closing of an open shift expects differs from what is in the drawer
\* by the four things named, and nothing else: for any prices, floats and
\* payments, whoever took them.
THEOREM ExpectedExplained == Spec => ClosingExplained
<1> DEFINE Explained(k) ==
      (shifts[k].status = "open" /\ shifts'[k].status = "closed") =>
         LET u == shifts[k].user
             t == shifts[k].openedAt
             back == {o \in OrderIds : orders[o].status = "refunded"}
             own == TakenBy(u, t) \cap OrderedBy(u, t)
         IN shifts'[k].expected
              = handled[k]
                - Takings(own \cap back)
                - SumFunctionOnSet(CashPart, SplitBy(u, t))
                - Takings(TakenBy(u, t) \ own)
                + Takings(OrderedBy(u, t) \ (own \cup back))
<1>1. IInv /\ [Next]_vars => \A k \in DOMAIN shifts : Explained(k)
  <2> SUFFICES ASSUME IInv, [Next]_vars, NEW k \in DOMAIN shifts,
                      shifts[k].status = "open", shifts'[k].status = "closed"
               PROVE  Explained(k)
    BY Zenon
  <2>1. shifts[k] \in Shift /\ shifts[k].status # shifts'[k].status
    BY Tables DEF IInv
  <2>2. shifts' # shifts
    BY <2>1
  <2>3. ~ \E u \in Users, opening \in Floats : OpenShift(u, opening)
    <3> SUFFICES ASSUME NEW u \in Users, NEW opening \in Floats, OpenShift(u, opening)
                 PROVE  shifts'[k] = shifts[k]
      BY <2>1
    <3> DEFINE row == [user |-> u, opening |-> opening, status |-> "open",
                       openedAt |-> Now, closedAt |-> 0, expected |-> 0,
                       difference |-> 0, closings |-> 0]
    <3>1. shifts' = Append(shifts, row)
      BY DEF OpenShift
    <3> HIDE DEF row
    <3> QED
      BY <3>1, Tables DEF IInv, TypeOK
  <2>4. PICK i \in DOMAIN shifts, miscount \in Miscounts : CloseShift(i, miscount)
    BY <2>2, <2>3 DEF Next, vars, CreateOrder, PayOrder, RefundOrder
  <2> DEFINE expected == Metrics(shifts[i]).expected
  <2> DEFINE counted == handled[i] + miscount
  <2>5. i = k /\ shifts'[k].expected = expected
    <3> DEFINE row == [user |-> shifts[i].user, opening |-> shifts[i].opening, status |-> "closed",
                       openedAt |-> shifts[i].openedAt, closedAt |-> Now, expected |-> expected,
                       difference |-> counted - expected,
                       closings |-> shifts[i].closings + 1]
    <3>0. CloseShift(i, miscount)
      BY <2>4
    <3>1. shifts' = [shifts EXCEPT ![i] = row]
      BY <3>0 DEF CloseShift
    <3>2. row.expected = expected
      OBVIOUS
    <3> HIDE DEF row, expected, counted
    <3> QED
      BY <2>1, <3>1, <3>2
  <2> DEFINE u == shifts[k].user
  <2> DEFINE t == shifts[k].openedAt
  <2> DEFINE back == {o \in OrderIds : orders[o].status = "refunded"}
  <2> DEFINE T == TakenBy(u, t)
  <2> DEFINE O == OrderedBy(u, t)
  <2> DEFINE own == T \cap O
  <2> DEFINE split == SumFunctionOnSet(CashPart, SplitBy(u, t))
  <2> DEFINE given == SumFunctionOnSet(Amounts, BackBy(u, t))
  <2>6. u \in Users /\ t \in Times /\ shifts[k].opening \in Int /\ handled[k] \in Int
    BY <2>1, Tables DEF IInv, Shift
  <2>7. handled[k] = shifts[k].opening + Takings(T) + split - given
    BY <2>6 DEF IInv, Drawer
  <2>8. SoldBy(shifts[k], "cash") = O \ back
    <3>1. shifts[k].closedAt = 0
      BY DEF IInv, ShiftsInOrder
    <3>2. \A o \in OrderIds : orders[o].method = "cash" =>
            (orders[o].status \in SoldStatuses <=> orders[o].status # "refunded")
      <4> SUFFICES ASSUME NEW o \in OrderIds, orders[o].method = "cash"
                   PROVE  orders[o].status \in SoldStatuses <=> orders[o].status # "refunded"
        OBVIOUS
      <4>1. orders[o].method # None
        BY ConstantsAssumption DEF PaymentMethods
      <4> QED
        BY <4>1, PaidOrNot DEF IInv, SoldStatuses, PaidStatuses
    <3> QED
      BY <3>1, <3>2 DEF SoldBy, Counted, OrderedBy
  <2>9. CashRefunds(shifts[k]) = given
    BY DEF CashRefunds, BackBy
  <2>10. expected = shifts[k].opening + Takings(O \ back) - given
    BY <2>5, <2>8, <2>9 DEF Metrics
  <2>11. /\ T \in SUBSET OrderIds /\ O \in SUBSET OrderIds /\ own \in SUBSET OrderIds
         /\ split \in Int /\ given \in Int
    <3>1. T \in SUBSET OrderIds /\ O \in SUBSET OrderIds /\ SplitBy(u, t) \in SUBSET OrderIds
      BY DEF TakenBy, OrderedBy, SplitBy
    <3>2. BackBy(u, t) \in SUBSET DOMAIN refunds
      BY DEF BackBy
    <3>3. split \in Int
      BY <3>1, OrderSums
    <3>4. given \in Int
      BY <3>2, RefundSums DEF IInv
    <3> QED
      BY <3>1, <3>3, <3>4
  <2> HIDE DEF T, O, back, split, given, expected
  <2>12. /\ Takings(T) = Takings(own) + Takings(T \ own)
         /\ Takings(own) = Takings(own \cap back) + Takings(own \ back)
         /\ Takings(O \ back) = Takings(own \ back) + Takings(O \ (own \cup back))
    <3>1. Takings(T) = Takings(own) + Takings(T \ own)
      BY <2>11, TakingsSplit DEF IInv
    <3>2. own \cap back \in SUBSET own /\ own \ (own \cap back) = own \ back
      OBVIOUS
    <3>3. Takings(own) = Takings(own \cap back) + Takings(own \ (own \cap back))
      BY <2>11, <3>2, TakingsSplit DEF IInv
    <3>4. own \ back \in SUBSET (O \ back) /\ (O \ back) \ (own \ back) = O \ (own \cup back)
      OBVIOUS
    <3>5. Takings(O \ back) = Takings(own \ back) + Takings((O \ back) \ (own \ back))
      <4>1. O \ back \in SUBSET OrderIds
        BY <2>11
      <4> HIDE DEF own
      <4> QED
        BY <3>4, <4>1, TakingsSplit DEF IInv
    <3> HIDE DEF own
    <3> QED
      BY <3>1, <3>2, <3>3, <3>4, <3>5
  <2>13. /\ Takings(T) \in Int /\ Takings(own) \in Int /\ Takings(T \ own) \in Int
         /\ Takings(own \cap back) \in Int /\ Takings(own \ back) \in Int
         /\ Takings(O \ back) \in Int /\ Takings(O \ (own \cup back)) \in Int
    <3>1. /\ T \ own \in SUBSET OrderIds /\ own \cap back \in SUBSET OrderIds
          /\ own \ back \in SUBSET OrderIds /\ O \ back \in SUBSET OrderIds
          /\ O \ (own \cup back) \in SUBSET OrderIds
      BY <2>11
    <3> QED
      BY <2>11, <3>1, PaidSums DEF IInv
  <2> DEFINE a == Takings(own \cap back)
  <2> DEFINE b == Takings(own \ back)
  <2> DEFINE c == Takings(T \ own)
  <2> DEFINE d == Takings(O \ (own \cup back))
  <2>14. a \in Int /\ b \in Int /\ c \in Int /\ d \in Int
    BY <2>13
  <2>15. Takings(T) = (a + b) + c /\ Takings(O \ back) = b + d
    BY <2>12
  <2> HIDE DEF a, b, c, d, own
  <2>16. expected = handled[k] - a - split - c + d
    BY <2>6, <2>7, <2>10, <2>11, <2>14, <2>15
  <2> QED
    BY <2>5, <2>16 DEF a, c, d, own, T, O, back, split
<1>2. (\A k \in DOMAIN shifts : Explained(k)) <=>
      \A k \in DOMAIN shifts :
         (shifts[k].status = "open" /\ shifts'[k].status = "closed") =>
           LET u == shifts[k].user
               t == shifts[k].openedAt
               back == {o \in OrderIds : orders[o].status = "refunded"}
               own == TakenBy(u, t) \cap OrderedBy(u, t)
           IN shifts'[k].expected
                = handled[k]
                  - Takings(own \cap back)
                  - SumFunctionOnSet(CashPart, SplitBy(u, t))
                  - Takings(TakenBy(u, t) \ own)
                  + Takings(OrderedBy(u, t) \ (own \cup back))
  BY Zenon
<1> QED
  BY <1>1, <1>2, Invariance, PTL DEF Spec, ClosingExplained

-------------------------------------------------------------------------------
(* The books *)

\* A day of the report holds the times that it should.
LEMMA DayOf ==
    ASSUME NEW t \in Int
    PROVE  /\ Day(t) \in Int /\ DayLength \in Nat \ {0}
           /\ DayLength * Day(t) <= t /\ t < DayLength * Day(t) + DayLength
<1>1. DayLength \in Nat \ {0}
  BY DayAssumption
<1>2. /\ t \div DayLength \in Int
      /\ DayLength * (t \div DayLength) <= t /\ t < DayLength * (t \div DayLength) + DayLength
  BY <1>1
<1> QED
  BY <1>1, <1>2 DEF Day

\* A later time is of no earlier day, and a day earlier of the day before.
LEMMA DaysInOrder ==
    ASSUME NEW s \in Int, NEW t \in Int
    PROVE  /\ s <= t => Day(s) <= Day(t)
           /\ Day(t - DayLength) = Day(t) - 1
           /\ t - DayLength \in Int
<1>1. DayLength \in Nat \ {0} /\ Day(s) \in Int /\ Day(t) \in Int
  BY DayOf
<1>2. s <= t => Day(s) <= Day(t)
  <2> DEFINE p == Day(s)
  <2> DEFINE q == Day(t)
  <2> DEFINE L == DayLength
  <2>1. /\ p \in Int /\ q \in Int /\ L \in Nat \ {0}
        /\ L * p <= s /\ s < L * p + L /\ L * q <= t /\ t < L * q + L
    BY DayOf
  <2> HIDE DEF p, q, L
  <2>2. s <= t => p <= q
    BY <2>1
  <2> QED
    BY <2>2 DEF p, q
<1>3. (t - DayLength) \div DayLength = (t \div DayLength) - 1
  BY <1>1
<1> QED
  BY <1>1, <1>2, <1>3 DEF Day

\* Sales that all have a method are worth what those of each method are.
LEMMA TakingsByMethod ==
    ASSUME TypeOK, NEW os \in SUBSET OrderIds, \A o \in os : orders[o].method \in PaymentMethods
    PROVE  /\ \A m \in PaymentMethods : Takings(By(os, m)) \in Int
           /\ Takings(By(os, "card") \cup By(os, "bank_transfer"))
                = Takings(By(os, "card")) + Takings(By(os, "bank_transfer"))
           /\ Takings(By(os, "qr") \cup By(os, "online"))
                = Takings(By(os, "qr")) + Takings(By(os, "online"))
           /\ Takings(os) = Takings(By(os, "cash")) + Takings(By(os, "card"))
                            + Takings(By(os, "bank_transfer")) + Takings(By(os, "qr"))
                            + Takings(By(os, "online")) + Takings(By(os, "split"))
<1> DEFINE A == By(os, "cash")
<1> DEFINE B == By(os, "card")
<1> DEFINE C == By(os, "bank_transfer")
<1> DEFINE D == By(os, "qr")
<1> DEFINE E == By(os, "online")
<1> DEFINE F == By(os, "split")
<1>1. \A m \in PaymentMethods : By(os, m) \in SUBSET OrderIds /\ Takings(By(os, m)) \in Int
  <2> TAKE m \in PaymentMethods
  <2>1. By(os, m) \in SUBSET OrderIds
    BY DEF By
  <2> QED
    BY <2>1, PaidSums
<1>2. /\ A \in SUBSET OrderIds /\ B \in SUBSET OrderIds /\ C \in SUBSET OrderIds
      /\ D \in SUBSET OrderIds /\ E \in SUBSET OrderIds /\ F \in SUBSET OrderIds
      /\ Takings(A) \in Int /\ Takings(B) \in Int /\ Takings(C) \in Int
      /\ Takings(D) \in Int /\ Takings(E) \in Int /\ Takings(F) \in Int
  BY <1>1 DEF PaymentMethods
<1>3. /\ B \cap C = {} /\ D \cap E = {} /\ A \cap (B \cup C) = {}
      /\ (A \cup (B \cup C)) \cap (D \cup E) = {}
      /\ F \cap ((A \cup (B \cup C)) \cup (D \cup E)) = {}
  BY DEF By
<1>4. os = F \cup ((A \cup (B \cup C)) \cup (D \cup E))
  BY DEF By, PaymentMethods
<1> HIDE DEF A, B, C, D, E, F
<1>5. \A S, T \in SUBSET OrderIds :
        S \cap T = {} => Takings(S \cup T) = Takings(S) + Takings(T) /\ Takings(S \cup T) \in Int
  <2> TAKE S, T \in SUBSET OrderIds
  <2> HAVE S \cap T = {}
  <2>1. S \cup T \in SUBSET OrderIds /\ S \in SUBSET (S \cup T) /\ (S \cup T) \ S = T
    OBVIOUS
  <2>2. Takings(S \cup T) = Takings(S) + Takings((S \cup T) \ S)
    BY <2>1, TakingsSplit
  <2>3. Takings(S \cup T) \in Int
    BY <2>1, PaidSums
  <2> QED
    BY <2>1, <2>2, <2>3
<1>6. Takings(B \cup C) = Takings(B) + Takings(C) /\ Takings(D \cup E) = Takings(D) + Takings(E)
  BY <1>2, <1>3, <1>5
<1>7. Takings(A \cup (B \cup C)) = Takings(A) + Takings(B \cup C)
  BY <1>2, <1>3, <1>5
<1>8. Takings((A \cup (B \cup C)) \cup (D \cup E)) = Takings(A \cup (B \cup C)) + Takings(D \cup E)
  BY <1>2, <1>3, <1>5
<1>9. Takings(F \cup ((A \cup (B \cup C)) \cup (D \cup E)))
        = Takings(F) + Takings((A \cup (B \cup C)) \cup (D \cup E))
  BY <1>2, <1>3, <1>5
<1>10. Takings(os) = Takings(F) + ((Takings(A) + (Takings(B) + Takings(C))) + (Takings(D) + Takings(E)))
  BY <1>4, <1>6, <1>7, <1>8, <1>9
<1>11. Takings(os) = Takings(A) + Takings(B) + Takings(C) + Takings(D) + Takings(E) + Takings(F)
  <2> DEFINE a == Takings(A)
  <2> DEFINE b == Takings(B)
  <2> DEFINE c == Takings(C)
  <2> DEFINE d == Takings(D)
  <2> DEFINE e == Takings(E)
  <2> DEFINE f == Takings(F)
  <2>1. /\ a \in Int /\ b \in Int /\ c \in Int /\ d \in Int /\ e \in Int /\ f \in Int
        /\ Takings(os) = f + ((a + (b + c)) + (d + e))
    BY <1>2, <1>10
  <2> HIDE DEF a, b, c, d, e, f
  <2>2. Takings(os) = a + b + c + d + e + f
    BY <2>1
  <2> QED
    BY <2>2 DEF a, b, c, d, e, f
<1> QED
  BY <1>1, <1>6, <1>11 DEF A, B, C, D, E, F

\* The revenues of a report with a row for each value of key.
Rows(os, key, w) ==
    [x \in {key[o] : o \in os} |-> SumFunctionOnSet(w, {o \in os : key[o] = x})]

\* Such a report shows the revenue of the whole.
LEMMA RowsAddUp ==
    ASSUME NEW os \in SUBSET OrderIds, NEW key, NEW w, \A o \in os : w[o] \in Int
    PROVE  SumFunction(Rows(os, key, w)) = SumFunctionOnSet(w, os)
<1> DEFINE K == {key[o] : o \in os}
<1>1. SumFunction(Rows(os, key, w)) = SumFunctionOnSet(Rows(os, key, w), K)
  BY DEF SumFunction, Rows
<1>2. IsFiniteSet(os) /\ \A o \in os : w[o] \in Int
  BY OrderSums
<1>3. (\A o \in os : key[o] \in K) /\ (\A x \in K : \E o \in os : key[o] = x)
  OBVIOUS
<1> HIDE DEF K
<1>4. PICK G : G = [x \in K |-> {o \in os : key[o] = x}]
  OBVIOUS
<1>5. \A x \in K : \A o : o \in G[x] <=> o \in os /\ key[o] = x
  BY <1>4
<1>6. PICK g : g = Rows(os, key, w)
  OBVIOUS
<1>7. \A x \in K : g[x] = SumFunctionOnSet(w, G[x])
  BY <1>4, <1>6 DEF Rows, K
<1>8. SumFunctionOnSet(g, K) = SumFunctionOnSet(w, os)
  <2>1. Groups(os, w, key, K, G, g)
    BY <1>2, <1>3, <1>5, <1>7 DEF Groups
  <2> QED
    BY ONLY <2>1, SumOfGroups
<1> QED
  BY <1>1, <1>6, <1>8

\* What was sold has a method.
LEMMA SoldHaveMethods ==
    ASSUME IInv
    PROVE  \A o \in OrderIds : orders[o].status \in SoldStatuses => orders[o].method \in PaymentMethods
<1> TAKE o \in OrderIds
<1> HAVE orders[o].status \in SoldStatuses
<1>1. orders[o].method \in Methods
  BY PaidOrNot DEF IInv, OrdersInOrder
<1> QED
  BY <1>1, ConstantsAssumption

\* The buckets of a shift hold its total, unless one of them had to hold two.
LEMMA BucketsAddUp ==
    ASSUME IInv, NEW k \in DOMAIN shifts
    PROVE  ShiftAddsUp(shifts[k])
<1> DEFINE s == shifts[k]
<1> DEFINE os == Counted(s)
<1> SUFFICES ASSUME ~ (SoldBy(s, "card") # {} /\ SoldBy(s, "bank_transfer") # {}),
                    ~ (SoldBy(s, "qr") # {} /\ SoldBy(s, "online") # {})
             PROVE  Metrics(s).cash + Metrics(s).card + Metrics(s).qr + Metrics(s).other = Metrics(s).total
  BY DEF ShiftAddsUp
<1>1. os \in SUBSET OrderIds /\ \A o \in os : orders[o].method \in PaymentMethods
  BY SoldHaveMethods DEF Counted
<1>2. \A m : SoldBy(s, m) = By(os, m)
  BY DEF SoldBy, By
<1> DEFINE a == Takings(By(os, "cash"))
<1> DEFINE b == Takings(By(os, "card"))
<1> DEFINE c == Takings(By(os, "bank_transfer"))
<1> DEFINE d == Takings(By(os, "qr"))
<1> DEFINE e == Takings(By(os, "online"))
<1> DEFINE f == Takings(By(os, "split"))
<1>3. /\ a \in Int /\ b \in Int /\ c \in Int /\ d \in Int /\ e \in Int /\ f \in Int
  BY <1>1, TakingsByMethod DEF IInv, PaymentMethods
<1>4. Takings(os) = a + b + c + d + e + f
  BY <1>1, TakingsByMethod DEF IInv
<1>5. Takings({}) = 0
  BY SumEmpty DEF Takings
<1>6. LastGroup(s, "bank_transfer", "card") = b + c
  <2>1. CASE By(os, "card") # {}
    <3>1. c = 0
      BY <1>2, <1>5, <2>1
    <3>2. LastGroup(s, "bank_transfer", "card") = b
      BY <1>2, <2>1 DEF LastGroup
    <3> HIDE DEF b, c
    <3> QED
      BY <1>3, <3>1, <3>2
  <2>2. CASE By(os, "card") = {}
    <3>1. b = 0
      BY <1>5, <2>2
    <3>2. LastGroup(s, "bank_transfer", "card") = c
      BY <1>2, <2>2 DEF LastGroup
    <3> HIDE DEF b, c
    <3> QED
      BY <1>3, <3>1, <3>2
  <2> QED
    BY <2>1, <2>2
<1>7. LastGroup(s, "online", "qr") = d + e
  <2>1. CASE By(os, "qr") # {}
    <3>1. e = 0
      BY <1>2, <1>5, <2>1
    <3>2. LastGroup(s, "online", "qr") = d
      BY <1>2, <2>1 DEF LastGroup
    <3> HIDE DEF d, e
    <3> QED
      BY <1>3, <3>1, <3>2
  <2>2. CASE By(os, "qr") = {}
    <3>1. d = 0
      BY <1>5, <2>2
    <3>2. LastGroup(s, "online", "qr") = e
      BY <1>2, <2>2 DEF LastGroup
    <3> HIDE DEF d, e
    <3> QED
      BY <1>3, <3>1, <3>2
  <2> QED
    BY <2>1, <2>2
<1>8. /\ Metrics(s).cash = a /\ Metrics(s).card = b + c /\ Metrics(s).qr = d + e
      /\ Metrics(s).other = f /\ Metrics(s).total = Takings(os)
  <2> HIDE DEF os
  <2> QED
    BY <1>2, <1>6, <1>7 DEF Metrics, os
<1> HIDE DEF a, b, c, d, e, f
<1>9. a + (b + c) + (d + e) + f = a + b + c + d + e + f
  BY <1>3
<1> QED
  BY <1>4, <1>8, <1>9

\* The rows of each report add up to the sales it is made of, those by method
\* to what was paid for them.
LEMMA ReportsAddUp ==
    ASSUME TypeOK, NEW os \in SUBSET OrderIds
    PROVE  /\ RevenueOf(HourlySales(os)) = Value(os)
           /\ Takings(os) = Value(os) + Overcharged(os)
           /\ Value(os) \in Int /\ Overcharged(os) \in Int
           /\ ReportsAgree(os)
<1>1. IsFiniteSet(os) /\ \A o \in os : Total[o] \in Int /\ Paid[o] \in Int
  BY OrderSums, PaidSums
<1>2. RevenueOf(HourlySales(os)) = Value(os)
  <2> DEFINE key == [o \in OrderIds |-> orders[o].created % DayLength]
  <2>1. RevenueOf(HourlySales(os)) = SumFunction(Rows(os, key, Total))
    BY DEF RevenueOf, HourlySales, Rows, Sales, Value
  <2> HIDE DEF key
  <2>2. SumFunction(Rows(os, key, Total)) = SumFunctionOnSet(Total, os)
    BY <1>1, RowsAddUp
  <2> QED
    BY <2>1, <2>2 DEF Value
<1>3. RevenueOf(DailySales(os)) = Value(os)
  <2> DEFINE key == [o \in OrderIds |-> Day(orders[o].created)]
  <2>1. RevenueOf(DailySales(os)) = SumFunction(Rows(os, key, Total))
    BY DEF RevenueOf, DailySales, Rows, Sales, Value
  <2> HIDE DEF key
  <2>2. SumFunction(Rows(os, key, Total)) = SumFunctionOnSet(Total, os)
    BY <1>1, RowsAddUp
  <2> QED
    BY <2>1, <2>2 DEF Value
<1>4. RevenueOf(CashierReport(os)) = Value(os)
  <2> DEFINE key == [o \in OrderIds |-> orders[o].cashier]
  <2>1. RevenueOf(CashierReport(os)) = SumFunction(Rows(os, key, Total))
    BY DEF RevenueOf, CashierReport, Rows, Sales, Value
  <2> HIDE DEF key
  <2>2. SumFunction(Rows(os, key, Total)) = SumFunctionOnSet(Total, os)
    BY <1>1, RowsAddUp
  <2> QED
    BY <2>1, <2>2 DEF Value
<1>5. RevenueOf(PaymentBreakdown(os)) = Takings(os)
  <2> DEFINE key == [o \in OrderIds |-> orders[o].method]
  <2>1. RevenueOf(PaymentBreakdown(os)) = SumFunction(Rows(os, key, Paid))
    BY DEF RevenueOf, PaymentBreakdown, Rows, Payments, By, Takings
  <2> HIDE DEF key
  <2>2. SumFunction(Rows(os, key, Paid)) = SumFunctionOnSet(Paid, os)
    BY <1>1, RowsAddUp
  <2> QED
    BY <2>1, <2>2 DEF Takings
<1>6. Takings(os) = Value(os) + Overcharged(os) /\ Value(os) \in Int /\ Overcharged(os) \in Int
  <2> DEFINE d == [o \in OrderIds |-> orders[o].paid - Total[o]]
  <2>1. \A o \in os : d[o] = Paid[o] - Total[o] /\ d[o] \in Int
    BY <1>1, PaidSums
  <2>2. Overcharged(os) = SumFunctionOnSet(d, os)
    BY DEF Overcharged
  <2> HIDE DEF d
  <2>3. SumFunctionOnSet(Paid, os) = SumFunctionOnSet(Total, os) + SumFunctionOnSet(d, os)
    BY <1>1, <2>1, SumDifference
  <2>4. SumFunctionOnSet(d, os) \in Int
    BY <1>1, <2>1, SumIsInt
  <2> QED
    BY <2>2, <2>3, <2>4, OrderSums DEF Takings, Value
<1> QED
  BY <1>2, <1>3, <1>4, <1>5, <1>6 DEF ReportsAgree

\* The cloud lacks nothing but sales of the oldest day.
LEMMA OldestDayOnly ==
    ASSUME TypeOK, NEW now \in Int
    PROVE  CloudBehind(1, now)
<1>1. /\ Day(now) \in Int /\ Day(now - DayLength) = Day(now) - 1 /\ now - DayLength \in Int
      /\ DayLength \in Nat \ {0}
  BY DayOf, DaysInOrder
<1>2. \A o \in OrderIds : orders[o].created \in Int /\ Day(orders[o].created) \in Int
  <2> TAKE o \in OrderIds
  <2>1. orders[o].created \in Int
    BY DEF TypeOK, Order, Times
  <2> QED
    BY <2>1, DayOf
<1>3. 1 * DayLength = DayLength
  BY <1>1
<1>4. CloudSoldSince(1, now) \subseteq SoldSince(1, now)
  <2> SUFFICES ASSUME NEW o \in SoldOrders, orders[o].created >= now - DayLength
               PROVE  Day(orders[o].created) >= Day(now) - 1
    BY <1>3 DEF CloudSoldSince, SoldSince
  <2>1. o \in OrderIds
    BY DEF SoldOrders
  <2>2. now - DayLength <= orders[o].created
    BY <1>1, <1>2, <2>1
  <2>3. Day(now - DayLength) <= Day(orders[o].created)
    BY <1>1, <1>2, <2>1, <2>2, DaysInOrder
  <2> QED
    BY <1>1, <1>2, <2>1, <2>3
<1>5. \A o \in SoldSince(1, now) \ CloudSoldSince(1, now) : Day(orders[o].created) = Day(now) - 1
  <2> SUFFICES ASSUME NEW o \in SoldOrders, Day(orders[o].created) >= Day(now) - 1,
                      ~ (orders[o].created >= now - DayLength)
               PROVE  Day(orders[o].created) = Day(now) - 1
    BY <1>3 DEF CloudSoldSince, SoldSince
  <2>1. o \in OrderIds
    BY DEF SoldOrders
  <2>2. orders[o].created <= now - DayLength
    BY <1>1, <1>2, <2>1
  <2>3. Day(orders[o].created) <= Day(now - DayLength)
    BY <1>1, <1>2, <2>1, <2>2, DaysInOrder
  <2> QED
    BY <1>1, <1>2, <2>1, <2>3
<1> QED
  BY <1>4, <1>5 DEF CloudBehind

\* Whatever was sold, refunded and closed, and whatever was charged for it, the
\* reports add up; those by method are off by what was charged over the totals.
THEOREM BooksRight == Spec => []BooksAddUp
<1>1. IInv => BooksAddUp
  <2> SUFFICES ASSUME IInv
               PROVE  BooksAddUp
    OBVIOUS
  <2>1. \A k \in DOMAIN shifts : ShiftAddsUp(shifts[k])
    BY BucketsAddUp
  <2>2. SummaryAddsUp(clock)
    <3> DEFINE os == SoldToday(clock)
    <3>1. os \in SUBSET OrderIds /\ \A o \in os : orders[o].method \in PaymentMethods
      BY SoldHaveMethods DEF SoldToday, SoldOrders
    <3> HIDE DEF os
    <3> DEFINE a == Takings(By(os, "cash"))
    <3> DEFINE b == Takings(By(os, "card"))
    <3> DEFINE c == Takings(By(os, "bank_transfer"))
    <3> DEFINE d == Takings(By(os, "qr"))
    <3> DEFINE e == Takings(By(os, "online"))
    <3> DEFINE f == Takings(By(os, "split"))
    <3> DEFINE bc == Takings(By(os, "card") \cup By(os, "bank_transfer"))
    <3> DEFINE de == Takings(By(os, "qr") \cup By(os, "online"))
    <3>2. a \in Int /\ b \in Int /\ c \in Int /\ d \in Int /\ e \in Int /\ f \in Int
      BY <3>1, TakingsByMethod DEF IInv, PaymentMethods
    <3>3. Takings(os) = a + b + c + d + e + f /\ bc = b + c /\ de = d + e
      BY <3>1, TakingsByMethod DEF IInv
    <3>4. /\ TodaySummary(clock).cash = a /\ TodaySummary(clock).card = bc
          /\ TodaySummary(clock).online = de /\ TodaySummary(clock).sales.revenue = Value(os)
      BY DEF TodaySummary, Sales, os
    <3>5. /\ RevenueOf(HourlySales(os)) = Value(os)
          /\ Takings(os) = Value(os) + Overcharged(os)
      BY <3>1, ReportsAddUp DEF IInv
    <3> HIDE DEF a, b, c, d, e, f, bc, de
    <3>6. a + bc + de + f = Takings(os)
      BY <3>2, <3>3
    <3> QED
      BY <3>4, <3>5, <3>6 DEF SummaryAddsUp, os, f
  <2>3. ReportsAgree(SoldSince(1, clock))
    <3>1. SoldSince(1, clock) \in SUBSET OrderIds
      BY DEF SoldSince, SoldOrders
    <3> QED
      BY <3>1, ReportsAddUp DEF IInv
  <2>4. CloudBehind(1, clock) /\ CloudBehind(1, clock + DayLength)
    <3>1. clock \in Int /\ clock + DayLength \in Int
      BY Tables, DayAssumption DEF IInv
    <3> QED
      BY <3>1, OldestDayOnly DEF IInv
  <2> QED
    BY <2>1, <2>2, <2>3, <2>4 DEF BooksAddUp
<1> QED
  BY <1>1, Invariance, PTL
===============================================================================
