------------------------------ MODULE ShiftCash -------------------------------
(***************************************************************************)
(* Cashier shifts and the cash they account for.  A shift opens with a     *)
(* float; closing it compares the counted cash with what the payments and  *)
(* refunds tables say should be there.                                     *)
(*                                                                         *)
(* Orders carry what the shift queries read: the cashier, the status, the  *)
(* method and amount of the one payment an order can have, and the times.  *)
(* Every handler here runs to the end on the server's single thread, and   *)
(* no two write in the same millisecond: clock counts them.                *)
(*                                                                         *)
(* handled and sold are not the program's: handled[k] is the cash that     *)
(* went through the drawer of the owner of shift k while it was open, and  *)
(* sold[k] the sales that its last closing counted.                        *)
(***************************************************************************)
EXTENDS Integers, Sequences, FiniteSets, Functions

CONSTANTS
    Users,       \* the people who use the tablets
    Refunders,   \* those of them with the permission orders.refund
    OrderIds,    \* the orders of the day
    Total,       \* Total[o]: what order o costs
    Charges,     \* the amounts that a payment may be of
    CashPart,    \* CashPart[o]: the cash in a split payment of order o
    Methods,     \* the payment methods in use
    Floats,      \* the floats a shift may open with
    Miscounts,   \* how far a count may be from the cash in the drawer
    None,        \* SQL NULL
    MaxClock,    \* bound: handlers that write
    MaxShifts,   \* bound: rows of shifts
    MaxRefunds   \* bound: rows of refunds

\* The methods of PaymentMethod that something in the program asks for.
PaymentMethods == {"cash", "card", "bank_transfer", "qr", "online", "split"}

ASSUME ConstantsAssumption ==
    /\ Refunders \subseteq Users
    /\ None \notin Users \cup PaymentMethods
    /\ IsFiniteSet(OrderIds)
    /\ Total \in [OrderIds -> Nat \ {0}]
    /\ Charges \subseteq Nat \ {0}
    /\ \A o \in OrderIds : CashPart[o] \in Nat
    /\ Methods \subseteq PaymentMethods
    /\ Floats \subseteq Nat
    /\ Miscounts \subseteq Int
    /\ {MaxClock, MaxShifts, MaxRefunds} \subseteq Nat

VARIABLES
    clock,     \* the time of the last write
    shifts,    \* the shifts table
    orders,    \* orders joined with payments
    refunds,   \* the refunds table
    handled,
    sold

vars == <<clock, shifts, orders, refunds, handled, sold>>

-------------------------------------------------------------------------------
(* Rows *)

Statuses == {"none", "open", "paid", "completed", "partially_refunded", "refunded"}

Times == 0..MaxClock

Order == [status : Statuses, cashier : Users \cup {None}, created : Times,
          method : Methods \cup {None}, paid : Nat, payer : Users \cup {None}, paidAt : Times]

NoOrder == [status |-> "none", cashier |-> None, created |-> 0,
            method |-> None, paid |-> 0, payer |-> None, paidAt |-> 0]

\* closedAt is 0 until the shift is closed; closings counts the times it was.
Shift == [user : Users, opening : Int, status : {"open", "closed"},
          openedAt : Times, closedAt : Times, expected : Int, difference : Int,
          closings : Nat]

Refund == [order : OrderIds, user : Users, amount : Nat \ {0}, at : Times]

Init ==
    /\ clock = 0
    /\ shifts = <<>>
    /\ orders = [o \in OrderIds |-> NoOrder]
    /\ refunds = <<>>
    /\ handled = <<>>
    /\ sold = <<>>

\* now(), at a write.
Tick == clock < MaxClock /\ clock' = clock + 1

Now == clock + 1

-------------------------------------------------------------------------------
(* computeShiftMetrics *)

\* Mutation: fully refunded orders are sales as well.
SoldStatusesWithRefunded == {"completed", "paid", "partially_refunded", "refunded"}

SoldStatuses == {"completed", "paid", "partially_refunded"}

\* Mutation: a sale belongs to the shift its order was created in.
CountedByCreation(s) ==
    {o \in OrderIds :
        /\ orders[o].cashier = s.user
        /\ orders[o].status \in SoldStatuses
        /\ orders[o].created >= s.openedAt
        /\ s.closedAt # 0 => orders[o].created <= s.closedAt}

\* The sales of a shift: of its user's orders, those paid since it opened and,
\* once it has been closed, created before that.
Counted(s) ==
    {o \in OrderIds :
        /\ orders[o].cashier = s.user
        /\ orders[o].status \in SoldStatuses
        /\ orders[o].paidAt >= s.openedAt
        /\ s.closedAt # 0 => orders[o].created <= s.closedAt}

\* What orders cost, and what their payments are of: SUM(total_cents), and
\* SUM(amount_cents).
Value(os) == SumFunctionOnSet(Total, os)

Paid == [o \in OrderIds |-> orders[o].paid]

Takings(os) == SumFunctionOnSet(Paid, os)

SoldBy(s, m) == {o \in Counted(s) : orders[o].method = m}

Amounts == [n \in DOMAIN refunds |-> refunds[n].amount]

\* A refund has the method of the order's first payment.
CashRefunds(s) ==
    SumFunctionOnSet(Amounts, {n \in DOMAIN refunds :
                                 /\ orders[refunds[n].order].method = "cash"
                                 /\ refunds[n].user = s.user
                                 /\ refunds[n].at >= s.openedAt})

\* The rows are grouped by method, in the order of the names, and each bucket
\* is assigned the total of a group: of two methods that share a bucket, the
\* later one stays.
LastGroup(s, first, second) ==
    IF SoldBy(s, second) # {} THEN Takings(SoldBy(s, second)) ELSE Takings(SoldBy(s, first))

Metrics(s) ==
    [cash |-> Takings(SoldBy(s, "cash")),
     card |-> LastGroup(s, "bank_transfer", "card"),
     qr |-> LastGroup(s, "online", "qr"),
     other |-> Takings(SoldBy(s, "split")),
     total |-> Takings(Counted(s)),
     expected |-> s.opening + Takings(SoldBy(s, "cash")) - CashRefunds(s)]

-------------------------------------------------------------------------------
(* Operations *)

OpenShifts(u) == {k \in DOMAIN shifts : shifts[k].user = u /\ shifts[k].status = "open"}

\* Mutation: the open shift of the user is not looked up.
OpenShiftUnchecked(u, opening) ==
    /\ Len(shifts) < MaxShifts
    /\ Tick
    /\ shifts' = Append(shifts, [user |-> u, opening |-> opening, status |-> "open",
                                 openedAt |-> Now, closedAt |-> 0, expected |-> 0,
                                 difference |-> 0, closings |-> 0])
    /\ handled' = Append(handled, opening)
    /\ sold' = Append(sold, {})
    /\ UNCHANGED <<orders, refunds>>

\* openShift; for a user with an open shift it returns that one, whatever the
\* float asked for, and writes nothing.
OpenShift(u, opening) ==
    /\ OpenShifts(u) = {}
    /\ Len(shifts) < MaxShifts
    /\ Tick
    /\ shifts' = Append(shifts, [user |-> u, opening |-> opening, status |-> "open",
                                 openedAt |-> Now, closedAt |-> 0, expected |-> 0,
                                 difference |-> 0, closings |-> 0])
    /\ handled' = Append(handled, opening)
    /\ sold' = Append(sold, {})
    /\ UNCHANGED <<orders, refunds>>

\* Mutation: the figures are stored and the status is left as it is.
CloseShiftStaysOpen(k, miscount) ==
    /\ Tick
    /\ shifts' = [shifts EXCEPT ![k].closedAt = Now, ![k].closings = @ + 1,
                                ![k].expected = Metrics(shifts[k]).expected]
    /\ sold' = [sold EXCEPT ![k] = Counted(shifts[k])]
    /\ UNCHANGED <<orders, refunds, handled>>

\* closeShift, of any shift by anyone, closed or not: nothing is checked.
CloseShift(k, miscount) ==
    /\ Tick
    /\ LET expected == Metrics(shifts[k]).expected
           counted == handled[k] + miscount
       IN shifts' = [shifts EXCEPT ![k] =
            [user |-> @.user, opening |-> @.opening, status |-> "closed",
             openedAt |-> @.openedAt, closedAt |-> Now, expected |-> expected,
             difference |-> counted - expected, closings |-> @.closings + 1]]
    /\ sold' = [sold EXCEPT ![k] = Counted(shifts[k])]
    /\ UNCHANGED <<orders, refunds, handled>>

\* What a payment or refund by u moves in the drawer of u's open shift; with
\* no shift open it is nobody's to account for.
MoveCash(u, amount) ==
    handled' = [k \in DOMAIN handled |->
                  IF k \in OpenShifts(u) THEN handled[k] + amount ELSE handled[k]]

\* The part of createOrder a shift sees.
CreateOrder(o, u) ==
    /\ orders[o].status = "none"
    /\ Tick
    /\ orders' = [orders EXCEPT ![o] = [status |-> "open", cashier |-> u, created |-> Now,
                                         method |-> None, paid |-> 0, payer |-> None,
                                         paidAt |-> 0]]
    /\ UNCHANGED <<shifts, refunds, handled, sold>>

\* What the server asks of a payment: not much less than the total and, of a
\* split one, nothing; its parts are checked, not its amount.
AmountAccepted(o, m, amount) == m = "split" \/ amount >= Total[o] - 1

\* The cash that stays in the drawer: what was received, less the change.
CashIn(o, m, amount) ==
    CASE m = "cash" -> amount [] m = "split" -> CashPart[o] [] OTHER -> 0

\* The part of payOrder a shift sees: u takes the payment of an order that may
\* be another cashier's.  Its amount is what the tablet sends: the total, the fee
\* of a delivery on top, or a cent less, which leaves the order paid, for good.
PayOrder(o, u, m, amount) ==
    /\ orders[o].status = "open"
    /\ AmountAccepted(o, m, amount)
    /\ Tick
    /\ orders' = [orders EXCEPT ![o] =
         [status |-> IF amount >= Total[o] THEN "completed" ELSE "paid",
          cashier |-> @.cashier, created |-> @.created, method |-> m, paid |-> amount,
          payer |-> u, paidAt |-> Now]]
    /\ MoveCash(u, CashIn(o, m, amount))
    /\ UNCHANGED <<shifts, refunds, sold>>

\* The first refund marks the payment, which is no longer captured.
Captured(o) == IF orders[o].status = "partially_refunded" THEN 0 ELSE orders[o].paid

Refunded(o) == SumFunctionOnSet(Amounts, {n \in DOMAIN refunds : refunds[n].order = o})

\* The part of refundOrder a shift sees.  Only a cash sale is given back in
\* cash.
RefundOrder(o, u, amount) ==
    /\ orders[o].status \in SoldStatuses
    /\ amount <= Captured(o) - Refunded(o)
    /\ Len(refunds) < MaxRefunds
    /\ Tick
    /\ refunds' = Append(refunds, [order |-> o, user |-> u, amount |-> amount, at |-> Now])
    /\ orders' = [orders EXCEPT ![o].status =
         IF Refunded(o) + amount >= Captured(o) THEN "refunded" ELSE "partially_refunded"]
    /\ MoveCash(u, IF orders[o].method = "cash" THEN -amount ELSE 0)
    /\ UNCHANGED <<shifts, sold>>

Next ==
    \/ \E u \in Users, opening \in Floats : OpenShift(u, opening)
    \/ \E k \in DOMAIN shifts, miscount \in Miscounts : CloseShift(k, miscount)
    \/ \E o \in OrderIds, u \in Users : CreateOrder(o, u)
    \/ \E o \in OrderIds, u \in Users, m \in Methods, amount \in Charges :
         PayOrder(o, u, m, amount)
    \/ \E o \in OrderIds, u \in Refunders :
         \E amount \in 1..orders[o].paid : RefundOrder(o, u, amount)

Spec == Init /\ [][Next]_vars

-------------------------------------------------------------------------------
(* Properties *)

\* The rows of shifts, orders and refunds are those the schema allows.
TypeOK ==
    /\ clock \in Times
    /\ shifts \in Seq(Shift)
    /\ orders \in [OrderIds -> Order]
    /\ refunds \in Seq(Refund)
    /\ handled \in Seq(Int) /\ Len(handled) = Len(shifts)
    /\ sold \in Seq(SUBSET OrderIds) /\ Len(sold) = Len(shifts)
    /\ \A k \in DOMAIN shifts : (shifts[k].status = "open") = (shifts[k].closings = 0)

\* The sales whose cash went through u's drawer since time t, and those the
\* query takes for such.
TakenBy(u, t) ==
    {o \in OrderIds : /\ orders[o].payer = u /\ orders[o].method = "cash"
                      /\ orders[o].paidAt >= t}
SplitBy(u, t) ==
    {o \in OrderIds : /\ orders[o].payer = u /\ orders[o].method = "split"
                      /\ orders[o].paidAt >= t}
OrderedBy(u, t) ==
    {o \in OrderIds : /\ orders[o].cashier = u /\ orders[o].method = "cash"
                      /\ orders[o].paidAt >= t}

\* When a shift is closed for the first time, the expected cash is what the
\* drawer holds, off by exactly four things: a cash sale that was given back
\* in full counts as no sale and as a refund, the cash in split payments is
\* not counted, and cash taken for another cashier's order is expected of that
\* cashier.  Partial refunds, refunds of earlier shifts' sales and the cashiers'
\* own sales never make a difference, whatever amount was charged for them.
ClosingExplained ==
    [][\A k \in DOMAIN shifts :
         (shifts[k].status = "open" /\ shifts'[k].status = "closed") =>
           LET u == shifts[k].user
               t == shifts[k].openedAt
               back == {o \in OrderIds : orders[o].status = "refunded"}
               own == TakenBy(u, t) \cap OrderedBy(u, t)
           IN shifts'[k].expected
                = handled[k]
                  - Takings(own \cap back)
                  - SumFunctionOnSet(CashPart, SplitBy(u, t))
                  - Takings(TakenBy(u, t) \ own)
                  + Takings(OrderedBy(u, t) \ (own \cup back))]_vars

\* No sale is in the closing figures of two shifts of its cashier, unless one
\* of the shifts was closed more than once: closing again counts the sales
\* ordered before the last closing and paid after it, which are the next
\* shift's too.
CountedOnce ==
    \A j, k \in DOMAIN shifts :
        (j # k /\ sold[j] \cap sold[k] # {}) =>
            shifts[j].closings > 1 \/ shifts[k].closings > 1
===============================================================================
