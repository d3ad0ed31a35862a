------------------------------- MODULE Reports --------------------------------
(***************************************************************************)
(* The sales reports of the cafe server and of the cloud, read from the    *)
(* orders and payments that the shifts are closed on.  Nothing is written: *)
(* a report is a function of the tables and of the time it is asked for.   *)
(*                                                                         *)
(* The cloud computes its reports from the orders that reached it; here it *)
(* has them all, so the two differ only in what they ask for.  Both take   *)
(* days in UTC.                                                            *)
(***************************************************************************)
EXTENDS ShiftCash

CONSTANT DayLength  \* times in a day

ASSUME DayAssumption == DayLength \in Nat \ {0}

Day(t) == t \div DayLength

-------------------------------------------------------------------------------
(* What a report selects *)

SoldOrders == {o \in OrderIds : orders[o].status \in SoldStatuses}

\* date(created_at) = date('now'), which date_trunc says in PostgreSQL.
SoldToday(now) == {o \in SoldOrders : Day(orders[o].created) = Day(now)}

\* The last days of the server are whole ones, and today on top of them.
SoldSince(days, now) == {o \in SoldOrders : Day(orders[o].created) >= Day(now) - days}

\* Those of the cloud end at this very time.
CloudSoldSince(days, now) ==
    {o \in SoldOrders : orders[o].created >= now - days * DayLength}

By(os, m) == {o \in os : orders[o].method = m}

-------------------------------------------------------------------------------
(* Reports *)

\* What was sold is what the orders cost; by method it is what was paid.
Sales(os) == [revenue |-> Value(os), orders |-> Cardinality(os)]

Payments(os) == [revenue |-> Takings(os), orders |-> Cardinality(os)]

\* Mutation: a bank transfer is not shown as card.
TodaySummaryCardOnly(now) ==
    LET os == SoldToday(now) IN
    [sales |-> Sales(os), cash |-> Takings(By(os, "cash")), card |-> Takings(By(os, "card")),
     online |-> Takings(By(os, "qr") \cup By(os, "online")),
     active |-> Cardinality({o \in OrderIds : orders[o].status = "open"})]

\* todaySummary.  What was paid in a split is in none of the three.
TodaySummary(now) ==
    LET os == SoldToday(now) IN
    [sales |-> Sales(os),
     cash |-> Takings(By(os, "cash")),
     card |-> Takings(By(os, "card") \cup By(os, "bank_transfer")),
     online |-> Takings(By(os, "qr") \cup By(os, "online")),
     active |-> Cardinality({o \in OrderIds : orders[o].status = "open"})]

\* dailySales: a row for each day with a sale.
DailySales(os) ==
    [d \in {Day(orders[o].created) : o \in os} |->
        Sales({o \in os : Day(orders[o].created) = d})]

\* hourlySales of a day, an hour being the time since its start.
HourlySales(os) ==
    [h \in {orders[o].created % DayLength : o \in os} |->
        Sales({o \in os : orders[o].created % DayLength = h})]

PaymentBreakdown(os) == [m \in {orders[o].method : o \in os} |-> Payments(By(os, m))]

CashierReport(os) ==
    [u \in {orders[o].cashier : o \in os} |-> Sales({o \in os : orders[o].cashier = u})]

-------------------------------------------------------------------------------
(* Properties *)

RevenueOf(report) == SumFunction([x \in DOMAIN report |-> report[x].revenue])

\* A shift shows each method of its sales, unless two methods that share a
\* bucket were both used: then the bucket holds one of them.
ShiftAddsUp(s) ==
    LET m == Metrics(s) IN
    \/ m.cash + m.card + m.qr + m.other = m.total
    \/ SoldBy(s, "card") # {} /\ SoldBy(s, "bank_transfer") # {}
    \/ SoldBy(s, "qr") # {} /\ SoldBy(s, "online") # {}

\* What was charged for the orders over what they cost, the cents that were
\* missing set against it.
Overcharged(os) == SumFunctionOnSet([o \in OrderIds |-> orders[o].paid - Total[o]], os)

SummaryAddsUp(now) ==
    LET os == SoldToday(now)
        t == TodaySummary(now)
    IN /\ t.cash + t.card + t.online + Takings(By(os, "split"))
            = t.sales.revenue + Overcharged(os)
       /\ RevenueOf(HourlySales(os)) = t.sales.revenue

ReportsAgree(os) ==
    LET revenue == RevenueOf(CashierReport(os))
    IN /\ RevenueOf(DailySales(os)) = revenue
       /\ RevenueOf(PaymentBreakdown(os)) = revenue + Overcharged(os)

\* The cloud shows less of the oldest day than the server, and of the others
\* the same.
CloudBehind(days, now) ==
    LET os == SoldSince(days, now)
        cs == CloudSoldSince(days, now)
    IN cs \subseteq os /\ \A o \in os \ cs : Day(orders[o].created) = Day(now) - days

\* Whatever is read, the sales add up: a shift's methods to its total; today's
\* methods with the split payments to the revenue of the summary, and that to
\* the sales of the hours; the days, methods and cashiers to each other.  The
\* figures by method are off from the others by what was charged over the orders'
\* totals, and by nothing else: not by refunds, methods, or who took the money.
\* What the cloud lacks of the same days, now and a day later, is of the oldest.
BooksAddUp ==
    /\ \A k \in DOMAIN shifts : ShiftAddsUp(shifts[k])
    /\ SummaryAddsUp(clock)
    /\ ReportsAgree(SoldSince(1, clock))
    /\ CloudBehind(1, clock) /\ CloudBehind(1, clock + DayLength)

\* The figures of shift k: those it was closed on or, while it is open, those
\* that closing it would store.
Figures(k) == IF shifts[k].status = "open" THEN Counted(shifts[k]) ELSE sold[k]

\* No shift of u was open at time t, as far as the shifts tell: closing one
\* again moves its end past the sales after the first closing, without them.
OffShift(u, t) ==
    \A k \in DOMAIN shifts :
        shifts[k].user = u =>
            \/ t < shifts[k].openedAt
            \/ shifts[k].status = "closed" /\ (t > shifts[k].closedAt \/ shifts[k].closings > 1)

\* The cashier report over all days shows of a cashier what the shifts do: each
\* sale is in the figures of one of the cashier's shifts, whoever took the
\* payment and whatever was refunded in part or closed since, unless the cashier
\* had no shift open when it was paid or the shift was closed more than once.
ReportMatchesShifts ==
    \A o \in SoldSince(Day(clock), clock) :
        LET u == orders[o].cashier IN
        \/ \E k \in DOMAIN shifts : shifts[k].user = u /\ o \in Figures(k)
        \/ OffShift(u, orders[o].paidAt)
===============================================================================
