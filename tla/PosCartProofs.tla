---------------------------- MODULE PosCartProofs -----------------------------
(***************************************************************************)
(* Theorems about the till screen, for every menu, every percentage, every *)
(* discount and every number of parked carts.                              *)
(***************************************************************************)
EXTENDS PosCart, SetFacts, SequenceTheorems, TLAPS

-------------------------------------------------------------------------------
(* Money *)

\* Math.max and Math.min of two numbers
LEMMA MaxOfTwo == ASSUME NEW a \in Int, NEW b \in Int PROVE Max({a, b}) = IF a >= b THEN a ELSE b
<1> DEFINE m == IF a >= b THEN a ELSE b
<1>1. m \in {a, b} /\ \A y \in {a, b} : m >= y
  OBVIOUS
<1>2. \A x \in {a, b} : (\A y \in {a, b} : x >= y) => x = m
  OBVIOUS
<1> HIDE DEF m
<1>3. Max({a, b}) = m
  BY <1>1, <1>2 DEF Max
<1> QED
  BY <1>3 DEF m

LEMMA MinOfTwo == ASSUME NEW a \in Int, NEW b \in Int PROVE Min({a, b}) = IF a <= b THEN a ELSE b
<1> DEFINE m == IF a <= b THEN a ELSE b
<1>1. m \in {a, b} /\ \A y \in {a, b} : m <= y
  OBVIOUS
<1>2. \A x \in {a, b} : (\A y \in {a, b} : x <= y) => x = m
  OBVIOUS
<1> HIDE DEF m
<1>3. Min({a, b}) = m
  BY <1>1, <1>2 DEF Min
<1> QED
  BY <1>3 DEF m

\* A discount that is within the line, or the order, is taken as it is.
LEMMA ClampIs ==
    ASSUME NEW x \in Nat, NEW high \in Int
    PROVE  /\ Clamp(x, 0, high) \in Int
           /\ x <= high => Clamp(x, 0, high) = x
<1>1. Max({x, 0}) = x
  BY MaxOfTwo
<1>2. Clamp(x, 0, high) = IF x <= high THEN x ELSE high
  BY <1>1, MinOfTwo DEF Clamp
<1> QED
  BY <1>2

\* Rounded amounts are amounts.
LEMMA RoundIsInt == ASSUME NEW n \in Int, NEW d \in Int, d > 0 PROVE Round(n, d) \in Int
<1>1. 2 * n + d \in Int /\ 2 * d \in Int /\ 2 * d > 0
  OBVIOUS
<1> QED
  BY <1>1 DEF Round

\* A delivery fee is on top of the total, whatever else is in it.
LEMMA FeeOnTop ==
    ASSUME NEW D, IsFiniteSet(D), NEW lineTotal \in [D -> Int], NEW taxed \in SUBSET D,
           NEW discount \in Nat, NEW rates \in Rates, NEW fee \in Int
    PROVE  /\ ComputeTotals(lineTotal, taxed, discount, rates, 0) \in Int
           /\ ComputeTotals(lineTotal, taxed, discount, rates, fee)
                = ComputeTotals(lineTotal, taxed, discount, rates, 0) + fee
<1> DEFINE subtotal == SumFunction(lineTotal)
           after == subtotal - Clamp(discount, 0, subtotal)
           taxable == SumFunctionOnSet(lineTotal, taxed)
           base == IF subtotal > 0 THEN Round(after * taxable, subtotal) ELSE 0
           tax == Round(base * rates.tax, 100)
           service == Round(after * rates.service, 100)
<1>1. subtotal \in Int
  BY SumIsInt DEF SumFunction
<1>2. IsFiniteSet(taxed)
  BY FS_Subset
<1>3. taxable \in Int
  BY <1>2, SumIsInt
<1> HIDE DEF subtotal, taxable
<1>4. after \in Int
  BY <1>1, ClampIs
<1> HIDE DEF after
<1>5. base \in Int
  <2>1. after * taxable \in Int
    BY <1>3, <1>4
  <2> QED
    BY <1>1, <2>1, RoundIsInt
<1> HIDE DEF base
<1>6. rates.tax \in Int /\ rates.service \in Int
  BY DEF Rates
<1>7. base * rates.tax \in Int /\ after * rates.service \in Int
  BY <1>4, <1>5, <1>6
<1>8. tax \in Int /\ service \in Int
  BY <1>7, RoundIsInt
<1>9. \A f : ComputeTotals(lineTotal, taxed, discount, rates, f) = after + tax + service + f
  BY DEF ComputeTotals, subtotal, after, taxable, base
<1> HIDE DEF tax, service
<1> QED
  BY <1>4, <1>8, <1>9

-------------------------------------------------------------------------------
(* What a cart costs *)

Catalogs == [Items -> Nat \cup {Gone}]

\* The lines at the prices of a catalogue, and their total without a fee.
LinesAt(lines, catalog) ==
    [n \in DOMAIN lines |-> lines[n].qty * PriceIn(catalog, lines[n].item) - lines[n].discount]
Net(lines, catalog, discount) ==
    ComputeTotals(LinesAt(lines, catalog), TaxedLines(lines), discount, BuiltIn, 0)

\* Each line costs a number of cents.
LEMMA LinesAreInt ==
    ASSUME NEW lines \in Seq(Line), NEW catalog \in Catalogs
    PROVE  /\ IsFiniteSet(DOMAIN lines)
           /\ LinesAt(lines, catalog) \in [DOMAIN lines -> Int]
           /\ TaxedLines(lines) \in SUBSET DOMAIN lines
<1>1. DOMAIN lines = 1..Len(lines) /\ Len(lines) \in Nat
  BY LenProperties
<1>2. IsFiniteSet(1..Len(lines))
  BY <1>1, FS_Interval
<1>3. ASSUME NEW n \in DOMAIN lines
      PROVE  lines[n].qty * PriceIn(catalog, lines[n].item) - lines[n].discount \in Int
  <2>1. lines[n] \in Line
    BY <1>1, ElementOfSeq
  <2>2. lines[n].qty \in Int /\ lines[n].discount \in Int /\ PriceIn(catalog, lines[n].item) \in Int
    BY <2>1 DEF Line, PriceIn, Catalogs
  <2>3. lines[n].qty * PriceIn(catalog, lines[n].item) \in Int
    BY <2>2
  <2> QED
    BY <2>2, <2>3
<1>4. LinesAt(lines, catalog) \in [DOMAIN lines -> Int]
  BY <1>3 DEF LinesAt
<1> QED
  BY <1>1, <1>2, <1>4 DEF TaxedLines

\* The total is what the lines come to and the fee.
LEMMA NetAndFee ==
    ASSUME NEW lines \in Seq(Line), NEW catalog \in Catalogs, NEW discount \in Nat,
           NEW fee \in Int
    PROVE  /\ Net(lines, catalog, discount) \in Int
           /\ ComputeTotals(LinesAt(lines, catalog), TaxedLines(lines), discount, BuiltIn, fee)
                = Net(lines, catalog, discount) + fee
<1> DEFINE lt == LinesAt(lines, catalog)
           D == DOMAIN lines
           taxed == TaxedLines(lines)
<1>1. IsFiniteSet(D) /\ lt \in [D -> Int] /\ taxed \in SUBSET D
  BY LinesAreInt
<1>2. BuiltIn \in Rates
  BY ConstantsAssumption
<1> HIDE DEF lt, D, taxed
<1>3. /\ ComputeTotals(lt, taxed, discount, BuiltIn, 0) \in Int
      /\ ComputeTotals(lt, taxed, discount, BuiltIn, fee)
           = ComputeTotals(lt, taxed, discount, BuiltIn, 0) + fee
  BY <1>1, <1>2, FeeOnTop
<1> QED
  BY <1>3 DEF Net, lt, taxed

\* An empty cart costs nothing.
LEMMA EmptyCostsNothing == ASSUME NEW catalog PROVE Net(<<>>, catalog, 0) = 0
<1>1. DOMAIN <<>> = {} /\ DOMAIN LinesAt(<<>>, catalog) = {}
  BY EmptySeq, LenProperties DEF LinesAt
<1>2. TaxedLines(<<>>) = {}
  BY <1>1 DEF TaxedLines
<1>3. /\ SumFunction(LinesAt(<<>>, catalog)) = 0
      /\ SumFunctionOnSet(LinesAt(<<>>, catalog), TaxedLines(<<>>)) = 0
  BY <1>1, <1>2, SumEmpty DEF SumFunction
<1>4. Clamp(0, 0, 0) = 0
  BY ClampIs
<1>5. /\ BuiltIn.tax \in Nat /\ BuiltIn.service \in Nat
  BY ConstantsAssumption DEF Rates
<1>6. 0 * BuiltIn.tax = 0 /\ 0 * BuiltIn.service = 0
  BY <1>5
<1>7. Round(0, 100) = 0
  BY DEF Round
<1> QED
  BY <1>3, <1>4, <1>6, <1>7 DEF Net, ComputeTotals

\* The fee of the screen and of its total
LEMMA FeeIsNat == ASSUME TypeOK PROVE Fee \in Fees \cup {0} /\ Fee \in Nat
BY ConstantsAssumption DEF TypeOK, Fee

\* What the screen shows is the cart at the store's prices, and the fee.
LEMMA ScreenShows ==
    ASSUME TypeOK
    PROVE  ScreenTotal = Net(cart, products, orderDiscount) + Fee
<1>1. ScreenTotal = ComputeTotals(LinesAt(cart, products), TaxedLines(cart), orderDiscount, BuiltIn, Fee)
  BY DEF ScreenTotal, LinesAt, LineTotal
<1>2. cart \in Seq(Line) /\ products \in Catalogs /\ orderDiscount \in Nat /\ Fee \in Int
  BY FeeIsNat DEF TypeOK, Catalogs
<1> QED
  BY <1>1, <1>2, NetAndFee

-------------------------------------------------------------------------------
(* The inductive invariant *)

\* What an amount is computed from, and that it is the total of it, with the fee
\* a second time.
Bases == [catalog : Catalogs, lines : Seq(Line), discount : Nat, fee : Nat]
Asks(amount, q) == amount = Net(q.lines, q.catalog, q.discount) + q.fee + q.fee

Sales == [method : {"none", "cash", "card", "split"}, lines : Seq(Line), discount : Nat,
          fee : Nat, amount : Int, quoted : Bases, overtaken : BOOLEAN, left : BOOLEAN]

\* What the dialog was priced from and what is being charged are of their types.
SaleTyped == quoted \in Bases /\ overtaken \in BOOLEAN /\ sale \in Sales

\* While the payment dialog is open it asks for what it was priced from, the fee
\* of now included, and that is the cart below it, or the dialog was overtaken.
Quote ==
    dialog = "pay" =>
      /\ Asks(grand, quoted) /\ quoted.fee = Fee
      /\ overtaken \/ (quoted.lines = cart /\ quoted.discount = orderDiscount)

\* So is what is charged.
Charged ==
    sale # NoSale =>
      /\ Asks(sale.amount, sale.quoted) /\ sale.quoted.fee = sale.fee
      /\ sale.overtaken \/ (sale.quoted.lines = sale.lines /\ sale.quoted.discount = sale.discount)

\* Until the first edit of the day all have the same prices, and the panel shows
\* the cart it has with a fee that is or was set.
Memo ==
    edits = 0 =>
      /\ menu = Price /\ products = Price /\ settings = BuiltIn
      /\ \E fee \in Fees \cup {0} : memo = Net(cart, Price, orderDiscount) + fee

\* A row that is being resumed, and nothing else meanwhile, is on the screen once
\* it has been read.
OnScreenToo ==
    ~disturbed =>
      \/ fetching = {} /\ resuming = {}
      \/ holding = 0 /\ resuming = {} /\ \E h \in HoldIds : fetching = {h}
      \/ holding = 0 /\ fetching = {} /\ \E h \in HoldIds : resuming = {h} /\ heldOrders[h] = cart

IInv == TypeOK /\ SaleTyped /\ Quote /\ Charged /\ Memo /\ OnScreenToo

\* No dialog and no charge
LEMMA NothingTyped ==
    /\ NoBasis \in Bases /\ NoBasis.lines \in Seq(Line)
    /\ NoSale \in Sales /\ NoSale.lines \in Seq(Line)
<1>1. Price \in Catalogs
  BY ConstantsAssumption DEF Catalogs
<1>2. <<>> \in Seq(Line)
  BY EmptySeq
<1>3. NoBasis \in Bases
  BY <1>1, <1>2 DEF NoBasis, Bases
<1> QED
  BY <1>2, <1>3 DEF NoSale, NoBasis, Sales

\* The day starts with an empty cart.
LEMMA InitInv == Init => IInv
<1> SUFFICES ASSUME Init PROVE IInv
  OBVIOUS
<1>1. <<>> \in Seq(Line)
  BY EmptySeq
<1>2. /\ menu \in [Items -> Nat \cup {Gone}] /\ products \in [Items -> Nat \cup {Gone}]
      /\ Price \in Catalogs /\ settings \in Rates
  BY ConstantsAssumption DEF Init, Catalogs
<1>3. heldOrders \in [HoldIds -> Seq(Line)]
  BY <1>1 DEF Init
<1>4. /\ edits \in 0..MaxEdits /\ cart \in Seq(Line)
      /\ orderType \in {"takeaway", "delivery"} /\ orderDiscount \in Nat
      /\ deliveryInfo \in Fees \cup {NoFee} /\ memo \in Int /\ holding \in Nat
      /\ fetching \cup resuming \subseteq HoldIds
      /\ dialog \in {"none", "hold", "pay"} /\ grand \in Int
  BY <1>1, ConstantsAssumption DEF Init
<1>5. /\ sale.lines \in Seq(Line) /\ sale = NoSale /\ quoted.lines \in Seq(Line)
      /\ quoted = NoBasis
  BY <1>1 DEF Init, NoSale, NoBasis
<1>6. TypeOK
  BY <1>2, <1>3, <1>4, <1>5 DEF TypeOK
<1>7. SaleTyped
  BY <1>5, NothingTyped DEF SaleTyped, Init
<1>8. Quote /\ Charged /\ OnScreenToo
  BY <1>5 DEF Quote, Charged, OnScreenToo, Init
<1>9. Memo
  BY EmptyCostsNothing DEF Memo, Init
<1> QED
  BY <1>6, <1>7, <1>8, <1>9 DEF IInv

-------------------------------------------------------------------------------
(* Every step keeps it *)

\* What the screen shows after a step
LEMMA ScreenShowsNext ==
    ASSUME cart' \in Seq(Line), products' \in Catalogs, orderDiscount' \in Nat,
           deliveryInfo' \in Fees \cup {NoFee}
    PROVE  /\ Fee' \in Fees \cup {0} /\ Fee' \in Nat /\ ScreenTotal' \in Int
           /\ Net(cart', products', orderDiscount') \in Int
           /\ ScreenTotal' = Net(cart', products', orderDiscount') + Fee'
<1>1. ScreenTotal'
        = ComputeTotals(LinesAt(cart', products'), TaxedLines(cart'), orderDiscount', BuiltIn, Fee')
  BY DEF ScreenTotal, LinesAt, LineTotal
<1>2. Fee' \in Fees \cup {0} /\ Fee' \in Nat
  BY ConstantsAssumption DEF Fee
<1>3. /\ Net(cart', products', orderDiscount') \in Int
      /\ ScreenTotal' = Net(cart', products', orderDiscount') + Fee'
  BY <1>1, <1>2, NetAndFee
<1> QED
  BY <1>2, <1>3

\* What a dialog that is priced now asks for, and one that is priced by a step.
LEMMA BasisPriced ==
    ASSUME TypeOK
    PROVE  /\ Basis \in Bases /\ Grand \in Int /\ Asks(Grand, Basis)
           /\ Basis.lines = cart /\ Basis.discount = orderDiscount /\ Basis.fee = Fee
<1>1. products \in Catalogs /\ cart \in Seq(Line) /\ orderDiscount \in Nat
  BY DEF TypeOK, Catalogs
<1>2. Fee \in Nat /\ Net(cart, products, orderDiscount) \in Int
  BY <1>1, FeeIsNat, NetAndFee
<1>3. Grand = Net(cart, products, orderDiscount) + Fee + Fee /\ Grand \in Int
  BY <1>2, ScreenShows DEF Grand
<1> QED
  BY <1>1, <1>2, <1>3 DEF Basis, Bases, Asks

LEMMA BasisPricedAnew ==
    ASSUME cart' \in Seq(Line), products' \in Catalogs, orderDiscount' \in Nat,
           deliveryInfo' \in Fees \cup {NoFee}
    PROVE  /\ Basis' \in Bases /\ Grand' \in Int /\ Asks(Grand', Basis')
           /\ Basis'.lines = cart' /\ Basis'.discount = orderDiscount' /\ Basis'.fee = Fee'
<1>1. /\ Fee' \in Nat /\ Net(cart', products', orderDiscount') \in Int
      /\ ScreenTotal' = Net(cart', products', orderDiscount') + Fee'
  BY ScreenShowsNext
<1>2. Grand' = Net(cart', products', orderDiscount') + Fee' + Fee' /\ Grand' \in Int
  BY <1>1 DEF Grand
<1> QED
  BY <1>1, <1>2 DEF Basis, Bases, Asks

\* A panel that is drawn anew shows the cart it gets.
LEMMA Repriced ==
    ASSUME Reprice, cart' \in Seq(Line), products' \in Catalogs, orderDiscount' \in Nat,
           deliveryInfo' \in Fees \cup {NoFee}
    PROVE  /\ Fee' \in Fees \cup {0} /\ memo' \in Int
           /\ memo' = Net(cart', products', orderDiscount') + Fee'
<1>1. memo' = ScreenTotal'
  BY DEF Reprice
<1> QED
  BY <1>1, ScreenShowsNext

\* Where the catalogue stays, a panel that is drawn anew, or has nothing new to
\* show, keeps what is said of it.
LEMMA MemoStep ==
    ASSUME TypeOK, Memo, UNCHANGED <<catalogVars, products>>,
           cart' \in Seq(Line), orderDiscount' \in Nat, deliveryInfo' \in Fees \cup {NoFee},
           Reprice \/ UNCHANGED <<memo, cart, orderDiscount>>
    PROVE  Memo' /\ memo' \in Int
<1>1. menu' = menu /\ settings' = settings /\ edits' = edits /\ products' = products
  BY DEF catalogVars
<1>2. CASE Reprice
  <2>1. products' \in Catalogs
    BY <1>1 DEF TypeOK, Catalogs
  <2>2. /\ Fee' \in Fees \cup {0} /\ memo' \in Int
        /\ memo' = Net(cart', products', orderDiscount') + Fee'
    BY <1>2, <2>1, Repriced
  <2> QED
    BY <1>1, <2>2 DEF Memo
<1>3. CASE UNCHANGED <<memo, cart, orderDiscount>>
  BY <1>1, <1>3 DEF Memo, TypeOK
<1> QED
  BY <1>2, <1>3

\* Steps of the screen with no dialog open: whatever they do to the cart, a hold
\* or resume under way is disturbed by it.
LEMMA ScreenStep ==
    ASSUME IInv, OnScreen, OrderOnly,
           cart' \in Seq(Line), orderType' \in {"takeaway", "delivery"}, orderDiscount' \in Nat,
           deliveryInfo' \in Fees \cup {NoFee},
           Reprice \/ UNCHANGED <<memo, cart, orderDiscount>>,
           Touch \/ UNCHANGED <<cart, disturbed>>
    PROVE  IInv'
<1>1. TypeOK /\ SaleTyped /\ Memo /\ Charged /\ OnScreenToo
  BY DEF IInv
<1>2. /\ UNCHANGED <<catalogVars, products>> /\ UNCHANGED <<menu, settings, edits, products>>
      /\ UNCHANGED <<heldOrders, holding, fetching, resuming, dialog>>
      /\ UNCHANGED <<grand, quoted, overtaken, sale>>
  BY DEF OrderOnly, catalogVars, holdVars, payVars
<1>3. Memo' /\ memo' \in Int
  BY <1>1, <1>2, MemoStep
<1>4. TypeOK'
  BY <1>1, <1>2, <1>3 DEF TypeOK
<1>5. SaleTyped' /\ Quote' /\ Charged'
  BY <1>1, <1>2 DEF SaleTyped, Quote, Charged, OnScreen
<1>6. OnScreenToo'
  <2>1. CASE Touch
    BY <1>1, <1>2, <2>1 DEF OnScreenToo, Touch
  <2>2. CASE UNCHANGED <<cart, disturbed>>
    BY <1>1, <1>2, <2>2 DEF OnScreenToo
  <2> QED
    BY <2>1, <2>2
<1> QED
  BY <1>3, <1>4, <1>5, <1>6 DEF IInv

\* A line less is a shorter cart.
LEMMA LineRemoved ==
    ASSUME NEW lines \in Seq(Line), NEW n \in DOMAIN lines
    PROVE  RemoveAt(lines, n) \in Seq(Line)
<1>1. DOMAIN lines = 1..Len(lines) /\ Len(lines) \in Nat /\ n \in 1..Len(lines)
  BY LenProperties
<1>2. SubSeq(lines, 1, n - 1) \in Seq(Line)
  <2>1. \A i \in 1..(n - 1) : lines[i] \in Line
    BY <1>1, ElementOfSeq
  <2> QED
    BY <1>1, <2>1, SubSeqProperties
<1>3. SubSeq(lines, n + 1, Len(lines)) \in Seq(Line)
  <2>1. \A i \in (n + 1)..Len(lines) : lines[i] \in Line
    BY <1>1, ElementOfSeq
  <2> QED
    BY <1>1, <2>1, SubSeqProperties
<1> QED
  BY <1>2, <1>3, ConcatProperties DEF RemoveAt

\* A line that is changed
LEMMA LineChanged ==
    ASSUME NEW lines \in Seq(Line), NEW n \in DOMAIN lines, NEW qty \in Nat \ {0},
           NEW discount \in Nat
    PROVE  /\ lines[n] \in Line
           /\ [lines EXCEPT ![n] = [item |-> lines[n].item, qty |-> qty, discount |-> discount]]
                \in Seq(Line)
<1>1. n \in 1..Len(lines)
  BY LenProperties
<1>2. lines[n] \in Line
  BY <1>1, ElementOfSeq
<1>3. [item |-> lines[n].item, qty |-> qty, discount |-> discount] \in Line
  BY <1>2 DEF Line
<1> QED
  BY <1>1, <1>2, <1>3, ExceptSeq

\* A piece more or less, or another discount, of one line
LEMMA LineEdited ==
    ASSUME NEW lines \in Seq(Line), NEW n \in DOMAIN lines
    PROVE  /\ \A k \in Int : lines[n].qty + k > 0 => [lines EXCEPT ![n].qty = @ + k] \in Seq(Line)
           /\ \A k \in Nat : [lines EXCEPT ![n].discount = k] \in Seq(Line)
<1>1. lines[n] \in Line
  BY LineChanged
<1>2. lines[n].qty \in Nat \ {0} /\ lines[n].discount \in Nat
  BY <1>1 DEF Line
<1>3. ASSUME NEW k \in Int, lines[n].qty + k > 0
      PROVE  [lines EXCEPT ![n].qty = @ + k] \in Seq(Line)
  <2>1. lines[n].qty + k \in Nat \ {0}
    BY ONLY <1>2, <1>3
  <2>2. [lines[n] EXCEPT !.qty = @ + k]
          = [item |-> lines[n].item, qty |-> lines[n].qty + k, discount |-> lines[n].discount]
    BY ONLY <1>1, <2>1, SMTT(30) DEF Line
  <2> DEFINE line == [item |-> lines[n].item, qty |-> lines[n].qty + k,
                      discount |-> lines[n].discount]
  <2>3. [lines EXCEPT ![n] = line] \in Seq(Line)
    BY <1>2, <2>1, LineChanged
  <2>4. [lines EXCEPT ![n].qty = @ + k] = [lines EXCEPT ![n] = line]
    BY <2>2
  <2> QED
    BY ONLY <2>3, <2>4
<1>4. ASSUME NEW k \in Nat PROVE [lines EXCEPT ![n].discount = k] \in Seq(Line)
  <2>1. [lines[n] EXCEPT !.discount = k]
          = [item |-> lines[n].item, qty |-> lines[n].qty, discount |-> k]
    BY <1>1 DEF Line
  <2> DEFINE line == [item |-> lines[n].item, qty |-> lines[n].qty, discount |-> k]
  <2>2. [lines EXCEPT ![n] = line] \in Seq(Line)
    BY <1>2, <1>4, LineChanged
  <2>3. [lines EXCEPT ![n].discount = k] = [lines EXCEPT ![n] = line]
    BY <2>1
  <2> QED
    BY ONLY <2>2, <2>3
<1> QED
  BY <1>3, <1>4

\* A cleared cart is a cart.
LEMMA Cleared ==
    ASSUME TypeOK, ClearCart
    PROVE  /\ cart' = <<>> /\ cart' \in Seq(Line) /\ orderType' \in {"takeaway", "delivery"}
           /\ orderDiscount' \in Nat /\ deliveryInfo' \in Fees \cup {NoFee}
BY EmptySeq DEF ClearCart, TypeOK

\* What a cashier taps on the screen
LEMMA AddProductInv == ASSUME IInv, NEW i \in Items, AddProduct(i) PROVE IInv'
<1>1. TypeOK
  BY DEF IInv
<1>2. /\ OnScreen /\ OrderOnly /\ Reprice /\ Touch
      /\ UNCHANGED <<orderType, orderDiscount, deliveryInfo>>
  BY DEF AddProduct, SetCart, orderVars
<1>3. cart \in Seq(Line) /\ DOMAIN cart = 1..Len(cart) /\ Len(cart) \in Nat
  BY <1>1, LenProperties DEF TypeOK
<1>4. cart' \in Seq(Line)
  <2>1. CASE LineOf(i) # {}
    <3>1. LineOf(i) \in SUBSET Nat
      BY <1>3 DEF LineOf
    <3>2. PICK n \in DOMAIN cart : n = Min(LineOf(i))
      BY <2>1, <3>1, MinIsLeast DEF LineOf
    <3>3. cart' = [cart EXCEPT ![n].qty = @ + 1]
      BY <2>1, <3>2 DEF AddProduct, SetCart
    <3>4. cart[n] \in Line
      BY <1>3, ElementOfSeq
    <3>5. cart[n].qty + 1 > 0
      BY <3>4 DEF Line
    <3> QED
      BY <1>3, <3>3, <3>5, LineEdited
  <2>2. CASE LineOf(i) = {}
    <3>1. [item |-> i, qty |-> 1, discount |-> 0] \in Line
      BY DEF Line
    <3>2. cart' = Append(cart, [item |-> i, qty |-> 1, discount |-> 0])
      BY <2>2 DEF AddProduct, SetCart
    <3> QED
      BY <1>3, <3>1, <3>2, AppendProperties
  <2> QED
    BY <2>1, <2>2
<1> QED
  BY <1>1, <1>2, <1>4, ScreenStep DEF TypeOK

LEMMA IncLineInv ==
    ASSUME IInv, NEW n \in DOMAIN cart, NEW delta \in {-1, 1}, IncLine(n, delta)
    PROVE  IInv'
<1>1. TypeOK /\ cart \in Seq(Line)
  BY DEF IInv, TypeOK
<1>2. /\ OnScreen /\ OrderOnly /\ Reprice /\ Touch
      /\ UNCHANGED <<orderType, orderDiscount, deliveryInfo>>
  BY DEF IncLine, SetCart, orderVars
<1>3. \/ cart[n].qty + delta > 0 /\ cart' = [cart EXCEPT ![n].qty = @ + delta]
      \/ cart' = RemoveAt(cart, n)
  BY DEF IncLine, SetCart
<1>4. cart' \in Seq(Line)
  <2>1. CASE cart[n].qty + delta > 0 /\ cart' = [cart EXCEPT ![n].qty = @ + delta]
    <3>1. delta \in Int
      OBVIOUS
    <3> QED
      BY <1>1, <2>1, <3>1, LineEdited
  <2>2. CASE cart' = RemoveAt(cart, n)
    BY <1>1, <2>2, LineRemoved
  <2> QED
    BY <1>3, <2>1, <2>2
<1> QED
  BY <1>1, <1>2, <1>4, ScreenStep DEF TypeOK

LEMMA SetLineDiscountInv ==
    ASSUME IInv, NEW n \in DOMAIN cart, NEW cents \in LineDiscounts, SetLineDiscount(n, cents)
    PROVE  IInv'
<1>1. TypeOK /\ cart \in Seq(Line)
  BY DEF IInv, TypeOK
<1>2. /\ OnScreen /\ OrderOnly /\ Reprice /\ Touch
      /\ UNCHANGED <<orderType, orderDiscount, deliveryInfo>>
      /\ cart' = [cart EXCEPT ![n].discount = Max({0, cents})]
  BY DEF SetLineDiscount, SetCart, orderVars
<1>3. Max({0, cents}) \in Nat
  BY ConstantsAssumption, MaxOfTwo
<1>4. cart' \in Seq(Line)
  BY <1>1, <1>2, <1>3, LineEdited
<1> QED
  BY <1>1, <1>2, <1>4, ScreenStep DEF TypeOK

LEMMA RemoveLineInv == ASSUME IInv, NEW n \in DOMAIN cart, RemoveLine(n) PROVE IInv'
<1>1. TypeOK /\ cart \in Seq(Line)
  BY DEF IInv, TypeOK
<1>2. /\ OnScreen /\ OrderOnly /\ Reprice /\ Touch
      /\ UNCHANGED <<orderType, orderDiscount, deliveryInfo>>
      /\ cart' = RemoveAt(cart, n)
  BY DEF RemoveLine, SetCart, orderVars
<1>3. cart' \in Seq(Line)
  BY <1>1, <1>2, LineRemoved
<1> QED
  BY <1>1, <1>2, <1>3, ScreenStep DEF TypeOK

LEMMA SetOrderTypeInv ==
    ASSUME IInv, NEW t \in {"takeaway", "delivery"}, SetOrderType(t)
    PROVE  IInv'
<1>1. TypeOK
  BY DEF IInv
<1> QED
  BY <1>1, ScreenStep DEF SetOrderType, TypeOK

LEMMA SetDeliveryInfoInv ==
    ASSUME IInv, NEW fee \in Fees, SetDeliveryInfo(fee)
    PROVE  IInv'
<1>1. TypeOK
  BY DEF IInv
<1> QED
  BY <1>1, ScreenStep DEF SetDeliveryInfo, TypeOK

LEMMA SetOrderDiscountInv ==
    ASSUME IInv, NEW cents \in OrderDiscounts, SetOrderDiscount(cents)
    PROVE  IInv'
<1>1. TypeOK
  BY DEF IInv
<1>2. orderDiscount' = Max({0, cents}) /\ Max({0, cents}) \in Nat
  BY ConstantsAssumption, MaxOfTwo DEF SetOrderDiscount
<1>3. /\ OnScreen /\ OrderOnly
      /\ UNCHANGED <<cart, orderType, deliveryInfo, disturbed>>
      /\ Reprice \/ UNCHANGED <<memo, orderDiscount>>
  BY DEF SetOrderDiscount
<1> QED
  BY <1>1, <1>2, <1>3, ScreenStep DEF TypeOK

LEMMA CancelInv == ASSUME IInv, Cancel PROVE IInv'
<1>1. TypeOK
  BY DEF IInv
<1> QED
  BY <1>1, Cleared, ScreenStep DEF Cancel

\* Steps of the dialogs leave the cart and the holds alone.
LEMMA DialogStep ==
    ASSUME IInv, UNCHANGED <<catalogVars, products, cart, orderVars, memo, holdVars, disturbed>>,
           dialog' \in {"none", "hold", "pay"}, grand' \in Int,
           sale'.lines \in Seq(Line), sale' # NoSale => dialog' = "pay" \/ sale'.left,
           SaleTyped', Quote', Charged'
    PROVE  IInv'
<1>1. TypeOK /\ Memo /\ OnScreenToo
  BY DEF IInv
<1>2. /\ UNCHANGED <<menu, settings, edits, products, cart, memo, disturbed>>
      /\ UNCHANGED <<orderType, orderDiscount, deliveryInfo>>
      /\ UNCHANGED <<heldOrders, holding, fetching, resuming>>
  BY DEF catalogVars, orderVars, holdVars
<1>3. TypeOK'
  BY <1>1, <1>2 DEF TypeOK, SaleTyped, Bases
<1>4. Memo' /\ OnScreenToo'
  BY <1>1, <1>2 DEF Memo, OnScreenToo
<1> QED
  BY <1>3, <1>4 DEF IInv

LEMMA OpenHoldInv == ASSUME IInv, OpenHold PROVE IInv'
<1>1. TypeOK /\ SaleTyped /\ Charged
  BY DEF IInv
<1>2. UNCHANGED <<grand, quoted, overtaken, sale>> /\ dialog' = "hold" /\ dialog = "none"
  BY DEF OpenHold, payVars, OnScreen
<1>3. SaleTyped' /\ Quote' /\ Charged'
  BY <1>1, <1>2 DEF SaleTyped, Quote, Charged
<1> QED
  BY <1>1, <1>2, <1>3, DialogStep DEF OpenHold, TypeOK

\* A charge that is left alone goes on as it was.
LEMMA CloseDialogInv == ASSUME IInv, CloseDialog PROVE IInv'
<1>1. TypeOK /\ SaleTyped /\ Charged
  BY DEF IInv
<1>2. /\ dialog' = "none" /\ grand' = 0 /\ quoted' = NoBasis /\ overtaken' = FALSE
      /\ UNCHANGED <<catalogVars, products, cart, orderVars, memo, holdVars, disturbed>>
  BY DEF CloseDialog
<1>3. Quote'
  BY <1>2 DEF Quote
<1>4. /\ sale' \in Sales
      /\ sale' # NoSale => sale # NoSale /\ sale'.left
      /\ /\ sale'.lines = sale.lines /\ sale'.discount = sale.discount
         /\ sale'.fee = sale.fee /\ sale'.amount = sale.amount
         /\ sale'.quoted = sale.quoted /\ sale'.overtaken = sale.overtaken
  <2>1. CASE dialog = "pay" /\ sale # NoSale /\ sale' = [sale EXCEPT !.left = TRUE]
    BY <1>1, <2>1 DEF SaleTyped, Sales
  <2>2. CASE ~(dialog = "pay" /\ sale # NoSale) /\ sale' = sale
    BY <1>1, <2>2 DEF SaleTyped, TypeOK
  <2> QED
    BY <2>1, <2>2 DEF CloseDialog
<1>5. SaleTyped' /\ Charged'
  BY <1>1, <1>2, <1>4, NothingTyped DEF SaleTyped, Charged
<1>6. sale'.lines \in Seq(Line)
  BY <1>1, <1>4 DEF TypeOK
<1> QED
  BY <1>2, <1>3, <1>4, <1>5, <1>6, DialogStep

\* The amount of the payment dialog is that of its basis.
LEMMA OpenPayInv == ASSUME IInv, OpenPay PROVE IInv'
<1>1. TypeOK /\ SaleTyped /\ Charged
  BY DEF IInv
<1>2. /\ sale' = sale /\ dialog = "none" /\ dialog' = "pay" /\ grand' = Grand
      /\ quoted' = Basis /\ overtaken' = FALSE
      /\ UNCHANGED <<cart, orderType, orderDiscount, deliveryInfo>>
  BY DEF OpenPay, OnScreen, orderVars
<1>3. /\ Basis \in Bases /\ Grand \in Int /\ Asks(Grand, Basis)
      /\ Basis.lines = cart /\ Basis.discount = orderDiscount /\ Basis.fee = Fee
  BY <1>1, BasisPriced
<1>4. Fee' = Fee
  BY <1>2 DEF Fee
<1>5. SaleTyped' /\ Charged'
  BY <1>1, <1>2, <1>3 DEF SaleTyped, Charged
<1>6. Quote'
  BY <1>2, <1>3, <1>4 DEF Quote, Asks
<1> QED
  BY <1>1, <1>2, <1>3, <1>5, <1>6, DialogStep DEF OpenPay, TypeOK

\* What is sent is what the dialog was priced for.
LEMMA ChargeInv == ASSUME IInv, NEW m \in Methods, Charge(m) PROVE IInv'
<1>1. TypeOK /\ SaleTyped /\ Quote
  BY DEF IInv
<1>2. /\ dialog = "pay" /\ cart # <<>>
      /\ UNCHANGED <<dialog, grand, quoted, overtaken, cart, orderType, orderDiscount,
                     deliveryInfo>>
  BY DEF Charge, orderVars
<1>3. sale' = [method |-> m, lines |-> cart, discount |-> orderDiscount, fee |-> Fee,
               amount |-> grand, quoted |-> quoted, overtaken |-> overtaken, left |-> FALSE]
  BY DEF Charge
<1>4. Fee' = Fee /\ Fee \in Nat
  BY <1>1, <1>2, FeeIsNat DEF Fee
<1>5. m \in {"none", "cash", "card", "split"}
  BY ConstantsAssumption
<1>6. sale' \in Sales
  BY <1>1, <1>3, <1>4, <1>5 DEF Sales, SaleTyped, TypeOK
<1>7. /\ sale'.lines = cart /\ sale'.discount = orderDiscount /\ sale'.fee = Fee
      /\ sale'.amount = grand /\ sale'.quoted = quoted /\ sale'.overtaken = overtaken
  BY <1>3
<1>8. SaleTyped' /\ Quote' /\ Charged'
  BY <1>1, <1>2, <1>4, <1>6, <1>7 DEF SaleTyped, Quote, Charged
<1> QED
  BY <1>1, <1>2, <1>7, <1>8, DialogStep DEF Charge, TypeOK

\* What changes the cart below the payment dialog overtakes it, or makes it ask
\* anew.
LEMMA OvertakeStep ==
    ASSUME TypeOK, SaleTyped, Quote, Overtake, UNCHANGED <<products, dialog, orderType>>,
           cart' \in Seq(Line), orderDiscount' \in Nat, deliveryInfo' \in Fees \cup {NoFee}
    PROVE  quoted' \in Bases /\ overtaken' \in BOOLEAN /\ grand' \in Int /\ Quote'
<1>1. overtaken' = (overtaken \/ dialog = "pay") /\ overtaken' \in BOOLEAN
  BY DEF Overtake, SaleTyped
<1>2. CASE dialog = "pay" /\ grand' = Grand' /\ quoted' = Basis'
  <2>1. products' \in Catalogs
    BY DEF TypeOK, Catalogs
  <2>2. /\ Basis' \in Bases /\ Grand' \in Int /\ Asks(Grand', Basis')
        /\ Basis'.lines = cart' /\ Basis'.discount = orderDiscount' /\ Basis'.fee = Fee'
    BY <2>1, BasisPricedAnew
  <2> QED
    BY <1>1, <1>2, <2>2 DEF Quote, Asks
<1>3. CASE (dialog = "pay" => deliveryInfo' = deliveryInfo) /\ UNCHANGED <<grand, quoted>>
  <2>1. dialog = "pay" => Fee' = Fee
    BY <1>3 DEF Fee
  <2>2. Quote'
    BY <1>1, <1>3, <2>1 DEF Quote, Asks
  <2> QED
    BY <1>1, <1>3, <2>2 DEF SaleTyped, TypeOK
<1> QED
  BY <1>2, <1>3 DEF Overtake, Requote

\* Steps of a hold or a resume
LEMMA HoldStep ==
    ASSUME IInv, UNCHANGED <<catalogVars, products, sale>>,
           cart' \in Seq(Line), orderType' \in {"takeaway", "delivery"}, orderDiscount' \in Nat,
           deliveryInfo' \in Fees \cup {NoFee},
           heldOrders' \in [HoldIds -> Seq(Line)], holding' \in Nat,
           fetching' \cup resuming' \subseteq HoldIds,
           dialog' \in {dialog, "none"}, dialog = "pay" => dialog' = "pay",
           quoted' \in Bases, overtaken' \in BOOLEAN, grand' \in Int, Quote',
           Reprice \/ UNCHANGED <<memo, cart, orderDiscount>>,
           OnScreenToo'
    PROVE  IInv'
<1>1. TypeOK /\ SaleTyped /\ Memo /\ Charged
  BY DEF IInv
<1>2. UNCHANGED <<menu, settings, edits, products, sale>>
  BY DEF catalogVars
<1>3. Memo' /\ memo' \in Int
  BY <1>1, MemoStep
<1>4. TypeOK'
  BY <1>1, <1>2, <1>3 DEF TypeOK, Bases
<1>5. SaleTyped' /\ Charged'
  BY <1>1, <1>2 DEF SaleTyped, Charged
<1> QED
  BY <1>3, <1>4, <1>5 DEF IInv

\* While the hold dialog is open no payment is.
LEMMA HoldCurrentInv == ASSUME IInv, NEW h \in HoldIds, HoldCurrent(h) PROVE IInv'
<1>1. TypeOK /\ SaleTyped
  BY DEF IInv
<1>2. /\ UNCHANGED <<catalogVars, products, sale>> /\ UNCHANGED <<grand, quoted, overtaken>>
      /\ UNCHANGED <<cart, orderType, orderDiscount, deliveryInfo, memo, fetching, resuming>>
      /\ heldOrders' = [heldOrders EXCEPT ![h] = cart]
      /\ holding' = holding + 1 /\ disturbed' = ~Settled
      /\ dialog = "hold" /\ dialog' = dialog
  BY DEF HoldCurrent, orderVars, payVars
<1>3. heldOrders' \in [HoldIds -> Seq(Line)] /\ holding' \in Nat
  BY <1>1, <1>2 DEF TypeOK
<1>4. Quote' /\ OnScreenToo'
  BY <1>2 DEF Quote, OnScreenToo, Settled
<1> QED
  BY <1>1, <1>2, <1>3, <1>4, HoldStep DEF TypeOK, SaleTyped

\* A run that ends while another goes on has been disturbed by it.
LEMMA HoldDoneInv == ASSUME IInv, HoldDone PROVE IInv'
<1>1. TypeOK /\ SaleTyped /\ Quote /\ OnScreenToo
  BY DEF IInv
<1>2. /\ UNCHANGED <<catalogVars, products, sale>> /\ UNCHANGED products
      /\ UNCHANGED <<heldOrders, fetching, resuming, dialog>>
      /\ holding > 0 /\ holding' = holding - 1 /\ ClearCart /\ orderType' = orderType
      /\ Forget /\ Reprice /\ Overtake
  BY DEF HoldDone, ClearCart
<1>3. holding' \in Nat
  BY <1>1, <1>2 DEF TypeOK
<1>4. OnScreenToo'
  <2>1. CASE fetching = {} /\ resuming = {}
    BY <1>2, <2>1 DEF OnScreenToo
  <2>2. CASE ~(fetching = {} /\ resuming = {})
    <3>1. disturbed
      BY <1>1, <1>2, <2>2 DEF OnScreenToo
    <3>2. disturbed'
      BY <1>2, <2>2, <3>1 DEF Forget, Settled
    <3> QED
      BY <3>2 DEF OnScreenToo
  <2> QED
    BY <2>1, <2>2
<1>5. /\ cart' \in Seq(Line) /\ orderType' \in {"takeaway", "delivery"}
      /\ orderDiscount' \in Nat /\ deliveryInfo' \in Fees \cup {NoFee}
  BY <1>1, <1>2, Cleared
<1>6. quoted' \in Bases /\ overtaken' \in BOOLEAN /\ grand' \in Int /\ Quote'
  BY <1>1, <1>2, <1>5, OvertakeStep
<1> QED
  BY <1>1, <1>2, <1>3, <1>4, <1>5, <1>6, HoldStep DEF TypeOK

\* The row is read later.
LEMMA ResumeInv == ASSUME IInv, NEW h \in HoldIds, Resume(h) PROVE IInv'
<1>1. TypeOK /\ SaleTyped
  BY DEF IInv
<1>2. /\ UNCHANGED <<catalogVars, products, sale>> /\ UNCHANGED <<grand, quoted, overtaken>>
      /\ UNCHANGED <<cart, orderType, orderDiscount, deliveryInfo, memo>>
      /\ UNCHANGED <<heldOrders, holding, resuming, dialog>>
      /\ dialog = "hold" /\ fetching' = fetching \cup {h} /\ disturbed' = ~Settled
  BY DEF Resume, orderVars, payVars
<1>3. fetching' \cup resuming' \subseteq HoldIds
  BY <1>1, <1>2 DEF TypeOK
<1>4. Quote' /\ OnScreenToo'
  BY <1>2 DEF Quote, OnScreenToo, Settled
<1> QED
  BY <1>1, <1>2, <1>3, <1>4, HoldStep DEF TypeOK, SaleTyped

\* The row that is resumed is on the screen.
LEMMA ResumedInv == ASSUME IInv, NEW h \in HoldIds, Resumed(h) PROVE IInv'
<1>1. TypeOK /\ SaleTyped /\ Quote /\ OnScreenToo
  BY DEF IInv
<1>2. /\ UNCHANGED <<catalogVars, products, sale>> /\ UNCHANGED products
      /\ UNCHANGED <<orderType, orderDiscount, deliveryInfo, heldOrders, holding, dialog>>
      /\ h \in fetching /\ fetching' = fetching \ {h}
  BY DEF Resumed, orderVars
<1>3. CASE UNCHANGED <<cart, memo, resuming, grand, quoted, overtaken>> /\ Forget
  <2>1. fetching' \cup resuming' \subseteq HoldIds
    BY <1>1, <1>2, <1>3 DEF TypeOK
  <2>2. Quote'
    BY <1>1, <1>2, <1>3 DEF Quote, Fee
  <2>3. OnScreenToo'
    BY <1>1, <1>2, <1>3 DEF OnScreenToo, Forget, Settled
  <2> QED
    BY <1>1, <1>2, <1>3, <2>1, <2>2, <2>3, HoldStep DEF TypeOK, SaleTyped
<1>4. CASE /\ cart' = heldOrders[h] /\ resuming' = resuming \cup {h}
           /\ UNCHANGED disturbed /\ Reprice /\ Overtake
  <2>1. cart' \in Seq(Line) /\ fetching' \cup resuming' \subseteq HoldIds
    BY <1>1, <1>2, <1>4 DEF TypeOK
  <2>2. OnScreenToo'
    BY <1>1, <1>2, <1>4 DEF OnScreenToo
  <2>3. quoted' \in Bases /\ overtaken' \in BOOLEAN /\ grand' \in Int /\ Quote'
    BY <1>1, <1>2, <1>4, <2>1, OvertakeStep DEF TypeOK
  <2> QED
    BY <1>1, <1>2, <1>4, <2>1, <2>2, <2>3, HoldStep DEF TypeOK
<1> QED
  BY <1>3, <1>4 DEF Resumed

LEMMA ResumeDoneInv == ASSUME IInv, NEW h \in HoldIds, ResumeDone(h) PROVE IInv'
<1>1. TypeOK /\ SaleTyped /\ Quote /\ OnScreenToo
  BY DEF IInv
<1>2. /\ UNCHANGED <<catalogVars, products, sale>> /\ UNCHANGED <<grand, quoted, overtaken>>
      /\ UNCHANGED <<cart, orderType, orderDiscount, deliveryInfo, memo, holding, fetching>>
      /\ h \in resuming /\ resuming' = resuming \ {h}
      /\ heldOrders' = [heldOrders EXCEPT ![h] = <<>>]
      /\ dialog' = IF dialog = "hold" THEN "none" ELSE dialog
      /\ Forget
  BY DEF ResumeDone, orderVars, payVars
<1>3. heldOrders' \in [HoldIds -> Seq(Line)] /\ fetching' \cup resuming' \subseteq HoldIds
  <2>1. <<>> \in Seq(Line)
    BY EmptySeq
  <2> QED
    BY <1>1, <1>2, <2>1 DEF TypeOK
<1>4. OnScreenToo'
  <2>1. CASE fetching' = {} /\ resuming' = {}
    BY <2>1 DEF OnScreenToo
  <2>2. CASE ~(fetching' = {} /\ resuming' = {})
    <3>1. disturbed
      BY <1>1, <1>2, <2>2 DEF OnScreenToo
    <3>2. disturbed'
      BY <1>2, <2>2, <3>1 DEF Forget, Settled
    <3> QED
      BY <3>2 DEF OnScreenToo
  <2> QED
    BY <2>1, <2>2
<1>5. Quote'
  BY <1>1, <1>2 DEF Quote, Fee
<1> QED
  BY <1>1, <1>2, <1>3, <1>4, <1>5, HoldStep DEF TypeOK, SaleTyped

\* The answer to a payment
LEMMA AnswerInv == ASSUME IInv, Answer PROVE IInv'
<1>1. TypeOK /\ SaleTyped /\ Memo /\ Quote /\ OnScreenToo
  BY DEF IInv
<1>2. /\ UNCHANGED <<catalogVars, products>> /\ UNCHANGED <<menu, settings, edits, products>>
      /\ UNCHANGED <<heldOrders, holding, fetching, resuming>>
      /\ sale' = NoSale /\ sale # NoSale
  BY DEF Answer, catalogVars, holdVars
<1>3. NoSale \in Sales /\ NoSale.lines \in Seq(Line) /\ NoBasis \in Bases
  BY NothingTyped
<1>4. Charged'
  BY <1>2 DEF Charged
<1>5. CASE /\ ClearCart /\ Touch /\ Reprice
           /\ \/ Overtake /\ UNCHANGED dialog
              \/ dialog' = "none" /\ grand' = 0 /\ quoted' = NoBasis /\ overtaken' = FALSE
  <2>1. /\ cart' \in Seq(Line) /\ orderType' \in {"takeaway", "delivery"} /\ orderType' = orderType
        /\ orderDiscount' \in Nat /\ deliveryInfo' \in Fees \cup {NoFee}
    BY <1>1, <1>5, Cleared DEF ClearCart
  <2>2. Memo' /\ memo' \in Int
    BY <1>1, <1>2, <1>5, <2>1, MemoStep
  <2>3. OnScreenToo'
    BY <1>1, <1>2, <1>5 DEF OnScreenToo, Touch
  <2>4. /\ quoted' \in Bases /\ overtaken' \in BOOLEAN /\ grand' \in Int /\ Quote'
        /\ dialog' \in {"none", "hold", "pay"}
    <3>1. CASE Overtake /\ UNCHANGED dialog
      BY <1>1, <1>2, <2>1, <3>1, OvertakeStep DEF TypeOK
    <3>2. CASE dialog' = "none" /\ grand' = 0 /\ quoted' = NoBasis /\ overtaken' = FALSE
      <4>1. Quote'
        BY <3>2 DEF Quote
      <4>2. overtaken' \in BOOLEAN
        BY <3>2
      <4>3. quoted' \in Bases /\ grand' \in Int /\ dialog' \in {"none", "hold", "pay"}
        BY <1>3, <3>2
      <4> QED
        BY <4>1, <4>2, <4>3
    <3> QED
      BY <1>5, <3>1, <3>2
  <2>5. TypeOK' /\ SaleTyped'
    BY <1>1, <1>2, <1>3, <2>1, <2>2, <2>4 DEF TypeOK, SaleTyped, Bases
  <2> QED
    BY <1>4, <2>2, <2>3, <2>4, <2>5 DEF IInv
<1>6. CASE UNCHANGED <<cart, orderVars, memo, dialog, grand, quoted, overtaken, disturbed>>
  <2>1. /\ UNCHANGED <<cart, orderType, orderDiscount, deliveryInfo, memo, dialog>>
        /\ UNCHANGED <<grand, quoted, overtaken, disturbed>>
    BY <1>6 DEF orderVars
  <2>2. TypeOK' /\ SaleTyped'
    BY <1>1, <1>2, <1>3, <2>1 DEF TypeOK, SaleTyped
  <2>3. Quote' /\ Memo' /\ OnScreenToo'
    BY <1>1, <1>2, <2>1 DEF Quote, Memo, OnScreenToo, Fee
  <2> QED
    BY <1>4, <2>2, <2>3 DEF IInv
<1> QED
  BY <1>5, <1>6 DEF Answer

\* The catalogue changes below the screen, and quoted is not the catalogue.
LEMMA CatalogStep ==
    ASSUME IInv, UNCHANGED <<cart, orderVars, memo, holdVars, dialog, payVars, disturbed>>,
           menu' \in Catalogs, products' \in Catalogs, settings' \in Rates,
           edits' \in 0..MaxEdits, Memo'
    PROVE  IInv'
<1>1. TypeOK /\ SaleTyped /\ Quote /\ Charged /\ OnScreenToo
  BY DEF IInv
<1>2. /\ UNCHANGED <<cart, memo, dialog, disturbed, grand, quoted, overtaken, sale>>
      /\ UNCHANGED <<orderType, orderDiscount, deliveryInfo>>
      /\ UNCHANGED <<heldOrders, holding, fetching, resuming>>
  BY DEF orderVars, holdVars, payVars
<1>3. TypeOK'
  BY <1>1, <1>2 DEF TypeOK, Catalogs
<1>4. SaleTyped' /\ Quote' /\ Charged' /\ OnScreenToo'
  BY <1>1, <1>2 DEF SaleTyped, Quote, Charged, OnScreenToo, Fee
<1> QED
  BY <1>3, <1>4 DEF IInv

LEMMA EditsInv ==
    ASSUME IInv,
           \/ \E i \in Items : \E price \in NewPrices[i] : EditMenu(i, price)
           \/ \E rates \in Settings : EditSettings(rates)
    PROVE  IInv'
<1>1. TypeOK
  BY DEF IInv
<1>2. /\ UNCHANGED <<cart, orderVars, memo, holdVars, dialog, payVars, disturbed>>
      /\ products' = products /\ edits < MaxEdits /\ edits' = edits + 1
  BY DEF EditMenu, EditSettings
<1>3. edits' \in 0..MaxEdits /\ edits' # 0
  BY <1>1, <1>2, ConstantsAssumption DEF TypeOK
<1>4. menu' \in Catalogs /\ settings' \in Rates
  <2>1. CASE \E i \in Items : \E price \in NewPrices[i] : EditMenu(i, price)
    <3>1. PICK i \in Items : \E price \in NewPrices[i] : EditMenu(i, price)
      BY <2>1
    <3>2. PICK price \in NewPrices[i] : menu' = [menu EXCEPT ![i] = price] /\ settings' = settings
      BY <3>1 DEF EditMenu
    <3>3. price \in Nat \cup {Gone}
      BY <3>2, ConstantsAssumption
    <3> QED
      BY <1>1, <3>2, <3>3 DEF TypeOK, Catalogs
  <2>2. CASE \E rates \in Settings : EditSettings(rates)
    BY <1>1, <2>2, ConstantsAssumption DEF EditSettings, TypeOK, Catalogs
  <2> QED
    BY <2>1, <2>2
<1>5. Memo'
  BY <1>3 DEF Memo
<1> QED
  BY <1>1, <1>2, <1>3, <1>4, <1>5, CatalogStep DEF TypeOK, Catalogs

LEMMA LoadCatalogInv == ASSUME IInv, LoadCatalog PROVE IInv'
<1>1. TypeOK /\ Memo
  BY DEF IInv
<1>2. /\ UNCHANGED <<cart, orderVars, memo, holdVars, dialog, payVars, disturbed>>
      /\ UNCHANGED <<menu, settings, edits>>
      /\ products # menu /\ products' = menu
  BY DEF LoadCatalog, catalogVars
<1>3. Memo'
  BY <1>1, <1>2 DEF Memo
<1> QED
  BY <1>1, <1>2, <1>3, CatalogStep DEF TypeOK, Catalogs

\* So every step keeps it.
LEMMA NextInv == IInv /\ [Next]_vars => IInv'
<1> SUFFICES ASSUME IInv, [Next]_vars PROVE IInv'
  OBVIOUS
<1>1. CASE \/ \E i \in Items : AddProduct(i)
           \/ \E n \in DOMAIN cart, delta \in {-1, 1} : IncLine(n, delta)
           \/ \E n \in DOMAIN cart, cents \in LineDiscounts : SetLineDiscount(n, cents)
           \/ \E n \in DOMAIN cart : RemoveLine(n)
  BY <1>1, AddProductInv, IncLineInv, SetLineDiscountInv, RemoveLineInv
<1>2. CASE \/ \E t \in {"takeaway", "delivery"} : SetOrderType(t)
           \/ \E fee \in Fees : SetDeliveryInfo(fee)
           \/ \E cents \in OrderDiscounts : SetOrderDiscount(cents)
           \/ Cancel
  BY <1>2, SetOrderTypeInv, SetDeliveryInfoInv, SetOrderDiscountInv, CancelInv
<1>3. CASE OpenHold \/ CloseDialog \/ OpenPay \/ Answer
           \/ \E m \in Methods : Charge(m)
  BY <1>3, OpenHoldInv, CloseDialogInv, OpenPayInv, AnswerInv, ChargeInv
<1>4. CASE HoldDone \/ \E h \in HoldIds : HoldCurrent(h) \/ Resume(h) \/ Resumed(h) \/ ResumeDone(h)
  BY <1>4, HoldDoneInv, HoldCurrentInv, ResumeInv, ResumedInv, ResumeDoneInv
<1>5. CASE \/ \E i \in Items : \E price \in NewPrices[i] : EditMenu(i, price)
           \/ \E rates \in Settings : EditSettings(rates)
           \/ LoadCatalog
  BY <1>5, EditsInv, LoadCatalogInv
<1>6. CASE UNCHANGED vars
  <2>1. /\ UNCHANGED <<menu, settings, edits, products, cart, memo, dialog, disturbed>>
        /\ UNCHANGED <<orderType, orderDiscount, deliveryInfo>>
        /\ UNCHANGED <<heldOrders, holding, fetching, resuming, grand, quoted, overtaken, sale>>
    BY <1>6 DEF vars, catalogVars, orderVars, holdVars, payVars
  <2> QED
    BY <2>1 DEF IInv, TypeOK, SaleTyped, Quote, Charged, Memo, OnScreenToo, Fee
<1> QED
  BY <1>1, <1>2, <1>3, <1>4, <1>5, <1>6 DEF Next

LEMMA Invariance == Spec => []IInv
BY InitInv, NextInv, PTL DEF Spec

-------------------------------------------------------------------------------
(* What follows *)

\* The store, the parked carts and the open dialog hold what their types say.
THEOREM TypeCorrect == Spec => []TypeOK
<1>1. IInv => TypeOK
  BY DEF IInv
<1> QED
  BY <1>1, Invariance, PTL

\* Where the server has the prices of the dialog and no line is discounted below
\* nothing, both come to the same.
LEMMA SameTotal ==
    ASSUME TypeOK, NEW q \in Bases, Ordinary(q)
    PROVE  Due(q) = Net(q.lines, q.catalog, q.discount) + q.fee
<1>1. /\ q.lines \in Seq(Line) /\ q.catalog \in Catalogs /\ menu \in Catalogs
      /\ settings = BuiltIn /\ q.discount \in Nat /\ q.fee \in Int
  BY DEF TypeOK, Bases, Catalogs, Ordinary
<1>2. ASSUME NEW n \in DOMAIN q.lines
      PROVE  ResolvedTotal(q.lines[n])
               = q.lines[n].qty * PriceIn(q.catalog, q.lines[n].item) - q.lines[n].discount
  <2> DEFINE l == q.lines[n]
             price == PriceIn(menu, l.item)
  <2>1. l \in Line
    BY <1>1, LenProperties, ElementOfSeq
  <2>2. l.qty \in Int /\ l.discount \in Nat /\ price \in Int
    BY <1>1, <2>1 DEF Line, PriceIn, Catalogs
  <2>3. l.qty * price \in Int
    BY <2>2
  <2>4. l.discount <= l.qty * price /\ PriceIn(q.catalog, l.item) = price
    BY DEF Ordinary, PriceIn
  <2>5. Clamp(l.discount, 0, l.qty * price) = l.discount
    BY <2>2, <2>3, <2>4, ClampIs
  <2> QED
    BY <2>4, <2>5 DEF ResolvedTotal
<1>3. [n \in DOMAIN q.lines |-> ResolvedTotal(q.lines[n])] = LinesAt(q.lines, q.catalog)
  BY <1>2 DEF LinesAt
<1>4. Due(q) = ComputeTotals(LinesAt(q.lines, q.catalog), TaxedLines(q.lines), q.discount, BuiltIn,
                             q.fee)
  BY <1>1, <1>3 DEF Due
<1> QED
  BY <1>1, <1>4, NetAndFee

\* At ordinary prices the customer is charged what the server says is due for the
\* cart that the dialog was opened on, and for a delivery exactly one fee more;
\* and that is the cart that is sent, unless it was changed below the dialog.
THEOREM OneFeeTooMuch == Spec => ChargedIsDue
<1> DEFINE Right ==
      /\ Ordinary(sale.quoted) => sale.amount = Due(sale.quoted) + sale.fee
      /\ \/ sale.overtaken
         \/ <<sale.lines, sale.discount>> = <<sale.quoted.lines, sale.quoted.discount>>
<1>1. IInv /\ [Next]_vars => [Answer => Right]_vars
  <2> SUFFICES ASSUME IInv, Answer PROVE Right
    OBVIOUS
  <2>1. TypeOK /\ SaleTyped /\ Charged /\ sale # NoSale
    BY DEF IInv, Answer
  <2>2. ASSUME Ordinary(sale.quoted) PROVE sale.amount = Due(sale.quoted) + sale.fee
    <3>1. sale.amount = Net(sale.quoted.lines, sale.quoted.catalog, sale.quoted.discount)
                          + sale.quoted.fee + sale.quoted.fee
      BY <2>1 DEF Charged, Asks
    <3>2. sale.quoted.fee = sale.fee
      BY <2>1 DEF Charged
    <3>3. Due(sale.quoted) = Net(sale.quoted.lines, sale.quoted.catalog, sale.quoted.discount)
                               + sale.quoted.fee
      <4>1. PICK q \in Bases : q = sale.quoted
        BY <2>1 DEF SaleTyped, Sales
      <4>2. Ordinary(q)
        BY <2>2, <4>1
      <4>3. Due(q) = Net(q.lines, q.catalog, q.discount) + q.fee
        BY <2>1, <4>2, SameTotal
      <4> QED
        BY <4>1, <4>3
    <3> QED
      BY <3>1, <3>2, <3>3
  <2>3. \/ sale.overtaken
        \/ <<sale.lines, sale.discount>> = <<sale.quoted.lines, sale.quoted.discount>>
    BY <2>1 DEF Charged
  <2> QED
    BY <2>2, <2>3
<1> QED
  BY <1>1, Invariance, PTL DEF Spec, ChargedIsDue

\* Until the first edit of the day the button says what the server will ask for,
\* or a delivery fee more.
THEOREM ButtonCoversDue == Spec => ButtonShowsDue
<1> DEFINE Shown == \E fee \in Fees \cup {0} :
                      ButtonAmount = fee + Due([lines |-> cart, discount |-> orderDiscount, fee |-> Fee])
           Asked == OpenPay /\ edits = 0 /\ \A n \in DOMAIN cart : LineTotal(cart[n]) >= 0
<1>1. IInv /\ [Next]_vars => [Asked => Shown]_vars
  <2> SUFFICES ASSUME IInv, edits = 0, \A n \in DOMAIN cart : LineTotal(cart[n]) >= 0
               PROVE  Shown
    OBVIOUS
  <2> DEFINE s == [lines |-> cart, discount |-> orderDiscount, fee |-> Fee]
  <2>1. TypeOK /\ menu = Price /\ products = Price /\ settings = BuiltIn
    BY DEF IInv, Memo
  <2>2. PICK fee \in Fees \cup {0} : memo = Net(cart, Price, orderDiscount) + fee
    BY DEF IInv, Memo
  <2>3. cart \in Seq(Line) /\ Price \in Catalogs /\ orderDiscount \in Nat /\ Fee \in Int
    BY <2>1, FeeIsNat DEF TypeOK, Catalogs
  <2>4. ASSUME NEW n \in DOMAIN cart
        PROVE  ResolvedTotal(cart[n])
                 = cart[n].qty * PriceIn(Price, cart[n].item) - cart[n].discount
    <3> DEFINE l == cart[n]
               price == PriceIn(Price, l.item)
    <3>1. l \in Line
      BY <2>3, LenProperties, ElementOfSeq
    <3>2. l.qty \in Int /\ l.discount \in Nat /\ price \in Int
      BY <2>3, <3>1 DEF Line, PriceIn, Catalogs
    <3>3. l.qty * price \in Int
      BY <3>2
    <3>4. l.discount <= l.qty * price
      BY <2>1, <3>2, <3>3 DEF LineTotal
    <3>5. Clamp(l.discount, 0, l.qty * price) = l.discount
      BY <3>2, <3>3, <3>4, ClampIs
    <3> QED
      BY <2>1, <3>5 DEF ResolvedTotal
  <2>5. [n \in DOMAIN cart |-> ResolvedTotal(cart[n])] = LinesAt(cart, Price)
    BY <2>4 DEF LinesAt
  <2>6. Due(s) = ComputeTotals(LinesAt(cart, Price), TaxedLines(cart), orderDiscount, BuiltIn, Fee)
    BY <2>1, <2>5 DEF Due
  <2>7. /\ Net(cart, Price, orderDiscount) \in Int
        /\ Due(s) = Net(cart, Price, orderDiscount) + Fee
    BY <2>3, <2>6, NetAndFee
  <2>8. fee \in Int
    BY ConstantsAssumption
  <2>9. ButtonAmount = fee + Due(s)
    BY <2>2, <2>3, <2>7, <2>8 DEF ButtonAmount
  <2> QED
    BY <2>9
<1> QED
  BY <1>1, Invariance, PTL DEF Spec, ButtonShowsDue

\* A hold or a resume that nothing disturbed loses nothing but what was on the
\* screen: the row it deletes is there.
THEOREM CartsAreKept == Spec => CartsKept
<1> DEFINE Kept == (heldOrders' # heldOrders \/ holding' < holding \/ fetching' # fetching) =>
                     Carts \ Carts' \subseteq {cart} \/ disturbed
<1>1. IInv /\ [Next]_vars => [Kept]_vars
  <2> SUFFICES ASSUME IInv, Next PROVE Kept
    OBVIOUS
  <2>1. TypeOK /\ OnScreenToo
    BY DEF IInv
  <2>2. CASE heldOrders' = heldOrders
    BY <2>2 DEF Carts
  <2>3. CASE \E h \in HoldIds : HoldCurrent(h)
    <3>1. PICK h \in HoldIds : HoldCurrent(h)
      BY <2>3
    <3>2. cart' = cart /\ heldOrders[h] = <<>> /\ \A i \in HoldIds : i # h => heldOrders'[i] = heldOrders[i]
      BY <2>1, <3>1 DEF HoldCurrent, TypeOK
    <3> QED
      BY <3>2 DEF Carts
  <2>4. CASE \E h \in HoldIds : ResumeDone(h)
    <3>1. PICK h \in HoldIds : ResumeDone(h)
      BY <2>4
    <3>2. h \in resuming /\ cart' = cart /\ \A i \in HoldIds : i # h => heldOrders'[i] = heldOrders[i]
      BY <2>1, <3>1 DEF ResumeDone, TypeOK
    <3>3. disturbed \/ heldOrders[h] = cart
      BY <2>1, <3>2 DEF OnScreenToo
    <3>4. CASE heldOrders[h] = cart
      BY <3>2, <3>4 DEF Carts
    <3> QED
      BY <3>3, <3>4
  <2>5. CASE ~ \E h \in HoldIds : HoldCurrent(h) \/ ResumeDone(h)
    <3>1. heldOrders' = heldOrders
      BY <2>5 DEF Next, AddProduct, IncLine, SetLineDiscount, RemoveLine, SetOrderType,
                  SetDeliveryInfo, SetOrderDiscount, Cancel, OrderOnly, OpenHold, CloseDialog,
                  HoldDone, Resume, Resumed, OpenPay, Charge, Answer, EditMenu, EditSettings,
                  LoadCatalog, holdVars
    <3> QED
      BY <2>2, <3>1
  <2> QED
    BY <2>3, <2>4, <2>5
<1> QED
  BY <1>1, Invariance, PTL DEF Spec, CartsKept
===============================================================================
