---------------------------- MODULE PosTabletProofs ----------------------------
(***************************************************************************)
(* Theorems about one till, for every number of customers, charges, lost   *)
(* messages, refusals and reloads, and whichever orders the server refuses. *)
(***************************************************************************)
EXTENDS PosTablet, SetFacts, SequenceTheorems, TLAPS

-------------------------------------------------------------------------------
(* The inductive invariant *)

\* Every charge has queued a row for its own sale, which was on the screen.
Numbered ==
    /\ Len(rows) <= MaxCharges
    /\ \A i \in DOMAIN rows : rows[i].sale \in begun
    /\ cart \in begun \cup {NoSale}

\* The server has every order once.
Stored ==
    /\ created \in Seq(DOMAIN rows)
    /\ \A k, l \in DOMAIN created : created[k] = created[l] => k = l

\* A charge that sends its payment has seen its order acknowledged.
PayingIsStored == \A i \in DOMAIN charges : charges[i].at = "paying" => Contains(created, i)

\* A pass has only rows left that are not acknowledged, and of the rows older
\* than one it has left it has left none behind but those that were refused.
Sending ==
    /\ \A i \in sync.rest : rows[i].state # "acked"
    /\ \A i \in sync.rest : \A j \in DOMAIN rows :
         j < i => j \in sync.rest \/ Contains(created, j) \/ rows[j].state = "failed"

\* The sets of tickets that were queued without the tablet knowing of it: all of
\* a row that is not acknowledged, all but one of a row that is.
Unheard(i) == IF i \in DOMAIN rows /\ rows[i].state = "acked" THEN kitchen[i] - 1 ELSE kitchen[i]
Spare == UNION {{i} \X (1 .. Unheard(i)) : i \in Ids}

\* Each of them has cost a lost answer or a handler that failed.
Tickets ==
    /\ \A i \in DOMAIN rows : rows[i].state = "acked" => kitchen[i] >= 1
    /\ \A i \in Ids : kitchen[i] > 0 => Contains(created, i)
    /\ IsFiniteSet(Spare) /\ Cardinality(Spare) <= losses

\* A charge that has neither failed nor gone away with the page or its dialog.
Kept(i) == charges[i].at \notin {"failed", "gone"} /\ i \notin left

\* The one that runs is the one the dialog shows, and the sale on the screen is
\* its own or cleared away; a finished sale is not on the screen any more; and a
\* sale has at most one such charge.
OneCharge ==
    /\ \A i \in DOMAIN charges : Kept(i) /\ charges[i].at \in Running =>
          dialog = [open |-> TRUE, charge |-> i] /\ cart \in {charges[i].sale, NoSale}
    /\ \A i \in DOMAIN charges : Kept(i) /\ charges[i].at \in {"done", "offline"} =>
          cart # charges[i].sale
    /\ \A i, j \in DOMAIN charges :
          charges[i].sale = charges[j].sale /\ Kept(i) /\ Kept(j) => i = j

IInv ==
    /\ TypeOK /\ Numbered /\ Stored /\ DoneIsPaid /\ PayingIsStored
    /\ Sending /\ Tickets /\ OneCharge

-------------------------------------------------------------------------------
(* Facts about the rows and the orders at the server *)

RowSet == [sale : Sales, state : {"pending", "acked", "failed"}]
ChargeSet == [sale : Sales, at : Ended \cup Running]

\* Rows and charges have the same numbers, which are ids.
LEMMA RowNumbers ==
    ASSUME TypeOK, Numbered
    PROVE  /\ Len(rows) \in Nat /\ Len(charges) = Len(rows)
           /\ DOMAIN rows = 1..Len(rows) /\ DOMAIN charges = 1..Len(rows)
           /\ DOMAIN rows \subseteq Ids /\ Ids \subseteq Nat
           /\ rows \in Seq(RowSet) /\ charges \in Seq(ChargeSet)
           /\ \A i \in DOMAIN rows : rows[i] \in RowSet /\ charges[i] \in ChargeSet
<1>1. rows \in Seq(RowSet) /\ charges \in Seq(ChargeSet) /\ Len(charges) = Len(rows)
  BY DEF TypeOK, RowSet, ChargeSet
<1>2. /\ Len(rows) \in Nat
      /\ DOMAIN rows = 1..Len(rows) /\ DOMAIN charges = 1..Len(rows)
      /\ \A i \in DOMAIN rows : rows[i] \in RowSet /\ charges[i] \in ChargeSet
  BY <1>1, LenProperties, ElementOfSeq
<1>3. Len(rows) <= MaxCharges /\ MaxCharges \in Nat
  BY TabletAssumption DEF Numbered
<1> QED
  BY <1>1, <1>2, <1>3 DEF Ids

\* A new state keeps the rest of the row, and the other rows.
LEMMA RowWritten ==
    ASSUME TypeOK, Numbered, NEW i \in DOMAIN rows, NEW st \in {"pending", "acked", "failed"},
           UpdateRow(i, st)
    PROVE  /\ rows' \in Seq(RowSet)
           /\ Len(rows') = Len(rows) /\ DOMAIN rows' = DOMAIN rows
           /\ \A j \in DOMAIN rows :
                /\ rows'[j].sale = rows[j].sale
                /\ rows'[j].state = IF i = j THEN st ELSE rows[j].state
<1> DEFINE row == [rows[i] EXCEPT !.state = st]
<1>1. row \in RowSet /\ row.sale = rows[i].sale /\ row.state = st
  BY RowNumbers DEF RowSet
<1>2. rows' = [rows EXCEPT ![i] = row]
  BY DEF UpdateRow
<1> HIDE DEF row
<1>3. rows \in Seq(RowSet) /\ i \in 1..Len(rows)
  BY RowNumbers
<1>4. /\ rows' \in Seq(RowSet)
      /\ Len(rows') = Len(rows)
      /\ \A j \in 1..Len(rows) : rows'[j] = IF i = j THEN row ELSE rows[j]
  BY <1>1, <1>2, <1>3, ExceptSeq
<1> QED
  BY <1>1, <1>3, <1>4, LenProperties, RowNumbers

\* The same of the charges.
LEMMA ChargeWritten ==
    ASSUME TypeOK, Numbered, NEW i \in DOMAIN charges,
           NEW at \in Ended \cup Running,
           charges' = [charges EXCEPT ![i].at = at]
    PROVE  /\ charges' \in Seq(ChargeSet)
           /\ Len(charges') = Len(charges) /\ DOMAIN charges' = DOMAIN charges
           /\ \A j \in DOMAIN charges :
                /\ charges'[j].sale = charges[j].sale
                /\ charges'[j].at = IF i = j THEN at ELSE charges[j].at
<1> DEFINE row == [charges[i] EXCEPT !.at = at]
<1>1. row \in ChargeSet /\ row.sale = charges[i].sale /\ row.at = at
  BY RowNumbers DEF ChargeSet
<1>2. charges' = [charges EXCEPT ![i] = row]
  OBVIOUS
<1> HIDE DEF row
<1>3. charges \in Seq(ChargeSet) /\ i \in 1..Len(charges)
  BY RowNumbers
<1>4. /\ charges' \in Seq(ChargeSet)
      /\ Len(charges') = Len(charges)
      /\ \A j \in 1..Len(charges) : charges'[j] = IF i = j THEN row ELSE charges[j]
  BY <1>1, <1>2, <1>3, ExceptSeq
<1> QED
  BY <1>1, <1>3, <1>4, LenProperties, RowNumbers

\* The server's createOrder keeps what is stored and adds the order once.
LEMMA CreatedOnce ==
    ASSUME TypeOK, Numbered, Stored, NEW i \in DOMAIN rows, CreateOnce(i), DOMAIN rows' = DOMAIN rows,
           \A j \in DOMAIN rows : rows'[j].sale = rows[j].sale
    PROVE  /\ Stored'
           /\ \A j : Contains(created', j) <=> Contains(created, j) \/ j = i
<1>1. created \in Seq(DOMAIN rows) /\ Len(created) \in Nat /\ DOMAIN created = 1..Len(created)
  BY LenProperties DEF Stored
<1>2. CASE Contains(created, i)
  BY <1>1, <1>2 DEF CreateOnce, Stored
<1>3. CASE ~ Contains(created, i)
  <2>1. created' = Append(created, i)
    BY <1>3 DEF CreateOnce
  <2>2. /\ created' \in Seq(DOMAIN rows)
        /\ Len(created') = Len(created) + 1
        /\ \A k \in 1..Len(created) : created'[k] = created[k]
        /\ created'[Len(created) + 1] = i
    BY <1>1, <2>1, AppendProperties
  <2>3. DOMAIN created' = 1..(Len(created) + 1)
    BY <2>2, LenProperties
  <2>4. \A k \in 1..Len(created) : created[k] # i
    BY <1>3 DEF Contains
  <2>5. \A j : Contains(created', j) <=> Contains(created, j) \/ j = i
    <3>1. \A k : k \in 1..Len(created') <=> k \in 1..Len(created) \/ k = Len(created) + 1
      BY <1>1, <2>2
    <3> QED
      BY <2>2, <3>1 DEF Contains
  <2>6. \A k, l \in DOMAIN created' : created'[k] = created'[l] => k = l
    BY <1>1, <2>2, <2>3, <2>4 DEF Stored
  <2>7. created' \in Seq(DOMAIN rows')
    BY <2>2
  <2>8. Stored'
    BY ONLY <2>6, <2>7 DEF Stored
  <2> QED
    BY <2>5, <2>8
<1> QED
  BY <1>2, <1>3

-------------------------------------------------------------------------------
(* Each step keeps the invariant *)

\* No order, no row and no tickets: the invariant holds when the page is opened.
LEMMA Starts == Init => IInv
<1> SUFFICES ASSUME Init PROVE IInv
  OBVIOUS
<1> USE DEF Init
<1>1. rows = <<>> /\ charges = <<>> /\ created = <<>> /\ Len(<<>>) = 0 /\ DOMAIN <<>> = {}
  OBVIOUS
<1>2. TypeOK
  BY <1>1, TabletAssumption, EmptySeq DEF TypeOK, Closed, Starting
<1>3. Numbered /\ Stored /\ PayingIsStored /\ OneCharge
  BY <1>1, TabletAssumption, EmptySeq DEF Numbered, Stored, PayingIsStored, OneCharge
<1>4. DoneIsPaid
  BY <1>1 DEF DoneIsPaid
<1>5. Sending
  BY <1>1 DEF Sending, Starting
<1>6. Spare = {}
  BY <1>1 DEF Spare, Unheard
<1>7. IsFiniteSet({}) /\ Cardinality({}) = 0
  BY FS_EmptySet, Zenon
<1>8. Tickets
  BY <1>1, <1>6, <1>7 DEF Tickets
<1> QED
  BY <1>2, <1>3, <1>4, <1>5, <1>8 DEF IInv

\* A step that leaves the queue, the pass and the server's orders alone keeps
\* what the invariant says of them.
LEMMA QueueKept ==
    ASSUME IInv, UNCHANGED <<rows, created, kitchen, sync, losses>>
    PROVE  Stored' /\ Sending' /\ Tickets'
<1>1. Stored'
  BY DEF IInv, Stored
<1>2. Sending'
  BY DEF IInv, Sending
<1>3. Tickets'
  BY DEF IInv, Tickets, Spare, Unheard
<1> QED
  BY <1>1, <1>2, <1>3

\* A step that leaves the till alone, and the numbers and sales of the rows,
\* keeps what the invariant says of the till.
LEMMA TillKept ==
    ASSUME IInv, UNCHANGED <<cart, begun, dialog, charges, left>>,
           Len(rows') = Len(rows), DOMAIN rows' = DOMAIN rows,
           \A i \in DOMAIN rows : rows'[i].sale = rows[i].sale
    PROVE  Numbered' /\ OneCharge'
<1>1. Numbered'
  BY DEF IInv, Numbered
<1>2. OneCharge'
  BY DEF IInv, OneCharge, Kept
<1> QED
  BY <1>1, <1>2

\* The rows a pass has left, once it has gone past row i.
LEMMA RowPassed ==
    ASSUME IInv, NEW i \in sync.rest, \A j \in sync.rest : i <= j,
           sync' = AfterRow(i), DOMAIN rows' = DOMAIN rows,
           \A j \in DOMAIN rows :
             /\ rows'[j].sale = rows[j].sale
             /\ j # i => rows'[j].state = rows[j].state,
           \A j : Contains(created, j) => Contains(created', j),
           Contains(created', i) \/ rows'[i].state = "failed"
    PROVE  Sending'
<1>1. sync.rest \subseteq DOMAIN rows
  BY DEF IInv, TypeOK
<1>2. sync'.rest = sync.rest \ {i}
  BY DEF AfterRow
<1>3. \A j \in sync'.rest : rows'[j].state # "acked"
  BY <1>1, <1>2 DEF IInv, Sending
<1>4. ASSUME NEW j \in sync'.rest, NEW k \in DOMAIN rows, k < j
      PROVE  k \in sync'.rest \/ Contains(created', k) \/ rows'[k].state = "failed"
  BY <1>1, <1>2, <1>4 DEF IInv, Sending
<1> QED
  BY <1>3, <1>4 DEF Sending

LEMMA StepSyncTick == IInv /\ SyncTick => IInv'
<1> SUFFICES ASSUME IInv, SyncTick PROVE IInv'
  OBVIOUS
<1>0. /\ UNCHANGED <<cart, begun, dialog, charges, left, rows, online, up, created, paid, kitchen, losses, troubles>>
      /\ sync' = Starting
  BY DEF SyncTick, SyncNow, server, Starting
<1>1. TypeOK'
  BY <1>0 DEF IInv, TypeOK, Starting
<1>2. Numbered' /\ OneCharge'
  BY <1>0, TillKept
<1>3. Stored' /\ DoneIsPaid' /\ PayingIsStored' /\ Tickets'
  BY <1>0 DEF IInv, Stored, DoneIsPaid, PayingIsStored, Tickets, Spare, Unheard
<1>4. Sending'
  BY <1>0 DEF Sending, Starting
<1> QED
  BY <1>1, <1>2, <1>3, <1>4 DEF IInv

\* A pass reads every row that is not acknowledged, so all older ones are stored.
LEMMA StepSyncHealth ==
    ASSUME IInv, NEW lost \in BOOLEAN, SyncHealth(lost)
    PROVE  IInv'
<1>0. UNCHANGED <<cart, begun, dialog, charges, left, rows, up, created, paid, kitchen, troubles>>
  BY DEF SyncHealth, server
<1>1. losses' \in 0..MaxLosses /\ losses <= losses'
  BY TabletAssumption DEF IInv, TypeOK, SyncHealth
<1>2. sync' = [at |-> "replay", rest |-> ToReplay] \/ sync' = Resting
  BY DEF SyncHealth
<1>3. online' \in BOOLEAN
  BY DEF SyncHealth, IInv, TypeOK
<1>4. TypeOK'
  BY <1>0, <1>1, <1>2, <1>3 DEF IInv, TypeOK, ToReplay, Resting
<1>5. Numbered' /\ OneCharge'
  BY <1>0, TillKept
<1>6. Stored' /\ DoneIsPaid' /\ PayingIsStored'
  BY <1>0 DEF IInv, Stored, DoneIsPaid, PayingIsStored
<1>7. Tickets'
  <2>1. Cardinality(Spare) \in Nat /\ losses \in Nat /\ losses' \in Nat
    BY <1>1, FS_CardinalityType, TabletAssumption DEF IInv, Tickets, TypeOK
  <2>2. Spare' = Spare
    BY <1>0 DEF Spare, Unheard
  <2> QED
    BY <1>0, <1>1, <2>1, <2>2 DEF IInv, Tickets
<1>8. Sending'
  <2>1. CASE sync' = Resting
    BY <2>1 DEF Sending, Resting
  <2>2. CASE sync' = [at |-> "replay", rest |-> ToReplay]
    <3>1. sync'.rest = ToReplay
      BY <2>2
    <3>2. \A j \in DOMAIN rows : j \in ToReplay \/ Contains(created, j)
      BY RowNumbers DEF ToReplay, IInv, DoneIsPaid, RowSet
    <3>3. \A j \in ToReplay : rows[j].state # "acked"
      BY DEF ToReplay
    <3> QED
      BY <1>0, <3>1, <3>2, <3>3 DEF Sending
  <2> QED
    BY <1>2, <2>1, <2>2
<1> QED
  BY <1>4, <1>5, <1>6, <1>7, <1>8 DEF IInv

LEMMA StepSyncCatalog ==
    ASSUME IInv, NEW lost \in BOOLEAN, SyncCatalog(lost)
    PROVE  IInv'
<1>0. /\ UNCHANGED <<cart, begun, dialog, charges, left, rows, up, created, paid, kitchen, troubles>>
      /\ sync' = Resting
  BY DEF SyncCatalog, server
<1>1. losses' \in 0..MaxLosses /\ losses <= losses' /\ online' \in BOOLEAN
  BY TabletAssumption DEF IInv, TypeOK, SyncCatalog
<1>2. TypeOK'
  BY <1>0, <1>1 DEF IInv, TypeOK, Resting
<1>3. Numbered' /\ OneCharge'
  BY <1>0, TillKept
<1>4. Stored' /\ DoneIsPaid' /\ PayingIsStored'
  BY <1>0 DEF IInv, Stored, DoneIsPaid, PayingIsStored
<1>5. Tickets'
  <2>1. Cardinality(Spare) \in Nat /\ losses \in Nat /\ losses' \in Nat
    BY <1>1, FS_CardinalityType, TabletAssumption DEF IInv, Tickets, TypeOK
  <2>2. Spare' = Spare
    BY <1>0 DEF Spare, Unheard
  <2> QED
    BY <1>0, <1>1, <2>1, <2>2 DEF IInv, Tickets
<1>6. Sending'
  BY <1>0 DEF Sending, Resting
<1> QED
  BY <1>2, <1>3, <1>4, <1>5, <1>6 DEF IInv

\* One more set of tickets, with what is left of the queue unchanged by it.
LEMMA KitchenWritten ==
    ASSUME IInv, NEW i \in Ids, PrintTickets(i)
    PROVE  /\ kitchen' \in [Ids -> Nat]
           /\ \A j \in Ids : kitchen'[j] = IF j = i THEN kitchen[i] + 1 ELSE kitchen[j]
BY DEF IInv, TypeOK, PrintTickets

\* The row the pass takes is the oldest it has left.
LEMMA OldestRow ==
    ASSUME IInv, sync.rest # {}
    PROVE  /\ Min(sync.rest) \in sync.rest /\ \A j \in sync.rest : Min(sync.rest) <= j
           /\ Min(sync.rest) \in DOMAIN rows /\ Min(sync.rest) \in Ids
<1>1. sync.rest \subseteq DOMAIN rows
  BY DEF IInv, TypeOK
<1>2. DOMAIN rows \subseteq Ids /\ Ids \subseteq Nat
  BY RowNumbers DEF IInv
<1> QED
  BY <1>1, <1>2, MinIsLeast

\* The answer arrives: the tickets the row had in advance are accounted for.
LEMMA RowAnswered ==
    ASSUME IInv, NEW i \in sync.rest, i \in DOMAIN rows, i \in Ids,
           \A j \in sync.rest : i <= j,
           CreateOnce(i), PrintTickets(i),
           UpdateRow(i, "acked"), sync' = AfterRow(i),
           UNCHANGED <<cart, begun, dialog, charges, left, online, up, paid, losses, troubles>>
    PROVE  IInv'
<1>1. /\ rows' \in Seq(RowSet)
      /\ Len(rows') = Len(rows) /\ DOMAIN rows' = DOMAIN rows
      /\ \A j \in DOMAIN rows :
           /\ rows'[j].sale = rows[j].sale
           /\ rows'[j].state = IF i = j THEN "acked" ELSE rows[j].state
  BY RowWritten DEF IInv
<1>2. Stored' /\ \A j : Contains(created', j) <=> Contains(created, j) \/ j = i
  BY <1>1, CreatedOnce DEF IInv
<1>3. /\ kitchen' \in [Ids -> Nat]
      /\ \A j \in Ids : kitchen'[j] = IF j = i THEN kitchen[i] + 1 ELSE kitchen[j]
  BY KitchenWritten
<1>4. TypeOK'
  BY <1>1, <1>3 DEF IInv, TypeOK, AfterRow, RowSet
<1>5. Numbered' /\ OneCharge'
  BY <1>1, TillKept
<1>6. DoneIsPaid' /\ PayingIsStored'
  BY <1>1, <1>2 DEF IInv, DoneIsPaid, PayingIsStored
<1>7. Sending'
  BY <1>1, <1>2, RowPassed
<1>8. Tickets'
  <2>1. rows[i].state # "acked" /\ kitchen \in [Ids -> Nat] /\ DOMAIN rows \subseteq Ids
    BY RowNumbers DEF IInv, Sending, TypeOK
  <2>2. \A j \in Ids : Unheard(j)' = Unheard(j)
    BY <1>1, <1>3, <2>1 DEF Unheard
  <2>3. Spare' = Spare
    BY <2>2 DEF Spare
  <2>4. \A j \in DOMAIN rows' : rows'[j].state = "acked" => kitchen'[j] >= 1
    BY <1>1, <1>3, <2>1 DEF IInv, Tickets
  <2>5. \A j \in Ids : kitchen'[j] > 0 => Contains(created', j)
    BY <1>2, <1>3 DEF IInv, Tickets
  <2> QED
    BY <2>3, <2>4, <2>5 DEF IInv, Tickets
<1> QED
  BY <1>2, <1>4, <1>5, <1>6, <1>7, <1>8 DEF IInv

\* A refused row stays, as failed, and the pass goes on behind it; the order may
\* have been stored before the handler failed.
LEMMA RowRefused ==
    ASSUME IInv, NEW i \in sync.rest, i \in DOMAIN rows, i \in Ids,
           \A j \in sync.rest : i <= j,
           CreateOnce(i) \/ UNCHANGED created,
           UpdateRow(i, "failed"), sync' = AfterRow(i),
           losses' \in {losses, losses + 1}, losses' <= MaxLosses,
           troubles' \in {troubles, troubles + 1}, troubles' <= MaxTroubles,
           UNCHANGED <<cart, begun, dialog, charges, left, online, up, paid, kitchen>>
    PROVE  IInv'
<1>1. /\ rows' \in Seq(RowSet)
      /\ Len(rows') = Len(rows) /\ DOMAIN rows' = DOMAIN rows
      /\ \A j \in DOMAIN rows :
           /\ rows'[j].sale = rows[j].sale
           /\ rows'[j].state = IF i = j THEN "failed" ELSE rows[j].state
  BY RowWritten DEF IInv
<1>2. /\ losses \in Nat /\ losses' \in 0..MaxLosses /\ losses <= losses'
      /\ troubles' \in 0..MaxTroubles
  BY TabletAssumption DEF IInv, TypeOK
<1>3. Stored' /\ \A j : Contains(created, j) => Contains(created', j)
  <2>1. CASE CreateOnce(i)
    BY <1>1, <2>1, CreatedOnce DEF IInv
  <2>2. CASE UNCHANGED created
    BY <1>1, <2>2 DEF IInv, Stored, Contains
  <2> QED
    BY <2>1, <2>2
<1>4. TypeOK'
  BY <1>1, <1>2 DEF IInv, TypeOK, AfterRow, RowSet
<1>5. Numbered' /\ OneCharge'
  BY <1>1, TillKept
<1>6. DoneIsPaid' /\ PayingIsStored'
  BY <1>1, <1>3 DEF IInv, DoneIsPaid, PayingIsStored
<1>7. Sending'
  BY <1>1, <1>3, RowPassed
<1>8. Tickets'
  <2>1. rows[i].state # "acked"
    BY DEF IInv, Sending
  <2>2. \A j \in Ids : Unheard(j)' = Unheard(j)
    BY <1>1, <2>1 DEF Unheard
  <2>3. Spare' = Spare
    BY <2>2 DEF Spare
  <2>4. Cardinality(Spare) \in Nat
    BY FS_CardinalityType DEF IInv, Tickets
  <2>5. Cardinality(Spare) <= losses'
    BY <1>2, <2>4, TabletAssumption DEF IInv, Tickets
  <2> QED
    BY <1>1, <1>3, <2>3, <2>5 DEF IInv, Tickets
<1> QED
  BY <1>3, <1>4, <1>5, <1>6, <1>7, <1>8 DEF IInv

\* No answer, and nothing done: the pass is over.
LEMMA RowUnsent ==
    ASSUME IInv, sync' = Resting, online' \in BOOLEAN, up' \in BOOLEAN,
           losses' \in {losses, losses + 1}, losses' <= MaxLosses,
           UNCHANGED <<cart, begun, dialog, charges, left, rows, created, paid, kitchen, troubles>>
    PROVE  IInv'
<1>1. losses \in Nat /\ losses' \in 0..MaxLosses /\ losses <= losses'
  BY TabletAssumption DEF IInv, TypeOK
<1>2. TypeOK'
  BY <1>1 DEF IInv, TypeOK, Resting
<1>3. Numbered' /\ OneCharge'
  BY TillKept
<1>4. Stored' /\ DoneIsPaid' /\ PayingIsStored'
  BY DEF IInv, Stored, DoneIsPaid, PayingIsStored
<1>5. Sending'
  BY DEF Sending, Resting
<1>6. Tickets'
  <2>1. Cardinality(Spare) \in Nat
    BY FS_CardinalityType DEF IInv, Tickets
  <2>2. Spare' = Spare
    BY DEF Spare, Unheard
  <2> QED
    BY <1>1, <2>1, <2>2, TabletAssumption DEF IInv, Tickets
<1> QED
  BY <1>2, <1>3, <1>4, <1>5, <1>6 DEF IInv

\* The answer is lost, or the server dies once it has stored the order: what was
\* printed meanwhile is paid for by the loss.
LEMMA RowUnheard ==
    ASSUME IInv, NEW i \in DOMAIN rows, i \in Ids, rows[i].state # "acked",
           CreateOnce(i), PrintTickets(i) \/ UNCHANGED kitchen,
           sync' = Resting, online' = FALSE, up' \in BOOLEAN,
           losses < MaxLosses, losses' = losses + 1,
           UNCHANGED <<cart, begun, dialog, charges, left, rows, paid, troubles>>
    PROVE  IInv'
<1>1. losses \in Nat /\ losses' \in 0..MaxLosses
  BY TabletAssumption DEF IInv, TypeOK
<1>2. Stored' /\ \A j : Contains(created', j) <=> Contains(created, j) \/ j = i
  BY CreatedOnce DEF IInv
<1>3. /\ kitchen' \in [Ids -> Nat] /\ kitchen \in [Ids -> Nat]
      /\ \/ UNCHANGED kitchen
         \/ \A j \in Ids : kitchen'[j] = IF j = i THEN kitchen[i] + 1 ELSE kitchen[j]
  BY KitchenWritten DEF IInv, TypeOK
<1>4. TypeOK'
  BY <1>1, <1>3 DEF IInv, TypeOK, Resting
<1>5. Numbered' /\ OneCharge'
  BY TillKept
<1>6. DoneIsPaid' /\ PayingIsStored'
  BY <1>2 DEF IInv, DoneIsPaid, PayingIsStored
<1>7. Sending'
  BY DEF Sending, Resting
<1>8. Tickets'
  <2> DEFINE more == <<i, kitchen[i] + 1>>
  <2>1. Spare' = Spare \/ Spare' = Spare \cup {more}
    <3>1. CASE UNCHANGED kitchen
      BY <3>1 DEF Spare, Unheard
    <3>2. CASE \A j \in Ids : kitchen'[j] = IF j = i THEN kitchen[i] + 1 ELSE kitchen[j]
      <4>1. Unheard(i) = kitchen[i] /\ Unheard(i)' = kitchen[i] + 1
        BY <3>2 DEF Unheard
      <4>2. \A j \in Ids \ {i} : Unheard(j)' = Unheard(j)
        BY <3>2 DEF Unheard
      <4>3. kitchen[i] \in Nat /\ 1 .. (kitchen[i] + 1) = (1 .. kitchen[i]) \cup {kitchen[i] + 1}
        BY <1>3
      <4>4. {i} \X (1 .. (kitchen[i] + 1)) = ({i} \X (1 .. kitchen[i])) \cup {more}
        BY <4>3
      <4>5. Spare' = UNION {{j} \X (1 .. (Unheard(j)')) : j \in Ids}
        BY DEF Spare
      <4>6. \A x : x \in Spare' <=> \E j \in Ids : x \in {j} \X (1 .. (Unheard(j)'))
        BY <4>5
      <4>7. \A x : x \in Spare <=> \E j \in Ids : x \in {j} \X (1 .. Unheard(j))
        BY DEF Spare
      <4>8. \A x : x \in Spare' <=> x \in Spare \cup {more}
        BY <4>1, <4>2, <4>4, <4>6, <4>7
      <4> QED
        BY <4>8
    <3> QED
      BY <1>3, <3>1, <3>2
  <2> HIDE DEF more
  <2>2. IsFiniteSet(Spare) /\ Cardinality(Spare) \in Nat
    BY FS_CardinalityType DEF IInv, Tickets
  <2>3. /\ IsFiniteSet(Spare \cup {more})
        /\ Cardinality(Spare \cup {more}) \in {Cardinality(Spare), Cardinality(Spare) + 1}
    BY <2>2, FS_AddElement
  <2>4. IsFiniteSet(Spare') /\ Cardinality(Spare') <= losses'
    <3>1. Cardinality(Spare) <= losses
      BY DEF IInv, Tickets
    <3>2. CASE Spare' = Spare
      BY <1>1, <2>2, <3>1, <3>2
    <3>3. CASE Spare' = Spare \cup {more}
      BY <1>1, <2>2, <2>3, <3>1, <3>3
    <3> QED
      BY <2>1, <3>2, <3>3
  <2>5. \A j \in DOMAIN rows' : rows'[j].state = "acked" => kitchen'[j] >= 1
    BY <1>3, RowNumbers DEF IInv, Tickets
  <2>6. \A j \in Ids : kitchen'[j] > 0 => Contains(created', j)
    BY <1>2, <1>3 DEF IInv, Tickets
  <2> QED
    BY <2>4, <2>5, <2>6 DEF Tickets
<1> QED
  BY <1>2, <1>4, <1>5, <1>6, <1>7, <1>8 DEF IInv

\* A step of the pass at a row ends in one of these ways.
LEMMA StepSyncPost ==
    ASSUME IInv, NEW outcome \in Outcomes, SyncPost(outcome)
    PROVE  IInv'
<1> DEFINE i == Min(sync.rest)
<1>1. sync.rest # {}
  BY DEF SyncPost
<1>2. /\ i \in sync.rest /\ \A j \in sync.rest : i <= j
      /\ i \in DOMAIN rows /\ i \in Ids
  BY <1>1, OldestRow
<1>3. rows[i].state # "acked"
  BY <1>2 DEF IInv, Sending
<1>4. UNCHANGED <<cart, begun, dialog, charges, left, paid>>
  BY DEF SyncPost
<1>5. /\ losses \in Nat /\ losses <= MaxLosses /\ MaxLosses \in Nat
      /\ losses < MaxLosses => losses + 1 <= MaxLosses
      /\ up \in BOOLEAN
  BY TabletAssumption DEF IInv, TypeOK
<1> HIDE DEF i
<1>r. /\ troubles \in Nat /\ troubles <= MaxTroubles /\ MaxTroubles \in Nat
      /\ troubles < MaxTroubles => troubles + 1 <= MaxTroubles
  BY TabletAssumption DEF IInv, TypeOK
<1> DEFINE answered ==
             /\ CreateOnce(i) /\ PrintTickets(i)
             /\ UpdateRow(i, "acked") /\ sync' = AfterRow(i)
             /\ UNCHANGED <<online, losses, troubles, up>>
           refused ==
             /\ CreateOnce(i) \/ UNCHANGED created
             /\ UpdateRow(i, "failed") /\ sync' = AfterRow(i)
             /\ losses' = losses \/ (losses < MaxLosses /\ losses' = losses + 1)
             /\ troubles' = troubles \/ (troubles < MaxTroubles /\ troubles' = troubles + 1)
             /\ UNCHANGED <<kitchen, online, up>>
           unsent ==
             /\ online' = FALSE /\ sync' = Resting
             /\ losses' = losses \/ (losses < MaxLosses /\ losses' = losses + 1)
             /\ UNCHANGED <<rows, created, kitchen, troubles, up>>
           unheard ==
             /\ losses < MaxLosses /\ losses' = losses + 1
             /\ CreateOnce(i) /\ (PrintTickets(i) \/ UNCHANGED kitchen)
             /\ online' = FALSE /\ sync' = Resting /\ up' \in {up, FALSE}
             /\ UNCHANGED <<rows, troubles>>
<1>6. answered \/ refused \/ unsent \/ unheard
  <2> HIDE DEF answered, refused, unsent, unheard
  <2>1. ASSUME outcome = "ok" PROVE answered
    BY <2>1 DEF SyncPost, i, answered
  <2>2. ASSUME outcome = "refused" PROVE refused
    BY <2>2 DEF SyncPost, i, AfterRefusal, refused
  <2>3. ASSUME outcome = "broke" PROVE refused
    BY <2>3 DEF SyncPost, i, AfterRefusal, refused
  <2>4. ASSUME outcome = "down" PROVE unsent
    BY <2>4 DEF SyncPost, i, AfterNoAnswer, unsent
  <2>5. ASSUME outcome = "answer lost" PROVE unsent \/ unheard
    <3>1. CASE rows[i].sale \in Hopeless
      BY <2>5, <3>1 DEF SyncPost, i, AfterNoAnswer, unsent
    <3>2. CASE rows[i].sale \notin Hopeless
      BY <2>5, <3>2 DEF SyncPost, i, AfterNoAnswer, unheard
    <3> QED
      BY <3>1, <3>2
  <2>6. ASSUME outcome = "server died" PROVE unheard
    BY <2>6 DEF SyncPost, i, AfterNoAnswer, unheard
  <2> QED
    BY <2>1, <2>2, <2>3, <2>4, <2>5, <2>6 DEF Outcomes
<1>7. CASE answered
  BY <1>2, <1>4, <1>7, RowAnswered
<1>8. CASE refused
  <2>1. /\ losses' \in {losses, losses + 1} /\ losses' <= MaxLosses
        /\ troubles' \in {troubles, troubles + 1} /\ troubles' <= MaxTroubles
    BY <1>5, <1>r, <1>8
  <2> QED
    BY <1>2, <1>4, <1>8, <2>1, RowRefused
<1>9. CASE unsent
  <2>1. online' \in BOOLEAN /\ up' \in BOOLEAN
    BY <1>5, <1>9
  <2>2. losses' \in {losses, losses + 1} /\ losses' <= MaxLosses
    BY <1>5, <1>9
  <2>3. sync' = Resting
    BY <1>9
  <2>4. UNCHANGED <<cart, begun, dialog, charges, left, rows, created, paid, kitchen, troubles>>
    BY <1>4, <1>9
  <2> QED
    BY <2>1, <2>2, <2>3, <2>4, RowUnsent
<1>10. CASE unheard
  BY <1>2, <1>3, <1>4, <1>5, <1>10, RowUnheard
<1> QED
  BY <1>6, <1>7, <1>8, <1>9, <1>10

-------------------------------------------------------------------------------
(* The till *)

\* The sale is new: no charge is for it yet.
LEMMA StepStartSale ==
    ASSUME IInv, NEW s \in Sales, StartSale(s)
    PROVE  IInv'
<1>0. /\ UNCHANGED <<dialog, charges, left, rows, online, sync, up, created, paid, kitchen, losses, troubles>>
      /\ cart' = s /\ begun' = begun \cup {s} /\ ~dialog.open /\ s \notin begun
  BY DEF StartSale, server
<1>1. TypeOK' /\ Numbered'
  BY <1>0 DEF IInv, TypeOK, Numbered
<1>2. Stored' /\ Sending' /\ Tickets'
  BY <1>0, QueueKept
<1>3. DoneIsPaid' /\ PayingIsStored'
  BY <1>0 DEF IInv, DoneIsPaid, PayingIsStored
<1>4. OneCharge'
  <2>1. \A i \in DOMAIN charges : charges[i].sale # s
    <3>1. DOMAIN charges = DOMAIN rows
      BY RowNumbers DEF IInv
    <3>2. \A i \in DOMAIN rows : charges[i].sale = rows[i].sale
      BY DEF IInv, TypeOK
    <3>3. \A i \in DOMAIN rows : rows[i].sale \in begun
      BY DEF IInv, Numbered
    <3> QED
      BY <1>0, <3>1, <3>2, <3>3
  <2>2. ASSUME NEW i \in DOMAIN charges, Kept(i) PROVE charges[i].at \notin Running
    BY <1>0, <2>2 DEF IInv, OneCharge
  <2>3. \A i \in DOMAIN charges : Kept(i)' = Kept(i)
    BY <1>0 DEF Kept
  <2> QED
    BY <1>0, <2>1, <2>2, <2>3 DEF IInv, OneCharge
<1> QED
  BY <1>1, <1>2, <1>3, <1>4 DEF IInv

\* While the dialog is closed no charge is under way but those it left.
LEMMA StepCancelCart ==
    ASSUME IInv, CancelCart
    PROVE  IInv'
<1>0. /\ UNCHANGED <<begun, dialog, charges, left, rows, online, sync, up, created, paid, kitchen, losses, troubles>>
      /\ cart' = NoSale /\ ~dialog.open
  BY DEF CancelCart, server
<1>1. TypeOK' /\ Numbered'
  BY <1>0 DEF IInv, TypeOK, Numbered
<1>2. Stored' /\ Sending' /\ Tickets'
  BY <1>0, QueueKept
<1>3. DoneIsPaid' /\ PayingIsStored'
  BY <1>0 DEF IInv, DoneIsPaid, PayingIsStored
<1>4. OneCharge'
  <2>1. \A i \in DOMAIN charges : charges[i].sale # NoSale
    BY RowNumbers, TabletAssumption DEF IInv, ChargeSet
  <2>2. ASSUME NEW i \in DOMAIN charges, Kept(i) PROVE charges[i].at \notin Running
    BY <1>0, <2>2 DEF IInv, OneCharge
  <2>3. \A i \in DOMAIN charges : Kept(i)' = Kept(i)
    BY <1>0 DEF Kept
  <2> QED
    BY <1>0, <2>1, <2>2, <2>3 DEF IInv, OneCharge
<1> QED
  BY <1>1, <1>2, <1>3, <1>4 DEF IInv

LEMMA StepDialog ==
    ASSUME IInv, OpenDialog \/ CloseDialog
    PROVE  IInv'
<1>0. /\ UNCHANGED <<cart, begun, charges, rows, online, sync, up, created, paid, kitchen, losses, troubles>>
      /\ dialog' \in {Closed, [open |-> TRUE, charge |-> 0]}
      /\ left \subseteq left'
  BY DEF OpenDialog, CloseDialog, server
<1>1. TypeOK' /\ Numbered'
  <2>1. 0 \in 0..Len(charges)
    BY RowNumbers DEF IInv
  <2>2. /\ Closed \in [open : BOOLEAN, charge : 0..Len(charges)]
        /\ [open |-> TRUE, charge |-> 0] \in [open : BOOLEAN, charge : 0..Len(charges)]
    BY <2>1, Zenon DEF Closed
  <2>3. dialog' \in [open : BOOLEAN, charge : 0..Len(charges)]
    BY <1>0, <2>2, Zenon
  <2>4. left' \subseteq DOMAIN charges
    <3>1. left \subseteq DOMAIN charges /\ dialog.charge \in 0..Len(charges)
      BY DEF IInv, TypeOK
    <3>2. dialog.charge # 0 => dialog.charge \in DOMAIN charges
      BY <3>1, RowNumbers DEF IInv
    <3> QED
      BY <3>1, <3>2 DEF OpenDialog, CloseDialog, Busy
  <2> QED
    BY <1>0, <2>3, <2>4 DEF IInv, TypeOK, Numbered
<1>2. Stored' /\ Sending' /\ Tickets'
  BY <1>0, QueueKept
<1>3. DoneIsPaid' /\ PayingIsStored'
  BY <1>0 DEF IInv, DoneIsPaid, PayingIsStored
<1>4. OneCharge'
  <2>1. ASSUME NEW i \in DOMAIN charges, Kept(i)' PROVE Kept(i) /\ charges[i].at \notin Running
    <3>1. Kept(i)
      BY <1>0, <2>1 DEF Kept
    <3>2. SUFFICES ASSUME charges[i].at \in Running PROVE FALSE
      BY <3>1
    <3>3. dialog = [open |-> TRUE, charge |-> i] /\ i # 0
      BY <3>1, <3>2, RowNumbers DEF IInv, OneCharge
    <3>4. Busy
      BY <3>2, <3>3 DEF Busy, Running, Ended
    <3>5. i \in left'
      BY <3>3, <3>4 DEF OpenDialog, CloseDialog
    <3> QED
      BY <2>1, <3>5 DEF Kept
  <2> QED
    BY <1>0, <2>1 DEF IInv, OneCharge
<1> QED
  BY <1>1, <1>2, <1>3, <1>4 DEF IInv

\* One more row and one more charge, both of the sale on the screen.
LEMMA Queued ==
    ASSUME IInv, Charge
    PROVE  /\ rows' \in Seq(RowSet) /\ charges' \in Seq(ChargeSet)
           /\ Len(rows') = Len(rows) + 1 /\ Len(charges') = Len(rows) + 1
           /\ DOMAIN rows' = 1..(Len(rows) + 1) /\ DOMAIN charges' = 1..(Len(rows) + 1)
           /\ Len(rows) + 1 \in Ids
           /\ \A i \in DOMAIN rows : rows'[i] = rows[i] /\ charges'[i] = charges[i]
           /\ rows'[Len(rows) + 1] = [sale |-> cart, state |-> "pending"]
           /\ charges'[Len(rows) + 1] = [sale |-> cart, at |-> IF online THEN "polling" ELSE "queueing"]
<1> DEFINE row == [sale |-> cart, state |-> "pending"]
           charge == [sale |-> cart, at |-> IF online THEN "polling" ELSE "queueing"]
<1>1. cart \in Sales
  BY DEF IInv, TypeOK, Charge
<1>2. row \in RowSet /\ charge \in ChargeSet
  BY <1>1 DEF RowSet, ChargeSet, Running
<1>3. rows' = Append(rows, row) /\ charges' = Append(charges, charge)
  BY DEF Charge, NewRow
<1>4. /\ rows \in Seq(RowSet) /\ charges \in Seq(ChargeSet)
      /\ Len(charges) = Len(rows) /\ DOMAIN rows = 1..Len(rows) /\ Len(rows) \in Nat
  BY RowNumbers DEF IInv
<1>5. Len(rows) + 1 \in Ids
  BY <1>4, TabletAssumption DEF Charge, Ids
<1> HIDE DEF row, charge
<1>6. /\ rows' \in Seq(RowSet) /\ Len(rows') = Len(rows) + 1
      /\ \A i \in 1..Len(rows) : rows'[i] = rows[i]
      /\ rows'[Len(rows) + 1] = row
  BY <1>2, <1>3, <1>4, AppendProperties
<1>7. /\ charges' \in Seq(ChargeSet) /\ Len(charges') = Len(charges) + 1
      /\ \A i \in 1..Len(charges) : charges'[i] = charges[i]
      /\ charges'[Len(charges) + 1] = charge
  BY <1>2, <1>3, <1>4, AppendProperties
<1>8. DOMAIN rows' = 1..(Len(rows) + 1) /\ DOMAIN charges' = 1..(Len(rows) + 1)
  BY <1>4, <1>6, <1>7, LenProperties
<1> QED
  BY <1>4, <1>5, <1>6, <1>7, <1>8 DEF row, charge

\* The button works while no charge is under way, and the new row is younger
\* than all a pass has left.
LEMMA StepCharge ==
    ASSUME IInv, Charge
    PROVE  IInv'
<1> DEFINE n == Len(rows) + 1
<1>0. /\ UNCHANGED <<cart, begun, left, online, up, created, paid, kitchen, losses, troubles>>
      /\ dialog' = [open |-> TRUE, charge |-> n] /\ dialog.open
      /\ cart \in Sales
      /\ sync' = sync \/ sync' = Starting
  BY RowNumbers DEF Charge, Ready, server, SyncNow, IInv, TypeOK, Starting
<1>1. /\ Len(rows) \in Nat /\ DOMAIN rows = 1..Len(rows) /\ DOMAIN charges = 1..Len(rows)
      /\ DOMAIN rows' = 1..n /\ DOMAIN charges' = 1..n /\ n \in Ids
      /\ Len(rows') = n /\ Len(charges') = n
      /\ DOMAIN rows \subseteq Ids /\ n \notin DOMAIN rows
      /\ \A i \in DOMAIN rows' : i \in DOMAIN rows \/ i = n
  BY RowNumbers, Queued DEF IInv
<1>2. /\ rows' \in Seq(RowSet) /\ charges' \in Seq(ChargeSet)
      /\ \A i \in DOMAIN rows : rows'[i] = rows[i] /\ charges'[i] = charges[i]
      /\ rows'[n].sale = cart /\ rows'[n].state = "pending"
      /\ charges'[n].sale = cart
      /\ charges'[n].at \in {"queueing", "polling"}
  BY Queued
<1> HIDE DEF n
<1>3. \A i \in Ids : Contains(created, i) => i \in DOMAIN rows
  BY ElementOfSeq DEF IInv, Stored, Contains
<1>4. TypeOK'
  <2>1. sync' \in [at : {"idle", "health", "replay"}, rest : SUBSET DOMAIN rows']
    <3>1. sync \in [at : {"idle", "health", "replay"}, rest : SUBSET DOMAIN rows]
      BY DEF IInv, TypeOK
    <3>2. \A i \in DOMAIN rows : i \in DOMAIN rows'
      BY <1>1 DEF n
    <3>3. CASE sync' = sync
      BY <3>1, <3>2, <3>3
    <3>4. CASE sync' = Starting
      BY <3>4 DEF Starting
    <3> QED
      BY <1>0, <3>3, <3>4
  <2>2. \A i \in DOMAIN rows' : charges'[i].sale = rows'[i].sale
    <3>1. \A i \in DOMAIN rows : charges[i].sale = rows[i].sale
      BY DEF IInv, TypeOK
    <3> QED
      BY ONLY <1>1, <1>2, <3>1
  <2>3. dialog' \in [open : BOOLEAN, charge : 0..Len(charges')]
    BY <1>0, <1>1 DEF Ids
  <2>4. left' \subseteq DOMAIN charges'
    BY <1>0, <1>1 DEF IInv, TypeOK, n
  <2> QED
    BY <1>0, <1>1, <1>2, <2>1, <2>2, <2>3, <2>4 DEF IInv, TypeOK, RowSet, ChargeSet
<1>5. Numbered'
  <2>1. n <= MaxCharges
    BY <1>1, TabletAssumption DEF Ids
  <2>2. cart \in begun
    BY <1>0, TabletAssumption DEF IInv, Numbered
  <2> QED
    BY <1>0, <1>1, <1>2, <2>1, <2>2 DEF IInv, Numbered
<1>6. Stored'
  <2>1. created \in Seq(DOMAIN rows) /\ Len(created) \in Nat /\ DOMAIN created = 1..Len(created)
    BY LenProperties DEF IInv, Stored
  <2>2. \A k \in DOMAIN created : created[k] \in DOMAIN rows
    BY <2>1, ElementOfSeq
  <2>3. created \in Seq(DOMAIN rows')
    <3>1. DOMAIN rows \subseteq DOMAIN rows'
      BY <1>1 DEF n
    <3> QED
      BY <2>1, <3>1, SeqMonotonic
  <2> QED
    BY <1>0, <1>2, <2>2, <2>3 DEF IInv, Stored
<1>7. DoneIsPaid' /\ PayingIsStored'
  BY <1>0, <1>1, <1>2 DEF IInv, DoneIsPaid, PayingIsStored
<1>8. Sending'
  <2>1. \A i \in sync'.rest : i \in sync.rest
    BY <1>0 DEF Starting
  <2>2. \A i \in sync.rest : i \in DOMAIN rows /\ i < n
    BY <1>1 DEF IInv, TypeOK, n
  <2>3. CASE sync' = Starting
    BY <2>3 DEF Sending, Starting
  <2>4. CASE sync' = sync
    <3>1. ASSUME NEW i \in sync.rest PROVE rows'[i].state # "acked"
      BY <1>2, <2>2 DEF IInv, Sending
    <3>2. ASSUME NEW i \in sync.rest, NEW j \in DOMAIN rows', j < i
          PROVE  j \in sync.rest \/ Contains(created, j) \/ rows'[j].state = "failed"
      <4>1. j \in DOMAIN rows
        BY <1>1, <2>2, <3>2 DEF Ids
      <4> QED
        BY <1>2, <3>2, <4>1 DEF IInv, Sending
    <3> QED
      BY <1>0, <2>4, <3>1, <3>2 DEF Sending
  <2> QED
    BY <1>0, <2>3, <2>4
<1>9. Tickets'
  <2>1. \A j \in Ids : Unheard(j)' = Unheard(j)
    <3>1. \A j \in DOMAIN rows : j \in DOMAIN rows' /\ rows'[j].state = rows[j].state
      BY <1>1, <1>2 DEF n
    <3>2. \A j \in DOMAIN rows' : j \notin DOMAIN rows => rows'[j].state # "acked"
      BY <1>1, <1>2
    <3> QED
      BY <1>0, <3>1, <3>2 DEF Unheard
  <2>2. Spare' = Spare
    BY <2>1 DEF Spare
  <2>3. \A i \in DOMAIN rows' : rows'[i].state = "acked" => kitchen'[i] >= 1
    BY <1>0, <1>1, <1>2 DEF IInv, Tickets
  <2> QED
    BY <1>0, <2>2, <2>3 DEF IInv, Tickets
<1>10. OneCharge'
  <2>1. ASSUME NEW i \in DOMAIN charges, Kept(i) PROVE charges[i].at \notin Running
    <3>1. SUFFICES ASSUME charges[i].at \in Running PROVE FALSE
      OBVIOUS
    <3>2. dialog = [open |-> TRUE, charge |-> i] /\ i # 0
      BY <1>1, <2>1, <3>1 DEF IInv, OneCharge
    <3> QED
      BY <3>1, <3>2 DEF Charge, Ready, Running
  <2>2. ASSUME NEW i \in DOMAIN charges, charges[i].sale = cart PROVE ~ Kept(i)
    <3>1. charges[i].at \in {"failed", "done", "offline", "gone"} \cup Running
      BY <1>1, RowNumbers DEF IInv, ChargeSet, Ended
    <3>2. Kept(i) => charges[i].at \in {"done", "offline"}
      BY <2>1, <3>1 DEF Kept
    <3>3. OneCharge
      BY DEF IInv
    <3>4. Kept(i) => cart # charges[i].sale
      BY <3>2, <3>3 DEF OneCharge
    <3> QED
      BY <2>2, <3>4
  <2>3. \A i \in DOMAIN charges : Kept(i)' = Kept(i)
    BY <1>0, <1>1, <1>2 DEF Kept
  <2>4. ASSUME NEW i \in DOMAIN charges', Kept(i)', charges'[i].at \in Running
        PROVE  dialog' = [open |-> TRUE, charge |-> i] /\ cart' \in {charges'[i].sale, NoSale}
    BY <1>0, <1>1, <1>2, <2>1, <2>3, <2>4
  <2>5. ASSUME NEW i \in DOMAIN charges', Kept(i)', charges'[i].at \in {"done", "offline"}
        PROVE  cart' # charges'[i].sale
    BY <1>0, <1>1, <1>2, <2>2, <2>3, <2>5
  <2>6. ASSUME NEW i \in DOMAIN charges', NEW j \in DOMAIN charges',
               charges'[i].sale = charges'[j].sale, Kept(i)', Kept(j)'
        PROVE  i = j
    BY <1>1, <1>2, <2>2, <2>3, <2>6 DEF IInv, OneCharge
  <2> QED
    BY <2>4, <2>5, <2>6 DEF OneCharge
<1> QED
  BY <1>4, <1>5, <1>6, <1>7, <1>8, <1>9, <1>10 DEF IInv

\* A running charge goes on or ends: the screen is cleared only if it is done.
LEMMA ChargeMoved ==
    ASSUME IInv, NEW i \in DOMAIN charges, charges[i].at \in Running,
           NEW at \in {"paying", "failed", "done", "offline"},
           charges' = [charges EXCEPT ![i].at = at],
           cart' = IF at \in {"done", "offline"} THEN NoSale ELSE cart,
           UNCHANGED <<begun, dialog, left, rows>>
    PROVE  /\ charges' \in Seq(ChargeSet) /\ Len(charges') = Len(charges)
           /\ DOMAIN charges' = DOMAIN charges
           /\ \A j \in DOMAIN charges :
                /\ charges'[j].sale = charges[j].sale
                /\ charges'[j].at = IF i = j THEN at ELSE charges[j].at
           /\ Numbered' /\ OneCharge'
<1>1. /\ charges' \in Seq(ChargeSet)
      /\ Len(charges') = Len(charges) /\ DOMAIN charges' = DOMAIN charges
      /\ \A j \in DOMAIN charges :
           /\ charges'[j].sale = charges[j].sale
           /\ charges'[j].at = IF i = j THEN at ELSE charges[j].at
  <2>1. TypeOK /\ Numbered /\ at \in Ended \cup Running
    BY DEF IInv, Ended, Running
  <2> QED
    BY <2>1, ChargeWritten
<1>2. Numbered'
  BY DEF IInv, Numbered
<1>3. OneCharge'
  <2>1. \A j \in DOMAIN charges : Kept(j)' => Kept(j)
    BY <1>1 DEF Kept, Running
  <2>2. \A j \in DOMAIN charges : charges[j].sale # NoSale
    BY RowNumbers, TabletAssumption DEF IInv, ChargeSet
  <2>3. ASSUME NEW j \in DOMAIN charges', Kept(j)', charges'[j].at \in Running
        PROVE  dialog' = [open |-> TRUE, charge |-> j] /\ cart' \in {charges'[j].sale, NoSale}
    BY <1>1, <2>1, <2>3 DEF IInv, OneCharge
  <2>4. ASSUME NEW j \in DOMAIN charges', Kept(j)', charges'[j].at \in {"done", "offline"}
        PROVE  cart' # charges'[j].sale
    BY <1>1, <2>1, <2>2, <2>4 DEF IInv, OneCharge
  <2>5. ASSUME NEW j \in DOMAIN charges', NEW k \in DOMAIN charges',
               charges'[j].sale = charges'[k].sale, Kept(j)', Kept(k)'
        PROVE  j = k
    BY <1>1, <2>1, <2>5 DEF IInv, OneCharge
  <2> QED
    BY <2>3, <2>4, <2>5 DEF OneCharge
<1> QED
  BY <1>1, <1>2, <1>3

\* Offline the charge ends with the order in the queue: nothing was paid.
LEMMA StepSaleRecorded ==
    ASSUME IInv, NEW i \in Ids, SaleRecorded(i)
    PROVE  IInv'
<1>0. /\ UNCHANGED <<begun, dialog, left, rows, online, sync, up, created, paid, kitchen, losses, troubles>>
      /\ i \in DOMAIN charges /\ charges[i].at \in Running
      /\ charges' = [charges EXCEPT ![i].at = "offline"] /\ cart' = NoSale
  BY DEF SaleRecorded, server, Running
<1>1. /\ charges' \in Seq(ChargeSet) /\ Len(charges') = Len(charges)
      /\ DOMAIN charges' = DOMAIN charges
      /\ \A j \in DOMAIN charges :
           /\ charges'[j].sale = charges[j].sale
           /\ charges'[j].at = IF i = j THEN "offline" ELSE charges[j].at
      /\ Numbered' /\ OneCharge'
  BY <1>0, ChargeMoved
<1>2. TypeOK'
  BY <1>0, <1>1, RowNumbers DEF IInv, TypeOK, ChargeSet
<1>3. Stored' /\ Sending' /\ Tickets'
  BY <1>0, QueueKept
<1>4. DoneIsPaid' /\ PayingIsStored'
  BY <1>0, <1>1 DEF IInv, DoneIsPaid, PayingIsStored
<1> QED
  BY <1>1, <1>2, <1>3, <1>4 DEF IInv

LEMMA StepAcked ==
    ASSUME IInv, NEW i \in Ids, Acked(i)
    PROVE  IInv'
<1>0. /\ UNCHANGED <<cart, begun, dialog, left, rows, online, sync, up, created, paid, kitchen, losses, troubles>>
      /\ i \in DOMAIN charges /\ charges[i].at = "polling" /\ rows[i].state = "acked"
      /\ charges' = [charges EXCEPT ![i].at = "paying"]
  BY DEF Acked, IsAcked, server
<1>1. /\ charges' \in Seq(ChargeSet) /\ Len(charges') = Len(charges)
      /\ DOMAIN charges' = DOMAIN charges
      /\ \A j \in DOMAIN charges :
           /\ charges'[j].sale = charges[j].sale
           /\ charges'[j].at = IF i = j THEN "paying" ELSE charges[j].at
      /\ Numbered' /\ OneCharge'
  BY <1>0, ChargeMoved DEF Running
<1>2. TypeOK'
  BY <1>0, <1>1, RowNumbers DEF IInv, TypeOK, ChargeSet
<1>3. Stored' /\ Sending' /\ Tickets'
  BY <1>0, QueueKept
<1>4. Contains(created, i)
  BY <1>0, RowNumbers DEF IInv, DoneIsPaid
<1>5. DoneIsPaid' /\ PayingIsStored'
  BY <1>0, <1>1, <1>4 DEF IInv, DoneIsPaid, PayingIsStored
<1> QED
  BY <1>1, <1>2, <1>3, <1>5 DEF IInv

LEMMA StepPollTimeout ==
    ASSUME IInv, NEW i \in Ids, PollTimeout(i)
    PROVE  IInv'
<1>0. /\ UNCHANGED <<cart, begun, dialog, left, rows, online, sync, up, created, paid, kitchen, losses, troubles>>
      /\ i \in DOMAIN charges /\ charges[i].at = "polling"
      /\ charges' = [charges EXCEPT ![i].at = "failed"]
  BY DEF PollTimeout, CartAfterFailure, server
<1>1. /\ charges' \in Seq(ChargeSet) /\ Len(charges') = Len(charges)
      /\ DOMAIN charges' = DOMAIN charges
      /\ \A j \in DOMAIN charges :
           /\ charges'[j].sale = charges[j].sale
           /\ charges'[j].at = IF i = j THEN "failed" ELSE charges[j].at
      /\ Numbered' /\ OneCharge'
  BY <1>0, ChargeMoved DEF Running
<1>2. TypeOK'
  BY <1>0, <1>1, RowNumbers DEF IInv, TypeOK, ChargeSet
<1>3. Stored' /\ Sending' /\ Tickets'
  BY <1>0, QueueKept
<1>4. DoneIsPaid' /\ PayingIsStored'
  BY <1>0, <1>1 DEF IInv, DoneIsPaid, PayingIsStored
<1> QED
  BY <1>1, <1>2, <1>3, <1>4 DEF IInv

\* The server takes a payment once, and a charge that is done has seen it taken.
LEMMA StepPaySent ==
    ASSUME IInv, NEW i \in Ids, NEW outcome \in Outcomes, PaySent(i, outcome)
    PROVE  IInv'
<1>0. /\ UNCHANGED <<begun, dialog, left, rows, online, sync, up, created, kitchen, troubles>>
      /\ i \in DOMAIN charges /\ charges[i].at = "paying"
  BY DEF PaySent
<1>1. PICK at \in {"done", "failed"} :
        /\ charges' = [charges EXCEPT ![i].at = at]
        /\ cart' = IF at \in {"done", "offline"} THEN NoSale ELSE cart
        /\ at = "done" => PayOnce(i) /\ UNCHANGED losses
        /\ PayOnce(i) \/ UNCHANGED paid
        /\ losses' = losses \/ (losses < MaxLosses /\ losses' = losses + 1)
  <2>1. CASE outcome = "ok"
    BY <2>1 DEF PaySent, CartAfterPaid
  <2>2. CASE outcome # "ok"
    BY <2>2 DEF PaySent
  <2> QED
    BY <2>1, <2>2
<1>2. /\ charges' \in Seq(ChargeSet) /\ Len(charges') = Len(charges)
      /\ DOMAIN charges' = DOMAIN charges
      /\ \A j \in DOMAIN charges :
           /\ charges'[j].sale = charges[j].sale
           /\ charges'[j].at = IF i = j THEN at ELSE charges[j].at
      /\ Numbered' /\ OneCharge'
  <2>1. UNCHANGED <<begun, dialog, left, rows>> /\ i \in DOMAIN charges /\ charges[i].at \in Running
    BY <1>0 DEF Running
  <2>2. at \in {"paying", "failed", "done", "offline"}
    BY <1>1
  <2>3. /\ charges' = [charges EXCEPT ![i].at = at]
        /\ cart' = IF at \in {"done", "offline"} THEN NoSale ELSE cart
    BY <1>1
  <2> QED
    BY ONLY IInv, <2>1, <2>2, <2>3, ChargeMoved, ZenonT(40)
<1>3. Contains(created, i)
  BY <1>0 DEF IInv, PayingIsStored
<1>4. /\ paid \in [Ids -> Nat] /\ \A j \in Ids : paid[j] <= 1
      /\ paid' \in [Ids -> Nat]
      /\ \A j \in Ids : paid'[j] = paid[j] \/ paid'[j] = 1
      /\ PayOnce(i) => paid'[i] = 1
  <2>1. paid \in [Ids -> Nat] /\ \A j \in Ids : paid[j] <= 1
    BY DEF IInv, TypeOK, DoneIsPaid
  <2>2. PayOnce(i) => paid' = [paid EXCEPT ![i] = 1]
    <3>1. paid[i] = 0 \/ paid[i] = 1
      BY <2>1
    <3>2. PayOnce(i) => paid' = [paid EXCEPT ![i] = IF paid[i] = 0 THEN 1 ELSE paid[i]]
      BY ONLY <1>3 DEF PayOnce
    <3> QED
      BY ONLY <3>1, <3>2
  <2> QED
    BY ONLY i \in Ids, <1>1, <2>1, <2>2
<1>5. losses \in Nat /\ losses' \in 0..MaxLosses /\ losses <= losses'
  BY <1>1, TabletAssumption DEF IInv, TypeOK
<1>6. cart' \in Sales \cup {NoSale}
  BY <1>1 DEF IInv, TypeOK
<1>7. TypeOK'
  BY <1>0, <1>2, <1>4, <1>5, <1>6, RowNumbers DEF IInv, TypeOK, ChargeSet
<1>8. Stored' /\ Sending'
  BY <1>0 DEF IInv, Stored, Sending
<1>9. Tickets'
  <2>1. Cardinality(Spare) \in Nat
    BY FS_CardinalityType DEF IInv, Tickets
  <2>2. Spare' = Spare
    BY <1>0 DEF Spare, Unheard
  <2> QED
    BY <1>0, <1>5, <2>1, <2>2, TabletAssumption DEF IInv, Tickets
<1>10. DoneIsPaid'
  <2>1. \A j \in Ids : paid'[j] <= 1
    BY <1>4
  <2>2. ASSUME NEW j \in DOMAIN charges', charges'[j].at = "done" PROVE paid'[j] = 1
    <3>1. j \in Ids
      BY <1>2, RowNumbers DEF IInv
    <3>2. CASE j = i
      BY <1>1, <1>2, <1>4, <2>2, <3>2
    <3>3. CASE j # i
      BY <1>2, <1>4, <2>2, <3>1, <3>3 DEF IInv, DoneIsPaid
    <3> QED
      BY <3>2, <3>3
  <2> QED
    BY <1>0, <2>1, <2>2 DEF IInv, DoneIsPaid
<1>11. PayingIsStored'
  BY <1>0, <1>2 DEF IInv, PayingIsStored
<1> QED
  BY <1>2, <1>7, <1>8, <1>9, <1>10, <1>11 DEF IInv

LEMMA StepOutage == IInv /\ (Outage \/ WifiLost) => IInv'
<1> SUFFICES ASSUME IInv, Outage \/ WifiLost PROVE IInv'
  OBVIOUS
<1>0. UNCHANGED <<cart, begun, dialog, charges, left, rows, sync, created, paid, kitchen, losses, troubles>>
  BY DEF Outage, WifiLost, tablet, server
<1>1. up' \in BOOLEAN /\ online' \in BOOLEAN
  BY DEF Outage, WifiLost, tablet, server, IInv, TypeOK
<1>2. TypeOK' /\ Numbered' /\ OneCharge'
  BY <1>0, <1>1 DEF IInv, TypeOK, Numbered, OneCharge, Kept
<1>3. Stored' /\ Sending' /\ Tickets'
  BY <1>0, QueueKept
<1>4. DoneIsPaid' /\ PayingIsStored'
  BY <1>0 DEF IInv, DoneIsPaid, PayingIsStored
<1> QED
  BY <1>2, <1>3, <1>4 DEF IInv

\* What runs goes away with the page, and nothing is on the screen.
LEMMA StepReload == IInv /\ Reload => IInv'
<1> SUFFICES ASSUME IInv, Reload PROVE IInv'
  OBVIOUS
<1>0. /\ UNCHANGED <<begun, left, rows, up, created, paid, kitchen, losses>>
      /\ cart' = NoSale /\ dialog' = Closed /\ online' = TRUE /\ sync' = Starting
      /\ troubles' = troubles + 1 /\ troubles < MaxTroubles
  BY DEF Reload, server
<1>1. /\ DOMAIN charges' = DOMAIN charges /\ DOMAIN charges = 1..Len(charges) /\ Len(charges) \in Nat
      /\ \A i \in DOMAIN charges :
           /\ charges'[i] \in ChargeSet
           /\ charges'[i].sale = charges[i].sale
           /\ charges'[i].at = IF charges[i].at \in Ended THEN charges[i].at ELSE "gone"
  BY RowNumbers DEF IInv, Reload, ChargeSet, Ended
<1>2. charges' \in Seq(ChargeSet) /\ Len(charges') = Len(charges)
  <2>1. charges' \in [1..Len(charges) -> ChargeSet]
    BY <1>1 DEF Reload
  <2>2. charges' \in Seq(ChargeSet)
    BY <1>1, <2>1, SeqDef
  <2>3. Len(charges') \in Nat /\ DOMAIN charges' = 1..Len(charges')
    BY <2>2, LenProperties
  <2> QED
    BY <1>1, <2>2, <2>3
<1>3. TypeOK'
  <2>1. dialog' \in [open : BOOLEAN, charge : 0..Len(charges')]
    BY <1>0, <1>1, <1>2 DEF Closed
  <2>2. troubles' \in 0..MaxTroubles
    BY <1>0, TabletAssumption DEF IInv, TypeOK
  <2> QED
    BY <1>0, <1>1, <1>2, <2>1, <2>2, RowNumbers DEF IInv, TypeOK, ChargeSet, Starting
<1>4. Numbered' /\ Stored' /\ PayingIsStored'
  BY <1>0, <1>1 DEF IInv, Numbered, Stored, PayingIsStored, Ended
<1>5. DoneIsPaid'
  BY <1>0, <1>1 DEF IInv, DoneIsPaid, Ended
<1>6. Sending' /\ Tickets'
  BY <1>0 DEF IInv, Sending, Starting, Tickets, Spare, Unheard
<1>7. OneCharge'
  <2>1. \A i \in DOMAIN charges : charges[i].sale # NoSale
    BY RowNumbers, TabletAssumption DEF IInv, ChargeSet
  <2> QED
    BY <1>0, <1>1, <2>1 DEF IInv, OneCharge, Ended, Running, Kept
<1> QED
  BY <1>3, <1>4, <1>5, <1>6, <1>7 DEF IInv

-------------------------------------------------------------------------------
(* The invariants *)

\* Every behaviour of the till keeps the invariant.
LEMMA Invariance == Spec => []IInv
<1>1. IInv /\ [Next]_vars => IInv'
  <2> SUFFICES ASSUME IInv, [Next]_vars PROVE IInv'
    OBVIOUS
  <2>1. CASE Sync
    <3>1. CASE SyncTick
      BY <3>1, StepSyncTick
    <3>2. ASSUME NEW lost \in BOOLEAN, SyncHealth(lost) \/ SyncCatalog(lost) PROVE IInv'
      BY <3>2, StepSyncHealth, StepSyncCatalog
    <3>3. ASSUME NEW outcome \in Outcomes, SyncPost(outcome) PROVE IInv'
      BY <3>3, StepSyncPost
    <3> QED
      BY <2>1, <3>1, <3>2, <3>3 DEF Sync
  <2>2. CASE Till
    <3>1. ASSUME NEW s \in Sales, StartSale(s) PROVE IInv'
      BY <3>1, StepStartSale
    <3>2. CASE CancelCart \/ OpenDialog \/ CloseDialog \/ Charge
      BY <3>2, StepCancelCart, StepDialog, StepCharge
    <3>3. ASSUME NEW i \in Ids, SaleRecorded(i) \/ Acked(i) \/ PollTimeout(i) PROVE IInv'
      BY <3>3, StepSaleRecorded, StepAcked, StepPollTimeout
    <3>4. ASSUME NEW i \in Ids, NEW outcome \in Outcomes, PaySent(i, outcome) PROVE IInv'
      BY <3>4, StepPaySent
    <3> QED
      BY <2>2, <3>1, <3>2, <3>3, <3>4 DEF Till
  <2>3. CASE Outage \/ WifiLost
    BY <2>3, StepOutage
  <2>4. CASE Reload
    BY <2>4, StepReload
  <2>5. CASE UNCHANGED vars
    BY <2>5 DEF vars, tablet, server, IInv, TypeOK, Numbered, Stored, DoneIsPaid, PayingIsStored,
                Sending, Tickets, Spare, Unheard, OneCharge, Kept
  <2> QED
    BY <2>1, <2>2, <2>3, <2>4, <2>5 DEF Next
<1> QED
  BY <1>1, Starts, PTL DEF Spec

\* The state of the till, of its queue and of the server keeps its shape.
THEOREM TypeCorrect == Spec => []TypeOK
<1>1. IInv => TypeOK
  BY DEF IInv
<1> QED
  BY <1>1, Invariance, PTL

\* Through lost answers, outages and reloads: an order counts as acknowledged
\* only if the server has it, a payment is taken at most once, and a charge
\* that is shown as complete is paid.
THEOREM DoneMeansPaid == Spec => []DoneIsPaid
<1>1. IInv => DoneIsPaid
  BY DEF IInv
<1> QED
  BY <1>1, Invariance, PTL

\* The kitchen has the tickets of every acknowledged order, none of an order the
\* server does not have, and a second set only for an answer that got lost.
THEOREM KitchenHears == Spec => []KitchenTold
<1>1. IInv => KitchenTold
  <2> SUFFICES ASSUME IInv PROVE KitchenTold
    OBVIOUS
  <2>1. kitchen \in [Ids -> Nat] /\ \A i \in Ids : Unheard(i) \in {kitchen[i], kitchen[i] - 1}
    BY DEF IInv, TypeOK, Unheard
  <2>2. \A i \in Ids : 1 .. kitchen[i] - 1 \subseteq 1 .. Unheard(i)
    BY <2>1
  <2>3. MoreTickets \in SUBSET Spare
    BY <2>2 DEF MoreTickets, Spare
  <2>4. IsFiniteSet(Spare) /\ Cardinality(Spare) <= losses /\ losses \in Nat
    BY TabletAssumption DEF IInv, Tickets, TypeOK
  <2>5. /\ Cardinality(Spare) \in Nat /\ Cardinality(MoreTickets) \in Nat
        /\ Cardinality(MoreTickets) <= Cardinality(Spare)
    BY <2>3, <2>4, FS_Subset, FS_CardinalityType
  <2>6. Cardinality(MoreTickets) <= losses
    BY <2>4, <2>5
  <2> QED
    BY <2>6 DEF IInv, Tickets, KitchenTold
<1> QED
  BY <1>1, Invariance, PTL

\* A sale has at most one order more at the server than charges for it failed,
\* went away with the page or were left running with their dialog.
THEOREM OneOrderPerSale == Spec => []SecondOrderExplained
<1>1. IInv => SecondOrderExplained
  <2> SUFFICES ASSUME IInv, NEW s \in Sales
               PROVE  Cardinality(OrdersOf(s)) <=
                        1 + Cardinality({i \in DOMAIN charges :
                               /\ charges[i].sale = s
                               /\ charges[i].at \in {"failed", "gone"} \/ i \in left})
    BY DEF SecondOrderExplained
  <2> DEFINE bad == {i \in DOMAIN charges :
                       /\ charges[i].sale = s
                       /\ charges[i].at \in {"failed", "gone"} \/ i \in left}
             good == {i \in DOMAIN charges : charges[i].sale = s /\ Kept(i)}
  <2>1. DOMAIN charges = 1..Len(rows) /\ DOMAIN rows = 1..Len(rows) /\ Len(rows) \in Nat
    BY RowNumbers DEF IInv
  <2>2. IsFiniteSet(1..Len(rows)) /\ bad \in SUBSET (1..Len(rows))
    BY <2>1, FS_Interval
  <2>3. IsFiniteSet(bad) /\ Cardinality(bad) \in Nat
    BY <2>2, FS_Subset, FS_CardinalityType
  <2>4. \A i, j \in good : i = j
    BY DEF IInv, OneCharge
  <2>5. OrdersOf(s) \in SUBSET (good \cup bad)
    BY <2>1 DEF OrdersOf, IInv, TypeOK, Kept
  <2> HIDE DEF good, bad
  <2>6. IsFiniteSet(good) /\ Cardinality(good) <= 1 /\ Cardinality(good) \in Nat
    BY <2>4, AtMostOne, FS_CardinalityType
  <2>7. /\ IsFiniteSet(good \cup bad)
        /\ Cardinality(good \cup bad) = Cardinality(good) + Cardinality(bad) - Cardinality(good \cap bad)
        /\ Cardinality(good \cap bad) \in Nat
    BY <2>3, <2>6, FS_Union, FS_Intersection, FS_CardinalityType
  <2>8. /\ Cardinality(OrdersOf(s)) <= Cardinality(good \cup bad)
        /\ Cardinality(OrdersOf(s)) \in Nat
    BY <2>5, <2>7, FS_Subset, FS_CardinalityType
  <2>9. Cardinality(OrdersOf(s)) <= 1 + Cardinality(bad)
    BY <2>3, <2>6, <2>7, <2>8
  <2> QED
    BY <2>9 DEF bad
<1> QED
  BY <1>1, Invariance, PTL

\* A charge clears only the cart it was for, unless its dialog was left while it
\* was running.
THEOREM OwnCartOnly == Spec => ClearsOwnCart
<1> DEFINE Own == cart # NoSale /\ cart' # cart =>
              \/ CancelCart \/ Reload
              \/ \E i \in DOMAIN charges :
                   /\ charges[i].at \in Running /\ charges'[i].at \in {"done", "offline"}
                   /\ charges[i].sale = cart \/ i \in left
<1>1. IInv /\ [Next]_vars => [Own]_cart
  <2> SUFFICES ASSUME IInv, Next, cart # NoSale, cart' # cart, ~ CancelCart, ~ Reload
               PROVE  \E i \in DOMAIN charges :
                        /\ charges[i].at \in Running /\ charges'[i].at \in {"done", "offline"}
                        /\ charges[i].sale = cart \/ i \in left
    BY DEF vars, tablet
  <2>1. \/ \E i \in Ids : SaleRecorded(i)
        \/ \E i \in Ids, outcome \in Outcomes : PaySent(i, outcome)
    BY DEF Next, Sync, SyncTick, SyncHealth, SyncCatalog, SyncPost, Till, StartSale, OpenDialog,
           CloseDialog, Charge, Acked, PollTimeout, CartAfterFailure, Outage, WifiLost, tablet
  <2>2. PICK i \in DOMAIN charges, at \in {"done", "offline"} :
          charges[i].at \in Running /\ charges' = [charges EXCEPT ![i].at = at]
    <3>1. CASE \E i \in Ids : SaleRecorded(i)
      BY <3>1 DEF SaleRecorded, Running
    <3>2. CASE \E i \in Ids, outcome \in Outcomes : PaySent(i, outcome)
      BY <3>2 DEF PaySent, Running
    <3> QED
      BY <2>1, <3>1, <3>2
  <2>3. charges'[i].at = at
    <3>1. TypeOK /\ Numbered
      BY DEF IInv
    <3>2. at \in Ended \cup Running
      BY DEF Ended
    <3>3. \A j \in DOMAIN charges : charges'[j].at = IF i = j THEN at ELSE charges[j].at
      BY <2>2, <3>1, <3>2, ChargeWritten
    <3> QED
      BY ONLY <3>3, i \in DOMAIN charges
  <2>4. charges[i].sale = cart \/ i \in left
    BY <2>2 DEF IInv, OneCharge, Kept, Running
  <2> QED
    BY <2>2, <2>3, <2>4
<1> QED
  BY <1>1, Invariance, PTL DEF Spec, ClearsOwnCart

-------------------------------------------------------------------------------
(* The queue of the tablet is the spool the cafe wants *)

RefusedRows == {i \in DOMAIN rows : rows[i].state = "failed" /\ ~ Contains(created, i)}
Came == [i \in Ids |-> Cardinality({k \in DOMAIN created : created[k] = i})]
Here == [i \in Ids |-> IF Contains(created, i) THEN 1 ELSE 0]

\* In a sequence without repetitions an element is once or not at all.
LEMMA OnceInSeq ==
    ASSUME NEW c, NEW S, c \in Seq(S), \A k, l \in DOMAIN c : c[k] = c[l] => k = l, NEW i
    PROVE  Cardinality({k \in DOMAIN c : c[k] = i}) = IF Contains(c, i) THEN 1 ELSE 0
<1> DEFINE at == {k \in DOMAIN c : c[k] = i}
<1>1. DOMAIN c = 1..Len(c)
  BY LenProperties
<1>2. CASE Contains(c, i)
  <2>1. PICK k \in DOMAIN c : c[k] = i
    BY <1>1, <1>2 DEF Contains
  <2>2. at = {k}
    BY <2>1
  <2> HIDE DEF at
  <2>3. Cardinality({k}) = 1
    BY FS_Singleton, Zenon
  <2>4. Cardinality(at) = 1
    BY <2>2, <2>3
  <2> QED
    BY <1>2, <2>4 DEF at
<1>3. CASE ~ Contains(c, i)
  <2>1. at = {}
    BY <1>1, <1>3 DEF Contains
  <2> HIDE DEF at
  <2>2. Cardinality({}) = 0
    BY FS_EmptySet, Zenon
  <2>3. Cardinality(at) = 0
    BY <2>1, <2>2
  <2> QED
    BY <1>3, <2>3 DEF at
<1> QED
  BY <1>2, <1>3

\* A new row is put in behind the others.
LEMMA ChargePuts ==
    ASSUME IInv, Charge
    PROVE  Promise!Next
<1>0. Len(rows) + 1 \in Ids
  BY Queued
<1>n. PICK n \in Ids : n = Len(rows) + 1
  BY <1>0
<1>1. /\ Len(rows) \in Nat /\ DOMAIN rows = 1..Len(rows) /\ DOMAIN rows' = 1..n
      /\ \A i \in DOMAIN rows : rows'[i] = rows[i]
  BY <1>n, Queued, RowNumbers DEF IInv
<1>2. UNCHANGED created
  BY DEF Charge, server
<1>3. DOMAIN rows' = DOMAIN rows \cup {n} /\ n \notin DOMAIN rows /\ \A j \in DOMAIN rows : j < n
  BY <1>n, <1>1
<1>4. RefusedRows' = RefusedRows
  <2>1. rows'[n].state = "pending"
    BY <1>n, Queued
  <2> QED
    BY <1>1, <1>2, <1>3, <2>1 DEF RefusedRows, Contains
<1>5. Promise!Put(n)
  <2>1. UNCHANGED Came
    BY <1>2 DEF Came
  <2> QED
    BY <1>3, <1>4, <2>1 DEF Promise!Put, RefusedRows, Came
<1> QED
  BY <1>5 DEF Promise!Next

\* An order that is new at the server comes out, one that the server refuses is
\* refused: all older ones are there or were refused.  What is done again to an
\* order the server has is nothing to the spool.
LEMMA PostGivesOut ==
    ASSUME IInv, IInv', NEW outcome \in Outcomes, SyncPost(outcome)
    PROVE  [Promise!Next]_(Promise!vars)
<1>1. sync.rest # {}
  BY DEF SyncPost
<1>i. PICK i \in Ids : i = Min(sync.rest)
  BY <1>1, OldestRow
<1>2. /\ i \in sync.rest /\ \A j \in sync.rest : i <= j
      /\ i \in DOMAIN rows /\ i \in Ids
  BY <1>1, <1>i, OldestRow
<1>3. DOMAIN rows \subseteq Ids /\ Ids \subseteq Nat
  BY RowNumbers DEF IInv
<1>4. /\ UNCHANGED rows \/ UpdateRow(i, "acked") \/ UpdateRow(i, "failed")
      /\ UNCHANGED created \/ CreateOnce(i)
      /\ CreateOnce(i) \/ UNCHANGED rows \/ UpdateRow(i, "failed")
  <2>1. CASE outcome \in {"ok", "refused", "broke"}
    BY <1>i, <2>1 DEF SyncPost
  <2>2. CASE outcome \in {"down", "answer lost", "server died"}
    BY <1>i, <2>2 DEF SyncPost
  <2> QED
    BY <2>1, <2>2 DEF Outcomes
<1>5. /\ DOMAIN rows' = DOMAIN rows
      /\ \A j \in DOMAIN rows :
           rows'[j].sale = rows[j].sale /\ (j # i => rows'[j].state = rows[j].state)
      /\ rows'[i].state \in {rows[i].state, "acked", "failed"}
  BY <1>2, <1>4, RowWritten DEF IInv
<1>6. Came = Here /\ Came' = Here'
  <2>1. Stored /\ Stored'
    BY DEF IInv
  <2>2. Came = Here
    BY <2>1, OnceInSeq DEF Stored, Came, Here
  <2>3. Came' = Here'
    BY <2>1, OnceInSeq DEF Stored, Came, Here
  <2> QED
    BY <2>2, <2>3
<1>7. \A j \in DOMAIN rows : j < i => Here[j] = 1 \/ j \in RefusedRows
  <2>1. ASSUME NEW j \in DOMAIN rows, j < i PROVE j \notin sync.rest
    BY <1>2, <1>3, <2>1
  <2> QED
    BY <1>2, <1>3, <2>1 DEF IInv, Sending, Here, RefusedRows
<1>8. CASE CreateOnce(i)
  <2>1. \A j : Contains(created', j) <=> Contains(created, j) \/ j = i
    BY <1>2, <1>5, <1>8, CreatedOnce DEF IInv
  <2>2. Here' = [Here EXCEPT ![i] = 1]
    BY <1>2, <2>1 DEF Here
  <2>3. RefusedRows' = RefusedRows \ {i}
    BY <1>2, <1>5, <2>1 DEF RefusedRows
  <2>4. CASE Contains(created, i)
    <3>1. Here' = Here /\ RefusedRows' = RefusedRows
      BY <1>2, <2>2, <2>3, <2>4 DEF Here, RefusedRows
    <3> QED
      BY <1>5, <1>6, <3>1 DEF Promise!vars, Came, RefusedRows
  <2>5. CASE ~ Contains(created, i)
    <3>1. Here[i] = 0
      BY <1>2, <2>5 DEF Here
    <3>2. /\ Came[i] = 0 /\ Came' = [Came EXCEPT ![i] = 1]
          /\ \A j \in DOMAIN rows : j < i => Came[j] = 1 \/ j \in RefusedRows
      BY <1>6, <1>7, <2>2, <3>1
    <3>3. Promise!ComeOut(i)
      BY <1>2, <1>5, <2>3, <3>2 DEF Promise!ComeOut, Promise!Turn, Came, RefusedRows
    <3> QED
      BY <1>2, <3>3 DEF Promise!Next
  <2> QED
    BY <2>4, <2>5
<1>9. CASE UNCHANGED created /\ ~ CreateOnce(i)
  <2>1. Here' = Here
    BY <1>9 DEF Here
  <2>2. CASE RefusedRows' = RefusedRows
    BY <1>5, <1>6, <2>1, <2>2 DEF Promise!vars, Came, RefusedRows
  <2>3. CASE RefusedRows' # RefusedRows
    <3>1. UpdateRow(i, "failed") /\ ~ Contains(created, i)
      <4>1. ~ UNCHANGED rows
        BY <1>9, <2>3 DEF RefusedRows
      <4>2. UpdateRow(i, "failed")
        BY <1>4, <1>9, <4>1
      <4>3. ~ Contains(created, i)
        BY <1>2, <1>5, <1>9, <2>3 DEF RefusedRows
      <4> QED
        BY <4>2, <4>3
    <3>2. RefusedRows' = RefusedRows \cup {i}
      <4>1. i \in RefusedRows'
        BY <1>2, <1>5, <1>9, <3>1, RowWritten DEF RefusedRows, IInv
      <4>2. \A j : j # i => (j \in RefusedRows' <=> j \in RefusedRows)
        BY <1>5, <1>9 DEF RefusedRows
      <4> QED
        BY <4>1, <4>2
    <3>3. Here[i] = 0
      BY <1>2, <3>1 DEF Here
    <3>4. /\ Came[i] = 0 /\ Came' = Came
          /\ \A j \in DOMAIN rows : j < i => Came[j] = 1 \/ j \in RefusedRows
      BY <1>6, <1>7, <2>1, <3>3
    <3>5. Promise!Refuse(i)
      BY <1>2, <1>5, <3>2, <3>4 DEF Promise!Refuse, Promise!Turn, Came, RefusedRows
    <3> QED
      BY <1>2, <3>5 DEF Promise!Next
  <2> QED
    BY <2>2, <2>3
<1> QED
  BY <1>4, <1>8, <1>9

\* Each step of the till is one of the spool, or none.
LEMMA StepSpool == IInv /\ IInv' /\ [Next]_vars => [Promise!Next]_(Promise!vars)
<1> SUFFICES ASSUME IInv, IInv', [Next]_vars PROVE [Promise!Next]_(Promise!vars)
  OBVIOUS
<1>1. CASE Charge
  BY <1>1, ChargePuts
<1>2. ASSUME NEW outcome \in Outcomes, SyncPost(outcome) PROVE [Promise!Next]_(Promise!vars)
  BY <1>2, PostGivesOut
<1>3. \/ Charge
      \/ \E outcome \in Outcomes : SyncPost(outcome)
      \/ UNCHANGED <<created, rows>>
  BY DEF Next, Sync, SyncTick, SyncHealth, SyncCatalog, Till, StartSale, CancelCart, OpenDialog,
         CloseDialog, SaleRecorded, Acked, PollTimeout, PaySent, Outage, WifiLost, Reload,
         vars, tablet, server
<1>4. CASE UNCHANGED <<created, rows>>
  BY <1>4 DEF Promise!vars
<1> QED
  BY <1>1, <1>2, <1>3, <1>4

\* Through lost answers, reloads and outages each queued order gets to the server
\* once, and in the order they were taken, but that one the server has refused
\* may be passed by newer ones, and come later or never.
THEOREM QueueIsSpool == Spec => ImplementsSpool
<1>1. Init => Promise!Init
  <2> SUFFICES ASSUME Init PROVE Promise!Init
    OBVIOUS
  <2>1. DOMAIN rows = {} /\ RefusedRows = {}
    BY EmptySeq DEF Init, RefusedRows
  <2>2. Came = [i \in Ids |-> 0]
    <3>1. Stored
      BY Starts DEF IInv
    <3>2. \A i \in Ids : ~ Contains(created, i)
      BY DEF Init, Contains
    <3> QED
      BY <3>1, <3>2, OnceInSeq DEF Stored, Came
  <2> QED
    BY <2>1, <2>2 DEF Promise!Init, RefusedRows, Came
<1> QED
  BY <1>1, StepSpool, Invariance, PTL DEF Spec, ImplementsSpool, Promise!Spec
===============================================================================
