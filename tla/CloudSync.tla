------------------------------- MODULE CloudSync -------------------------------
(***************************************************************************)
(* From the sync outbox of the cafe to the cloud and back: the sync engine *)
(* of the cafe server pushes the rows of sync_outbox in batches, the cloud *)
(* ingests them one query at a time into PostgreSQL, and what it recorded  *)
(* in cloud_outbound is pulled back into the local catalog.                *)
(*                                                                         *)
(* A row of the outbox is known by its seq.  A snapshot of an order or of  *)
(* a product is known by the seq of the row that carries it, so a greater  *)
(* number is a newer state.  What a crash loses before a row is in the     *)
(* outbox is the subject of the module Orders.                             *)
(***************************************************************************)
EXTENDS Integers, Sequences, FiniteSets, FiniteSetsExt

CONSTANTS
    OrderIds, Products,
    Requests,  \* bound: push requests the cloud may work on at a time
    Batch,     \* CLOUD_BATCH_SIZE, 200 by default
    MaxRows,   \* bound: rows of sync_outbox
    MaxLosses, \* bound: ticks and requests cut short
    MaxFaults  \* bound: queries of the cloud that fail for no reason of theirs

ASSUME CloudAssumption ==
    /\ OrderIds \cap Products = {}
    /\ Requests # {}
    /\ Batch \in Nat \ {0}
    /\ MaxRows \in Nat /\ MaxLosses \in Nat /\ MaxFaults \in Nat

VARIABLES
    outbox,     \* sync_outbox, by seq
    pushed,     \* the seqs whose pushed_at is set
    lastPushed, \* sync_state.last_pushed_seq
    lastPulled, \* sync_state.last_pulled_seq
    products,   \* the local products: the edit each one shows
    tick,       \* the tick of the sync engine: what it awaits
    requests,   \* the calls of ingestBatch the cloud works on
    mirror,     \* cloud_orders and cloud_products: the row each one shows
    stored,     \* the rows that were applied to the tables of the cloud
    outbound,   \* by global_seq, the seq of the envelope the number was drawn for
    committed,  \* the global_seqs whose row of cloud_outbound is committed
    lastSeq,    \* ingest_state.last_seq of the cafe
    overlapped, \* history: whether two calls of ingestBatch ever ran at a time
    pulled,     \* history: the envelopes the cafe has pulled
    losses, faults

cafe == <<outbox, pushed, lastPushed, lastPulled, products, tick, pulled>>
log == <<outbound, committed>>
cloud == <<requests, mirror, stored, log, lastSeq, overlapped>>
vars == <<cafe, cloud, losses, faults>>

Seqs == 1..MaxRows

\* "product" carries the name and the price, "partial" lacks one of them, and
\* "audit" stands for the rows the cloud takes whatever is in them.
Kinds == {"order", "refund", "product", "partial", "stock", "audit"}
Subjects == OrderIds \cup Products
\* What a query of cloud_outbound finds.
Recorded == {outbound[g] : g \in committed}

\* A batch is a set of numbers: the envelopes are taken in their order.
Free == [at |-> "free", rest |-> {}, ack |-> 0, drawn |-> 0]
Waiting == [at |-> "idle", by |-> 0, batch |-> {}]
Pulling == [at |-> "pull", by |-> 0, batch |-> {}]

Init ==
    /\ outbox = <<>>
    /\ pushed = {}
    /\ lastPushed = 0
    /\ lastPulled = 0
    /\ products = [p \in Products |-> 0]
    /\ tick = Waiting
    /\ requests = [r \in Requests |-> Free]
    /\ mirror = [x \in Subjects |-> 0]
    /\ stored = {}
    /\ outbound = <<>> /\ committed = {}
    /\ lastSeq = 0
    /\ overlapped = FALSE
    /\ pulled = {}
    /\ losses = 0
    /\ faults = 0

-------------------------------------------------------------------------------
(* What the cafe writes into the outbox *)

Enqueue(rows) ==
    /\ Len(outbox) + Len(rows) <= MaxRows
    /\ outbox' = outbox \o rows
    /\ UNCHANGED <<pushed, lastPushed, lastPulled, tick, pulled, cloud, losses, faults>>

Row(kind, of) == [kind |-> kind, of |-> of]

Known(o) == \E s \in DOMAIN outbox : outbox[s] = Row("order", o)

\* createOrder: the stock the order drew, if it drew any, then the order.
WriteOrder(o, drew) ==
    /\ ~Known(o)
    /\ Enqueue((IF drew THEN <<Row("stock", o)>> ELSE <<>>) \o <<Row("order", o)>>)
    /\ UNCHANGED products

\* The order after a payment, a discount or a cancellation.
UpdateOrder(o) ==
    /\ Known(o)
    /\ Enqueue(<<Row("order", o)>>)
    /\ UNCHANGED products

WriteRefund(o) ==
    /\ Known(o)
    /\ Enqueue(<<Row("refund", o), Row("order", o)>>)
    /\ UNCHANGED products

\* POST /products, and PUT with or without all that the cloud requires.  A
\* stock adjustment writes rows that meet the same end as a partial edit.
EditProduct(p, kind) ==
    /\ Enqueue(<<Row("audit", p), Row(kind, p)>>)
    /\ products' = [products EXCEPT ![p] = Len(outbox) + 2]

-------------------------------------------------------------------------------
(* Push *)

Pending == {s \in DOMAIN outbox : s \notin pushed /\ s > lastPushed}

\* ORDER BY ... LIMIT
FirstOf(S) == {s \in S : Cardinality({t \in S : t < s}) < Batch}

\* tick up to its first await.  A request that does not reach the cloud leaves
\* everything as it was.
Tick ==
    /\ tick.at = "idle"
    /\ \/ /\ Pending = {}
          /\ tick' = Pulling
          /\ UNCHANGED <<requests, overlapped>>
       \/ /\ Pending # {}
          /\ \E r \in Requests :
               /\ requests[r] = Free
               /\ \A q \in Requests : requests[q] = Free => r <= q
               /\ requests' = [requests EXCEPT ![r] =
                    [at |-> "look", rest |-> FirstOf(Pending), ack |-> lastPushed, drawn |-> 0]]
               /\ tick' = [at |-> "push", by |-> r, batch |-> FirstOf(Pending)]
               /\ overlapped' = (overlapped \/ \E q \in Requests : requests[q] # Free)
    /\ UNCHANGED <<outbox, pushed, lastPushed, lastPulled, products, pulled, mirror,
                   stored, log, lastSeq, losses, faults>>

Marked(ack) == {s \in tick.batch : s <= ack}

\* Mutation: the cursor is the next row to send.
CursorAfterPushNext(ack) == Max({lastPushed, ack + 1})

CursorAfterPush(ack) == Max({lastPushed, ack})

\* The answer to the push: marks and cursor in one transaction.
PushAnswered ==
    /\ tick.at = "push"
    /\ requests[tick.by].at = "answered"
    /\ LET ack == requests[tick.by].ack IN
       /\ pushed' = pushed \cup Marked(ack)
       /\ lastPushed' = CursorAfterPush(ack)
    /\ tick' = Pulling
    /\ requests' = [requests EXCEPT ![tick.by] = Free]
    /\ UNCHANGED <<outbox, lastPulled, products, pulled, mirror, stored, log, lastSeq,
                   overlapped, losses, faults>>

-------------------------------------------------------------------------------
(* Ingest: every query is awaited, so two calls interleave between queries *)

Env(r) == Min(requests[r].rest)

\* On to the next envelope of the batch, with this one acknowledged or rejected.
Onward(r, ack) == [at |-> "look", rest |-> requests[r].rest \ {Env(r)}, ack |-> ack, drawn |-> 0]
Skipped(r) == Onward(r, requests[r].ack)
Accepted(r) == Onward(r, Max({requests[r].ack, Env(r)}))

\* Mutation: an envelope that was recorded is not acknowledged again.
LookedUpUnacked(r) == IF Env(r) \in Recorded THEN Skipped(r)
                                             ELSE [requests[r] EXCEPT !.at = "apply"]

LookedUp(r) == IF Env(r) \in Recorded THEN Accepted(r)
                                      ELSE [requests[r] EXCEPT !.at = "apply"]

Lookup(r) ==
    /\ requests[r].at = "look" /\ requests[r].rest # {}
    /\ requests' = [requests EXCEPT ![r] = LookedUp(r)]
    /\ UNCHANGED <<cafe, mirror, stored, log, lastSeq, overlapped, losses, faults>>

\* What the constraints of the tables let in: a refund needs its order, a
\* stock movement its ingredient, which nothing ever sends, and a product its
\* name and price, NOT NULL being checked before ON CONFLICT.
Admits(row) ==
    CASE row.kind \in {"order", "product", "audit"} -> TRUE
      [] row.kind = "refund" -> mirror[row.of] # 0
      [] OTHER -> FALSE

\* Mutation: only what the mirror does not have yet is written.
MirroredFirstOnly(s) ==
    IF mirror[outbox[s].of] = 0 THEN [mirror EXCEPT ![outbox[s].of] = s] ELSE mirror

\* The upserts of orders and products are unconditional.
Mirrored(s) ==
    IF outbox[s].kind \in {"order", "product"} THEN [mirror EXCEPT ![outbox[s].of] = s]
                                               ELSE mirror

\* applyEnvelope.  A fault is a lost connection to the database or the like, in
\* the lookup or here: the envelope is rejected as if there was something wrong
\* with it.
Apply(r, fault) ==
    /\ requests[r].at = "apply"
    /\ fault => faults < MaxFaults
    /\ faults' = IF fault THEN faults + 1 ELSE faults
    /\ IF Admits(outbox[Env(r)]) /\ ~fault
       THEN /\ mirror' = Mirrored(Env(r))
            /\ stored' = stored \cup {Env(r)}
            /\ requests' = [requests EXCEPT ![r].at = "record"]
       ELSE /\ requests' = [requests EXCEPT ![r] = Skipped(r)]
            /\ UNCHANGED <<mirror, stored>>
    /\ UNCHANGED <<cafe, log, lastSeq, overlapped, losses>>

\* INSERT INTO cloud_outbound: the global_seq is drawn, whatever becomes of it.
Draw(r) ==
    /\ requests[r].at = "record"
    /\ outbound' = Append(outbound, Env(r))
    /\ requests' = [requests EXCEPT ![r] = [at |-> "commit", rest |-> requests[r].rest,
                                            ack |-> requests[r].ack, drawn |-> Len(outbound) + 1]]
    /\ UNCHANGED <<cafe, committed, mirror, stored, lastSeq, overlapped, losses, faults>>

\* The row is there already: envelope_id is unique.
Conflict(r) == Env(r) \in Recorded

\* An insert waits for another one of the same envelope that came before it.
MayCommit(r) ==
    \A q \in Requests \ {r} :
      requests[q].at = "commit" /\ Env(q) = Env(r) => requests[r].drawn < requests[q].drawn

\* The row is committed, with the number drawn before others may have drawn and
\* committed theirs; or it is not, and the number is never used.
Commit(r, fault) ==
    /\ requests[r].at = "commit" /\ MayCommit(r)
    /\ fault => faults < MaxFaults /\ ~Conflict(r)
    /\ faults' = IF fault THEN faults + 1 ELSE faults
    /\ IF ~Conflict(r) /\ ~fault
       THEN /\ committed' = committed \cup {requests[r].drawn}
            /\ requests' = [requests EXCEPT ![r] = Accepted(r)]
       ELSE /\ requests' = [requests EXCEPT ![r] = Skipped(r)]
            /\ UNCHANGED committed
    /\ UNCHANGED <<cafe, outbound, mirror, stored, lastSeq, overlapped, losses>>

Awaited(r) == tick.at = "push" /\ tick.by = r

\* The end of ingestBatch.  Nobody reads the answer of a call whose connection
\* was lost.
Finish(r) ==
    /\ requests[r].at = "look" /\ requests[r].rest = {}
    /\ lastSeq' = Max({lastSeq, requests[r].ack})
    /\ requests' = [requests EXCEPT ![r] =
         IF Awaited(r) THEN [@ EXCEPT !.at = "answered"] ELSE Free]
    /\ UNCHANGED <<cafe, mirror, stored, log, overlapped, losses, faults>>

-------------------------------------------------------------------------------
(* Pull *)

\* GET /v1/sync/pull, which reads what is committed beyond the cursor.
ToPull == FirstOf({g \in committed : g > lastPulled})

PullRead ==
    /\ tick.at = "pull"
    /\ tick' = IF ToPull = {} THEN Waiting
               ELSE [at |-> "pulled", by |-> 0, batch |-> ToPull]
    /\ UNCHANGED <<outbox, pushed, lastPushed, lastPulled, products, pulled, cloud, losses, faults>>

\* What a batch leaves of product p: its last envelope wins, none leaves it.
Echo(p) ==
    LET edits == {g \in tick.batch : outbox[outbound[g]] = Row("product", p)}
    IN IF edits = {} THEN products[p] ELSE outbound[Max(edits)]

\* Mutation: nextSeq is the first seq of the next batch.
CursorAfterPullPastEnd == Max(tick.batch) + 1

\* Mutation: the cursor is moved to the last number drawn, beyond the batch.
CursorAfterPullToEnd == Len(outbound)

CursorAfterPull == Max(tick.batch)

\* The envelopes are applied in a transaction, the cursor is saved after it:
\* the server may die in between.
ApplyPull(saved) ==
    /\ tick.at = "pulled"
    /\ saved \/ losses < MaxLosses
    /\ losses' = IF saved THEN losses ELSE losses + 1
    /\ products' = [p \in Products |-> Echo(p)]
    /\ pulled' = pulled \cup {outbound[g] : g \in tick.batch}
    /\ lastPulled' = IF saved THEN CursorAfterPull ELSE lastPulled
    /\ tick' = Waiting
    /\ UNCHANGED <<outbox, pushed, lastPushed, cloud, faults>>

-------------------------------------------------------------------------------
(* Failures *)

\* The connection is lost, a timeout, or the cafe server dies: the tick is over,
\* and the cloud does not notice.
TickLost ==
    /\ tick.at # "idle"
    /\ losses < MaxLosses
    /\ losses' = losses + 1
    /\ tick' = Waiting
    /\ requests' = [r \in Requests |->
         IF Awaited(r) /\ requests[r].at = "answered" THEN Free ELSE requests[r]]
    /\ UNCHANGED <<outbox, pushed, lastPushed, lastPulled, products, pulled, mirror,
                   stored, log, lastSeq, overlapped, faults>>

\* The cloud dies, its calls with it.  An insert it waited for is committed or
\* not.
CloudRestart ==
    /\ losses < MaxLosses
    /\ \E r \in Requests : requests[r] # Free
    /\ losses' = losses + 1
    /\ requests' = [r \in Requests |-> Free]
    /\ tick' = IF tick.at = "push" THEN Waiting ELSE tick
    /\ \/ UNCHANGED committed
       \/ \E r \in Requests :
            /\ requests[r].at = "commit" /\ MayCommit(r) /\ ~Conflict(r)
            /\ committed' = committed \cup {requests[r].drawn}
    /\ UNCHANGED <<outbox, pushed, lastPushed, lastPulled, products, pulled, mirror,
                   stored, outbound, lastSeq, overlapped, faults>>

Write ==
    \/ \E o \in OrderIds, drew \in BOOLEAN : WriteOrder(o, drew)
    \/ \E o \in OrderIds : UpdateOrder(o) \/ WriteRefund(o)
    \/ \E p \in Products, kind \in {"product", "partial"} : EditProduct(p, kind)

Engine ==
    \/ Tick \/ PushAnswered \/ PullRead
    \/ \E saved \in BOOLEAN : ApplyPull(saved)

Ingest(r) ==
    \/ Lookup(r) \/ Draw(r) \/ Finish(r)
    \/ \E fault \in BOOLEAN : Apply(r, fault) \/ Commit(r, fault)

Next ==
    \/ Write
    \/ Engine
    \/ \E r \in Requests : Ingest(r)
    \/ TickLost \/ CloudRestart

\* The interval keeps firing and every await ends.
Fairness == WF_vars(Engine) /\ \A r \in Requests : WF_vars(Ingest(r))

Spec == Init /\ [][Next]_vars
FairSpec == Spec /\ Fairness

-------------------------------------------------------------------------------
(* Properties *)

\* Rows, marks, cursors and calls are of their types, and no cursor is ahead of
\* what it counts.
TypeOK ==
    /\ outbox \in Seq([kind : Kinds, of : Subjects]) /\ Len(outbox) <= MaxRows
    /\ pushed \cup stored \cup pulled \subseteq DOMAIN outbox
    /\ outbound \in Seq(DOMAIN outbox)
    /\ committed \subseteq DOMAIN outbound
    /\ {lastPushed, lastSeq} \subseteq 0..Len(outbox)
    /\ lastPulled \in 0..Len(outbound)
    /\ products \in [Products -> 0..Len(outbox)]
    /\ mirror \in [Subjects -> 0..Len(outbox)]
    /\ tick \in [at : {"idle", "push", "pull", "pulled"}, by : Requests \cup {0}, batch : SUBSET Nat]
    /\ requests \in [Requests -> [at : {"free", "look", "apply", "record", "commit", "answered"},
                                  rest : SUBSET DOMAIN outbox,
                                  ack : 0..Len(outbox), drawn : 0..Len(outbound)]]
    /\ overlapped \in BOOLEAN
    /\ losses \in 0..MaxLosses /\ faults \in 0..MaxFaults

\* Rows the cloud has no place for: see Admits.
Refused(s) == outbox[s].kind \in {"stock", "partial"}

\* The cafe's marks and its cursor say the same and the cloud's cursor is not
\* behind them, so no row is skipped because it lies between two of them; and
\* what the cafe counts as pushed the cloud has recorded, but for the rows it
\* has no place for and those a query failed for by accident.  No lost answer,
\* overlapping call or restart makes another gap.
GapsExplained ==
    /\ pushed = 1..lastPushed /\ lastPushed <= lastSeq
    /\ faults = 0 => \A s \in pushed : s \in Recorded \/ Refused(s)

\* A pull never moves the cafe's cursor past a row it has not read, although
\* global_seqs are drawn before their rows are committed: calls that overlap
\* work on the same rows in the same order, so a number is drawn for a later
\* row only when the earlier ones are recorded, by this call or the other one.
\* It takes two calls and a query that failed by accident to get past that.
NothingPassedOver ==
    \/ overlapped /\ faults > 0
    \/ \A g \in committed : g <= lastPulled => outbound[g] \in pulled

\* As long as only one call of ingestBatch runs at a time and no query fails by
\* accident, batches that are sent again never turn the mirror back behind what
\* the cloud has recorded.  Either of the two can: an older snapshot is applied
\* when a newer one is recorded already, by the slower call or by the repetition.
MirrorNotStale ==
    ~overlapped /\ faults = 0 =>
      \A s \in Recorded :
        outbox[s].kind \in {"order", "product"} => mirror[outbox[s].of] >= s

\* The next batch is full of rows the cloud has no place for: it is acknowledged
\* where it starts, and goes out again and again.
Jammed ==
    Cardinality(Pending) >= Batch /\ \A s \in FirstOf(Pending) : Refused(s)

\* Every row is pushed in the end and in the tables of the cloud, through lost
\* answers and restarts of either side, unless the cloud has no place for it, a
\* query failed by accident, or the outbox is jammed: as many refused rows in a
\* row as a batch holds, and only they, keep those behind them for ever.  As a
\* row stays pushed and the rows are finitely many, this says of each of them
\* that it gets there.
OutboxDrains ==
    <>[](\A s \in DOMAIN outbox :
            s \in pushed \cap stored \/ Refused(s) \/ faults > 0 \/ Jammed)

Latest(p) == Max({s \in DOMAIN outbox : outbox[s] \in {Row("product", p), Row("partial", p)}}
                 \cup {0})

\* The cafe's own catalog comes back to the newest edit, although older ones are
\* pulled on top of it meanwhile, if the newest is one the cloud takes and the
\* outbox is not jammed.
CatalogSettles ==
    \A p \in Products :
      <>[](\/ products[p] = Latest(p) \/ outbox[Latest(p)].kind = "partial"
           \/ faults > 0 \/ Jammed)

\* docs/OFFLINE-SYNC.md: "cursor-tracked - no gaps, no duplicates".
NoGaps == 1..lastPushed \subseteq Recorded

\* docs/OFFLINE-SYNC.md: "products/settings: LWW on updatedAt": once the edits
\* stop, the catalog stays at the newest one.
LastWriterWins == \A p \in Products : <>[](products[p] = Latest(p))
===============================================================================
