---------------------------- MODULE CloudSyncProofs ----------------------------
(***************************************************************************)
(* Theorems about the way from the outbox of the cafe to the cloud and     *)
(* back, for every number of orders, products, rows, calls, lost messages  *)
(* and faults, and every size of a batch.                                  *)
(***************************************************************************)
EXTENDS CloudSync, SetFacts, SequenceTheorems, TLAPS

-------------------------------------------------------------------------------
(* The inductive invariant *)

\* A row that is recorded, or that the cloud has no place for.
Settled(s) == s \in Recorded \/ Refused(s)

\* The rows are of their kinds, and a refund comes behind its order.
Written ==
    /\ \A s \in DOMAIN outbox :
         /\ outbox[s].kind = "order" => outbox[s].of \in OrderIds
         /\ outbox[s].kind = "product" => outbox[s].of \in Products
         /\ outbox[s].kind = "refund" => \E t \in 1..(s - 1) : outbox[t] = Row("order", outbox[s].of)

Upserted == {"order", "product"}

\* A call that works on an envelope has one, and the number it drew is for it.
Calls ==
    /\ \A r \in Requests :
         /\ requests[r].at \in {"apply", "record", "commit"} => requests[r].rest # {}
         /\ requests[r].at = "free" => requests[r] = Free
         /\ requests[r].at = "answered" => Awaited(r) /\ requests[r].ack <= lastSeq
         /\ requests[r].at \in {"record", "commit"} => ~ Refused(Env(r))
         /\ requests[r].at = "commit" =>
              requests[r].drawn \in DOMAIN outbound /\ outbound[requests[r].drawn] = Env(r)

\* A push sends the rows behind the cursor, without a gap.
Pushing ==
    /\ pushed = 1..lastPushed /\ lastPushed <= lastSeq
    /\ tick.at = "push" =>
         /\ tick.by \in Requests /\ requests[tick.by].at # "free"
         /\ \E b \in lastPushed .. Len(outbox) : tick.batch = (lastPushed + 1) .. b
         /\ requests[tick.by].rest \subseteq tick.batch
         /\ requests[tick.by].ack \in {lastPushed} \cup tick.batch

\* Without accidents, all rows up to what is pushed, acknowledged, recorded or
\* passed by a call are settled.
Sound ==
    faults = 0 =>
      /\ \A s \in pushed : Settled(s)
      /\ \A r \in Requests :
           /\ \A s \in 1..requests[r].ack : Settled(s)
           /\ \A s \in requests[r].rest : \A t \in 1..(s - 1) : t \in requests[r].rest \/ Settled(t)
      /\ \A s \in Recorded : \A t \in 1..(s - 1) : Settled(t)

\* What is recorded, or about to be, has been applied.
Applied ==
    /\ \A s \in Recorded : outbox[s].kind \in Upserted => mirror[outbox[s].of] # 0
    /\ \A r \in Requests :
         requests[r].at \in {"record", "commit"} /\ outbox[Env(r)].kind \in Upserted =>
           mirror[outbox[Env(r)].of] # 0

Tangled == overlapped /\ faults > 0

\* A number that can still be committed is beyond all that are.
Growing ==
    Tangled \/
      \A r \in Requests : requests[r].at = "commit" =>
        Env(r) \in Recorded \/ \A g \in committed : g < requests[r].drawn

\* The pull cursor is at a committed number, and what lies up to it, or up to
\* the end of a batch under way, has been read.
Reading ==
    /\ lastPulled = 0 \/ lastPulled \in committed
    /\ tick.at = "pulled" => tick.batch # {} /\ tick.batch \subseteq committed
    /\ Tangled \/
         /\ \A g \in committed : g <= lastPulled => outbound[g] \in pulled
         /\ tick.at = "pulled" =>
              \A b \in tick.batch : \A g \in committed : g <= b => g \in tick.batch \/ g <= lastPulled

\* As long as calls do not overlap there is one at most, and it works on an
\* envelope that is not recorded yet.
Alone ==
    ~ overlapped =>
      /\ \A r, q \in Requests : requests[r].at # "free" /\ requests[q].at # "free" => r = q
      /\ \A r \in Requests : requests[r].at \in {"apply", "record", "commit"} => Env(r) \notin Recorded

\* ... and the mirror is not behind it.
Newest ==
    ~ overlapped /\ faults = 0 =>
      /\ \A s \in Recorded : outbox[s].kind \in Upserted => mirror[outbox[s].of] >= s
      /\ \A r \in Requests :
           requests[r].at \in {"record", "commit"} /\ outbox[Env(r)].kind \in Upserted =>
             mirror[outbox[Env(r)].of] >= Env(r)

IInv ==
    /\ TypeOK /\ Written /\ Calls /\ Pushing /\ Sound
    /\ Applied /\ Growing /\ Reading /\ Alone /\ Newest

-------------------------------------------------------------------------------
(* Facts about rows, numbers and calls *)

RowSet == [kind : Kinds, of : Subjects]
Ats == {"free", "look", "apply", "record", "commit", "answered"}
CallSet == [at : Ats, rest : SUBSET DOMAIN outbox, ack : 0..Len(outbox), drawn : 0..Len(outbound)]

\* Rows and global_seqs are numbered from one.
LEMMA Numbers ==
    ASSUME TypeOK
    PROVE  /\ outbox \in Seq(RowSet) /\ Len(outbox) \in Nat /\ DOMAIN outbox = 1..Len(outbox)
           /\ \A s \in DOMAIN outbox : outbox[s] \in RowSet
           /\ Len(outbound) \in Nat /\ DOMAIN outbound = 1..Len(outbound)
           /\ \A g \in DOMAIN outbound : outbound[g] \in DOMAIN outbox
           /\ committed \subseteq DOMAIN outbound
           /\ Recorded \subseteq DOMAIN outbox
           /\ lastPushed \in Nat /\ lastSeq \in Nat /\ lastPulled \in Nat
           /\ losses \in Nat /\ faults \in Nat /\ MaxLosses \in Nat /\ MaxFaults \in Nat
<1>1. outbox \in Seq(RowSet) /\ outbound \in Seq(DOMAIN outbox) /\ committed \subseteq DOMAIN outbound
  BY DEF TypeOK, RowSet
<1>2. /\ Len(outbox) \in Nat /\ DOMAIN outbox = 1..Len(outbox)
      /\ \A s \in DOMAIN outbox : outbox[s] \in RowSet
  BY <1>1, LenProperties, ElementOfSeq
<1>3. /\ Len(outbound) \in Nat /\ DOMAIN outbound = 1..Len(outbound)
      /\ \A g \in DOMAIN outbound : outbound[g] \in DOMAIN outbox
  BY <1>1, LenProperties, ElementOfSeq
<1>4. Recorded \subseteq DOMAIN outbox
  BY <1>1, <1>3 DEF Recorded
<1>5. lastPushed \in 0..Len(outbox) /\ lastSeq \in 0..Len(outbox) /\ lastPulled \in 0..Len(outbound)
  BY DEF TypeOK
<1>6. losses \in 0..MaxLosses /\ faults \in 0..MaxFaults
  BY DEF TypeOK
<1> QED
  BY <1>1, <1>2, <1>3, <1>4, <1>5, <1>6, CloudAssumption

\* A call works on the oldest envelope it has left.
LEMMA OldestEnvelope ==
    ASSUME TypeOK
    PROVE  \A r \in Requests :
             /\ requests[r].rest \subseteq DOMAIN outbox
             /\ requests[r].rest # {} =>
                  /\ Env(r) \in requests[r].rest /\ Env(r) \in DOMAIN outbox
                  /\ \A s \in requests[r].rest : Env(r) <= s
<1> SUFFICES ASSUME NEW r \in Requests
             PROVE  /\ requests[r].rest \subseteq DOMAIN outbox
                    /\ requests[r].rest # {} =>
                         /\ Env(r) \in requests[r].rest /\ Env(r) \in DOMAIN outbox
                         /\ \A s \in requests[r].rest : Env(r) <= s
  OBVIOUS
<1>1. requests[r].rest \subseteq DOMAIN outbox
  BY DEF TypeOK
<1>2. DOMAIN outbox \subseteq Nat
  BY Numbers
<1> QED
  BY <1>1, <1>2, MinIsLeast DEF Env

\* The greater of two numbers.
LEMMA MaxOfTwo ==
    ASSUME NEW a \in Nat, NEW b \in Nat
    PROVE  Max({a, b}) = IF a <= b THEN b ELSE a
<1>1. {a, b} \in SUBSET (0..(a + b)) /\ {a, b} # {} /\ a + b \in Nat
  OBVIOUS
<1>2. Max({a, b}) \in {a, b} /\ \A n \in {a, b} : n <= Max({a, b})
  BY <1>1, MaxIsGreatest
<1> QED
  BY <1>2

\* LIMIT takes an interval from its beginning.
LEMMA FirstOfInterval ==
    ASSUME NEW a \in Nat, NEW n \in Nat, a <= n
    PROVE  \E b \in a .. n : FirstOf((a + 1) .. n) = (a + 1) .. b
<1> DEFINE b == IF a + Batch <= n THEN a + Batch ELSE n
<1>1. Batch \in Nat /\ b \in a .. n
  BY CloudAssumption
<1>2. ASSUME NEW s \in (a + 1) .. n
      PROVE  Cardinality({t \in (a + 1) .. n : t < s}) = s - 1 - a
  <2> DEFINE B == {t \in (a + 1) .. n : t < s}
  <2>1. B = (a + 1) .. (s - 1) /\ a + 1 \in Int /\ s - 1 \in Int
    OBVIOUS
  <2> HIDE DEF B
  <2>2. Cardinality((a + 1) .. (s - 1)) = IF a + 1 > s - 1 THEN 0 ELSE (s - 1) - (a + 1) + 1
    BY <2>1, FS_Interval
  <2>3. Cardinality(B) = s - 1 - a
    BY <2>1, <2>2
  <2> QED
    BY <2>3 DEF B
<1>3. FirstOf((a + 1) .. n) = {s \in (a + 1) .. n : s - 1 - a < Batch}
  BY <1>2 DEF FirstOf
<1>4. {s \in (a + 1) .. n : s - 1 - a < Batch} = (a + 1) .. b
  BY <1>1
<1> QED
  BY <1>1, <1>3, <1>4

\* LIMIT takes the least numbers of a set, and at least one.
LEMMA FirstOfLeast ==
    ASSUME NEW S, NEW n \in Nat, S \subseteq 1..n
    PROVE  /\ FirstOf(S) \subseteq S
           /\ \A s \in FirstOf(S), t \in S : t < s => t \in FirstOf(S)
           /\ S # {} => FirstOf(S) # {}
<1>1. FirstOf(S) \subseteq S
  BY DEF FirstOf
<1>2. ASSUME NEW s \in FirstOf(S), NEW t \in S, t < s PROVE t \in FirstOf(S)
  <2> DEFINE Below(m) == {u \in S : u < m}
  <2>1. /\ s \in Nat /\ t \in Nat /\ S \subseteq Nat /\ 1 \in Int /\ n \in Int
        /\ Cardinality(Below(s)) < Batch
    BY <1>1 DEF FirstOf
  <2>2. Below(t) \in SUBSET Below(s) /\ Below(s) \in SUBSET (1..n)
    <3>1. \A u \in S : u < t => u < s
      BY <1>2, <2>1
    <3> QED
      BY <3>1
  <2>7. Cardinality(Below(t)) < Batch => t \in FirstOf(S)
    BY DEF FirstOf
  <2> HIDE DEF Below
  <2>3. IsFiniteSet(1..n)
    BY <2>1, FS_Interval
  <2>4. IsFiniteSet(Below(s))
    BY <2>2, <2>3, FS_Subset
  <2>5. IsFiniteSet(Below(t)) /\ Cardinality(Below(t)) <= Cardinality(Below(s))
    BY <2>2, <2>4, FS_Subset
  <2>6. Cardinality(Below(t)) \in Nat /\ Cardinality(Below(s)) \in Nat /\ Batch \in Nat
    BY <2>4, <2>5, FS_CardinalityType, CloudAssumption
  <2>8. Cardinality(Below(s)) < Batch
    BY <2>1
  <2> HIDE DEF Below
  <2> QED
    BY <2>5, <2>6, <2>7, <2>8
<1>3. ASSUME S # {} PROVE FirstOf(S) # {}
  <2> S \in SUBSET Nat
    OBVIOUS
  <2>1. PICK m \in S : \A s \in S : m <= s
    BY <1>3, MinIsLeast
  <2>2. ASSUME NEW t \in S, t < m PROVE FALSE
    <3>1. m <= t /\ m \in Nat /\ t \in Nat
      BY <2>1
    <3> QED
      BY <2>2, <3>1
  <2>3. {t \in S : t < m} = {}
    BY <2>2, Zenon
  <2>4. Cardinality({}) = 0
    BY FS_EmptySet, Zenon
  <2>5. Cardinality({t \in S : t < m}) = 0
    BY <2>3, <2>4, Zenon
  <2> QED
    BY <2>5, CloudAssumption DEF FirstOf
<1> QED
  BY <1>1, <1>2, <1>3

\* A step that writes no row and records none settles none.
LEMMA SameLog ==
    ASSUME UNCHANGED <<outbox, outbound, committed>>
    PROVE  /\ Recorded' = Recorded
           /\ \A s : Refused(s)' <=> Refused(s)
           /\ \A s : Settled(s)' <=> Settled(s)
BY DEF Recorded, Refused, Settled

\* Nothing is written, recorded or known of the calls when the server starts.
LEMMA Starts ==
    ASSUME Init
    PROVE  IInv
<1>1. /\ outbox \in Seq(RowSet) /\ outbox = <<>> /\ Len(outbox) = 0 /\ DOMAIN outbox = {}
      /\ outbound \in Seq(DOMAIN outbox) /\ Len(outbound) = 0 /\ DOMAIN outbound = {}
  BY EmptySeq DEF Init
<1>2. /\ tick = Waiting /\ committed = {} /\ pushed = {} /\ pulled = {} /\ stored = {}
      /\ lastPushed = 0 /\ lastPulled = 0 /\ lastSeq = 0 /\ losses = 0 /\ faults = 0
      /\ products = [p \in Products |-> 0] /\ mirror = [x \in Subjects |-> 0]
      /\ requests = [r \in Requests |-> Free]
  BY DEF Init
<1>3. \A r \in Requests : requests[r] = Free
  BY <1>2
<1>4. requests \in [Requests -> CallSet]
  BY <1>1, <1>2 DEF Free, CallSet, Ats
<1>5. ~ overlapped /\ overlapped \in BOOLEAN
  BY Zenon DEF Init
<1>6. Recorded = {}
  BY <1>2 DEF Recorded
<1>7. TypeOK
  BY <1>1, <1>2, <1>4, <1>5, CloudAssumption DEF TypeOK, RowSet, CallSet, Ats, Waiting
<1>8. Written /\ Calls /\ Pushing
  BY <1>1, <1>2, <1>3 DEF Written, Calls, Pushing, Free, Waiting
<1>9. Sound /\ Applied
  BY <1>2, <1>3, <1>6 DEF Sound, Applied, Free
<1>10. Growing /\ Reading
  BY <1>2, <1>3 DEF Growing, Reading, Free, Waiting
<1>11. Alone /\ Newest
  BY <1>2, <1>3, <1>6 DEF Alone, Newest, Free
<1> QED
  BY <1>7, <1>8, <1>9, <1>10, <1>11 DEF IInv

-------------------------------------------------------------------------------
(* What the cafe writes *)

\* Rows are written behind those that are there, and nothing else is touched.
LEMMA GrowStep ==
    ASSUME IInv, NEW rows \in Seq(RowSet), Enqueue(rows),
           products' \in [Products -> 0..Len(outbox')],
           \A i \in DOMAIN rows :
             /\ rows[i].kind = "order" => rows[i].of \in OrderIds
             /\ rows[i].kind = "product" => rows[i].of \in Products
             /\ rows[i].kind = "refund" => \E t \in DOMAIN outbox : outbox[t] = Row("order", rows[i].of)
    PROVE  IInv'
<1>0. /\ outbox' = outbox \o rows /\ Len(outbox) + Len(rows) <= MaxRows
      /\ UNCHANGED <<pushed, lastPushed, lastPulled, tick, requests, mirror, stored, outbound,
                     committed, lastSeq, overlapped, pulled, losses, faults>>
  BY DEF Enqueue, cloud, log
<1>1. /\ Len(outbox) \in Nat /\ DOMAIN outbox = 1..Len(outbox) /\ outbox \in Seq(RowSet)
      /\ Len(rows) \in Nat /\ DOMAIN rows = 1..Len(rows)
  BY Numbers, LenProperties DEF IInv
<1>2. /\ outbox' \in Seq(RowSet) /\ Len(outbox') = Len(outbox) + Len(rows)
      /\ DOMAIN outbox' = 1..Len(outbox')
      /\ \A s \in DOMAIN outbox : outbox'[s] = outbox[s]
      /\ \A s \in DOMAIN outbox' :
           s \notin DOMAIN outbox => s - Len(outbox) \in DOMAIN rows /\ outbox'[s] = rows[s - Len(outbox)]
  <2>1. outbox \o rows \in Seq(RowSet) /\ Len(outbox \o rows) = Len(outbox) + Len(rows)
    BY <1>1, ConcatProperties
  <2>2. \A i \in 1 .. Len(outbox) + Len(rows) :
          (outbox \o rows)[i] = IF i <= Len(outbox) THEN outbox[i] ELSE rows[i - Len(outbox)]
    BY <1>1, ConcatProperties
  <2>3. DOMAIN outbox' = 1..Len(outbox')
    BY <1>0, <2>1, LenProperties
  <2> QED
    BY <1>0, <1>1, <2>1, <2>2, <2>3
<1>3. DOMAIN outbox \subseteq DOMAIN outbox' /\ Len(outbox) <= Len(outbox')
  BY <1>1, <1>2
<1>4. Recorded' = Recorded /\ Recorded \subseteq DOMAIN outbox
  BY <1>0, Numbers DEF Recorded, IInv
<1>5. \A s \in DOMAIN outbox : (Refused(s)' <=> Refused(s)) /\ (Settled(s)' <=> Settled(s))
  BY <1>2, <1>4 DEF Refused, Settled
<1>6. /\ \A r \in Requests : Env(r)' = Env(r) /\ (Awaited(r)' <=> Awaited(r))
      /\ \A r \in Requests : requests[r].at \in {"apply", "record", "commit"} => Env(r) \in DOMAIN outbox
  BY <1>0, OldestEnvelope DEF Env, Awaited, IInv, Calls
<1>7. TypeOK'
  <2>1. outbound' \in Seq(DOMAIN outbox')
    BY <1>0, <1>3, SeqMonotonic DEF IInv, TypeOK
  <2>2. requests' \in [Requests -> CallSet']
    BY <1>0, <1>1, <1>2, <1>3 DEF IInv, TypeOK, CallSet, Ats
  <2>3. 0..Len(outbox) \subseteq 0..Len(outbox')
    BY <1>1, <1>2
  <2>4. mirror' \in [Subjects -> 0..Len(outbox')]
    BY <1>0, <2>3 DEF IInv, TypeOK
  <2>5. {lastPushed, lastSeq}' \subseteq 0..Len(outbox') /\ (pushed \cup stored \cup pulled)' \subseteq DOMAIN outbox'
    BY <1>0, <1>3, <2>3 DEF IInv, TypeOK
  <2> QED
    BY <1>0, <1>2, <2>1, <2>2, <2>4, <2>5 DEF IInv, TypeOK, RowSet, CallSet, Ats
<1>8. Written'
  <2> SUFFICES ASSUME NEW s \in DOMAIN outbox'
               PROVE  /\ outbox'[s].kind = "order" => outbox'[s].of \in OrderIds
                      /\ outbox'[s].kind = "product" => outbox'[s].of \in Products
                      /\ outbox'[s].kind = "refund" =>
                           \E t \in 1..(s - 1) : outbox'[t] = Row("order", outbox'[s].of)
    BY DEF Written
  <2>1. CASE s \in DOMAIN outbox
    <3>1. outbox'[s] = outbox[s] /\ s \in 1..Len(outbox)
      BY <1>1, <1>2, <2>1
    <3>2. \A t \in 1..(s - 1) : outbox'[t] = outbox[t]
      BY <1>1, <1>2, <3>1, SMTT(30)
    <3>3. /\ outbox[s].kind = "order" => outbox[s].of \in OrderIds
          /\ outbox[s].kind = "product" => outbox[s].of \in Products
          /\ outbox[s].kind = "refund" => \E t \in 1..(s - 1) : outbox[t] = Row("order", outbox[s].of)
      BY <2>1 DEF IInv, Written
    <3> QED
      BY ONLY <3>1, <3>2, <3>3
  <2>2. CASE s \notin DOMAIN outbox
    <3>1. s - Len(outbox) \in DOMAIN rows /\ outbox'[s] = rows[s - Len(outbox)]
      BY <1>2, <2>2
    <3>2. DOMAIN outbox \subseteq 1..(s - 1)
      BY <1>1, <1>2, <2>2
    <3> QED
      BY <1>2, <3>1, <3>2
  <2> QED
    BY <2>1, <2>2
<1>9. Calls'
  BY <1>0, <1>5, <1>6 DEF IInv, Calls
<1>10. Pushing'
  BY <1>0, <1>1, <1>2 DEF IInv, Pushing
<1>11. Sound'
  <2>1. /\ \A r \in Requests : requests[r].ack \in 0..Len(outbox) /\ requests[r].rest \subseteq DOMAIN outbox
        /\ pushed \subseteq DOMAIN outbox
    BY DEF IInv, TypeOK
  <2>2. /\ \A r \in Requests : 1..requests[r].ack \subseteq DOMAIN outbox
        /\ \A s \in DOMAIN outbox : 1..(s - 1) \subseteq DOMAIN outbox
    BY <1>1, <2>1
  <2> QED
    BY <1>0, <1>4, <1>5, <2>1, <2>2 DEF IInv, Sound
<1>12. Applied' /\ Newest'
  BY <1>0, <1>2, <1>4, <1>6 DEF IInv, Applied, Newest
<1>13. Growing' /\ Reading' /\ Alone'
  BY <1>0, <1>4, <1>6 DEF IInv, Growing, Reading, Alone, Tangled
<1> QED
  BY <1>7, <1>8, <1>9, <1>10, <1>11, <1>12, <1>13 DEF IInv

\* An order, a payment, a refund or an edit of the catalog is such a step.
LEMMA WriteStep ==
    ASSUME IInv, Write
    PROVE  IInv'
<1>0. /\ OrderIds \subseteq Subjects /\ Products \subseteq Subjects
      /\ {"order", "refund", "product", "partial", "stock", "audit"} = Kinds
      /\ Len(outbox) \in Nat /\ products \in [Products -> 0..Len(outbox)]
      /\ outbox \in Seq(RowSet)
  BY Numbers DEF Subjects, Kinds, IInv, TypeOK
<1>1. ASSUME NEW rows \in Seq(RowSet), Enqueue(rows), UNCHANGED products
      PROVE  products' \in [Products -> 0..Len(outbox')]
  <2>1. Len(outbox') = Len(outbox) + Len(rows) /\ Len(rows) \in Nat
    BY <1>0, <1>1, ConcatProperties, LenProperties DEF Enqueue
  <2> QED
    BY <1>0, <1>1, <2>1
<1>2. ASSUME NEW o \in OrderIds, NEW drew \in BOOLEAN, WriteOrder(o, drew)
      PROVE  IInv'
  <2>1. CASE drew
    <3> DEFINE rows == <<Row("stock", o)>> \o <<Row("order", o)>>
    <3>1. <<Row("stock", o)>> \in Seq(RowSet) /\ <<Row("order", o)>> \in Seq(RowSet)
      BY <1>0 DEF Row, RowSet
    <3>2. /\ rows \in Seq(RowSet) /\ DOMAIN rows = 1..2
          /\ rows[1] = Row("stock", o) /\ rows[2] = Row("order", o)
      BY <3>1, ConcatProperties, LenProperties
    <3>3. Enqueue(rows) /\ UNCHANGED products
      BY <1>2, <2>1 DEF WriteOrder
    <3>4. \A i \in DOMAIN rows :
            rows[i].of = o /\ rows[i].kind \in {"stock", "order"}
      BY <3>2 DEF Row
    <3> HIDE DEF rows
    <3> QED
      BY <1>1, <3>2, <3>3, <3>4, GrowStep
  <2>2. CASE ~ drew
    <3> DEFINE rows == <<>> \o <<Row("order", o)>>
    <3>1. rows \in Seq(RowSet) /\ rows = <<Row("order", o)>>
      BY <1>0 DEF Row, RowSet
    <3>2. Enqueue(rows) /\ UNCHANGED products
      BY <1>2, <2>2 DEF WriteOrder
    <3>3. \A i \in DOMAIN rows : rows[i].of = o /\ rows[i].kind = "order"
      BY <3>1 DEF Row
    <3> HIDE DEF rows
    <3> QED
      BY <1>1, <3>1, <3>2, <3>3, GrowStep
  <2> QED
    BY <2>1, <2>2
<1>3. ASSUME NEW o \in OrderIds, UpdateOrder(o)
      PROVE  IInv'
  <2> DEFINE rows == <<Row("order", o)>>
  <2>1. rows \in Seq(RowSet) /\ \A i \in DOMAIN rows : rows[i].of = o /\ rows[i].kind = "order"
    BY <1>0 DEF Row, RowSet
  <2>2. Enqueue(rows) /\ UNCHANGED products
    BY <1>3 DEF UpdateOrder
  <2> HIDE DEF rows
  <2> QED
    BY <1>1, <2>1, <2>2, GrowStep
<1>4. ASSUME NEW o \in OrderIds, WriteRefund(o)
      PROVE  IInv'
  <2> DEFINE rows == <<Row("refund", o), Row("order", o)>>
  <2>1. rows \in Seq(RowSet) /\ \A i \in DOMAIN rows : rows[i].of = o /\ rows[i].kind \in {"refund", "order"}
    BY <1>0 DEF Row, RowSet
  <2>2. Enqueue(rows) /\ UNCHANGED products /\ \E t \in DOMAIN outbox : outbox[t] = Row("order", o)
    BY <1>4 DEF WriteRefund, Known
  <2> HIDE DEF rows
  <2> QED
    BY <1>1, <2>1, <2>2, GrowStep
<1>5. ASSUME NEW p \in Products, NEW kind \in {"product", "partial"}, EditProduct(p, kind)
      PROVE  IInv'
  <2> DEFINE rows == <<Row("audit", p), Row(kind, p)>>
  <2>1. /\ rows \in Seq(RowSet) /\ Len(rows) = 2
        /\ \A i \in DOMAIN rows : rows[i].of = p /\ rows[i].kind \in {"audit", "product", "partial"}
    BY <1>0 DEF Row, RowSet
  <2>2. Enqueue(rows) /\ products' = [products EXCEPT ![p] = Len(outbox) + 2]
    BY <1>5 DEF EditProduct
  <2> HIDE DEF rows
  <2>3. Len(outbox') = Len(outbox) + 2
    <3>1. outbox' = outbox \o rows
      BY <2>2 DEF Enqueue
    <3>2. Len(outbox \o rows) = Len(outbox) + Len(rows)
      BY <1>0, <2>1, ConcatProperties
    <3> QED
      BY <2>1, <3>1, <3>2
  <2>4. products' \in [Products -> 0..Len(outbox')]
    BY <1>0, <2>2, <2>3
  <2> QED
    BY <2>1, <2>2, <2>4, GrowStep
<1> QED
  BY <1>2, <1>3, <1>4, <1>5 DEF Write

-------------------------------------------------------------------------------
(* The tick of the sync engine *)

\* The rows to push are those behind the cursor, without a gap.
LEMMA PendingInterval ==
    ASSUME IInv
    PROVE  Pending = (lastPushed + 1) .. Len(outbox)
<1>1. DOMAIN outbox = 1..Len(outbox) /\ Len(outbox) \in Nat /\ lastPushed \in Nat
  BY Numbers DEF IInv
<1>2. pushed = 1..lastPushed
  BY DEF IInv, Pushing
<1> QED
  BY <1>1, <1>2 DEF Pending

\* A tick with nothing to push goes on to the pull.
LEMMA TickPulls ==
    ASSUME IInv, Tick, Pending = {}
    PROVE  IInv'
<1>0. /\ tick.at = "idle" /\ tick' = Pulling
      /\ UNCHANGED <<outbox, pushed, lastPushed, lastPulled, products, requests, mirror, stored, outbound,
                     committed, lastSeq, overlapped, pulled, losses, faults>>
  BY DEF Tick, log
<1>1. Recorded' = Recorded /\ \A s : (Refused(s)' <=> Refused(s)) /\ (Settled(s)' <=> Settled(s))
  BY <1>0, SameLog
<1>2. \A r \in Requests : Env(r)' = Env(r) /\ ~ Awaited(r)
  BY <1>0 DEF Env, Awaited
<1>3. tick' \in [at : {"idle", "push", "pull", "pulled"}, by : Requests \cup {0}, batch : SUBSET Nat]
  BY <1>0 DEF Pulling
<1>4. TypeOK'
  BY <1>0, <1>3 DEF IInv, TypeOK
<1>5. Written' /\ Applied' /\ Growing' /\ Alone' /\ Newest'
  BY <1>0, <1>1, <1>2 DEF IInv, Written, Applied, Growing, Tangled, Alone, Newest
<1>6. Sound'
  BY <1>0, <1>1 DEF IInv, Sound
<1>7. Calls'
  BY <1>0, <1>1, <1>2 DEF IInv, Calls
<1>8. Pushing' /\ Reading'
  BY <1>0 DEF IInv, Pushing, Reading, Tangled, Pulling
<1> QED
  BY <1>4, <1>5, <1>6, <1>7, <1>8 DEF IInv

\* A tick that has rows to push sends the next batch to a call of its own.
LEMMA TickPushes ==
    ASSUME IInv, Tick, Pending # {}
    PROVE  IInv'
<1>1. PICK r \in Requests :
        /\ requests[r] = Free
        /\ requests' = [requests EXCEPT ![r] =
             [at |-> "look", rest |-> FirstOf(Pending), ack |-> lastPushed, drawn |-> 0]]
        /\ tick' = [at |-> "push", by |-> r, batch |-> FirstOf(Pending)]
        /\ overlapped' = (overlapped \/ \E q \in Requests : requests[q] # Free)
  BY DEF Tick, Pulling
<1>0. /\ tick.at = "idle"
      /\ UNCHANGED <<outbox, pushed, lastPushed, lastPulled, products, mirror, stored, outbound,
                     committed, lastSeq, pulled, losses, faults>>
  BY DEF Tick, log
<1>2. PICK b \in lastPushed .. Len(outbox) : FirstOf(Pending) = (lastPushed + 1) .. b
  <2>1. lastPushed \in Nat /\ Len(outbox) \in Nat /\ lastPushed <= Len(outbox)
    BY Numbers DEF IInv, TypeOK
  <2> QED
    BY <2>1, PendingInterval, FirstOfInterval
<1>3. /\ Len(outbox) \in Nat /\ DOMAIN outbox = 1..Len(outbox) /\ lastPushed \in Nat
      /\ requests \in [Requests -> CallSet] /\ Len(outbound) \in Nat
  BY Numbers DEF IInv, TypeOK, CallSet, Ats
<1> DEFINE batch == (lastPushed + 1) .. b
<1>4. batch \subseteq DOMAIN outbox /\ batch \subseteq Nat
  BY <1>3
<1>5. /\ requests'[r] = [at |-> "look", rest |-> batch, ack |-> lastPushed, drawn |-> 0]
      /\ \A q \in Requests : q # r => requests'[q] = requests[q]
      /\ requests' \in [Requests -> CallSet]
  <2>1. [at |-> "look", rest |-> batch, ack |-> lastPushed, drawn |-> 0] \in CallSet
    BY <1>2, <1>3, <1>4 DEF CallSet, Ats
  <2> QED
    BY <1>1, <1>2, <1>3, <2>1
<1>6. Recorded' = Recorded /\ \A s : (Refused(s)' <=> Refused(s)) /\ (Settled(s)' <=> Settled(s))
  BY <1>0, SameLog
<1>7. \A q \in Requests :
        /\ ~ Awaited(q) /\ requests[q].at # "answered"
        /\ q # r => Env(q)' = Env(q)
  BY <1>0, <1>5 DEF Env, Awaited, IInv, Calls
<1>8. tick' \in [at : {"idle", "push", "pull", "pulled"}, by : Requests \cup {0}, batch : SUBSET Nat]
  BY <1>1, <1>2, <1>4
<1>9. overlapped' \in BOOLEAN
  BY <1>1
<1>10. (overlapped => overlapped') /\ (~ overlapped' => \A q \in Requests : requests[q] = Free)
  BY <1>1, Zenon
<1>11. TypeOK'
  BY <1>0, <1>5, <1>8, <1>9 DEF IInv, TypeOK, CallSet, Ats
<1>12. Written'
  BY <1>0 DEF IInv, Written
<1>13. Calls'
  BY <1>0, <1>5, <1>6, <1>7 DEF IInv, Calls
<1>14. Pushing'
  BY <1>0, <1>1, <1>2, <1>5 DEF IInv, Pushing
<1>15. Sound'
  <2>1. \A q \in Requests : requests'[q].ack = IF q = r THEN lastPushed ELSE requests[q].ack
    BY <1>5
  <2>2. \A q \in Requests : requests'[q].rest = IF q = r THEN batch ELSE requests[q].rest
    BY <1>5
  <2>3. ASSUME faults = 0 PROVE \A s \in 1..lastPushed : Settled(s)
    BY <2>3 DEF IInv, Sound, Pushing
  <2>4. \A s \in batch : \A t \in 1..(s - 1) : t \in batch \/ t \in 1..lastPushed
    BY <1>2, <1>3
  <2> HIDE DEF batch
  <2> QED
    BY <1>0, <1>6, <2>1, <2>2, <2>3, <2>4 DEF IInv, Sound
<1>16. Applied'
  BY <1>0, <1>5, <1>6, <1>7 DEF IInv, Applied
<1>17. Growing'
  BY <1>0, <1>5, <1>6, <1>7, <1>10 DEF IInv, Growing, Tangled
<1>18. Reading'
  BY <1>0, <1>1, <1>10 DEF IInv, Reading, Tangled
<1>19. Alone' /\ Newest'
  BY <1>0, <1>5, <1>6, <1>7, <1>10 DEF IInv, Alone, Newest, Free
<1> QED
  BY <1>11, <1>12, <1>13, <1>14, <1>15, <1>16, <1>17, <1>18, <1>19 DEF IInv

\* The answer moves the cursor and marks the rows up to it, no more.
LEMMA PushAnsweredStep ==
    ASSUME IInv, PushAnswered
    PROVE  IInv'
<1> DEFINE r == tick.by
<1> DEFINE a == requests[r].ack
<1>0. /\ tick.at = "push" /\ requests[r].at = "answered"
      /\ pushed' = pushed \cup Marked(a) /\ lastPushed' = Max({lastPushed, a})
      /\ tick' = Pulling /\ requests' = [requests EXCEPT ![r] = Free]
      /\ UNCHANGED <<outbox, lastPulled, products, mirror, stored, outbound,
                     committed, lastSeq, overlapped, pulled, losses, faults>>
  BY DEF PushAnswered, CursorAfterPush, log
<1>1. /\ Len(outbox) \in Nat /\ DOMAIN outbox = 1..Len(outbox) /\ lastPushed \in Nat
      /\ requests \in [Requests -> CallSet] /\ Len(outbound) \in Nat /\ lastSeq \in 0..Len(outbox)
  BY Numbers DEF IInv, TypeOK, CallSet, Ats
<1>2. r \in Requests /\ a <= lastSeq
  BY <1>0 DEF IInv, Pushing, Calls
<1>3. PICK b \in lastPushed .. Len(outbox) : tick.batch = (lastPushed + 1) .. b
  BY <1>0 DEF IInv, Pushing
<1>4. a \in {lastPushed} \cup tick.batch
  BY <1>0 DEF IInv, Pushing
<1>5. a \in Nat /\ a \in lastPushed .. b
  BY <1>1, <1>3, <1>4
<1> HIDE DEF a
<1>6. lastPushed' = a
  BY <1>0, <1>1, <1>5, MaxOfTwo
<1>7. pushed' = 1..a
  <2>1. pushed = 1..lastPushed
    BY DEF IInv, Pushing
  <2>2. Marked(a) = (lastPushed + 1) .. a
    BY <1>1, <1>3, <1>5 DEF Marked
  <2> QED
    BY <1>0, <1>1, <1>5, <2>1, <2>2
<1>8. /\ requests'[r] = Free
      /\ \A q \in Requests : q # r => requests'[q] = requests[q]
      /\ requests' \in [Requests -> CallSet]
  <2>1. Free \in CallSet
    BY <1>1 DEF Free, CallSet, Ats
  <2> QED
    BY <1>0, <1>1, <1>2, <2>1
<1>9. Recorded' = Recorded /\ \A s : (Refused(s)' <=> Refused(s)) /\ (Settled(s)' <=> Settled(s))
  BY <1>0, SameLog
<1>10. \A q \in Requests :
         /\ q # r => Env(q)' = Env(q)
         /\ q # r => requests[q].at # "answered"
  BY <1>0, <1>8 DEF Env, Awaited, IInv, Calls
<1>11. tick' \in [at : {"idle", "push", "pull", "pulled"}, by : Requests \cup {0}, batch : SUBSET Nat]
  BY <1>0 DEF Pulling
<1>12. TypeOK'
  <2>1. pushed' \subseteq DOMAIN outbox /\ lastPushed' \in 0..Len(outbox)
    BY <1>1, <1>3, <1>5, <1>6, <1>7
  <2> QED
    BY <1>0, <1>8, <1>11, <2>1 DEF IInv, TypeOK, CallSet, Ats
<1>13. Written'
  BY <1>0 DEF IInv, Written
<1>14. Calls'
  BY <1>0, <1>8, <1>9, <1>10 DEF IInv, Calls, Free
<1>15. Pushing'
  BY <1>0, <1>2, <1>6, <1>7 DEF Pushing, Pulling
<1>16. Sound'
  <2>1. faults = 0 => \A s \in 1..a : Settled(s)
    BY <1>2 DEF IInv, Sound, a
  <2>2. requests'[r].ack = 0 /\ requests'[r].rest = {}
    BY <1>8 DEF Free
  <2> QED
    BY <1>0, <1>7, <1>8, <1>9, <2>1, <2>2 DEF IInv, Sound
<1>17. Applied'
  BY <1>0, <1>8, <1>9, <1>10 DEF IInv, Applied, Free
<1>18. Growing'
  BY <1>0, <1>8, <1>9, <1>10 DEF IInv, Growing, Tangled, Free
<1>19. Reading'
  BY <1>0 DEF IInv, Reading, Tangled, Pulling
<1>20. Alone' /\ Newest'
  BY <1>0, <1>8, <1>9, <1>10 DEF IInv, Alone, Newest, Free
<1> QED
  BY <1>12, <1>13, <1>14, <1>15, <1>16, <1>17, <1>18, <1>19, <1>20 DEF IInv

-------------------------------------------------------------------------------
(* The calls of ingestBatch *)

\* When a call goes on to the next envelope, and the one it leaves is settled or
\* was kept out by an accident, all that is behind the call stays settled.
LEMMA OnwardStep ==
    ASSUME IInv, NEW r \in Requests, NEW ack, ack \in {requests[r].ack, Env(r)},
           requests[r].at \notin {"free", "answered"}, requests[r].rest # {},
           requests' = [requests EXCEPT ![r] = Onward(r, ack)],
           UNCHANGED <<cafe, mirror, stored, outbound, lastSeq, overlapped, losses>>,
           faults' \in faults .. MaxFaults,
           committed \subseteq committed', committed' \subseteq DOMAIN outbound,
           Recorded' \subseteq Recorded \cup {Env(r)},
           faults' = 0 => Env(r) \in Recorded' \/ Refused(Env(r))
    PROVE  TypeOK' /\ Written' /\ Calls' /\ Pushing' /\ Sound'
<1>0. UNCHANGED <<outbox, pushed, lastPushed, lastPulled, products, tick, pulled, mirror, stored,
                  outbound, lastSeq, overlapped, losses>>
  BY DEF cafe
<1>1. /\ Len(outbox) \in Nat /\ DOMAIN outbox = 1..Len(outbox) /\ lastPushed \in Nat
      /\ requests \in [Requests -> CallSet] /\ Len(outbound) \in Nat /\ faults \in 0..MaxFaults
      /\ MaxFaults \in Nat
  BY Numbers DEF IInv, TypeOK, CallSet, Ats
<1>2. /\ Env(r) \in requests[r].rest /\ Env(r) \in DOMAIN outbox
      /\ \A s \in requests[r].rest : Env(r) <= s
      /\ requests[r].rest \subseteq DOMAIN outbox
  BY OldestEnvelope DEF IInv
<1>3. /\ requests'[r] = [at |-> "look", rest |-> requests[r].rest \ {Env(r)}, ack |-> ack, drawn |-> 0]
      /\ \A q \in Requests : q # r => requests'[q] = requests[q]
      /\ requests' \in [Requests -> CallSet]
  <2>1. ack \in 0..Len(outbox)
    BY <1>1, <1>2 DEF CallSet
  <2>2. Onward(r, ack) \in CallSet
    BY <1>1, <1>2, <2>1 DEF Onward, CallSet, Ats
  <2> QED
    BY <1>1, <2>2 DEF Onward
<1>4. \A q \in Requests : q # r => Env(q)' = Env(q)
  BY <1>3 DEF Env
<1>5. \A q \in Requests : Awaited(q)' <=> Awaited(q)
  BY <1>0 DEF Awaited
<1>6. \A s : Refused(s)' <=> Refused(s)
  BY <1>0 DEF Refused
<1>7. \A s : Settled(s) => Settled(s)'
  <2>1. Recorded \subseteq Recorded'
    BY <1>0 DEF Recorded
  <2> QED
    BY <1>6, <2>1 DEF Settled
<1>8. TypeOK'
  <2>1. faults' \in 0..MaxFaults
    BY <1>1
  <2>2. committed' \subseteq DOMAIN outbound' /\ {lastPushed, lastSeq}' \subseteq 0..Len(outbox')
    BY <1>0 DEF IInv, TypeOK
  <2> QED
    BY <1>0, <1>3, <2>1, <2>2 DEF IInv, TypeOK, CallSet, Ats
<1>9. Written'
  BY <1>0 DEF IInv, Written
<1>10. Calls'
  BY <1>0, <1>3, <1>4, <1>5, <1>6 DEF IInv, Calls
<1>11. Pushing'
  <2> SUFFICES ASSUME tick.at = "push"
               PROVE  /\ tick.by \in Requests /\ requests'[tick.by].at # "free"
                      /\ requests'[tick.by].rest \subseteq tick.batch
                      /\ requests'[tick.by].ack \in {lastPushed} \cup tick.batch
    BY <1>0 DEF IInv, Pushing
  <2>1. CASE tick.by = r
    BY <1>2, <1>3, <2>1 DEF IInv, Pushing
  <2>2. CASE tick.by # r
    BY <1>3, <2>2 DEF IInv, Pushing
  <2> QED
    BY <2>1, <2>2
<1>12. Sound'
  <2> SUFFICES ASSUME faults' = 0
               PROVE  /\ \A s \in pushed : Settled(s)'
                      /\ \A q \in Requests :
                           /\ \A s \in 1..requests'[q].ack : Settled(s)'
                           /\ \A s \in requests'[q].rest : \A t \in 1..(s - 1) :
                                t \in requests'[q].rest \/ Settled(t)'
                      /\ \A s \in Recorded' : \A t \in 1..(s - 1) : Settled(t)'
    BY <1>0 DEF Sound
  <2>1. faults = 0 /\ \A s : s = Env(r) => Settled(s)'
    BY <1>1, <1>6 DEF Settled
  <2>2. /\ \A s \in pushed : Settled(s)
        /\ \A q \in Requests :
             /\ \A s \in 1..requests[q].ack : Settled(s)
             /\ \A s \in requests[q].rest : \A t \in 1..(s - 1) : t \in requests[q].rest \/ Settled(t)
        /\ \A s \in Recorded : \A t \in 1..(s - 1) : Settled(t)
    BY <2>1 DEF IInv, Sound
  <2>3. \A t \in 1..(Env(r) - 1) : Settled(t)
    <3> TAKE t \in 1..(Env(r) - 1)
    <3>1. t \notin requests[r].rest
      BY <1>1, <1>2
    <3> QED
      BY <1>2, <2>2, <3>1
  <2>4. \A t \in 1..Env(r) : Settled(t)'
    <3> TAKE t \in 1..Env(r)
    <3>1. t = Env(r) \/ t \in 1..(Env(r) - 1)
      BY <1>1, <1>2
    <3> QED
      BY <1>7, <2>1, <2>3, <3>1
  <2>5. \A s \in 1..requests'[r].ack : Settled(s)'
    BY <1>3, <1>7, <2>2, <2>4
  <2>6. \A s \in requests'[r].rest : \A t \in 1..(s - 1) : t \in requests'[r].rest \/ Settled(t)'
    <3> TAKE s \in requests'[r].rest
    <3> TAKE t \in 1..(s - 1)
    <3>1. requests'[r].rest = requests[r].rest \ {Env(r)}
      BY <1>3
    <3>2. t \in requests[r].rest \/ Settled(t)
      BY <2>2, <3>1
    <3>3. CASE t = Env(r)
      BY <2>1, <3>3
    <3>4. CASE t # Env(r)
      BY <1>7, <3>1, <3>2, <3>4
    <3> QED
      BY <3>3, <3>4
  <2>7. \A s \in Recorded' : \A t \in 1..(s - 1) : Settled(t)'
    BY <1>7, <2>2, <2>3
  <2>8. ASSUME NEW q \in Requests, q # r
        PROVE  /\ \A s \in 1..requests'[q].ack : Settled(s)'
               /\ \A s \in requests'[q].rest : \A t \in 1..(s - 1) : t \in requests'[q].rest \/ Settled(t)'
    BY <1>3, <1>7, <2>2, <2>8
  <2> QED
    BY <1>7, <2>2, <2>5, <2>6, <2>7, <2>8
<1> QED
  BY <1>8, <1>9, <1>10, <1>11, <1>12

\* If it records nothing on the way, the rest holds as well.
LEMMA OnwardUnrecorded ==
    ASSUME IInv, NEW r \in Requests, NEW ack, ack \in {requests[r].ack, Env(r)},
           requests[r].at \notin {"free", "answered"}, requests[r].rest # {},
           requests' = [requests EXCEPT ![r] = Onward(r, ack)],
           UNCHANGED <<cafe, mirror, stored, outbound, committed, lastSeq, overlapped, losses>>,
           faults' \in faults .. MaxFaults,
           faults' = 0 => Settled(Env(r))
    PROVE  IInv'
<1>0. UNCHANGED <<outbox, tick, pulled, lastPulled, mirror, outbound, committed, overlapped>>
  BY DEF cafe
<1>1. Recorded' = Recorded /\ \A s : (Refused(s)' <=> Refused(s)) /\ (Settled(s)' <=> Settled(s))
  BY <1>0, SameLog
<1>2. /\ requests \in [Requests -> CallSet] /\ committed \subseteq DOMAIN outbound
      /\ faults \in Nat /\ MaxFaults \in Nat
  BY Numbers DEF IInv, TypeOK, CallSet, Ats
<1>3. TypeOK' /\ Written' /\ Calls' /\ Pushing' /\ Sound'
  <2>1. faults' = 0 => Env(r) \in Recorded' \/ Refused(Env(r))
    BY <1>1 DEF Settled
  <2>2. /\ committed \subseteq committed' /\ committed' \subseteq DOMAIN outbound
        /\ Recorded' \subseteq Recorded \cup {Env(r)}
    BY <1>0, <1>1, <1>2
  <2> QED
    BY <2>1, <2>2, OnwardStep
<1>4. /\ requests'[r].at = "look"
      /\ \A q \in Requests : q # r => requests'[q] = requests[q] /\ Env(q)' = Env(q)
  BY <1>2 DEF Onward, Env
<1>5. (faults' = 0 => faults = 0) /\ (faults > 0 => faults' > 0)
  BY <1>2
<1>6. Applied'
  BY <1>0, <1>1, <1>4 DEF IInv, Applied
<1>7. Growing'
  BY <1>0, <1>1, <1>4, <1>5 DEF IInv, Growing, Tangled
<1>8. Reading'
  BY <1>0, <1>5 DEF IInv, Reading, Tangled
<1>9. Alone' /\ Newest'
  BY <1>0, <1>1, <1>4, <1>5 DEF IInv, Alone, Newest
<1> QED
  BY <1>3, <1>6, <1>7, <1>8, <1>9 DEF IInv

\* What an acknowledged envelope makes of ack.
LEMMA AcceptedAck ==
    ASSUME IInv, NEW r \in Requests, requests[r].rest # {}
    PROVE  Max({requests[r].ack, Env(r)}) \in {requests[r].ack, Env(r)}
<1>1. requests[r].ack \in 0..Len(outbox)
  BY DEF IInv, TypeOK
<1>2. Len(outbox) \in Nat /\ DOMAIN outbox = 1..Len(outbox)
  BY Numbers DEF IInv
<1>3. Env(r) \in DOMAIN outbox
  BY OldestEnvelope DEF IInv
<1>4. requests[r].ack \in Nat /\ Env(r) \in Nat
  BY <1>1, <1>2, <1>3
<1> QED
  BY <1>4, MaxOfTwo

\* The lookup: an envelope that is recorded is acknowledged, another applied.
LEMMA LookupStep ==
    ASSUME IInv, NEW r \in Requests, Lookup(r)
    PROVE  IInv'
<1>0. /\ requests[r].at = "look" /\ requests[r].rest # {}
      /\ UNCHANGED <<cafe, mirror, stored, log, lastSeq, overlapped, losses, faults>>
      /\ requests' = [requests EXCEPT ![r] = LookedUp(r)]
  BY DEF Lookup
<1>1. CASE Env(r) \in Recorded
  <2> DEFINE ack == Max({requests[r].ack, Env(r)})
  <2>1. requests' = [requests EXCEPT ![r] = Onward(r, ack)]
    BY <1>0, <1>1 DEF LookedUp, Accepted
  <2>2. Settled(Env(r)) /\ ack \in {requests[r].ack, Env(r)}
    BY <1>0, <1>1, AcceptedAck DEF Settled
  <2>3. faults' \in faults .. MaxFaults
    BY <1>0, Numbers DEF IInv, TypeOK
  <2> HIDE DEF ack
  <2> QED
    BY <1>0, <2>1, <2>2, <2>3, OnwardUnrecorded DEF log
<1>2. CASE Env(r) \notin Recorded
  <2>0. UNCHANGED <<outbox, pushed, lastPushed, lastPulled, products, tick, pulled, mirror, stored,
                    outbound, committed, lastSeq, overlapped, losses, faults>>
    BY <1>0 DEF cafe, log
  <2>1. requests \in [Requests -> CallSet]
    BY DEF IInv, TypeOK, CallSet, Ats
  <2>2. /\ requests'[r].at = "apply" /\ requests'[r].rest = requests[r].rest
        /\ requests'[r].ack = requests[r].ack
        /\ \A q \in Requests : q # r => requests'[q] = requests[q]
        /\ requests' \in [Requests -> CallSet]
    <3>1. requests' = [requests EXCEPT ![r].at = "apply"]
      BY <1>0, <1>2, <2>1 DEF LookedUp
    <3> QED
      BY <2>1, <3>1 DEF CallSet, Ats
  <2>3. Recorded' = Recorded /\ \A s : (Refused(s)' <=> Refused(s)) /\ (Settled(s)' <=> Settled(s))
    BY <2>0, SameLog
  <2>4. \A q \in Requests : Env(q)' = Env(q) /\ (Awaited(q)' <=> Awaited(q))
    BY <2>0, <2>2 DEF Env, Awaited
  <2>5. TypeOK'
    BY <2>0, <2>2 DEF IInv, TypeOK, CallSet, Ats
  <2>6. Written' /\ Calls'
    BY <1>0, <2>0, <2>2, <2>3, <2>4 DEF IInv, Written, Calls
  <2>7. Pushing' /\ Sound'
    BY <2>0, <2>2, <2>3 DEF IInv, Pushing, Sound
  <2>8. Applied' /\ Growing' /\ Newest'
    BY <2>0, <2>2, <2>3, <2>4 DEF IInv, Applied, Growing, Tangled, Newest
  <2>9. Reading' /\ Alone'
    BY <1>0, <1>2, <2>0, <2>2, <2>3, <2>4 DEF IInv, Reading, Tangled, Alone
  <2> QED
    BY <2>5, <2>6, <2>7, <2>8, <2>9 DEF IInv
<1> QED
  BY <1>1, <1>2

\* Without accidents the constraints keep out what the cloud has no place for,
\* and nothing else: the order of a refund was recorded before it.
LEMMA KeptOutIsRefused ==
    ASSUME IInv, NEW r \in Requests, requests[r].rest # {}, faults = 0, ~ Admits(outbox[Env(r)])
    PROVE  Refused(Env(r))
<1>1. /\ Env(r) \in requests[r].rest /\ Env(r) \in DOMAIN outbox
      /\ \A s \in requests[r].rest : Env(r) <= s
  BY OldestEnvelope DEF IInv
<1>2. /\ DOMAIN outbox = 1..Len(outbox) /\ Len(outbox) \in Nat
      /\ outbox[Env(r)].kind \in Kinds
  BY <1>1, Numbers DEF IInv, RowSet
<1>3. CASE outbox[Env(r)].kind = "refund"
  <2>1. PICK t \in 1..(Env(r) - 1) : outbox[t] = Row("order", outbox[Env(r)].of)
    BY <1>1, <1>3 DEF IInv, Written
  <2>2. t \notin requests[r].rest
    BY <1>1, <1>2
  <2>3. Settled(t)
    BY <1>1, <2>2 DEF IInv, Sound
  <2>4. t \in Recorded /\ outbox[t].kind \in Upserted /\ outbox[t].of = outbox[Env(r)].of
    BY <2>1, <2>3 DEF Settled, Refused, Row, Upserted
  <2>5. mirror[outbox[Env(r)].of] # 0
    BY <2>4 DEF IInv, Applied
  <2> QED
    BY <1>3, <2>5 DEF Admits
<1> QED
  BY <1>2, <1>3 DEF Admits, Refused, Kinds

\* applyEnvelope: the envelope is in the tables, or it is rejected.
LEMMA ApplyStep ==
    ASSUME IInv, NEW r \in Requests, NEW fault \in BOOLEAN, Apply(r, fault)
    PROVE  IInv'
<1>0. /\ requests[r].at = "apply" /\ requests[r].rest # {}
      /\ fault => faults < MaxFaults
      /\ faults' = IF fault THEN faults + 1 ELSE faults
      /\ UNCHANGED <<cafe, log, lastSeq, overlapped, losses>>
  BY DEF Apply, IInv, Calls
<1>1. faults \in Nat /\ MaxFaults \in Nat /\ faults <= MaxFaults
  BY Numbers DEF IInv, TypeOK
<1>2. CASE ~ (Admits(outbox[Env(r)]) /\ ~ fault)
  <2>1. /\ requests' = [requests EXCEPT ![r] = Onward(r, requests[r].ack)]
        /\ UNCHANGED <<mirror, stored, outbound, committed>>
    BY <1>0, <1>2 DEF Apply, Skipped, log
  <2>2. faults' \in faults .. MaxFaults
    BY <1>0, <1>1
  <2>3. faults' = 0 => Settled(Env(r))
    BY <1>0, <1>1, <1>2, KeptOutIsRefused DEF Settled
  <2> QED
    BY <1>0, <2>1, <2>2, <2>3, OnwardUnrecorded
<1>3. CASE Admits(outbox[Env(r)]) /\ ~ fault
  <2> DEFINE e == Env(r)
  <2>0. /\ UNCHANGED <<outbox, pushed, lastPushed, lastPulled, products, tick, pulled,
                       outbound, committed, lastSeq, overlapped, losses, faults>>
        /\ mirror' = Mirrored(e) /\ stored' = stored \cup {e}
        /\ requests' = [requests EXCEPT ![r].at = "record"]
    BY <1>0, <1>3 DEF Apply, cafe, log
  <2>1. requests \in [Requests -> CallSet]
    BY DEF IInv, TypeOK, CallSet, Ats
  <2>2. /\ requests'[r].at = "record" /\ requests'[r].rest = requests[r].rest
        /\ requests'[r].ack = requests[r].ack
        /\ \A q \in Requests : q # r => requests'[q] = requests[q]
        /\ requests' \in [Requests -> CallSet]
    BY <2>0, <2>1 DEF CallSet, Ats
  <2>3. Recorded' = Recorded /\ \A s : (Refused(s)' <=> Refused(s)) /\ (Settled(s)' <=> Settled(s))
    BY <2>0, SameLog
  <2>4. \A q \in Requests : Env(q)' = Env(q) /\ (Awaited(q)' <=> Awaited(q))
    BY <2>0, <2>2 DEF Env, Awaited
  <2>5. /\ e \in DOMAIN outbox /\ e \in 1..Len(outbox) /\ Len(outbox) \in Nat
        /\ outbox[e].kind \in Kinds /\ outbox[e].of \in Subjects
        /\ DOMAIN outbox = 1..Len(outbox) /\ Recorded \subseteq DOMAIN outbox
        /\ \A s \in DOMAIN outbox : outbox[s].of \in Subjects
    BY <1>0, OldestEnvelope, Numbers DEF IInv, RowSet
  <2>6. mirror \in [Subjects -> 0..Len(outbox)]
    BY DEF IInv, TypeOK
  <2> HIDE DEF e
  <2>7. /\ mirror' \in [Subjects -> 0..Len(outbox)]
        /\ \A x \in Subjects :
             mirror'[x] = IF outbox[e].kind \in Upserted /\ x = outbox[e].of THEN e ELSE mirror[x]
    BY <2>0, <2>5, <2>6 DEF Mirrored, Upserted
  <2>8. TypeOK'
    BY <2>0, <2>2, <2>5, <2>7 DEF IInv, TypeOK, CallSet, Ats
  <2>9. ~ Refused(e)
    BY <1>3 DEF Admits, Refused, e
  <2>10. Written' /\ Calls'
    BY <1>0, <2>0, <2>2, <2>3, <2>4, <2>9 DEF IInv, Written, Calls, e
  <2>11. Pushing' /\ Sound'
    BY <2>0, <2>2, <2>3 DEF IInv, Pushing, Sound
  <2>12. Growing' /\ Reading'
    BY <2>0, <2>2, <2>3, <2>4 DEF IInv, Growing, Reading, Tangled
  <2>13. Alone'
    BY <1>0, <2>0, <2>2, <2>3, <2>4 DEF IInv, Alone
  <2>14. ASSUME NEW q \in Requests, requests'[q].at \in {"record", "commit"}
         PROVE  Env(q) \in DOMAIN outbox /\ (q # r => requests[q].at \in {"record", "commit"})
    BY <2>2, <2>14, <2>5, OldestEnvelope DEF IInv, Calls, e
  <2>15. Applied'
    <3>1. \A x \in Subjects : mirror[x] # 0 => mirror'[x] # 0
      BY <2>5, <2>7
    <3>2. \A s \in Recorded : outbox[s].kind \in Upserted => mirror'[outbox[s].of] # 0
      BY <2>5, <3>1 DEF IInv, Applied
    <3>3. ASSUME NEW q \in Requests, requests'[q].at \in {"record", "commit"}, outbox[Env(q)].kind \in Upserted
          PROVE  mirror'[outbox[Env(q)].of] # 0
      <4>1. CASE q = r
        BY <2>5, <2>7, <3>3, <4>1 DEF e
      <4>2. CASE q # r
        BY <2>5, <2>14, <3>1, <3>3, <4>2 DEF IInv, Applied
      <4> QED
        BY <4>1, <4>2
    <3> QED
      BY <2>0, <2>3, <2>4, <3>2, <3>3 DEF Applied
  <2>16. Newest'
    <3> SUFFICES ASSUME ~ overlapped, faults = 0
                 PROVE  /\ \A s \in Recorded : outbox[s].kind \in Upserted => mirror'[outbox[s].of] >= s
                        /\ \A q \in Requests :
                             requests'[q].at \in {"record", "commit"} /\ outbox[Env(q)].kind \in Upserted =>
                               mirror'[outbox[Env(q)].of] >= Env(q)
      BY <2>0, <2>3, <2>4 DEF Newest
    <3>1. ASSUME NEW s \in Recorded, outbox[s].kind \in Upserted PROVE mirror'[outbox[s].of] >= s
      <4>1. mirror[outbox[s].of] >= s
        BY <3>1 DEF IInv, Newest
      <4>2. CASE outbox[e].kind \in Upserted /\ outbox[s].of = outbox[e].of
        <5>1. ~ (e < s)
          <6> SUFFICES ASSUME e < s PROVE FALSE
            OBVIOUS
          <6>1. e \in 1..(s - 1)
            BY <2>5
          <6>2. Settled(e)
            BY <6>1 DEF IInv, Sound
          <6>3. e \notin Recorded
            BY <1>0 DEF IInv, Alone, e
          <6> QED
            BY <2>9, <6>2, <6>3 DEF Settled
        <5> QED
          BY <2>5, <2>7, <4>2, <5>1
      <4>3. CASE ~ (outbox[e].kind \in Upserted /\ outbox[s].of = outbox[e].of)
        BY <2>5, <2>7, <4>1, <4>3
      <4> QED
        BY <4>2, <4>3
    <3>2. ASSUME NEW q \in Requests, requests'[q].at \in {"record", "commit"}, outbox[Env(q)].kind \in Upserted
          PROVE  mirror'[outbox[Env(q)].of] >= Env(q)
      <4>1. q = r
        BY <1>0, <2>14, <3>2 DEF IInv, Alone
      <4> QED
        BY <2>5, <2>7, <3>2, <4>1 DEF e
    <3> QED
      BY <3>1, <3>2
  <2> QED
    BY <2>8, <2>10, <2>11, <2>12, <2>13, <2>15, <2>16 DEF IInv
<1> QED
  BY <1>2, <1>3

\* The number that is drawn is beyond all that are committed.
LEMMA DrawStep ==
    ASSUME IInv, NEW r \in Requests, Draw(r)
    PROVE  IInv'
<1> DEFINE call == [at |-> "commit", rest |-> requests[r].rest, ack |-> requests[r].ack,
                    drawn |-> Len(outbound) + 1]
<1>0. /\ requests[r].at = "record" /\ requests[r].rest # {}
      /\ UNCHANGED <<outbox, pushed, lastPushed, lastPulled, products, tick, pulled, mirror, stored,
                     committed, lastSeq, overlapped, losses, faults>>
      /\ outbound' = Append(outbound, Env(r))
      /\ requests' = [requests EXCEPT ![r] = call]
  BY DEF Draw, cafe, IInv, Calls
<1>1. /\ Env(r) \in DOMAIN outbox /\ outbound \in Seq(DOMAIN outbox) /\ Len(outbound) \in Nat
      /\ DOMAIN outbound = 1..Len(outbound) /\ committed \subseteq DOMAIN outbound
      /\ requests \in [Requests -> CallSet] /\ Len(outbox) \in Nat /\ DOMAIN outbox = 1..Len(outbox)
      /\ lastPulled \in 0..Len(outbound)
  BY <1>0, OldestEnvelope, Numbers DEF IInv, TypeOK, CallSet, Ats
<1>2. /\ outbound' \in Seq(DOMAIN outbox) /\ Len(outbound') = Len(outbound) + 1
      /\ \A g \in DOMAIN outbound : outbound'[g] = outbound[g]
      /\ outbound'[Len(outbound) + 1] = Env(r) /\ DOMAIN outbound' = 1 .. Len(outbound) + 1
  BY <1>0, <1>1, AppendProperties
<1>3. /\ requests'[r] = call
      /\ \A q \in Requests : q # r => requests'[q] = requests[q]
      /\ requests' \in [Requests -> CallSet']
  <2>1. call \in CallSet' /\ CallSet \subseteq CallSet'
    BY <1>0, <1>1, <1>2 DEF CallSet, Ats
  <2> HIDE DEF call
  <2> QED
    BY <1>0, <1>1, <2>1
<1>4. Recorded' = Recorded /\ \A s : (Refused(s)' <=> Refused(s)) /\ (Settled(s)' <=> Settled(s))
  <2>1. Recorded' = Recorded
    BY <1>0, <1>1, <1>2 DEF Recorded
  <2> QED
    BY <1>0, <2>1 DEF Refused, Settled
<1>5. \A q \in Requests : Env(q)' = Env(q) /\ (Awaited(q)' <=> Awaited(q))
  BY <1>0, <1>3 DEF Env, Awaited
<1>6. TypeOK'
  <2>1. lastPulled \in 0..Len(outbound') /\ committed \subseteq DOMAIN outbound'
    BY <1>1, <1>2
  <2> QED
    BY <1>0, <1>2, <1>3, <2>1 DEF IInv, TypeOK, CallSet, Ats
<1>7. Written'
  BY <1>0 DEF IInv, Written
<1>8. Calls'
  <2>1. \A q \in Requests : requests[q].at = "commit" =>
          requests[q].drawn \in DOMAIN outbound' /\ outbound'[requests[q].drawn] = Env(q)
    BY <1>1, <1>2 DEF IInv, Calls
  <2>2. requests'[r].drawn \in DOMAIN outbound' /\ outbound'[requests'[r].drawn] = Env(r)
    BY <1>1, <1>2, <1>3
  <2> QED
    BY <1>0, <1>3, <1>4, <1>5, <2>1, <2>2 DEF IInv, Calls
<1>9. Pushing' /\ Sound'
  BY <1>0, <1>3, <1>4 DEF IInv, Pushing, Sound
<1>10. Applied' /\ Newest'
  BY <1>0, <1>3, <1>4, <1>5 DEF IInv, Applied, Newest
<1>11. Growing'
  <2>1. \A g \in committed : g < requests'[r].drawn
    BY <1>1, <1>3
  <2> QED
    BY <1>0, <1>3, <1>4, <1>5, <2>1 DEF IInv, Growing, Tangled
<1>12. Reading'
  BY <1>0, <1>1, <1>2 DEF IInv, Reading, Tangled
<1>13. Alone'
  BY <1>0, <1>3, <1>4, <1>5 DEF IInv, Alone
<1> QED
  BY <1>6, <1>7, <1>8, <1>9, <1>10, <1>11, <1>12, <1>13 DEF IInv

\* What a commit adds: one envelope that was not recorded, all before it being
\* settled, under a number beyond all that are committed and read.
LEMMA CommitAdds ==
    ASSUME IInv, NEW r \in Requests, requests[r].at = "commit", MayCommit(r), ~ Conflict(r),
           committed' = committed \cup {requests[r].drawn}, UNCHANGED <<outbox, outbound>>
    PROVE  /\ requests[r].drawn \in DOMAIN outbound /\ requests[r].rest # {}
           /\ Recorded' = Recorded \cup {Env(r)} /\ Env(r) \notin Recorded
           /\ ~ Refused(Env(r)) /\ Env(r) \in DOMAIN outbox
           /\ faults = 0 => \A t \in 1..(Env(r) - 1) : Settled(t)
           /\ Tangled \/ \A g \in committed : g < requests[r].drawn
           /\ Tangled \/ lastPulled < requests[r].drawn
<1>1. /\ requests[r].drawn \in DOMAIN outbound /\ outbound[requests[r].drawn] = Env(r)
      /\ requests[r].rest # {} /\ ~ Refused(Env(r))
  BY DEF IInv, Calls
<1>2. Env(r) \notin Recorded
  BY DEF Conflict
<1>3. Recorded' = Recorded \cup {Env(r)}
  BY <1>1 DEF Recorded
<1>4. Tangled \/ \A g \in committed : g < requests[r].drawn
  BY <1>2 DEF IInv, Growing
<1>5. Tangled \/ lastPulled < requests[r].drawn
  <2>1. lastPulled = 0 \/ lastPulled \in committed
    BY DEF IInv, Reading
  <2>2. DOMAIN outbound = 1..Len(outbound) /\ Len(outbound) \in Nat
    BY Numbers DEF IInv
  <2> QED
    BY <1>1, <1>4, <2>1, <2>2
<1>6. /\ Env(r) \in requests[r].rest /\ Env(r) \in DOMAIN outbox
      /\ \A s \in requests[r].rest : Env(r) <= s
      /\ requests[r].rest \subseteq DOMAIN outbox /\ DOMAIN outbox = 1..Len(outbox) /\ Len(outbox) \in Nat
  BY <1>1, OldestEnvelope, Numbers DEF IInv
<1>7. ASSUME faults = 0, NEW t \in 1..(Env(r) - 1) PROVE Settled(t)
  <2>1. t \notin requests[r].rest
    BY <1>6
  <2> QED
    BY <1>6, <1>7, <2>1 DEF IInv, Sound
<1> QED
  BY <1>1, <1>2, <1>3, <1>4, <1>5, <1>6, <1>7

\* The pull cursor is not past the new number.
LEMMA CommitUnread ==
    ASSUME IInv, NEW r \in Requests, requests[r].at = "commit", MayCommit(r), ~ Conflict(r),
           committed' = committed \cup {requests[r].drawn},
           UNCHANGED <<outbox, outbound, lastPulled, pulled, overlapped, faults>>,
           tick' = tick \/ tick'.at = "idle"
    PROVE  Reading'
<1>1. /\ requests[r].drawn \in DOMAIN outbound /\ DOMAIN outbound \subseteq Nat
      /\ committed \subseteq DOMAIN outbound /\ lastPulled \in Nat
      /\ Tangled \/ \A g \in committed : g < requests[r].drawn
      /\ Tangled \/ lastPulled < requests[r].drawn
  BY CommitAdds, Numbers DEF IInv
<1>2. lastPulled' = 0 \/ lastPulled' \in committed'
  BY DEF IInv, Reading
<1>3. tick'.at = "pulled" => tick' = tick /\ tick.batch # {} /\ tick.batch \subseteq committed
  BY DEF IInv, Reading
<1>4. ASSUME ~ Tangled
      PROVE  /\ \A g \in committed' : g <= lastPulled => outbound[g] \in pulled
             /\ tick'.at = "pulled" =>
                  \A b \in tick.batch : \A g \in committed' :
                    g <= b => g \in tick.batch \/ g <= lastPulled
  <2>1. ~ (requests[r].drawn <= lastPulled)
    BY <1>1, <1>4
  <2>2. \A b \in committed : ~ (requests[r].drawn <= b)
    BY <1>1, <1>4
  <2> QED
    BY <1>3, <1>4, <2>1, <2>2 DEF IInv, Reading
<1> QED
  BY <1>2, <1>3, <1>4 DEF Reading, Tangled

\* The commit of the INSERT INTO cloud_outbound, or the conflict or accident
\* that keeps the row out.
LEMMA CommitStep ==
    ASSUME IInv, NEW r \in Requests, NEW fault \in BOOLEAN, Commit(r, fault)
    PROVE  IInv'
<1>0. /\ requests[r].at = "commit" /\ requests[r].rest # {} /\ MayCommit(r)
      /\ fault => faults < MaxFaults /\ ~ Conflict(r)
      /\ faults' = IF fault THEN faults + 1 ELSE faults
      /\ UNCHANGED <<cafe, outbound, mirror, stored, lastSeq, overlapped, losses>>
  BY DEF Commit, IInv, Calls
<1>1. faults \in Nat /\ MaxFaults \in Nat /\ faults <= MaxFaults
  BY Numbers DEF IInv, TypeOK
<1>2. faults' \in faults .. MaxFaults
  BY <1>0, <1>1
<1>3. CASE Conflict(r) \/ fault
  <2>1. /\ requests' = [requests EXCEPT ![r] = Onward(r, requests[r].ack)]
        /\ UNCHANGED committed
    BY <1>0, <1>3 DEF Commit, Skipped
  <2>2. faults' = 0 => Settled(Env(r))
    BY <1>0, <1>1, <1>3 DEF Settled, Conflict
  <2> QED
    BY <1>0, <1>2, <2>1, <2>2, OnwardUnrecorded
<1>4. CASE ~ Conflict(r) /\ ~ fault
  <2> DEFINE ack == Max({requests[r].ack, Env(r)})
  <2> DEFINE e == Env(r)
  <2>0. /\ UNCHANGED <<outbox, pushed, lastPushed, lastPulled, products, tick, pulled, mirror, stored,
                       outbound, lastSeq, overlapped, losses, faults>>
        /\ committed' = committed \cup {requests[r].drawn}
        /\ requests' = [requests EXCEPT ![r] = Onward(r, ack)]
    BY <1>0, <1>4 DEF Commit, cafe, Accepted
  <2>1. ack \in {requests[r].ack, Env(r)}
    BY <1>0, AcceptedAck
  <2>2. /\ requests[r].drawn \in DOMAIN outbound
        /\ Recorded' = Recorded \cup {e} /\ e \notin Recorded
        /\ ~ Refused(e) /\ e \in DOMAIN outbox
        /\ faults = 0 => \A t \in 1..(e - 1) : Settled(t)
        /\ Tangled \/ \A g \in committed : g < requests[r].drawn
    BY <1>0, <1>4, <2>0, CommitAdds
  <2>3. /\ requests \in [Requests -> CallSet] /\ committed \subseteq DOMAIN outbound
        /\ DOMAIN outbox = 1..Len(outbox) /\ Len(outbox) \in Nat
    BY Numbers DEF IInv, TypeOK, CallSet, Ats
  <2>4. /\ requests'[r].at = "look"
        /\ \A q \in Requests : q # r => requests'[q] = requests[q] /\ Env(q)' = Env(q)
    BY <2>0, <2>3 DEF Onward, Env
  <2>5. TypeOK' /\ Written' /\ Calls' /\ Pushing' /\ Sound'
    <3>1. /\ committed \subseteq committed' /\ committed' \subseteq DOMAIN outbound
          /\ Recorded' \subseteq Recorded \cup {Env(r)}
          /\ faults' = 0 => Env(r) \in Recorded' \/ Refused(Env(r))
      BY <2>0, <2>2, <2>3
    <3> HIDE DEF ack
    <3> QED
      BY <1>0, <1>2, <2>0, <2>1, <3>1, OnwardStep
  <2> HIDE DEF ack, e
  <2>6. Applied'
    <3>1. outbox[e].kind \in Upserted => mirror[outbox[e].of] # 0
      BY <1>0 DEF IInv, Applied, e
    <3> QED
      BY <2>0, <2>2, <2>4, <3>1 DEF IInv, Applied
  <2>7. Growing'
    <3> SUFFICES ASSUME ~ Tangled, NEW q \in Requests, q # r, requests[q].at = "commit"
                 PROVE  Env(q) \in Recorded' \/ \A g \in committed' : g < requests[q].drawn
      BY <2>0, <2>4 DEF Growing, Tangled
    <3>1. CASE Env(q) \in Recorded
      BY <2>2, <3>1
    <3>2. CASE Env(q) \notin Recorded
      <4>1. \A g \in committed : g < requests[q].drawn
        BY <3>2 DEF IInv, Growing
      <4>2. overlapped
        BY <1>0 DEF IInv, Alone
      <4>3. faults = 0
        BY <1>1, <4>2 DEF Tangled
      <4>4. /\ requests[q].rest # {} /\ ~ Refused(Env(q))
            /\ Env(q) \in requests[q].rest /\ Env(q) \in DOMAIN outbox
            /\ \A s \in requests[q].rest : Env(q) <= s
        BY OldestEnvelope DEF IInv, Calls
      <4>5. /\ e \in requests[r].rest /\ \A s \in requests[r].rest : e <= s
        BY <1>0, OldestEnvelope DEF IInv, e
      <4>6. ~ (Env(q) < e)
        BY <2>2, <2>3, <3>2, <4>3, <4>4 DEF Settled
      <4>7. ~ (e < Env(q))
        <5> SUFFICES ASSUME e < Env(q) PROVE FALSE
          OBVIOUS
        <5>1. e \notin requests[q].rest
          BY <2>2, <2>3, <4>4
        <5>2. e \in 1..(Env(q) - 1)
          BY <2>2, <2>3, <4>4
        <5>3. Settled(e)
          BY <4>3, <4>4, <5>1, <5>2 DEF IInv, Sound
        <5> QED
          BY <2>2, <5>3 DEF Settled
      <4> QED
        BY <2>2, <2>3, <4>4, <4>6, <4>7
    <3> QED
      BY <3>1, <3>2
  <2>8. Reading'
    BY <1>0, <1>4, <2>0, CommitUnread
  <2>9. Alone'
    BY <1>0, <2>0, <2>2, <2>4 DEF IInv, Alone
  <2>10. Newest'
    <3>1. ~ overlapped /\ faults = 0 /\ outbox[e].kind \in Upserted => mirror[outbox[e].of] >= e
      BY <1>0 DEF IInv, Newest, e
    <3> QED
      BY <2>0, <2>2, <2>4, <3>1 DEF IInv, Newest
  <2> QED
    BY <2>5, <2>6, <2>7, <2>8, <2>9, <2>10 DEF IInv
<1> QED
  BY <1>3, <1>4

\* The end of a call: its answer waits for the cafe, or nobody does for it.
LEMMA FinishStep ==
    ASSUME IInv, NEW r \in Requests, Finish(r)
    PROVE  IInv'
<1>0. /\ requests[r].at = "look" /\ requests[r].rest = {}
      /\ lastSeq' = Max({lastSeq, requests[r].ack})
      /\ UNCHANGED <<outbox, pushed, lastPushed, lastPulled, products, tick, pulled, mirror, stored,
                     outbound, committed, overlapped, losses, faults>>
  BY DEF Finish, cafe, log
<1>1. requests' = [requests EXCEPT ![r] = IF Awaited(r) THEN [requests[r] EXCEPT !.at = "answered"] ELSE Free]
  BY DEF Finish
<1>2. /\ requests \in [Requests -> CallSet]
      /\ \A q \in Requests : requests[q].ack \in 0..Len(outbox)
      /\ Len(outbox) \in Nat /\ lastSeq \in 0..Len(outbox) /\ Len(outbound) \in Nat
  BY Numbers DEF IInv, TypeOK, CallSet, Ats
<1>3. lastSeq <= lastSeq' /\ requests[r].ack <= lastSeq' /\ lastSeq' \in 0..Len(outbox)
  BY <1>0, <1>2, MaxOfTwo
<1>4. /\ Awaited(r) => /\ requests'[r].at = "answered" /\ requests'[r].rest = {}
                       /\ requests'[r].ack = requests[r].ack
      /\ ~ Awaited(r) => requests'[r] = Free
      /\ \A q \in Requests : q # r => requests'[q] = requests[q]
      /\ requests' \in [Requests -> CallSet]
  <2>1. CASE Awaited(r)
    <3>1. requests' = [requests EXCEPT ![r].at = "answered"]
      BY <1>1, <1>2, <2>1
    <3> QED
      BY <1>0, <1>2, <2>1, <3>1 DEF CallSet, Ats
  <2>2. CASE ~ Awaited(r)
    <3>1. Free \in CallSet
      BY <1>2 DEF Free, CallSet, Ats
    <3> QED
      BY <1>1, <1>2, <2>2, <3>1
  <2> QED
    BY <2>1, <2>2
<1>5. requests'[r].at \in {"answered", "free"} /\ requests'[r].rest = {}
      /\ (requests'[r].ack = requests[r].ack \/ requests'[r].ack = 0)
  BY <1>4 DEF Free
<1>6. Recorded' = Recorded /\ \A s : (Refused(s)' <=> Refused(s)) /\ (Settled(s)' <=> Settled(s))
  BY <1>0, SameLog
<1>7. \A q \in Requests : (q # r => Env(q)' = Env(q)) /\ (Awaited(q)' <=> Awaited(q))
  BY <1>0, <1>4 DEF Env, Awaited
<1>8. TypeOK'
  <2>1. {lastPushed, lastSeq}' \subseteq 0..Len(outbox')
    BY <1>0, <1>3 DEF IInv, TypeOK
  <2> QED
    BY <1>0, <1>4, <2>1 DEF IInv, TypeOK, CallSet, Ats
<1>9. Written'
  BY <1>0 DEF IInv, Written
<1>10. Calls'
  <2>1. ASSUME NEW q \in Requests, q # r, requests[q].at = "answered"
        PROVE  requests[q].ack <= lastSeq'
    <3>1. requests[q].ack <= lastSeq
      BY <2>1 DEF IInv, Calls
    <3> QED
      BY <1>2, <1>3, <3>1
  <2>2. /\ requests'[r].at = "answered" => Awaited(r) /\ requests'[r].ack <= lastSeq'
        /\ requests'[r].at = "free" => requests'[r] = Free
    BY <1>3, <1>4 DEF Free
  <2>3. ASSUME NEW q \in Requests, q # r
        PROVE  /\ requests[q].at \in {"apply", "record", "commit"} => requests[q].rest # {}
               /\ requests[q].at = "free" => requests[q] = Free
               /\ requests[q].at = "answered" => Awaited(q)
               /\ requests[q].at \in {"record", "commit"} => ~ Refused(Env(q))
               /\ requests[q].at = "commit" =>
                    requests[q].drawn \in DOMAIN outbound /\ outbound[requests[q].drawn] = Env(q)
    BY DEF IInv, Calls
  <2> QED
    BY <1>0, <1>4, <1>5, <1>6, <1>7, <2>1, <2>2, <2>3 DEF Calls
<1>11. Pushing'
  <2>1. lastPushed <= lastSeq'
    <3>1. lastPushed \in 0..Len(outbox) /\ lastPushed <= lastSeq
      BY DEF IInv, Pushing, TypeOK
    <3> QED
      BY <1>2, <1>3, <3>1
  <2>2. tick.at = "push" /\ tick.by = r => Awaited(r)
    BY DEF Awaited
  <2> QED
    BY <1>0, <1>4, <2>1, <2>2 DEF IInv, Pushing
<1>12. Sound'
  <2>1. faults = 0 => \A s \in 1..requests'[r].ack : Settled(s)
    BY <1>5 DEF IInv, Sound
  <2> QED
    BY <1>0, <1>4, <1>5, <1>6, <2>1 DEF IInv, Sound
<1>13. Applied' /\ Growing' /\ Newest'
  BY <1>0, <1>4, <1>5, <1>6, <1>7 DEF IInv, Applied, Growing, Tangled, Newest
<1>14. Reading'
  BY <1>0 DEF IInv, Reading, Tangled
<1>15. Alone'
  BY <1>0, <1>4, <1>5, <1>6, <1>7 DEF IInv, Alone
<1> QED
  BY <1>8, <1>9, <1>10, <1>11, <1>12, <1>13, <1>14, <1>15 DEF IInv

-------------------------------------------------------------------------------
(* The pull *)

\* The read takes the committed numbers behind the cursor in their order, so
\* none that is committed is left out before one that is taken.
LEMMA PullReadStep ==
    ASSUME IInv, PullRead
    PROVE  IInv'
<1>0. /\ tick.at = "pull"
      /\ tick' = IF ToPull = {} THEN Waiting ELSE [at |-> "pulled", by |-> 0, batch |-> ToPull]
      /\ UNCHANGED <<outbox, pushed, lastPushed, lastPulled, products, requests, mirror, stored, outbound,
                     committed, lastSeq, overlapped, pulled, losses, faults>>
  BY DEF PullRead, cloud, log
<1>1. /\ committed \subseteq 1..Len(outbound) /\ Len(outbound) \in Nat /\ lastPulled \in Nat
  BY Numbers DEF IInv
<1>2. /\ ToPull \subseteq {g \in committed : g > lastPulled}
      /\ \A b \in ToPull, g \in {h \in committed : h > lastPulled} : g < b => g \in ToPull
  <2> DEFINE S == {g \in committed : g > lastPulled}
  <2>1. S \subseteq 1..Len(outbound)
    BY <1>1
  <2> HIDE DEF S
  <2>2. /\ FirstOf(S) \subseteq S
        /\ \A s \in FirstOf(S), t \in S : t < s => t \in FirstOf(S)
    BY <1>1, <2>1, FirstOfLeast
  <2> QED
    BY <2>2 DEF ToPull, S
<1>3. Recorded' = Recorded /\ \A s : (Refused(s)' <=> Refused(s)) /\ (Settled(s)' <=> Settled(s))
  BY <1>0, SameLog
<1>4. \A r \in Requests : Env(r)' = Env(r) /\ ~ Awaited(r)
  BY <1>0 DEF Env, Awaited
<1>5. /\ tick'.at \in {"idle", "pulled"}
      /\ tick'.at = "pulled" => tick'.batch = ToPull /\ ToPull # {}
      /\ tick' \in [at : {"idle", "push", "pull", "pulled"}, by : Requests \cup {0}, batch : SUBSET Nat]
  BY <1>0, <1>1, <1>2 DEF Waiting
<1>6. TypeOK'
  BY <1>0, <1>5 DEF IInv, TypeOK
<1>7. Written' /\ Applied' /\ Growing' /\ Alone' /\ Newest'
  BY <1>0, <1>3, <1>4 DEF IInv, Written, Applied, Growing, Tangled, Alone, Newest
<1>8. Sound'
  BY <1>0, <1>3 DEF IInv, Sound
<1>9. Calls'
  BY <1>0, <1>3, <1>4 DEF IInv, Calls
<1>10. Pushing'
  BY <1>0, <1>5 DEF IInv, Pushing
<1>11. Reading'
  <2>1. ASSUME tick'.at = "pulled", NEW b \in ToPull, NEW g \in committed, g <= b
        PROVE  g \in ToPull \/ g <= lastPulled
    <3>1. g \in Nat /\ b \in Nat
      BY <1>1, <1>2
    <3>2. g = b \/ g < b
      BY <2>1, <3>1
    <3> QED
      BY <1>1, <1>2, <3>1, <3>2
  <2>2. ToPull \subseteq committed
    BY <1>2
  <2> QED
    BY <1>0, <1>5, <2>1, <2>2 DEF IInv, Reading, Tangled
<1> QED
  BY <1>6, <1>7, <1>8, <1>9, <1>10, <1>11 DEF IInv

\* The batch is applied; the cursor moves to its end, or the server dies before
\* it is saved.
LEMMA ApplyPullStep ==
    ASSUME IInv, NEW saved \in BOOLEAN, ApplyPull(saved)
    PROVE  IInv'
<1>0. /\ tick.at = "pulled" /\ tick' = Waiting
      /\ products' = [p \in Products |-> Echo(p)]
      /\ pulled' = pulled \cup {outbound[g] : g \in tick.batch}
      /\ lastPulled' = IF saved THEN Max(tick.batch) ELSE lastPulled
      /\ UNCHANGED <<outbox, pushed, lastPushed, requests, mirror, stored, outbound,
                     committed, lastSeq, overlapped, faults>>
  BY DEF ApplyPull, CursorAfterPull, cloud, log
<1>1. losses' \in 0..MaxLosses
  <2>1. losses \in Nat /\ losses <= MaxLosses /\ MaxLosses \in Nat
    BY Numbers DEF IInv, TypeOK
  <2> QED
    BY <2>1 DEF ApplyPull
<1>2. /\ tick.batch # {} /\ tick.batch \subseteq committed /\ committed \subseteq DOMAIN outbound
      /\ DOMAIN outbound = 1..Len(outbound) /\ Len(outbound) \in Nat
      /\ lastPulled \in 0..Len(outbound) /\ Len(outbox) \in Nat /\ DOMAIN outbox = 1..Len(outbox)
      /\ \A g \in DOMAIN outbound : outbound[g] \in DOMAIN outbox
  BY <1>0, Numbers DEF IInv, Reading, TypeOK
<1>3. Max(tick.batch) \in tick.batch /\ \A g \in tick.batch : g <= Max(tick.batch)
  <2>1. tick.batch \in SUBSET (0..Len(outbound))
    BY <1>2
  <2> QED
    BY <1>2, <2>1, MaxIsGreatest
<1>4. lastPulled' \in {lastPulled} \cup tick.batch /\ lastPulled' \in 0..Len(outbound)
  BY <1>0, <1>2, <1>3
<1>5. products' \in [Products -> 0..Len(outbox)]
  <2>1. ASSUME NEW p \in Products PROVE Echo(p) \in 0..Len(outbox)
    <3> DEFINE edits == {g \in tick.batch : outbox[outbound[g]] = Row("product", p)}
    <3>1. edits \in SUBSET (0..Len(outbound)) /\ edits \subseteq DOMAIN outbound
      BY <1>2
    <3>2. products[p] \in 0..Len(outbox)
      BY DEF IInv, TypeOK
    <3>3. Echo(p) = IF edits = {} THEN products[p] ELSE outbound[Max(edits)]
      BY DEF Echo
    <3> HIDE DEF edits
    <3>4. edits # {} => Max(edits) \in edits
      BY <1>2, <3>1, MaxIsGreatest
    <3> QED
      BY <1>2, <3>1, <3>2, <3>3, <3>4
  <2> QED
    BY <1>0, <2>1
<1>6. Recorded' = Recorded /\ \A s : (Refused(s)' <=> Refused(s)) /\ (Settled(s)' <=> Settled(s))
  BY <1>0, SameLog
<1>7. \A r \in Requests : Env(r)' = Env(r) /\ ~ Awaited(r)
  BY <1>0 DEF Env, Awaited
<1>8. tick' \in [at : {"idle", "push", "pull", "pulled"}, by : Requests \cup {0}, batch : SUBSET Nat]
  BY <1>0 DEF Waiting
<1>9. TypeOK'
  <2>1. pulled' \subseteq DOMAIN outbox
    <3>1. {outbound[g] : g \in tick.batch} \subseteq DOMAIN outbox
      BY <1>2
    <3>2. pulled \subseteq DOMAIN outbox
      BY DEF IInv, TypeOK
    <3> QED
      BY <1>0, <3>1, <3>2
  <2>2. (pushed \cup stored \cup pulled)' \subseteq DOMAIN outbox'
    BY <1>0, <2>1 DEF IInv, TypeOK
  <2>3. /\ lastPulled' \in 0..Len(outbound') /\ products' \in [Products -> 0..Len(outbox')]
        /\ outbound' \in Seq(DOMAIN outbox') /\ {lastPushed, lastSeq}' \subseteq 0..Len(outbox')
    BY <1>0, <1>4, <1>5 DEF IInv, TypeOK
  <2> QED
    BY <1>0, <1>1, <1>8, <2>2, <2>3 DEF IInv, TypeOK
<1>10. Written' /\ Applied' /\ Growing' /\ Alone' /\ Newest'
  BY <1>0, <1>6, <1>7 DEF IInv, Written, Applied, Growing, Tangled, Alone, Newest
<1>11. Sound'
  BY <1>0, <1>6 DEF IInv, Sound
<1>12. Calls'
  BY <1>0, <1>6, <1>7 DEF IInv, Calls
<1>13. Pushing'
  BY <1>0 DEF IInv, Pushing, Waiting
<1>14. Reading'
  <2>1. lastPulled' = 0 \/ lastPulled' \in committed
    BY <1>2, <1>4 DEF IInv, Reading
  <2>2. ASSUME ~ Tangled, NEW g \in committed, g <= lastPulled' PROVE outbound[g] \in pulled'
    <3>1. CASE g <= lastPulled
      BY <1>0, <2>2, <3>1 DEF IInv, Reading
    <3>2. CASE g \in tick.batch
      BY <1>0, <3>2
    <3>3. g <= lastPulled \/ g \in tick.batch
      BY <1>0, <1>4, <2>2 DEF IInv, Reading
    <3> QED
      BY <3>1, <3>2, <3>3
  <2>3. tick'.at # "pulled"
    BY <1>0 DEF Waiting
  <2> QED
    BY <1>0, <2>1, <2>2, <2>3 DEF Reading, Tangled
<1> QED
  BY <1>9, <1>10, <1>11, <1>12, <1>13, <1>14 DEF IInv

-------------------------------------------------------------------------------
(* What is lost *)

\* A tick that is cut short frees the answer it waited for, and no other call.
LEMMA TickLostStep ==
    ASSUME IInv, TickLost
    PROVE  IInv'
<1>0. /\ tick' = Waiting /\ losses < MaxLosses /\ losses' = losses + 1
      /\ requests' = [r \in Requests |->
           IF Awaited(r) /\ requests[r].at = "answered" THEN Free ELSE requests[r]]
      /\ UNCHANGED <<outbox, pushed, lastPushed, lastPulled, products, mirror, stored, outbound,
                     committed, lastSeq, overlapped, pulled, faults>>
  BY DEF TickLost, log
<1>1. /\ Len(outbox) \in Nat /\ Len(outbound) \in Nat /\ requests \in [Requests -> CallSet]
      /\ losses \in Nat /\ MaxLosses \in Nat
  BY Numbers DEF IInv, TypeOK, CallSet, Ats
<1>2. losses' \in 0..MaxLosses
  BY <1>0, <1>1
<1>3. Free \in CallSet
  BY <1>1 DEF Free, CallSet, Ats
<1>4. requests' \in [Requests -> CallSet]
  BY <1>0, <1>1, <1>3
<1>5. \A r \in Requests :
        /\ requests'[r] = Free \/ requests'[r] = requests[r]
        /\ requests'[r].at # "answered"
  BY <1>0 DEF Free, IInv, Calls
<1>6. Recorded' = Recorded /\ \A s : (Refused(s)' <=> Refused(s)) /\ (Settled(s)' <=> Settled(s))
  BY <1>0, SameLog
<1>7. \A r \in Requests : requests'[r] = requests[r] => Env(r)' = Env(r)
  BY DEF Env
<1>8. tick' \in [at : {"idle", "push", "pull", "pulled"}, by : Requests \cup {0}, batch : SUBSET Nat]
  BY <1>0 DEF Waiting
<1>9. TypeOK'
  BY <1>0, <1>2, <1>4, <1>8 DEF IInv, TypeOK, CallSet, Ats
<1>10. Written'
  BY <1>0 DEF IInv, Written
<1>11. Calls'
  BY <1>0, <1>5, <1>6, <1>7 DEF IInv, Calls, Free
<1>12. Pushing' /\ Reading'
  BY <1>0 DEF IInv, Pushing, Reading, Tangled, Waiting
<1>13. Sound'
  <2>1. \A r \in Requests :
          \/ requests'[r].ack = 0 /\ requests'[r].rest = {}
          \/ requests'[r].ack = requests[r].ack /\ requests'[r].rest = requests[r].rest
    BY <1>5 DEF Free
  <2> QED
    BY <1>0, <1>6, <2>1 DEF IInv, Sound
<1>14. Applied' /\ Newest'
  BY <1>0, <1>5, <1>6, <1>7 DEF IInv, Applied, Newest, Free
<1>15. Growing' /\ Alone'
  BY <1>0, <1>5, <1>6, <1>7 DEF IInv, Growing, Tangled, Alone, Free
<1> QED
  BY <1>9, <1>10, <1>11, <1>12, <1>13, <1>14, <1>15 DEF IInv

\* The cloud dies with its calls; of the inserts under way one may be committed.
LEMMA CloudRestartStep ==
    ASSUME IInv, CloudRestart
    PROVE  IInv'
<1>0. /\ losses < MaxLosses /\ losses' = losses + 1
      /\ requests' = [r \in Requests |-> Free]
      /\ tick' = IF tick.at = "push" THEN Waiting ELSE tick
      /\ UNCHANGED <<outbox, pushed, lastPushed, lastPulled, products, mirror, stored, outbound,
                     lastSeq, overlapped, pulled, faults>>
  BY DEF CloudRestart
<1>1. /\ Len(outbox) \in Nat /\ Len(outbound) \in Nat /\ committed \subseteq DOMAIN outbound
      /\ losses \in Nat /\ MaxLosses \in Nat /\ DOMAIN outbox = 1..Len(outbox)
  BY Numbers DEF IInv
<1>2. losses' \in 0..MaxLosses
  BY <1>0, <1>1
<1>3. Free \in CallSet
  BY <1>1 DEF Free, CallSet, Ats
<1>4. requests' \in [Requests -> CallSet] /\ \A r \in Requests : requests'[r] = Free
  BY <1>0, <1>3
<1>5. /\ tick'.at # "push" /\ (tick'.at = "pulled" => tick' = tick)
      /\ tick' = tick \/ tick'.at = "idle"
      /\ tick' \in [at : {"idle", "push", "pull", "pulled"}, by : Requests \cup {0}, batch : SUBSET Nat]
  BY <1>0 DEF Waiting, IInv, TypeOK
<1>6. ASSUME committed' \subseteq DOMAIN outbound,
             faults = 0 => /\ \A s : Settled(s) => Settled(s)'
                           /\ \A s \in Recorded' : \A t \in 1..(s - 1) : Settled(t)',
             \A s \in Recorded' : outbox[s].kind \in Upserted => mirror[outbox[s].of] # 0,
             ~ overlapped /\ faults = 0 =>
               \A s \in Recorded' : outbox[s].kind \in Upserted => mirror[outbox[s].of] >= s,
             Reading'
      PROVE  IInv'
  <2>1. TypeOK'
    BY <1>0, <1>2, <1>4, <1>5, <1>6 DEF IInv, TypeOK, CallSet, Ats
  <2>2. Written' /\ Calls' /\ Pushing'
    BY <1>0, <1>4, <1>5 DEF IInv, Written, Calls, Pushing, Free
  <2>3. Sound'
    BY <1>0, <1>4, <1>6 DEF IInv, Sound, Free
  <2>4. Applied' /\ Newest'
    BY <1>0, <1>4, <1>6 DEF Applied, Newest, Free
  <2>5. Growing' /\ Alone'
    BY <1>4 DEF Growing, Alone, Free
  <2> QED
    BY <1>6, <2>1, <2>2, <2>3, <2>4, <2>5 DEF IInv
<1>7. CASE UNCHANGED committed
  <2>1. Recorded' = Recorded /\ \A s : (Refused(s)' <=> Refused(s)) /\ (Settled(s)' <=> Settled(s))
    BY <1>0, <1>7, SameLog
  <2>2. Reading'
    BY <1>0, <1>5, <1>7 DEF IInv, Reading, Tangled
  <2> QED
    BY <1>1, <1>6, <1>7, <2>1, <2>2 DEF IInv, Sound, Applied, Newest
<1>8. ASSUME NEW r \in Requests, requests[r].at = "commit", MayCommit(r), ~ Conflict(r),
             committed' = committed \cup {requests[r].drawn}
      PROVE  IInv'
  <2> DEFINE e == Env(r)
  <2>1. /\ requests[r].drawn \in DOMAIN outbound
        /\ Recorded' = Recorded \cup {e}
        /\ faults = 0 => \A t \in 1..(e - 1) : Settled(t)
    BY <1>0, <1>8, CommitAdds
  <2>2. /\ outbox[e].kind \in Upserted => mirror[outbox[e].of] # 0
        /\ ~ overlapped /\ faults = 0 /\ outbox[e].kind \in Upserted => mirror[outbox[e].of] >= e
    BY <1>8 DEF IInv, Applied, Newest
  <2> HIDE DEF e
  <2>3. \A s : Settled(s) => Settled(s)'
    BY <1>0, <2>1 DEF Settled, Refused
  <2>4. Reading'
    BY <1>0, <1>5, <1>8, CommitUnread
  <2>5. /\ \A s \in Recorded' : outbox[s].kind \in Upserted => mirror[outbox[s].of] # 0
        /\ ~ overlapped /\ faults = 0 =>
             \A s \in Recorded' : outbox[s].kind \in Upserted => mirror[outbox[s].of] >= s
    BY <2>1, <2>2 DEF IInv, Applied, Newest
  <2>6. faults = 0 => \A s \in Recorded' : \A t \in 1..(s - 1) : Settled(t)'
    BY <2>1, <2>3 DEF IInv, Sound
  <2>7. committed' \subseteq DOMAIN outbound
    BY <1>1, <1>8, <2>1
  <2> QED
    BY <1>6, <2>3, <2>4, <2>5, <2>6, <2>7
<1> QED
  BY <1>7, <1>8 DEF CloudRestart

-------------------------------------------------------------------------------
(* The theorems *)

\* The invariant is kept by every step.
LEMMA Steps ==
    ASSUME IInv, [Next]_vars
    PROVE  IInv'
<1>1. CASE Write
  BY <1>1, WriteStep
<1>2. CASE Engine
  <2>1. CASE Tick
    BY <2>1, TickPulls, TickPushes
  <2> QED
    BY <1>2, <2>1, PushAnsweredStep, PullReadStep, ApplyPullStep DEF Engine
<1>3. ASSUME NEW r \in Requests, Ingest(r) PROVE IInv'
  BY <1>3, LookupStep, DrawStep, FinishStep, ApplyStep, CommitStep DEF Ingest
<1>4. CASE TickLost
  BY <1>4, TickLostStep
<1>5. CASE CloudRestart
  BY <1>5, CloudRestartStep
<1>6. CASE UNCHANGED vars
  <2>1. UNCHANGED <<outbox, pushed, lastPushed, lastPulled, products, tick, pulled, requests, mirror,
                    stored, outbound, committed, lastSeq, overlapped, losses, faults>>
    BY <1>6 DEF vars, cafe, cloud, log
  <2>2. Recorded' = Recorded /\ \A s : (Refused(s)' <=> Refused(s)) /\ (Settled(s)' <=> Settled(s))
    BY <2>1, SameLog
  <2>3. \A r \in Requests : Env(r)' = Env(r) /\ (Awaited(r)' <=> Awaited(r))
    BY <2>1 DEF Env, Awaited
  <2>4. TypeOK'
    BY <2>1 DEF IInv, TypeOK
  <2>5. Written' /\ Calls' /\ Pushing'
    BY <2>1, <2>2, <2>3 DEF IInv, Written, Calls, Pushing
  <2>6. Sound' /\ Applied' /\ Growing'
    BY <2>1, <2>2, <2>3 DEF IInv, Sound, Applied, Growing, Tangled
  <2>7. Reading' /\ Alone' /\ Newest'
    BY <2>1, <2>2, <2>3 DEF IInv, Reading, Tangled, Alone, Newest
  <2> QED
    BY <2>4, <2>5, <2>6, <2>7 DEF IInv
<1> QED
  BY <1>1, <1>2, <1>3, <1>4, <1>5, <1>6 DEF Next

\* The inductive invariant holds in every state the cafe and the cloud reach.
LEMMA Invariance == Spec => []IInv
<1>1. Init => IInv
  BY Starts
<1>2. IInv /\ [Next]_vars => IInv'
  BY Steps
<1> QED
  BY <1>1, <1>2, PTL DEF Spec

\* Rows, marks, cursors and calls keep their types, and no cursor runs ahead of
\* what it counts.
THEOREM TypeCorrect == Spec => []TypeOK
<1>1. IInv => TypeOK
  BY DEF IInv
<1> QED
  BY <1>1, Invariance, PTL

\* The marks, the cafe's cursor and the cloud's agree, and without accidents
\* everything that counts as pushed is recorded, but for what the cloud has no
\* place for: no lost answer, overlapping call or restart makes a gap.
THEOREM GapsOnlyByRefusal == Spec => []GapsExplained
<1>1. IInv => GapsExplained
  BY DEF IInv, Pushing, Sound, Settled, GapsExplained
<1> QED
  BY <1>1, Invariance, PTL

\* The pull cursor passes over no row of cloud_outbound, although numbers are
\* drawn before their rows are committed, unless calls overlapped and a query
\* failed by accident.
THEOREM PullMissesNothing == Spec => []NothingPassedOver
<1>1. IInv => NothingPassedOver
  BY DEF IInv, Reading, Tangled, NothingPassedOver
<1> QED
  BY <1>1, Invariance, PTL

\* As long as calls do not overlap and no query fails by accident, the tables of
\* the cloud are never turned back behind what it has recorded.
THEOREM MirrorKeepsUp == Spec => []MirrorNotStale
<1>1. IInv => MirrorNotStale
  BY DEF IInv, Newest, Upserted, MirrorNotStale
<1> QED
  BY <1>1, Invariance, PTL
===============================================================================
