--------------------------- MODULE PrintQueueProofs ---------------------------
(***************************************************************************)
(* Theorems about the print queue, for every number of printers, copies,   *)
(* attempts, jobs and overlapping calls.                                   *)
(***************************************************************************)
EXTENDS PrintQueue, SetFacts, SequenceTheorems, TLAPS

-------------------------------------------------------------------------------
(* Facts about the operators of the loop *)

\* Rows are numbered as the jobs were made.
LEMMA RowNumbers ==
    ASSUME TypeOK
    PROVE  /\ Len(jobs) \in Nat
           /\ DOMAIN jobs = 1..Len(jobs)
           /\ DOMAIN jobs \subseteq JobIds
           /\ \A j \in DOMAIN jobs : jobs[j] \in Job
BY LenProperties, ElementOfSeq, PrintAssumption DEF TypeOK, JobIds

\* The loop takes the oldest job that is not finished.
LEMMA NextIsOldest ==
    ASSUME TypeOK, Unfinished # {}
    PROVE  /\ NextJob \in DOMAIN jobs
           /\ jobs[NextJob].status \in {"queued", "printing"}
           /\ \A i \in 1..(NextJob - 1) : jobs[i].status \in {"printed", "failed"}
<1>1. Unfinished \in SUBSET Nat /\ Unfinished \subseteq DOMAIN jobs
  BY RowNumbers DEF Unfinished
<1>2. NextJob \in Unfinished /\ \A n \in Unfinished : NextJob <= n
  BY <1>1, MinIsLeast DEF NextJob
<1>3. ASSUME NEW i \in 1..(NextJob - 1) PROVE jobs[i].status \in {"printed", "failed"}
  <2>1. NextJob \in DOMAIN jobs
    BY <1>1, <1>2
  <2>2. i \in DOMAIN jobs /\ i \notin Unfinished
    BY <1>2, <2>1, RowNumbers
  <2> QED
    BY <2>2, RowNumbers DEF Unfinished, Job, Statuses
<1> QED
  BY <1>1, <1>2, <1>3 DEF Unfinished

\* Writing one row leaves the others, and the length.
LEMMA RowWritten ==
    ASSUME TypeOK, NEW j \in DOMAIN jobs, NEW row \in Job,
           jobs' = [jobs EXCEPT ![j] = row]
    PROVE  /\ jobs' \in Seq(Job)
           /\ Len(jobs') = Len(jobs)
           /\ DOMAIN jobs' = DOMAIN jobs
           /\ \A i \in DOMAIN jobs : jobs'[i] = IF i = j THEN row ELSE jobs[i]
<1>1. jobs \in Seq(Job) /\ j \in 1..Len(jobs)
  BY RowNumbers DEF TypeOK
<1>2. /\ jobs' \in Seq(Job)
      /\ Len(jobs') = Len(jobs)
      /\ \A i \in 1..Len(jobs) : jobs'[i] = IF i = j THEN row ELSE jobs[i]
  BY <1>1, ExceptSeq
<1> QED
  BY <1>1, <1>2, LenProperties

\* A new status keeps the rest of the row.
LEMMA StatusWritten ==
    ASSUME TypeOK, NEW j \in DOMAIN jobs, NEW status \in Statuses,
           jobs' = [jobs EXCEPT ![j].status = status]
    PROVE  /\ jobs' \in Seq(Job)
           /\ Len(jobs') = Len(jobs)
           /\ DOMAIN jobs' = DOMAIN jobs
           /\ \A i \in DOMAIN jobs : i # j => jobs'[i] = jobs[i]
           /\ jobs'[j].status = status
           /\ jobs'[j].printer = jobs[j].printer
           /\ jobs'[j].attempts = jobs[j].attempts
<1> DEFINE row == [printer |-> jobs[j].printer, status |-> status,
                   attempts |-> jobs[j].attempts]
<1>1. jobs[j] \in Job
  BY RowNumbers
<1>2. /\ row \in Job /\ row = [jobs[j] EXCEPT !.status = status]
      /\ row.status = status /\ row.printer = jobs[j].printer /\ row.attempts = jobs[j].attempts
  BY ONLY <1>1, status \in Statuses DEF Job
<1>3. jobs' = [jobs EXCEPT ![j] = row]
  BY <1>2
<1> HIDE DEF row
<1> QED
  BY <1>2, <1>3, RowWritten

-------------------------------------------------------------------------------
(* The inductive invariant *)

\* One call at a time is past the flag, and the flag is set while it is.
OneLoop == \A v, w \in Loops : v # w => loops[v] = Idle \/ loops[w] = Idle
Flagged == \A w \in Loops : loops[w] # Idle => processing

\* A job that is waiting has an attempt left.
AttemptsLeft ==
    \A j \in DOMAIN jobs :
      jobs[j].status \in {"queued", "printing"} => jobs[j].attempts < MaxAttempts

\* What a loop read before the send is still so, the copies it has not sent
\* included.
Holds(w, j) ==
    /\ jobs[j].status = "printing"
    /\ jobs[j].attempts = loops[w].attempts
    /\ \A i \in 1..(j - 1) : jobs[i].status \in {"printed", "failed"}
    /\ tickets[j] + loops[w].left >= Copies[jobs[j].printer]

Held == \A w \in Loops : Sending(w) => Holds(w, loops[w].job)

IInv == TypeOK /\ OneLoop /\ Flagged /\ AttemptsLeft /\ Held /\ PrintedInFull

\* The first state is consistent.
LEMMA InitInv == Init => IInv
<1> SUFFICES ASSUME Init PROVE IInv
  OBVIOUS
<1>1. /\ jobs = <<>> /\ jobs \in Seq(Job) /\ Len(jobs) = 0 /\ DOMAIN jobs = {}
  BY EmptySeq, LenProperties DEF Init
<1>3. Idle \in Loop /\ loops \in [Loops -> Loop] /\ \A w \in Loops : loops[w] = Idle
  BY DEF Init, Loop, Idle
<1>4. /\ enabled \in [Printers -> BOOLEAN] /\ reachable \in [Printers -> BOOLEAN]
      /\ processing \in BOOLEAN
  BY Zenon DEF Init
<1>5. /\ tickets \in [JobIds -> Nat]
      /\ edits \in 0..MaxEdits /\ crashes \in 0..MaxCrashes /\ 0 <= MaxJobs
  BY PrintAssumption DEF Init
<1>2. TypeOK
  BY <1>1, <1>3, <1>4, <1>5 DEF TypeOK
<1> QED
  BY <1>1, <1>2, <1>3 DEF IInv, OneLoop, Flagged, AttemptsLeft, Held, PrintedInFull,
                          Sending, Idle

-------------------------------------------------------------------------------
(* Every step keeps it *)

\* A call of processQueue starts a loop when there is none, and no other.
LEMMA Wakes ==
    ASSUME TypeOK, OneLoop, Flagged, ProcessQueue
    PROVE  /\ processing' \in BOOLEAN
           /\ loops' \in [Loops -> Loop]
           /\ \A w \in Loops : loops'[w] = loops[w] \/ (loops[w] = Idle /\ loops'[w] = Selecting)
           /\ OneLoop'
           /\ Flagged'
<1>1. CASE UNCHANGED <<processing, loops>>
  BY <1>1 DEF TypeOK, OneLoop, Flagged
<1>2. CASE /\ ~processing
           /\ processing' = TRUE
           /\ loops' = [loops EXCEPT ![FreeLoop] = Selecting]
  <2>1. \A w \in Loops : loops[w] = Idle
    BY <1>2 DEF Flagged
  <2>2. FreeLoop \in Loops
    BY <2>1, PrintAssumption DEF FreeLoop
  <2>3. /\ loops \in [Loops -> Loop] /\ Selecting \in Loop
        /\ Selecting # Idle
    BY DEF TypeOK, Selecting, Loop, Idle
  <2>4. /\ loops' \in [Loops -> Loop]
        /\ \A w \in Loops : loops'[w] = IF w = FreeLoop THEN Selecting ELSE Idle
    BY ONLY <1>2, <2>1, <2>2, <2>3
  <2> QED
    BY <1>2, <2>1, <2>3, <2>4 DEF OneLoop, Flagged
<1> QED
  BY <1>1, <1>2 DEF ProcessQueue

\* A new job is behind all others.
LEMMA EnqueueInv ==
    ASSUME IInv, NEW p \in Printers, NEW kind \in {"kitchen", "receipt"},
           EnqueuePrintJob(p, kind)
    PROVE  IInv'
<1> DEFINE row == [printer |-> p, status |-> "queued", attempts |-> 0]
<1>1. TypeOK /\ OneLoop /\ Flagged /\ AttemptsLeft /\ Held /\ PrintedInFull
  BY DEF IInv
<1>2. row \in Job /\ row.status = "queued" /\ row.attempts = 0
  BY PrintAssumption DEF Job, Statuses
<1>3. /\ jobs \in Seq(Job) /\ jobs' = Append(jobs, row) /\ Len(jobs) < MaxJobs
      /\ UNCHANGED <<enabled, reachable, tickets, edits, crashes>>
  BY <1>1 DEF TypeOK, EnqueuePrintJob
<1> HIDE DEF row
<1>4. /\ jobs' \in Seq(Job)
      /\ Len(jobs') = Len(jobs) + 1
      /\ \A j \in 1..Len(jobs) : jobs'[j] = jobs[j]
      /\ jobs'[Len(jobs) + 1] = row
  BY <1>2, <1>3, AppendProperties
<1>5. /\ DOMAIN jobs = 1..Len(jobs) /\ Len(jobs) \in Nat
      /\ DOMAIN jobs' = 1..(Len(jobs) + 1)
      /\ \A j \in DOMAIN jobs : j \in DOMAIN jobs' /\ jobs'[j] = jobs[j]
  BY <1>1, <1>4, RowNumbers, LenProperties
<1>6. /\ processing' \in BOOLEAN
      /\ loops' \in [Loops -> Loop]
      /\ \A w \in Loops : loops'[w] = loops[w] \/ loops'[w] = Selecting
      /\ OneLoop'
      /\ Flagged'
  BY <1>1, Wakes DEF EnqueuePrintJob
<1>7. TypeOK'
  <2>1. Len(jobs') <= MaxJobs
    BY <1>3, <1>4, <1>5, PrintAssumption
  <2>2. ASSUME NEW w \in Loops
        PROVE  \/ loops'[w] \in {Idle, Selecting}
               \/ /\ Sending(w)' /\ loops'[w].job \in DOMAIN jobs'
                  /\ loops'[w].attempts \in 0..(MaxAttempts - 1)
                  /\ loops'[w].left \in 1..Copies[jobs'[loops'[w].job].printer]
    BY <1>1, <1>5, <1>6 DEF TypeOK, Sending
  <2> QED
    BY <1>1, <1>3, <1>4, <1>6, <2>1, <2>2 DEF TypeOK
<1>8. AttemptsLeft'
  <2>1. ASSUME NEW j \in DOMAIN jobs', jobs'[j].status \in {"queued", "printing"}
        PROVE  jobs'[j].attempts < MaxAttempts
    <3>1. CASE j \in DOMAIN jobs
      BY <1>1, <1>5, <2>1, <3>1 DEF AttemptsLeft
    <3>2. CASE j = Len(jobs) + 1
      BY <1>2, <1>4, <3>2, PrintAssumption
    <3> QED
      BY <1>5, <3>1, <3>2
  <2> QED
    BY <2>1 DEF AttemptsLeft
<1>9. Held'
  <2>1. ASSUME NEW w \in Loops, Sending(w)' PROVE Holds(w, loops[w].job)' /\ loops'[w] = loops[w]
    <3>1. loops'[w] = loops[w] /\ Sending(w)
      BY <1>6, <2>1 DEF Sending, Selecting
    <3>2. loops[w].job \in DOMAIN jobs /\ Holds(w, loops[w].job)
      BY <1>1, <3>1 DEF TypeOK, Held, Sending, Idle, Selecting
    <3>3. \A i \in 1..(loops[w].job - 1) : i \in DOMAIN jobs
      BY <1>5, <3>2
    <3> QED
      BY <1>3, <1>5, <3>1, <3>2, <3>3 DEF Holds
  <2> QED
    BY <2>1 DEF Held, Sending
<1>10. PrintedInFull'
  BY <1>1, <1>2, <1>3, <1>4, <1>5 DEF PrintedInFull
<1> QED
  BY <1>6, <1>7, <1>8, <1>9, <1>10 DEF IInv

\* Steps that leave the rows alone and stop or start loops at most.
LEMMA RowsKept ==
    ASSUME IInv, jobs' = jobs,
           tickets' \in [JobIds -> Nat],
           \A j \in JobIds : tickets'[j] >= tickets[j],
           loops' \in [Loops -> Loop],
           \A w \in Loops : loops'[w] \in {loops[w], Idle, Selecting},
           OneLoop', Flagged',
           enabled' \in [Printers -> BOOLEAN], reachable' \in [Printers -> BOOLEAN],
           processing' \in BOOLEAN, edits' \in 0..MaxEdits, crashes' \in 0..MaxCrashes
    PROVE  IInv'
<1>1. TypeOK /\ AttemptsLeft /\ Held /\ PrintedInFull
  BY DEF IInv
<1>2. DOMAIN jobs \subseteq JobIds /\ \A j \in DOMAIN jobs : jobs[j] \in Job
  BY <1>1, RowNumbers
<1>3. \A j \in DOMAIN jobs : Copies[jobs[j].printer] \in Nat
  BY <1>2, PrintAssumption DEF Job
<1>4. TypeOK'
  BY <1>1 DEF TypeOK, Sending
<1>5. AttemptsLeft'
  BY <1>1 DEF AttemptsLeft
<1>6. Held'
  <2>1. ASSUME NEW w \in Loops, Sending(w)' PROVE Holds(w, loops[w].job)'
    <3>1. loops'[w] = loops[w] /\ Sending(w)
      BY <2>1 DEF Sending, Idle, Selecting
    <3>2. loops[w].job \in DOMAIN jobs /\ Holds(w, loops[w].job)
      BY <1>1, <3>1 DEF TypeOK, Held, Sending, Idle, Selecting
    <3>3. tickets'[loops[w].job] >= tickets[loops[w].job] /\ tickets[loops[w].job] \in Nat
          /\ tickets'[loops[w].job] \in Nat /\ loops[w].left \in Nat
      BY <1>1, <1>2, <3>2 DEF TypeOK, Loop
    <3> QED
      BY <1>3, <3>1, <3>2, <3>3 DEF Holds
  <2> QED
    BY <2>1 DEF Held, Sending
<1>7. PrintedInFull'
  <2>1. \A j \in DOMAIN jobs : tickets'[j] >= tickets[j] /\ tickets[j] \in Nat /\ tickets'[j] \in Nat
    BY <1>1, <1>2 DEF TypeOK
  <2> QED
    BY <1>1, <1>3, <2>1 DEF PrintedInFull
<1> QED
  BY <1>4, <1>5, <1>6, <1>7 DEF IInv

\* Steps in which the one loop writes one row, and goes on to send it or to
\* select the next.
LEMMA RowStep ==
    ASSUME IInv, NEW w \in Loops, loops[w] # Idle, NEW j \in DOMAIN jobs, NEW lp \in Loop,
           loops' = [loops EXCEPT ![w] = lp],
           jobs' \in Seq(Job), Len(jobs') = Len(jobs), DOMAIN jobs' = DOMAIN jobs,
           \A i \in DOMAIN jobs : i # j => jobs'[i] = jobs[i],
           jobs'[j].printer = jobs[j].printer,
           jobs'[j].status \in {"queued", "printing"} => jobs'[j].attempts < MaxAttempts,
           jobs'[j].status = "printed" => tickets'[j] >= Copies[jobs[j].printer],
           tickets' \in [JobIds -> Nat],
           \A i \in JobIds : tickets'[i] >= tickets[i],
           \/ lp = Selecting
           \/ /\ lp.at = "send" /\ lp.job = j
              /\ lp.attempts \in 0..(MaxAttempts - 1)
              /\ lp.left \in 1..Copies[jobs[j].printer]
              /\ jobs'[j].status = "printing"
              /\ jobs'[j].attempts = lp.attempts
              /\ \A i \in 1..(j - 1) : jobs[i].status \in {"printed", "failed"}
              /\ tickets'[j] + lp.left >= Copies[jobs[j].printer],
           UNCHANGED <<enabled, processing, reachable, edits, crashes>>
    PROVE  IInv'
<1>1. TypeOK /\ OneLoop /\ Flagged /\ AttemptsLeft /\ PrintedInFull
  BY DEF IInv
<1>2. /\ \A v \in Loops : loops'[v] = IF v = w THEN lp ELSE Idle
      /\ loops' \in [Loops -> Loop]
  <2>1. \A v \in Loops : v # w => loops[v] = Idle
    BY <1>1 DEF OneLoop
  <2>2. loops \in [Loops -> Loop]
    BY <1>1 DEF TypeOK
  <2> QED
    BY ONLY <2>1, <2>2, w \in Loops, lp \in Loop, loops' = [loops EXCEPT ![w] = lp]
<1>3. OneLoop' /\ Flagged'
  BY <1>1, <1>2 DEF OneLoop, Flagged
<1>4. DOMAIN jobs = 1..Len(jobs) /\ DOMAIN jobs \subseteq JobIds
  BY <1>1, RowNumbers
<1>5. TypeOK'
  <2>1. ASSUME NEW v \in Loops
        PROVE  \/ loops'[v] \in {Idle, Selecting}
               \/ /\ Sending(v)' /\ loops'[v].job \in DOMAIN jobs'
                  /\ loops'[v].attempts \in 0..(MaxAttempts - 1)
                  /\ loops'[v].left \in 1..Copies[jobs'[loops'[v].job].printer]
    BY <1>2 DEF Sending
  <2> QED
    BY <1>1, <1>2, <2>1 DEF TypeOK
<1>6. AttemptsLeft'
  BY <1>1 DEF AttemptsLeft
<1>7. Held'
  <2>1. ASSUME NEW v \in Loops, Sending(v)' PROVE Holds(v, loops[v].job)'
    <3>1. v = w /\ loops'[v] = lp /\ lp # Selecting
      BY <1>2, <2>1 DEF Sending, Idle, Selecting
    <3>2. \A i \in 1..(j - 1) : i \in DOMAIN jobs /\ i # j
      BY <1>4
    <3> QED
      BY <3>1, <3>2 DEF Holds
  <2> QED
    BY <2>1 DEF Held, Sending
<1>8. PrintedInFull'
  <2>1. \A i \in DOMAIN jobs : tickets'[i] >= tickets[i] /\ tickets[i] \in Nat /\ tickets'[i] \in Nat
    BY <1>1, <1>4 DEF TypeOK
  <2>2. \A i \in DOMAIN jobs : Copies[jobs[i].printer] \in Nat
    <3>1. \A i \in DOMAIN jobs : jobs[i].printer \in Printers
      BY <1>1, RowNumbers DEF Job
    <3> QED
      BY ONLY <3>1, PrintAssumption
  <2> QED
    BY <1>1, <2>1, <2>2, SMTT(30) DEF PrintedInFull
<1> QED
  BY <1>3, <1>5, <1>6, <1>7, <1>8 DEF IInv

\* The sweep wakes the loop up or finds it at work.
LEMMA SweepInv == ASSUME IInv, Sweep PROVE IInv'
<1>1. TypeOK /\ OneLoop /\ Flagged
  BY DEF IInv
<1>2. /\ ProcessQueue
      /\ UNCHANGED <<jobs, enabled, reachable, tickets, edits, crashes>>
  BY DEF Sweep
<1>3. \A j \in JobIds : tickets[j] \in Nat
  BY <1>1 DEF TypeOK
<1>4. \A j \in JobIds : tickets'[j] >= tickets[j]
  BY <1>2, <1>3
<1>5. \A w \in Loops : loops'[w] \in {loops[w], Idle, Selecting}
  BY <1>1, <1>2, Wakes
<1> QED
  BY <1>1, <1>2, <1>4, <1>5, Wakes, RowsKept DEF TypeOK

\* The loop ends, skips a job or takes the oldest.
LEMMA SelectInv == ASSUME IInv, NEW w \in Loops, Select(w) PROVE IInv'
<1>1. TypeOK /\ OneLoop /\ Flagged /\ AttemptsLeft
  BY DEF IInv
<1>2. /\ loops[w].at = "select" /\ loops[w] = Selecting /\ loops[w] # Idle
      /\ loops \in [Loops -> Loop] /\ Idle \in Loop /\ Selecting \in Loop
  BY <1>1 DEF Select, TypeOK, Idle, Selecting, Sending, Loop
<1>3. UNCHANGED <<enabled, reachable, tickets, edits, crashes>>
  BY DEF Select
<1>4. /\ \A j \in JobIds : tickets'[j] >= tickets[j] /\ tickets[j] \in Nat
      /\ tickets' \in [JobIds -> Nat]
  BY <1>1, <1>3 DEF TypeOK
<1>5. CASE Stop(w) /\ UNCHANGED jobs
  <2>1. \A v \in Loops : v # w => loops[v] = Idle
    BY <1>1, <1>2 DEF OneLoop
  <2>2. loops' \in [Loops -> Loop] /\ \A v \in Loops : loops'[v] = Idle
    BY <1>2, <1>5, <2>1 DEF Stop
  <2>3. OneLoop' /\ Flagged'
    BY <2>2 DEF OneLoop, Flagged
  <2>4. processing' \in BOOLEAN
    BY <1>5 DEF Stop
  <2> QED
    BY <1>1, <1>3, <1>4, <1>5, <2>2, <2>3, <2>4, RowsKept DEF TypeOK
<1>6. CASE /\ Unfinished # {}
           /\ jobs' = [jobs EXCEPT ![NextJob].status = "failed"]
           /\ UNCHANGED <<processing, loops>>
  <2>1. NextJob \in DOMAIN jobs
    BY <1>1, <1>6, NextIsOldest
  <2>2. "failed" \in Statuses
    BY DEF Statuses
  <2>3. /\ jobs' \in Seq(Job) /\ Len(jobs') = Len(jobs) /\ DOMAIN jobs' = DOMAIN jobs
        /\ \A i \in DOMAIN jobs : i # NextJob => jobs'[i] = jobs[i]
        /\ jobs'[NextJob].status = "failed"
        /\ jobs'[NextJob].printer = jobs[NextJob].printer
    BY <1>1, <1>6, <2>1, <2>2, StatusWritten
  <2>4. loops' = [loops EXCEPT ![w] = Selecting]
    BY ONLY <1>2, <1>6
  <2> QED
    BY <1>2, <1>3, <1>4, <1>6, <2>1, <2>3, <2>4, RowStep, ZenonT(60)
<1>7. CASE /\ Unfinished # {}
           /\ jobs' = [jobs EXCEPT ![NextJob].status = "printing"]
           /\ loops' = [loops EXCEPT ![w] =
                [at |-> "send", job |-> NextJob, attempts |-> jobs[NextJob].attempts,
                 left |-> Copies[jobs[NextJob].printer]]]
           /\ UNCHANGED processing
  <2> DEFINE lp == [at |-> "send", job |-> NextJob, attempts |-> jobs[NextJob].attempts,
                    left |-> Copies[jobs[NextJob].printer]]
  <2>1. /\ NextJob \in DOMAIN jobs
        /\ jobs[NextJob].status \in {"queued", "printing"}
        /\ \A i \in 1..(NextJob - 1) : jobs[i].status \in {"printed", "failed"}
    BY <1>1, <1>7, NextIsOldest
  <2>2. "printing" \in Statuses
    BY DEF Statuses
  <2>3. /\ jobs' \in Seq(Job) /\ Len(jobs') = Len(jobs) /\ DOMAIN jobs' = DOMAIN jobs
        /\ \A i \in DOMAIN jobs : i # NextJob => jobs'[i] = jobs[i]
        /\ jobs'[NextJob].status = "printing"
        /\ jobs'[NextJob].printer = jobs[NextJob].printer
        /\ jobs'[NextJob].attempts = jobs[NextJob].attempts
    BY <1>1, <1>7, <2>1, <2>2, StatusWritten
  <2>4. /\ jobs[NextJob] \in Job /\ NextJob \in Nat /\ NextJob \in JobIds
        /\ jobs[NextJob].attempts < MaxAttempts
    BY <1>1, <2>1, RowNumbers DEF AttemptsLeft
  <2>5. /\ Copies[jobs[NextJob].printer] \in Nat \ {0}
        /\ jobs[NextJob].attempts \in 0..(MaxAttempts - 1)
    BY <2>4, PrintAssumption DEF Job
  <2>6. /\ lp \in Loop /\ lp.at = "send" /\ lp.job = NextJob
        /\ lp.attempts = jobs[NextJob].attempts
        /\ lp.left = Copies[jobs[NextJob].printer]
    BY <2>4, <2>5 DEF Loop
  <2>7. loops' = [loops EXCEPT ![w] = lp]
    BY <1>7
  <2> HIDE DEF lp
  <2>8. tickets'[NextJob] + lp.left >= Copies[jobs[NextJob].printer]
    BY <1>3, <1>4, <2>4, <2>5, <2>6
  <2>9. lp.left \in 1..Copies[jobs[NextJob].printer]
    BY <2>5, <2>6
  <2>10. /\ lp.at = "send" /\ lp.job = NextJob
         /\ lp.attempts \in 0..(MaxAttempts - 1)
         /\ lp.left \in 1..Copies[jobs[NextJob].printer]
         /\ jobs'[NextJob].status = "printing"
         /\ jobs'[NextJob].attempts = lp.attempts
         /\ \A i \in 1..(NextJob - 1) : jobs[i].status \in {"printed", "failed"}
         /\ tickets'[NextJob] + lp.left >= Copies[jobs[NextJob].printer]
    BY <2>1, <2>3, <2>5, <2>6, <2>8, <2>9
  <2>11. /\ jobs'[NextJob].attempts < MaxAttempts
         /\ jobs'[NextJob].status # "printed"
         /\ UNCHANGED <<enabled, processing, reachable, edits, crashes>>
    BY <1>3, <1>7, <2>3, <2>4
  <2> QED
    BY ONLY IInv, w \in Loops, <1>2, <1>4, <2>1, <2>3, <2>6, <2>7, <2>10, <2>11, RowStep
<1> QED
  BY <1>5, <1>6, <1>7 DEF Select

\* What a sending loop knows of its job.
LEMMA SendingRow ==
    ASSUME IInv, NEW w \in Loops, Sending(w)
    PROVE  /\ loops[w] # Idle /\ loops[w].job \in DOMAIN jobs /\ loops[w].job \in JobIds
           /\ jobs[loops[w].job] \in Job
           /\ loops[w].attempts \in 0..(MaxAttempts - 1)
           /\ loops[w].left \in 1..Copies[jobs[loops[w].job].printer]
           /\ Copies[jobs[loops[w].job].printer] \in Nat \ {0}
           /\ tickets[loops[w].job] \in Nat
           /\ Holds(w, loops[w].job)
<1>1. TypeOK /\ Held
  BY DEF IInv
<1>2. /\ loops[w] # Idle /\ loops[w].job \in DOMAIN jobs
      /\ loops[w].attempts \in 0..(MaxAttempts - 1)
      /\ loops[w].left \in 1..Copies[jobs[loops[w].job].printer]
  BY <1>1 DEF TypeOK, Sending, Idle, Selecting
<1>3. loops[w].job \in JobIds /\ jobs[loops[w].job] \in Job
  BY <1>1, <1>2, RowNumbers
<1> QED
  BY <1>1, <1>2, <1>3, PrintAssumption DEF Held, TypeOK, Job

\* One more copy came out: the next one, or the job is printed.
LEMMA CopySentInv == ASSUME IInv, NEW w \in Loops, CopySent(w) PROVE IInv'
<1> DEFINE j == loops[w].job
           row == [printer |-> jobs[j].printer, status |-> "printed",
                   attempts |-> jobs[j].attempts + 1]
           lp == [loops[w] EXCEPT !.left = @ - 1]
<1>1. TypeOK /\ Sending(w)
  BY DEF IInv, CopySent, Sending
<1>2. /\ loops[w] # Idle /\ j \in DOMAIN jobs /\ j \in JobIds /\ jobs[j] \in Job
      /\ loops[w].attempts \in 0..(MaxAttempts - 1)
      /\ loops[w].left \in 1..Copies[jobs[j].printer]
      /\ Copies[jobs[j].printer] \in Nat \ {0}
      /\ tickets[j] \in Nat
      /\ Holds(w, j)
  BY <1>1, SendingRow
<1>3. /\ tickets' = [tickets EXCEPT ![j] = @ + 1]
      /\ UNCHANGED <<enabled, processing, reachable, edits, crashes>>
  BY DEF CopySent
<1>4. loops[w] \in Loop /\ Selecting \in Loop /\ tickets \in [JobIds -> Nat]
  BY <1>1 DEF TypeOK, Selecting, Loop
<1> HIDE DEF j
<1>5. /\ tickets' \in [JobIds -> Nat] /\ tickets'[j] = tickets[j] + 1
      /\ \A i \in JobIds : tickets'[i] >= tickets[i]
  BY <1>2, <1>3, <1>4
<1>6. CASE /\ ~LastCopy(w)
           /\ loops' = [loops EXCEPT ![w].left = @ - 1]
           /\ UNCHANGED jobs
  <2>1. loops[w].left \in Nat /\ loops[w].left > 1
    BY <1>2, <1>6 DEF LastCopy
  <2>2. /\ lp \in Loop /\ lp.at = loops[w].at /\ lp.job = loops[w].job
        /\ lp.attempts = loops[w].attempts /\ lp.left = loops[w].left - 1
    BY <1>4, <2>1 DEF Loop
  <2>3. loops' = [loops EXCEPT ![w] = lp]
    BY <1>6
  <2> HIDE DEF lp
  <2>4. /\ lp.at = "send" /\ lp.job = j
        /\ lp.attempts \in 0..(MaxAttempts - 1)
        /\ lp.left \in 1..Copies[jobs[j].printer]
        /\ jobs'[j].status = "printing"
        /\ jobs'[j].attempts = lp.attempts
        /\ \A i \in 1..(j - 1) : jobs[i].status \in {"printed", "failed"}
        /\ tickets'[j] + lp.left >= Copies[jobs[j].printer]
    BY <1>1, <1>2, <1>5, <1>6, <2>1, <2>2 DEF Holds, Sending, j
  <2>5. jobs' \in Seq(Job) /\ Len(jobs') = Len(jobs) /\ DOMAIN jobs' = DOMAIN jobs
        /\ jobs' = jobs
    BY <1>1, <1>6 DEF TypeOK
  <2>6. jobs'[j].attempts < MaxAttempts /\ jobs'[j].status # "printed"
    BY <1>2, <2>2, <2>4, PrintAssumption
  <2> QED
    BY ONLY IInv, w \in Loops, <1>2, <1>3, <1>5, <2>2, <2>3, <2>4, <2>5, <2>6, RowStep
<1>7. CASE /\ LastCopy(w)
           /\ jobs' = [jobs EXCEPT ![j] = row]
           /\ loops' = [loops EXCEPT ![w] = Selecting]
  <2>1. jobs[j].attempts + 1 \in 0..MaxAttempts
    BY <1>2, PrintAssumption DEF Holds
  <2>2. row \in Job /\ row.status = "printed" /\ row.printer = jobs[j].printer
    BY <1>2, <2>1 DEF Job, Statuses
  <2> HIDE DEF row
  <2>3. /\ jobs' \in Seq(Job) /\ Len(jobs') = Len(jobs) /\ DOMAIN jobs' = DOMAIN jobs
        /\ \A i \in DOMAIN jobs : i # j => jobs'[i] = jobs[i]
        /\ jobs'[j] = row
    BY <1>1, <1>2, <1>7, <2>2, RowWritten
  <2>4. tickets'[j] >= Copies[jobs[j].printer]
    BY <1>2, <1>5, <1>7 DEF Holds, LastCopy
  <2> QED
    BY ONLY IInv, w \in Loops, <1>2, <1>3, <1>4, <1>5, <1>7, <2>2, <2>3, <2>4, RowStep
<1> QED
  BY <1>6, <1>7 DEF CopySent, j

\* A send that failed is counted, and the job queued again or given up.
LEMMA SendFailedInv ==
    ASSUME IInv, NEW w \in Loops, NEW cameOut \in BOOLEAN, SendFailed(w, cameOut)
    PROVE  IInv'
<1> DEFINE j == loops[w].job
           row == [printer |-> jobs[j].printer,
                   status |-> IF GivesUp(w) THEN "failed" ELSE "queued",
                   attempts |-> AttemptsAfter(w)]
<1>1. TypeOK /\ Sending(w)
  BY DEF IInv, SendFailed, Sending
<1>2. /\ loops[w] # Idle /\ j \in DOMAIN jobs /\ j \in JobIds /\ jobs[j] \in Job
      /\ loops[w].attempts \in 0..(MaxAttempts - 1)
      /\ tickets[j] \in Nat
  BY <1>1, SendingRow
<1>3. /\ tickets' = [tickets EXCEPT ![j] = IF cameOut THEN @ + 1 ELSE @]
      /\ jobs' = [jobs EXCEPT ![j] = row]
      /\ loops' = [loops EXCEPT ![w] = Selecting]
      /\ UNCHANGED <<enabled, processing, reachable, edits, crashes>>
  BY DEF SendFailed
<1>4. Selecting \in Loop /\ tickets \in [JobIds -> Nat]
  BY <1>1 DEF TypeOK, Selecting, Loop
<1>5. /\ row \in Job /\ row.printer = jobs[j].printer
      /\ row.status # "printed"
      /\ row.status \in {"queued", "printing"} => row.attempts < MaxAttempts
  BY <1>2, PrintAssumption DEF Job, Statuses, GivesUp, AttemptsAfter
<1> HIDE DEF j, row
<1>6. /\ tickets' \in [JobIds -> Nat]
      /\ \A i \in JobIds : tickets'[i] >= tickets[i]
  BY <1>2, <1>3, <1>4
<1>7. /\ jobs' \in Seq(Job) /\ Len(jobs') = Len(jobs) /\ DOMAIN jobs' = DOMAIN jobs
      /\ \A i \in DOMAIN jobs : i # j => jobs'[i] = jobs[i]
      /\ jobs'[j] = row
  BY <1>1, <1>2, <1>3, <1>5, RowWritten
<1> QED
  BY ONLY IInv, w \in Loops, <1>2, <1>3, <1>4, <1>5, <1>6, <1>7, RowStep

\* Neither an admin nor the switch of a printer touches the queue.
LEMMA AroundInv ==
    ASSUME IInv, NEW p \in Printers, UpsertPrinter(p) \/ PowerSwitch(p)
    PROVE  IInv'
<1>1. TypeOK /\ OneLoop /\ Flagged
  BY DEF IInv
<1>2. /\ jobs' = jobs /\ tickets' = tickets /\ loops' = loops
      /\ processing' = processing /\ crashes' = crashes
  BY DEF UpsertPrinter, PowerSwitch
<1>3. /\ enabled' \in [Printers -> BOOLEAN] /\ reachable' \in [Printers -> BOOLEAN]
  BY <1>1, Zenon DEF UpsertPrinter, PowerSwitch, TypeOK
<1>4. edits' \in 0..MaxEdits
  BY <1>1, PrintAssumption DEF UpsertPrinter, PowerSwitch, TypeOK
<1>5. OneLoop' /\ Flagged'
  BY <1>1, <1>2 DEF OneLoop, Flagged
<1>6. /\ tickets' \in [JobIds -> Nat]
      /\ \A j \in JobIds : tickets'[j] >= tickets[j]
      /\ loops' \in [Loops -> Loop] /\ processing' \in BOOLEAN
      /\ crashes' \in 0..MaxCrashes
  BY <1>1, <1>2 DEF TypeOK
<1>7. \A w \in Loops : loops'[w] \in {loops[w], Idle, Selecting}
  BY <1>2
<1> QED
  BY <1>2, <1>3, <1>4, <1>5, <1>6, <1>7, RowsKept

\* After a crash one loop starts over; the table is as it was.
LEMMA CrashInv == ASSUME IInv, NEW cameOut \in BOOLEAN, Crash(cameOut) PROVE IInv'
<1> DEFINE first == CHOOSE w \in Loops : TRUE
<1>1. TypeOK
  BY DEF IInv
<1>2. first \in Loops
  BY PrintAssumption
<1> HIDE DEF first
<1>3. /\ loops' = [[w \in Loops |-> Idle] EXCEPT ![first] = Selecting]
      /\ processing' = TRUE
      /\ UNCHANGED <<jobs, enabled, reachable, edits>>
  BY DEF Crash, first
<1>4. Idle \in Loop /\ Selecting \in Loop
  BY DEF Idle, Selecting, Loop
<1>5. /\ loops' \in [Loops -> Loop]
      /\ \A w \in Loops : loops'[w] = IF w = first THEN Selecting ELSE Idle
  BY ONLY <1>2, <1>3, <1>4
<1>6. OneLoop' /\ Flagged'
  BY <1>3, <1>5 DEF OneLoop, Flagged
<1>7. /\ tickets' \in [JobIds -> Nat]
      /\ \A j \in JobIds : tickets'[j] >= tickets[j]
  <2>1. tickets' = [i \in JobIds |->
          IF cameOut /\ \E w \in Loops : loops[w].job = i THEN tickets[i] + 1 ELSE tickets[i]]
    BY DEF Crash
  <2>2. tickets \in [JobIds -> Nat]
    BY <1>1 DEF TypeOK
  <2> QED
    BY ONLY <2>1, <2>2
<1>8. crashes' \in 0..MaxCrashes
  BY <1>1, PrintAssumption DEF Crash, TypeOK
<1> QED
  BY <1>1, <1>3, <1>5, <1>6, <1>7, <1>8, RowsKept DEF TypeOK

\* So every step keeps it.
LEMMA NextInv == IInv /\ [Next]_vars => IInv'
<1> SUFFICES ASSUME IInv, [Next]_vars PROVE IInv'
  OBVIOUS
<1>1. CASE Enqueue
  BY <1>1, EnqueueInv DEF Enqueue
<1>2. CASE Sweep
  BY <1>2, SweepInv
<1>3. CASE \E w \in Loops : Select(w) \/ CopySent(w)
  BY <1>3, SelectInv, CopySentInv
<1>4. CASE \E w \in Loops, cameOut \in BOOLEAN : SendFailed(w, cameOut)
  BY <1>4, SendFailedInv
<1>5. CASE \E p \in Printers : UpsertPrinter(p) \/ PowerSwitch(p)
  BY <1>5, AroundInv
<1>6. CASE \E cameOut \in BOOLEAN : Crash(cameOut)
  BY <1>6, CrashInv
<1>7. CASE UNCHANGED vars
  BY <1>7 DEF vars, IInv, TypeOK, OneLoop, Flagged, AttemptsLeft, Held, Holds,
              PrintedInFull, Sending
<1> QED
  BY <1>1, <1>2, <1>3, <1>4, <1>5, <1>6, <1>7 DEF Next

THEOREM Invariance == Spec => []IInv
BY InitInv, NextInv, PTL DEF Spec

-------------------------------------------------------------------------------
(* What follows *)

\* Rows, loops and counters are of their types, attempts and copies within
\* their limits.
THEOREM TypeCorrect == Spec => []TypeOK
<1>1. IInv => TypeOK
  BY DEF IInv
<1> QED
  BY <1>1, Invariance, PTL

\* A job is in the hands of one call of processQueue at most, however many
\* sweeps, timers and enqueues wake the worker.
THEOREM OneSendAtATime == Spec => []NoDoubleSend
<1>1. IInv => NoDoubleSend
  BY DEF IInv, OneLoop, Held, Holds, NoDoubleSend, Sending, Idle
<1> QED
  BY <1>1, Invariance, PTL

\* What is being sent is the oldest job not yet printed or given up.
THEOREM OldestFirst == Spec => []InOrder
<1>1. IInv => InOrder
  BY DEF IInv, Held, Holds, InOrder
<1> QED
  BY <1>1, Invariance, PTL

\* A job marked as printed came out in every copy, also if the server died
\* between two of them.
THEOREM EveryCopyCameOut == Spec => []PrintedInFull
<1>1. IInv => PrintedInFull
  BY DEF IInv
<1> QED
  BY <1>1, Invariance, PTL

\* A loop that awaited the printer never writes over a job that is printed or
\* given up: what it read before the send is still so after it.
THEOREM FinalityKept == Spec => FinalStaysFinal
<1> DEFINE Kept == \A j \in DOMAIN jobs :
                     jobs[j].status \in {"printed", "failed"} => jobs'[j] = jobs[j]
<1>1. IInv /\ [Next]_vars => [Kept]_jobs
  <2> SUFFICES ASSUME IInv, [Next]_vars, jobs' # jobs,
                      NEW j \in DOMAIN jobs, jobs[j].status \in {"printed", "failed"}
               PROVE  jobs'[j] = jobs[j]
    OBVIOUS
  <2>1. TypeOK
    BY DEF IInv
  <2>2. CASE Enqueue
    <3>1. PICK row : jobs' = Append(jobs, row) /\ row \in Job
      BY <2>2, PrintAssumption DEF Enqueue, EnqueuePrintJob, Job, Statuses
    <3> QED
      BY <2>1, <3>1, AppendProperties, RowNumbers DEF TypeOK
  <2>3. CASE \E w \in Loops : Select(w)
    BY <2>1, <2>3, NextIsOldest, RowNumbers DEF Select
  <2>4. CASE \E w \in Loops : CopySent(w) \/ \E cameOut \in BOOLEAN : SendFailed(w, cameOut)
    <3>1. PICK w \in Loops : CopySent(w) \/ \E cameOut \in BOOLEAN : SendFailed(w, cameOut)
      BY <2>4
    <3>2. Sending(w)
      BY <3>1 DEF CopySent, SendFailed, Sending
    <3>3. loops[w].job # j
      BY <3>2, SendingRow DEF Holds
    <3> QED
      BY <2>1, <3>1, <3>3, RowNumbers DEF CopySent, SendFailed
  <2>5. CASE Sweep \/ (\E p \in Printers : UpsertPrinter(p) \/ PowerSwitch(p))
             \/ (\E cameOut \in BOOLEAN : Crash(cameOut)) \/ UNCHANGED vars
    BY <2>5 DEF Sweep, UpsertPrinter, PowerSwitch, Crash, vars
  <2> QED
    BY <2>2, <2>3, <2>4, <2>5 DEF Next
<1> QED
  BY <1>1, Invariance, PTL DEF Spec, FinalStaysFinal

-------------------------------------------------------------------------------
(* The queue is the spool the cafe wants *)

Out == [j \in JobIds |-> IF Finished(j) THEN 1 ELSE 0]

\* Where no job is made and none is finished, the spool stands still.
LEMMA SpoolStandsStill ==
    ASSUME DOMAIN jobs' = DOMAIN jobs, \A j \in JobIds : Finished(j)' = Finished(j)
    PROVE  UNCHANGED Promise!vars
BY DEF Promise!vars

\* Where just one job is finished, and it was the oldest that was not, it
\* comes out of the spool.
LEMMA SpoolGivesOut ==
    ASSUME NEW j \in JobIds, j \in DOMAIN jobs, DOMAIN jobs' = DOMAIN jobs,
           DOMAIN jobs \subseteq JobIds,
           ~Finished(j), Finished(j)',
           \A i \in JobIds : i # j => Finished(i)' = Finished(i),
           \A i \in DOMAIN jobs : i < j => Finished(i)
    PROVE  Promise!Next
<1> DEFINE after == [i \in JobIds |-> IF Finished(i)' THEN 1 ELSE 0]
<1>1. Out' = after
  BY DEF Out
<1>2. Out[j] = 0 /\ after = [Out EXCEPT ![j] = 1]
  BY DEF Out
<1>3. \A i \in DOMAIN jobs : i < j => Out[i] = 1
  BY DEF Out
<1>4. Promise!ComeOut(j)
  BY <1>1, <1>2, <1>3 DEF Promise!ComeOut, Promise!Turn, Out
<1> QED
  BY <1>4 DEF Promise!Next

\* Writing an unfinished row is nothing to the spool, or finishes the oldest.
LEMMA RowWrittenSpool ==
    ASSUME IInv, NEW j \in DOMAIN jobs, DOMAIN jobs' = DOMAIN jobs,
           \A i \in DOMAIN jobs : i # j => jobs'[i] = jobs[i],
           jobs[j].status \notin {"printed", "failed"},
           \A i \in 1..(j - 1) : jobs[i].status \in {"printed", "failed"}
    PROVE  [Promise!Next]_(Promise!vars)
<1>1. DOMAIN jobs \subseteq JobIds /\ DOMAIN jobs = 1..Len(jobs) /\ Len(jobs) \in Nat
  BY RowNumbers DEF IInv
<1>2. ~Finished(j) /\ \A i \in JobIds : i # j => Finished(i)' = Finished(i)
  BY DEF Finished
<1>3. \A i \in DOMAIN jobs : i < j => Finished(i)
  BY <1>1 DEF Finished
<1>4. CASE Finished(j)'
  BY <1>1, <1>2, <1>3, <1>4, SpoolGivesOut
<1>5. CASE ~Finished(j)'
  <2>1. \A i \in JobIds : Finished(i)' = Finished(i)
    BY <1>2, <1>5 DEF Finished
  <2>2. UNCHANGED Promise!vars
    BY ONLY <2>1, DOMAIN jobs' = DOMAIN jobs, SpoolStandsStill
  <2> QED
    BY ONLY <2>2
<1> QED
  BY <1>4, <1>5

\* Each step of the queue is one of the spool, or none.
LEMMA StepSpool == IInv /\ [Next]_vars => [Promise!Next]_(Promise!vars)
<1> SUFFICES ASSUME IInv, [Next]_vars PROVE [Promise!Next]_(Promise!vars)
  OBVIOUS
<1>1. TypeOK
  BY DEF IInv
<1>2. CASE Enqueue
  <2> DEFINE new == Len(jobs) + 1
  <2>1. PICK row : jobs' = Append(jobs, row) /\ row \in Job /\ row.status = "queued"
                   /\ Len(jobs) < MaxJobs
    BY <1>2, PrintAssumption DEF Enqueue, EnqueuePrintJob, Job, Statuses
  <2>2. /\ Len(jobs') = new
        /\ \A j \in 1..Len(jobs) : jobs'[j] = jobs[j]
        /\ jobs'[new] = row
        /\ jobs' \in Seq(Job)
    BY <1>1, <2>1, AppendProperties DEF TypeOK
  <2>3. /\ DOMAIN jobs = 1..Len(jobs) /\ Len(jobs) \in Nat /\ DOMAIN jobs' = 1..new
    BY <1>1, <2>2, RowNumbers, LenProperties
  <2>4. new \in JobIds
    BY <2>1, <2>3, PrintAssumption DEF JobIds
  <2>5. DOMAIN jobs' = DOMAIN jobs \cup {new} /\ \A j \in DOMAIN jobs : j < new
    BY <2>3
  <2>6. \A j \in JobIds : Finished(j)' = Finished(j)
    BY <2>1, <2>2, <2>3 DEF Finished
  <2>7. Promise!Put(new)
    BY <2>5, <2>6 DEF Promise!Put
  <2> QED
    BY <2>4, <2>7 DEF Promise!Next
<1>3. CASE \E w \in Loops : Select(w)
  <2>1. CASE UNCHANGED jobs
    BY <2>1, SpoolStandsStill DEF Finished
  <2>2. CASE jobs' # jobs
    <3>1. /\ Unfinished # {}
          /\ \E status \in {"failed", "printing"} : jobs' = [jobs EXCEPT ![NextJob].status = status]
      BY <1>3, <2>2 DEF Select
    <3>2. PICK status \in {"failed", "printing"} : jobs' = [jobs EXCEPT ![NextJob].status = status]
      BY <3>1
    <3>3. /\ NextJob \in DOMAIN jobs
          /\ jobs[NextJob].status \in {"queued", "printing"}
          /\ \A i \in 1..(NextJob - 1) : jobs[i].status \in {"printed", "failed"}
      BY <1>1, <3>1, NextIsOldest
    <3>4. status \in Statuses
      BY <3>2 DEF Statuses
    <3>5. /\ DOMAIN jobs' = DOMAIN jobs
          /\ \A i \in DOMAIN jobs : i # NextJob => jobs'[i] = jobs[i]
      BY <1>1, <3>2, <3>3, <3>4, StatusWritten
    <3> QED
      BY <3>3, <3>5, RowWrittenSpool
  <2> QED
    BY <2>1, <2>2
<1>4. CASE \E w \in Loops : CopySent(w) \/ \E cameOut \in BOOLEAN : SendFailed(w, cameOut)
  <2>1. PICK w \in Loops : CopySent(w) \/ \E cameOut \in BOOLEAN : SendFailed(w, cameOut)
    BY <1>4
  <2>2. Sending(w)
    BY <2>1 DEF CopySent, SendFailed, Sending
  <2>3. /\ loops[w].job \in DOMAIN jobs
        /\ jobs[loops[w].job].status \notin {"printed", "failed"}
        /\ \A i \in 1..(loops[w].job - 1) : jobs[i].status \in {"printed", "failed"}
    BY <2>2, SendingRow DEF Holds
  <2>4. /\ DOMAIN jobs' = DOMAIN jobs
        /\ \A i \in DOMAIN jobs : i # loops[w].job => jobs'[i] = jobs[i]
    BY <2>1, <2>3, <1>1, RowNumbers DEF CopySent, SendFailed
  <2> QED
    BY <2>3, <2>4, RowWrittenSpool
<1>5. CASE Sweep \/ (\E p \in Printers : UpsertPrinter(p) \/ PowerSwitch(p))
           \/ (\E cameOut \in BOOLEAN : Crash(cameOut)) \/ UNCHANGED vars
  <2>1. jobs' = jobs
    BY <1>5 DEF Sweep, UpsertPrinter, PowerSwitch, Crash, vars
  <2> QED
    BY <2>1, SpoolStandsStill DEF Finished
<1> QED
  BY <1>2, <1>3, <1>4, <1>5 DEF Next

\* Whatever overlaps or crashes, jobs get through once and in the order they
\* were made: the print queue implements the spool.
THEOREM QueueIsSpool == Spec => ImplementsSpool
<1>1. Init => Promise!Init
  <2>1. ASSUME Init PROVE DOMAIN jobs = {}
    BY <2>1, EmptySeq DEF Init
  <2> QED
    BY <2>1 DEF Promise!Init, Finished
<1> QED
  BY <1>1, StepSpool, Invariance, PTL DEF Spec, ImplementsSpool, Promise!Spec

-------------------------------------------------------------------------------
(* No paper is wasted but by failed attempts and crashes *)

\* The tickets that the attempts and crashes so far, and n more, account for.
Share(j, n) == Copies[jobs[j].printer] * (jobs[j].attempts + crashes + n)

\* A job that is not sent is within its share.  One that is may be ahead of it,
\* by no more than the copies of this attempt that came out already.
NotYet == \A j \in JobIds \ DOMAIN jobs : tickets[j] = 0
AtRest ==
    \A j \in DOMAIN jobs : (\A w \in Loops : loops[w].job # j) => tickets[j] <= Share(j, 0)
InHand ==
    \A w \in Loops :
      Sending(w) => tickets[loops[w].job] + loops[w].left <= Share(loops[w].job, 1)

Accounted == NotYet /\ AtRest /\ InHand

\* One attempt more is one set of copies more.
LEMMA OneShareMore ==
    ASSUME NEW c \in Nat, NEW a \in Nat, NEW b \in Nat
    PROVE  /\ c * (a + b + 0) \in Nat
           /\ c * (a + b + 1) = c * (a + b + 0) + c
           /\ c * (a + 1 + b + 0) = c * (a + b + 1)
           /\ c * (a + (b + 1) + 0) = c * (a + b + 1)
<1>1. c * (a + b) \in Nat /\ c * (a + b + 1) = c * (a + b) + c
  OBVIOUS
<1>2. a + b + 0 = a + b /\ a + 1 + b + 0 = a + b + 1 /\ a + (b + 1) + 0 = a + b + 1
  OBVIOUS
<1> QED
  BY <1>1, <1>2

\* The shares of a row are numbers, each a set of copies apart.
LEMMA Shares ==
    ASSUME TypeOK, NEW j \in DOMAIN jobs
    PROVE  /\ j \in JobIds /\ tickets[j] \in Nat
           /\ jobs[j].attempts \in Nat /\ crashes \in Nat
           /\ Copies[jobs[j].printer] \in Nat /\ Copies[jobs[j].printer] > 0
           /\ Share(j, 0) \in Nat
           /\ Share(j, 1) = Share(j, 0) + Copies[jobs[j].printer]
<1>1. j \in JobIds /\ jobs[j] \in Job
  BY RowNumbers
<1>2. /\ tickets[j] \in Nat /\ jobs[j].attempts \in Nat /\ crashes \in Nat
      /\ Copies[jobs[j].printer] \in Nat /\ Copies[jobs[j].printer] > 0
  BY <1>1, PrintAssumption DEF TypeOK, Job
<1> QED
  BY <1>1, <1>2, OneShareMore DEF Share

\* An attempt that is over is in the row's share; before, it was the one more.
LEMMA AttemptShare ==
    ASSUME NEW j, jobs[j].attempts \in Nat, crashes \in Nat,
           Copies[jobs[j].printer] \in Nat, crashes' = crashes,
           jobs'[j].printer = jobs[j].printer, jobs'[j].attempts = jobs[j].attempts + 1
    PROVE  Share(j, 0)' = Share(j, 1)
<1> DEFINE c == Copies[jobs[j].printer]
           a == jobs[j].attempts
<1>1. Share(j, 0)' = c * (a + 1 + crashes + 0)
  BY DEF Share
<1>2. Share(j, 1) = c * (a + crashes + 1)
  BY DEF Share
<1>3. c \in Nat /\ a \in Nat
  OBVIOUS
<1> HIDE DEF c, a
<1> QED
  BY <1>1, <1>2, <1>3, OneShareMore

\* A loop that has a job sends it.
LEMMA JobsAreSent ==
    ASSUME TypeOK, NEW w \in Loops
    PROVE  /\ Sending(w) => loops[w].job \in DOMAIN jobs /\ loops[w].job \in JobIds
           /\ ~Sending(w) => loops[w] \in {Idle, Selecting} /\ loops[w].job = 0
           /\ \A j \in JobIds : loops[w].job = j => Sending(w)
<1>1. loops[w] \in {Idle, Selecting} \/ (Sending(w) /\ loops[w].job \in DOMAIN jobs)
  BY DEF TypeOK
<1>2. DOMAIN jobs \subseteq JobIds /\ 0 \notin JobIds
  BY RowNumbers DEF JobIds
<1>3. CASE loops[w] \in {Idle, Selecting}
  BY <1>2, <1>3 DEF Idle, Selecting, Sending
<1>4. CASE Sending(w) /\ loops[w].job \in DOMAIN jobs
  BY <1>2, <1>4
<1> QED
  BY <1>1, <1>3, <1>4

\* Where no ticket comes out, no attempt is made and no loop takes or leaves a
\* job, all stays accounted for, new jobs too.
LEMMA NothingSent ==
    ASSUME IInv, IInv', Accounted, tickets' = tickets, crashes' = crashes,
           DOMAIN jobs \subseteq DOMAIN jobs',
           \A j \in DOMAIN jobs : /\ jobs'[j].printer = jobs[j].printer
                                  /\ jobs'[j].attempts = jobs[j].attempts,
           \A w \in Loops : \/ loops'[w] = loops[w]
                            \/ loops[w] \in {Idle, Selecting} /\ loops'[w] \in {Idle, Selecting}
    PROVE  Accounted'
<1>1. TypeOK /\ TypeOK'
  BY DEF IInv
<1>2. \A j \in DOMAIN jobs : Share(j, 0)' = Share(j, 0) /\ Share(j, 1)' = Share(j, 1)
  BY DEF Share
<1>3. \A w \in Loops : loops'[w].job = loops[w].job
                       /\ (Sending(w)' => Sending(w) /\ loops'[w] = loops[w])
  BY DEF Idle, Selecting, Sending
<1>4. JobIds' = JobIds
  BY DEF JobIds
<1>5. NotYet'
  BY <1>4 DEF Accounted, NotYet
<1>6. AtRest'
  <2>1. ASSUME NEW j \in DOMAIN jobs', \A w \in Loops : loops'[w].job # j
        PROVE  tickets'[j] <= Share(j, 0)'
    <3>1. CASE j \in DOMAIN jobs
      BY <1>2, <1>3, <2>1, <3>1 DEF Accounted, AtRest
    <3>2. CASE j \notin DOMAIN jobs
      <4>1. /\ jobs' \in Seq(Job) /\ Len(jobs') <= MaxJobs
            /\ j \in 1..Len(jobs') /\ Len(jobs') \in Nat
        BY <1>1, LenProperties DEF TypeOK
      <4>2. j \in JobIds /\ jobs'[j] \in Job
        BY <4>1, ElementOfSeq, PrintAssumption DEF JobIds
      <4>3. /\ Copies[jobs'[j].printer] \in Nat /\ jobs'[j].attempts \in Nat
            /\ crashes' \in Nat
        BY <1>1, <4>2, PrintAssumption DEF TypeOK, Job
      <4>4. Share(j, 0)' \in Nat
        BY <4>3, OneShareMore DEF Share
      <4> QED
        BY <3>2, <4>2, <4>4 DEF Accounted, NotYet
    <3> QED
      BY <3>1, <3>2
  <2> QED
    BY <2>1 DEF AtRest
<1>7. InHand'
  BY <1>1, <1>2, <1>3, JobsAreSent DEF Accounted, InHand
<1> QED
  BY <1>5, <1>6, <1>7 DEF Accounted

\* Where the one loop writes its job's row or takes a job, only that job is
\* accounted for anew.
LEMMA OneSent ==
    ASSUME IInv, Accounted, NEW w \in Loops, loops[w] # Idle, NEW j \in DOMAIN jobs,
           NEW lp \in Loop, loops' = [loops EXCEPT ![w] = lp], loops[w].job \in {0, j},
           crashes' = crashes, DOMAIN jobs' = DOMAIN jobs,
           \A i \in DOMAIN jobs : i # j => jobs'[i] = jobs[i],
           \A i \in JobIds : i # j => tickets'[i] = tickets[i],
           \/ lp = Selecting /\ tickets'[j] <= Share(j, 0)'
           \/ lp.job = j /\ tickets'[j] + lp.left <= Share(j, 1)'
    PROVE  Accounted'
<1>1. TypeOK /\ OneLoop
  BY DEF IInv
<1>2. DOMAIN jobs \subseteq JobIds /\ JobIds' = JobIds /\ 0 \notin JobIds
  BY <1>1, RowNumbers DEF JobIds
<1>3. \A v \in Loops : (v # w => loops[v] = Idle) /\ loops'[v] = IF v = w THEN lp ELSE Idle
  <2>1. \A v \in Loops : v # w => loops[v] = Idle
    BY <1>1 DEF OneLoop
  <2>2. loops \in [Loops -> Loop]
    BY <1>1 DEF TypeOK
  <2> QED
    BY ONLY <2>1, <2>2, w \in Loops, loops' = [loops EXCEPT ![w] = lp]
<1>4. \A v \in Loops : loops[v].job \in {0, j}
  BY <1>3 DEF Idle
<1>5. NotYet'
  BY <1>2 DEF Accounted, NotYet
<1>6. AtRest'
  <2>1. ASSUME NEW i \in DOMAIN jobs', \A v \in Loops : loops'[v].job # i
        PROVE  tickets'[i] <= Share(i, 0)'
    <3>1. CASE i = j
      BY <1>3, <2>1, <3>1
    <3>2. CASE i # j
      <4>1. \A v \in Loops : loops[v].job # i
        BY <1>2, <1>4, <2>1, <3>2
      <4>2. tickets[i] <= Share(i, 0)
        BY <2>1, <4>1 DEF Accounted, AtRest
      <4>3. Share(i, 0)' = Share(i, 0) /\ tickets'[i] = tickets[i]
        BY <1>2, <2>1, <3>2 DEF Share
      <4> QED
        BY <4>2, <4>3
    <3> QED
      BY <3>1, <3>2
  <2> QED
    BY <2>1 DEF AtRest
<1>7. InHand'
  BY <1>3 DEF InHand, Sending, Idle, Selecting
<1> QED
  BY <1>5, <1>6, <1>7 DEF Accounted

\* Taking a job puts a set of copies in hand.
LEMMA SelectAccounted == ASSUME IInv, IInv', Accounted, NEW w \in Loops, Select(w) PROVE Accounted'
<1>1. TypeOK
  BY DEF IInv
<1>2. loops[w] = Selecting /\ loops[w] # Idle /\ loops \in [Loops -> Loop]
  BY <1>1 DEF Select, TypeOK, Idle, Selecting, Sending
<1>3. tickets' = tickets /\ crashes' = crashes
  BY DEF Select
<1>4. CASE Stop(w) /\ UNCHANGED jobs
  <2>1. \A v \in Loops : loops'[v] = loops[v] \/ (loops[v] = Selecting /\ loops'[v] = Idle)
    BY <1>2, <1>4 DEF Stop
  <2> QED
    BY <1>3, <1>4, <2>1, NothingSent
<1>5. CASE /\ Unfinished # {}
           /\ jobs' = [jobs EXCEPT ![NextJob].status = "failed"]
           /\ UNCHANGED <<processing, loops>>
  <2>1. NextJob \in DOMAIN jobs /\ "failed" \in Statuses
    BY <1>1, <1>5, NextIsOldest DEF Statuses
  <2>2. /\ DOMAIN jobs' = DOMAIN jobs
        /\ \A i \in DOMAIN jobs : i # NextJob => jobs'[i] = jobs[i]
        /\ jobs'[NextJob].printer = jobs[NextJob].printer
        /\ jobs'[NextJob].attempts = jobs[NextJob].attempts
    BY <1>1, <1>5, <2>1, StatusWritten
  <2> QED
    BY <1>3, <1>5, <2>2, NothingSent
<1>6. CASE /\ Unfinished # {}
           /\ jobs' = [jobs EXCEPT ![NextJob].status = "printing"]
           /\ loops' = [loops EXCEPT ![w] =
                [at |-> "send", job |-> NextJob, attempts |-> jobs[NextJob].attempts,
                 left |-> Copies[jobs[NextJob].printer]]]
  <2> DEFINE lp == [at |-> "send", job |-> NextJob, attempts |-> jobs[NextJob].attempts,
                    left |-> Copies[jobs[NextJob].printer]]
  <2>0. PICK j \in DOMAIN jobs : j = NextJob
    BY <1>1, <1>6, NextIsOldest
  <2>1. j \in DOMAIN jobs /\ "printing" \in Statuses
    BY <2>0 DEF Statuses
  <2>2. /\ DOMAIN jobs' = DOMAIN jobs
        /\ \A i \in DOMAIN jobs : i # j => jobs'[i] = jobs[i]
        /\ jobs'[j].printer = jobs[j].printer
        /\ jobs'[j].attempts = jobs[j].attempts
    BY <1>1, <1>6, <2>0, <2>1, StatusWritten
  <2>3. loops' = [loops EXCEPT ![w] = lp] /\ lp.job = j /\ lp.left = Copies[jobs[j].printer]
    BY <1>6, <2>0
  <2>4. /\ j \in JobIds /\ j \in Nat /\ tickets[j] \in Nat
        /\ jobs[j].attempts \in Nat /\ Copies[jobs[j].printer] \in Nat
        /\ Share(j, 0) \in Nat
        /\ Share(j, 1) = Share(j, 0) + Copies[jobs[j].printer]
    BY <1>1, <2>1, Shares DEF JobIds
  <2>5. lp \in Loop
    BY <2>0, <2>4 DEF Loop
  <2> HIDE DEF lp
  <2>6. \A v \in Loops : loops[v].job # j
    <3>1. OneLoop /\ j # 0
      BY <2>4 DEF IInv, JobIds
    <3> QED
      BY <1>2, <3>1 DEF OneLoop, Idle, Selecting
  <2>7. tickets[j] <= Share(j, 0)
    BY <2>1, <2>6 DEF Accounted, AtRest
  <2>8. Share(j, 1)' = Share(j, 1)
    BY <1>3, <2>2 DEF Share
  <2>9. tickets'[j] + lp.left <= Share(j, 1)'
    BY <1>3, <2>3, <2>4, <2>7, <2>8
  <2>10. loops[w].job \in {0, j}
    BY <1>2 DEF Selecting
  <2> QED
    BY <1>2, <1>3, <2>1, <2>2, <2>3, <2>5, <2>9, <2>10, OneSent
<1> QED
  BY <1>4, <1>5, <1>6 DEF Select

\* A copy that came out was in hand; the last one makes the attempt count.
LEMMA CopySentAccounted == ASSUME IInv, Accounted, NEW w \in Loops, CopySent(w) PROVE Accounted'
<1>1. TypeOK /\ Sending(w)
  BY DEF IInv, CopySent, Sending
<1>2. PICK j \in DOMAIN jobs : j = loops[w].job
  BY <1>1, SendingRow
<1>3. /\ loops[w] # Idle /\ loops[w] \in Loop /\ Selecting \in Loop
      /\ loops[w].left \in Nat /\ loops[w].left >= 1
      /\ jobs[j] \in Job /\ tickets[j] \in Nat /\ j \in JobIds
      /\ jobs[j].attempts + 1 \in 0..MaxAttempts
  <2>1. /\ jobs[j] \in Job /\ j \in JobIds /\ tickets[j] \in Nat
        /\ Copies[jobs[j].printer] \in Nat \ {0}
        /\ loops[w].left \in 1..Copies[jobs[j].printer]
        /\ loops[w].attempts \in 0..(MaxAttempts - 1) /\ loops[w].attempts = jobs[j].attempts
        /\ loops[w] # Idle
    BY <1>1, <1>2, SendingRow DEF Holds
  <2>2. loops[w].left \in Nat /\ loops[w].left >= 1 /\ jobs[j].attempts + 1 \in 0..MaxAttempts
    BY <2>1, PrintAssumption
  <2>3. loops[w] \in Loop /\ Selecting \in Loop
    BY <1>1 DEF TypeOK, Selecting, Loop
  <2> QED
    BY <2>1, <2>2, <2>3
<1>4. /\ tickets' = [tickets EXCEPT ![j] = @ + 1] /\ crashes' = crashes
  BY <1>2 DEF CopySent
<1>5. /\ tickets'[j] = tickets[j] + 1
      /\ \A i \in JobIds : i # j => tickets'[i] = tickets[i]
  BY <1>1, <1>3, <1>4 DEF TypeOK
<1>6. /\ tickets[j] + loops[w].left <= Share(j, 1)
      /\ Share(j, 1) \in Nat
      /\ Copies[jobs[j].printer] \in Nat /\ jobs[j].attempts \in Nat /\ crashes \in Nat
  BY <1>1, <1>2, Shares DEF Accounted, InHand
<1>7. CASE /\ ~LastCopy(w)
           /\ loops' = [loops EXCEPT ![w].left = @ - 1]
           /\ UNCHANGED jobs
  <2> DEFINE lp == [loops[w] EXCEPT !.left = @ - 1]
  <2>1. loops[w].left - 1 \in Nat
    BY <1>3
  <2>2. lp \in Loop /\ lp.job = loops[w].job /\ lp.left = loops[w].left - 1
    BY <1>3, <2>1 DEF Loop
  <2>3. loops' = [loops EXCEPT ![w] = lp]
    BY <1>7
  <2>4. Share(j, 1)' = Share(j, 1)
    BY <1>4, <1>7 DEF Share
  <2> HIDE DEF lp
  <2>5. tickets'[j] + lp.left <= Share(j, 1)'
    BY <1>3, <1>5, <1>6, <2>2, <2>4
  <2>6. /\ loops[w].job \in {0, j} /\ lp.job = j
        /\ DOMAIN jobs' = DOMAIN jobs /\ jobs' = jobs
    BY <1>2, <1>7, <2>2
  <2> QED
    BY ONLY IInv, Accounted, w \in Loops, j \in DOMAIN jobs,
            <1>3, <1>4, <1>5, <2>2, <2>3, <2>5, <2>6, OneSent
<1>8. CASE /\ jobs' = [jobs EXCEPT ![j] = [printer |-> @.printer, status |-> "printed",
                                           attempts |-> @.attempts + 1]]
           /\ loops' = [loops EXCEPT ![w] = Selecting]
  <2> DEFINE row == [printer |-> jobs[j].printer, status |-> "printed",
                     attempts |-> jobs[j].attempts + 1]
  <2>1. /\ row \in Job /\ row.printer = jobs[j].printer /\ row.attempts = jobs[j].attempts + 1
        /\ jobs' = [jobs EXCEPT ![j] = row]
    BY <1>3, <1>8 DEF Job, Statuses
  <2> HIDE DEF row
  <2>2. /\ DOMAIN jobs' = DOMAIN jobs
        /\ \A i \in DOMAIN jobs : i # j => jobs'[i] = jobs[i]
        /\ jobs'[j] = row
    BY <1>1, <2>1, RowWritten
  <2>3. Share(j, 0)' = Share(j, 1)
    BY <1>4, <1>6, <2>1, <2>2, AttemptShare
  <2>4. tickets'[j] <= Share(j, 0)'
    BY <1>3, <1>5, <1>6, <2>3
  <2> QED
    BY ONLY IInv, Accounted, w \in Loops, <1>2, <1>3, <1>4, <1>5, <1>8, <2>2, <2>4, OneSent
<1> QED
  BY <1>2, <1>7, <1>8 DEF CopySent

\* A failed send counts as an attempt, whether a ticket came out or not.
LEMMA SendFailedAccounted ==
    ASSUME IInv, Accounted, NEW w \in Loops, NEW cameOut \in BOOLEAN, SendFailed(w, cameOut)
    PROVE  Accounted'
<1>1. TypeOK /\ Sending(w)
  BY DEF IInv, SendFailed, Sending
<1>2. PICK j \in DOMAIN jobs : j = loops[w].job
  BY <1>1, SendingRow
<1> DEFINE row == [printer |-> jobs[j].printer,
                   status |-> IF GivesUp(w) THEN "failed" ELSE "queued",
                   attempts |-> AttemptsAfter(w)]
<1>3. /\ jobs[j] \in Job /\ j \in JobIds /\ tickets[j] \in Nat
      /\ Copies[jobs[j].printer] \in Nat \ {0}
      /\ loops[w].left \in 1..Copies[jobs[j].printer]
      /\ loops[w].attempts \in 0..(MaxAttempts - 1) /\ loops[w].attempts = jobs[j].attempts
      /\ loops[w] # Idle
  BY <1>1, <1>2, SendingRow DEF Holds
<1>4. /\ loops[w].left \in Nat /\ loops[w].left >= 1
      /\ jobs[j].attempts + 1 \in 0..MaxAttempts /\ Selecting \in Loop
  BY <1>3, PrintAssumption DEF Selecting, Loop
<1>5. /\ tickets' = [tickets EXCEPT ![j] = IF cameOut THEN @ + 1 ELSE @] /\ crashes' = crashes
      /\ jobs' = [jobs EXCEPT ![j] = row]
      /\ loops' = [loops EXCEPT ![w] = Selecting]
  BY <1>2 DEF SendFailed
<1>6. /\ tickets'[j] \in {tickets[j], tickets[j] + 1}
      /\ \A i \in JobIds : i # j => tickets'[i] = tickets[i]
  BY <1>1, <1>3, <1>5 DEF TypeOK
<1>7. row \in Job /\ row.printer = jobs[j].printer /\ row.attempts = jobs[j].attempts + 1
  BY <1>3, <1>4 DEF Job, Statuses, AttemptsAfter
<1> HIDE DEF row
<1>8. /\ DOMAIN jobs' = DOMAIN jobs
      /\ \A i \in DOMAIN jobs : i # j => jobs'[i] = jobs[i]
      /\ jobs'[j] = row
  BY <1>1, <1>5, <1>7, RowWritten
<1>9. /\ tickets[j] + loops[w].left <= Share(j, 1)
      /\ Share(j, 1) \in Nat
      /\ Copies[jobs[j].printer] \in Nat /\ jobs[j].attempts \in Nat /\ crashes \in Nat
  BY <1>1, <1>2, Shares DEF Accounted, InHand
<1>10. Share(j, 0)' = Share(j, 1)
  BY <1>5, <1>7, <1>8, <1>9, AttemptShare
<1>11. tickets'[j] <= Share(j, 0)'
  BY <1>3, <1>4, <1>6, <1>9, <1>10
<1> QED
  BY <1>2, <1>3, <1>4, <1>5, <1>6, <1>8, <1>11, OneSent, ZenonT(60)

\* A crash counts for every job; the one in hand may have come out once more.
LEMMA CrashAccounted ==
    ASSUME IInv, Accounted, NEW cameOut \in BOOLEAN, Crash(cameOut)
    PROVE  Accounted'
<1>1. TypeOK
  BY DEF IInv
<1>2. /\ jobs' = jobs /\ crashes' = crashes + 1 /\ JobIds' = JobIds
      /\ \A j \in JobIds : tickets'[j] =
           IF cameOut /\ \E w \in Loops : loops[w].job = j THEN tickets[j] + 1 ELSE tickets[j]
  BY DEF Crash, JobIds
<1>3. \A w \in Loops : ~Sending(w)'
  BY DEF Crash, Sending, Idle, Selecting
<1>4. NotYet'
  BY <1>1, <1>2, JobsAreSent DEF Accounted, NotYet
<1>5. AtRest'
  <2>1. ASSUME NEW j \in DOMAIN jobs PROVE tickets'[j] <= Share(j, 0)'
    <3>1. /\ j \in JobIds /\ tickets[j] \in Nat
          /\ jobs[j].attempts \in Nat /\ crashes \in Nat
          /\ Copies[jobs[j].printer] \in Nat
          /\ Share(j, 0) \in Nat
          /\ Share(j, 1) = Share(j, 0) + Copies[jobs[j].printer]
      BY <1>1, Shares
    <3>2. Share(j, 0)' = Share(j, 1)
      BY <1>2, <3>1, OneShareMore DEF Share
    <3>3. CASE \A w \in Loops : loops[w].job # j
      BY <1>2, <3>1, <3>2, <3>3 DEF Accounted, AtRest
    <3>4. CASE \E w \in Loops : loops[w].job = j
      <4>1. PICK w \in Loops : loops[w].job = j
        BY <3>4
      <4>2. Sending(w)
        BY <1>1, <3>1, <4>1, JobsAreSent
      <4>3. loops[w].left \in 1..Copies[jobs[j].printer]
        BY <4>1, <4>2, SendingRow
      <4>4. tickets[j] + loops[w].left <= Share(j, 1)
        BY <4>1, <4>2 DEF Accounted, InHand
      <4>5. tickets'[j] <= tickets[j] + 1
        BY <1>2, <3>1
      <4>6. tickets'[j] \in Nat
        BY <1>2, <3>1
      <4> QED
        BY <3>1, <3>2, <4>3, <4>4, <4>5, <4>6
    <3> QED
      BY <3>3, <3>4
  <2> QED
    BY <1>2, <2>1 DEF AtRest
<1>6. InHand'
  BY <1>3 DEF InHand
<1> QED
  BY <1>4, <1>5, <1>6 DEF Accounted

\* So it is accounted for in every state.
LEMMA NextAccounted == IInv /\ IInv' /\ Accounted /\ [Next]_vars => Accounted'
<1> SUFFICES ASSUME IInv, IInv', Accounted, [Next]_vars PROVE Accounted'
  OBVIOUS
<1>1. TypeOK /\ OneLoop /\ Flagged
  BY DEF IInv
<1>2. CASE Enqueue
  <2>1. PICK p \in Printers, kind \in {"kitchen", "receipt"} : EnqueuePrintJob(p, kind)
    BY <1>2 DEF Enqueue
  <2> DEFINE row == [printer |-> p, status |-> "queued", attempts |-> 0]
  <2>2. /\ jobs \in Seq(Job) /\ jobs' = Append(jobs, row)
        /\ tickets' = tickets /\ crashes' = crashes /\ ProcessQueue
    BY <1>1, <2>1 DEF EnqueuePrintJob, TypeOK
  <2>3. row \in Job
    BY PrintAssumption DEF Job, Statuses
  <2> HIDE DEF row
  <2>4. Len(jobs') = Len(jobs) + 1 /\ \A j \in 1..Len(jobs) : jobs'[j] = jobs[j]
    BY <2>2, <2>3, AppendProperties
  <2>5. /\ DOMAIN jobs = 1..Len(jobs) /\ Len(jobs) \in Nat
        /\ jobs' \in Seq(Job)
    BY <1>1, <2>2, <2>3, RowNumbers, AppendProperties
  <2>6. DOMAIN jobs' = 1..(Len(jobs) + 1)
    BY <2>4, <2>5, LenProperties
  <2>7. /\ DOMAIN jobs \subseteq DOMAIN jobs'
        /\ \A j \in DOMAIN jobs : /\ jobs'[j].printer = jobs[j].printer
                                  /\ jobs'[j].attempts = jobs[j].attempts
    BY <2>4, <2>5, <2>6
  <2> QED
    BY <1>1, <2>2, <2>7, Wakes, NothingSent
<1>3. CASE Sweep
  BY <1>1, <1>3, Wakes, NothingSent DEF Sweep
<1>4. CASE \E w \in Loops : Select(w) \/ CopySent(w)
  BY <1>4, SelectAccounted, CopySentAccounted
<1>5. CASE \E w \in Loops, cameOut \in BOOLEAN : SendFailed(w, cameOut)
  BY <1>5, SendFailedAccounted
<1>6. CASE (\E p \in Printers : UpsertPrinter(p) \/ PowerSwitch(p)) \/ UNCHANGED vars
  <2>1. jobs' = jobs /\ tickets' = tickets /\ crashes' = crashes /\ loops' = loops
    BY <1>6 DEF UpsertPrinter, PowerSwitch, vars
  <2> QED
    BY <2>1, NothingSent
<1>7. CASE \E cameOut \in BOOLEAN : Crash(cameOut)
  BY <1>7, CrashAccounted
<1> QED
  BY <1>2, <1>3, <1>4, <1>5, <1>6, <1>7 DEF Next

\* The loop that has a job counts as one more attempt, and there is none other.
LEMMA AccountedExplains == IInv /\ Accounted => TicketsExplained
<1> SUFFICES ASSUME IInv, Accounted, NEW j \in DOMAIN jobs
             PROVE  tickets[j] <= Copies[jobs[j].printer]
                      * (jobs[j].attempts + crashes
                         + Cardinality({w \in Loops : loops[w].job = j}))
  BY DEF TicketsExplained
<1> DEFINE Who == {w \in Loops : loops[w].job = j}
<1>1. TypeOK /\ OneLoop /\ j \in JobIds /\ 0 \notin JobIds
  BY RowNumbers DEF IInv, JobIds
<1>2. CASE Who = {}
  <2>1. tickets[j] <= Share(j, 0)
    BY <1>2 DEF Accounted, AtRest
  <2>2. Cardinality({}) = 0
    BY FS_EmptySet, Zenon
  <2> QED
    BY <1>2, <2>1, <2>2 DEF Share
<1>3. CASE Who # {}
  <2>1. PICK w \in Loops : loops[w].job = j
    BY <1>3
  <2>2. Sending(w) /\ loops[w].left \in 1..Copies[jobs[j].printer] /\ loops[w] # Idle
        /\ Copies[jobs[j].printer] \in Nat
    BY <1>1, <2>1, JobsAreSent, SendingRow
  <2>3. Who = {w}
    BY <1>1, <2>1, <2>2 DEF OneLoop, Idle
  <2>4. Cardinality({w}) = 1
    BY FS_Singleton, Zenon
  <2>5. /\ tickets[j] \in Nat /\ Share(j, 1) \in Nat
        /\ tickets[j] + loops[w].left <= Share(j, 1)
    BY <1>1, <2>1, <2>2, Shares DEF Accounted, InHand
  <2>6. tickets[j] <= Share(j, 1)
    BY <2>2, <2>5
  <2> QED
    BY <2>3, <2>4, <2>6 DEF Share
<1> QED
  BY <1>2, <1>3

\* Every ticket of a job is accounted for by an attempt or a crash: retries,
\* sweeps and restarts never print a set of copies on top.
THEOREM PaperAccountedFor == Spec => []TicketsExplained
<1>1. Init => Accounted
  <2> SUFFICES ASSUME Init PROVE Accounted
    OBVIOUS
  <2>1. DOMAIN jobs = {}
    BY EmptySeq DEF Init
  <2>2. \A j \in JobIds : tickets[j] = 0
    BY DEF Init
  <2>3. \A w \in Loops : ~Sending(w)
    BY DEF Init, Sending, Idle
  <2> QED
    BY <2>1, <2>2, <2>3 DEF Accounted, NotYet, AtRest, InHand
<1> QED
  BY <1>1, NextAccounted, AccountedExplains, Invariance, PTL DEF Spec
===============================================================================
