------------------------------ MODULE PrintQueue ------------------------------
(***************************************************************************)
(* The durable print queue of the cafe server: the print_jobs table, the   *)
(* worker loop that sends its jobs to the printers, and the calls that     *)
(* wake the loop up.                                                       *)
(*                                                                         *)
(* processQueue is asynchronous: while it awaits a printer, every other    *)
(* handler may run, another call of processQueue included.  Each call that *)
(* gets past the processing flag is a loop of its own here, so that what   *)
(* the flag keeps apart can be told apart.                                 *)
(***************************************************************************)
EXTENDS Integers, Sequences, FiniteSets, FiniteSetsExt

CONSTANTS
    Printers,    \* the rows of the printers table
    Copies,      \* Copies[p]: how many copies printer p makes of a ticket
    MaxAttempts, \* MAX_ATTEMPTS, 5 in the code
    Loops,       \* calls of processQueue that may be under way
    Flaky,       \* whether a printer within reach may still report an error
    MaxJobs,     \* bound: rows of print_jobs
    MaxEdits,    \* bound: times an admin saves a printer
    MaxCrashes   \* bound: times the server dies

ASSUME PrintAssumption ==
    /\ Copies \in [Printers -> Nat \ {0}]
    /\ MaxAttempts \in Nat \ {0}
    /\ Flaky \in BOOLEAN
    /\ MaxJobs \in Nat /\ MaxEdits \in Nat /\ MaxCrashes \in Nat
    /\ Loops # {}

VARIABLES
    jobs,       \* print_jobs in the order of created_at
    enabled,    \* printers.enabled
    processing, \* the flag of the worker module
    loops,      \* the calls of processQueue
    reachable,  \* whether a printer answers at all
    tickets,    \* how many tickets of each job came out of the printer
    edits, crashes

vars == <<jobs, enabled, processing, loops, reachable, tickets, edits, crashes>>

JobIds == 1..MaxJobs
Statuses == {"queued", "printing", "printed", "failed"}
Job == [printer : Printers, status : Statuses, attempts : 0..MaxAttempts]

\* A loop is idle, about to select its next job, or waiting for the printer
\* with the attempts it read and the copies it has left to send.
Idle == [at |-> "idle", job |-> 0, attempts |-> 0, left |-> 0]
Selecting == [at |-> "select", job |-> 0, attempts |-> 0, left |-> 0]
Loop == [at : {"idle", "select", "send"}, job : Nat, attempts : Nat, left : Nat]

Init ==
    /\ jobs = <<>>
    /\ enabled \in [Printers -> BOOLEAN]
    /\ processing = FALSE
    /\ loops = [w \in Loops |-> Idle]
    /\ reachable = [p \in Printers |-> TRUE]
    /\ tickets = [j \in JobIds |-> 0]
    /\ edits = 0
    /\ crashes = 0

-------------------------------------------------------------------------------
(* Waking the worker *)

\* Which loop a call is makes no difference.
FreeLoop == CHOOSE w \in Loops : loops[w] = Idle

\* Mutation: no flag, every call starts a loop.
ProcessQueueUnguarded ==
    \/ /\ \A w \in Loops : loops[w] # Idle
       /\ UNCHANGED <<processing, loops>>
    \/ /\ \E w \in Loops : loops[w] = Idle
       /\ processing' = TRUE
       /\ loops' = [loops EXCEPT ![FreeLoop] = Selecting]

\* processQueue up to its first select: one call at a time gets there.
ProcessQueue ==
    \/ /\ processing
       /\ UNCHANGED <<processing, loops>>
    \/ /\ ~processing
       /\ processing' = TRUE
       /\ loops' = [loops EXCEPT ![FreeLoop] = Selecting]

\* enqueuePrintJob: a kitchen ticket is made for an enabled printer only, a
\* receipt for its printer in any case.
EnqueuePrintJob(p, kind) ==
    /\ Len(jobs) < MaxJobs
    /\ kind = "kitchen" => enabled[p]
    /\ jobs' = Append(jobs, [printer |-> p, status |-> "queued", attempts |-> 0])
    /\ ProcessQueue
    /\ UNCHANGED <<enabled, reachable, tickets, edits, crashes>>

\* The sweep every ten seconds, and the timers scheduleRetry sets, which find
\* the flag set as long as the loop that set them has work.
Sweep ==
    /\ ProcessQueue
    /\ UNCHANGED <<jobs, enabled, reachable, tickets, edits, crashes>>

-------------------------------------------------------------------------------
(* The worker loop *)

Unfinished == {j \in DOMAIN jobs : jobs[j].status \in {"queued", "printing"}}

\* Mutation: the newest job first.
NextJobNewest == Max(Unfinished)

NextJob == Min(Unfinished)

\* Mutation: the flag stays set when the queue is empty.
StopForgetsFlag(w) ==
    /\ loops' = [loops EXCEPT ![w] = Idle]
    /\ UNCHANGED processing

Stop(w) ==
    /\ loops' = [loops EXCEPT ![w] = Idle]
    /\ processing' = FALSE

\* One turn of the loop: no job left, a job of a disabled printer, or a job to
\* send.
Select(w) ==
    /\ loops[w].at = "select"
    /\ \/ /\ Unfinished = {}
          /\ Stop(w)
          /\ UNCHANGED jobs
       \/ /\ Unfinished # {}
          /\ ~enabled[jobs[NextJob].printer]
          /\ jobs' = [jobs EXCEPT ![NextJob].status = "failed"]
          /\ UNCHANGED <<processing, loops>>
       \/ /\ Unfinished # {}
          /\ enabled[jobs[NextJob].printer]
          /\ jobs' = [jobs EXCEPT ![NextJob].status = "printing"]
          /\ loops' = [loops EXCEPT ![w] =
               [at |-> "send", job |-> NextJob, attempts |-> jobs[NextJob].attempts,
                left |-> Copies[jobs[NextJob].printer]]]
          /\ UNCHANGED processing
    /\ UNCHANGED <<enabled, reachable, tickets, edits, crashes>>

\* Mutation: the job is done when its first copy is.
LastCopyFirst(w) == TRUE

LastCopy(w) == loops[w].left = 1

\* sendToPrinter resolves.
CopySent(w) ==
    LET j == loops[w].job IN
    /\ loops[w].at = "send"
    /\ reachable[jobs[j].printer]
    /\ tickets' = [tickets EXCEPT ![j] = @ + 1]
    /\ \/ /\ ~LastCopy(w)
          /\ loops' = [loops EXCEPT ![w].left = @ - 1]
          /\ UNCHANGED jobs
       \/ /\ LastCopy(w)
          /\ jobs' = [jobs EXCEPT ![j] = [printer |-> @.printer, status |-> "printed",
                                          attempts |-> @.attempts + 1]]
          /\ loops' = [loops EXCEPT ![w] = Selecting]
    /\ UNCHANGED <<enabled, processing, reachable, edits, crashes>>

\* Mutation: a failed send is not counted before the last one.
AttemptsAfterNotCounted(w) == loops[w].attempts

AttemptsAfter(w) == loops[w].attempts + 1

\* Mutation: > for >=.
GivesUpLate(w) == AttemptsAfter(w) > MaxAttempts

GivesUp(w) == AttemptsAfter(w) >= MaxAttempts

\* sendToPrinter rejects: out of reach, or an error or the eight second timeout
\* after the bytes were written, so the ticket may have come out all the same.
\* The loop goes on at once, with the same job: it is still the oldest.
SendFailed(w, cameOut) ==
    LET j == loops[w].job IN
    /\ loops[w].at = "send"
    /\ reachable[jobs[j].printer] => Flaky
    /\ cameOut => reachable[jobs[j].printer]
    /\ tickets' = [tickets EXCEPT ![j] = IF cameOut THEN @ + 1 ELSE @]
    /\ jobs' = [jobs EXCEPT ![j] = [printer |-> @.printer,
                                    status |-> IF GivesUp(w) THEN "failed" ELSE "queued",
                                    attempts |-> AttemptsAfter(w)]]
    /\ loops' = [loops EXCEPT ![w] = Selecting]
    /\ UNCHANGED <<enabled, processing, reachable, edits, crashes>>

-------------------------------------------------------------------------------
(* Around the worker *)

\* PUT /printers/:id, enabling or disabling a printer while its jobs wait.
UpsertPrinter(p) ==
    /\ edits < MaxEdits
    /\ edits' = edits + 1
    /\ enabled' = [enabled EXCEPT ![p] = ~@]
    /\ UNCHANGED <<jobs, processing, loops, reachable, tickets, crashes>>

\* A printer is switched off, unplugged or comes back.
PowerSwitch(p) ==
    /\ reachable' = [reachable EXCEPT ![p] = ~@]
    /\ UNCHANGED <<jobs, enabled, processing, loops, tickets, edits, crashes>>

\* The server dies and boots: the table stays, the flag and the loops are gone,
\* startPrintWorker starts the first loop.  The ticket that was being sent may
\* have come out.
Crash(cameOut) ==
    /\ crashes < MaxCrashes
    /\ crashes' = crashes + 1
    /\ cameOut => \E w \in Loops : loops[w].at = "send" /\ reachable[jobs[loops[w].job].printer]
    /\ tickets' = [j \in JobIds |->
         IF cameOut /\ \E w \in Loops : loops[w].job = j THEN tickets[j] + 1 ELSE tickets[j]]
    /\ processing' = TRUE
    /\ loops' = [[w \in Loops |-> Idle] EXCEPT ![CHOOSE w \in Loops : TRUE] = Selecting]
    /\ UNCHANGED <<jobs, enabled, reachable, edits>>

Enqueue == \E p \in Printers, kind \in {"kitchen", "receipt"} : EnqueuePrintJob(p, kind)

Next ==
    \/ Enqueue
    \/ Sweep
    \/ \E w \in Loops : Select(w) \/ CopySent(w)
    \/ \E w \in Loops, cameOut \in BOOLEAN : SendFailed(w, cameOut)
    \/ \E p \in Printers : UpsertPrinter(p) \/ PowerSwitch(p)
    \/ \E cameOut \in BOOLEAN : Crash(cameOut)

\* The sweep's interval keeps firing, the loop runs on, and a send settles: the
\* socket has a timeout of eight seconds.
Fairness ==
    /\ WF_vars(Sweep)
    /\ \A w \in Loops :
         /\ WF_vars(Select(w))
         /\ WF_vars(CopySent(w) \/ \E cameOut \in BOOLEAN : SendFailed(w, cameOut))

Spec == Init /\ [][Next]_vars
FairSpec == Spec /\ Fairness

-------------------------------------------------------------------------------
(* Properties *)

Sending(w) == loops[w].at = "send"

\* Rows have statuses and attempts of the table, and no loop goes beyond the
\* attempts and copies it may make.
TypeOK ==
    /\ jobs \in Seq(Job) /\ Len(jobs) <= MaxJobs
    /\ enabled \in [Printers -> BOOLEAN]
    /\ processing \in BOOLEAN
    /\ loops \in [Loops -> Loop]
    /\ \A w \in Loops :
         \/ loops[w] \in {Idle, Selecting}
         \/ /\ Sending(w) /\ loops[w].job \in DOMAIN jobs
            /\ loops[w].attempts \in 0..(MaxAttempts - 1)
            /\ loops[w].left \in 1..Copies[jobs[loops[w].job].printer]
    /\ reachable \in [Printers -> BOOLEAN]
    /\ tickets \in [JobIds -> Nat]
    /\ edits \in 0..MaxEdits /\ crashes \in 0..MaxCrashes

\* However many sweeps, timers, enqueues and crashes overlap, a job is in the
\* hands of one loop at most, and its row says so.
NoDoubleSend ==
    \A w \in Loops : Sending(w) =>
      /\ jobs[loops[w].job].status = "printing"
      /\ \A v \in Loops \ {w} : ~Sending(v)

\* A job that is marked as printed came out in as many copies as the printer
\* makes.
PrintedInFull ==
    \A j \in DOMAIN jobs :
      jobs[j].status = "printed" => tickets[j] >= Copies[jobs[j].printer]

\* Paper is wasted by failed attempts and crashes only: each attempt and each
\* crash accounts for one set of copies at most.
TicketsExplained ==
    \A j \in DOMAIN jobs :
      tickets[j] <= Copies[jobs[j].printer]
        * (jobs[j].attempts + crashes + Cardinality({w \in Loops : loops[w].job = j}))

\* Whether the worker is through with a job.
Finished(j) == j \in DOMAIN jobs /\ jobs[j].status \in {"printed", "failed"}

Promise == INSTANCE Spool WITH
    Items <- JobIds,
    put <- DOMAIN jobs,
    refused <- {},
    came <- [j \in JobIds |-> IF Finished(j) THEN 1 ELSE 0]

\* The worker gets through with each job once and in the order the jobs were
\* made, through retries, crashes, overlapping sweeps and timers: no loop that
\* awaited a printer writes over a job that is finished meanwhile, and none
\* goes on to a newer job before.
ImplementsSpool == Promise!Spec

\* Every job is printed or given up in the end, whatever printers do meanwhile
\* and although the server may die: no job waits forever behind another one.
Drains ==
    \A j \in JobIds :
      j \in DOMAIN jobs ~> j \in DOMAIN jobs /\ jobs[j].status \in {"printed", "failed"}

\* Tickets come out in the order the jobs were made: what is being sent is the
\* oldest job not yet printed or given up, also after a retry and a restart.
InOrder ==
    \A w \in Loops : Sending(w) =>
      \A j \in 1..(loops[w].job - 1) : jobs[j].status \in {"printed", "failed"}

\* A job that was printed or given up is never taken up again, not by a loop
\* that still holds what it read before either.
FinalStaysFinal ==
    [][\A j \in DOMAIN jobs :
         jobs[j].status \in {"printed", "failed"} => jobs'[j] = jobs[j]]_jobs

\* docs/PRINTERS.md: "If a printer is offline, jobs wait and print automatically
\* when it returns."
PrintsWhenPrinterReturns ==
    \A j \in JobIds :
      <>[](j \in DOMAIN jobs /\ \A p \in Printers : enabled[p] /\ reachable[p])
        => <>(j \in DOMAIN jobs /\ jobs[j].status = "printed")
===============================================================================
