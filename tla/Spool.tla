---------------------------------- MODULE Spool ---------------------------------
(***************************************************************************)
(* What a queue of the cafe promises to those who put something in it:     *)
(* every entry comes out once, and in the order of putting in, however     *)
(* often the queue has to try, whoever wakes it up and whatever crashes.   *)
(* An entry that was refused in its turn may be passed over, and come      *)
(* later or never.                                                         *)
(*                                                                         *)
(* The print queue of the server and the queue of orders a tablet keeps    *)
(* while it is offline implement it: see PrintQueue and PosTablet.         *)
(***************************************************************************)
EXTENDS Integers

CONSTANT Items   \* entries, numbered as they are put in

VARIABLES
    put,       \* the entries that were put in
    refused,   \* those of them that were refused and have not come out since
    came       \* how often each came out

vars == <<put, refused, came>>

Init ==
    /\ put = {}
    /\ refused = {}
    /\ came = [i \in Items |-> 0]

Put(i) ==
    /\ \A j \in put : j < i
    /\ put' = put \cup {i}
    /\ UNCHANGED <<refused, came>>

\* It is the turn of entry i.
Turn(i) ==
    /\ i \in put /\ came[i] = 0
    /\ \A j \in put : j < i => came[j] = 1 \/ j \in refused

Refuse(i) ==
    /\ Turn(i)
    /\ refused' = refused \cup {i}
    /\ UNCHANGED <<put, came>>

ComeOut(i) ==
    /\ Turn(i)
    /\ came' = [came EXCEPT ![i] = 1]
    /\ refused' = refused \ {i}
    /\ UNCHANGED put

Next == \E i \in Items : Put(i) \/ Refuse(i) \/ ComeOut(i)

Spec == Init /\ [][Next]_vars
===============================================================================
