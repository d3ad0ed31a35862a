---------------------------------- MODULE Sale ----------------------------------
(***************************************************************************)
(* What the cafe promises about a sale, whatever requests come in, in      *)
(* which order, how often, and whatever crashes: it is made once, paid     *)
(* once or called off before that, and of what was taken for it no more    *)
(* is given back than was taken.  How the order service keeps that is in   *)
(* the module Orders, which implements this one.                           *)
(***************************************************************************)
EXTENDS Integers

CONSTANTS
    Sales,    \* the sales the cafe may make
    Amounts   \* the amounts of money that may change hands at a time

VARIABLES
    stage,    \* how far each sale is
    taken,    \* the money taken for it
    given     \* the money given back

vars == <<stage, taken, given>>

Stages == {"none", "open", "sold", "off", "returned"}

Init ==
    /\ stage = [s \in Sales |-> "none"]
    /\ taken = [s \in Sales |-> 0]
    /\ given = [s \in Sales |-> 0]

Make(s) ==
    /\ stage[s] = "none"
    /\ stage' = [stage EXCEPT ![s] = "open"]
    /\ UNCHANGED <<taken, given>>

\* An open sale has taken nothing; it is paid in one go.
Take(s, amount) ==
    /\ stage[s] = "open"
    /\ amount > 0
    /\ stage' = [stage EXCEPT ![s] = "sold"]
    /\ taken' = [taken EXCEPT ![s] = amount]
    /\ UNCHANGED given

CallOff(s) ==
    /\ stage[s] = "open"
    /\ stage' = [stage EXCEPT ![s] = "off"]
    /\ UNCHANGED <<taken, given>>

\* A part of the money, which leaves the sale as it was, or the rest of it.
GiveBack(s, amount) ==
    /\ stage[s] = "sold"
    /\ 0 < amount /\ amount <= taken[s] - given[s]
    /\ stage' = [stage EXCEPT ![s] =
         IF amount = taken[s] - given[s] THEN "returned" ELSE "sold"]
    /\ given' = [given EXCEPT ![s] = @ + amount]
    /\ UNCHANGED taken

Next ==
    \E s \in Sales :
      \/ Make(s) \/ CallOff(s)
      \/ \E amount \in Amounts : Take(s, amount) \/ GiveBack(s, amount)

Spec == Init /\ [][Next]_vars
===============================================================================
