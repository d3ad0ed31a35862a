------------------------------ MODULE MCPosCart -------------------------------
EXTENDS PosCart, TLC

MCPrice == [i \in Items |-> IF i = "tea" THEN 10 ELSE 25]
MCNewPrices == [i \in Items |-> IF i = "tea" THEN {20, Gone} ELSE {Gone}]
MCBuiltIn == [tax |-> 0, service |-> 10]
MCSettings == {[tax |-> 8, service |-> 10]}

\* Rows of parked carts differ in nothing but their id.
Symmetry == Permutations(HoldIds)
===============================================================================
