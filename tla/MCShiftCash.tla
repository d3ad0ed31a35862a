----------------------------- MODULE MCShiftCash ------------------------------
EXTENDS Reports, TLC

MCTotal == [o \in OrderIds |-> 2]
MCCashPart == [o \in OrderIds |-> 1]

\* The orders differ in nothing, and no property of the run is about liveness.
Symmetry == Permutations(OrderIds)
===============================================================================
