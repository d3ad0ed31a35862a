----------------------------- MODULE MCPrintQueue -----------------------------
EXTENDS PrintQueue
CONSTANTS bar, kitchen

\* The bar printer makes two copies of a ticket.
MCCopies == [p \in Printers |-> IF p = bar THEN 2 ELSE 1]
===============================================================================
