------------------------------- MODULE MCOrders -------------------------------
EXTENDS Orders, TLC
CONSTANTS o1, o2, d1, k1, beans, milk

MCRecipe == [c \in Carts |-> [i \in Ings |-> 1]]
MCTotal == [c \in Carts |-> [d \in Discounts |-> 3 - d]]
\* applyOrderDiscount taxes every item, so it may compute more than createOrder.
MCEditTotal == [c \in Carts |-> [d \in Discounts |-> 4 - d]]
MCOpening == [i \in Ings |-> 1]
Sym == Permutations(OrderIds)
===============================================================================
