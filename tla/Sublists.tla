------------------------------ MODULE Sublists ------------------------------
(* What is left of a list when some of its elements are taken out.         *)
EXTENDS Integers, FiniteSets

\* The ith of some places of a list, and what is at these places, in its order.
Nth(places, i) ==
    CHOOSE p \in places : Cardinality({q \in places : q <= p}) = i
At(list, places) == [i \in 1..Cardinality(places) |-> list[Nth(places, i)]]
=============================================================================
