-------------------------------- MODULE Sorting --------------------------------
\* What sorting gives.
EXTENDS Naturals, FiniteSets

\* The members of S in an order, a set of pairs.
Ordered(S, before) ==
  [k \in 1 .. Cardinality(S) |-> CHOOSE d \in S : Cardinality({e \in S : <<e, d>> \in before}) = k - 1]
=============================================================================
