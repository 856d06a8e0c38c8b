----------------------------- MODULE MCOriginals -----------------------------
\* Two processes, each with a cache of its own.
EXTENDS Originals, TLC

CONSTANTS w1, w2, p1, p2, o1

TwoProcesses == w1 :> p1 @@ w2 :> p2

\* The two workers can change places, with their processes.
Swap == {w1 :> w2 @@ w2 :> w1 @@ p1 :> p2 @@ p2 :> p1}
=============================================================================
