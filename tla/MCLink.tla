------------------------------- MODULE MCLink -------------------------------
\* Link for TLC.
EXTENDS Link, TLC

CONSTANTS w1, w2, c1, c2, c3

TwoWorkers == <<w1, w2>>

Symmetry == Permutations(Conns)

=============================================================================
