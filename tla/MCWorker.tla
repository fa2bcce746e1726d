------------------------------ MODULE MCWorker ------------------------------
\* Instances of Worker for TLC.
EXTENDS Worker, TLC

CONSTANTS m1, m2, m3, b1, b2, b3, i1, i2, i3

\* Every payload has length one.
UnitSize == [m \in Msgs |-> 1]

\* Payloads of three lengths.
MixedSize == [m \in Msgs |-> CASE m = m1 -> 1 [] m = m2 -> 2 [] OTHER -> 3]

\* With MixedSize messages are told apart.
BatchSymmetry == Permutations(Batches) \cup Permutations(BatchIDs)
Symmetry == Permutations(Msgs) \cup BatchSymmetry

=============================================================================
