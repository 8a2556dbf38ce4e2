------------------------------ MODULE MCMailbox ------------------------------
EXTENDS Mailbox, TLC

CONSTANTS p1, p2, m1, m2, m3, m4

Procs == {p1, p2}
One == {p1}
Three == {m1, m2, m3}
Four == {m1, m2, m3, m4}
SymmetryThree == Permutations(Three)
SymmetryFour == Permutations(Four)
=============================================================================
