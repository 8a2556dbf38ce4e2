------------------------------ MODULE MCConsole ------------------------------
EXTENDS Console, TLC

CONSTANTS m1, m2, m3, m4

Both == {start, child}
Sizes == {1, 2}
Three == {m1, m2, m3}
Four == {m1, m2, m3, m4}
SymmetryFour == Permutations(Four)
=============================================================================
