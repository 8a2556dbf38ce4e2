--------------------------- MODULE MCAddressSpace ---------------------------
EXTENDS AddressSpace, TLC

CONSTANTS t1, t2

Threads == {t1, t2}
OneOrTwo == {1, 2}
Range(a, n) == [addr |-> a, size |-> n]
\* Enough memory in one range; two ranges of which either may be used up first;
\* and memory whose first region holds no whole page.
Memories == {<<Range(0, 9)>>, <<Range(8, 3), Range(0, 4)>>, <<Range(0, 5), Range(8, 0)>>}
Symmetry == Permutations(Threads)
=============================================================================
