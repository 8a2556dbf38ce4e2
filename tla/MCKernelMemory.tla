--------------------------- MODULE MCKernelMemory ---------------------------
EXTENDS KernelMemory, TLC

Region(b, n, t) == [base |-> b, size |-> n, type |-> t]
\* A reserved region, usable memory that starts off a page boundary below the
\* boot stack and gives five pages, and a region too small to hold a page; and a
\* machine with two ranges, of which the first, larger one heads the list.
Maps == {<<Region(0, 2, 2), Region(3, 62, 1), Region(75, 2, 1)>>,
         <<Region(9, 18, 1), Region(36, 9, 1)>>}
Symmetric == Permutations(Slot) \cup Permutations(Holder)
=============================================================================
