------------------------------ MODULE MCFiles ------------------------------
(* The builder, the boot and the running kernel on small descriptions.     *)
EXTENDS Files

\* dev, kernel.bin, kernel.bin.original
Lengths == <<3, 10, 19>>
\* Of 9 bytes the loader's sector count loses a bit.
HostSizes == <<{5}, {0, 5}, {5, 9}>>
DeviceNames == <<3>>
TwoLevels == {<<2>>, <<1, 3>>, <<2, 2>>}

SeekOffsets == {-1, 2}
Symmetric == Permutations(Stream)
=============================================================================
