----------------------------- MODULE MCDiskCache -----------------------------
(***************************************************************************)
(* Instances of DiskCache with two or three chunks that the values share.  *)
(***************************************************************************)
EXTENDS DiskCache

CONSTANTS A, B, C

TwoChunkValues == {<<A>>, <<B, A>>}

ThreeChunkValues == {<<A>>, <<A, B>>, <<C>>}

MixedSize == [c \in Chunks |-> IF c = A THEN 1 ELSE 2]

ThreadSymmetry == Permutations(Threads)
=============================================================================
