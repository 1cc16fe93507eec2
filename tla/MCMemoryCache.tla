---------------------------- MODULE MCMemoryCache ----------------------------
(***************************************************************************)
(* Instances of MemoryCache.  With chunks of two bytes the two values have *)
(* their first chunk in common (deduplication) and a last chunk that is    *)
(* shorter than the others.                                                *)
(***************************************************************************)
EXTENDS MemoryCache

SharingValues == {<<1, 2, 3>>, <<1, 2, 4, 5, 6>>}

ShortValues == {<<1, 2, 3>>, <<1, 2, 4>>}

\* From inside one chunk to inside the next; past the end of both values.
SomeRanges == {RangeAt(1, 2), RangeAt(3, 4)}

NoRanges == {}

ThreadSymmetry == Permutations(Threads)
=============================================================================
