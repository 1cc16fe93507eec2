----------------------------- MODULE MCARCCache -----------------------------
(***************************************************************************)
(* An instance of ARCCache with values of size 1 and of one more than the  *)
(* capacity, any of which may be put under any key, as the template allows *)
(* and its tests do.                                                       *)
(***************************************************************************)
EXTENDS ARCCache

CONSTANTS Big, Small

BigAndSmall == {Small, Big}
SizeOfValue == [v \in BigAndSmall |-> IF v = Small THEN 1 ELSE Capacity + 1]
AnyValue == [k \in Keys |-> BigAndSmall]
=============================================================================
