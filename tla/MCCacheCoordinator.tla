------------------------- MODULE MCCacheCoordinator -------------------------
(***************************************************************************)
(* An instance of CacheCoordinator in which a put may skip either level or *)
(* both, or have a TTL.                                                    *)
(***************************************************************************)
EXTENDS CacheCoordinator, TLC

MCOptions == {o \in WriteOptions : o.ttl => ~o.no_memory /\ ~o.no_disk}

Symmetry == Permutations(Values) \cup Permutations(Writers)
=============================================================================
