----------------------------- MODULE LossyStore -----------------------------
(***************************************************************************)
(* What an in-memory replacement cache promises its callers, whatever its  *)
(* replacement policy: a partial map from keys to values that may forget   *)
(* any entry at any time, but that never answers a lookup with anything    *)
(* but the value last stored under that key, and that holds nothing under  *)
(* a key once it was removed.                                              *)
(*                                                                         *)
(* The calls are part of the interface: a call that completes is recorded  *)
(* with what it returned, so that an implementation cannot pass for a step *)
(* that does nothing a put or a remove that had no effect.                 *)
(***************************************************************************)
CONSTANTS Keys, Values, NoValue

VARIABLES
    store,   \* [Keys -> Values \cup {NoValue}], NoValue where nothing is held
    last     \* the last call that completed, with its result

svars == <<store, last>>

NoCall == [op |-> "none"]
ClearCall == [op |-> "clear"]
GetCall(k, v) == [op |-> "get", key |-> k, value |-> v]
PutCall(k, v) == [op |-> "put", key |-> k, value |-> v]
RemoveCall(k, removed) == [op |-> "remove", key |-> k, removed |-> removed]

StoreInit ==
    /\ store = [k \in Keys |-> NoValue]
    /\ last = NoCall

\* A lookup answers with what is held and changes nothing that is held.
Lookup(k) ==
    /\ last' = GetCall(k, store[k])
    /\ UNCHANGED store

\* Storing replaces the value of one key and no other.
Insert(k, v) ==
    /\ store' = [store EXCEPT ![k] = v]
    /\ last' = PutCall(k, v)

\* Removing says whether there was a value.
Remove(k) ==
    /\ store' = [store EXCEPT ![k] = NoValue]
    /\ last' = RemoveCall(k, store[k] # NoValue)

Clear ==
    /\ store' = [k \in Keys |-> NoValue]
    /\ last' = ClearCall

\* An entry may go at any time, without a call (replacement).
Forget(k) ==
    /\ store' = [store EXCEPT ![k] = NoValue]
    /\ UNCHANGED last

StoreNext ==
    \/ \E k \in Keys : Lookup(k) \/ Remove(k) \/ Forget(k)
    \/ \E k \in Keys, v \in Values : Insert(k, v)
    \/ Clear

StoreSpec == StoreInit /\ [][StoreNext]_svars
=============================================================================
