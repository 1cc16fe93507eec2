------------------------------ MODULE ARCCache ------------------------------
(***************************************************************************)
(* The adaptive replacement cache of include/elcache/arc_cache.hpp: two    *)
(* resident lists, t1 (seen once) and t2 (seen again), two ghost lists of  *)
(* evicted keys, b1 and b2, and the target p for the size of t1.           *)
(*                                                                         *)
(* Every public operation runs under mutex_ and is one step, except an     *)
(* insertion that has to make room: its loop evict_for_size is one         *)
(* evict_one step per iteration with `pending' holding the insertion (and  *)
(* so the lock) until put_finish.  The counter current_size is atomic and  *)
(* read by size() without the lock, so the states between two iterations   *)
(* are observable.                                                         *)
(*                                                                         *)
(* Lists run from the most recent entry (front) to the oldest (back).  p_  *)
(* is a double that moves in fractions |B1|/|B2|; here it is an integer    *)
(* number of 1/PScale units.  hits_, misses_ and the vector of evicted     *)
(* entries, which no caller reads, are left out.                           *)
(***************************************************************************)
EXTENDS Integers, SequencesExt

CONSTANTS
    Keys,        \* chunk ids
    Values,      \* what is stored
    NoValue,     \* nullptr
    SizeOf,      \* size_fn_: [Values -> sizes]
    ValuesOf,    \* the values that may be put under a key
    Capacity,    \* capacity_, in the unit of SizeOf
    PScale       \* fractions of p are multiples of 1/PScale

ASSUME SizeAssumption ==
    /\ Capacity \in Nat
    /\ SizeOf \in [Values -> Nat]
    /\ ValuesOf \in [Keys -> SUBSET Values]
    /\ NoValue \notin Values

ASSUME ScaleAssumption == PScale \in Nat \ {0}

VARIABLES
    t1, t2,        \* resident entries
    b1, b2,        \* ghost keys
    p,             \* adaptation parameter, in 1/PScale
    current_size,  \* current_size_
    pending,       \* the insertion that is making room, or NoPut
    last           \* the last call that completed, with its result

vars == <<t1, t2, b1, b2, p, current_size, pending, last>>

NoPut == [dest |-> "none"]

Entry == [key : Keys, value : Values]
Insertion == [dest : {"t1", "t2"}, key : Keys, value : Values]

\* A call that completed, with what it returned.
NoCall == [op |-> "none"]
ClearCall == [op |-> "clear"]
GetCall(k, v) == [op |-> "get", key |-> k, value |-> v]
PutCall(k, v) == [op |-> "put", key |-> k, value |-> v]
RemoveCall(k, removed) == [op |-> "remove", key |-> k, removed |-> removed]

Call ==
    {NoCall, ClearCall}
    \cup [op : {"get"}, key : Keys, value : Values \cup {NoValue}]
    \cup [op : {"put"}, key : Keys, value : Values]
    \cup [op : {"remove"}, key : Keys, removed : BOOLEAN]

\* LRUList::find / GhostList::find: the position of k in a list that holds it.
KeysOf(list) == {list[i].key : i \in DOMAIN list}
Find(list, k) == CHOOSE i \in DOMAIN list : list[i].key = k
GhostFind(list, k) == CHOOSE i \in DOMAIN list : list[i] = k
Ghosts(list) == {list[i] : i \in DOMAIN list}

Erase(list, k) == RemoveAt(list, Find(list, k))
GhostErase(list, k) == RemoveAt(list, GhostFind(list, k))
PushFront(list, e) == <<e>> \o list
PopBack(list) == SubSeq(list, 1, Len(list) - 1)
Back(list) == list[Len(list)]

Size(e) == SizeOf[e.value]
TotalSize(list) == FoldSeq(LAMBDA e, n : Size(e) + n, 0, list)

InT1(k) == k \in KeysOf(t1)
InT2(k) == k \in KeysOf(t2)
InB1(k) == k \in Ghosts(b1)
InB2(k) == k \in Ghosts(b2)

Init ==
    /\ t1 = <<>> /\ t2 = <<>> /\ b1 = <<>> /\ b2 = <<>>
    /\ p = 0
    /\ current_size = 0
    /\ pending = NoPut
    /\ last = NoCall

Unlocked == pending = NoPut

-----------------------------------------------------------------------------
(* get_impl *)

get_t1(k) ==
    /\ Unlocked /\ InT1(k)
    /\ t1' = Erase(t1, k)
    /\ t2' = PushFront(t2, t1[Find(t1, k)])
    /\ last' = GetCall(k, t1[Find(t1, k)].value)
    /\ UNCHANGED <<b1, b2, p, current_size, pending>>

get_t2(k) ==
    /\ Unlocked /\ ~InT1(k) /\ InT2(k)
    /\ t2' = PushFront(Erase(t2, k), t2[Find(t2, k)])
    /\ last' = GetCall(k, t2[Find(t2, k)].value)
    /\ UNCHANGED <<t1, b1, b2, p, current_size, pending>>

get_miss(k) ==
    /\ Unlocked /\ ~InT1(k) /\ ~InT2(k)
    /\ last' = GetCall(k, NoValue)
    /\ UNCHANGED <<t1, t2, b1, b2, p, current_size, pending>>

-----------------------------------------------------------------------------
(* put_impl.  Cases 1 and 2 replace a resident entry and never evict.      *)

put_t1(k, v) ==
    /\ Unlocked /\ InT1(k)
    /\ t1' = Erase(t1, k)
    /\ t2' = PushFront(t2, [key |-> k, value |-> v])
    /\ current_size' = current_size - Size(t1[Find(t1, k)]) + SizeOf[v]
    /\ last' = PutCall(k, v)
    /\ UNCHANGED <<b1, b2, p, pending>>

\* (mutant) The size of the replaced value is not taken off.
put_t2_adds_only(k, v) ==
    /\ Unlocked /\ ~InT1(k) /\ InT2(k)
    /\ t2' = PushFront(Erase(t2, k), [key |-> k, value |-> v])
    /\ current_size' = current_size + SizeOf[v]
    /\ last' = PutCall(k, v)
    /\ UNCHANGED <<t1, b1, b2, p, pending>>

\* (mutant) The entry moves to the front with its old value.
put_t2_keeps_value(k, v) ==
    /\ Unlocked /\ ~InT1(k) /\ InT2(k)
    /\ t2' = PushFront(Erase(t2, k), t2[Find(t2, k)])
    /\ current_size' = current_size - Size(t2[Find(t2, k)]) + SizeOf[v]
    /\ last' = PutCall(k, v)
    /\ UNCHANGED <<t1, b1, b2, p, pending>>

put_t2(k, v) ==
    /\ Unlocked /\ ~InT1(k) /\ InT2(k)
    /\ t2' = PushFront(Erase(t2, k), [key |-> k, value |-> v])
    /\ current_size' = current_size - Size(t2[Find(t2, k)]) + SizeOf[v]
    /\ last' = PutCall(k, v)
    /\ UNCHANGED <<t1, b1, b2, p, pending>>

\* The step by which p moves on a ghost hit: 1, or |other|/|own| below 1.
Delta(other, own) ==
    IF Len(other) >= Len(own) THEN PScale ELSE (PScale * Len(other)) \div Len(own)

\* (mutant) p is not clamped to the capacity.
Unclamped(x, y) == x

AtMost(x, y) == IF x <= y THEN x ELSE y
AtLeast(x, y) == IF x >= y THEN x ELSE y

\* (mutant) The key stays in the ghost list it was found in.
put_b1_keeps_ghost(k, v) ==
    /\ Unlocked /\ ~InT1(k) /\ ~InT2(k) /\ InB1(k)
    /\ p' = AtMost(p + Delta(b2, b1), Capacity * PScale)
    /\ pending' = [dest |-> "t2", key |-> k, value |-> v]
    /\ UNCHANGED <<t1, t2, b1, b2, current_size, last>>

\* Case 3: a ghost hit in b1 raises the target of t1.
put_b1(k, v) ==
    /\ Unlocked /\ ~InT1(k) /\ ~InT2(k) /\ InB1(k)
    /\ p' = AtMost(p + Delta(b2, b1), Capacity * PScale)
    /\ b1' = GhostErase(b1, k)
    /\ pending' = [dest |-> "t2", key |-> k, value |-> v]
    /\ UNCHANGED <<t1, t2, b2, current_size, last>>

\* Case 4: a ghost hit in b2 lowers it.
put_b2(k, v) ==
    /\ Unlocked /\ ~InT1(k) /\ ~InT2(k) /\ ~InB1(k) /\ InB2(k)
    /\ p' = AtLeast(p - Delta(b1, b2), 0)
    /\ b2' = GhostErase(b2, k)
    /\ pending' = [dest |-> "t2", key |-> k, value |-> v]
    /\ UNCHANGED <<t1, t2, b1, current_size, last>>

\* (mutant) Only the ghosts are counted.
B1AloneFull == Len(b1) >= Capacity

\* Case 5: a key no list knows first drops a ghost if the directory is full.
B1Full == Len(t1) + Len(b1) >= Capacity
DirectoryFull == Len(t1) + Len(t2) + Len(b1) + Len(b2) >= 2 * Capacity

put_new(k, v) ==
    /\ Unlocked /\ ~InT1(k) /\ ~InT2(k) /\ ~InB1(k) /\ ~InB2(k)
    /\ b1' = IF B1Full /\ b1 # <<>> THEN PopBack(b1) ELSE b1
    /\ b2' = IF ~B1Full /\ DirectoryFull /\ b2 # <<>> THEN PopBack(b2) ELSE b2
    /\ pending' = [dest |-> "t1", key |-> k, value |-> v]
    /\ UNCHANGED <<t1, t2, p, current_size, last>>

\* (mutant) The size of the entry to be added is forgotten.
NoRoomNow ==
    /\ current_size > Capacity
    /\ t1 # <<>> \/ t2 # <<>>

\* evict_for_size keeps going while there is no room and something to evict.
NoRoom ==
    /\ current_size + SizeOf[pending.value] > Capacity
    /\ t1 # <<>> \/ t2 # <<>>

\* (mutant) T1 is not the last resort when T2 is empty.
EvictFromT1OverTarget == t1 # <<>> /\ TotalSize(t1) > p \div PScale

EvictFromT1 == t1 # <<>> /\ (TotalSize(t1) > p \div PScale \/ t2 = <<>>)

evict_t1 ==
    /\ ~Unlocked /\ NoRoom /\ EvictFromT1
    /\ t1' = PopBack(t1)
    /\ current_size' = current_size - Size(Back(t1))
    /\ b1' = PushFront(b1, Back(t1).key)
    /\ UNCHANGED <<t2, b2, p, pending, last>>

evict_t2 ==
    /\ ~Unlocked /\ NoRoom /\ ~EvictFromT1 /\ t2 # <<>>
    /\ t2' = PopBack(t2)
    /\ current_size' = current_size - Size(Back(t2))
    /\ b2' = PushFront(b2, Back(t2).key)
    /\ UNCHANGED <<t1, b1, p, pending, last>>

put_finish ==
    /\ ~Unlocked /\ ~NoRoom
    /\ LET e == [key |-> pending.key, value |-> pending.value] IN
       IF pending.dest = "t1"
       THEN t1' = PushFront(t1, e) /\ t2' = t2
       ELSE t2' = PushFront(t2, e) /\ t1' = t1
    /\ current_size' = current_size + SizeOf[pending.value]
    /\ pending' = NoPut
    /\ last' = PutCall(pending.key, pending.value)
    /\ UNCHANGED <<b1, b2, p>>

-----------------------------------------------------------------------------
(* remove_impl, clear *)

remove_resident(k) ==
    /\ Unlocked /\ (InT1(k) \/ InT2(k))
    /\ IF InT1(k)
       THEN /\ t1' = Erase(t1, k) /\ t2' = t2
            /\ current_size' = current_size - Size(t1[Find(t1, k)])
       ELSE /\ t2' = Erase(t2, k) /\ t1' = t1
            /\ current_size' = current_size - Size(t2[Find(t2, k)])
    /\ last' = RemoveCall(k, TRUE)
    /\ UNCHANGED <<b1, b2, p, pending>>

remove_ghost(k) ==
    /\ Unlocked /\ ~InT1(k) /\ ~InT2(k)
    /\ b1' = IF InB1(k) THEN GhostErase(b1, k) ELSE b1
    /\ b2' = IF InB2(k) THEN GhostErase(b2, k) ELSE b2
    /\ last' = RemoveCall(k, FALSE)
    /\ UNCHANGED <<t1, t2, p, current_size, pending>>

clear ==
    /\ Unlocked
    /\ t1' = <<>> /\ t2' = <<>> /\ b1' = <<>> /\ b2' = <<>>
    /\ p' = 0
    /\ current_size' = 0
    /\ last' = ClearCall
    /\ UNCHANGED pending

-----------------------------------------------------------------------------
Get(k) == get_t1(k) \/ get_t2(k) \/ get_miss(k)
Put(k, v) == put_t1(k, v) \/ put_t2(k, v) \/ put_b1(k, v) \/ put_b2(k, v) \/ put_new(k, v)
MakeRoom == evict_t1 \/ evict_t2 \/ put_finish
RemoveKey(k) == remove_resident(k) \/ remove_ghost(k)

Next ==
    \/ \E k \in Keys : Get(k) \/ RemoveKey(k)
    \/ \E k \in Keys : \E v \in ValuesOf[k] : Put(k, v)
    \/ MakeRoom
    \/ clear

Spec == Init /\ [][Next]_vars

\* The thread that holds mutex_ in put keeps running.
FairSpec == Spec /\ WF_vars(MakeRoom)

-----------------------------------------------------------------------------
(* Properties *)

\* The lists hold entries of the right kind and the target p_ stays within
\* 0..capacity_, whatever the sizes of the two ghost lists that move it.
TypeOK ==
    /\ t1 \in Seq(Entry) /\ t2 \in Seq(Entry)
    /\ b1 \in Seq(Keys) /\ b2 \in Seq(Keys)
    /\ p \in 0 .. Capacity * PScale
    /\ current_size \in Int
    /\ pending \in Insertion \cup {NoPut}
    /\ last \in Call

(***************************************************************************)
(* A key is in at most one of the four lists, once, and the key being      *)
(* inserted is in none: each list pairs a std::list with a map from keys   *)
(* to iterators, and push_front of a key already listed would leave an     *)
(* orphan that pop_back later evicts under the wrong entry.                *)
(***************************************************************************)
NoDuplicates(list) == \A i, j \in DOMAIN list : list[i].key = list[j].key => i = j
NoDuplicateGhosts(list) == \A i, j \in DOMAIN list : list[i] = list[j] => i = j

ListsDisjoint ==
    /\ NoDuplicates(t1) /\ NoDuplicates(t2)
    /\ NoDuplicateGhosts(b1) /\ NoDuplicateGhosts(b2)
    /\ KeysOf(t1) \cap KeysOf(t2) = {}
    /\ (KeysOf(t1) \cup KeysOf(t2)) \cap (Ghosts(b1) \cup Ghosts(b2)) = {}
    /\ Ghosts(b1) \cap Ghosts(b2) = {}
    /\ ~Unlocked =>
          pending.key \notin KeysOf(t1) \cup KeysOf(t2) \cup Ghosts(b1) \cup Ghosts(b2)

(***************************************************************************)
(* current_size_ is kept by increments and decrements in six places; it    *)
(* always is the size of what the resident lists hold, so it never wraps.  *)
(***************************************************************************)
SizeExact == current_size = TotalSize(t1) + TotalSize(t2)

(***************************************************************************)
(* evict_for_size makes enough room and stops at an empty cache: the value *)
(* put_finish inserts fits, or it is larger than the cache and alone in    *)
(* it, whatever was resident and however p splits the evictions.           *)
(***************************************************************************)
InsertionFits ==
    [][put_finish => current_size' <= Capacity \/ current_size = 0]_vars

(***************************************************************************)
(* T1 and its ghosts never exceed the capacity, read as a number of        *)
(* entries, by more than one: put_impl trims B1 before evict_for_size      *)
(* moves the oldest entry of T1 there.                                     *)
(***************************************************************************)
T1B1Bounded == Len(t1) + Len(b1) <= Capacity + 1

(***************************************************************************)
(* An insertion ends: whatever p and the sizes are, even for a value       *)
(* larger than the capacity, evict_for_size does not spin under the lock.  *)
(***************************************************************************)
InsertionEnds == ~Unlocked ~> Unlocked

(***************************************************************************)
(* Whatever the replacement does, callers see a map that may forget: a     *)
(* lookup returns the value last put under the key, or nothing, a put that *)
(* returned did replace the value, a remove did take it away and says      *)
(* whether there was one.                                                  *)
(***************************************************************************)
Held == [k \in Keys |-> IF InT1(k) THEN t1[Find(t1, k)].value
                        ELSE IF InT2(k) THEN t2[Find(t2, k)].value
                        ELSE NoValue]

Store == INSTANCE LossyStore WITH store <- Held

ImplementsStore == Store!StoreSpec
=============================================================================
