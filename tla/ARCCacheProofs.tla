--------------------------- MODULE ARCCacheProofs ---------------------------
(***************************************************************************)
(* Proofs about ARCCache for any set of keys, values, sizes and capacity.  *)
(***************************************************************************)
EXTENDS ARCCache, SequenceTheorems, TLAPS

-----------------------------------------------------------------------------
(* What the list primitives do to the elements of a list.                  *)

\* RemoveAt (std::list::erase) shifts the elements behind the position.
LEMMA RemoveAtElements ==
    ASSUME NEW T, NEW s \in Seq(T), NEW i \in 1 .. Len(s)
    PROVE  /\ RemoveAt(s, i) \in Seq(T)
           /\ Len(RemoveAt(s, i)) = Len(s) - 1
           /\ \A j \in 1 .. Len(s) - 1 :
                 RemoveAt(s, i)[j] = IF j < i THEN s[j] ELSE s[j + 1]
<1> DEFINE a == SubSeq(s, 1, i - 1)
           b == SubSeq(s, i + 1, Len(s))
<1>1. /\ a \in Seq(T) /\ Len(a) = i - 1
      /\ \A j \in 1 .. i - 1 : a[j] = s[j]
    OBVIOUS
<1>2. /\ b \in Seq(T) /\ Len(b) = Len(s) - i
      /\ \A j \in 1 .. Len(s) - i : b[j] = s[i + j]
    OBVIOUS
<1>3. RemoveAt(s, i) = a \o b
    BY DEF RemoveAt
<1> HIDE DEF a, b
<1>4. a \o b \in Seq(T) /\ Len(a \o b) = Len(a) + Len(b)
    BY <1>1, <1>2, ConcatProperties
<1>5. ASSUME NEW j \in 1 .. Len(s) - 1
      PROVE  (a \o b)[j] = IF j < i THEN s[j] ELSE s[j + 1]
    BY <1>1, <1>2
<1>6. Len(a) + Len(b) = Len(s) - 1
    BY <1>1, <1>2
<1>7. QED
    BY <1>3, <1>4, <1>5, <1>6

\* PushFront puts one element before the others.
LEMMA PushFrontElements ==
    ASSUME NEW T, NEW s \in Seq(T), NEW e \in T
    PROVE  /\ PushFront(s, e) \in Seq(T)
           /\ Len(PushFront(s, e)) = Len(s) + 1
           /\ PushFront(s, e)[1] = e
           /\ \A j \in 1 .. Len(s) : PushFront(s, e)[j + 1] = s[j]
    BY DEF PushFront

\* PopBack keeps all elements but the last.
LEMMA PopBackElements ==
    ASSUME NEW T, NEW s \in Seq(T), s # <<>>
    PROVE  /\ PopBack(s) \in Seq(T)
           /\ Len(PopBack(s)) = Len(s) - 1
           /\ \A j \in 1 .. Len(s) - 1 : PopBack(s)[j] = s[j]
           /\ Len(s) \in DOMAIN s /\ Back(s) = s[Len(s)] /\ Back(s) \in T
<1>1. Len(s) \in Nat \ {0} /\ DOMAIN s = 1 .. Len(s)
    OBVIOUS
<1>2. Back(s) \in T
    BY <1>1 DEF Back
<1>3. PopBack(s) \in Seq(T) /\ Len(PopBack(s)) = Len(s) - 1
    BY <1>1 DEF PopBack
<1>4. \A j \in 1 .. Len(s) - 1 : PopBack(s)[j] = s[j]
    BY <1>1 DEF PopBack
<1>5. QED
    BY <1>1, <1>2, <1>3, <1>4 DEF Back

-----------------------------------------------------------------------------
(* What they do to the set of keys of a list without duplicates.           *)

\* LRUList::find returns a position that holds the key.
LEMMA FindPosition ==
    ASSUME NEW s \in Seq(Entry), NEW k \in KeysOf(s)
    PROVE  Find(s, k) \in 1 .. Len(s) /\ s[Find(s, k)].key = k
    BY DEF KeysOf, Find

\* GhostList's map does too.
LEMMA GhostFindPosition ==
    ASSUME NEW s \in Seq(Keys), NEW k \in Ghosts(s)
    PROVE  GhostFind(s, k) \in 1 .. Len(s) /\ s[GhostFind(s, k)] = k
    BY DEF Ghosts, GhostFind

\* LRUList::erase takes out the key and nothing else.
LEMMA EraseKeys ==
    ASSUME NEW s \in Seq(Entry), NEW k \in KeysOf(s), NoDuplicates(s)
    PROVE  /\ Erase(s, k) \in Seq(Entry)
           /\ KeysOf(Erase(s, k)) = KeysOf(s) \ {k}
           /\ NoDuplicates(Erase(s, k))
<1> DEFINE i == Find(s, k)
           r == Erase(s, k)
<1>1. i \in 1 .. Len(s) /\ s[i].key = k
    BY FindPosition
<1>2. /\ r \in Seq(Entry) /\ Len(r) = Len(s) - 1
      /\ \A j \in 1 .. Len(s) - 1 : r[j] = IF j < i THEN s[j] ELSE s[j + 1]
    BY <1>1, RemoveAtElements DEF Erase
<1>3. DOMAIN s = 1 .. Len(s) /\ DOMAIN r = 1 .. Len(s) - 1 /\ Len(s) \in Nat
    BY <1>2
<1> HIDE DEF i, r
<1>4. ASSUME NEW x \in KeysOf(r)
      PROVE  x \in KeysOf(s) /\ x # k
    <2>1. PICK j \in 1 .. Len(s) - 1 : r[j].key = x
        BY <1>3 DEF KeysOf
    <2>2. PICK m \in 1 .. Len(s) : m # i /\ s[m].key = x
        BY <2>1, <1>1, <1>2, <1>3
    <2>3. QED
        BY <2>2, <1>1, <1>3 DEF KeysOf, NoDuplicates
<1>5. ASSUME NEW x \in KeysOf(s), x # k
      PROVE  x \in KeysOf(r)
    <2>1. PICK j \in 1 .. Len(s) : s[j].key = x
        BY <1>3 DEF KeysOf
    <2>2. CASE j < i
        <3>1. j \in DOMAIN r /\ r[j] = s[j]
            BY <2>2, <1>1, <1>2, <1>3
        <3>2. QED
            BY <3>1, <2>1 DEF KeysOf
    <2>3. CASE j > i
        <3>1. j - 1 \in DOMAIN r /\ r[j - 1] = s[j]
            BY <2>3, <1>1, <1>2, <1>3
        <3>2. QED
            BY <3>1, <2>1 DEF KeysOf
    <2>4. QED
        BY <2>1, <2>2, <2>3, <1>1, <1>5
<1>6. NoDuplicates(r)
    BY <1>1, <1>2, <1>3 DEF NoDuplicates
<1>7. QED
    BY <1>2, <1>4, <1>5, <1>6 DEF i, r

\* GhostList::erase likewise.
LEMMA GhostEraseKeys ==
    ASSUME NEW s \in Seq(Keys), NEW k \in Ghosts(s), NoDuplicateGhosts(s)
    PROVE  /\ GhostErase(s, k) \in Seq(Keys)
           /\ Ghosts(GhostErase(s, k)) = Ghosts(s) \ {k}
           /\ NoDuplicateGhosts(GhostErase(s, k))
<1> DEFINE i == GhostFind(s, k)
           r == GhostErase(s, k)
<1>1. i \in 1 .. Len(s) /\ s[i] = k
    BY GhostFindPosition
<1>2. /\ r \in Seq(Keys) /\ Len(r) = Len(s) - 1
      /\ \A j \in 1 .. Len(s) - 1 : r[j] = IF j < i THEN s[j] ELSE s[j + 1]
    BY <1>1, RemoveAtElements DEF GhostErase
<1>3. DOMAIN s = 1 .. Len(s) /\ DOMAIN r = 1 .. Len(s) - 1 /\ Len(s) \in Nat
    BY <1>2
<1> HIDE DEF i, r
<1>4. Ghosts(r) \subseteq Ghosts(s) \ {k}
    BY <1>1, <1>2, <1>3 DEF Ghosts, NoDuplicateGhosts
<1>5. ASSUME NEW x \in Ghosts(s), x # k
      PROVE  x \in Ghosts(r)
    <2>1. PICK j \in 1 .. Len(s) : s[j] = x
        BY <1>3 DEF Ghosts
    <2>2. CASE j < i
        <3>1. j \in DOMAIN r /\ r[j] = s[j]
            BY <2>2, <1>1, <1>2, <1>3
        <3>2. QED
            BY <3>1, <2>1 DEF Ghosts
    <2>3. CASE j > i
        <3>1. j - 1 \in DOMAIN r /\ r[j - 1] = s[j]
            BY <2>3, <1>1, <1>2, <1>3
        <3>2. QED
            BY <3>1, <2>1 DEF Ghosts
    <2>4. QED
        BY <2>1, <2>2, <2>3, <1>1, <1>5
<1>6. NoDuplicateGhosts(r)
    BY <1>1, <1>2, <1>3 DEF NoDuplicateGhosts
<1>7. QED
    BY <1>2, <1>4, <1>5, <1>6 DEF i, r

\* LRUList::push_front of a new key.
LEMMA PushFrontKeys ==
    ASSUME NEW s \in Seq(Entry), NEW e \in Entry
    PROVE  /\ PushFront(s, e) \in Seq(Entry)
           /\ KeysOf(PushFront(s, e)) = KeysOf(s) \cup {e.key}
           /\ NoDuplicates(s) /\ e.key \notin KeysOf(s) => NoDuplicates(PushFront(s, e))
<1> DEFINE r == PushFront(s, e)
<1>1. /\ r \in Seq(Entry) /\ Len(r) = Len(s) + 1 /\ r[1] = e
      /\ \A j \in 1 .. Len(s) : r[j + 1] = s[j]
    BY PushFrontElements
<1>2. DOMAIN s = 1 .. Len(s) /\ DOMAIN r = 1 .. Len(s) + 1 /\ Len(s) \in Nat
    BY <1>1
<1> HIDE DEF r
<1>3. \A j \in DOMAIN r : j = 1 \/ (j - 1 \in DOMAIN s /\ r[j] = s[j - 1])
    BY <1>1, <1>2
<1>4. \A j \in DOMAIN s : j + 1 \in DOMAIN r /\ r[j + 1] = s[j]
    BY <1>1, <1>2
<1>5. KeysOf(r) = KeysOf(s) \cup {e.key}
    <2>1. KeysOf(r) \subseteq KeysOf(s) \cup {e.key}
        BY <1>1, <1>3 DEF KeysOf
    <2>2. KeysOf(s) \subseteq KeysOf(r)
        BY <1>4 DEF KeysOf
    <2>3. e.key \in KeysOf(r)
        BY <1>1, <1>2 DEF KeysOf
    <2>4. QED
        BY <2>1, <2>2, <2>3
<1>6. ASSUME NoDuplicates(s), e.key \notin KeysOf(s)
      PROVE  NoDuplicates(r)
    BY <1>6, <1>1, <1>2, <1>3 DEF NoDuplicates, KeysOf
<1>7. QED
    BY <1>1, <1>5, <1>6 DEF r

\* GhostList::push_front of a new key.
LEMMA GhostPushFrontKeys ==
    ASSUME NEW s \in Seq(Keys), NEW e \in Keys
    PROVE  /\ PushFront(s, e) \in Seq(Keys)
           /\ Ghosts(PushFront(s, e)) = Ghosts(s) \cup {e}
           /\ NoDuplicateGhosts(s) /\ e \notin Ghosts(s) => NoDuplicateGhosts(PushFront(s, e))
<1> DEFINE r == PushFront(s, e)
<1>1. /\ r \in Seq(Keys) /\ Len(r) = Len(s) + 1 /\ r[1] = e
      /\ \A j \in 1 .. Len(s) : r[j + 1] = s[j]
    BY PushFrontElements
<1>2. DOMAIN s = 1 .. Len(s) /\ DOMAIN r = 1 .. Len(s) + 1 /\ Len(s) \in Nat
    BY <1>1
<1> HIDE DEF r
<1>3. \A j \in DOMAIN r : j = 1 \/ (j - 1 \in DOMAIN s /\ r[j] = s[j - 1])
    BY <1>1, <1>2
<1>4. \A j \in DOMAIN s : j + 1 \in DOMAIN r /\ r[j + 1] = s[j]
    BY <1>1, <1>2
<1>5. Ghosts(r) = Ghosts(s) \cup {e}
    <2>1. ASSUME NEW x \in Ghosts(r)
          PROVE  x \in Ghosts(s) \cup {e}
        <3>1. PICK j \in DOMAIN r : r[j] = x
            BY DEF Ghosts
        <3>2. QED
            BY <3>1, <1>1, <1>3 DEF Ghosts
    <2>2. Ghosts(s) \subseteq Ghosts(r)
        BY <1>4 DEF Ghosts
    <2>3. e \in Ghosts(r)
        BY <1>1, <1>2 DEF Ghosts
    <2>4. QED
        BY <2>1, <2>2, <2>3
<1>6. ASSUME NoDuplicateGhosts(s), e \notin Ghosts(s)
      PROVE  NoDuplicateGhosts(r)
    BY <1>6, <1>1, <1>2, <1>3 DEF NoDuplicateGhosts, Ghosts
<1>7. QED
    BY <1>1, <1>5, <1>6 DEF r

\* LRUList::pop_back takes out the key of the last entry and nothing else.
LEMMA PopBackKeys ==
    ASSUME NEW s \in Seq(Entry), s # <<>>, NoDuplicates(s)
    PROVE  /\ PopBack(s) \in Seq(Entry)
           /\ Back(s) \in Entry /\ Back(s).key \in KeysOf(s)
           /\ KeysOf(PopBack(s)) = KeysOf(s) \ {Back(s).key}
           /\ NoDuplicates(PopBack(s))
<1> DEFINE r == PopBack(s)
<1>1. /\ r \in Seq(Entry) /\ Len(r) = Len(s) - 1
      /\ \A j \in 1 .. Len(s) - 1 : r[j] = s[j]
      /\ Len(s) \in DOMAIN s /\ Back(s) = s[Len(s)] /\ Back(s) \in Entry
    BY PopBackElements
<1>2. DOMAIN s = 1 .. Len(s) /\ DOMAIN r = 1 .. Len(s) - 1 /\ Len(s) \in Nat
    BY <1>1
<1> HIDE DEF r
<1>3. KeysOf(r) \subseteq KeysOf(s) \ {Back(s).key}
    BY <1>1, <1>2 DEF KeysOf, NoDuplicates
<1>4. ASSUME NEW x \in KeysOf(s), x # Back(s).key
      PROVE  x \in KeysOf(r)
    <2>1. PICK j \in 1 .. Len(s) : s[j].key = x
        BY <1>2 DEF KeysOf
    <2>2. j \in DOMAIN r /\ r[j] = s[j]
        BY <1>1, <1>2, <1>4, <2>1
    <2>3. QED
        BY <2>1, <2>2 DEF KeysOf
<1>5. NoDuplicates(r) /\ Back(s).key \in KeysOf(s)
    BY <1>1, <1>2 DEF NoDuplicates, KeysOf
<1>6. QED
    BY <1>1, <1>3, <1>4, <1>5 DEF r

\* GhostList::pop_back drops keys and adds none.
LEMMA GhostPopBackKeys ==
    ASSUME NEW s \in Seq(Keys), s # <<>>, NoDuplicateGhosts(s)
    PROVE  /\ PopBack(s) \in Seq(Keys)
           /\ Ghosts(PopBack(s)) \subseteq Ghosts(s)
           /\ NoDuplicateGhosts(PopBack(s))
<1>1. /\ PopBack(s) \in Seq(Keys) /\ Len(PopBack(s)) = Len(s) - 1
      /\ \A j \in 1 .. Len(s) - 1 : PopBack(s)[j] = s[j]
    BY PopBackElements
<1>2. QED
    BY <1>1 DEF Ghosts, NoDuplicateGhosts

-----------------------------------------------------------------------------
(* The inductive invariant: types, and no key in two places.               *)

IInv == TypeOK /\ ListsDisjoint

\* The step of p is a natural number of 1/PScale units.
LEMMA DeltaNat ==
    ASSUME NEW other \in Seq(Keys), NEW own \in Seq(Keys)
    PROVE  Delta(other, own) \in Nat
<1>1. Len(other) \in Nat /\ Len(own) \in Nat /\ PScale \in Nat
    BY ScaleAssumption
<1>2. CASE Len(other) >= Len(own)
    BY <1>1, <1>2 DEF Delta
<1>3. CASE ~(Len(other) >= Len(own))
    <2>1. PScale * Len(other) \in Nat /\ Len(own) \in Nat \ {0}
        BY <1>1, <1>3
    <2>2. \A a \in Nat, b \in Nat \ {0} : a \div b \in Nat
        OBVIOUS
    <2>3. QED
        BY <1>3, <2>1, <2>2 DEF Delta
<1>4. QED
    BY <1>2, <1>3

\* What the operations record of a call is a call with its result.
LEMMA CallType ==
    /\ NoCall \in Call /\ ClearCall \in Call
    /\ \A k \in Keys, v \in Values \cup {NoValue} : GetCall(k, v) \in Call
    /\ \A k \in Keys, v \in Values : PutCall(k, v) \in Call
    /\ \A k \in Keys, removed \in BOOLEAN : RemoveCall(k, removed) \in Call
BY DEF Call, NoCall, ClearCall, GetCall, PutCall, RemoveCall

\* The empty cache satisfies the invariant.
LEMMA InitIInv == Init => IInv
<1> SUFFICES ASSUME Init PROVE IInv
    OBVIOUS
<1>1. Capacity * PScale \in Nat
    BY SizeAssumption, ScaleAssumption
<1>2. TypeOK
    BY <1>1, CallType DEF Init, TypeOK
<1>3. ListsDisjoint
    BY DEF Init, ListsDisjoint, NoDuplicates, NoDuplicateGhosts, KeysOf, Ghosts, Unlocked
<1>4. QED
    BY <1>2, <1>3 DEF IInv

\* Every step of every operation preserves it.
LEMMA NextIInv == IInv /\ [Next]_vars => IInv'
<1> SUFFICES ASSUME IInv, [Next]_vars
             PROVE  IInv'
    OBVIOUS
<1> USE DEF IInv
<1>0. /\ Capacity \in Nat /\ PScale \in Nat /\ Capacity * PScale \in Nat
      /\ SizeOf \in [Values -> Nat] /\ \A k \in Keys : ValuesOf[k] \subseteq Values
    BY SizeAssumption, ScaleAssumption
<1>1. ASSUME NEW k \in Keys, get_t1(k)
      PROVE  IInv'
    <2>1. t1[Find(t1, k)] \in Entry /\ t1[Find(t1, k)].key = k
        BY <1>1, FindPosition DEF get_t1, InT1, TypeOK
    <2>2. /\ t1' \in Seq(Entry) /\ KeysOf(t1') = KeysOf(t1) \ {k} /\ NoDuplicates(t1')
        BY <1>1, EraseKeys DEF get_t1, InT1, TypeOK, ListsDisjoint
    <2>3. /\ t2' \in Seq(Entry) /\ KeysOf(t2') = KeysOf(t2) \cup {k} /\ NoDuplicates(t2')
        BY <1>1, <2>1, PushFrontKeys DEF get_t1, InT1, TypeOK, ListsDisjoint
    <2>4. TypeOK'
        BY <1>1, <2>1, <2>2, <2>3, CallType DEF get_t1, TypeOK, Entry
    <2>5. ListsDisjoint'
        BY <1>1, <2>2, <2>3 DEF get_t1, InT1, ListsDisjoint, Unlocked
    <2>6. QED
        BY <2>4, <2>5
<1>2. ASSUME NEW k \in Keys, get_t2(k)
      PROVE  IInv'
    <2>1. t2[Find(t2, k)] \in Entry /\ t2[Find(t2, k)].key = k
        BY <1>2, FindPosition DEF get_t2, InT2, TypeOK
    <2>2. /\ Erase(t2, k) \in Seq(Entry) /\ KeysOf(Erase(t2, k)) = KeysOf(t2) \ {k}
          /\ NoDuplicates(Erase(t2, k))
        BY <1>2, EraseKeys DEF get_t2, InT2, TypeOK, ListsDisjoint
    <2>3. /\ t2' \in Seq(Entry) /\ KeysOf(t2') = KeysOf(t2) /\ NoDuplicates(t2')
        <3>1. t2' = PushFront(Erase(t2, k), t2[Find(t2, k)]) /\ k \in KeysOf(t2)
            BY <1>2 DEF get_t2, InT2
        <3>2. k \notin KeysOf(Erase(t2, k)) /\ KeysOf(t2) = KeysOf(Erase(t2, k)) \cup {k}
            BY <2>2, <3>1
        <3>3. QED
            BY <2>1, <2>2, <3>1, <3>2, PushFrontKeys
    <2>4. TypeOK'
        BY <1>2, <2>1, <2>3, CallType DEF get_t2, TypeOK, Entry
    <2>5. ListsDisjoint'
        BY <1>2, <2>3 DEF get_t2, ListsDisjoint, Unlocked
    <2>6. QED
        BY <2>4, <2>5
<1>3. ASSUME NEW k \in Keys, get_miss(k)
      PROVE  IInv'
    <2>1. TypeOK'
        BY <1>3, CallType DEF get_miss, TypeOK
    <2>2. ListsDisjoint'
        BY <1>3 DEF get_miss, ListsDisjoint, Unlocked
    <2>3. QED
        BY <2>1, <2>2
<1>4. ASSUME NEW k \in Keys, NEW v \in Values, put_t1(k, v)
      PROVE  IInv'
    <2>1. t1[Find(t1, k)] \in Entry /\ t1[Find(t1, k)].key = k
        BY <1>4, FindPosition DEF put_t1, InT1, TypeOK
    <2>2. /\ t1' \in Seq(Entry) /\ KeysOf(t1') = KeysOf(t1) \ {k} /\ NoDuplicates(t1')
        BY <1>4, EraseKeys DEF put_t1, InT1, TypeOK, ListsDisjoint
    <2>3. [key |-> k, value |-> v] \in Entry
        BY DEF Entry
    <2>4. /\ t2' \in Seq(Entry) /\ KeysOf(t2') = KeysOf(t2) \cup {k} /\ NoDuplicates(t2')
        BY <1>4, <2>3, PushFrontKeys DEF put_t1, InT1, TypeOK, ListsDisjoint
    <2>5. current_size' \in Int
        BY <1>0, <1>4, <2>1 DEF put_t1, TypeOK, Size, Entry
    <2>6. TypeOK'
        BY <1>4, <2>2, <2>4, <2>5, CallType DEF put_t1, TypeOK
    <2>7. ListsDisjoint'
        BY <1>4, <2>2, <2>4 DEF put_t1, InT1, ListsDisjoint, Unlocked
    <2>8. QED
        BY <2>6, <2>7
<1>5. ASSUME NEW k \in Keys, NEW v \in Values, put_t2(k, v)
      PROVE  IInv'
    <2>1. t2[Find(t2, k)] \in Entry /\ t2[Find(t2, k)].key = k
        BY <1>5, FindPosition DEF put_t2, InT2, TypeOK
    <2>2. /\ Erase(t2, k) \in Seq(Entry) /\ KeysOf(Erase(t2, k)) = KeysOf(t2) \ {k}
          /\ NoDuplicates(Erase(t2, k))
        BY <1>5, EraseKeys DEF put_t2, InT2, TypeOK, ListsDisjoint
    <2>3. [key |-> k, value |-> v] \in Entry
        BY DEF Entry
    <2>4. /\ t2' \in Seq(Entry) /\ KeysOf(t2') = KeysOf(t2) /\ NoDuplicates(t2')
        <3>1. t2' = PushFront(Erase(t2, k), [key |-> k, value |-> v]) /\ k \in KeysOf(t2)
            BY <1>5 DEF put_t2, InT2
        <3>2. k \notin KeysOf(Erase(t2, k)) /\ KeysOf(t2) = KeysOf(Erase(t2, k)) \cup {k}
            BY <2>2, <3>1
        <3>3. QED
            BY <2>2, <2>3, <3>1, <3>2, PushFrontKeys
    <2>5. current_size' \in Int
        BY <1>0, <1>5, <2>1 DEF put_t2, TypeOK, Size, Entry
    <2>6. TypeOK'
        BY <1>5, <2>4, <2>5, CallType DEF put_t2, TypeOK
    <2>7. ListsDisjoint'
        BY <1>5, <2>4 DEF put_t2, ListsDisjoint, Unlocked
    <2>8. QED
        BY <2>6, <2>7
<1>6. ASSUME NEW k \in Keys, NEW v \in Values, put_b1(k, v)
      PROVE  IInv'
    <2>1. /\ b1' \in Seq(Keys) /\ Ghosts(b1') = Ghosts(b1) \ {k} /\ NoDuplicateGhosts(b1')
        BY <1>6, GhostEraseKeys DEF put_b1, InB1, TypeOK, ListsDisjoint
    <2>2. p' \in 0 .. Capacity * PScale
        BY <1>0, <1>6, DeltaNat DEF put_b1, TypeOK, AtMost
    <2>3. pending' \in Insertion /\ pending'.key = k
        BY <1>6 DEF put_b1, Insertion
    <2>4. TypeOK'
        BY <1>6, <2>1, <2>2, <2>3 DEF put_b1, TypeOK
    <2>5. ListsDisjoint'
        BY <1>6, <2>1, <2>3 DEF put_b1, InT1, InT2, InB1, ListsDisjoint, Unlocked
    <2>6. QED
        BY <2>4, <2>5
<1>7. ASSUME NEW k \in Keys, NEW v \in Values, put_b2(k, v)
      PROVE  IInv'
    <2>1. /\ b2' \in Seq(Keys) /\ Ghosts(b2') = Ghosts(b2) \ {k} /\ NoDuplicateGhosts(b2')
        BY <1>7, GhostEraseKeys DEF put_b2, InB2, TypeOK, ListsDisjoint
    <2>2. p' \in 0 .. Capacity * PScale
        BY <1>0, <1>7, DeltaNat DEF put_b2, TypeOK, AtLeast
    <2>3. pending' \in Insertion /\ pending'.key = k
        BY <1>7 DEF put_b2, Insertion
    <2>4. TypeOK'
        BY <1>7, <2>1, <2>2, <2>3 DEF put_b2, TypeOK
    <2>5. ListsDisjoint'
        BY <1>7, <2>1, <2>3 DEF put_b2, InT1, InT2, InB1, InB2, ListsDisjoint, Unlocked
    <2>6. QED
        BY <2>4, <2>5
<1>8. ASSUME NEW k \in Keys, NEW v \in Values, put_new(k, v)
      PROVE  IInv'
    <2>1. /\ b1' \in Seq(Keys) /\ Ghosts(b1') \subseteq Ghosts(b1) /\ NoDuplicateGhosts(b1')
        BY <1>8, GhostPopBackKeys DEF put_new, TypeOK, ListsDisjoint
    <2>2. /\ b2' \in Seq(Keys) /\ Ghosts(b2') \subseteq Ghosts(b2) /\ NoDuplicateGhosts(b2')
        BY <1>8, GhostPopBackKeys DEF put_new, TypeOK, ListsDisjoint
    <2>3. pending' \in Insertion /\ pending'.key = k
        BY <1>8 DEF put_new, Insertion
    <2>4. TypeOK'
        BY <1>8, <2>1, <2>2, <2>3 DEF put_new, TypeOK
    <2>5. ListsDisjoint'
        BY <1>8, <2>1, <2>2, <2>3 DEF put_new, InT1, InT2, InB1, InB2, ListsDisjoint, Unlocked
    <2>6. QED
        BY <2>4, <2>5
<1>9. ASSUME evict_t1
      PROVE  IInv'
    <2>1. t1 # <<>>
        BY <1>9 DEF evict_t1, EvictFromT1
    <2>2. /\ t1' \in Seq(Entry) /\ Back(t1) \in Entry /\ Back(t1).key \in KeysOf(t1)
          /\ KeysOf(t1') = KeysOf(t1) \ {Back(t1).key} /\ NoDuplicates(t1')
        BY <1>9, <2>1, PopBackKeys DEF evict_t1, TypeOK, ListsDisjoint
    <2>3. Back(t1).key \in Keys /\ Back(t1).value \in Values
        BY <2>2 DEF Entry
    <2>4. /\ b1' \in Seq(Keys) /\ Ghosts(b1') = Ghosts(b1) \cup {Back(t1).key}
          /\ NoDuplicateGhosts(b1')
        BY <1>9, <2>2, <2>3, GhostPushFrontKeys DEF evict_t1, TypeOK, ListsDisjoint
    <2>5. current_size' \in Int
        BY <1>0, <1>9, <2>3 DEF evict_t1, TypeOK, Size
    <2>6. TypeOK'
        BY <1>9, <2>2, <2>4, <2>5 DEF evict_t1, TypeOK
    <2>7. ListsDisjoint'
        BY <1>9, <2>2, <2>4 DEF evict_t1, ListsDisjoint, Unlocked
    <2>8. QED
        BY <2>6, <2>7
<1>10. ASSUME evict_t2
      PROVE  IInv'
    <2>1. t2 # <<>>
        BY <1>10 DEF evict_t2
    <2>2. /\ t2' \in Seq(Entry) /\ Back(t2) \in Entry /\ Back(t2).key \in KeysOf(t2)
          /\ KeysOf(t2') = KeysOf(t2) \ {Back(t2).key} /\ NoDuplicates(t2')
        BY <1>10, <2>1, PopBackKeys DEF evict_t2, TypeOK, ListsDisjoint
    <2>3. Back(t2).key \in Keys /\ Back(t2).value \in Values
        BY <2>2 DEF Entry
    <2>4. /\ b2' \in Seq(Keys) /\ Ghosts(b2') = Ghosts(b2) \cup {Back(t2).key}
          /\ NoDuplicateGhosts(b2')
        BY <1>10, <2>2, <2>3, GhostPushFrontKeys DEF evict_t2, TypeOK, ListsDisjoint
    <2>5. current_size' \in Int
        BY <1>0, <1>10, <2>3 DEF evict_t2, TypeOK, Size
    <2>6. TypeOK'
        BY <1>10, <2>2, <2>4, <2>5 DEF evict_t2, TypeOK
    <2>7. ListsDisjoint'
        BY <1>10, <2>2, <2>4 DEF evict_t2, ListsDisjoint, Unlocked
    <2>8. QED
        BY <2>6, <2>7
<1>11. ASSUME put_finish
      PROVE  IInv'
    <2> DEFINE e == [key |-> pending.key, value |-> pending.value]
    <2>1. pending \in Insertion
        BY <1>11 DEF put_finish, Unlocked, TypeOK
    <2>2. e \in Entry /\ e.key = pending.key /\ pending.key \in Keys /\ pending.value \in Values
        BY <2>1 DEF Insertion, Entry
    <2>3. pending.key \notin KeysOf(t1) \cup KeysOf(t2) \cup Ghosts(b1) \cup Ghosts(b2)
        BY <1>11 DEF put_finish, ListsDisjoint
    <2>4. \/ t1' = PushFront(t1, e) /\ t2' = t2
          \/ t2' = PushFront(t2, e) /\ t1' = t1
        BY <1>11 DEF put_finish
    <2> HIDE DEF e
    <2>5. current_size' \in Int /\ pending' = NoPut
        BY <1>0, <1>11, <2>2 DEF put_finish, TypeOK
    <2>6. CASE t1' = PushFront(t1, e) /\ t2' = t2
        <3>1. /\ t1' \in Seq(Entry) /\ KeysOf(t1') = KeysOf(t1) \cup {pending.key}
              /\ NoDuplicates(t1')
            BY <2>2, <2>3, <2>6, PushFrontKeys DEF TypeOK, ListsDisjoint
        <3>2. TypeOK'
            BY <1>11, <2>5, <2>6, <3>1, <2>2, CallType DEF put_finish, TypeOK
        <3>3. ListsDisjoint'
            BY <1>11, <2>3, <2>5, <2>6, <3>1 DEF put_finish, ListsDisjoint, Unlocked
        <3>4. QED
            BY <3>2, <3>3
    <2>7. CASE t2' = PushFront(t2, e) /\ t1' = t1
        <3>1. /\ t2' \in Seq(Entry) /\ KeysOf(t2') = KeysOf(t2) \cup {pending.key}
              /\ NoDuplicates(t2')
            BY <2>2, <2>3, <2>7, PushFrontKeys DEF TypeOK, ListsDisjoint
        <3>2. TypeOK'
            BY <1>11, <2>5, <2>7, <3>1, <2>2, CallType DEF put_finish, TypeOK
        <3>3. ListsDisjoint'
            BY <1>11, <2>3, <2>5, <2>7, <3>1 DEF put_finish, ListsDisjoint, Unlocked
        <3>4. QED
            BY <3>2, <3>3
    <2>8. QED
        BY <2>4, <2>6, <2>7
<1>12. ASSUME NEW k \in Keys, remove_resident(k)
      PROVE  IInv'
    <2>1. CASE InT1(k)
        <3>1. t1[Find(t1, k)] \in Entry
            BY <2>1, FindPosition DEF InT1, TypeOK
        <3>2. /\ t1' \in Seq(Entry) /\ KeysOf(t1') = KeysOf(t1) \ {k} /\ NoDuplicates(t1')
            BY <1>12, <2>1, EraseKeys DEF remove_resident, InT1, TypeOK, ListsDisjoint
        <3>3. current_size' \in Int
            BY <1>0, <1>12, <2>1, <3>1 DEF remove_resident, TypeOK, Size, Entry
        <3>4. TypeOK'
            BY <1>12, <2>1, <3>2, <3>3, CallType DEF remove_resident, TypeOK
        <3>5. ListsDisjoint'
            BY <1>12, <2>1, <3>2 DEF remove_resident, ListsDisjoint, Unlocked
        <3>6. QED
            BY <3>4, <3>5
    <2>2. CASE ~InT1(k)
        <3>1. InT2(k) /\ t2[Find(t2, k)] \in Entry
            BY <1>12, <2>2, FindPosition DEF remove_resident, InT2, TypeOK
        <3>2. /\ t2' \in Seq(Entry) /\ KeysOf(t2') = KeysOf(t2) \ {k} /\ NoDuplicates(t2')
            BY <1>12, <2>2, <3>1, EraseKeys DEF remove_resident, InT2, TypeOK, ListsDisjoint
        <3>3. current_size' \in Int
            BY <1>0, <1>12, <2>2, <3>1 DEF remove_resident, TypeOK, Size, Entry
        <3>4. TypeOK'
            BY <1>12, <2>2, <3>2, <3>3, CallType DEF remove_resident, TypeOK
        <3>5. ListsDisjoint'
            BY <1>12, <2>2, <3>2 DEF remove_resident, ListsDisjoint, Unlocked
        <3>6. QED
            BY <3>4, <3>5
    <2>3. QED
        BY <2>1, <2>2
<1>13. ASSUME NEW k \in Keys, remove_ghost(k)
      PROVE  IInv'
    <2>1. /\ b1' \in Seq(Keys) /\ Ghosts(b1') \subseteq Ghosts(b1) /\ NoDuplicateGhosts(b1')
        BY <1>13, GhostEraseKeys DEF remove_ghost, InB1, TypeOK, ListsDisjoint
    <2>2. /\ b2' \in Seq(Keys) /\ Ghosts(b2') \subseteq Ghosts(b2) /\ NoDuplicateGhosts(b2')
        BY <1>13, GhostEraseKeys DEF remove_ghost, InB2, TypeOK, ListsDisjoint
    <2>3. TypeOK'
        BY <1>13, <2>1, <2>2, CallType DEF remove_ghost, TypeOK
    <2>4. ListsDisjoint'
        BY <1>13, <2>1, <2>2 DEF remove_ghost, ListsDisjoint, Unlocked
    <2>5. QED
        BY <2>3, <2>4
<1>14. ASSUME clear
      PROVE  IInv'
    <2>1. TypeOK'
        BY <1>0, <1>14, CallType DEF clear, TypeOK
    <2>2. ListsDisjoint'
        BY <1>14 DEF clear, ListsDisjoint, NoDuplicates, NoDuplicateGhosts, KeysOf, Ghosts, Unlocked
    <2>3. QED
        BY <2>1, <2>2
<1>15. ASSUME UNCHANGED vars
      PROVE  IInv'
    <2>1. TypeOK'
        BY <1>15 DEF vars, TypeOK
    <2>2. ListsDisjoint'
        BY <1>15 DEF vars, ListsDisjoint, Unlocked
    <2>3. QED
        BY <2>1, <2>2
<1>16. QED
    BY <1>0, <1>1, <1>2, <1>3, <1>4, <1>5, <1>6, <1>7, <1>8, <1>9, <1>10, <1>11, <1>12,
       <1>13, <1>14, <1>15 DEF Next, Get, Put, MakeRoom, RemoveKey

\* The four lists are always well typed, and p_ stays between 0 and the capacity.
THEOREM TypeCorrect == Spec => []TypeOK
    BY InitIInv, NextIInv, PTL DEF Spec, IInv

\* No interleaving of gets, puts, evictions and removals ever leaves a key in two
\* of the lists, or twice in one: the iterators of the maps stay in step with the lists.
THEOREM KeysInOneList == Spec => []ListsDisjoint
    BY InitIInv, NextIInv, PTL DEF Spec, IInv
=============================================================================
