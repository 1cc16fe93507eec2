------------------------------ MODULE HashRing ------------------------------
(***************************************************************************)
(* HashRing (src/network/cluster.cpp): the ring is a map from points to    *)
(* node ids, each node has VirtualNodes points, and the nodes of a key are *)
(* the first distinct ones met from the key's hash upwards, around the     *)
(* ring.                                                                   *)
(***************************************************************************)
EXTENDS Integers, SequencesExt

CONSTANTS
    Nodes,         \* node ids
    VirtualNodes,  \* virtual_nodes_
    hash_point(_, _),
    MaxHash        \* hashes are 0..MaxHash; 2^64 - 1 in the code

\* Two replicas of one node, or of two, have different points.  The mixing
\* function is a bijection; that the ids do not collide under
\* id ^ (replica * constant) is assumed of NodeId::generate.
ASSUME RingAssumption ==
    /\ VirtualNodes \in Nat \ {0} /\ MaxHash \in Nat
    /\ \A n, m \in Nodes, i, j \in 0..(VirtualNodes - 1) :
          /\ hash_point(n, i) \in 0..MaxHash
          /\ hash_point(n, i) = hash_point(m, j) => n = m /\ i = j

Hash == 0..MaxHash
EmptyRing == [p \in {} |-> CHOOSE n \in Nodes : TRUE]
Points(n) == {hash_point(n, i) : i \in 0..(VirtualNodes - 1)}
RingNodes(ring) == {ring[p] : p \in DOMAIN ring}

\* (mutant) the point after the last one is taken by the new node as well
add_node_overwrites(ring, id) ==
    [p \in DOMAIN ring \cup Points(id) \cup {MaxHash} |->
        IF p \in Points(id) \/ p = MaxHash THEN id ELSE ring[p]]

\* add_node; ring_[point] = id.
add_node(ring, id) ==
    [p \in DOMAIN ring \cup Points(id) |->
        IF p \in Points(id) THEN id ELSE ring[p]]

\* (mutant) the hash modulo the size of the ring is where the walk starts
Walk_modulo(ring, hash) ==
    LET sorted == SetToSortSeq(DOMAIN ring, <)
        first == hash % Len(sorted)
    IN  SubSeq(sorted, first + 1, Len(sorted)) \o SubSeq(sorted, 1, first)

\* The points from lower_bound(hash) to end(), then from begin().
Walk(ring, hash) ==
    SelectSeq([i \in 1..(MaxHash + 1) |-> (hash + i - 1) % (MaxHash + 1)],
              LAMBDA p : p \in DOMAIN ring)

\* (mutant) the walk ends at end()
get_nodes_no_wrap(ring, hash, count) ==
    LET step(found, p) ==
            IF ring[p] \in ToSet(found) \/ p < hash THEN found
            ELSE Append(found, ring[p])
        all == FoldLeft(step, <<>>, Walk(ring, hash))
        wanted == IF count = 0 THEN 1 ELSE count
    IN  SubSeq(all, 1, IF Len(all) < wanted THEN Len(all) ELSE wanted)

\* get_nodes: the first count distinct nodes of the walk, at least one.
get_nodes(ring, hash, count) ==
    LET step(found, p) ==
            IF ring[p] \in ToSet(found) THEN found ELSE Append(found, ring[p])
        all == FoldLeft(step, <<>>, Walk(ring, hash))
        wanted == IF count = 0 THEN 1 ELSE count
    IN  SubSeq(all, 1, IF Len(all) < wanted THEN Len(all) ELSE wanted)

-----------------------------------------------------------------------------
(* What get_nodes is for *)

\* How far up the ring from the hash the first point of a node is.
Distance(n, hash) ==
    LET away == {(p - hash) % (MaxHash + 1) : p \in Points(n)}
    IN  CHOOSE d \in away : \A e \in away : d <= e

\* found are the nodes of a key among members: different, as many as asked
\* for, nearest first.
AreNearest(found, members, hash, count) ==
    LET wanted == IF count = 0 THEN 1 ELSE count
        size == Cardinality(members)
    IN  /\ IsInjective(found) /\ ToSet(found) \subseteq members
        /\ Len(found) = IF size < wanted THEN size ELSE wanted
        /\ \A i \in DOMAIN found, n \in members :
              Distance(n, hash) < Distance(found[i], hash) =>
                  \E j \in 1..(i - 1) : found[j] = n
=============================================================================
