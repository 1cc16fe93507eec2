----------------------------- MODULE MemoryCache -----------------------------
(***************************************************************************)
(* MemoryCache (memory_cache.cpp): values are split into chunks stored by  *)
(* content in chunk_cache_, and descriptors_ maps a key to the chunks of   *)
(* its value.  get, put, remove and check are coroutines: between two      *)
(* accesses to the chunk cache or to the descriptors any other operation   *)
(* may run, so each access is an action of its own.                        *)
(*                                                                         *)
(* chunk_cache_ is an ARCCache, which promises what LossyStore says: an    *)
(* insertion may push out any other entries.  A chunk is identified with   *)
(* its content, that is, Hash128 is taken to be free of collisions.        *)
(*                                                                         *)
(* get_chunk dereferences the pointer ARCCache::get returned after that    *)
(* call has released the lock.  If the entry has left the cache in between *)
(* the read is undefined; the model lets it yield any chunk or none, and   *)
(* marks the operation as having made a dangling read.                     *)
(***************************************************************************)
EXTENDS ChunkRanges

CONSTANTS
    Threads, \* coroutines running operations
    Keys,    \* cache keys
    Values,  \* values callers put: sequences of bytes
    Ranges,  \* ranges callers ask for
    WholeValue, \* ReadOptions with no range
    NoDesc   \* no descriptor under a key

VARIABLES
    descriptors, \* descriptors_: what a key maps to
    resident,    \* the chunks in chunk_cache_
    op,          \* what each thread is doing, with its local variables
    written      \* history: the values put so far under each key

vars == <<descriptors, resident, op, written>>

Chunks == UNION {ToSet(split_value(v)) : v \in Values}

\* A descriptor: total_size, the chunk ids, and whether it has a TTL that
\* has run out.
Descriptor ==
    [total_size : {Len(v) : v \in Values},
     chunks : {split_value(v) : v \in Values},
     ttl : {"none", "running", "expired"}]

Idle == [pc |-> "idle"]

Init ==
    /\ descriptors = [k \in Keys |-> NoDesc]
    /\ resident = {}
    /\ op = [t \in Threads |-> Idle]
    /\ written = [k \in Keys |-> {}]

AtRest(t) == op[t].pc \in {"idle", "done"}

\* The read is over: what the caller gets.
ReadResult(o, outcome, data, range) ==
    [pc |-> "done", op |-> "get", key |-> o.key, wanted |-> o.wanted,
     dangling |-> o.dangling, result |-> outcome, data |-> data,
     actual_range |-> range]

Status(name, k, status) ==
    [pc |-> "done", op |-> name, key |-> k, result |-> status]

-----------------------------------------------------------------------------
(* get *)

RangeOf(wanted, total) ==
    IF wanted = WholeValue THEN RangeAt(0, total) ELSE wanted

Clamp(range, total) ==
    RangeAt(range.offset, Least(range.length, total - range.offset))

\* The ids of the chunks that the range needs.
ChunksNeeded(desc, range) ==
    LET indices == chunks_for_range(desc.total_size, Len(desc.chunks), range)
    IN  [j \in DOMAIN indices |-> desc.chunks[indices[j] + 1]]

\* get up to its loop: fetch the descriptor, test expiry, clamp the range,
\* choose the chunks.
get(t, k, wanted, allow_partial) ==
    LET desc == descriptors[k]
        o == [pc |-> "lookup", key |-> k, wanted |-> wanted,
              partial |-> allow_partial, dangling |-> FALSE]
        range == RangeOf(wanted, desc.total_size)
        clamped == Clamp(range, desc.total_size)
    IN  /\ AtRest(t)
        /\ op' = [op EXCEPT ![t] =
              IF desc = NoDesc
              THEN ReadResult(o, "Miss", <<>>, RangeAt(0, 0))
              ELSE IF desc.ttl = "expired"
              THEN ReadResult(o, "Expired", <<>>, RangeAt(0, 0))
              ELSE IF range.offset >= desc.total_size
              THEN ReadResult(o, "Hit", <<>>, RangeAt(range.offset, 0))
              ELSE o @@ [range |-> clamped, chunks |-> <<>>,
                         todo |-> ChunksNeeded(desc, clamped),
                         all_found |-> TRUE]]
        /\ UNCHANGED <<descriptors, resident, written>>

\* The loop's turn ends with this chunk.
Fetched(o, chunk) ==
    LET found == chunk # NoChunk
    IN  [o EXCEPT
            !.pc = "lookup",
            !.all_found = @ /\ found,
            !.chunks = IF found \/ o.partial THEN Append(@, chunk) ELSE @,
            !.todo = IF found \/ o.partial THEN Tail(@) ELSE <<>>]

\* get_chunk: chunk_cache_.get(id) returns a null pointer ...
lookup_miss(t) ==
    /\ op[t].pc = "lookup" /\ op[t].todo # <<>>
    /\ Head(op[t].todo) \notin resident
    /\ op' = [op EXCEPT ![t] = Fetched(@, NoChunk)]
    /\ UNCHANGED <<descriptors, resident, written>>

\* ... or a pointer into the cache,
lookup_hit(t) ==
    /\ op[t].pc = "lookup" /\ op[t].todo # <<>>
    /\ Head(op[t].todo) \in resident
    /\ op' = [op EXCEPT ![t].pc = "deref"]
    /\ UNCHANGED <<descriptors, resident, written>>

\* which get_chunk copies from without the lock.
deref(t) ==
    /\ op[t].pc = "deref"
    /\ LET id == Head(op[t].todo)
       IN  \/ /\ id \in resident
              /\ op' = [op EXCEPT ![t] = Fetched(@, id)]
           \/ /\ id \notin resident
              /\ \E c \in Chunks \cup {NoChunk} :
                    op' = [op EXCEPT ![t] =
                              [Fetched(@, c) EXCEPT !.dangling = TRUE]]
    /\ UNCHANGED <<descriptors, resident, written>>

\* (mutant) the result is a hit whenever no byte count is short
Outcome_by_size(o, data) ==
    IF Len(o.chunks) > 0 /\ Len(data) <= o.range.length THEN "Hit"
    ELSE "PartialHit"

Outcome(o, data) ==
    IF o.all_found /\ Len(data) = o.range.length THEN "Hit" ELSE "PartialHit"

\* The end of get: a miss, or the assembled bytes.
get_finish(t) ==
    LET o == op[t]
        data == assemble_value(o.chunks, o.range)
        miss == o.chunks = <<>> \/ (~o.all_found /\ ~o.partial)
    IN  /\ o.pc = "lookup" /\ o.todo = <<>>
        /\ op' = [op EXCEPT ![t] =
              IF miss
              THEN ReadResult(o, "Miss", <<>>, RangeAt(0, 0))
              ELSE ReadResult(o, Outcome(o, data), data,
                              RangeAt(o.range.offset, Len(data)))]
        /\ UNCHANGED <<descriptors, resident, written>>

-----------------------------------------------------------------------------
(* put *)

\* (mutant) the descriptor counts the last chunk as a full one
put_rounded(t, k, v, ttl) ==
    /\ AtRest(t)
    /\ op' = [op EXCEPT ![t] =
          [pc |-> "store", key |-> k, todo |-> split_value(v),
           desc |-> [total_size |-> ChunkCount(Len(v)) * CHUNK_SIZE,
                     chunks |-> split_value(v),
                     ttl |-> IF ttl THEN "running" ELSE "none"]]]
    /\ written' = [written EXCEPT ![k] = @ \cup {v}]
    /\ UNCHANGED <<descriptors, resident>>

\* put up to its first co_await: split the value and build the descriptor.
\* Keys and values are within MAX_KEY_SIZE and MAX_VALUE_SIZE.
put(t, k, v, ttl) ==
    /\ AtRest(t)
    /\ op' = [op EXCEPT ![t] =
          [pc |-> "store", key |-> k, todo |-> split_value(v),
           desc |-> [total_size |-> Len(v), chunks |-> split_value(v),
                     ttl |-> IF ttl THEN "running" ELSE "none"]]]
    /\ written' = [written EXCEPT ![k] = @ \cup {v}]
    /\ UNCHANGED <<descriptors, resident>>

\* put_chunk: the chunk is stored; any other chunks may be pushed out.
put_chunk(t) ==
    /\ op[t].pc = "store" /\ op[t].todo # <<>>
    /\ \E kept \in SUBSET resident :
          resident' = kept \cup {Head(op[t].todo)}
    /\ op' = [op EXCEPT ![t].todo = Tail(@)]
    /\ UNCHANGED <<descriptors, written>>

put_descriptor(t) ==
    /\ op[t].pc = "store" /\ op[t].todo = <<>>
    /\ descriptors' = [descriptors EXCEPT ![op[t].key] = op[t].desc]
    /\ op' = [op EXCEPT ![t] = Status("put", op[t].key, "Ok")]
    /\ UNCHANGED <<resident, written>>

-----------------------------------------------------------------------------
(* remove *)

remove(t, k) ==
    /\ AtRest(t)
    /\ op' = [op EXCEPT ![t] =
          IF descriptors[k] = NoDesc
          THEN Status("remove", k, "NotFound")
          ELSE [pc |-> "drop", key |-> k, todo |-> descriptors[k].chunks]]
    /\ UNCHANGED <<descriptors, resident, written>>

remove_chunk(t) ==
    /\ op[t].pc = "drop" /\ op[t].todo # <<>>
    /\ resident' = resident \ {Head(op[t].todo)}
    /\ op' = [op EXCEPT ![t].todo = Tail(@)]
    /\ UNCHANGED <<descriptors, written>>

remove_descriptor(t) ==
    /\ op[t].pc = "drop" /\ op[t].todo = <<>>
    /\ descriptors' = [descriptors EXCEPT ![op[t].key] = NoDesc]
    /\ op' = [op EXCEPT ![t] = Status("remove", op[t].key, "Ok")]
    /\ UNCHANGED <<resident, written>>

-----------------------------------------------------------------------------
(* stop, and the clock *)

stop(t) ==
    /\ AtRest(t)
    /\ resident' = {}
    /\ op' = [op EXCEPT ![t] = [pc |-> "stopping"]]
    /\ UNCHANGED <<descriptors, written>>

stop_descriptors(t) ==
    /\ op[t].pc = "stopping"
    /\ descriptors' = [k \in Keys |-> NoDesc]
    /\ op' = [op EXCEPT ![t] = Idle]
    /\ UNCHANGED <<resident, written>>

\* The clock passes the expires_at of a descriptor.
Expire(k) ==
    /\ descriptors[k] # NoDesc
    /\ descriptors[k].ttl = "running"
    /\ descriptors' = [descriptors EXCEPT ![k].ttl = "expired"]
    /\ UNCHANGED <<resident, op, written>>

-----------------------------------------------------------------------------
Get(t) ==
    \/ \E k \in Keys, w \in Ranges \cup {WholeValue}, partial \in BOOLEAN :
          get(t, k, w, partial)
    \/ lookup_miss(t)
    \/ lookup_hit(t)
    \/ deref(t)
    \/ get_finish(t)

Put(t) ==
    \/ \E k \in Keys, v \in Values, ttl \in BOOLEAN : put(t, k, v, ttl)
    \/ put_chunk(t)
    \/ put_descriptor(t)

RemoveKey(t) ==
    \/ \E k \in Keys : remove(t, k)
    \/ remove_chunk(t)
    \/ remove_descriptor(t)

Stop(t) == stop(t) \/ stop_descriptors(t)

Next ==
    \/ \E t \in Threads : Get(t) \/ Put(t) \/ RemoveKey(t) \/ Stop(t)
    \/ \E k \in Keys : Expire(k)

Spec == Init /\ [][Next]_vars

-----------------------------------------------------------------------------
\* The descriptors describe values callers put, whole and under their key,
\* and only chunks of such values are stored.
TypeOK ==
    /\ descriptors \in [Keys -> Descriptor \cup {NoDesc}]
    /\ resident \subseteq Chunks
    /\ written \in [Keys -> SUBSET Values]
    /\ \A k \in Keys : descriptors[k] # NoDesc =>
          \E v \in written[k] :
              /\ descriptors[k].total_size = Len(v)
              /\ descriptors[k].chunks = split_value(v)

Reads(t, outcome) ==
    /\ op[t].pc = "done"
    /\ op[t].op = "get"
    /\ op[t].result = outcome
    /\ ~op[t].dangling

\* What a read of v with these options should return.
Expected(v, wanted) ==
    LET range == RangeOf(wanted, Len(v))
    IN  IF range.offset >= Len(v) THEN <<>>
        ELSE Slice(v, Clamp(range, Len(v)))

\* MemoryCache::get: a Hit carries exactly the bytes asked for of one value
\* that was put under the key, never a mixture of two puts or the bytes left
\* when a chunk was evicted or removed under the read (as long as no pointer
\* into the ARC cache dangled, which NoDanglingRead is about).
HitIsExact ==
    \A t \in Threads : Reads(t, "Hit") =>
        /\ \E v \in written[op[t].key] : op[t].data = Expected(v, op[t].wanted)
        /\ op[t].actual_range.length = Len(op[t].data)

\* MemoryCache::get: a PartialHit carries some of the bytes asked for of one
\* value put under the key, in their order, and none from outside the range.
PartialHitInRange ==
    \A t \in Threads : Reads(t, "PartialHit") =>
        \E v \in written[op[t].key] :
            \E kept \in SUBSET (1..Len(Expected(v, op[t].wanted))) :
                op[t].data = LET all == Expected(v, op[t].wanted)
                                 at == SetToSortSeq(kept, LAMBDA m, n : m < n)
                             IN  [j \in DOMAIN at |-> all[at[j]]]

\* ARCHITECTURE.md promises thread safety of the ARC cache: the pointer that
\* get_chunk dereferences still points to an entry of the cache.
NoDanglingRead ==
    \A t \in Threads : op[t].pc = "deref" => Head(op[t].todo) \in resident
=============================================================================
