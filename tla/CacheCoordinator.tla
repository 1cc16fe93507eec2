--------------------------- MODULE CacheCoordinator ---------------------------
(***************************************************************************)
(* CacheCoordinator (cache_coordinator.cpp) over its two local levels, with *)
(* the HTTP handlers that answer from its status (http_api.cpp).  An        *)
(* operation works through the levels one after the other, and operations   *)
(* on the same key interleave between them.                                 *)
(*                                                                          *)
(* A level is seen through MemoryCache's and DiskCache's results: what a    *)
(* key maps to there is a value, whether all its chunks are still there,    *)
(* and how its TTL stands.  The operations that ask other nodes are in      *)
(* RemoteCalls: no node answers, so here they only take time.               *)
(***************************************************************************)
EXTENDS Integers, FiniteSets

CONSTANTS
    Readers, Writers, \* coroutines
    Keys, Values,
    NoValue,    \* nothing under a key
    Unknown,    \* history: no single value is the latest
    Options,    \* the WriteOptions callers use
    PreferLocal, \* config_.cluster.prefer_local
    PutFails    \* whether the levels' put may return an error

Threads == Readers \cup Writers

\* WriteOptions::overwrite is not looked at, and no_cluster only decides
\* whether other nodes are asked.
WriteOptions ==
    [no_memory : BOOLEAN, no_disk : BOOLEAN, ttl : BOOLEAN]

\* What a level holds under a key.
Held == [value : Values, whole : BOOLEAN,
         ttl : {"none", "running", "expired"}]

ASSUME CoordinatorAssumption ==
    /\ Options \subseteq WriteOptions
    /\ PreferLocal \in BOOLEAN /\ PutFails \in BOOLEAN
    /\ NoValue \notin Values /\ Unknown \notin Values /\ NoValue # Unknown
    /\ NoValue \notin Held
    /\ Readers \cap Writers = {}

VARIABLES
    memory, disk, \* what each level holds
    op,           \* what each thread is doing
    latest        \* history: the value of the last write of each key

vars == <<memory, disk, op, latest>>

Idle == [pc |-> "idle"]

Init ==
    /\ memory = [k \in Keys |-> NoValue]
    /\ disk = [k \in Keys |-> NoValue]
    /\ op = [t \in Threads |-> Idle]
    /\ latest = [k \in Keys |-> NoValue]

AtRest(t) == op[t].pc \in {"idle", "done"}

Writing(t, k) == ~AtRest(t) /\ t \in Writers /\ op[t].key = k

-----------------------------------------------------------------------------
(* What get on one level returns. *)

Lookup(held, allow_partial) ==
    IF held = NoValue THEN "Miss"
    ELSE IF held.ttl = "expired" THEN "Expired"
    ELSE IF held.whole THEN "Hit"
    ELSE IF allow_partial THEN "PartialHit"
    ELSE "Miss"

\* o is what the read was doing; meta is the value whose metadata it has.
Answer(o, result, v) ==
    [pc |-> "done", op |-> o.op, key |-> o.key, result |-> result,
     value |-> v, expect |-> o.expect, meta |-> o.meta]

Missed(o) == Answer(o, "Miss", NoValue)

FirstLevel == IF PreferLocal THEN "get_memory" ELSE "get_disk"

StartRead(t, pc, name, k, allow_partial) ==
    /\ AtRest(t)
    /\ op' = [op EXCEPT ![t] =
          [pc |-> pc, op |-> name, key |-> k, partial |-> allow_partial,
           expect |-> latest[k], meta |-> NoValue]]
    /\ UNCHANGED <<memory, disk, latest>>

get(t, k, allow_partial) == StartRead(t, FirstLevel, "get", k, allow_partial)

get_memory(t) ==
    LET o == op[t]
    IN  /\ o.pc = "get_memory"
        /\ op' = [op EXCEPT ![t] =
              IF Lookup(memory[o.key], o.partial) \in {"Hit", "PartialHit"}
              THEN Answer(o, Lookup(memory[o.key], o.partial),
                          memory[o.key].value)
              ELSE [o EXCEPT !.pc = "get_disk"]]
        /\ UNCHANGED <<memory, disk, latest>>

\* The promotion to memory after a hit has no effect.
get_disk(t) ==
    LET o == op[t]
    IN  /\ o.pc = "get_disk"
        /\ op' = [op EXCEPT ![t] =
              IF Lookup(disk[o.key], o.partial) \in {"Hit", "PartialHit"}
              THEN Answer(o, Lookup(disk[o.key], o.partial),
                          disk[o.key].value)
              ELSE [o EXCEPT !.pc = "get_cluster"]]
        /\ UNCHANGED <<memory, disk, latest>>

\* fetch_from_cluster, when it returns, has found nothing.
fetch_from_cluster(t) ==
    /\ op[t].pc = "get_cluster"
    /\ op' = [op EXCEPT ![t] = Missed(op[t])]
    /\ UNCHANGED <<memory, disk, latest>>

-----------------------------------------------------------------------------
(* metadata, and the HTTP requests that begin with it *)

handle_head(t, k) == StartRead(t, "meta_memory", "head", k, TRUE)

\* A GET with a Range header needs the size of the value to know the range.
handle_get(t, k) == StartRead(t, "meta_memory", "range", k, TRUE)

\* metadata has returned, of value v or of none: HEAD answers, GET goes on.
AfterMetadata(o, v) ==
    IF o.op = "head"
    THEN Answer(o, IF v = NoValue THEN "Miss" ELSE "Hit", v)
    ELSE [o EXCEPT !.pc = FirstLevel, !.meta = v]

\* A level has metadata for a value that has expired or lost its chunks, too.
metadata_memory(t) ==
    LET o == op[t]
    IN  /\ o.pc = "meta_memory"
        /\ op' = [op EXCEPT ![t] =
              IF memory[o.key] # NoValue
              THEN AfterMetadata(o, memory[o.key].value)
              ELSE [o EXCEPT !.pc = "meta_disk"]]
        /\ UNCHANGED <<memory, disk, latest>>

metadata_disk(t) ==
    LET o == op[t]
    IN  /\ o.pc = "meta_disk"
        /\ op' = [op EXCEPT ![t] = AfterMetadata(o,
              IF disk[o.key] # NoValue THEN disk[o.key].value ELSE NoValue)]
        /\ UNCHANGED <<memory, disk, latest>>

-----------------------------------------------------------------------------
(* put and remove *)

\* History: a write of k begins.  Reads of k under way may return the old or
\* the new value, and other writes of k under way overlap with it.
Disturb(k) ==
    [t \in Threads |->
        IF AtRest(t) \/ op[t].key # k THEN op[t]
        ELSE IF t \in Readers THEN [op[t] EXCEPT !.expect = Unknown]
        ELSE [op[t] EXCEPT !.alone = FALSE]]

Begin(t, k, o) ==
    /\ AtRest(t)
    /\ op' = [Disturb(k) EXCEPT ![t] = o]
    /\ latest' = [latest EXCEPT ![k] = Unknown]

Alone(t, k) == \A u \in Writers \ {t} : ~Writing(u, k)

Step(t, pc) == op' = [op EXCEPT ![t].pc = pc]

\* A write ends; its value is the latest one if no other write overlapped.
End(t, result, v) ==
    /\ op' = [op EXCEPT ![t] =
          [pc |-> "done", op |-> op[t].op, result |-> result]]
    /\ latest' = [latest EXCEPT ![op[t].key] =
          IF op[t].alone THEN v ELSE Unknown]

put(t, k, v, opts) ==
    /\ Begin(t, k, [pc |-> "put_memory", op |-> "put", key |-> k,
                    value |-> v, opts |-> opts, alone |-> Alone(t, k)])
    /\ UNCHANGED <<memory, disk>>

\* (mutant) the value was moved from before it is stored
NewValue_moved(o) ==
    [value |-> NoValue, whole |-> TRUE,
     ttl |-> IF o.opts.ttl THEN "running" ELSE "none"]

NewValue(o) ==
    [value |-> o.value, whole |-> TRUE,
     ttl |-> IF o.opts.ttl THEN "running" ELSE "none"]

\* (mutant) memory keeps the value it has
put_memory_if_absent(t) ==
    LET o == op[t]
    IN  /\ o.pc = "put_memory"
        /\ memory' = IF o.opts.no_memory \/ memory[o.key] # NoValue THEN memory
                     ELSE [memory EXCEPT ![o.key] = NewValue(o)]
        /\ Step(t, "put_disk")
        /\ UNCHANGED <<disk, latest>>

put_memory(t) ==
    LET o == op[t]
    IN  /\ o.pc = "put_memory"
        /\ memory' = IF o.opts.no_memory THEN memory
                     ELSE [memory EXCEPT ![o.key] = NewValue(o)]
        /\ Step(t, "put_disk")
        /\ UNCHANGED <<disk, latest>>

\* MemoryCache::put refuses a key or a value that is too large.
put_memory_fails(t) ==
    /\ PutFails
    /\ op[t].pc = "put_memory" /\ ~op[t].opts.no_memory
    /\ End(t, "TooLarge", Unknown)
    /\ UNCHANGED <<memory, disk>>

\* (mutant) the disk is left alone when memory took the value
put_disk_skipped(t) ==
    LET o == op[t]
    IN  /\ o.pc = "put_disk"
        /\ disk' = IF o.opts.no_disk \/ ~o.opts.no_memory THEN disk
                   ELSE [disk EXCEPT ![o.key] = NewValue(o)]
        /\ Step(t, "put_cluster")
        /\ UNCHANGED <<memory, latest>>

put_disk(t) ==
    LET o == op[t]
    IN  /\ o.pc = "put_disk"
        /\ disk' = IF o.opts.no_disk THEN disk
                   ELSE [disk EXCEPT ![o.key] = NewValue(o)]
        /\ Step(t, "put_cluster")
        /\ UNCHANGED <<memory, latest>>

\* The error of DiskCache::put is returned; memory keeps the new value.
put_disk_fails(t) ==
    /\ PutFails
    /\ op[t].pc = "put_disk" /\ ~op[t].opts.no_disk
    /\ End(t, "DiskError", Unknown)
    /\ UNCHANGED <<memory, disk>>

\* The loop of remote_put is over.  With neither level written there is no
\* storage for the value.  A level that was skipped may still hold an older
\* value, and may be asked first.
put_cluster(t) ==
    LET opts == op[t].opts
    IN  /\ op[t].pc = "put_cluster"
        /\ End(t, IF opts.no_memory /\ opts.no_disk
                  THEN "InternalError" ELSE "Ok",
                  IF opts.no_memory \/ opts.no_disk
                  THEN Unknown ELSE op[t].value)
        /\ UNCHANGED <<memory, disk>>

remove(t, k) ==
    /\ Begin(t, k, [pc |-> "remove_memory", op |-> "remove", key |-> k,
                    alone |-> Alone(t, k)])
    /\ UNCHANGED <<memory, disk>>

remove_memory(t) ==
    LET k == op[t].key
    IN  /\ op[t].pc = "remove_memory"
        /\ memory' = [memory EXCEPT ![k] = NoValue]
        /\ Step(t, "remove_disk")
        /\ UNCHANGED <<disk, latest>>

\* (mutant) the disk is not asked to remove the key
remove_disk_skipped(t) ==
    /\ op[t].pc = "remove_disk"
    /\ Step(t, "remove_cluster")
    /\ UNCHANGED <<memory, disk, latest>>

remove_disk(t) ==
    LET k == op[t].key
    IN  /\ op[t].pc = "remove_disk"
        /\ disk' = [disk EXCEPT ![k] = NoValue]
        /\ Step(t, "remove_cluster")
        /\ UNCHANGED <<memory, latest>>

\* The loop of remote_delete is over.  The results of all the removes are
\* dropped: the status is always Ok.
remove_cluster(t) ==
    /\ op[t].pc = "remove_cluster"
    /\ End(t, "Ok", NoValue)
    /\ UNCHANGED <<memory, disk>>

-----------------------------------------------------------------------------
(* What happens to the levels by itself. *)

\* A chunk of the value is evicted or is removed with another key's value, or
\* the last one that was missing is put again with another key's value.
MemoryChunks(k) ==
    /\ memory[k] # NoValue
    /\ memory' = [memory EXCEPT ![k].whole = ~memory[k].whole]
    /\ UNCHANGED <<disk, op, latest>>

DiskChunks(k) ==
    /\ disk[k] # NoValue
    /\ disk' = [disk EXCEPT ![k].whole = ~disk[k].whole]
    /\ UNCHANGED <<memory, op, latest>>

\* The clock passes expires_at, which each level computed for itself.
ExpireMemory(k) ==
    /\ memory[k] # NoValue /\ memory[k].ttl = "running"
    /\ memory' = [memory EXCEPT ![k].ttl = "expired"]
    /\ UNCHANGED <<disk, op, latest>>

ExpireDisk(k) ==
    /\ disk[k] # NoValue /\ disk[k].ttl = "running"
    /\ disk' = [disk EXCEPT ![k].ttl = "expired"]
    /\ UNCHANGED <<memory, op, latest>>

-----------------------------------------------------------------------------
Read(t) ==
    \/ \E k \in Keys, partial \in BOOLEAN : get(t, k, partial)
    \/ get_memory(t)
    \/ get_disk(t)
    \/ fetch_from_cluster(t)
    \/ \E k \in Keys : handle_head(t, k) \/ handle_get(t, k)
    \/ metadata_memory(t)
    \/ metadata_disk(t)

Put(t) ==
    \/ \E k \in Keys, v \in Values, opts \in Options : put(t, k, v, opts)
    \/ put_memory(t)
    \/ put_memory_fails(t)
    \/ put_disk(t)
    \/ put_disk_fails(t)
    \/ put_cluster(t)

RemoveKey(t) ==
    \/ \E k \in Keys : remove(t, k)
    \/ remove_memory(t)
    \/ remove_disk(t)
    \/ remove_cluster(t)

Environment(k) ==
    \/ MemoryChunks(k)
    \/ DiskChunks(k)
    \/ ExpireMemory(k)
    \/ ExpireDisk(k)

Next ==
    \/ \E t \in Readers : Read(t)
    \/ \E t \in Writers : Put(t) \/ RemoveKey(t)
    \/ \E k \in Keys : Environment(k)

Spec == Init /\ [][Next]_vars

-----------------------------------------------------------------------------
Reads == {"get", "head", "range"}

ReaderOp ==
    {Idle}
    \cup [pc : {"meta_memory", "meta_disk",
                "get_memory", "get_disk", "get_cluster"},
          op : Reads, key : Keys, partial : BOOLEAN,
          expect : Values \cup {NoValue, Unknown},
          meta : Values \cup {NoValue}]
    \cup [pc : {"done"}, op : Reads, key : Keys,
          result : {"Hit", "PartialHit", "Miss"},
          value : Values \cup {NoValue},
          expect : Values \cup {NoValue, Unknown},
          meta : Values \cup {NoValue}]

WriterOp ==
    {Idle}
    \cup [pc : {"put_memory", "put_disk", "put_cluster"}, op : {"put"},
          key : Keys, value : Values, opts : Options, alone : BOOLEAN]
    \cup [pc : {"remove_memory", "remove_disk", "remove_cluster"},
          op : {"remove"}, key : Keys, alone : BOOLEAN]
    \cup [pc : {"done"}, op : {"put", "remove"},
          result : {"Ok", "TooLarge", "DiskError", "InternalError"}]

\* Each level holds values with a TTL state, and each coroutine is at a step
\* of the operation it may be running.
TypeOK ==
    /\ memory \in [Keys -> Held \cup {NoValue}]
    /\ disk \in [Keys -> Held \cup {NoValue}]
    /\ latest \in [Keys -> Values \cup {NoValue, Unknown}]
    /\ op \in [Threads -> ReaderOp \cup WriterOp]
    /\ \A t \in Readers : op[t] \in ReaderOp
    /\ \A t \in Writers : op[t] \in WriterOp

Returned(t) ==
    /\ t \in Readers
    /\ op[t].pc = "done"
    /\ op[t].result \in {"Hit", "PartialHit"}

\* CacheCoordinator::get and metadata: the value that a hit, a partial hit or
\* the answer to a HEAD is taken from is the one of the last completed put of
\* the key, whichever level answers and whatever was evicted or expired in
\* between; after a remove there is none.
\* (A read that overlaps a write, or comes after writes that overlapped each
\* other, failed or skipped a level, may return an older value.)
HitIsLatest ==
    \A t \in Threads : Returned(t) /\ op[t].expect # Unknown =>
        op[t].value = op[t].expect

\* handle_get asks for the metadata, computes the byte range from the size it
\* gives, and then asks for the bytes, while evictions may send the two calls
\* to different levels: unless a write came in between, the range and the
\* bytes are of the same value.
RangeIsOfValue ==
    \A t \in Threads :
        Returned(t) /\ op[t].op = "range" /\ op[t].expect # Unknown =>
            op[t].meta = op[t].value

\* When no write of a key is under way and the last one did not overlap
\* another, fail or skip a level, the levels that hold the key hold the same
\* value of it.
LevelsAgree ==
    \A k \in Keys : latest[k] # Unknown =>
        /\ memory[k] # NoValue => memory[k].value = latest[k]
        /\ disk[k] # NoValue => disk[k].value = latest[k]
=============================================================================
