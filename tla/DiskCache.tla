------------------------------ MODULE DiskCache ------------------------------
(***************************************************************************)
(* DiskCache and DiskStore (disk_cache.cpp): chunks are files named by     *)
(* their content, and an index in memory (descriptors_, chunk_paths_,      *)
(* access_order_, current_size_) says what is on disk.  The index is       *)
(* guarded by index_mutex_; the files are not, so every system call that   *)
(* matters and every locked section is an action, and the operations of    *)
(* several coroutines interleave between them.                             *)
(*                                                                         *)
(* Byte ranges are the subject of ChunkRanges; here a value is its         *)
(* sequence of chunks and get reads it whole.  The content of a chunk file *)
(* is abstracted to: absent, empty (opened with O_TRUNC), torn (extended   *)
(* with zeros by fallocate, not or not fully written) or data.  Clock::now *)
(* is taken to increase between two locked sections, so access_order_ is a *)
(* sequence with its oldest entry first.                                   *)
(***************************************************************************)
EXTENDS Integers, SequencesExt

CONSTANTS
    Threads, Keys,
    Values,     \* sequences of chunks that callers put
    NoDesc,     \* no descriptor under a key
    SizeOf,     \* bytes of each chunk
    High, Low,  \* max_size times high_watermark and low_watermark
    WriteFails, \* whether open and pwrite may fail
    Restarts    \* whether the process may stop and start again

ASSUME WatermarkAssumption ==
    /\ High \in Nat /\ Low \in Nat /\ Low < High
    /\ WriteFails \in BOOLEAN /\ Restarts \in BOOLEAN

VARIABLES
    files,         \* chunk files
    desc_files,    \* descriptor files
    descriptors, chunk_paths, access_order, current_size, \* the index
    op             \* what each thread is doing, with its local variables

disk == <<files, desc_files>>
sizes == <<chunk_paths, access_order, current_size>>
vars == <<disk, descriptors, sizes, op>>

Chunks == UNION {ToSet(v) : v \in Values}

Bytes(chunks) == FoldLeft(LAMBDA sum, c : sum + SizeOf[c], 0, chunks)

AtMost(n, bound) == IF n > bound THEN bound ELSE n

Idle == [pc |-> "idle"]

Init ==
    /\ files = [c \in Chunks |-> "absent"]
    /\ desc_files = [k \in Keys |-> NoDesc]
    /\ descriptors = [k \in Keys |-> NoDesc]
    /\ chunk_paths = {}
    /\ access_order = <<>>
    /\ current_size = 0
    /\ op = [t \in Threads |-> Idle]

At(t, pc) == op[t].pc = pc

AtRest(t) == At(t, "idle") \/ At(t, "done")

Goto(t, pc) == op' = [op EXCEPT ![t].pc = pc]

Finish(t, status) == op' = [op EXCEPT ![t] = [pc |-> "done", result |-> status]]

\* the bytes the access entries stand for
EntryBytes == FoldLeft(LAMBDA sum, e : sum + e.size, 0, access_order)

\* the position of a chunk's oldest access entry, 0 if it has none
EntryOf(c) == SelectInSeq(access_order, LAMBDA e : e.id = c)

\* after unlink(c): a writer that has the file open holds a nameless inode
Unlinked(c) ==
    [t \in Threads |->
        IF op[t].pc \in {"fallocate", "pwrite"} /\ Head(op[t].todo) = c
        THEN [op[t] EXCEPT !.linked = FALSE] ELSE op[t]]

-----------------------------------------------------------------------------
(* get *)

get(t, k, allow_partial) ==
    /\ AtRest(t)
    /\ op' = [op EXCEPT ![t] =
          IF descriptors[k] = NoDesc
          THEN [pc |-> "done", result |-> "Miss"]
          ELSE [pc |-> "read", todo |-> descriptors[k],
                partial |-> allow_partial, found |-> <<>>,
                all_found |-> TRUE]]
    /\ UNCHANGED <<disk, descriptors, sizes>>

\* get_chunk: an empty or absent file is a missing chunk; the content of any
\* other is returned as it is.  The access order is not changed.
get_chunk(t) ==
    LET c == Head(op[t].todo)
        there == files[c] \in {"torn", "data"}
    IN  /\ At(t, "read") /\ op[t].todo # <<>>
        /\ op' = [op EXCEPT
              ![t].all_found = @ /\ there,
              ![t].found = IF there THEN Append(@, files[c]) ELSE @,
              ![t].todo = IF there \/ op[t].partial THEN Tail(@) ELSE <<>>]
        /\ UNCHANGED <<disk, descriptors, sizes>>

get_finish(t) ==
    /\ At(t, "read") /\ op[t].todo = <<>>
    /\ op' = [op EXCEPT ![t] =
          IF op[t].all_found
          THEN [pc |-> "done", result |-> "Hit", found |-> op[t].found]
          ELSE [pc |-> "done",
                result |-> IF op[t].partial THEN "PartialHit" ELSE "Miss"]]
    /\ UNCHANGED <<disk, descriptors, sizes>>

-----------------------------------------------------------------------------
(* put *)

\* (mutant) room is made only when the cache is already over the mark
put_late_check(t, k, v) ==
    /\ AtRest(t)
    /\ op' = [op EXCEPT ![t] =
          [pc |-> IF current_size > High THEN "evict" ELSE "put_chunks",
           key |-> k, value |-> v, todo |-> v, evicted |-> 0,
           linked |-> FALSE]]
    /\ UNCHANGED <<disk, descriptors, sizes>>

\* put tests for room, without the lock.
put(t, k, v) ==
    /\ AtRest(t)
    /\ op' = [op EXCEPT ![t] =
          [pc |-> IF current_size + Bytes(v) > High THEN "evict"
                  ELSE "put_chunks",
           key |-> k, value |-> v, todo |-> v, evicted |-> 0,
           linked |-> FALSE]]
    /\ UNCHANGED <<disk, descriptors, sizes>>

\* evict's loop condition, again without the lock
evict_test(t) ==
    /\ At(t, "evict")
    /\ Goto(t, IF current_size > Low \/ op[t].evicted < Bytes(op[t].value)
               THEN "evict_oldest" ELSE "put_chunks")
    /\ UNCHANGED <<disk, descriptors, sizes>>

\* the locked part of a turn: take the oldest entry out of the index.  The
\* count of bytes evicted only matters up to the bytes needed.
evict_oldest(t) ==
    /\ At(t, "evict_oldest")
    /\ IF access_order = <<>>
       THEN Goto(t, "put_chunks") /\ UNCHANGED sizes
       ELSE LET victim == Head(access_order)
            IN  /\ access_order' = Tail(access_order)
                /\ chunk_paths' = chunk_paths \ {victim.id}
                /\ current_size' = current_size - victim.size
                /\ op' = [op EXCEPT ![t] =
                      [@ EXCEPT !.pc = "evict_file",
                                !.evicted = AtMost(@ + victim.size,
                                                   Bytes(op[t].value))]
                      @@ [victim |-> victim.id]]
    /\ UNCHANGED <<disk, descriptors>>

\* and then, unlocked, delete its file
evict_file(t) ==
    /\ At(t, "evict_file")
    /\ files' = [files EXCEPT ![op[t].victim] = "absent"]
    /\ op' = [Unlinked(op[t].victim) EXCEPT ![t] =
          [f \in DOMAIN @ \ {"victim"} |-> IF f = "pc" THEN "evict" ELSE @[f]]]
    /\ UNCHANGED <<desc_files, descriptors, sizes>>

\* put_chunk, write_file: open with O_TRUNC
write_open(t) ==
    /\ At(t, "put_chunks") /\ op[t].todo # <<>>
    /\ files' = [files EXCEPT ![Head(op[t].todo)] = "empty"]
    /\ op' = [op EXCEPT ![t].pc = "fallocate", ![t].linked = TRUE]
    /\ UNCHANGED <<desc_files, descriptors, sizes>>

write_open_fails(t) ==
    /\ WriteFails
    /\ At(t, "put_chunks") /\ op[t].todo # <<>>
    /\ Finish(t, "DiskError")
    /\ UNCHANGED <<disk, descriptors, sizes>>

\* fallocate extends the file with zeros
write_fallocate(t) ==
    /\ At(t, "fallocate")
    /\ files' = [files EXCEPT ![Head(op[t].todo)] =
                    IF op[t].linked /\ @ = "empty" THEN "torn" ELSE @]
    /\ Goto(t, "pwrite")
    /\ UNCHANGED <<desc_files, descriptors, sizes>>

\* pwrite.  The file may have been unlinked since it was opened: then the
\* bytes go to an inode without a name.
write_pwrite(t) ==
    /\ At(t, "pwrite")
    /\ files' = [files EXCEPT ![Head(op[t].todo)] =
                    IF op[t].linked THEN "data" ELSE @]
    /\ Goto(t, "index")
    /\ UNCHANGED <<desc_files, descriptors, sizes>>

write_pwrite_fails(t) ==
    /\ WriteFails
    /\ At(t, "pwrite")
    /\ Finish(t, "DiskError")
    /\ UNCHANGED <<disk, descriptors, sizes>>

\* the locked end of put_chunk
put_chunk(t) ==
    LET c == Head(op[t].todo)
    IN  /\ At(t, "index")
        /\ chunk_paths' = chunk_paths \cup {c}
        /\ current_size' = current_size + SizeOf[c]
        /\ access_order' = Append(access_order, [id |-> c, size |-> SizeOf[c]])
        /\ op' = [op EXCEPT ![t].pc = "put_chunks", ![t].todo = Tail(@)]
        /\ UNCHANGED <<disk, descriptors>>

\* put_descriptor: the file (written and synced), then the index
put_descriptor_file(t) ==
    /\ At(t, "put_chunks") /\ op[t].todo = <<>>
    /\ \/ /\ desc_files' = [desc_files EXCEPT ![op[t].key] = op[t].value]
          /\ Goto(t, "put_descriptor")
       \/ /\ WriteFails
          /\ Finish(t, "DiskError")
          /\ UNCHANGED desc_files
    /\ UNCHANGED <<files, descriptors, sizes>>

\* (mutant) the list of chunks was consumed by the loop
put_descriptor_moved(t) ==
    /\ At(t, "put_descriptor")
    /\ descriptors' = [descriptors EXCEPT ![op[t].key] = op[t].todo]
    /\ Finish(t, "Ok")
    /\ UNCHANGED <<disk, sizes>>

put_descriptor(t) ==
    /\ At(t, "put_descriptor")
    /\ descriptors' = [descriptors EXCEPT ![op[t].key] = op[t].value]
    /\ Finish(t, "Ok")
    /\ UNCHANGED <<disk, sizes>>

-----------------------------------------------------------------------------
(* remove *)

remove(t, k) ==
    /\ AtRest(t)
    /\ op' = [op EXCEPT ![t] =
          IF descriptors[k] = NoDesc
          THEN [pc |-> "done", result |-> "NotFound"]
          ELSE [pc |-> "remove_chunk", key |-> k, todo |-> descriptors[k]]]
    /\ UNCHANGED <<disk, descriptors, sizes>>

\* (mutant) every access entry of the chunk goes, one size is taken off
remove_chunk_all_entries(t) ==
    LET c == Head(op[t].todo)
        at == EntryOf(c)
        indexed == c \in chunk_paths
    IN  /\ At(t, "remove_chunk") /\ op[t].todo # <<>>
        /\ chunk_paths' = chunk_paths \ {c}
        /\ IF indexed /\ at # 0
           THEN /\ current_size' = current_size - access_order[at].size
                /\ access_order' =
                      SelectSeq(access_order, LAMBDA e : e.id # c)
           ELSE UNCHANGED <<current_size, access_order>>
        /\ Goto(t, "remove_file")
        /\ UNCHANGED <<disk, descriptors>>

\* (mutant) the chunk stays in chunk_paths_
remove_chunk_keeps_path(t) ==
    LET c == Head(op[t].todo)
        at == EntryOf(c)
    IN  /\ At(t, "remove_chunk") /\ op[t].todo # <<>>
        /\ UNCHANGED chunk_paths
        /\ IF c \in chunk_paths /\ at # 0
           THEN /\ current_size' = current_size - access_order[at].size
                /\ access_order' = RemoveAt(access_order, at)
           ELSE UNCHANGED <<current_size, access_order>>
        /\ Goto(t, "remove_file")
        /\ UNCHANGED <<disk, descriptors>>

\* the locked part of remove_chunk
remove_chunk(t) ==
    LET c == Head(op[t].todo)
        at == EntryOf(c)
    IN  /\ At(t, "remove_chunk") /\ op[t].todo # <<>>
        /\ chunk_paths' = chunk_paths \ {c}
        /\ IF c \in chunk_paths /\ at # 0
           THEN /\ current_size' = current_size - access_order[at].size
                /\ access_order' = RemoveAt(access_order, at)
           ELSE UNCHANGED <<current_size, access_order>>
        /\ Goto(t, "remove_file")
        /\ UNCHANGED <<disk, descriptors>>

remove_file(t) ==
    /\ At(t, "remove_file")
    /\ files' = [files EXCEPT ![Head(op[t].todo)] = "absent"]
    /\ op' = [Unlinked(Head(op[t].todo)) EXCEPT
                 ![t].pc = "remove_chunk", ![t].todo = Tail(@)]
    /\ UNCHANGED <<desc_files, descriptors, sizes>>

remove_descriptor(t) ==
    /\ At(t, "remove_chunk") /\ op[t].todo = <<>>
    /\ descriptors' = [descriptors EXCEPT ![op[t].key] = NoDesc]
    /\ Goto(t, "remove_descriptor_file")
    /\ UNCHANGED <<disk, sizes>>

remove_descriptor_file(t) ==
    /\ At(t, "remove_descriptor_file")
    /\ desc_files' = [desc_files EXCEPT ![op[t].key] = NoDesc]
    /\ Finish(t, "Ok")
    /\ UNCHANGED <<files, descriptors, sizes>>

-----------------------------------------------------------------------------
(* start, after the process stopped or was killed *)

FileBytes(c) == IF files[c] \in {"torn", "data"} THEN SizeOf[c] ELSE 0

OnDisk == {c \in Chunks : files[c] # "absent"}


\* (mutant) the scan adds to the counter of the run before
start_adds ==
    /\ Restarts
    /\ op' = [t \in Threads |-> Idle]
    /\ descriptors' = [k \in Keys |-> NoDesc]
    /\ chunk_paths' = OnDisk
    /\ \E listing \in SetToSeqs(OnDisk) :
          access_order' = [j \in DOMAIN listing |->
              [id |-> listing[j], size |-> FileBytes(listing[j])]]
    /\ current_size' = current_size + MapThenSumSet(FileBytes, OnDisk)
    /\ UNCHANGED disk

\* load_index reads the descriptor files and takes nothing from them, and
\* enters the chunk files in the order the directory lists them.
start ==
    /\ Restarts
    /\ op' = [t \in Threads |-> Idle]
    /\ descriptors' = [k \in Keys |-> NoDesc]
    /\ chunk_paths' = OnDisk
    /\ \E listing \in SetToSeqs(OnDisk) :
          access_order' = [j \in DOMAIN listing |->
              [id |-> listing[j], size |-> FileBytes(listing[j])]]
    /\ current_size' = MapThenSumSet(FileBytes, OnDisk)
    /\ UNCHANGED disk

-----------------------------------------------------------------------------
Get(t) ==
    \/ \E k \in Keys, partial \in BOOLEAN : get(t, k, partial)
    \/ get_chunk(t)
    \/ get_finish(t)

Evict(t) == evict_test(t) \/ evict_oldest(t) \/ evict_file(t)

WriteFile(t) ==
    \/ write_open(t)
    \/ write_open_fails(t)
    \/ write_fallocate(t)
    \/ write_pwrite(t)
    \/ write_pwrite_fails(t)

Put(t) ==
    \/ \E k \in Keys, v \in Values : put(t, k, v)
    \/ Evict(t)
    \/ WriteFile(t)
    \/ put_chunk(t)
    \/ put_descriptor_file(t)
    \/ put_descriptor(t)

RemoveKey(t) ==
    \/ \E k \in Keys : remove(t, k)
    \/ remove_chunk(t)
    \/ remove_file(t)
    \/ remove_descriptor(t)
    \/ remove_descriptor_file(t)

Next == start \/ \E t \in Threads : Get(t) \/ Put(t) \/ RemoveKey(t)

Spec == Init /\ [][Next]_vars

-----------------------------------------------------------------------------
\* The descriptors are values that were put, the access entries are of known
\* chunks, and the unsigned current_size_ does not wrap below zero.
TypeOK ==
    /\ files \in [Chunks -> {"absent", "empty", "torn", "data"}]
    /\ desc_files \in [Keys -> Values \cup {NoDesc}]
    /\ descriptors \in [Keys -> Values \cup {NoDesc}]
    /\ chunk_paths \subseteq Chunks
    /\ \A j \in DOMAIN access_order :
          access_order[j].id \in Chunks /\ access_order[j].size \in Nat
    /\ current_size \in Nat

\* current_size_ is the sum of the sizes in access_order_ whatever the order
\* in which puts, removes, evictions, failed writes and restarts run: it
\* never wraps below zero, and evicting everything brings it to zero.
SizeIsEntries == current_size = EntryBytes

\* A chunk in chunk_paths_ has an access entry, so evict can reach it.
IndexedIsEvictable ==
    chunk_paths \subseteq {access_order[j].id : j \in DOMAIN access_order}

LargestValue == Max({Bytes(v) : v \in Values})

\* Bytes that a put which has passed its test for room has yet to enter.
Promised(t) ==
    IF op[t].pc \in {"put_chunks", "fallocate", "pwrite", "index"}
    THEN Bytes(op[t].todo) ELSE 0

\* put tests for room without the lock, so several puts can pass the test on
\* the same room; but all but one of the threads overshoot the high watermark
\* by no more than one value each (a value may be larger than the mark).
\* This is about one run of the process: start also counts the files that
\* failed writes left unindexed.
OvershootBounded ==
    current_size + MapThenSumSet(Promised, Threads)
        <= Max({High, LargestValue})
               + (Cardinality(Threads) - 1) * LargestValue

\* disk_cache.hpp calls chunk_paths_ part of the `Index of what's on disk':
\* when no operation is under way it names the chunk files there are, also
\* after a restart, and current_size_ is that of its entries.
IndexMatchesFiles ==
    (\A t \in Threads : AtRest(t)) => chunk_paths = OnDisk /\ SizeIsEntries

=============================================================================
