----------------------------- MODULE SparseCache -----------------------------
(***************************************************************************)
(* Position-based writes: SparseEntry and SparseCache (sparse_cache.hpp)   *)
(* with the HTTP handlers (http_api.cpp, /sparse/{key}) and the Unix       *)
(* socket handlers (unix_server.cpp) that call them.  Each SparseCache     *)
(* method holds its mutex throughout and is one action; a handler that     *)
(* calls several is several actions, and requests interleave between them. *)
(*                                                                         *)
(* A byte of an entry is the client that wrote it, or Unwritten (the zero  *)
(* of the constructor, with written[i] false).  An entry carries the       *)
(* number of the create() that made it, which the code does not have.      *)
(* offset + len is below 2^64.                                             *)
(***************************************************************************)
EXTENDS Integers, SequencesExt

CONSTANTS
    HttpClients, UnixClients,
    Keys,
    Sizes,      \* total sizes asked for, 0 included
    Offsets, Lengths, \* where and how much a write covers
    MaxCreates, \* bound on successful create() calls
    None        \* no entry, or no value under a key

Clients == HttpClients \cup UnixClients

Unwritten == 0

ASSUME SparseAssumption ==
    /\ HttpClients \cap UnixClients = {}
    /\ Sizes \subseteq Nat /\ Offsets \subseteq Nat /\ Lengths \subseteq Nat
    /\ MaxCreates \in Nat

VARIABLES
    entries,    \* entries_ of global_sparse_cache()
    cache,      \* the coordinator's cache, which HTTP stores to and reads
    sync_cache, \* g_sync_cache, which the Unix socket stores to and reads
    req,        \* each client's request in progress, or its answer
    creates,    \* history: the number of entries created
    taken       \* history: the entries that finalize has taken out

vars == <<entries, cache, sync_cache, req, creates, taken>>
stored == <<cache, sync_cache>>
history == <<creates, taken>>

Init ==
    /\ entries = [k \in Keys |-> None]
    /\ cache = [k \in Keys |-> None]
    /\ sync_cache = [k \in Keys |-> None]
    /\ req = [c \in Clients |-> [pc |-> "idle"]]
    /\ creates = 0
    /\ taken = <<>>

Exists(k) == entries[k] # None

\* the bytes of an entry that have been written
Written(entry) == {i \in DOMAIN entry.data : entry.data[i] # Unwritten}

is_complete(entry) == Written(entry) = DOMAIN entry.data

AtRest(c) == req[c].pc \in {"idle", "done"}

Answer(status) == [pc |-> "done", answer |-> status]

Reply(c, status) == req' = [req EXCEPT ![c] = Answer(status)]

-----------------------------------------------------------------------------
(* create *)

\* (mutant) the entry has room for one byte more
NewEntry_padded(n) == [id |-> creates + 1, total_size |-> n + 1,
                       data |-> [i \in 1..(n + 1) |-> Unwritten]]

NewEntry(n) == [id |-> creates + 1, total_size |-> n,
                data |-> [i \in 1..n |-> Unwritten]]

\* (mutant) a second create replaces the entry
create_replaces(c, k, n) ==
    /\ AtRest(c)
    /\ creates < MaxCreates
    /\ entries' = [entries EXCEPT ![k] = NewEntry(n)]
    /\ creates' = creates + 1
    /\ Reply(c, "Created")
    /\ UNCHANGED <<stored, taken>>

create(c, k, n) ==
    /\ AtRest(c)
    /\ IF Exists(k)
       THEN Reply(c, "AlreadyExists") /\ UNCHANGED <<entries, creates>>
       ELSE /\ creates < MaxCreates
            /\ entries' = [entries EXCEPT ![k] = NewEntry(n)]
            /\ creates' = creates + 1
            /\ Reply(c, "Created")
    /\ UNCHANGED <<stored, taken>>

handle_sparse_create(c, k, n) ==
    \/ n = 0 /\ AtRest(c) /\ Reply(c, "BadRequest")
             /\ UNCHANGED <<entries, stored, history>>
    \/ n # 0 /\ create(c, k, n)

-----------------------------------------------------------------------------
(* write_range *)

Fits(entry, off, len) == off + len <= entry.total_size

\* SparseCache::write_range, and the handler's branch on what it returned
write_range(c, k, off, len) ==
    LET ok == Exists(k) /\ Fits(entries[k], off, len)
    IN  /\ AtRest(c)
        /\ entries' = IF ok
              THEN [entries EXCEPT ![k].data = [i \in DOMAIN @ |->
                       IF i \in (off + 1)..(off + len) THEN c ELSE @[i]]]
              ELSE entries
        /\ req' = [req EXCEPT ![c] =
              IF ~ok
              THEN [pc |-> "why_failed", key |-> k, off |-> off, len |-> len]
              ELSE IF c \in HttpClients
              THEN [pc |-> "completion", key |-> k]
              ELSE Answer("Accepted")]
        /\ UNCHANGED <<stored, history>>

\* HTTP rejects an empty body before the call
handle_sparse_write(c, k, off, len) ==
    \/ len = 0 /\ AtRest(c) /\ Reply(c, "BadRequest")
               /\ UNCHANGED <<entries, stored, history>>
    \/ len # 0 /\ write_range(c, k, off, len)

\* exists(key) tells `not found' from `invalid range'
why_failed(c) ==
    /\ req[c].pc = "why_failed"
    /\ req' = [req EXCEPT ![c] =
          IF Exists(@.key)
          THEN Answer("InvalidRange")
          ELSE Answer("NotFound")]
    /\ UNCHANGED <<entries, stored, history>>

\* get_completion(key) for the X-ElCache-Completion header of the 202
completion(c) ==
    /\ req[c].pc = "completion"
    /\ Reply(c, "Accepted")
    /\ UNCHANGED <<entries, stored, history>>

-----------------------------------------------------------------------------
(* finalize *)

\* (mutant) completeness is not tested
finalize_any(c, k) ==
    /\ AtRest(c)
    /\ IF ~Exists(k)
       THEN Reply(c, "NotFound") /\ UNCHANGED <<entries, taken>>
       ELSE /\ entries' = [entries EXCEPT ![k] = None]
            /\ taken' = Append(taken, entries[k])
            /\ req' = [req EXCEPT ![c] =
                  [pc |-> "store", key |-> k, entry |-> entries[k]]]
    /\ UNCHANGED <<stored, creates>>

\* (mutant) the entry stays until the value is stored
finalize_keeps_entry(c, k) ==
    /\ AtRest(c)
    /\ IF ~Exists(k)
       THEN Reply(c, "NotFound") /\ UNCHANGED <<entries, taken>>
       ELSE IF ~is_complete(entries[k])
       THEN Reply(c, "Incomplete") /\ UNCHANGED <<entries, taken>>
       ELSE /\ UNCHANGED entries
            /\ taken' = Append(taken, entries[k])
            /\ req' = [req EXCEPT ![c] =
                  [pc |-> "store", key |-> k, entry |-> entries[k]]]
            /\ Len(taken) < 2 * MaxCreates
    /\ UNCHANGED <<stored, creates>>

\* SparseCache::finalize, and the handler's branch on what it returned
finalize(c, k) ==
    /\ AtRest(c)
    /\ IF ~Exists(k)
       THEN Reply(c, "NotFound") /\ UNCHANGED <<entries, taken>>
       ELSE IF ~is_complete(entries[k])
       THEN Reply(c, "Incomplete") /\ UNCHANGED <<entries, taken>>
       ELSE /\ entries' = [entries EXCEPT ![k] = None]
            /\ taken' = Append(taken, entries[k])
            /\ req' = [req EXCEPT ![c] =
                  [pc |-> "store", key |-> k, entry |-> entries[k]]]
    /\ UNCHANGED <<stored, creates>>

\* handle_sparse_finalize stores the value in the main cache ...
handle_sparse_finalize(c) ==
    /\ c \in HttpClients /\ req[c].pc = "store"
    /\ cache' = [cache EXCEPT ![req[c].key] = req[c].entry]
    /\ Reply(c, "Stored")
    /\ UNCHANGED <<entries, sync_cache, history>>

\* ... unless put returns an error (KeyTooLarge, a disk error)
handle_sparse_finalize_fails(c) ==
    /\ c \in HttpClients /\ req[c].pc = "store"
    /\ Reply(c, "InternalError")
    /\ UNCHANGED <<entries, stored, history>>

\* the Unix socket handler stores it in g_sync_cache
handle_finalize(c) ==
    /\ c \in UnixClients /\ req[c].pc = "store"
    /\ sync_cache' = [sync_cache EXCEPT ![req[c].key] = req[c].entry]
    /\ Reply(c, "Stored")
    /\ UNCHANGED <<entries, cache, history>>

-----------------------------------------------------------------------------
(* status and abort, over HTTP only *)

handle_sparse_status(c, k) ==
    /\ AtRest(c)
    /\ req' = [req EXCEPT ![c] =
          IF Exists(k) THEN [pc |-> "total_size", key |-> k]
          ELSE Answer("NotFound")]
    /\ UNCHANGED <<entries, stored, history>>

get_total_size(c) ==
    /\ req[c].pc = "total_size"
    /\ req' = [req EXCEPT ![c] =
          [pc |-> "get_completion", key |-> @.key,
           total |-> IF Exists(@.key) THEN entries[@.key].total_size ELSE 0,
           of |-> IF Exists(@.key) THEN entries[@.key].id ELSE 0]]
    /\ UNCHANGED <<entries, stored, history>>

get_completion(c) ==
    /\ req[c].pc = "get_completion"
    /\ req' = [req EXCEPT ![c] =
          [pc |-> "done", answer |-> "Status", total |-> @.total, of |-> @.of,
           complete |-> Exists(@.key) /\ is_complete(entries[@.key]),
           completion_of |-> IF Exists(@.key) THEN entries[@.key].id ELSE 0]]
    /\ UNCHANGED <<entries, stored, history>>

\* DELETE /sparse/{key}
abort(c, k) ==
    /\ AtRest(c)
    /\ entries' = [entries EXCEPT ![k] = None]
    /\ Reply(c, "NoContent")
    /\ UNCHANGED <<stored, history>>

-----------------------------------------------------------------------------
HttpRequest(c) ==
    \E k \in Keys :
        \/ \E n \in Sizes : handle_sparse_create(c, k, n)
        \/ \E off \in Offsets, len \in Lengths :
              handle_sparse_write(c, k, off, len)
        \/ finalize(c, k)
        \/ handle_sparse_status(c, k)
        \/ abort(c, k)

UnixRequest(c) ==
    \E k \in Keys :
        \/ \E n \in Sizes : create(c, k, n)
        \/ \E off \in Offsets, len \in Lengths : write_range(c, k, off, len)
        \/ finalize(c, k)

Continue(c) ==
    \/ why_failed(c)
    \/ completion(c)
    \/ handle_sparse_finalize(c)
    \/ handle_sparse_finalize_fails(c)
    \/ handle_finalize(c)
    \/ get_total_size(c)
    \/ get_completion(c)

Next ==
    \/ \E c \in HttpClients : HttpRequest(c)
    \/ \E c \in UnixClients : UnixRequest(c)
    \/ \E c \in Clients : Continue(c)

Spec == Init /\ [][Next]_vars

-----------------------------------------------------------------------------
Entry == [id : 1..MaxCreates, total_size : Sizes,
          data : UNION {[1..n -> Clients \cup {Unwritten}] : n \in Sizes}]

\* Entries, in the sparse cache and in the two caches they are finalized
\* into, have the size some create asked for.
TypeOK ==
    /\ entries \in [Keys -> Entry \cup {None}]
    /\ cache \in [Keys -> Entry \cup {None}]
    /\ sync_cache \in [Keys -> Entry \cup {None}]
    /\ creates \in 0..MaxCreates
    /\ taken \in Seq(Entry)

\* finalize `validates all bytes have been written': no value that reaches
\* either cache has a byte that no accepted write covered, and it has the
\* size its create asked for.
FinalizedFullyWritten ==
    \A entry \in ToSet(taken) \cup
                 {cache[k] : k \in Keys} \cup {sync_cache[k] : k \in Keys} :
        entry # None =>
            /\ is_complete(entry)
            /\ DOMAIN entry.data = 1..entry.total_size

\* However the requests of several clients interleave, one finalize takes an
\* entry and the others are told it is not there.
TakenOnce ==
    \A i, j \in DOMAIN taken : taken[i].id = taken[j].id => i = j

\* While a key has an entry it is the same one, and it only gains bytes: a
\* create that is answered with a conflict, a rejected write or a finalize
\* of an incomplete entry disturbs no upload under way.
EntryOnlyGrows ==
    [][\A k \in Keys : Exists(k) /\ Exists(k)' =>
          /\ entries[k].id = entries'[k].id
          /\ Written(entries[k]) \subseteq Written(entries'[k])]_vars
=============================================================================
