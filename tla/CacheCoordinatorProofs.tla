----------------------- MODULE CacheCoordinatorProofs -----------------------
(***************************************************************************)
(* A read returns the latest value, for every number of readers, writers,  *)
(* keys and values and every set of options.                               *)
(***************************************************************************)
EXTENDS CacheCoordinator, TLAPS

\* A write under way on a key has made its latest value unknown.
WritesMark ==
    \A t \in Writers : ~AtRest(t) => latest[op[t].key] = Unknown

\* A write marked alone is the only one under way on its key.
AloneIsAlone ==
    \A t, u \in Writers :
        t # u /\ ~AtRest(t) /\ ~AtRest(u) /\ op[t].key = op[u].key
            => ~op[t].alone

\* What a write that is alone has done to memory, and then to disk.
MemoryWritten ==
    \A t \in Writers : ~AtRest(t) /\ op[t].alone =>
        /\ op[t].pc \in {"put_disk", "put_cluster"} /\ ~op[t].opts.no_memory
              /\ memory[op[t].key] # NoValue
              => memory[op[t].key].value = op[t].value
        /\ op[t].pc \in {"remove_disk", "remove_cluster"} =>
              memory[op[t].key] = NoValue

DiskWritten ==
    \A t \in Writers : ~AtRest(t) /\ op[t].alone =>
        /\ op[t].pc = "put_cluster" /\ ~op[t].opts.no_disk
              /\ disk[op[t].key] # NoValue
              => disk[op[t].key].value = op[t].value
        /\ op[t].pc = "remove_cluster" => disk[op[t].key] = NoValue

\* A read under way that no write overlapped expects the latest value.
ExpectsLatest ==
    \A t \in Readers : ~AtRest(t) /\ op[t].expect # Unknown
        => op[t].expect = latest[op[t].key]

\* Until a write comes, a read that found no metadata finds no value either,
\* and one that found some has those of the latest value.
MetaIsLatest ==
    \A t \in Readers : ~AtRest(t) /\ op[t].expect # Unknown =>
        /\ op[t].pc = "meta_disk" => memory[op[t].key] = NoValue
        /\ op[t].op = "range"
              /\ op[t].pc \in {"get_memory", "get_disk", "get_cluster"} =>
              \/ op[t].meta = op[t].expect
              \/ memory[op[t].key] = NoValue /\ disk[op[t].key] = NoValue

IInv ==
    /\ TypeOK
    /\ HitIsLatest
    /\ RangeIsOfValue
    /\ LevelsAgree
    /\ WritesMark
    /\ AloneIsAlone
    /\ MemoryWritten
    /\ DiskWritten
    /\ ExpectsLatest
    /\ MetaIsLatest

\* Initially nothing is stored and nothing is under way.
LEMMA InitIInv == Init => IInv
  BY CoordinatorAssumption DEF Init, IInv, TypeOK, HitIsLatest,
     RangeIsOfValue, LevelsAgree, WritesMark, AloneIsAlone, MemoryWritten,
     DiskWritten, ExpectsLatest, MetaIsLatest, AtRest, Idle, Returned,
     Threads, ReaderOp, WriterOp

-----------------------------------------------------------------------------
(* The type invariant is inductive by itself. *)

\* A write of k that begins leaves the other coroutines at the step they are at.
LEMMA DisturbType ==
    ASSUME TypeOK, NEW k \in Keys, NEW t \in Threads
    PROVE  /\ t \in Readers => Disturb(k)[t] \in ReaderOp
           /\ t \in Writers => Disturb(k)[t] \in WriterOp
<1>1. ASSUME t \in Readers
      PROVE  Disturb(k)[t] \in ReaderOp
  <2>1. op[t] \in ReaderOp
    BY <1>1 DEF TypeOK
  <2> QED
    BY <1>1, <2>1 DEF Disturb, ReaderOp, AtRest, Idle
<1>2. ASSUME t \in Writers
      PROVE  Disturb(k)[t] \in WriterOp
  <2>1. op[t] \in WriterOp /\ t \notin Readers
    BY <1>2, CoordinatorAssumption DEF TypeOK
  <2> QED
    BY <1>2, <2>1 DEF Disturb, WriterOp, AtRest, Idle
<1> QED
  BY <1>1, <1>2

\* The step of one reader keeps the types of all coroutines.
LEMMA ReaderStepType ==
    ASSUME TypeOK, NEW t \in Readers, NEW o \in ReaderOp,
           op' = [op EXCEPT ![t] = o], UNCHANGED <<memory, disk, latest>>
    PROVE  TypeOK'
  BY CoordinatorAssumption DEF TypeOK, Threads

\* A read that begins is at its first step.
LEMMA StartReadType ==
    ASSUME TypeOK, NEW t \in Readers, NEW k \in Keys, NEW p \in BOOLEAN,
           NEW pc \in {"meta_memory", "get_memory", "get_disk"},
           NEW name \in Reads, StartRead(t, pc, name, k, p)
    PROVE  TypeOK'
<1>1. [pc |-> pc, op |-> name, key |-> k, partial |-> p,
       expect |-> latest[k], meta |-> NoValue] \in ReaderOp
  BY DEF TypeOK, ReaderOp
<1> QED
  BY <1>1, ReaderStepType DEF StartRead

\* The step of one writer keeps the types of all coroutines.
LEMMA WriterStepType ==
    ASSUME TypeOK, NEW t \in Writers, NEW o \in WriterOp,
           op' = [op EXCEPT ![t] = o]
    PROVE  /\ op' \in [Threads -> ReaderOp \cup WriterOp]
           /\ \A u \in Readers : op'[u] \in ReaderOp
           /\ \A u \in Writers : op'[u] \in WriterOp
  BY CoordinatorAssumption DEF TypeOK, Threads

\* A writer that goes on to its next step keeps the types.
LEMMA StepType ==
    ASSUME TypeOK, NEW t \in Writers, NEW pc, Step(t, pc),
           \/ /\ op[t].pc \in {"put_memory", "put_disk"}
              /\ pc \in {"put_disk", "put_cluster"}
           \/ /\ op[t].pc \in {"remove_memory", "remove_disk"}
              /\ pc \in {"remove_disk", "remove_cluster"}
    PROVE  /\ op' \in [Threads -> ReaderOp \cup WriterOp]
           /\ \A u \in Readers : op'[u] \in ReaderOp
           /\ \A u \in Writers : op'[u] \in WriterOp
<1>1. op[t] \in WriterOp
  BY DEF TypeOK
<1>2. [op[t] EXCEPT !.pc = pc] \in WriterOp
  BY <1>1 DEF WriterOp, Idle
<1>3. op' = [op EXCEPT ![t] = [op[t] EXCEPT !.pc = pc]]
  BY DEF Step, TypeOK, Threads
<1> QED
  BY <1>2, <1>3, WriterStepType

\* So does the start of a write.
LEMMA BeginType ==
    ASSUME TypeOK, NEW t \in Writers, NEW k \in Keys, NEW o \in WriterOp,
           Begin(t, k, o)
    PROVE  /\ op' \in [Threads -> ReaderOp \cup WriterOp]
           /\ \A u \in Readers : op'[u] \in ReaderOp
           /\ \A u \in Writers : op'[u] \in WriterOp
           /\ latest' \in [Keys -> Values \cup {NoValue, Unknown}]
<1>1. op' = [Disturb(k) EXCEPT ![t] = o]
  BY DEF Begin
<1>2. Disturb(k) = [u \in Threads |-> Disturb(k)[u]]
  BY DEF Disturb
<1>3. \A u \in Threads : op'[u] = IF u = t THEN o ELSE Disturb(k)[u]
  BY <1>1, <1>2 DEF Threads
<1>4. \A u \in Readers : op'[u] \in ReaderOp
  BY <1>3, DisturbType, CoordinatorAssumption DEF Threads
<1>5. \A u \in Writers : op'[u] \in WriterOp
  BY <1>3, DisturbType DEF Threads
<1>6. op' \in [Threads -> ReaderOp \cup WriterOp]
  BY <1>1, <1>2, <1>4, <1>5 DEF Threads
<1>7. latest' \in [Keys -> Values \cup {NoValue, Unknown}]
  BY DEF Begin, TypeOK
<1> QED
  BY <1>4, <1>5, <1>6, <1>7

\* So does the end of one.
LEMMA EndType ==
    ASSUME TypeOK, NEW t \in Writers,
           NEW result \in {"Ok", "TooLarge", "DiskError", "InternalError"},
           NEW v \in Values \cup {NoValue, Unknown},
           op[t].pc \notin {"idle", "done"}, End(t, result, v)
    PROVE  /\ op' \in [Threads -> ReaderOp \cup WriterOp]
           /\ \A u \in Readers : op'[u] \in ReaderOp
           /\ \A u \in Writers : op'[u] \in WriterOp
           /\ latest' \in [Keys -> Values \cup {NoValue, Unknown}]
<1>1. op[t] \in WriterOp
  BY DEF TypeOK
<1>2. op[t].op \in {"put", "remove"} /\ op[t].key \in Keys
  BY <1>1 DEF WriterOp, Idle
<1>3. [pc |-> "done", op |-> op[t].op, result |-> result] \in WriterOp
  BY <1>2 DEF WriterOp
<1>4. latest' \in [Keys -> Values \cup {NoValue, Unknown}]
  BY <1>2 DEF End, TypeOK
<1> QED
  BY <1>3, <1>4, WriterStepType DEF End

\* Every step keeps the types.
LEMMA NextType ==
    ASSUME TypeOK, Next
    PROVE  TypeOK'
<1>1. ASSUME NEW t \in Readers, NEW k \in Keys, NEW p \in BOOLEAN,
             get(t, k, p) \/ handle_head(t, k) \/ handle_get(t, k)
      PROVE  TypeOK'
  BY <1>1, StartReadType DEF get, handle_head, handle_get, FirstLevel, Reads
<1>2. ASSUME NEW t \in Readers, get_memory(t) \/ get_disk(t)
      PROVE  TypeOK'
  <2>1. op[t] \in ReaderOp
    BY DEF TypeOK
  <2>2. PICK o : o \in ReaderOp /\ op' = [op EXCEPT ![t] = o]
    BY <1>2, <2>1 DEF TypeOK, get_memory, get_disk, Answer, Lookup, Held,
       ReaderOp, Idle
  <2> QED
    BY <1>2, <2>2, ReaderStepType DEF get_memory, get_disk
<1>3. ASSUME NEW t \in Readers, fetch_from_cluster(t)
      PROVE  TypeOK'
  <2>1. op[t] \in ReaderOp
    BY DEF TypeOK
  <2>2. Missed(op[t]) \in ReaderOp
    BY <1>3, <2>1 DEF fetch_from_cluster, Missed, Answer, ReaderOp, Idle
  <2> QED
    BY <1>3, <2>2, ReaderStepType DEF fetch_from_cluster
<1>4. ASSUME NEW t \in Readers, metadata_memory(t) \/ metadata_disk(t)
      PROVE  TypeOK'
  <2>1. op[t] \in ReaderOp
    BY DEF TypeOK
  <2>2. ASSUME NEW v \in Values \cup {NoValue}
        PROVE  AfterMetadata(op[t], v) \in ReaderOp
    <3>1. op[t] \in [pc : {"meta_memory", "meta_disk"}, op : Reads,
                     key : Keys, partial : BOOLEAN,
                     expect : Values \cup {NoValue, Unknown},
                     meta : Values \cup {NoValue}]
      BY <1>4, <2>1 DEF metadata_memory, metadata_disk, ReaderOp, Idle
    <3>2. \A r \in {"Hit", "Miss"} : Answer(op[t], r, v) \in ReaderOp
      BY <3>1 DEF Answer, ReaderOp
    <3>3. [op[t] EXCEPT !.pc = FirstLevel, !.meta = v] \in ReaderOp
      BY <3>1 DEF FirstLevel, ReaderOp
    <3> QED
      BY <3>2, <3>3 DEF AfterMetadata
  <2>3. op[t].key \in Keys /\ [op[t] EXCEPT !.pc = "meta_disk"] \in ReaderOp
    BY <1>4, <2>1 DEF metadata_memory, metadata_disk, ReaderOp, Idle
  <2>4. PICK o : o \in ReaderOp /\ op' = [op EXCEPT ![t] = o]
    BY <1>4, <2>2, <2>3 DEF TypeOK, metadata_memory, metadata_disk, Held
  <2> QED
    BY <1>4, <2>4, ReaderStepType DEF metadata_memory, metadata_disk
<1>5. ASSUME NEW t \in Writers, NEW k \in Keys, NEW v \in Values,
             NEW o \in Options, put(t, k, v, o)
      PROVE  TypeOK'
  <2>1. [pc |-> "put_memory", op |-> "put", key |-> k, value |-> v,
         opts |-> o, alone |-> Alone(t, k)] \in WriterOp
    BY <1>5 DEF WriterOp, Alone
  <2> QED
    BY <1>5, <2>1, BeginType DEF put, TypeOK
<1>6. ASSUME NEW t \in Writers, put_memory(t) \/ put_disk(t)
      PROVE  TypeOK'
  <2>1. op[t] \in WriterOp
    BY DEF TypeOK
  <2>2. NewValue(op[t]) \in Held
    BY <1>6, <2>1 DEF put_memory, put_disk, NewValue, Held, WriterOp, Idle
  <2>3. /\ memory' \in [Keys -> Held \cup {NoValue}]
        /\ disk' \in [Keys -> Held \cup {NoValue}]
    BY <1>6, <2>2 DEF put_memory, put_disk, TypeOK
  <2> QED
    BY <1>6, <2>3, StepType DEF put_memory, put_disk, TypeOK
<1>7. ASSUME NEW t \in Writers, put_memory_fails(t) \/ put_disk_fails(t)
      PROVE  TypeOK'
  BY <1>7, EndType DEF put_memory_fails, put_disk_fails, TypeOK
<1>8. ASSUME NEW t \in Writers, put_cluster(t)
      PROVE  TypeOK'
  <2>1. op[t] \in WriterOp /\ op[t].pc = "put_cluster"
    BY <1>8 DEF put_cluster, TypeOK
  <2>2. op[t].value \in Values
    BY <2>1 DEF WriterOp, Idle
  <2>3. \/ End(t, "InternalError", Unknown)
        \/ End(t, "Ok", Unknown)
        \/ End(t, "Ok", op[t].value)
    BY <1>8 DEF put_cluster
  <2> QED
    BY <1>8, <2>1, <2>2, <2>3, EndType DEF put_cluster, TypeOK
<1>9. ASSUME NEW t \in Writers, NEW k \in Keys, remove(t, k)
      PROVE  TypeOK'
  <2>1. [pc |-> "remove_memory", op |-> "remove", key |-> k,
         alone |-> Alone(t, k)] \in WriterOp
    BY <1>9 DEF WriterOp, Alone
  <2> QED
    BY <1>9, <2>1, BeginType DEF remove, TypeOK
<1>10. ASSUME NEW t \in Writers, remove_memory(t) \/ remove_disk(t)
       PROVE  TypeOK'
  <2>1. /\ memory' \in [Keys -> Held \cup {NoValue}]
        /\ disk' \in [Keys -> Held \cup {NoValue}]
    BY <1>10 DEF remove_memory, remove_disk, TypeOK
  <2> QED
    BY <1>10, <2>1, StepType DEF remove_memory, remove_disk, TypeOK
<1>11. ASSUME NEW t \in Writers, remove_cluster(t)
       PROVE  TypeOK'
  BY <1>11, EndType DEF remove_cluster, TypeOK
<1>12. ASSUME NEW k \in Keys, MemoryChunks(k)
       PROVE  TypeOK'
  <2>1. memory[k] \in Held
    BY <1>12 DEF MemoryChunks, TypeOK
  <2>2. [memory[k] EXCEPT !.whole = ~memory[k].whole] \in Held
    BY <2>1 DEF Held
  <2>3. memory' = [memory EXCEPT ![k] =
                      [memory[k] EXCEPT !.whole = ~memory[k].whole]]
    BY <1>12 DEF MemoryChunks, TypeOK
  <2> QED
    BY <1>12, <2>2, <2>3 DEF MemoryChunks, TypeOK
<1>13. ASSUME NEW k \in Keys, DiskChunks(k)
       PROVE  TypeOK'
  <2>1. disk[k] \in Held
    BY <1>13 DEF DiskChunks, TypeOK
  <2>2. [disk[k] EXCEPT !.whole = ~disk[k].whole] \in Held
    BY <2>1 DEF Held
  <2>3. disk' = [disk EXCEPT ![k] = [disk[k] EXCEPT !.whole = ~disk[k].whole]]
    BY <1>13 DEF DiskChunks, TypeOK
  <2> QED
    BY <1>13, <2>2, <2>3 DEF DiskChunks, TypeOK
<1>14. ASSUME NEW k \in Keys, ExpireMemory(k)
       PROVE  TypeOK'
  BY <1>14, CoordinatorAssumption DEF ExpireMemory, TypeOK, Held
<1>15. ASSUME NEW k \in Keys, ExpireDisk(k)
       PROVE  TypeOK'
  BY <1>15, CoordinatorAssumption DEF ExpireDisk, TypeOK, Held
<1> QED
  BY <1>1, <1>2, <1>3, <1>4, <1>5, <1>6, <1>7, <1>8, <1>9, <1>10, <1>11,
     <1>12, <1>13, <1>14, <1>15 DEF Next, Read, Put, RemoveKey, Environment

-----------------------------------------------------------------------------
(* The other conjuncts, one step per action. *)

\* Every step keeps the inductive invariant.
LEMMA NextIInv ==
    ASSUME IInv, Next
    PROVE  IInv'
<1> USE CoordinatorAssumption DEF Threads, AtRest, Idle
<1>0. TypeOK'
  BY NextType DEF IInv
<1>1. ASSUME NEW t \in Readers, NEW k \in Keys, NEW p \in BOOLEAN,
             get(t, k, p)
      PROVE  IInv'
  <2>0. /\ \A u \in Writers : op[u]' = op[u]
        /\ UNCHANGED <<memory, disk, latest>>
    BY <1>1 DEF IInv, TypeOK, get, StartRead, FirstLevel
  <2>1. HitIsLatest'
    BY <1>1 DEF IInv, TypeOK, HitIsLatest, LevelsAgree, ExpectsLatest, get,
       StartRead, FirstLevel, Held, ReaderOp, Returned
  <2>2. RangeIsOfValue'
    BY <1>1 DEF IInv, TypeOK, RangeIsOfValue, LevelsAgree, ExpectsLatest,
       MetaIsLatest, get, StartRead, FirstLevel, Held, ReaderOp, Returned
  <2>3. /\ LevelsAgree' /\ WritesMark' /\ AloneIsAlone'
        /\ MemoryWritten' /\ DiskWritten'
    BY <2>0 DEF IInv, LevelsAgree, WritesMark, AloneIsAlone, MemoryWritten,
       DiskWritten
  <2>4. ExpectsLatest'
    BY <1>1 DEF IInv, TypeOK, ExpectsLatest, get, StartRead, FirstLevel,
       ReaderOp
  <2>5. MetaIsLatest'
    BY <1>1 DEF IInv, TypeOK, MetaIsLatest, LevelsAgree, ExpectsLatest, get,
       StartRead, FirstLevel, Held, ReaderOp
  <2> QED
    BY <1>0, <2>1, <2>2, <2>3, <2>4, <2>5 DEF IInv
<1>2. ASSUME NEW t \in Readers, NEW k \in Keys,
             handle_head(t, k) \/ handle_get(t, k)
      PROVE  IInv'
  <2>0. /\ \A u \in Writers : op[u]' = op[u]
        /\ UNCHANGED <<memory, disk, latest>>
    BY <1>2 DEF IInv, TypeOK, handle_head, handle_get, StartRead
  <2>1. HitIsLatest'
    BY <1>2 DEF IInv, TypeOK, HitIsLatest, LevelsAgree, ExpectsLatest,
       handle_head, handle_get, StartRead, Held, ReaderOp, Returned
  <2>2. RangeIsOfValue'
    BY <1>2 DEF IInv, TypeOK, RangeIsOfValue, LevelsAgree, ExpectsLatest,
       MetaIsLatest, handle_head, handle_get, StartRead, Held, ReaderOp,
       Returned
  <2>3. /\ LevelsAgree' /\ WritesMark' /\ AloneIsAlone'
        /\ MemoryWritten' /\ DiskWritten'
    BY <2>0 DEF IInv, LevelsAgree, WritesMark, AloneIsAlone, MemoryWritten,
       DiskWritten
  <2>4. ExpectsLatest'
    BY <1>2 DEF IInv, TypeOK, ExpectsLatest, handle_head, handle_get,
       StartRead, ReaderOp
  <2>5. MetaIsLatest'
    BY <1>2 DEF IInv, TypeOK, MetaIsLatest, LevelsAgree, ExpectsLatest,
       handle_head, handle_get, StartRead, Held, ReaderOp
  <2> QED
    BY <1>0, <2>1, <2>2, <2>3, <2>4, <2>5 DEF IInv
<1>3. ASSUME NEW t \in Readers, get_memory(t)
      PROVE  IInv'
  <2>0. /\ \A u \in Writers : op[u]' = op[u]
        /\ UNCHANGED <<memory, disk, latest>>
    BY <1>3 DEF IInv, TypeOK, get_memory, Answer, Lookup
  <2>1. HitIsLatest'
    BY <1>3 DEF IInv, TypeOK, HitIsLatest, LevelsAgree, ExpectsLatest,
       get_memory, Answer, Lookup, Held, ReaderOp, Returned
  <2>2. RangeIsOfValue'
    BY <1>3 DEF IInv, TypeOK, RangeIsOfValue, LevelsAgree, ExpectsLatest,
       MetaIsLatest, get_memory, Answer, Lookup, Held, ReaderOp, Returned
  <2>3. /\ LevelsAgree' /\ WritesMark' /\ AloneIsAlone'
        /\ MemoryWritten' /\ DiskWritten'
    BY <2>0 DEF IInv, LevelsAgree, WritesMark, AloneIsAlone, MemoryWritten,
       DiskWritten
  <2>4. ExpectsLatest'
    BY <1>3 DEF IInv, TypeOK, ExpectsLatest, get_memory, Answer, Lookup,
       ReaderOp
  <2>5. MetaIsLatest'
    BY <1>3 DEF IInv, TypeOK, MetaIsLatest, LevelsAgree, ExpectsLatest,
       get_memory, Answer, Lookup, Held, ReaderOp
  <2> QED
    BY <1>0, <2>1, <2>2, <2>3, <2>4, <2>5 DEF IInv
<1>4. ASSUME NEW t \in Readers, get_disk(t)
      PROVE  IInv'
  <2>0. /\ \A u \in Writers : op[u]' = op[u]
        /\ UNCHANGED <<memory, disk, latest>>
    BY <1>4 DEF IInv, TypeOK, get_disk, Answer, Lookup
  <2>1. HitIsLatest'
    BY <1>4 DEF IInv, TypeOK, HitIsLatest, LevelsAgree, ExpectsLatest,
       get_disk, Answer, Lookup, Held, ReaderOp, Returned
  <2>2. RangeIsOfValue'
    BY <1>4 DEF IInv, TypeOK, RangeIsOfValue, LevelsAgree, ExpectsLatest,
       MetaIsLatest, get_disk, Answer, Lookup, Held, ReaderOp, Returned
  <2>3. /\ LevelsAgree' /\ WritesMark' /\ AloneIsAlone'
        /\ MemoryWritten' /\ DiskWritten'
    BY <2>0 DEF IInv, LevelsAgree, WritesMark, AloneIsAlone, MemoryWritten,
       DiskWritten
  <2>4. ExpectsLatest'
    BY <1>4 DEF IInv, TypeOK, ExpectsLatest, get_disk, Answer, Lookup,
       ReaderOp
  <2>5. MetaIsLatest'
    BY <1>4 DEF IInv, TypeOK, MetaIsLatest, LevelsAgree, ExpectsLatest,
       get_disk, Answer, Lookup, Held, ReaderOp
  <2> QED
    BY <1>0, <2>1, <2>2, <2>3, <2>4, <2>5 DEF IInv
<1>5. ASSUME NEW t \in Readers, fetch_from_cluster(t)
      PROVE  IInv'
  <2>0. /\ \A u \in Writers : op[u]' = op[u]
        /\ UNCHANGED <<memory, disk, latest>>
    BY <1>5 DEF IInv, TypeOK, fetch_from_cluster, Missed, Answer
  <2>1. HitIsLatest'
    BY <1>5 DEF IInv, TypeOK, HitIsLatest, LevelsAgree, ExpectsLatest,
       fetch_from_cluster, Missed, Answer, Held, ReaderOp, Returned
  <2>2. RangeIsOfValue'
    BY <1>5 DEF IInv, TypeOK, RangeIsOfValue, LevelsAgree, ExpectsLatest,
       MetaIsLatest, fetch_from_cluster, Missed, Answer, Held, ReaderOp,
       Returned
  <2>3. /\ LevelsAgree' /\ WritesMark' /\ AloneIsAlone'
        /\ MemoryWritten' /\ DiskWritten'
    BY <2>0 DEF IInv, LevelsAgree, WritesMark, AloneIsAlone, MemoryWritten,
       DiskWritten
  <2>4. ExpectsLatest'
    BY <1>5 DEF IInv, TypeOK, ExpectsLatest, fetch_from_cluster, Missed,
       Answer, ReaderOp
  <2>5. MetaIsLatest'
    BY <1>5 DEF IInv, TypeOK, MetaIsLatest, LevelsAgree, ExpectsLatest,
       fetch_from_cluster, Missed, Answer, Held, ReaderOp
  <2> QED
    BY <1>0, <2>1, <2>2, <2>3, <2>4, <2>5 DEF IInv
<1>6. ASSUME NEW t \in Readers, metadata_memory(t)
      PROVE  IInv'
  <2>0. /\ \A u \in Writers : op[u]' = op[u]
        /\ UNCHANGED <<memory, disk, latest>>
    BY <1>6 DEF IInv, TypeOK, metadata_memory, AfterMetadata, Answer,
       FirstLevel
  <2>1. HitIsLatest'
    BY <1>6 DEF IInv, TypeOK, HitIsLatest, LevelsAgree, ExpectsLatest,
       metadata_memory, AfterMetadata, Answer, FirstLevel, Held, ReaderOp,
       Returned
  <2>2. RangeIsOfValue'
    BY <1>6 DEF IInv, TypeOK, RangeIsOfValue, LevelsAgree, ExpectsLatest,
       MetaIsLatest, metadata_memory, AfterMetadata, Answer, FirstLevel, Held,
       ReaderOp, Returned
  <2>3. /\ LevelsAgree' /\ WritesMark' /\ AloneIsAlone'
        /\ MemoryWritten' /\ DiskWritten'
    BY <2>0 DEF IInv, LevelsAgree, WritesMark, AloneIsAlone, MemoryWritten,
       DiskWritten
  <2>4. ExpectsLatest'
    BY <1>6 DEF IInv, TypeOK, ExpectsLatest, metadata_memory, AfterMetadata,
       Answer, FirstLevel, ReaderOp
  <2>5. MetaIsLatest'
    BY <1>6 DEF IInv, TypeOK, MetaIsLatest, LevelsAgree, ExpectsLatest,
       metadata_memory, AfterMetadata, Answer, FirstLevel, Held, ReaderOp
  <2> QED
    BY <1>0, <2>1, <2>2, <2>3, <2>4, <2>5 DEF IInv
<1>7. ASSUME NEW t \in Readers, metadata_disk(t)
      PROVE  IInv'
  <2>0. /\ \A u \in Writers : op[u]' = op[u]
        /\ UNCHANGED <<memory, disk, latest>>
    BY <1>7 DEF IInv, TypeOK, metadata_disk, AfterMetadata, Answer, FirstLevel
  <2>1. HitIsLatest'
    BY <1>7 DEF IInv, TypeOK, HitIsLatest, LevelsAgree, ExpectsLatest,
       MetaIsLatest, metadata_disk, AfterMetadata, Answer, FirstLevel, Held,
       ReaderOp, Returned
  <2>2. RangeIsOfValue'
    BY <1>7 DEF IInv, TypeOK, RangeIsOfValue, LevelsAgree, ExpectsLatest,
       MetaIsLatest, metadata_disk, AfterMetadata, Answer, FirstLevel, Held,
       ReaderOp, Returned
  <2>3. /\ LevelsAgree' /\ WritesMark' /\ AloneIsAlone'
        /\ MemoryWritten' /\ DiskWritten'
    BY <2>0 DEF IInv, LevelsAgree, WritesMark, AloneIsAlone, MemoryWritten,
       DiskWritten
  <2>4. ExpectsLatest'
    BY <1>7 DEF IInv, TypeOK, ExpectsLatest, metadata_disk, AfterMetadata,
       Answer, FirstLevel, ReaderOp
  <2>5. MetaIsLatest'
    BY <1>7 DEF IInv, TypeOK, MetaIsLatest, LevelsAgree, ExpectsLatest,
       metadata_disk, AfterMetadata, Answer, FirstLevel, Held, ReaderOp
  <2> QED
    BY <1>0, <2>1, <2>2, <2>3, <2>4, <2>5 DEF IInv
<1>8. ASSUME NEW t \in Writers, NEW k \in Keys, NEW v \in Values, NEW o \in
             Options, put(t, k, v, o)
      PROVE  IInv'
  <2>1. HitIsLatest' /\ RangeIsOfValue'
    BY <1>8 DEF IInv, TypeOK, HitIsLatest, RangeIsOfValue, put, Begin,
       Disturb, Alone, Writing, ReaderOp, WriterOp, Returned
  <2>2. LevelsAgree'
    BY <1>8 DEF IInv, TypeOK, LevelsAgree, MemoryWritten, DiskWritten,
       WritesMark, put, Begin, Disturb, Alone, Writing, WriterOp
  <2>3. WritesMark'
    BY <1>8 DEF IInv, TypeOK, WritesMark, AloneIsAlone, put, Begin, Disturb,
       Alone, Writing, ReaderOp, WriterOp
  <2>4. AloneIsAlone'
    BY <1>8 DEF IInv, TypeOK, AloneIsAlone, put, Begin, Disturb, Alone,
       Writing, ReaderOp, WriterOp
  <2>5. MemoryWritten'
    BY <1>8 DEF IInv, TypeOK, MemoryWritten, AloneIsAlone, put, Begin,
       Disturb, Alone, Writing, ReaderOp, WriterOp
  <2>6. DiskWritten'
    BY <1>8 DEF IInv, TypeOK, DiskWritten, AloneIsAlone, put, Begin, Disturb,
       Alone, Writing, ReaderOp, WriterOp
  <2>7. ExpectsLatest'
    BY <1>8 DEF IInv, TypeOK, ExpectsLatest, WritesMark, put, Begin, Disturb,
       Alone, Writing, ReaderOp, WriterOp
  <2>8. MetaIsLatest'
    BY <1>8 DEF IInv, TypeOK, MetaIsLatest, ExpectsLatest, WritesMark, put,
       Begin, Disturb, Alone, Writing, ReaderOp, WriterOp
  <2> QED
    BY <1>0, <2>1, <2>2, <2>3, <2>4, <2>5, <2>6, <2>7, <2>8 DEF IInv
<1>9. ASSUME NEW t \in Writers, put_memory(t)
      PROVE  IInv'
  <2>1. HitIsLatest' /\ RangeIsOfValue'
    BY <1>9 DEF IInv, TypeOK, HitIsLatest, RangeIsOfValue, put_memory,
       NewValue, Step, ReaderOp, WriterOp, Returned
  <2>2. LevelsAgree'
    BY <1>9 DEF IInv, TypeOK, LevelsAgree, MemoryWritten, DiskWritten,
       WritesMark, put_memory, NewValue, Step, WriterOp
  <2>3. WritesMark'
    BY <1>9 DEF IInv, TypeOK, WritesMark, AloneIsAlone, put_memory, NewValue,
       Step, ReaderOp, WriterOp
  <2>4. AloneIsAlone'
    BY <1>9 DEF IInv, TypeOK, AloneIsAlone, put_memory, NewValue, Step,
       ReaderOp, WriterOp
  <2>5. MemoryWritten'
    BY <1>9 DEF IInv, TypeOK, MemoryWritten, AloneIsAlone, put_memory,
       NewValue, Step, ReaderOp, WriterOp
  <2>6. DiskWritten'
    BY <1>9 DEF IInv, TypeOK, DiskWritten, AloneIsAlone, put_memory, NewValue,
       Step, ReaderOp, WriterOp
  <2>7. ExpectsLatest'
    BY <1>9 DEF IInv, TypeOK, ExpectsLatest, WritesMark, put_memory, NewValue,
       Step, ReaderOp, WriterOp
  <2>8. MetaIsLatest'
    BY <1>9 DEF IInv, TypeOK, MetaIsLatest, ExpectsLatest, WritesMark,
       put_memory, NewValue, Step, ReaderOp, WriterOp
  <2> QED
    BY <1>0, <2>1, <2>2, <2>3, <2>4, <2>5, <2>6, <2>7, <2>8 DEF IInv
<1>10. ASSUME NEW t \in Writers, put_memory_fails(t)
       PROVE  IInv'
  <2>1. HitIsLatest' /\ RangeIsOfValue'
    BY <1>10 DEF IInv, TypeOK, HitIsLatest, RangeIsOfValue, put_memory_fails,
       End, ReaderOp, WriterOp, Returned
  <2>2. LevelsAgree'
    BY <1>10 DEF IInv, TypeOK, LevelsAgree, MemoryWritten, DiskWritten,
       WritesMark, put_memory_fails, End, WriterOp
  <2>3. WritesMark'
    BY <1>10 DEF IInv, TypeOK, WritesMark, AloneIsAlone, put_memory_fails,
       End, ReaderOp, WriterOp
  <2>4. AloneIsAlone'
    BY <1>10 DEF IInv, TypeOK, AloneIsAlone, put_memory_fails, End, ReaderOp,
       WriterOp
  <2>5. MemoryWritten'
    BY <1>10 DEF IInv, TypeOK, MemoryWritten, AloneIsAlone, put_memory_fails,
       End, ReaderOp, WriterOp
  <2>6. DiskWritten'
    BY <1>10 DEF IInv, TypeOK, DiskWritten, AloneIsAlone, put_memory_fails,
       End, ReaderOp, WriterOp
  <2>7. ExpectsLatest'
    BY <1>10 DEF IInv, TypeOK, ExpectsLatest, WritesMark, put_memory_fails,
       End, ReaderOp, WriterOp
  <2>8. MetaIsLatest'
    BY <1>10 DEF IInv, TypeOK, MetaIsLatest, ExpectsLatest, WritesMark,
       put_memory_fails, End, ReaderOp, WriterOp
  <2> QED
    BY <1>0, <2>1, <2>2, <2>3, <2>4, <2>5, <2>6, <2>7, <2>8 DEF IInv
<1>11. ASSUME NEW t \in Writers, put_disk(t)
       PROVE  IInv'
  <2>1. HitIsLatest' /\ RangeIsOfValue'
    BY <1>11 DEF IInv, TypeOK, HitIsLatest, RangeIsOfValue, put_disk,
       NewValue, Step, ReaderOp, WriterOp, Returned
  <2>2. LevelsAgree'
    BY <1>11 DEF IInv, TypeOK, LevelsAgree, MemoryWritten, DiskWritten,
       WritesMark, put_disk, NewValue, Step, WriterOp
  <2>3. WritesMark'
    BY <1>11 DEF IInv, TypeOK, WritesMark, AloneIsAlone, put_disk, NewValue,
       Step, ReaderOp, WriterOp
  <2>4. AloneIsAlone'
    BY <1>11 DEF IInv, TypeOK, AloneIsAlone, put_disk, NewValue, Step,
       ReaderOp, WriterOp
  <2>5. MemoryWritten'
    BY <1>11 DEF IInv, TypeOK, MemoryWritten, AloneIsAlone, put_disk,
       NewValue, Step, ReaderOp, WriterOp
  <2>6. DiskWritten'
    BY <1>11 DEF IInv, TypeOK, DiskWritten, AloneIsAlone, put_disk, NewValue,
       Step, ReaderOp, WriterOp
  <2>7. ExpectsLatest'
    BY <1>11 DEF IInv, TypeOK, ExpectsLatest, WritesMark, put_disk, NewValue,
       Step, ReaderOp, WriterOp
  <2>8. MetaIsLatest'
    BY <1>11 DEF IInv, TypeOK, MetaIsLatest, ExpectsLatest, WritesMark,
       put_disk, NewValue, Step, ReaderOp, WriterOp
  <2> QED
    BY <1>0, <2>1, <2>2, <2>3, <2>4, <2>5, <2>6, <2>7, <2>8 DEF IInv
<1>12. ASSUME NEW t \in Writers, put_disk_fails(t)
       PROVE  IInv'
  <2>1. HitIsLatest' /\ RangeIsOfValue'
    BY <1>12 DEF IInv, TypeOK, HitIsLatest, RangeIsOfValue, put_disk_fails,
       End, ReaderOp, WriterOp, Returned
  <2>2. LevelsAgree'
    BY <1>12 DEF IInv, TypeOK, LevelsAgree, MemoryWritten, DiskWritten,
       WritesMark, put_disk_fails, End, WriterOp
  <2>3. WritesMark'
    BY <1>12 DEF IInv, TypeOK, WritesMark, AloneIsAlone, put_disk_fails, End,
       ReaderOp, WriterOp
  <2>4. AloneIsAlone'
    BY <1>12 DEF IInv, TypeOK, AloneIsAlone, put_disk_fails, End, ReaderOp,
       WriterOp
  <2>5. MemoryWritten'
    BY <1>12 DEF IInv, TypeOK, MemoryWritten, AloneIsAlone, put_disk_fails,
       End, ReaderOp, WriterOp
  <2>6. DiskWritten'
    BY <1>12 DEF IInv, TypeOK, DiskWritten, AloneIsAlone, put_disk_fails, End,
       ReaderOp, WriterOp
  <2>7. ExpectsLatest'
    BY <1>12 DEF IInv, TypeOK, ExpectsLatest, WritesMark, put_disk_fails, End,
       ReaderOp, WriterOp
  <2>8. MetaIsLatest'
    BY <1>12 DEF IInv, TypeOK, MetaIsLatest, ExpectsLatest, WritesMark,
       put_disk_fails, End, ReaderOp, WriterOp
  <2> QED
    BY <1>0, <2>1, <2>2, <2>3, <2>4, <2>5, <2>6, <2>7, <2>8 DEF IInv
<1>13. ASSUME NEW t \in Writers, put_cluster(t)
       PROVE  IInv'
  <2>1. HitIsLatest' /\ RangeIsOfValue'
    BY <1>13 DEF IInv, TypeOK, HitIsLatest, RangeIsOfValue, put_cluster, End,
       ReaderOp, WriterOp, Returned
  <2>2. LevelsAgree'
    BY <1>13 DEF IInv, TypeOK, LevelsAgree, MemoryWritten, DiskWritten,
       WritesMark, put_cluster, End, WriterOp
  <2>3. WritesMark'
    BY <1>13 DEF IInv, TypeOK, WritesMark, AloneIsAlone, put_cluster, End,
       ReaderOp, WriterOp
  <2>4. AloneIsAlone'
    BY <1>13 DEF IInv, TypeOK, AloneIsAlone, put_cluster, End, ReaderOp,
       WriterOp
  <2>5. MemoryWritten'
    BY <1>13 DEF IInv, TypeOK, MemoryWritten, AloneIsAlone, put_cluster, End,
       ReaderOp, WriterOp
  <2>6. DiskWritten'
    BY <1>13 DEF IInv, TypeOK, DiskWritten, AloneIsAlone, put_cluster, End,
       ReaderOp, WriterOp
  <2>7. ExpectsLatest'
    BY <1>13 DEF IInv, TypeOK, ExpectsLatest, WritesMark, put_cluster, End,
       ReaderOp, WriterOp
  <2>8. MetaIsLatest'
    BY <1>13 DEF IInv, TypeOK, MetaIsLatest, ExpectsLatest, WritesMark,
       put_cluster, End, ReaderOp, WriterOp
  <2> QED
    BY <1>0, <2>1, <2>2, <2>3, <2>4, <2>5, <2>6, <2>7, <2>8 DEF IInv
<1>14. ASSUME NEW t \in Writers, NEW k \in Keys, remove(t, k)
       PROVE  IInv'
  <2>1. HitIsLatest' /\ RangeIsOfValue'
    BY <1>14 DEF IInv, TypeOK, HitIsLatest, RangeIsOfValue, remove, Begin,
       Disturb, Alone, Writing, ReaderOp, WriterOp, Returned
  <2>2. LevelsAgree'
    BY <1>14 DEF IInv, TypeOK, LevelsAgree, MemoryWritten, DiskWritten,
       WritesMark, remove, Begin, Disturb, Alone, Writing, WriterOp
  <2>3. WritesMark'
    BY <1>14 DEF IInv, TypeOK, WritesMark, AloneIsAlone, remove, Begin,
       Disturb, Alone, Writing, ReaderOp, WriterOp
  <2>4. AloneIsAlone'
    BY <1>14 DEF IInv, TypeOK, AloneIsAlone, remove, Begin, Disturb, Alone,
       Writing, ReaderOp, WriterOp
  <2>5. MemoryWritten'
    BY <1>14 DEF IInv, TypeOK, MemoryWritten, AloneIsAlone, remove, Begin,
       Disturb, Alone, Writing, ReaderOp, WriterOp
  <2>6. DiskWritten'
    BY <1>14 DEF IInv, TypeOK, DiskWritten, AloneIsAlone, remove, Begin,
       Disturb, Alone, Writing, ReaderOp, WriterOp
  <2>7. ExpectsLatest'
    BY <1>14 DEF IInv, TypeOK, ExpectsLatest, WritesMark, remove, Begin,
       Disturb, Alone, Writing, ReaderOp, WriterOp
  <2>8. MetaIsLatest'
    BY <1>14 DEF IInv, TypeOK, MetaIsLatest, ExpectsLatest, WritesMark,
       remove, Begin, Disturb, Alone, Writing, ReaderOp, WriterOp
  <2> QED
    BY <1>0, <2>1, <2>2, <2>3, <2>4, <2>5, <2>6, <2>7, <2>8 DEF IInv
<1>15. ASSUME NEW t \in Writers, remove_memory(t)
       PROVE  IInv'
  <2>1. HitIsLatest' /\ RangeIsOfValue'
    BY <1>15 DEF IInv, TypeOK, HitIsLatest, RangeIsOfValue, remove_memory,
       Step, ReaderOp, WriterOp, Returned
  <2>2. LevelsAgree'
    BY <1>15 DEF IInv, TypeOK, LevelsAgree, MemoryWritten, DiskWritten,
       WritesMark, remove_memory, Step, WriterOp
  <2>3. WritesMark'
    BY <1>15 DEF IInv, TypeOK, WritesMark, AloneIsAlone, remove_memory, Step,
       ReaderOp, WriterOp
  <2>4. AloneIsAlone'
    BY <1>15 DEF IInv, TypeOK, AloneIsAlone, remove_memory, Step, ReaderOp,
       WriterOp
  <2>5. MemoryWritten'
    BY <1>15 DEF IInv, TypeOK, MemoryWritten, AloneIsAlone, remove_memory,
       Step, ReaderOp, WriterOp
  <2>6. DiskWritten'
    BY <1>15 DEF IInv, TypeOK, DiskWritten, AloneIsAlone, remove_memory, Step,
       ReaderOp, WriterOp
  <2>7. ExpectsLatest'
    BY <1>15 DEF IInv, TypeOK, ExpectsLatest, WritesMark, remove_memory, Step,
       ReaderOp, WriterOp
  <2>8. MetaIsLatest'
    BY <1>15 DEF IInv, TypeOK, MetaIsLatest, ExpectsLatest, WritesMark,
       remove_memory, Step, ReaderOp, WriterOp
  <2> QED
    BY <1>0, <2>1, <2>2, <2>3, <2>4, <2>5, <2>6, <2>7, <2>8 DEF IInv
<1>16. ASSUME NEW t \in Writers, remove_disk(t)
       PROVE  IInv'
  <2>1. HitIsLatest' /\ RangeIsOfValue'
    BY <1>16 DEF IInv, TypeOK, HitIsLatest, RangeIsOfValue, remove_disk, Step,
       ReaderOp, WriterOp, Returned
  <2>2. LevelsAgree'
    BY <1>16 DEF IInv, TypeOK, LevelsAgree, MemoryWritten, DiskWritten,
       WritesMark, remove_disk, Step, WriterOp
  <2>3. WritesMark'
    BY <1>16 DEF IInv, TypeOK, WritesMark, AloneIsAlone, remove_disk, Step,
       ReaderOp, WriterOp
  <2>4. AloneIsAlone'
    BY <1>16 DEF IInv, TypeOK, AloneIsAlone, remove_disk, Step, ReaderOp,
       WriterOp
  <2>5. MemoryWritten'
    BY <1>16 DEF IInv, TypeOK, MemoryWritten, AloneIsAlone, remove_disk, Step,
       ReaderOp, WriterOp
  <2>6. DiskWritten'
    BY <1>16 DEF IInv, TypeOK, DiskWritten, AloneIsAlone, remove_disk, Step,
       ReaderOp, WriterOp
  <2>7. ExpectsLatest'
    BY <1>16 DEF IInv, TypeOK, ExpectsLatest, WritesMark, remove_disk, Step,
       ReaderOp, WriterOp
  <2>8. MetaIsLatest'
    BY <1>16 DEF IInv, TypeOK, MetaIsLatest, ExpectsLatest, WritesMark,
       remove_disk, Step, ReaderOp, WriterOp
  <2> QED
    BY <1>0, <2>1, <2>2, <2>3, <2>4, <2>5, <2>6, <2>7, <2>8 DEF IInv
<1>17. ASSUME NEW t \in Writers, remove_cluster(t)
       PROVE  IInv'
  <2>1. HitIsLatest' /\ RangeIsOfValue'
    BY <1>17 DEF IInv, TypeOK, HitIsLatest, RangeIsOfValue, remove_cluster,
       End, ReaderOp, WriterOp, Returned
  <2>2. LevelsAgree'
    BY <1>17 DEF IInv, TypeOK, LevelsAgree, MemoryWritten, DiskWritten,
       WritesMark, remove_cluster, End, WriterOp
  <2>3. WritesMark'
    BY <1>17 DEF IInv, TypeOK, WritesMark, AloneIsAlone, remove_cluster, End,
       ReaderOp, WriterOp
  <2>4. AloneIsAlone'
    BY <1>17 DEF IInv, TypeOK, AloneIsAlone, remove_cluster, End, ReaderOp,
       WriterOp
  <2>5. MemoryWritten'
    BY <1>17 DEF IInv, TypeOK, MemoryWritten, AloneIsAlone, remove_cluster,
       End, ReaderOp, WriterOp
  <2>6. DiskWritten'
    BY <1>17 DEF IInv, TypeOK, DiskWritten, AloneIsAlone, remove_cluster, End,
       ReaderOp, WriterOp
  <2>7. ExpectsLatest'
    BY <1>17 DEF IInv, TypeOK, ExpectsLatest, WritesMark, remove_cluster, End,
       ReaderOp, WriterOp
  <2>8. MetaIsLatest'
    BY <1>17 DEF IInv, TypeOK, MetaIsLatest, ExpectsLatest, WritesMark,
       remove_cluster, End, ReaderOp, WriterOp
  <2> QED
    BY <1>0, <2>1, <2>2, <2>3, <2>4, <2>5, <2>6, <2>7, <2>8 DEF IInv
<1>18. ASSUME NEW k \in Keys, MemoryChunks(k)
       PROVE  IInv'
  <2>1. LevelsAgree'
    BY <1>18 DEF IInv, TypeOK, LevelsAgree, MemoryChunks, Held
  <2>2. MemoryWritten' /\ DiskWritten'
    BY <1>18 DEF IInv, TypeOK, MemoryWritten, DiskWritten, MemoryChunks,
       WriterOp, Held
  <2>3. /\ HitIsLatest' /\ RangeIsOfValue' /\ ExpectsLatest'
        /\ WritesMark' /\ AloneIsAlone'
    BY <1>18 DEF IInv, TypeOK, HitIsLatest, RangeIsOfValue, WritesMark,
       AloneIsAlone, ExpectsLatest, MemoryChunks, Returned
  <2>4. MetaIsLatest'
    BY <1>18 DEF IInv, TypeOK, MetaIsLatest, MemoryChunks, ReaderOp
  <2> QED
    BY <1>0, <2>1, <2>2, <2>3, <2>4 DEF IInv
<1>19. ASSUME NEW k \in Keys, DiskChunks(k)
       PROVE  IInv'
  <2>1. LevelsAgree'
    BY <1>19 DEF IInv, TypeOK, LevelsAgree, DiskChunks, Held
  <2>2. MemoryWritten' /\ DiskWritten'
    BY <1>19 DEF IInv, TypeOK, MemoryWritten, DiskWritten, DiskChunks,
       WriterOp, Held
  <2>3. /\ HitIsLatest' /\ RangeIsOfValue' /\ ExpectsLatest'
        /\ WritesMark' /\ AloneIsAlone'
    BY <1>19 DEF IInv, TypeOK, HitIsLatest, RangeIsOfValue, WritesMark,
       AloneIsAlone, ExpectsLatest, DiskChunks, Returned
  <2>4. MetaIsLatest'
    BY <1>19 DEF IInv, TypeOK, MetaIsLatest, DiskChunks, ReaderOp
  <2> QED
    BY <1>0, <2>1, <2>2, <2>3, <2>4 DEF IInv
<1>20. ASSUME NEW k \in Keys, ExpireMemory(k)
       PROVE  IInv'
  <2>1. LevelsAgree'
    BY <1>20 DEF IInv, TypeOK, LevelsAgree, ExpireMemory, Held
  <2>2. MemoryWritten' /\ DiskWritten'
    BY <1>20 DEF IInv, TypeOK, MemoryWritten, DiskWritten, ExpireMemory,
       WriterOp, Held
  <2>3. /\ HitIsLatest' /\ RangeIsOfValue' /\ ExpectsLatest'
        /\ WritesMark' /\ AloneIsAlone'
    BY <1>20 DEF IInv, TypeOK, HitIsLatest, RangeIsOfValue, WritesMark,
       AloneIsAlone, ExpectsLatest, ExpireMemory, Returned
  <2>4. MetaIsLatest'
    BY <1>20 DEF IInv, TypeOK, MetaIsLatest, ExpireMemory, ReaderOp
  <2> QED
    BY <1>0, <2>1, <2>2, <2>3, <2>4 DEF IInv
<1>21. ASSUME NEW k \in Keys, ExpireDisk(k)
       PROVE  IInv'
  <2>1. LevelsAgree'
    BY <1>21 DEF IInv, TypeOK, LevelsAgree, ExpireDisk, Held
  <2>2. MemoryWritten' /\ DiskWritten'
    BY <1>21 DEF IInv, TypeOK, MemoryWritten, DiskWritten, ExpireDisk,
       WriterOp, Held
  <2>3. /\ HitIsLatest' /\ RangeIsOfValue' /\ ExpectsLatest'
        /\ WritesMark' /\ AloneIsAlone'
    BY <1>21 DEF IInv, TypeOK, HitIsLatest, RangeIsOfValue, WritesMark,
       AloneIsAlone, ExpectsLatest, ExpireDisk, Returned
  <2>4. MetaIsLatest'
    BY <1>21 DEF IInv, TypeOK, MetaIsLatest, ExpireDisk, ReaderOp
  <2> QED
    BY <1>0, <2>1, <2>2, <2>3, <2>4 DEF IInv
<1> QED
  BY <1>1, <1>2, <1>3, <1>4, <1>5, <1>6, <1>7, <1>8, <1>9, <1>10, <1>11,
     <1>12, <1>13, <1>14, <1>15, <1>16, <1>17, <1>18, <1>19, <1>20, <1>21 DEF
     Next, Read, Put, RemoveKey, Environment

-----------------------------------------------------------------------------
\* Whatever the options of the puts, the levels and the coroutines keep their
\* types.
THEOREM TypeCorrect == Spec => []TypeOK
<1>1. Init => TypeOK
  BY InitIInv DEF IInv
<1>2. TypeOK /\ [Next]_vars => TypeOK'
  <2>1. ASSUME TypeOK, UNCHANGED vars
        PROVE  TypeOK'
    BY <2>1 DEF TypeOK, vars
  <2> QED
    BY <2>1, NextType
<1> QED
  BY <1>1, <1>2, PTL DEF Spec

\* CacheCoordinator::put writes memory and then disk, CacheCoordinator::remove
\* clears them in that order, and get and metadata ask them in that order.
\* With any number of coroutines, failures of the levels, evictions and expiry
\* in between, a read that no write of its key overlaps returns the value of
\* the last write, unless that one overlapped another, failed or skipped a
\* level; and then the levels agree about it, and a byte range computed from
\* the metadata is one of the value that is read.
THEOREM ReadsLatest ==
    Spec => [](HitIsLatest /\ RangeIsOfValue /\ LevelsAgree)
<1>1. Init => IInv
  BY InitIInv
<1>2. IInv /\ [Next]_vars => IInv'
  <2>1. ASSUME IInv, UNCHANGED vars
        PROVE  IInv'
    BY <2>1 DEF IInv, TypeOK, HitIsLatest, RangeIsOfValue, LevelsAgree,
       WritesMark, AloneIsAlone, MemoryWritten, DiskWritten, ExpectsLatest,
       MetaIsLatest, AtRest, Returned, vars
  <2> QED
    BY <2>1, NextIInv
<1>3. IInv => HitIsLatest /\ RangeIsOfValue /\ LevelsAgree
  BY DEF IInv
<1> QED
  BY <1>1, <1>2, <1>3, PTL DEF Spec
=============================================================================
