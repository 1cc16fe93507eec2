----------------------------- MODULE ChunkRanges -----------------------------
(***************************************************************************)
(* The range arithmetic of values that are split into chunks: Range and    *)
(* ChunkRange of types.hpp/types.cpp, ValueDescriptor and PartialValue of  *)
(* chunk.cpp, and MemoryCache's split_value and assemble_value.            *)
(*                                                                         *)
(* A value is a sequence of bytes.  Chunk indices and byte offsets count   *)
(* from 0 as in the code, so chunk i of a sequence of chunks cs is         *)
(* cs[i + 1].  Offsets and lengths are unsigned integers of Width bits     *)
(* (uint64_t in the code); Wrap marks the sums and differences the code    *)
(* does not guard.                                                         *)
(***************************************************************************)
EXTENDS Integers, SequencesExt

CONSTANTS
    CHUNK_SIZE, \* bytes in a chunk
    Width,      \* bits of an offset or a length
    NoChunk     \* the null SharedChunk

ASSUME ChunkSizeAssumption == CHUNK_SIZE \in Nat \ {0}
ASSUME WidthAssumption == Width \in Nat \ {0}

Wrap(n) == n % 2^Width

Least(m, n) == IF m < n THEN m ELSE n

Greatest(m, n) == IF m < n THEN n ELSE m

RangeAt(off, len) == [offset |-> off, length |-> len]

End(range) == Wrap(range.offset + range.length)

\* The bytes of value v that a range inside v covers.
Slice(v, range) == SubSeq(v, range.offset + 1, range.offset + range.length)

\* The indices from..to in ascending order (none when to < from).
Indices(from, to) == [j \in 1..Greatest(to - from + 1, 0) |-> from + j - 1]

-----------------------------------------------------------------------------
(* Splitting a value and locating its chunks.                              *)

ChunkCount(total) == (total + CHUNK_SIZE - 1) \div CHUNK_SIZE

\* (mutant) the last, shorter chunk is dropped
split_value_floor(v) ==
    [j \in 1..(Len(v) \div CHUNK_SIZE) |->
        SubSeq(v, (j - 1) * CHUNK_SIZE + 1, Least(j * CHUNK_SIZE, Len(v)))]

split_value(v) ==
    [j \in 1..ChunkCount(Len(v)) |->
        SubSeq(v, (j - 1) * CHUNK_SIZE + 1, Least(j * CHUNK_SIZE, Len(v)))]

\* The chunk that holds the last byte before `end'.
EndChunk(end) == IF end > 0 THEN (end - 1) \div CHUNK_SIZE ELSE 0

chunks_for_range(total, n, range) ==
    IF range.length = 0 \/ range.offset >= total
    THEN <<>>
    ELSE Indices(range.offset \div CHUNK_SIZE,
                 Least(EndChunk(Least(End(range), total)), n - 1))

\* ChunkRange::compute: the pieces of a range, chunk by chunk.
compute(range) ==
    IF range.length = 0
    THEN <<>>
    ELSE LET first == range.offset \div CHUNK_SIZE
             last  == EndChunk(range.offset + range.length)
             from(i) == Greatest(range.offset, i * CHUNK_SIZE)
             to(i) == Least(range.offset + range.length, (i + 1) * CHUNK_SIZE)
             piece(i) == [chunk_index |-> i,
                          offset_in_chunk |-> from(i) - i * CHUNK_SIZE,
                          length |-> to(i) - from(i)]
         IN  [j \in 1..(last - first + 1) |-> piece(first + j - 1)]

-----------------------------------------------------------------------------
(* Reading chunks back.                                                    *)

\* Chunk::read
read(chunk, offset, length) ==
    IF offset >= Len(chunk)
    THEN <<>>
    ELSE SubSeq(chunk, offset + 1,
                offset + Least(length, Len(chunk) - offset))

\* One turn of the loop in DiskCache::get, which passes over a missing chunk
\* without moving the offset.  chunks[i] is the i-th chunk fetched for the
\* range, NoChunk when it was not there.
AssembleChunkDisk(acc, chunks, i, range) ==
    LET global == (range.offset \div CHUNK_SIZE + i - 1) * CHUNK_SIZE
        inside == Greatest(acc.offset - global, 0)
        n == Least(acc.remaining, Wrap(Len(chunks[i]) - inside))
    IN  IF acc.remaining = 0 \/ chunks[i] = NoChunk
        THEN acc
        ELSE [remaining |-> acc.remaining - n,
              offset |-> Wrap(acc.offset + n),
              data |-> acc.data \o read(chunks[i], inside, n)]

\* One turn of the loop in MemoryCache::assemble_value.
AssembleChunk(acc, chunks, i, range) ==
    LET skip   == Least(acc.remaining, CHUNK_SIZE)
        global == (range.offset \div CHUNK_SIZE + i - 1) * CHUNK_SIZE
        inside == Greatest(acc.offset - global, 0)
        n == Least(acc.remaining, Wrap(Len(chunks[i]) - inside))
    IN  IF acc.remaining = 0
        THEN acc
        ELSE IF chunks[i] = NoChunk
        THEN [acc EXCEPT !.remaining = @ - skip, !.offset = Wrap(@ + skip)]
        ELSE [remaining |-> acc.remaining - n,
              offset |-> Wrap(acc.offset + n),
              data |-> acc.data \o read(chunks[i], inside, n)]

AssembleStart(range) ==
    [remaining |-> range.length, offset |-> range.offset, data |-> <<>>]

assemble_value(chunks, range) ==
    LET turn(acc, i) == AssembleChunk(acc, chunks, i, range)
    IN  FoldLeft(turn, AssembleStart(range), Indices(1, Len(chunks))).data

assemble_disk(chunks, range) ==
    LET turn(acc, i) == AssembleChunkDisk(acc, chunks, i, range)
    IN  FoldLeft(turn, AssembleStart(range), Indices(1, Len(chunks))).data

-----------------------------------------------------------------------------
(* PartialValue: which chunks of a value are available.  avail is the      *)
(* sequence chunk_availability_, total is total_size_.                     *)

has_chunk(avail, i) == i < Len(avail) /\ avail[i + 1]

has_range(total, avail, range) ==
    \/ range.length = 0
    \/ /\ range.offset < total
       /\ \A i \in (range.offset \div CHUNK_SIZE)
                      ..EndChunk(Least(End(range), total)) :
             has_chunk(avail, i)

\* Append a range, or lengthen the last one when the two touch.
Merge(ranges, range) ==
    IF ranges # <<>> /\ End(Last(ranges)) = range.offset
    THEN Front(ranges) \o
         << [Last(ranges) EXCEPT !.length = @ + range.length] >>
    ELSE Append(ranges, range)

\* (mutant) missing chunks are reported whole
missing_ranges_whole(total, avail, range) ==
    LET end == Least(End(range), total)
        visit(missing, i) ==
            IF has_chunk(avail, i)
            THEN missing
            ELSE Merge(missing, RangeAt(i * CHUNK_SIZE,
                     Least((i + 1) * CHUNK_SIZE, total) - i * CHUNK_SIZE))
    IN  IF range.length = 0 \/ range.offset >= total \/ end <= range.offset
        THEN <<>>
        ELSE FoldLeft(visit, <<>>,
                      Indices(range.offset \div CHUNK_SIZE, EndChunk(end)))

missing_ranges(total, avail, range) ==
    LET end == Least(End(range), total)
        from(i) == Greatest(range.offset, i * CHUNK_SIZE)
        to(i) == Least(end, (i + 1) * CHUNK_SIZE)
        visit(missing, i) ==
            IF has_chunk(avail, i)
            THEN missing
            ELSE Merge(missing, RangeAt(from(i), to(i) - from(i)))
    IN  IF range.length = 0 \/ range.offset >= total \/ end <= range.offset
        THEN <<>>
        ELSE FoldLeft(visit, <<>>,
                      Indices(range.offset \div CHUNK_SIZE, EndChunk(end)))

available_ranges(total, avail) ==
    LET visit(ranges, i) ==
            IF has_chunk(avail, i)
            THEN Merge(ranges, RangeAt(i * CHUNK_SIZE,
                     Least((i + 1) * CHUNK_SIZE, total) - i * CHUNK_SIZE))
            ELSE ranges
    IN  FoldLeft(visit, <<>>, Indices(0, Len(avail) - 1))

available_bytes(total, avail) ==
    LET bytes(i) == IF ~avail[i] THEN 0
                    ELSE IF i = Len(avail) THEN total - (i - 1) * CHUNK_SIZE
                    ELSE CHUNK_SIZE
        add(sum, i) == sum + bytes(i)
    IN  FoldLeft(add, 0, Indices(1, Len(avail)))
=============================================================================
