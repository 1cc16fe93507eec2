--------------------------- MODULE RangeRequests ---------------------------
(***************************************************************************)
(* Byte ranges on their way through the server: the Range header of an     *)
(* HTTP GET (src/http/http_api.cpp) down to the bytes of the answer,       *)
(* CacheCoordinator's check of what is available over the two levels, and  *)
(* its streams (src/cache/cache_coordinator.cpp).                          *)
(***************************************************************************)
EXTENDS ChunkRanges

CONSTANT NoValue \* no descriptor under the key

\* A Range header: the numbers before and after the dash, each <<>> or <<n>>.
\* One without "=" or "-" asks for the whole value.
Header(first, last) == [dash |-> TRUE, first |-> first, last |-> last]
NoDash == [dash |-> FALSE]

\* (mutant) the end of a range is exclusive
parse_range_header_exclusive(header, total) ==
    LET end == IF header.last = <<>> THEN Wrap(total - 1) ELSE header.last[1]
    IN  IF ~header.dash THEN RangeAt(0, total)
        ELSE IF header.first = <<>>
        THEN RangeAt(Wrap(total - end), Wrap(Wrap(total - 1) - (total - end) + 1))
        ELSE RangeAt(header.first[1], Wrap(end - header.first[1]))

parse_range_header(header, total) ==
    LET end == IF header.last = <<>> THEN Wrap(total - 1) ELSE header.last[1]
    IN  IF ~header.dash THEN RangeAt(0, total)
        ELSE IF header.first = <<>>
        THEN RangeAt(Wrap(total - end), Wrap(Wrap(total - 1) - (total - end) + 1))
        ELSE RangeAt(header.first[1], Wrap(end - header.first[1] + 1))

Miss == [result |-> "Miss", data |-> <<>>]

Hit(data, range) == [result |-> "Hit", data |-> data, actual_range |-> range]

\* get of a level that has all chunks: the data, and the range it says they
\* are.  A range of no bytes inside the value is a miss.
GetRange(v, range) ==
    LET clamped == RangeAt(range.offset,
                           Least(range.length, Len(v) - range.offset))
        chunks == split_value(v)
        ids == chunks_for_range(Len(v), Len(chunks), clamped)
        data == assemble_value([j \in DOMAIN ids |-> chunks[ids[j] + 1]],
                               clamped)
    IN  IF range.offset >= Len(v) THEN Hit(<<>>, RangeAt(range.offset, 0))
        ELSE IF ids = <<>> THEN Miss
        ELSE Hit(data, RangeAt(range.offset, Len(data)))

\* handle_get of a value that is whole.  A range in the query of the request,
\* <<>> or <<a range>>, goes before the Range header.
handle_get(v, header, query) ==
    GetRange(v, IF query # <<>> THEN query[1]
                ELSE parse_range_header(header, Len(v)))

-----------------------------------------------------------------------------
(* check.  A level has, for every chunk of the value, TRUE or FALSE, or it *)
(* has NoValue.                                                            *)

NotThere == [exists |-> FALSE, available |-> <<>>, missing |-> <<>>]

\* check of MemoryCache and DiskCache: only chunks of the range are asked for.
check_level(total, level, range) ==
    LET ids == ToSet(chunks_for_range(total, Len(level), range))
        found == [i \in DOMAIN level |-> level[i] /\ i - 1 \in ids]
    IN  IF level = NoValue THEN NotThere
        ELSE [exists |-> TRUE,
              available |-> available_ranges(total, found),
              missing |-> missing_ranges(total, found, range)]

\* CacheCoordinator::check: the ranges on disk are added to those in memory,
\* and the ones missing in memory stay missing.
check(total, memory, disk, range) ==
    LET inmemory == check_level(total, memory, range)
        ondisk == check_level(total, disk, range)
    IN  IF inmemory.exists /\ inmemory.missing = <<>> THEN inmemory
        ELSE IF ~ondisk.exists THEN inmemory
        ELSE IF ~inmemory.exists THEN ondisk
        ELSE [inmemory EXCEPT !.available = @ \o ondisk.available]

-----------------------------------------------------------------------------
(* The streams *)

\* WriteStreamImpl::write: full chunks leave the buffer.
write(s, data) ==
    LET buffer == s.buffer \o data
        full == Len(buffer) \div CHUNK_SIZE
    IN  [chunks |-> s.chunks \o [i \in 1..full |->
            SubSeq(buffer, (i - 1) * CHUNK_SIZE + 1, i * CHUNK_SIZE)],
         buffer |-> SubSeq(buffer, full * CHUNK_SIZE + 1, Len(buffer))]

\* (mutant) what is left in the buffer is forgotten
finish_full(s) == FlattenSeq(s.chunks)

\* finish: the value that is put.
finish(s) == FlattenSeq(IF s.buffer = <<>> THEN s.chunks
                        ELSE Append(s.chunks, s.buffer))

NewStream == [chunks |-> <<>>, buffer |-> <<>>]

\* ReadStreamImpl::read at a position: what is returned.
read_stream(data, position, max_bytes) ==
    SubSeq(data, position + 1,
           position + Least(max_bytes, Len(data) - position))
=============================================================================
