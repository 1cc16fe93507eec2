----------------------------- MODULE MCOperators -----------------------------
(***************************************************************************)
(* Checks the pure parts of the code against reference definitions: the    *)
(* range arithmetic (ChunkRanges, RangeRequests) on every value of at most *)
(* MaxSize bytes with every set of available chunks and every range with   *)
(* offset and length up to MaxSize + 1, and the two wire formats (Codec,   *)
(* ClientProtocol) on messages with few different values in their fields.  *)
(* The byte at offset i of a value is i itself, and the numbers in a       *)
(* message differ, so that anything out of place shows.                    *)
(***************************************************************************)
EXTENDS RangeRequests

CONSTANTS
    Base,
    MaxSize,  \* bound on the size of the values
    MaxShared \* bound on the size of a value that two levels hold

ASSUME BaseAssumption == Base \in Nat \ {0, 1}
ASSUME MaxSizeAssumption ==
    2 * (MaxSize + 1) < 2^Width /\ MaxShared <= MaxSize

C == INSTANCE Codec
P == INSTANCE ClientProtocol

VARIABLE input

Ranges(size) == [offset : 0..(size + 1), length : 0..(size + 1)]

Levels(total) == [1..ChunkCount(total) -> BOOLEAN] \cup {NoValue}

CheckInputs ==
    UNION {[kind : {"check"}, total : {total}, memory : Levels(total),
            disk : IF total <= MaxShared THEN Levels(total) ELSE {NoValue},
            range : Ranges(total)] : total \in 0..MaxSize}

ReadInputs ==
    [kind : {"read"}, total : 0..MaxSize, range : Ranges(MaxSize)]

Numbers == {<<>>} \cup {<<n>> : n \in 0..(MaxSize + 1)}

HeaderInputs ==
    [kind : {"header"}, total : 0..MaxSize, query : {<<>>},
     header : {Header(first, last) : first, last \in Numbers}
              \cup {NoDash}]
    \cup
    [kind : {"header"}, total : 0..MaxSize, header : {NoDash},
     query : {<<range>> : range \in Ranges(MaxSize)}]

StreamInputs ==
    [kind : {"stream"}, total : 0..MaxSize, first : 0..MaxSize,
     second : 0..MaxSize]

-----------------------------------------------------------------------------
(* Messages: a byte string is empty or not, an optional there or not. *)

Strings == {<<>>, <<1, 2>>}
Options(v) == {<<>>, <<v>>}
Lists(v, w) == {<<>>, <<v>>, <<v, w>>}

Info(n) ==
    [id |-> n, address |-> <<n, 1>>, port |-> n + 1,
     memory_capacity |-> n + 2, memory_used |-> n + 3,
     disk_capacity |-> n + 4, disk_used |-> n + 5,
     generation |-> n + 6, state |-> n + 7]

RangeOf(n) == [offset |-> n, length |-> n + 1]
Metadata == [total_size |-> 9, chunk_count |-> 10, flags |-> 11]

Bodies == [
    Hello |-> [sender : {Info(1)}, cluster_name : Strings,
               capabilities : Lists([name |-> <<3>>], [name |-> <<>>])],
    HelloAck |-> [sender : {Info(2)}, accepted : BOOLEAN,
                  reject_reason : Strings],
    GossipPush |-> [sender : {70}, nodes : Lists(Info(1), Info(2))],
    Get |-> [key : Strings, metadata_only : BOOLEAN,
             range : Options(RangeOf(0)) \cup Options(RangeOf(600))],
    GetResponse |-> [result : 0..2, metadata : Options(Metadata),
                     data : Strings, actual_range : {RangeOf(12)}],
    Put |-> [key : Strings, data : Strings,
             ttl : Options([seconds |-> 60]), flags : {0, 100}],
    PutResponse |-> [code : {0, 7}, message : Strings],
    Delete |-> [key : Strings],
    DeleteResponse |-> [code : {0, 7}, existed : BOOLEAN],
    Error |-> [code : {0, 7}, message : Strings,
               original_request_id : {99}],
    Check |-> [key : Strings, range : Options(RangeOf(0))],
    CheckResponse |-> [exists : BOOLEAN, metadata : Options(Metadata),
                       available_ranges : Lists(RangeOf(1), RangeOf(5))],
    GetChunk |-> [low : {1}, high : {2}, offset : {0}, length : {3}],
    GetChunkResponse |-> [found : BOOLEAN, data : Strings],
    PutChunk |-> [low : {1}, high : {2}, data : Strings],
    HasChunk |-> [low : {1}, high : {2}] ]

Messages ==
    UNION {[type : {type}, body : Bodies[type]] : type \in DOMAIN Bodies}

\* A message is followed by another one, that decode knows or refuses.
MessageInputs ==
    [kind : {"message"}, first : Messages,
     second : {m \in Messages : m.type \in {"Delete", "HasChunk"}}]

Args == [
    Get |-> [key : Strings, options : Ranges(3)],
    Put |-> [key : Strings, value : Strings, ttl : {0, 60}, flags : {0, 100}],
    Delete |-> [key : Strings],
    CreateSparse |-> [key : Strings, total_size : {0, 600}, ttl : {0, 60},
                      flags : {100}],
    WriteRange |-> [key : Strings, offset : {0, 600}, data : Strings],
    Finalize |-> [key : Strings] ]

\* The codes a handler answers with.
Codes == [Get |-> {0}, Put |-> {0}, Delete |-> {0}, CreateSparse |-> 0..1,
          WriteRange |-> 0..2, Finalize |-> 0..2]

\* A call, its answer (stored is what a Get finds) and the caller's buffer.
CallInputs ==
    UNION {[kind : {"call"}, type : {type}, args : Args[type],
            stored : {<<>>, << <<>> >>, << <<1, 2, 3>> >>},
            code : Codes[type], buffer_size : {2, 3}] :
           type \in DOMAIN Args}

Init ==
    input \in CheckInputs \cup ReadInputs \cup HeaderInputs \cup StreamInputs
              \cup MessageInputs \cup CallInputs

\* The functions are pure: an input is chosen and nothing changes.
Next == UNCHANGED input

Spec == Init /\ [][Next]_input
-----------------------------------------------------------------------------
Value == [j \in 1..input.total |-> j - 1]

BytesOf(r) == r.offset..(r.offset + r.length - 1)

BytesIn(ranges) == UNION {BytesOf(ranges[j]) : j \in DOMAIN ranges}

\* The bytes of the value that the range asks for.
Wanted == BytesOf(input.range) \cap 0..(input.total - 1)

\* The bytes of the value that lie in a chunk of the level.
Present(level) ==
    {b \in 0..(input.total - 1) :
        level # NoValue /\ level[b \div CHUNK_SIZE + 1]}

\* Ascending, none empty, no two touching: each gap is reported once.
Maximal(ranges) ==
    /\ \A j \in DOMAIN ranges : ranges[j].length > 0
    /\ \A j \in 1..(Len(ranges) - 1) :
          ranges[j].offset + ranges[j].length < ranges[j + 1].offset

\* What a level reports of a range: missing are exactly the bytes wanted that
\* it does not have, available are those wanted that it has and no byte that
\* it has not, both as maximal ranges in order; and PartialValue's has_range
\* and available_bytes tell the same as the two lists.
LevelExact(level) ==
    LET total == input.total
        r == check_level(total, level, input.range)
    IN  /\ BytesIn(r.missing) = Wanted \ Present(level)
        /\ Wanted \cap Present(level) \subseteq BytesIn(r.available)
        /\ BytesIn(r.available) \subseteq Present(level)
        /\ Maximal(r.missing) /\ Maximal(r.available)
        /\ available_bytes(total, level) = Cardinality(Present(level))
        /\ input.range.offset < total =>
              (has_range(total, level, input.range) <=> r.missing = <<>>)

\* check() tells the truth about what is cached.  Each level reports exactly
\* what it has; over both, a key exists when a level has it, no byte is called
\* available that neither has, and every byte asked for is accounted for, so
\* that a range with nothing missing can be read in full.
AvailabilityExact ==
    input.kind = "check" =>
        LET levels == {input.memory, input.disk} \ {NoValue}
            r == check(input.total, input.memory, input.disk, input.range)
        IN  /\ \A level \in levels : LevelExact(level)
            /\ r.exists <=> levels # {}
            /\ BytesIn(r.available)
                   \subseteq Present(input.memory) \cup Present(input.disk)
            /\ r.exists =>
                   Wanted \subseteq BytesIn(r.available) \cup BytesIn(r.missing)

\* Splitting a value into chunks and reading a range of it back gives the
\* bytes asked for when every chunk is found, whichever code selects and joins
\* them: MemoryCache::get, DiskCache::get, or ChunkRange::compute's pieces.
ReadBackExact ==
    (input.kind = "read" /\ input.range.offset < input.total) =>
        LET clamped == RangeAt(input.range.offset,
                               Least(input.range.length,
                                     input.total - input.range.offset))
            chunks == split_value(Value)
            ids == chunks_for_range(input.total, Len(chunks), clamped)
            fetched == [j \in DOMAIN ids |-> chunks[ids[j] + 1]]
            pieces == compute(clamped)
            piece(p) == read(chunks[p.chunk_index + 1], p.offset_in_chunk,
                             p.length)
            bytes == Slice(Value, clamped)
        IN  /\ assemble_value(fetched, clamped) = bytes
            /\ assemble_disk(fetched, clamped) = bytes
            /\ FlattenSeq([j \in DOMAIN pieces |-> piece(pieces[j])]) = bytes

\* A GET with a Range header answers with exactly the bytes asked for: first
\* to last, first to the end, the last n, or everything when the header has no
\* range; one with a range in its query, the bytes from there; and whatever
\* the numbers, the bytes of a hit are those its actual_range names.
RangeHeaderExact ==
    input.kind = "header" =>
        LET h == input.header
            total == input.total
            query == input.query
            answer == handle_get(Value, h, query)
            is(first, last) ==
                /\ answer.result = "Hit"
                /\ answer.data = SubSeq(Value, first + 1, last + 1)
        IN  /\ answer.result = "Hit" =>
                   answer.data = Slice(Value, answer.actual_range)
            /\ ~h.dash /\ query = <<>> => is(0, total - 1)
            /\ query # <<>> =>
                   (query[1].offset < total /\ query[1].length > 0 =>
                       is(query[1].offset,
                          Least(query[1].offset + query[1].length, total) - 1))
            /\ h.dash /\ h.first # <<>> /\ h.last # <<>> =>
                   (h.first[1] <= h.last[1] =>
                       is(h.first[1], Least(h.last[1], total - 1)))
            /\ h.dash /\ h.first # <<>> /\ h.last = <<>> =>
                   (h.first[1] < total => is(h.first[1], total - 1))
            /\ h.dash /\ h.first = <<>> /\ h.last # <<>> =>
                   (h.last[1] \in 1..total =>
                       is(total - h.last[1], total - 1))

\* A value written through a write stream in pieces of any size is the value
\* that finish puts, and reads of any size from a read stream give it back
\* without a byte lost or repeated at their borders.
StreamsKeepValue ==
    input.kind = "stream" =>
        LET a == Least(input.first, input.total)
            b == Least(a + input.second, input.total)
            written == write(write(write(NewStream, SubSeq(Value, 1, a)),
                                   SubSeq(Value, a + 1, b)),
                             SubSeq(Value, b + 1, input.total))
            one == read_stream(Value, 0, input.first)
            two == read_stream(Value, Len(one), input.second)
            three == read_stream(Value, Len(one \o two), input.total)
        IN  finish(written) = Value /\ one \o two \o three = Value

\* A message arrives as it was sent, field by field, when the peer can decode
\* its type; one of the types that encode or decode do not know is refused and
\* never taken for another message.  Either way the receiver is then at the
\* start of the next message on the connection.
MessagesArrive ==
    input.kind = "message" =>
        LET next == C!encode(input.second, 2)
            got == C!receive(C!encode(input.first, 1) \o next)
            refused == {"Check", "CheckResponse", "GetChunk",
                        "GetChunkResponse", "PutChunk", "HasChunk"}
        IN  /\ got.rest = next
            /\ got.message = IF input.first.type \in refused THEN C!Rejected
                             ELSE input.first

=============================================================================
