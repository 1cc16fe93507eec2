-------------------------------- MODULE Wire --------------------------------
(***************************************************************************)
(* Bytes on a wire, for the codec of the cluster (codec.cpp) and for the   *)
(* protocol of the C SDK (elcache_client.c, unix_server.cpp), which have   *)
(* the same header and the same way of writing numbers and strings.        *)
(*                                                                         *)
(* What a message consists of is given as a format: the sequence of its    *)
(* fields in the order they are written or read.  A message's body is a    *)
(* record of the fields' values.  A writer and the reader of what it       *)
(* writes have each a format of their own, from the code of each.          *)
(***************************************************************************)
EXTENDS Integers, SequencesExt, TLC

CONSTANT Base \* the number of values of a byte

\* A field, and one with fields in it: a group, an optional group (there or
\* not) or a list of groups.
Field(name, kind) == [name |-> name, kind |-> kind]
Nested(name, kind, of) == [name |-> name, kind |-> kind, of |-> of]

-----------------------------------------------------------------------------
(* Writing *)

\* The low `bytes' bytes of v, the lowest first.
LittleEndian(v, bytes) ==
    [i \in 1..bytes |-> (v \div Base^(i - 1)) % Base]

encode_u16(v) == LittleEndian(v, 2)
encode_u32(v) == LittleEndian(v, 4)
encode_u64(v) == LittleEndian(v, 8)

encode_bytes(v) == encode_u32(Len(v)) \o v

Encode(kind, v) ==
    CASE kind = "u16" -> encode_u16(v)
      [] kind = "u32" -> encode_u32(v)
      [] kind = "u64" -> encode_u64(v)
      [] kind = "flag" -> <<IF v THEN 1 ELSE 0>>
      [] kind = "bytes" -> encode_bytes(v)

\* The fields of a body one after the other, each written by write(_, _).
EncodeEach(write(_, _), format, body) ==
    FlattenSeq([i \in DOMAIN format |->
        write(format[i], body[format[i].name])])

EncodeGroup(format, body) ==
    EncodeEach(LAMBDA f, v : Encode(f.kind, v), format, body)

EncodeField(f, v) ==
    LET all == FlattenSeq([i \in DOMAIN v |-> EncodeGroup(f.of, v[i])])
    IN  CASE f.kind = "group" -> EncodeGroup(f.of, v)
          [] f.kind = "optional" -> Encode("flag", v # <<>>) \o all
          [] f.kind = "list" -> encode_u32(Len(v)) \o all
          [] OTHER -> Encode(f.kind, v)

EncodeBody(format, body) == EncodeEach(EncodeField, format, body)

-----------------------------------------------------------------------------
(* Reading: a value and what is left, or nothing when the bytes run out *)

Truncated == [ok |-> FALSE]

Got(v, rest) == [ok |-> TRUE, value |-> v, rest |-> rest]

Take(data, n) ==
    IF Len(data) < n THEN Truncated
    ELSE Got(SubSeq(data, 1, n), SubSeq(data, n + 1, Len(data)))

\* A value of the bytes read.
Then(got, value(_)) ==
    IF got.ok THEN Got(value(got.value), got.rest) ELSE Truncated

Number(bytes) ==
    FoldLeftDomain(LAMBDA n, i : n + bytes[i] * Base^(i - 1), 0, bytes)

decode_u16(data) == Then(Take(data, 2), Number)
decode_u32(data) == Then(Take(data, 4), Number)
decode_u64(data) == Then(Take(data, 8), Number)

decode_bytes(data) ==
    LET len == decode_u32(data)
    IN  IF len.ok THEN Take(len.rest, len.value) ELSE Truncated

Decode(kind, data) ==
    CASE kind = "u16" -> decode_u16(data)
      [] kind = "u32" -> decode_u32(data)
      [] kind = "u64" -> decode_u64(data)
      [] kind = "flag" -> Then(Take(data, 1), LAMBDA b : b[1] # 0)
      [] kind = "bytes" -> decode_bytes(data)

\* One more item is read and joined to what was read before.
More(got, read(_), join(_, _)) ==
    LET item == read(got.rest)
    IN  IF got.ok THEN Then(item, LAMBDA v : join(got.value, v)) ELSE Truncated

DecodeEach(read(_, _), format, data) ==
    FoldLeft(LAMBDA got, f :
                IF ~got.ok THEN Truncated
                ELSE More(got, LAMBDA d : read(f, d),
                          LAMBDA body, v : (f.name :> v) @@ body),
             Got(<<>>, data), format)

DecodeGroup(format, data) ==
    DecodeEach(LAMBDA f, d : Decode(f.kind, d), format, data)

\* As many groups as the count that was read says.
DecodeGroups(format, count) ==
    IF ~count.ok THEN Truncated
    ELSE FoldLeft(LAMBDA got, i :
                     IF ~got.ok THEN Truncated
                     ELSE More(got, LAMBDA d : DecodeGroup(format, d), Append),
                  Got(<<>>, count.rest), [i \in 1..count.value |-> i])

DecodeField(f, data) ==
    CASE f.kind = "group" -> DecodeGroup(f.of, data)
      [] f.kind = "optional" ->
            DecodeGroups(f.of, Then(Decode("flag", data),
                                    LAMBDA there : IF there THEN 1 ELSE 0))
      [] f.kind = "list" -> DecodeGroups(f.of, decode_u32(data))
      [] OTHER -> Decode(f.kind, data)

DecodeBody(format, data) == DecodeEach(DecodeField, format, data)

-----------------------------------------------------------------------------
(* The header of every message *)

HEADER_SIZE == 24

\* PROTO_MAGIC and the clock are abstracted to numbers that fit the model.
PROTO_MAGIC == 5
PROTO_VERSION == 1
Now == 3

encode_header(type, payload_len, request_id) ==
    encode_u32(PROTO_MAGIC) \o encode_u16(PROTO_VERSION) \o encode_u16(type)
        \o encode_u32(payload_len) \o encode_u32(request_id)
        \o encode_u64(Now)

parse_header(header) ==
    [magic |-> Number(SubSeq(header, 1, 4)),
     type |-> Number(SubSeq(header, 7, 8)),
     length |-> Number(SubSeq(header, 9, 12)),
     request_id |-> Number(SubSeq(header, 13, 16))]
=============================================================================
