-------------------------------- MODULE Codec --------------------------------
(***************************************************************************)
(* Codec (src/protocol/codec.cpp) and the messages that Connection's send  *)
(* and receive (src/network/cluster.cpp) exchange with it.  Capabilities,  *)
(* addresses, keys and data are sequences of bytes; NodeInfo::last_seen is *)
(* not written.                                                            *)
(***************************************************************************)
EXTENDS Wire

\* The order of the alternatives of Message stands for the type codes.
MessageTypes == <<
    "Hello", "HelloAck", "GossipPush", "Get", "GetResponse", "Put",
    "PutResponse", "Delete", "DeleteResponse", "Check", "CheckResponse",
    "GetChunk", "GetChunkResponse", "Error",
    "PutChunk", "HasChunk">> \* and others that encode does not know

TypeCode(type) == CHOOSE i \in DOMAIN MessageTypes : MessageTypes[i] = type

-----------------------------------------------------------------------------
(* What encode writes *)

encode_node_info ==
    << Field("id", "u64"), Field("address", "bytes"), Field("port", "u16"),
       Field("memory_capacity", "u64"), Field("memory_used", "u64"),
       Field("disk_capacity", "u64"), Field("disk_used", "u64"),
       Field("generation", "u64"), Field("state", "u32") >>

EncodeRange == << Field("offset", "u64"), Field("length", "u64") >>

EncodeMetadata ==
    << Field("total_size", "u64"), Field("chunk_count", "u64"),
       Field("flags", "u32") >>

EncodeFormat == [
    Hello |->
        << Nested("sender", "group", encode_node_info),
           Field("cluster_name", "bytes"),
           Nested("capabilities", "list", << Field("name", "bytes") >>) >>,
    HelloAck |->
        << Nested("sender", "group", encode_node_info),
           Field("accepted", "flag"), Field("reject_reason", "bytes") >>,
    GossipPush |->
        << Field("sender", "u64"), Nested("nodes", "list", encode_node_info) >>,
    Get |->
        << Field("key", "bytes"), Field("metadata_only", "flag"),
           Nested("range", "optional", EncodeRange) >>,
    GetResponse |->
        << Field("result", "u32"),
           Nested("metadata", "optional", EncodeMetadata),
           Field("data", "bytes"),
           Nested("actual_range", "group", EncodeRange) >>,
    Put |->
        << Field("key", "bytes"), Field("data", "bytes"),
           Nested("ttl", "optional", << Field("seconds", "u64") >>),
           Field("flags", "u32") >>,
    PutResponse |-> << Field("code", "u32"), Field("message", "bytes") >>,
    Delete |-> << Field("key", "bytes") >>,
    DeleteResponse |-> << Field("code", "u32"), Field("existed", "flag") >>,
    Check |->
        << Field("key", "bytes"), Nested("range", "optional", EncodeRange) >>,
    CheckResponse |->
        << Field("exists", "flag"),
           Nested("metadata", "optional", EncodeMetadata),
           Nested("available_ranges", "list", EncodeRange) >>,
    GetChunk |->
        << Field("low", "u64"), Field("high", "u64"),
           Field("offset", "u64"), Field("length", "u64") >>,
    GetChunkResponse |-> << Field("found", "flag"), Field("data", "bytes") >>,
    Error |->
        << Field("code", "u32"), Field("message", "bytes"),
           Field("original_request_id", "u32") >> ]

\* (mutant) the length in the header counts the header too
encode_total_length(m, request_id) ==
    LET known == m.type \in DOMAIN EncodeFormat
        payload == IF known THEN EncodeBody(EncodeFormat[m.type], m.body)
                   ELSE <<>>
        type == IF known THEN m.type ELSE "Error"
    IN  encode_header(TypeCode(type), HEADER_SIZE + Len(payload), request_id)
            \o payload

\* A message that encode does not know becomes an Error with no payload.
encode(m, request_id) ==
    LET known == m.type \in DOMAIN EncodeFormat
        payload == IF known THEN EncodeBody(EncodeFormat[m.type], m.body)
                   ELSE <<>>
        type == IF known THEN m.type ELSE "Error"
    IN  encode_header(TypeCode(type), Len(payload), request_id) \o payload

-----------------------------------------------------------------------------
(* What decode reads *)

decode_node_info ==
    << Field("id", "u64"), Field("address", "bytes"), Field("port", "u16"),
       Field("memory_capacity", "u64"), Field("memory_used", "u64"),
       Field("disk_capacity", "u64"), Field("disk_used", "u64"),
       Field("generation", "u64"), Field("state", "u32") >>

DecodeRange == << Field("offset", "u64"), Field("length", "u64") >>

DecodeFormat == [
    Hello |->
        << Nested("sender", "group", decode_node_info),
           Field("cluster_name", "bytes"),
           Nested("capabilities", "list", << Field("name", "bytes") >>) >>,
    HelloAck |->
        << Nested("sender", "group", decode_node_info),
           Field("accepted", "flag"), Field("reject_reason", "bytes") >>,
    GossipPush |->
        << Field("sender", "u64"), Nested("nodes", "list", decode_node_info) >>,
    Get |->
        << Field("key", "bytes"), Field("metadata_only", "flag"),
           Nested("range", "optional", DecodeRange) >>,
    GetResponse |->
        << Field("result", "u32"),
           Nested("metadata", "optional",
                  << Field("total_size", "u64"), Field("chunk_count", "u64"),
                     Field("flags", "u32") >>),
           Field("data", "bytes"),
           Nested("actual_range", "group", DecodeRange) >>,
    Put |->
        << Field("key", "bytes"), Field("data", "bytes"),
           Nested("ttl", "optional", << Field("seconds", "u64") >>),
           Field("flags", "u32") >>,
    PutResponse |-> << Field("code", "u32"), Field("message", "bytes") >>,
    Delete |-> << Field("key", "bytes") >>,
    DeleteResponse |-> << Field("code", "u32"), Field("existed", "flag") >>,
    Error |->
        << Field("code", "u32"), Field("message", "bytes"),
           Field("original_request_id", "u32") >> ]

\* A message, or nothing when decode throws.
Rejected == [type |-> "none"]

decode(data) ==
    LET type == MessageTypes[parse_header(data).type]
        body == DecodeBody(DecodeFormat[type],
                           SubSeq(data, HEADER_SIZE + 1, Len(data)))
    IN  IF parse_header(data).magic = PROTO_MAGIC
           /\ type \in DOMAIN DecodeFormat /\ body.ok
        THEN [type |-> type, body |-> body.value]
        ELSE Rejected

\* Connection::receive from the bytes that have arrived: the message, and
\* where the next call begins to read.
receive(bytes) ==
    LET size == HEADER_SIZE + parse_header(bytes).length
    IN  [message |-> decode(SubSeq(bytes, 1, size)),
         rest |-> SubSeq(bytes, size + 1, Len(bytes))]
=============================================================================
