--------------------------- MODULE ClientProtocol ---------------------------
(***************************************************************************)
(* One call of the C SDK over a Unix socket, as bytes: the request that    *)
(* the SDK writes (src/sdk/elcache_client.c), what the server reads from   *)
(* it and writes back (src/network/unix_server.cpp), and what the SDK      *)
(* makes of that.  When calls meet on a socket, and time out, is in        *)
(* UnixSession; what SparseCache's operations do is in SparseCache.        *)
(***************************************************************************)
EXTENDS Wire

\* The order of the calls stands for the type codes; a response has its
\* request's.
CallTypes == <<"Get", "Put", "Delete", "CreateSparse", "WriteRange",
               "Finalize">>

CallCode(type) == CHOOSE i \in DOMAIN CallTypes : CallTypes[i] = type

-----------------------------------------------------------------------------
(* The SDK's request.  args are the arguments of the call; has_range and   *)
(* has_ttl leave out what the options do not ask for.                      *)

Option(there, v) == IF there THEN <<v>> ELSE <<>>

KeyField == << Field("key", "bytes") >>
OffsetLength == << Field("offset", "u64"), Field("length", "u64") >>
TTLAndFlags ==
    << Nested("ttl", "optional", << Field("seconds", "u64") >>),
       Field("flags", "u32") >>

elcache_client_get ==
    KeyField \o << Field("metadata_only", "flag"),
                   Nested("range", "optional", OffsetLength) >>
elcache_client_put == KeyField \o << Field("value", "bytes") >> \o TTLAndFlags
elcache_client_delete == KeyField
elcache_client_create_sparse ==
    KeyField \o << Field("total_size", "u64") >> \o TTLAndFlags
elcache_client_write_range ==
    KeyField \o << Field("offset", "u64"), Field("data", "bytes") >>
elcache_client_finalize == KeyField

ClientFormat == [
    Get |-> elcache_client_get, Put |-> elcache_client_put,
    Delete |-> elcache_client_delete,
    CreateSparse |-> elcache_client_create_sparse,
    WriteRange |-> elcache_client_write_range,
    Finalize |-> elcache_client_finalize ]


\* A range from the start without a length is the entire value.
has_range(options) == options.offset > 0 \/ options.length > 0

request_body(type, args) ==
    CASE type = "Get" ->
            [key |-> args.key, metadata_only |-> FALSE,
             range |-> Option(has_range(args.options), args.options)]
      [] type \in {"Put", "CreateSparse"} ->
            [ttl |-> Option(args.ttl > 0, [seconds |-> args.ttl])] @@ args
      [] OTHER -> args

client_request(type, args, request_id) ==
    LET payload == EncodeBody(ClientFormat[type], request_body(type, args))
    IN  encode_header(CallCode(type), Len(payload), request_id) \o payload

-----------------------------------------------------------------------------
(* The server: what each handler reads.  The rest of a payload is ignored.  *)

handle_get_thread ==
    KeyField \o << Field("metadata_only", "flag"),
                   Nested("range", "optional", OffsetLength) >>
handle_put_thread == KeyField \o << Field("value", "bytes") >>
handle_delete_thread == KeyField
handle_create_sparse_thread == KeyField \o << Field("total_size", "u64") >>
handle_write_range_thread ==
    KeyField \o << Field("offset", "u64"), Field("data", "bytes") >>
handle_finalize_thread == KeyField

ServerFormat == [
    Get |-> handle_get_thread, Put |-> handle_put_thread,
    Delete |-> handle_delete_thread,
    CreateSparse |-> handle_create_sparse_thread,
    WriteRange |-> handle_write_range_thread,
    Finalize |-> handle_finalize_thread ]

\* The request that is handled; args is not ok when the payload is too short.
process_request_thread(bytes) ==
    LET header == parse_header(bytes)
        type == CallTypes[header.type]
        body == DecodeBody(ServerFormat[type],
                           SubSeq(bytes, HEADER_SIZE + 1,
                                  HEADER_SIZE + header.length))
    IN  [type |-> type, request_id |-> header.request_id, args |-> body]

\* handle_get_thread: the part of the value that the range selects.  A length of 0
\* goes to the end.
Selected(value, range) ==
    IF range = <<>> THEN value
    ELSE IF range[1].offset >= Len(value) THEN <<>>
    ELSE LET available == Len(value) - range[1].offset
             length == range[1].length
             to_copy == IF length > 0 /\ length < available THEN length
                        ELSE available
         IN  SubSeq(value, range[1].offset + 1, range[1].offset + to_copy)

ResponseFormat ==
    << Field("result", "u32"), Field("has_meta", "flag"),
       Field("data", "bytes") >>

send_response_sync(type, request_id, payload) ==
    encode_header(CallCode(type), Len(payload), request_id) \o payload

\* stored is <<>> or <<the value>> under the key.
get_response(request, stored) ==
    LET data == IF stored = <<>> THEN <<>>
                ELSE Selected(stored[1], request.args.value.range)
    IN  send_response_sync("Get", request.request_id,
            EncodeBody(ResponseFormat,
                [result |-> IF stored = <<>> THEN 1 ELSE 0,
                 has_meta |-> FALSE, data |-> data]))

\* The other handlers answer with a code.
code_response(request, code) ==
    send_response_sync(request.type, request.request_id, encode_u32(code))

-----------------------------------------------------------------------------
(* The SDK's reading of the response *)

Payload(bytes) ==
    SubSeq(bytes, HEADER_SIZE + 1, HEADER_SIZE + parse_header(bytes).length)

ClientResponseFormat ==
    << Field("result", "u32"),
       Nested("metadata", "optional",
              << Field("total_size", "u64"), Field("chunk_count", "u64"),
                 Field("flags", "u32") >>),
       Field("data", "bytes") >>

get_result(bytes, buffer_size) ==
    LET header == parse_header(bytes)
        body == DecodeBody(ClientResponseFormat, Payload(bytes)).value
    IN  IF header.magic # PROTO_MAGIC \/ header.type # CallCode("Get")
        THEN [error |-> "PROTOCOL"]
        ELSE IF body.result = 1 THEN [error |-> "NOT_FOUND"]
        ELSE IF Len(body.data) > buffer_size THEN [error |-> "BUFFER_TOO_SMALL"]
        ELSE [error |-> IF body.result = 2 THEN "PARTIAL" ELSE "OK",
              value |-> body.data]

\* The error a call returns for a code; elcache_client_delete reads none.
code_result(type, bytes) ==
    LET code == decode_u32(Payload(bytes)).value
    IN  IF type = "Delete" \/ code = 0 THEN "OK"
        ELSE IF type \in {"WriteRange", "Finalize"} /\ code = 1
        THEN "NOT_FOUND"
        ELSE IF type = "WriteRange" /\ code = 2 THEN "INVALID_ARG"
        ELSE IF type = "Finalize" /\ code = 2 THEN "PARTIAL"
        ELSE "INTERNAL"
=============================================================================
