----------------------------- MODULE UnixSession -----------------------------
(***************************************************************************)
(* The C client (src/sdk/elcache_client.c) and the Unix socket server      *)
(* (src/network/unix_server.cpp) over stream connections.  A client makes  *)
(* one call at a time: it sends a request and blocks in recv, first for    *)
(* the header of a response and then for its payload.  The server runs     *)
(* one thread or coroutine per connection, which answers the requests in   *)
(* the order they arrive, on the shared SyncCache.                         *)
(*                                                                         *)
(* A request or a response header is one item of the stream, a response    *)
(* payload another.  The sparse upload calls have the framing of the       *)
(* others; what the server answers to them is in SparseCache.tla and is    *)
(* any code here.  Ranges of a get are left out.                           *)
(***************************************************************************)
EXTENDS Integers, SequencesExt

CONSTANTS
    Clients, Keys, Values, NoValue,
    Large,       \* values whose response does not fit recv_buffer
    Timeouts,    \* clients whose timeout_ms is not 0
    MaxRequests  \* bound on the requests of each client

ASSUME SessionAssumption ==
    /\ NoValue \notin Values /\ Large \subseteq Values
    /\ Timeouts \subseteq Clients /\ MaxRequests \in [Clients -> Nat]

Ops == {"get", "put", "delete", "create", "write", "finalize"}

VARIABLES
    call,      \* the call each client is in, or has returned from
    next_id,   \* next_request_id
    requests,  \* the stream to the server
    responses, \* the stream from the server
    garbled,   \* the client's read position is inside a message
    replying,  \* the payload the server has yet to write
    closed,    \* the server has closed the connection
    orphans,   \* streams the server still reads from dead connections
    running,   \* running_
    data,      \* SyncCache::data_
    effect,    \* history: the last request of each client that was executed
    in_step    \* history: no call left its answer unread on the connection

connection == <<requests, responses, garbled, replying, closed>>
vars == <<call, next_id, connection, orphans, running, data, effect, in_step>>

Idle == [pc |-> "idle"]
NoReply == [code |-> -1, value |-> NoValue]

Init ==
    /\ call = [c \in Clients |-> Idle]
    /\ next_id = [c \in Clients |-> 1]
    /\ requests = [c \in Clients |-> <<>>]
    /\ responses = [c \in Clients |-> <<>>]
    /\ garbled = [c \in Clients |-> FALSE]
    /\ replying = [c \in Clients |-> NoReply]
    /\ closed = [c \in Clients |-> FALSE]
    /\ orphans = {}
    /\ running = TRUE
    /\ data = [k \in Keys |-> NoValue]
    /\ effect = [c \in Clients |-> [id |-> 0, code |-> 0, value |-> NoValue]]
    /\ in_step = [c \in Clients |-> TRUE]

AtRest(c) == call[c].pc \in {"idle", "done"}

-----------------------------------------------------------------------------
(* The client *)

\* The codes of the responses, as each call reports them.
Decode(op, code) ==
    CASE code = 0 -> "OK"
      [] op = "get" /\ code = 1 -> "NOT_FOUND"
      [] op = "delete" -> "OK"
      [] op \in {"write", "finalize"} /\ code = 1 -> "NOT_FOUND"
      [] op = "write" /\ code = 2 -> "INVALID_ARG"
      [] op = "finalize" /\ code = 2 -> "PARTIAL"
      [] OTHER -> "INTERNAL"

\* What a call may return that takes other bytes for its response.
AnyResult(op) == {"CONNECTION"} \cup {Decode(op, code) : code \in 0..3}

Return(c, result, value) ==
    call' = [call EXCEPT ![c] =
        [pc |-> "done", op |-> call[c].op, id |-> call[c].id,
         result |-> result, value |-> value]]

\* Return before the answer was read: it stays in the stream.
GiveUp(c, result) ==
    /\ Return(c, result, NoValue)
    /\ in_step' = [in_step EXCEPT ![c] = FALSE]

\* (mutant) the id of a request is used again
send_all_same_id(c, op, k, v) ==
    /\ AtRest(c) /\ ~closed[c]
    /\ next_id[c] <= MaxRequests[c] /\ requests[c] = <<>>
    /\ requests' = [requests EXCEPT ![c] =
          Append(@, [op |-> op, key |-> k, value |-> v, id |-> next_id[c]])]
    /\ call' = [call EXCEPT ![c] =
          [pc |-> "header", op |-> op, id |-> next_id[c]]]
    /\ UNCHANGED <<next_id, responses, garbled, replying, closed, orphans,
                   running, data, effect, in_step>>

\* elcache_client_get, _put, _delete, _create_sparse, _write_range, _finalize
\* up to their first recv.  A put request must fit send_buffer.
send_all(c, op, k, v) ==
    /\ AtRest(c) /\ ~closed[c]
    /\ v \in CASE op = "put" -> Values \ Large
               [] op = "finalize" -> Values
               [] OTHER -> {NoValue}
    /\ next_id[c] <= MaxRequests[c]
    /\ requests' = [requests EXCEPT ![c] =
          Append(@, [op |-> op, key |-> k, value |-> v, id |-> next_id[c]])]
    /\ call' = [call EXCEPT ![c] =
          [pc |-> "header", op |-> op, id |-> next_id[c]]]
    /\ next_id' = [next_id EXCEPT ![c] = @ + 1]
    /\ UNCHANGED <<responses, garbled, replying, closed, orphans, running,
                   data, effect, in_step>>

\* recv_all of a header at a message boundary.  Only get looks at the type
\* and at the length, and returns without reading the payload; the others
\* read a payload of any length into recv_buffer.
recv_header(c) ==
    LET header == Head(responses[c])
    IN  /\ call[c].pc = "header" /\ ~garbled[c] /\ responses[c] # <<>>
        /\ responses' = [responses EXCEPT ![c] = Tail(@)]
        /\ \/ /\ call[c].op = "get" /\ header.op # "get"
              /\ GiveUp(c, "PROTOCOL")
              /\ garbled' = [garbled EXCEPT ![c] = TRUE]
           \/ /\ call[c].op = "get" /\ header.op = "get" /\ header.large
              /\ GiveUp(c, "BUFFER_TOO_SMALL")
              /\ garbled' = [garbled EXCEPT ![c] = TRUE]
           \/ /\ call[c].op # "get" /\ header.large \* undefined behaviour
              /\ \E result \in AnyResult(call[c].op) : GiveUp(c, result)
              /\ garbled' = [garbled EXCEPT ![c] = TRUE]
           \/ /\ ~header.large /\ (call[c].op = "get" => header.op = "get")
              /\ call' = [call EXCEPT ![c].pc = "payload"]
              /\ UNCHANGED <<garbled, in_step>>
        /\ UNCHANGED <<next_id, requests, replying, closed, orphans, running,
                       data, effect>>

\* recv_all of a header inside a message: get finds no magic number; the
\* others take any length and any code from what they read.
recv_garbled(c) ==
    /\ call[c].pc = "header" /\ garbled[c] /\ responses[c] # <<>>
    /\ \E result \in IF call[c].op = "get" THEN {"PROTOCOL"}
                     ELSE AnyResult(call[c].op) :
          GiveUp(c, result)
    /\ UNCHANGED <<next_id, connection, orphans, running, data, effect>>

\* recv_all of the payload, and what the call makes of it.
recv_payload(c) ==
    LET payload == Head(responses[c])
    IN  /\ call[c].pc = "payload" /\ responses[c] # <<>>
        /\ responses' = [responses EXCEPT ![c] = Tail(@)]
        /\ Return(c, Decode(call[c].op, payload.code),
                  IF call[c].op = "get" THEN payload.value ELSE NoValue)
        /\ UNCHANGED <<next_id, requests, garbled, replying, closed, orphans,
                       running, data, effect, in_step>>

\* (mutant) EAGAIN, too, makes recv_all try again
Timeout_retries(c) == FALSE

\* recv fails with EAGAIN; the connection is kept.
Timeout(c) ==
    /\ c \in Timeouts
    /\ call[c].pc \in {"header", "payload"} /\ responses[c] = <<>>
    /\ GiveUp(c, "CONNECTION")
    /\ garbled' = [garbled EXCEPT ![c] = @ \/ call[c].pc = "payload"]
    /\ UNCHANGED <<next_id, requests, responses, replying, closed, orphans,
                   running, data, effect>>

\* recv returns 0.
recv_closed(c) ==
    /\ call[c].pc \in {"header", "payload"}
    /\ responses[c] = <<>> /\ closed[c]
    /\ GiveUp(c, "CONNECTION")
    /\ UNCHANGED <<next_id, connection, orphans, running, data, effect>>

\* (mutant) the old socket is kept
connect_unix_keeps(c) ==
    /\ AtRest(c) /\ call[c] # Idle /\ running
    /\ call' = [call EXCEPT ![c] = Idle]
    /\ garbled' = [garbled EXCEPT ![c] = FALSE]
    /\ closed' = [closed EXCEPT ![c] = FALSE]
    /\ in_step' = [in_step EXCEPT ![c] = TRUE]
    /\ UNCHANGED <<next_id, requests, responses, replying, orphans, running,
                   data, effect>>

\* elcache_client_disconnect and connect_unix.  What the server has not read
\* it still reads from the old connection, whose answers go nowhere.
connect_unix(c) ==
    /\ AtRest(c) /\ call[c] # Idle /\ running
    /\ orphans' = orphans \cup ({requests[c]} \ {<<>>})
    /\ requests' = [requests EXCEPT ![c] = <<>>]
    /\ responses' = [responses EXCEPT ![c] = <<>>]
    /\ garbled' = [garbled EXCEPT ![c] = FALSE]
    /\ replying' = [replying EXCEPT ![c] = NoReply]
    /\ closed' = [closed EXCEPT ![c] = FALSE]
    /\ call' = [call EXCEPT ![c] = Idle]
    /\ in_step' = [in_step EXCEPT ![c] = TRUE]
    /\ UNCHANGED <<next_id, running, data, effect>>

-----------------------------------------------------------------------------
(* The server *)

\* What the handler of a request leaves in SyncCache.
Execute(r, code) ==
    data' = [data EXCEPT ![r.key] =
        CASE r.op = "put" \/ (r.op = "finalize" /\ code = 0) -> r.value
          [] r.op = "delete" -> NoValue
          [] OTHER -> @]

\* get: hit or miss; put and delete: success; the rest is SparseCache's.
Codes(r) ==
    CASE r.op = "get" -> {IF data[r.key] = NoValue THEN 1 ELSE 0}
      [] r.op \in {"put", "delete"} -> {0}
      [] r.op = "create" -> {0, 1}
      [] OTHER -> {0, 1, 2}

\* handle_get puts the value into its response.
ResponseValue(r) == IF r.op = "get" THEN data[r.key] ELSE NoValue

\* process_request: read a request, execute it, send the header ...
process_request(c) ==
    LET r == Head(requests[c])
        value == ResponseValue(r)
    IN  /\ requests[c] # <<>> /\ replying[c] = NoReply /\ ~closed[c]
        /\ requests' = [requests EXCEPT ![c] = Tail(@)]
        /\ responses' = [responses EXCEPT ![c] =
              Append(@, [op |-> r.op, id |-> r.id, large |-> value \in Large])]
        /\ \E code \in Codes(r) :
              /\ Execute(r, code)
              /\ replying' = [replying EXCEPT ![c] =
                    [code |-> code, value |-> value]]
              /\ effect' = [effect EXCEPT ![c] =
                    [id |-> r.id, code |-> code, value |-> value]]
        /\ UNCHANGED <<call, next_id, garbled, closed, orphans, running,
                       in_step>>

\* ... and the payload.  The handler ends when the server is stopping.
send_response(c) ==
    /\ replying[c] # NoReply
    /\ responses' = [responses EXCEPT ![c] = Append(@, replying[c])]
    /\ replying' = [replying EXCEPT ![c] = NoReply]
    /\ closed' = [closed EXCEPT ![c] = ~running]
    /\ UNCHANGED <<call, next_id, requests, garbled, orphans, running, data,
                   effect, in_step>>

\* A request read from a connection the client has closed.
process_orphan(stream) ==
    /\ orphans' = (orphans \ {stream}) \cup
          (IF running THEN {Tail(stream)} \ {<<>>} ELSE {})
    /\ \E code \in Codes(Head(stream)) : Execute(Head(stream), code)
    /\ UNCHANGED <<call, next_id, connection, running, effect, in_step>>

\* stop; handlers that wait for a request go on waiting.
stop ==
    /\ running
    /\ running' = FALSE
    /\ UNCHANGED <<call, next_id, connection, orphans, data, effect, in_step>>

\* main returns, and the kernel closes the connections.
exit ==
    /\ ~running
    /\ closed' = [c \in Clients |-> TRUE]
    /\ replying' = [c \in Clients |-> NoReply]
    /\ requests' = [c \in Clients |-> <<>>]
    /\ orphans' = {}
    /\ UNCHANGED <<call, next_id, responses, garbled, running, data, effect,
                   in_step>>

\* The next process starts with an empty SyncCache.
start ==
    /\ ~running /\ \A c \in Clients : closed[c]
    /\ running' = TRUE
    /\ data' = [k \in Keys |-> NoValue]
    /\ orphans' = {}
    /\ UNCHANGED <<call, next_id, connection, effect, in_step>>

-----------------------------------------------------------------------------
Receive(c) ==
    \/ recv_header(c)
    \/ recv_garbled(c)
    \/ recv_payload(c)
    \/ recv_closed(c)
    \/ Timeout(c)

Server(c) == process_request(c) \/ send_response(c)

Next ==
    \/ \E c \in Clients : Receive(c) \/ Server(c) \/ connect_unix(c)
    \/ \E c \in Clients, op \in Ops, k \in Keys,
          v \in Values \cup {NoValue} : send_all(c, op, k, v)
    \/ \E stream \in orphans : process_orphan(stream)
    \/ stop
    \/ exit
    \/ start

Spec == Init /\ [][Next]_vars

\* The client's thread keeps running, and recv ends when its timeout passes.
\* Nothing is assumed of the server.
FairSpec == Spec /\ \A c \in Clients : WF_vars(Receive(c))

-----------------------------------------------------------------------------
\* The server reads and executes requests whose ids the client gave out, each
\* id to one request, and stores what they carry.
TypeOK ==
    /\ data \in [Keys -> Values \cup {NoValue}]
    /\ \A c \in Clients :
          /\ next_id[c] \in 1..(MaxRequests[c] + 1)
          /\ \A i \in DOMAIN requests[c] : requests[c][i].id < next_id[c]
          /\ effect[c].id < next_id[c]

\* elcache_client_*: a call on a connection on which no earlier call was cut
\* short returns what the server did for this very request, executed between
\* the call and its return: the ids match although nobody compares them.
AnswerIsMine ==
    \A c \in Clients : call[c].pc = "done" /\ in_step[c] =>
        /\ effect[c].id = call[c].id
        /\ call[c].result = Decode(call[c].op, effect[c].code)
        /\ call[c].value = effect[c].value

\* elcache_client_finalize (docs/SDK.md, "ELCACHE_OK - Entry finalized and
\* available in cache"): the server has finalized the entry of a call that
\* returned OK on whole messages, though an earlier call timed out.
FinalizedIsAvailable ==
    \A c \in Clients :
        /\ call[c].pc = "done" /\ ~garbled[c]
        /\ call[c].op = "finalize" /\ call[c].result = "OK"
        => effect[c].id = call[c].id /\ effect[c].code = 0

\* elcache_client_set_timeout: every call of a client that has a timeout
\* returns, also when the server hangs, stops or exits.
CallReturns ==
    \A c \in Timeouts : ~AtRest(c) ~> AtRest(c)
=============================================================================
