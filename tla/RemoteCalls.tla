----------------------------- MODULE RemoteCalls -----------------------------
(***************************************************************************)
(* The remote operations of Cluster (remote_get, remote_put, remote_delete *)
(* and the others of src/network/cluster.cpp) as the cache coordinator     *)
(* awaits them (cache_coordinator.cpp): an operation asks the nodes of its *)
(* key one after the other, on the connections that gossip uses too.       *)
(*                                                                         *)
(* handle_connection dispatches no request, so no node ever sends a        *)
(* response: whatever message an operation receives is not one, and its    *)
(* outcome is a failure that the coordinator passes over.  A node runs one *)
(* operation at a time.  The address a node gives out leads to its host.   *)
(***************************************************************************)
EXTENDS Cluster

CONSTANTS
    KeyHashes,          \* where the keys asked for hash to
    replication_factor

ASSUME RemoteAssumption ==
    KeyHashes \subseteq Hash /\ replication_factor \in Nat \ {0}

VARIABLES
    call, \* the operation a node runs: whom it asks, and how far it is
    calls \* history: the number of requests each node has begun

remotes == <<call, calls>>
allvars == <<vars, remotes>>

NoCall == [pc |-> "none"]

RemoteInit ==
    /\ Init
    /\ call = [n \in Nodes |-> NoCall]
    /\ calls = [n \in Nodes |-> 0]


\* nodes_for_key, without the node itself.
nodes_for_key(n, hash) ==
    SelectSeq(get_nodes(ring[n], hash, replication_factor), LAMBDA m : m # n)

Online(n, m) == peer[n][m] # NoConnection /\ connected[peer[n][m]][n]

\* The operation goes on with the next node, or is over.
NextNode(n) ==
    call' = [call EXCEPT ![n] =
        IF Len(@.ask) = 1 THEN NoCall
        ELSE [pc |-> "connect", ask |-> Tail(@.ask), type |-> @.type]]

\* The cluster part of the coordinator's get, put, remove or check.
replicate(n, hash, type) ==
    LET ask == nodes_for_key(n, hash)
    IN  /\ state[n] = "running" /\ call[n] = NoCall
        /\ ask # <<>> /\ calls[n] + Len(ask) <= MaxCalls[n]
        /\ call' = [call EXCEPT ![n] =
              [pc |-> "connect", ask |-> ask, type |-> type]]
        /\ UNCHANGED <<vars, calls>>

-----------------------------------------------------------------------------
(* A remote operation, on the first of the nodes to ask *)

Connecting(n) ==
    /\ Alive(n) /\ call[n].pc = "connect"
    /\ calls' = [calls EXCEPT ![n] = @ + 1]

Connected(n, c) ==
    call' = [call EXCEPT ![n] =
        [pc |-> "send", ask |-> @.ask, type |-> @.type, conn |-> c]]

\* The node has a connection ...
use_connection(n) ==
    LET m == Head(call[n].ask)
    IN  /\ Connecting(n) /\ Online(n, m)
        /\ Connected(n, peer[n][m])
        /\ UNCHANGED vars

\* ... or one is made, without a Hello and without a handler at this end,
\* to whoever listens at the node's address ...
make_connection(n) ==
    LET m == Head(call[n].ask)
        c == CallConnection(n, calls[n] + 1)
    IN  /\ Connecting(n) /\ ~Online(n, m)
        /\ \E p \in Nodes :
              /\ Host[p] = Host[m] /\ Alive(p)
              /\ remote' = [remote EXCEPT ![c] = p]
              /\ handler' = [handler EXCEPT ![c][p] = "first"]
              /\ connected' = [connected EXCEPT ![c][p] = TRUE, ![c][n] = TRUE]
        /\ peer' = [peer EXCEPT ![n][m] = c]
        /\ Connected(n, c)
        /\ UNCHANGED <<state, next_seed, nodes, ring, stream, round>>

\* ... or nobody listens there.
connection_refused(n) ==
    LET m == Head(call[n].ask)
    IN  /\ Connecting(n) /\ ~Online(n, m)
        /\ \A p \in Nodes : Host[p] = Host[m] => ~Alive(p)
        /\ NextNode(n)
        /\ UNCHANGED vars

send_request(n) ==
    LET c == call[n].conn
    IN  /\ Alive(n) /\ call[n].pc = "send"
        /\ \/ /\ Reachable(c, n)
              /\ Len(stream[c][Other(c, n)]) < MaxInFlight
              /\ stream' = [stream EXCEPT ![c][Other(c, n)] =
                    Append(@, [type |-> call[n].type, nodes |-> {}])]
              /\ call' = [call EXCEPT ![n].pc = "receive"]
              /\ UNCHANGED connected
           \/ /\ ~Reachable(c, n)
              /\ connected' = [connected EXCEPT ![c][n] = FALSE]
              /\ NextNode(n)
              /\ UNCHANGED stream
        /\ UNCHANGED <<state, next_seed, nodes, ring, peer, remote, handler,
                       round, calls>>

\* The next message is taken for the answer, ahead of the connection's
\* handler, which then never sees it.
receive_response(n) ==
    LET c == call[n].conn
    IN  /\ Alive(n) /\ call[n].pc = "receive"
        /\ stream[c][n] # <<>> /\ handler[c][n] # "closed"
        /\ stream' = [stream EXCEPT ![c][n] = Tail(@)]
        /\ NextNode(n)
        /\ UNCHANGED <<state, next_seed, nodes, ring, peer, remote, handler,
                       connected, round, calls>>

\* (mutant) only this end's handler closes the connection
receive_fails_here(n) ==
    LET c == call[n].conn
    IN  /\ Alive(n) /\ call[n].pc = "receive"
        /\ handler[c][n] = "closed"
        /\ connected' = [connected EXCEPT ![c][n] = FALSE]
        /\ NextNode(n)
        /\ UNCHANGED <<state, next_seed, nodes, ring, peer, remote, stream,
                       handler, round, calls>>

\* The connection is closed, at either end.
receive_fails(n) ==
    LET c == call[n].conn
    IN  /\ Alive(n) /\ call[n].pc = "receive"
        /\ handler[c][n] = "closed" \/ (stream[c][n] = <<>> /\ ~Reachable(c, n))
        /\ connected' = [connected EXCEPT ![c][n] = FALSE]
        /\ NextNode(n)
        /\ UNCHANGED <<state, next_seed, nodes, ring, peer, remote, stream,
                       handler, round, calls>>

\* (mutant) the request is left in the stream
receive_undecodable_again(n, c) ==
    /\ Alive(n) /\ handler[c][n] \in {"first", "loop"}
    /\ stream[c][n] # <<>> /\ ~Receives(n, c)
    /\ UNCHANGED allvars

\* At the peer receive returns nullopt for a request that decode rejects: the
\* handler closes the connection, and what is still in the stream is lost.
receive_undecodable(n, c) ==
    /\ Alive(n) /\ handler[c][n] \in {"first", "loop"}
    /\ stream[c][n] # <<>> /\ ~Receives(n, c)
    /\ stream' = [stream EXCEPT ![c][n] = <<>>]
    /\ connected' = [connected EXCEPT ![c][n] = FALSE]
    /\ handler' = [handler EXCEPT ![c][n] = "closed"]
    /\ UNCHANGED <<state, next_seed, nodes, ring, peer, remote, round, remotes>>

-----------------------------------------------------------------------------
(* The coroutine that runs an operation *)
Await(n) ==
    \/ use_connection(n) \/ make_connection(n) \/ connection_refused(n)
    \/ send_request(n) \/ receive_response(n) \/ receive_fails(n)

Stop(n) ==
    crash(n) /\ call' = [call EXCEPT ![n] = NoCall] /\ UNCHANGED calls

RemoteNext ==
    \E n \in Nodes :
        \/ (start(n) \/ Join(n) \/ gossip_loop(n)) /\ UNCHANGED remotes
        \/ Stop(n)
        \/ \E hash \in KeyHashes, type \in Request : replicate(n, hash, type)
        \/ Await(n)
        \/ \E c \in Connections :
              \/ handle_connection(n, c) /\ UNCHANGED remotes
              \/ receive_undecodable(n, c)

\* The scheduler resumes every coroutine that can go on, as long as the
\* process lives.
RemoteSpec ==
    /\ RemoteInit /\ [][RemoteNext]_allvars
    /\ \A n \in Nodes :
          /\ WF_allvars(Join(n) /\ UNCHANGED remotes)
          /\ WF_allvars(gossip_loop(n) /\ UNCHANGED remotes)
          /\ WF_allvars(Await(n))
          /\ \A c \in Connections :
                WF_allvars(\/ handle_connection(n, c) /\ UNCHANGED remotes
                           \/ receive_undecodable(n, c))

-----------------------------------------------------------------------------
\* An operation waits on a connection that nobody is at the other end of.
Stranded(n) ==
    /\ Alive(n) /\ call[n].pc \in {"send", "receive"}
    /\ ~Alive(Other(call[n].conn, n))

\* remote_get and the others: whenever a peer goes, at whatever step of a
\* request, the operation that was asking it goes on to the next node.  (One
\* whose peer lives and sends nothing on that connection waits for ever.)
LostPeerEndsCall == []<>(\A n \in Nodes : ~Stranded(n))
=============================================================================
