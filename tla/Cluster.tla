------------------------------- MODULE Cluster -------------------------------
(***************************************************************************)
(* Membership (Cluster, Connection and GossipProtocol of                   *)
(* src/network/cluster.cpp).  A node connects to its seeds one after the   *)
(* other, exchanging Hello and HelloAck, and then pushes all the nodes it  *)
(* knows to its peers, periodically.  Each connection has a handler at     *)
(* both ends, which runs concurrently with the gossip loop.  The remote    *)
(* operations, which use the same connections, are in RemoteCalls.         *)
(*                                                                         *)
(* Every process start makes a new node id, so a node starts at most once; *)
(* a restarted process is another node at the same host.  What a NodeInfo  *)
(* carries beyond its id never changes (generation is always 1, and update *)
(* keeps the older of equal generations), so it is left out; last_heard_,  *)
(* which nothing but check_failures reads, is left out too.                *)
(***************************************************************************)
EXTENDS HashRing

CONSTANTS
    Host,        \* the address of each node
    Seeds,       \* seed_nodes of each node: a sequence of addresses
    NoNode,
    MaxInFlight, \* bound on the messages in a stream
    Mortal,      \* the nodes whose processes may end
    MaxCalls     \* bound on the remote operations of each node

ASSUME ClusterAssumption ==
    /\ Seeds \in [Nodes -> Seq({Host[n] : n \in Nodes})]
    /\ \A n \in Nodes : Host[n] \notin ToSet(Seeds[n])
    /\ NoNode \notin Nodes /\ MaxInFlight \in Nat \ {0}
    /\ MaxCalls \in [Nodes -> Nat] /\ Mortal \subseteq Nodes

VARIABLES
    state,     \* of the process: new, seeding, running or dead
    next_seed, \* the seed connect_to_seeds is at
    nodes,     \* nodes_
    ring,      \* hash_ring_
    peer,      \* connection() of every node known
    remote,    \* the node that accepted a connection
    stream,    \* messages on the way to an end of a connection
    handler,   \* what the coroutine at an end of a connection does
    connected, \* connected_ of an end
    round      \* the gossip round: whom to send what

links == <<remote, stream, handler, connected>>
vars == <<state, next_seed, nodes, ring, peer, links, round>>

\* The connection a node makes to one of its seeds, and the one that its
\* i-th remote operation makes.
SeedConnection(n, i) == <<n, i>>
CallConnection(n, i) == <<n, Len(Seeds[n]) + i>>
Connections ==
    UNION {{<<n, i>> : i \in 1..(Len(Seeds[n]) + MaxCalls[n])} : n \in Nodes}
NoConnection == <<>>

\* A remote operation sends a request that Codec::decode knows (Get, Put,
\* Delete) or one that it rejects (Check and the chunk requests).
Request == {"request", "undecodable"}

\* hello and ack carry their sender, push all the nodes the sender knows.
Message == [type : {"hello", "ack", "push"} \cup Request,
            nodes : SUBSET Nodes]
NoRound == [targets |-> {}, nodes |-> {}]

Init ==
    /\ state = [n \in Nodes |-> "new"]
    /\ next_seed = [n \in Nodes |-> 1]
    /\ nodes = [n \in Nodes |-> {}]
    /\ ring = [n \in Nodes |-> EmptyRing]
    /\ peer = [n \in Nodes |-> [m \in Nodes |-> NoConnection]]
    /\ remote = [c \in Connections |-> NoNode]
    /\ stream = [c \in Connections |-> [n \in Nodes |-> <<>>]]
    /\ handler = [c \in Connections |-> [n \in Nodes |-> "none"]]
    /\ connected = [c \in Connections |-> [n \in Nodes |-> FALSE]]
    /\ round = [n \in Nodes |-> NoRound]

Alive(n) == state[n] \in {"seeding", "running"}

\* The other end.
Other(c, n) == IF c[1] = n THEN remote[c] ELSE c[1]

\* Whether the kernel still has somebody at the other end.
Reachable(c, n) == connected[c][Other(c, n)] /\ Alive(Other(c, n))

-----------------------------------------------------------------------------
\* handle_node_update of the ids.
handle_node_update(n, ids) ==
    /\ nodes' = [nodes EXCEPT ![n] = @ \cup ids]
    /\ ring' = [ring EXCEPT ![n] =
          FoldLeft(add_node, @, SetToSeq(ids \ nodes[n]))]

\* The constructor, and start up to connect_to_seeds.
start(n) ==
    /\ state[n] = "new"
    /\ \A m \in Nodes : Host[m] = Host[n] => ~Alive(m) \* bind succeeds
    /\ state' = [state EXCEPT ![n] = "seeding"]
    /\ handle_node_update(n, {n})
    /\ UNCHANGED <<next_seed, peer, links, round>>

\* connect_to_node fails.
connect_refused(n) ==
    /\ state[n] = "seeding" /\ next_seed[n] \in DOMAIN Seeds[n]
    /\ remote[SeedConnection(n, next_seed[n])] = NoNode
    /\ \A m \in Nodes : Host[m] = Seeds[n][next_seed[n]] => ~Alive(m)
    /\ next_seed' = [next_seed EXCEPT ![n] = @ + 1]
    /\ UNCHANGED <<state, nodes, ring, peer, links, round>>

\* connect_to_node succeeds; the Hello is sent.
connect_to_node(n) ==
    LET c == SeedConnection(n, next_seed[n])
    IN  /\ state[n] = "seeding" /\ next_seed[n] \in DOMAIN Seeds[n]
        /\ remote[c] = NoNode
        /\ \E m \in Nodes :
              /\ Host[m] = Seeds[n][next_seed[n]] /\ Alive(m)
              /\ remote' = [remote EXCEPT ![c] = m]
              /\ stream' = [stream EXCEPT ![c][m] =
                    <<[type |-> "hello", nodes |-> {n}]>>]
              /\ handler' = [handler EXCEPT ![c][m] = "first",
                                            ![c][n] = "seeding"]
              /\ connected' = [connected EXCEPT ![c][m] = TRUE,
                                                ![c][n] = TRUE]
        /\ UNCHANGED <<state, next_seed, nodes, ring, peer, round>>

\* receive in connect_to_seeds: anything but an ack gives the seed up.
receive_ack(n) ==
    LET c == SeedConnection(n, next_seed[n])
        message == Head(stream[c][n])
    IN  /\ state[n] = "seeding" /\ next_seed[n] \in DOMAIN Seeds[n]
        /\ handler[c][n] = "seeding" /\ stream[c][n] # <<>>
        /\ stream' = [stream EXCEPT ![c][n] = Tail(@)]
        /\ next_seed' = [next_seed EXCEPT ![n] = @ + 1]
        /\ \/ /\ message.type = "ack"
              /\ handle_node_update(n, message.nodes)
              /\ peer' = [peer EXCEPT ![n][remote[c]] = c]
              /\ handler' = [handler EXCEPT ![c][n] = "first"]
              /\ UNCHANGED connected
           \/ /\ message.type # "ack"
              /\ handler' = [handler EXCEPT ![c][n] = "closed"]
              /\ connected' = [connected EXCEPT ![c][n] = FALSE]
              /\ UNCHANGED <<nodes, ring, peer>>
        /\ UNCHANGED <<state, remote, round>>

\* The seed list is done: gossip_->start.
seeded(n) ==
    /\ state[n] = "seeding" /\ next_seed[n] \notin DOMAIN Seeds[n]
    /\ state' = [state EXCEPT ![n] = "running"]
    /\ UNCHANGED <<next_seed, nodes, ring, peer, links, round>>

-----------------------------------------------------------------------------
(* handle_connection at an end of connection c *)

\* receive returns a message.
Receives(n, c) ==
    /\ Alive(n) /\ stream[c][n] # <<>>
    /\ Head(stream[c][n]).type # "undecodable"

\* The first message: a Hello names the peer of the connection ...
handle_hello(n, c) ==
    LET message == Head(stream[c][n])
    IN  /\ Receives(n, c) /\ handler[c][n] = "first"
        /\ stream' = [stream EXCEPT ![c][n] = Tail(@)]
        /\ \/ /\ message.type = "hello"
              /\ handle_node_update(n, message.nodes)
              /\ peer' = [peer EXCEPT ![n] = [m \in Nodes |->
                    IF m \in message.nodes THEN c ELSE @[m]]]
              /\ handler' = [handler EXCEPT ![c][n] = "greeted"]
           \/ /\ message.type # "hello"  \* and any other is dropped
              /\ handler' = [handler EXCEPT ![c][n] =
                    IF connected[c][n] THEN "loop" ELSE "closed"]
              /\ UNCHANGED <<nodes, ring, peer>>
        /\ UNCHANGED <<state, next_seed, remote, connected, round>>

\* ... and is answered, after the peer can be gossiped with.
send_ack(n, c) ==
    /\ Alive(n) /\ handler[c][n] = "greeted"
    /\ Len(stream[c][Other(c, n)]) < MaxInFlight
    /\ IF Reachable(c, n)
       THEN /\ handler' = [handler EXCEPT ![c][n] = "loop"]
            /\ stream' = [stream EXCEPT ![c][Other(c, n)] =
                  Append(@, [type |-> "ack", nodes |-> {n}])]
            /\ UNCHANGED connected
       ELSE /\ handler' = [handler EXCEPT ![c][n] = "closed"]
            /\ connected' = [connected EXCEPT ![c][n] = FALSE]
            /\ UNCHANGED stream
    /\ UNCHANGED <<state, next_seed, nodes, ring, peer, remote, round>>

\* (mutant) only the sender of a push is taken over
handle_push_sender(n, c) ==
    LET message == Head(stream[c][n])
    IN  /\ Receives(n, c) /\ handler[c][n] = "loop"
        /\ stream' = [stream EXCEPT ![c][n] = Tail(@)]
        /\ handle_node_update(n, message.nodes \cap {Other(c, n)})
        /\ UNCHANGED <<state, next_seed, peer, remote, handler, connected,
                       round>>

\* The loop: handle_push; the other messages change nothing.  The condition
\* of the loop is read when a message has been handled.
handle_push(n, c) ==
    LET message == Head(stream[c][n])
    IN  /\ Receives(n, c) /\ handler[c][n] = "loop"
        /\ stream' = [stream EXCEPT ![c][n] = Tail(@)]
        /\ handle_node_update(n,
              IF message.type = "push" THEN message.nodes ELSE {})
        /\ handler' = [handler EXCEPT ![c][n] =
              IF connected[c][n] THEN @ ELSE "closed"]
        /\ UNCHANGED <<state, next_seed, peer, remote, connected, round>>

\* receive finds the connection closed; connect_to_seeds then goes on.
receive_nothing(n, c) ==
    /\ Alive(n) /\ handler[c][n] \in {"seeding", "first", "loop"}
    /\ stream[c][n] = <<>> /\ ~Reachable(c, n)
    /\ connected' = [connected EXCEPT ![c][n] = FALSE]
    /\ handler' = [handler EXCEPT ![c][n] = "closed"]
    /\ next_seed' = [next_seed EXCEPT ![n] =
          IF handler[c][n] = "seeding" THEN @ + 1 ELSE @]
    /\ UNCHANGED <<state, nodes, ring, peer, remote, stream, round>>

-----------------------------------------------------------------------------
\* gossip_round up to its first send.  The fanout is as large as the cluster.
gossip_round(n) ==
    /\ state[n] = "running" /\ round[n] = NoRound
    /\ nodes[n] # {n}
    /\ round' = [round EXCEPT ![n] =
          [targets |-> nodes[n] \ {n}, nodes |-> nodes[n]]]
    /\ UNCHANGED <<state, next_seed, nodes, ring, peer, links>>

\* A target is skipped, or sent the push; connected_ falls if that fails.
gossip_send(n, m) ==
    LET c == peer[n][m]
        online == c # NoConnection /\ connected[c][n]
    IN  /\ state[n] = "running" /\ m \in round[n].targets
        /\ \/ /\ ~online
              /\ UNCHANGED <<stream, connected>>
           \/ /\ online /\ ~Reachable(c, n)
              /\ connected' = [connected EXCEPT ![c][n] = FALSE]
              /\ UNCHANGED stream
           \/ /\ online /\ Reachable(c, n)
              /\ Len(stream[c][Other(c, n)]) < MaxInFlight
              /\ stream' = [stream EXCEPT ![c][Other(c, n)] =
                    Append(@, [type |-> "push", nodes |-> round[n].nodes])]
              /\ UNCHANGED connected
        /\ round' = [round EXCEPT ![n] =
              IF @.targets = {m} THEN NoRound ELSE [@ EXCEPT !.targets = @ \ {m}]]
        /\ UNCHANGED <<state, next_seed, nodes, ring, peer, remote, handler>>

\* stop, or the end of the process: what it knew and what it had not read
\* are gone.
crash(n) ==
    /\ Alive(n) /\ n \in Mortal
    /\ state' = [state EXCEPT ![n] = "dead"]
    /\ next_seed' = [next_seed EXCEPT ![n] = 1]
    /\ nodes' = [nodes EXCEPT ![n] = {}]
    /\ ring' = [ring EXCEPT ![n] = EmptyRing]
    /\ peer' = [peer EXCEPT ![n] = [m \in Nodes |-> NoConnection]]
    /\ stream' = [c \in Connections |-> [stream[c] EXCEPT ![n] = <<>>]]
    /\ handler' = [c \in Connections |-> [handler[c] EXCEPT ![n] = "none"]]
    /\ connected' = [c \in Connections |-> [connected[c] EXCEPT ![n] = FALSE]]
    /\ round' = [round EXCEPT ![n] = NoRound]
    /\ UNCHANGED remote

-----------------------------------------------------------------------------
(* The coroutines of a process: start, the handlers and the gossip loop. *)
Join(n) ==
    connect_refused(n) \/ connect_to_node(n) \/ receive_ack(n) \/ seeded(n)

handle_connection(n, c) ==
    \/ handle_hello(n, c)
    \/ send_ack(n, c)
    \/ handle_push(n, c)
    \/ receive_nothing(n, c)

gossip_loop(n) == gossip_round(n) \/ \E m \in Nodes : gossip_send(n, m)

Next ==
    \E n \in Nodes :
        \/ start(n) \/ Join(n) \/ gossip_loop(n) \/ crash(n)
        \/ \E c \in Connections : handle_connection(n, c)

Spec == Init /\ [][Next]_vars

\* The scheduler resumes every coroutine that can go on, as long as the
\* process lives.
FairSpec ==
    /\ Spec
    /\ \A n \in Nodes :
          /\ WF_vars(Join(n)) /\ WF_vars(gossip_loop(n))
          /\ \A c \in Connections : WF_vars(handle_connection(n, c))

-----------------------------------------------------------------------------
\* Streams are bounded, and every ring holds exactly the points of the nodes
\* known: nodes_ and hash_ring_ are changed together.
TypeOK ==
    /\ nodes \in [Nodes -> SUBSET Nodes]
    /\ \A c \in Connections, n \in Nodes :
          /\ stream[c][n] \in Seq(Message) /\ Len(stream[c][n]) <= MaxInFlight
    /\ \A n \in Nodes : DOMAIN ring[n] = UNION {Points(m) : m \in nodes[n]}


\* nodes_for_key: however a ring has grown, the nodes of a key are the nearest
\* of the nodes known, different and as many as asked for, wherever the key
\* hashes to.
RoutesToNearest ==
    [][\A n \in Nodes : ring'[n] # ring[n] =>
          \A hash \in Hash, count \in 0..(Cardinality(Nodes) + 1) :
              AreNearest(get_nodes(ring'[n], hash, count),
                         nodes'[n], hash, count)]_vars

\* add_node: when a node learns of others, a key stays where it was or moves
\* to one of them.
Owner(hashring, hash) == get_nodes(hashring, hash, 1)[1]
KeysMoveToNew ==
    [][\A n \in Nodes : ring'[n] # ring[n] /\ nodes[n] # {} /\ Alive(n)' =>
          \A hash \in Hash :
              Owner(ring'[n], hash) \in
                  {Owner(ring[n], hash)} \cup (nodes'[n] \ nodes[n])]_vars

\* The connection over which n sends to m, with a handler that reads it.
Linked(n, m) ==
    LET c == peer[n][m]
    IN  /\ c # NoConnection /\ connected[c][n]
        /\ handler[c][m] \in {"first", "greeted", "loop"} /\ connected[c][m]

\* gossip_round and handle_push: every node ends up knowing what the nodes
\* that have a connection to it know, as long as both live and the connection
\* stays, although the first push on a connection may be dropped.
KnowledgeSpreads ==
    []<>(\A n, m \in Nodes :
            Linked(n, m) /\ Alive(n) /\ Alive(m) => nodes[n] \subseteq nodes[m])
=============================================================================
