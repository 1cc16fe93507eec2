------------------------------ MODULE MCCluster ------------------------------
(* Three nodes, one of which is the seed of the others.                    *)
EXTENDS Cluster, TLC

CONSTANTS n1, n2, n3

\* Two points per node, the nodes taking turns on the ring.
MCPoint(n, i) == (n1 :> <<1, 4>> @@ n2 :> <<2, 6>> @@ n3 :> <<3, 5>>)[n][i + 1]

MCHost == n1 :> 1 @@ n2 :> 2 @@ n3 :> 3
MCMaxCalls == n1 :> 0 @@ n2 :> 0 @@ n3 :> 0
MCSeeds == n1 :> <<>> @@ n2 :> <<1>> @@ n3 :> <<1>>
=============================================================================
