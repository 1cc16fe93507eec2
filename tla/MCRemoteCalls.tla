---------------------------- MODULE MCRemoteCalls ----------------------------
(* A seed, and a process that joins it and may be restarted at its address. *)
EXTENDS RemoteCalls, TLC

CONSTANTS n1, n2, n3

\* One point per node.
MCPoint(n, i) == (n1 :> 1 @@ n2 :> 2 @@ n3 :> 3)[n]

MCHost == n1 :> 1 @@ n2 :> 2 @@ n3 :> 2
MCSeeds == n1 :> <<>> @@ n2 :> <<1>> @@ n3 :> <<1>>
MCMaxCalls == n1 :> 2 @@ n2 :> 0 @@ n3 :> 0
=============================================================================
