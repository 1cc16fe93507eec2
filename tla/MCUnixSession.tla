---------------------------- MODULE MCUnixSession ----------------------------
(* Two clients of the Unix socket server: one makes a sequence of calls,   *)
(* the other a single one.                                                  *)
EXTENDS UnixSession, TLC

CONSTANTS c1, c2

OneMoreCaller == c1 :> 2 @@ c2 :> 1
=============================================================================
