---------------------------- MODULE MCTargetClient -----------------------------
(***************************************************************************)
(* A small instance of TargetClient for TLC: two controllers, of which one *)
(* reconnects and has an application.                                      *)
(***************************************************************************)
EXTENDS TargetClient, TLC

CONSTANTS n1, n2

Reconnect == n1 :> 2 @@ n2 :> 1
=============================================================================
