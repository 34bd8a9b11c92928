------------------------------ MODULE MCNodeLease ------------------------------
(* A small instance of NodeLease for TLC: a slow controller whose clock is *)
(* one tick ahead, and a prompt one.                                       *)
EXTENDS NodeLease, TLC

CONSTANTS n1, n2

Ahead == n1 :> 1 @@ n2 :> 0
=============================================================================
