------------------------------ MODULE MCMastership -----------------------------
(***************************************************************************)
(* Small instances of Mastership for TLC: two controllers, which make at   *)
(* most two connections between them: one each, or one of them reconnects. *)
(* With Reconnect, one makes two and the other one beside them.            *)
(***************************************************************************)
EXTENDS Mastership, TLC

CONSTANTS n1, n2

Reconnect == n1 :> 2 @@ n2 :> 1

Twice == n1 :> 2 @@ n2 :> 2

\* The bound on all connections together.
Rounds == epoch[n1] + epoch[n2] <= 2

MCSpec == Init /\ [][Next /\ Rounds']_vars /\ Fairness
=============================================================================
