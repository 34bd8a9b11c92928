------------------------------ MODULE MasterRecord -----------------------------
(***************************************************************************)
(* What the controllers of a target promise of the mastership state in its *)
(* service entity, without reconciles, revisions, streams or messages.     *)
(*                                                                         *)
(* A connection is live while its relation is in the store, and is live    *)
(* only once.  The record changes only while its master is not live, and   *)
(* it gives way to a connection that has come to life or never will, in a  *)
(* term that the device has granted to somebody, or to nobody.             *)
(***************************************************************************)
EXTENDS Naturals

CONSTANTS Conns, NoConn

VARIABLES
  master,   \* the connection recorded as the master, or NoConn
  term,     \* the term recorded beside it
  granted,  \* the highest term the device has granted
  live,     \* connections with a relation
  spent     \* connections that are live, have been, or have missed it

vars == <<master, term, granted, live, spent>>

Init ==
  /\ master = NoConn /\ term = 0 /\ granted = 0
  /\ live = {} /\ spent = {}

\* The device grants a higher term.
Grant ==
  /\ granted' \in Nat
  /\ granted' > granted
  /\ UNCHANGED <<master, term, live, spent>>

\* The relation of a new connection is created.
Come(c) ==
  /\ c \notin spent
  /\ live'  = live \cup {c}
  /\ spent' = spent \cup {c}
  /\ UNCHANGED <<master, term, granted>>

\* A relation is deleted.
Go(c) ==
  /\ c \in live
  /\ live' = live \ {c}
  /\ UNCHANGED <<master, term, granted, spent>>

\* Connections are lost that have never had a relation.
Miss(lost) ==
  /\ spent' = spent \cup lost
  /\ UNCHANGED <<master, term, granted, live>>

\* The record of a master that is not live gives way to a connection that is live
\* or will not be (again).
Elect(c) ==
  /\ master \notin live
  /\ c \in spent
  /\ master' = c
  /\ term' \in 0 .. granted
  /\ UNCHANGED <<granted, live, spent>>

\* It is cleared, and the term stands.
Resign ==
  /\ master \notin live
  /\ master' = NoConn
  /\ UNCHANGED <<term, granted, live, spent>>

Next ==
  \/ Grant \/ Resign
  \/ \E c \in Conns : Come(c) \/ Go(c) \/ Elect(c)
  \/ \E lost \in SUBSET (Conns \ spent) : Miss(lost)

Spec == Init /\ [][Next]_vars

=============================================================================
