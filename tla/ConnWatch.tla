------------------------------- MODULE ConnWatch -------------------------------
(***************************************************************************)
(* What ConnManager.Watch promises, with neither locks nor channels.       *)
(*                                                                         *)
(* The set of live connections changes at will; every change leaves each   *)
(* registered watcher a notice of the connection that changed.  A notice   *)
(* says which connection, not what happened to it: the watcher looks the   *)
(* connection up when it gets to it and records what is then true.         *)
(* Notices may repeat and come late, but none is dropped before the        *)
(* watcher has looked, and the world it records is never an older one.     *)
(***************************************************************************)
CONSTANTS ConnIDs, Watchers

VARIABLES
  live,        \* connections the manager knows
  registered,  \* watchers
  notices,     \* per watcher, the connections it still has to look up
  view         \* per watcher, the connections it takes to be up

vars == <<live, registered, notices, view>>

Init ==
  /\ live = {} /\ registered = {}
  /\ notices = [w \in Watchers |-> {}]
  /\ view    = [w \in Watchers |-> {}]

\* A connection comes or goes: every registered watcher gets a notice.
Change(c) ==
  /\ live' = IF c \in live THEN live \ {c} ELSE live \cup {c}
  /\ notices' = [w \in Watchers |->
                   IF w \in registered THEN notices[w] \cup {c} ELSE {}]
  /\ UNCHANGED <<registered, view>>

\* A new watcher starts with a notice of everything that is live; those of
\* changes already made but still being announced may come on top.
Register(w) ==
  /\ w \notin registered
  /\ registered' = registered \cup {w}
  /\ \E extra \in SUBSET ConnIDs :
       notices' = [notices EXCEPT ![w] = live \cup extra]
  /\ UNCHANGED <<live, view>>

\* The watcher looks c up.  A repeated notice of c may be left.
Observe(w, c) ==
  /\ c \in notices[w]
  /\ view' = [view EXCEPT ![w] = IF c \in live THEN @ \cup {c} ELSE @ \ {c}]
  /\ \/ notices' = [notices EXCEPT ![w] = @ \ {c}]
     \/ UNCHANGED notices
  /\ UNCHANGED <<live, registered>>

Unregister(w) ==
  /\ w \in registered
  /\ registered' = registered \ {w}
  /\ notices' = [notices EXCEPT ![w] = {}]
  /\ view'    = [view EXCEPT ![w] = {}]
  /\ UNCHANGED live

Next ==
  \/ \E c \in ConnIDs : Change(c)
  \/ \E w \in Watchers : Register(w) \/ Unregister(w)
  \/ \E w \in Watchers, c \in ConnIDs : Observe(w, c)

Spec == Init /\ [][Next]_vars

=============================================================================
