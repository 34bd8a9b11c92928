--------------------------- MODULE ConnManagerProofs ---------------------------
(* Proofs about the connection manager, for any number of targets, clients, *)
(* connections and watchers and any size of the watchers' channels.         *)
EXTENDS ConnManager, TLAPS

-----------------------------------------------------------------------------
(* The actions, flattened once for all the proofs below.                   *)

\* Next is the disjunction of the actions, each with its own parameters.
LEMMA NextCases ==
  ASSUME Next
  PROVE  \/ \E t \in Targets : DisconnectUnmap(t)
         \/ \E t \in Targets, k \in Clients : Connect(t, k)
         \/ \E k \in Clients : Step(k)
         \/ \E k \in Clients : Link(k)
         \/ \E w \in Watchers : Watch(w)
         \/ \E w \in Watchers : Consume(w)
         \/ Events
  BY Zenon DEF Next

\* A channel changes its state only to one of the five states.
LEMMA LinkTarget ==
  ASSUME NEW k \in Clients, Link(k)
  PROVE  /\ \E s \in ConnState \ {"shutdown"} : SetLink(k, s)
         /\ link[k] # "shutdown"
         /\ UNCHANGED <<targets, conns, closing, targetID, seen, conn,
                        eventVars, watchVars, userVars>>
  BY DEF Link, LinkDial, LinkUp, LinkFail, LinkLost, LinkStep, ConnState

-----------------------------------------------------------------------------
(* The inductive invariant: what the local variables of the goroutines mean *)
(* at each place, and what the watchers' variables mean to each other.      *)

\* A monitor on its way to addConn or removeConn has a connection at hand.
Holding ==
  \A k \in Clients :
    pc[k] \in {"reopen", "add", "announceAdd", "remove", "announceRemove"}
      => conn[k] # NoConn

\* processEvents announces a connection from the receipt to the last send.
Announcing == evpc # "receive" => evt # NoConn

TypeInv == TypeOK /\ Holding /\ Announcing

\* A monitor opens streams and adds connections only for a channel it saw Ready.
SeenReady ==
  \A k \in Clients : pc[k] \in {"reopen", "add", "announceAdd"} => seen[k] = "ready"

\* WaitForStateChange sleeps on the state the channel is in.
Asleep == \A k \in Clients : pc[k] = "waiting" => link[k] = seen[k]

\* A monitor that sleeps and owns a connection sleeps in Ready.
AsleepOwning ==
  \A c \in ConnIDs, k \in Clients :
    conns[c] = k /\ pc[k] = "waiting" => seen[k] = "ready"

RegistryInv == RegistrySound /\ SeenReady /\ Asleep /\ AsleepOwning

\* A round of processEvents is for registered watchers.
Round == todo \subseteq watchers /\ (evpc # "deliver" => todo = {})

\* A watcher is registered from WatchRegister to Unwatch, and nothing reaches
\* it before or after.
Registered ==
  \A w \in Watchers :
    /\ w \in watchers <=> wpc[w] \in {"replay", "on"}
    /\ w \notin watchers => queue[w] = <<>> /\ inhand[w] = NoConn /\ view[w] = {}

NotifyInv == Round /\ Registered /\ NoLostNotification

-----------------------------------------------------------------------------
(* Type correctness.                                                       *)

LEMMA TypeInit == ASSUME Init PROVE TypeInv
  BY DEF Init, TypeInv, TypeOK, Holding, Announcing, ConnState, MonitorPC

\* The place a monitor resumes at is one of its places.
LEMMA ResumeType ==
  ASSUME NEW k, NEW s
  PROVE  Resume(k, s) \in {"done", "waiting", "woken"}
  BY DEF Resume

LEMMA TypeConnect ==
  ASSUME TypeInv,
         \/ \E t \in Targets : DisconnectUnmap(t)
         \/ \E t \in Targets, k \in Clients : Connect(t, k)
  PROVE  TypeInv'
  <1> USE DEF TypeInv, TypeOK, Holding, Announcing, eventVars, watchVars, userVars
  <1>1. CASE \E t \in Targets : DisconnectUnmap(t)
    BY <1>1 DEF DisconnectUnmap, clientVars
  <1>2. CASE \E t \in Targets, k \in Clients : Connect(t, k)
    BY <1>2 DEF Connect, ConnState, MonitorPC
  <1>q. QED BY <1>1, <1>2

LEMMA TypeLink ==
  ASSUME TypeInv, NEW k \in Clients, Link(k)
  PROVE  TypeInv'
  <1> USE DEF TypeInv, TypeOK, Holding, Announcing, eventVars, watchVars, userVars
  <1>1. PICK s \in ConnState : SetLink(k, s)
    BY LinkTarget
  <1>2. /\ link'   \in [Clients -> ConnState]
        /\ stream' \in [Clients -> {"none", "open", "broken"}]
        /\ pc'     \in [Clients -> MonitorPC]
    BY <1>1 DEF SetLink, MonitorPC
  <1>3. Holding'
    BY <1>1, LinkTarget DEF SetLink
  <1>q. QED
    BY <1>2, <1>3, LinkTarget

\* removeConn, in both its branches.
LEMMA TypeRemove ==
  ASSUME TypeInv, NEW k \in Clients, RemoveConn(k)
  PROVE  TypeInv'
  <1> USE DEF TypeInv, TypeOK, Holding, Announcing, eventVars, watchVars, userVars
  <1>1. CASE conns[conn[k]] # NoClient
    BY <1>1 DEF RemoveConn, MonitorPC
  <1>2. CASE conns[conn[k]] = NoClient
    <2>1. PICK p \in {"done", "waiting", "woken"} : pc' = [pc EXCEPT ![k] = p]
      BY <1>2, ResumeType DEF RemoveConn
    <2>q. QED BY <1>2, <2>1 DEF RemoveConn, MonitorPC
  <1>q. QED BY <1>1, <1>2

\* The two places where a monitor may find its channel ready and make a
\* connection.
LEMMA TypeLook ==
  ASSUME TypeInv, NEW k \in Clients, MonitorStart(k) \/ ObserveReady(k)
  PROVE  TypeInv'
  <1> USE DEF TypeInv, TypeOK, Holding, Announcing, eventVars, watchVars, userVars,
              ConnState, MonitorPC
  <1>1. \/ \E c \in ConnIDs : conn' = [conn EXCEPT ![k] = c]
        \/ conn' = conn /\ pc' = [pc EXCEPT ![k] = "waiting"]
    BY DEF MonitorStart, ObserveReady
  <1>2. \E p \in {"add", "reopen", "waiting"} : pc' = [pc EXCEPT ![k] = p]
    BY DEF MonitorStart, ObserveReady
  <1>3. seen' \in [Clients -> ConnState]
    BY DEF MonitorStart, ObserveReady
  <1>4. UNCHANGED <<targets, conns, closing, targetID, link, stream,
                    eventVars, watchVars, userVars>>
    BY DEF MonitorStart, ObserveReady
  <1>5. /\ conn' \in [Clients -> ConnIDs \cup {NoConn}]
        /\ pc' \in [Clients -> MonitorPC]
    <2>1. conn' \in [Clients -> ConnIDs \cup {NoConn}] BY <1>1
    <2>2. pc' \in [Clients -> MonitorPC] BY <1>2
    <2>q. QED BY <2>1, <2>2
  <1>6. Holding'
    BY <1>1, <1>2, NullAssumption
  <1>q. QED BY <1>3, <1>4, <1>5, <1>6

LEMMA TypeStep ==
  ASSUME TypeInv, NEW k \in Clients, Step(k)
  PROVE  TypeInv'
  <1> USE DEF TypeInv, TypeOK, Holding, Announcing, eventVars, watchVars, userVars,
              ConnState, MonitorPC
  <1>1. CASE ConnectOpened(k)      BY <1>1 DEF ConnectOpened
  <1>2. CASE ConnectFailed(k)      BY <1>2 DEF ConnectFailed
  <1>3. CASE DisconnectClose(k)    BY <1>3 DEF DisconnectClose, SetLink
  <1>4. CASE MonitorStart(k)       BY <1>4, TypeLook
  <1>5. CASE ObserveReady(k)       BY <1>5, TypeLook
  <1>6. CASE ObserveIdle(k)        BY <1>6 DEF ObserveIdle
  <1>7. CASE ObserveDown(k)        BY <1>7, ResumeType DEF ObserveDown
  <1>8. CASE StreamReopened(k)     BY <1>8 DEF StreamReopened
  <1>9. CASE StreamReopenFailed(k) BY <1>9, ResumeType DEF StreamReopenFailed
  <1>10. CASE AddConn(k)           BY <1>10 DEF AddConn
  <1>11. CASE AnnounceAdd(k)       BY <1>11, ResumeType DEF AnnounceAdd
  <1>12. CASE RemoveConn(k)        BY <1>12, TypeRemove
  <1>13. CASE AnnounceRemove(k)    BY <1>13, ResumeType DEF AnnounceRemove
  <1>q. QED
    BY <1>1, <1>2, <1>3, <1>4, <1>5, <1>6, <1>7, <1>8, <1>9, <1>10, <1>11, <1>12, <1>13
       DEF Step

LEMMA TypeWatch ==
  ASSUME TypeInv, NEW w \in Watchers, Watch(w) \/ Consume(w)
  PROVE  TypeInv'
  <1> USE DEF TypeInv, TypeOK, Holding, Announcing,
              clientVars, eventVars, watchVars, userVars
  <1>1. CASE WatchLock(w)     BY <1>1 DEF WatchLock
  <1>2. CASE WatchRegister(w) BY <1>2 DEF WatchRegister, Live
  <1>3. CASE \E c \in ConnIDs : ReplaySend(w, c) BY <1>3 DEF ReplaySend
  <1>4. CASE ReplayDone(w)    BY <1>4 DEF ReplayDone
  <1>5. CASE Unwatch(w)       BY <1>5 DEF Unwatch
  <1>6. CASE Receive(w)       BY <1>6 DEF Receive
  <1>7. CASE Lookup(w)        BY <1>7 DEF Lookup
  <1>q. QED
    BY <1>1, <1>2, <1>3, <1>4, <1>5, <1>6, <1>7 DEF Watch, Consume

LEMMA TypeEvents ==
  ASSUME TypeInv, Events
  PROVE  TypeInv'
  <1> USE DEF TypeInv, TypeOK, Holding, Announcing,
              clientVars, eventVars, watchVars, userVars
  <1>1. CASE EventLock BY <1>1 DEF EventLock
  <1>2. CASE EventDone BY <1>2 DEF EventDone
  <1>3. ASSUME NEW w \in Watchers, EventSend(w) PROVE TypeInv'
    <2>1. evt \in ConnIDs
      BY <1>3 DEF EventSend
    <2>q. QED BY <1>3, <2>1 DEF EventSend
  <1>q. QED BY <1>1, <1>2, <1>3 DEF Events

\* TypeInv is an invariant; the later proofs start from it.
LEMMA TypeInvariant == Spec => []TypeInv
  <1>1. Init => TypeInv
    BY TypeInit
  <1>2. TypeInv /\ [Next]_vars => TypeInv'
    <2> SUFFICES ASSUME TypeInv, [Next]_vars PROVE TypeInv'
      OBVIOUS
    <2>1. CASE Next
      BY <2>1, NextCases, TypeConnect, TypeStep, TypeLink, TypeWatch, TypeEvents
    <2>2. CASE UNCHANGED vars
      BY <2>2 DEF TypeInv, TypeOK, Holding, Announcing,
                  vars, clientVars, eventVars, watchVars, userVars
    <2>q. QED BY <2>1, <2>2
  <1>q. QED BY <1>1, <1>2, PTL DEF Spec

\* conn_manager.go:45-52 and the local variables of its goroutines: every
\* reachable state has the declared types, whatever the constants.  A watcher's
\* channel holds connections only because the announced one is never absent,
\* which is why TypeOK needs Holding and Announcing beside it.
THEOREM TypeCorrect == Spec => []TypeOK
  <1>1. TypeInv => TypeOK
    BY DEF TypeInv
  <1>q. QED BY <1>1, TypeInvariant, PTL

-----------------------------------------------------------------------------
(* The registry.  A monitor owns at most one entry of conns, the one in its *)
(* variable "conn"; SeenReady tells that it resumes after addConn, Asleep    *)
(* that it does not sleep through a change of its channel.                  *)

\* Steps that touch none of the variables RegistryInv speaks of keep it.
LEMMA RegistryFrame ==
  ASSUME RegistryInv, UNCHANGED <<conns, link, pc, seen, conn>>
  PROVE  RegistryInv'
  BY DEF RegistryInv, RegistrySound, SeenReady, Asleep, AsleepOwning

LEMMA RegistryLink ==
  ASSUME TypeInv, RegistryInv, NEW k \in Clients, NEW s \in ConnState, SetLink(k, s),
         UNCHANGED <<conns, seen, conn>>
  PROVE  RegistryInv'
  BY DEF TypeInv, TypeOK, RegistryInv, RegistrySound, SeenReady, Asleep, AsleepOwning,
         Owning, SetLink, MonitorPC

\* Where a monitor that has seen s may resume, and what that says of its channel.
LEMMA ResumeMeans ==
  ASSUME NEW k \in Clients, NEW s
  PROVE  /\ Resume(k, s) = "waiting" => link[k] = s
         /\ s # "shutdown" => Resume(k, s) \in {"waiting", "woken"}
  BY DEF Resume

\* A monitor that makes a connection owned none; one that finds its channel
\* ready and has a connection sleeps on Ready.
LEMMA RegistryLook ==
  ASSUME TypeInv, RegistryInv, NEW k \in Clients, MonitorStart(k) \/ ObserveReady(k)
  PROVE  RegistryInv'
  <1> USE DEF TypeInv, TypeOK
  <1>1. /\ pc[k] \in {"start", "woken"}
        /\ seen' = [seen EXCEPT ![k] = link[k]]
        /\ UNCHANGED <<conns, link>>
    BY DEF MonitorStart, ObserveReady
  <1>2. pc[k] = "start" \/ conn[k] = NoConn => \A c \in ConnIDs : conns[c] # k
    <2>1. ASSUME NEW c \in ConnIDs, conns[c] = k
          PROVE  conn[k] # NoConn /\ pc[k] # "start"
      <3>1. conn[k] = c /\ pc[k] \in Owning
        BY <2>1, Zenon DEF RegistryInv, RegistrySound
      <3>q. QED BY <3>1, NullAssumption, Zenon DEF Owning
    <2>q. QED BY <2>1
  <1>3. \/ /\ pc[k] = "start" \/ conn[k] = NoConn
           /\ link[k] = "ready"
           /\ \E c \in ConnIDs : conn' = [conn EXCEPT ![k] = c]
           /\ \E p \in {"add", "reopen"} : pc' = [pc EXCEPT ![k] = p]
        \/ /\ pc[k] = "start" \/ link[k] = "ready"
           /\ conn' = conn
           /\ pc' = [pc EXCEPT ![k] = "waiting"]
    <2>1. CASE MonitorStart(k) BY <2>1, Zenon DEF MonitorStart
    <2>2. CASE ObserveReady(k) BY <2>2, Zenon DEF ObserveReady
    <2>q. QED BY <2>1, <2>2
  <1>4. RegistrySound'
    BY <1>1, <1>2, <1>3 DEF RegistryInv, RegistrySound, Owning
  <1>5. SeenReady'
    BY <1>1, <1>3 DEF RegistryInv, SeenReady
  <1>6. Asleep'
    BY <1>1, <1>3 DEF RegistryInv, Asleep
  <1>7. AsleepOwning'
    <2>1. CASE \A c \in ConnIDs : conns[c] # k
      BY <1>1, <1>3, <2>1 DEF RegistryInv, AsleepOwning
    <2>2. CASE link[k] = "ready"
      BY <1>1, <1>3, <2>2 DEF RegistryInv, AsleepOwning
    <2>q. QED BY <1>2, <1>3, <2>1, <2>2
  <1>q. QED BY <1>4, <1>5, <1>6, <1>7 DEF RegistryInv

\* removeConn leaves its monitor without an entry.
LEMMA RegistryRemoved ==
  ASSUME TypeInv, RegistryInv, NEW k \in Clients, RemoveConn(k),
         conns[conn[k]] # NoClient
  PROVE  RegistryInv'
  <1> USE DEF TypeInv, TypeOK
  <1>1. /\ pc[k] = "remove" /\ pc' = [pc EXCEPT ![k] = "announceRemove"]
        /\ conns' = [conns EXCEPT ![conn[k]] = NoClient]
        /\ UNCHANGED <<link, seen, conn>>
    BY DEF RemoveConn
  <1>2. \A c \in ConnIDs : conns'[c] # k /\ (conns'[c] # NoClient => conns'[c] = conns[c])
    BY <1>1, NullAssumption DEF RegistryInv, RegistrySound
  <1>3. RegistrySound'
    BY <1>1, <1>2, NullAssumption DEF RegistryInv, RegistrySound, Owning
  <1>4. SeenReady' /\ Asleep'
    BY <1>1 DEF RegistryInv, SeenReady, Asleep
  <1>5. AsleepOwning'
    BY <1>1, <1>2, NullAssumption DEF RegistryInv, AsleepOwning
  <1>q. QED BY <1>3, <1>4, <1>5 DEF RegistryInv

LEMMA RegistryStep ==
  ASSUME TypeInv, RegistryInv, NEW k \in Clients, Step(k)
  PROVE  RegistryInv'
  <1> USE NullAssumption
      DEF TypeInv, TypeOK, Holding, RegistryInv, RegistrySound, SeenReady, Asleep,
          AsleepOwning, Owning
  <1>1. CASE ConnectOpened(k)      BY <1>1 DEF ConnectOpened
  <1>2. CASE ConnectFailed(k)      BY <1>2 DEF ConnectFailed
  <1>3. CASE DisconnectClose(k)
    <2>1. SetLink(k, "shutdown") /\ UNCHANGED <<conns, seen, conn>>
      BY <1>3 DEF DisconnectClose
    <2>q. QED BY <2>1, RegistryLink DEF ConnState
  <1>4. CASE MonitorStart(k)       BY <1>4, RegistryLook
  <1>5. CASE ObserveReady(k)       BY <1>5, RegistryLook
  <1>6. CASE ObserveIdle(k)        BY <1>6 DEF ObserveIdle
  <1>7. CASE ObserveDown(k)        BY <1>7, ResumeType, ResumeMeans DEF ObserveDown
  <1>8. CASE StreamReopened(k)     BY <1>8 DEF StreamReopened
  <1>9. CASE StreamReopenFailed(k) BY <1>9, ResumeType, ResumeMeans DEF StreamReopenFailed
  <1>10. CASE AddConn(k)           BY <1>10 DEF AddConn
  <1>11. CASE AnnounceAdd(k)       BY <1>11, ResumeType, ResumeMeans DEF AnnounceAdd
  <1>12. CASE RemoveConn(k)
    <2>1. CASE conns[conn[k]] # NoClient
      BY <1>12, <2>1, RegistryRemoved
    <2>2. CASE conns[conn[k]] = NoClient
      <3>1. /\ conn' = [conn EXCEPT ![k] = NoConn]
            /\ pc' = [pc EXCEPT ![k] = Resume(k, seen[k])]
            /\ pc[k] = "remove"
            /\ UNCHANGED <<conns, link, seen, closing>>
        BY <1>12, <2>2 DEF RemoveConn
      <3>q. QED BY <2>2, <3>1, ResumeType, ResumeMeans
    <2>q. QED BY <2>1, <2>2
  <1>13. CASE AnnounceRemove(k)    BY <1>13, ResumeType, ResumeMeans DEF AnnounceRemove
  <1>q. QED
    BY <1>1, <1>2, <1>3, <1>4, <1>5, <1>6, <1>7, <1>8, <1>9, <1>10, <1>11, <1>12, <1>13
       DEF Step

\* A client object is reused for a new Connect only when its monitor is gone.
LEMMA RegistryConnect ==
  ASSUME TypeInv, RegistryInv, NEW t \in Targets, NEW k \in Clients, Connect(t, k)
  PROVE  RegistryInv'
  <1>1. \A c \in ConnIDs : conns[c] # k
    BY DEF Connect, Unused, RegistryInv, RegistrySound, Owning
  <1>q. QED
    BY <1>1 DEF Connect, TypeInv, TypeOK, RegistryInv, RegistrySound, SeenReady, Asleep,
                AsleepOwning, Owning

LEMMA RegistryInvariant == Spec => []RegistryInv
  <1>1. Init => RegistryInv
    BY NullAssumption
       DEF Init, RegistryInv, RegistrySound, SeenReady, Asleep, AsleepOwning
  <1>2. TypeInv /\ RegistryInv /\ [Next]_vars => RegistryInv'
    <2> SUFFICES ASSUME TypeInv, RegistryInv, [Next]_vars PROVE RegistryInv'
      OBVIOUS
    <2>1. ASSUME NEW t \in Targets, DisconnectUnmap(t) PROVE RegistryInv'
      BY <2>1, RegistryFrame DEF DisconnectUnmap, clientVars
    <2>2. ASSUME NEW k \in Clients, Link(k) PROVE RegistryInv'
      BY <2>2, LinkTarget, RegistryLink
    <2>3. ASSUME NEW w \in Watchers, Watch(w) \/ Consume(w) PROVE RegistryInv'
      <3>1. UNCHANGED <<conns, link, pc, seen, conn>>
        BY <2>3 DEF Watch, Consume, WatchLock, WatchRegister, ReplaySend, ReplayDone,
                    Unwatch, Receive, Lookup, clientVars
      <3>q. QED BY <3>1, RegistryFrame
    <2>4. CASE Events
      <3>1. UNCHANGED <<conns, link, pc, seen, conn>>
        BY <2>4 DEF Events, EventLock, EventDone, EventSend, clientVars
      <3>q. QED BY <3>1, RegistryFrame
    <2>5. CASE UNCHANGED vars
      BY <2>5, RegistryFrame DEF vars, clientVars
    <2>q. QED
      BY <2>1, <2>2, <2>3, <2>4, <2>5, NextCases, RegistryStep, RegistryConnect
  <1>q. QED BY <1>1, <1>2, TypeInvariant, PTL DEF Spec

\* conn_manager.go:121-168, 207-223: conns holds exactly connections their own
\* monitors still hold, for any number of clients and connections.
THEOREM RegistryIsSound == Spec => []RegistrySound
  <1>1. RegistryInv => RegistrySound
    BY DEF RegistryInv
  <1>q. QED BY <1>1, RegistryInvariant, PTL

\* conn_manager.go:131-168: a monitor that sleeps owns no connection unless its
\* channel is ready (or idle).
THEOREM DownIsWithdrawn == Spec => []WithdrawnWhenDown
  <1>1. RegistryInv => WithdrawnWhenDown
    BY DEF RegistryInv, Asleep, AsleepOwning, WithdrawnWhenDown
  <1>q. QED BY <1>1, RegistryInvariant, PTL

-----------------------------------------------------------------------------
(* Open streams.  A stream is opened by Connect or by the Ready branch of its *)
(* monitor and breaks with the first change of its channel; in between the   *)
(* monitor does nothing but register the connection and fall asleep.         *)

\* No two monitors hold the same connection.
Distinct ==
  \A k, j \in Clients : conn[k] = conn[j] /\ conn[k] # NoConn => k = j

\* Where the monitor of an open stream stands.
Streaming ==
  \A k \in Clients :
    stream[k] = "open" =>
      /\ link[k] = "ready"
      /\ pc[k] \in {"start", "add", "announceAdd", "waiting"}
      /\ pc[k] # "start" => seen[k] = "ready"
      /\ pc[k] \in {"announceAdd", "waiting"} =>
           conn[k] \in ConnIDs /\ conns[conn[k]] = k

StreamInv == Distinct /\ Streaming

LEMMA StreamFrame ==
  ASSUME StreamInv, UNCHANGED <<conns, clientVars>>
  PROVE  StreamInv'
  BY DEF StreamInv, Distinct, Streaming, clientVars

\* A change of the channel breaks the stream.
LEMMA StreamLink ==
  ASSUME TypeInv, StreamInv, NEW k \in Clients, NEW s \in ConnState \ {link[k]},
         SetLink(k, s), UNCHANGED <<conns, seen, conn>>
  PROVE  StreamInv'
  <1> USE DEF TypeInv, TypeOK, SetLink
  <1>1. stream'[k] # "open"
    BY DEF StreamInv, Streaming
  <1>2. \A j \in Clients \ {k} : stream'[j] = stream[j] /\ link'[j] = link[j] /\ pc'[j] = pc[j]
    OBVIOUS
  <1>q. QED BY <1>1, <1>2 DEF StreamInv, Distinct, Streaming

\* A connection that is made is nobody else's.
LEMMA StreamLook ==
  ASSUME TypeInv, StreamInv, NEW k \in Clients, MonitorStart(k) \/ ObserveReady(k)
  PROVE  StreamInv'
  <1> USE DEF TypeInv, TypeOK
  <1>1. /\ pc[k] = "start" \/ (pc[k] = "woken" /\ link[k] = "ready")
        /\ seen' = [seen EXCEPT ![k] = link[k]]
        /\ UNCHANGED <<conns, link, stream>>
    BY DEF MonitorStart, ObserveReady
  <1>2. CASE \E c \in ConnIDs : Fresh(c) /\ conn' = [conn EXCEPT ![k] = c]
    <2>1. PICK c \in ConnIDs : Fresh(c) /\ conn' = [conn EXCEPT ![k] = c]
      BY <1>2
    <2>2. \A j \in Clients : conn[j] # c
      BY <2>1 DEF Fresh
    <2>3. Distinct'
      BY <2>1, <2>2 DEF StreamInv, Distinct
    <2>4. /\ \E p \in {"add", "reopen"} : pc' = [pc EXCEPT ![k] = p]
          /\ link[k] = "ready"
          /\ pc[k] = "start" => pc'[k] = "add"
      <3>1. conn' # conn
        BY <2>1, <2>2
      <3>q. QED BY <3>1 DEF MonitorStart, ObserveReady
    <2>5. Streaming'
      BY <1>1, <2>1, <2>4 DEF StreamInv, Streaming
    <2>q. QED BY <2>3, <2>5 DEF StreamInv
  <1>3. CASE conn' = conn
    <2>1. pc' = [pc EXCEPT ![k] = "waiting"]
      <3>1. ASSUME NEW c \in ConnIDs, Fresh(c), conn' = [conn EXCEPT ![k] = c]
            PROVE  FALSE
        BY <1>3, <3>1 DEF Fresh
      <3>q. QED BY <3>1 DEF MonitorStart, ObserveReady
    <2>2. pc[k] = "start" => link[k] # "ready"
      <3>1. ASSUME NEW c \in ConnIDs, Fresh(c), conn' = [conn EXCEPT ![k] = c]
            PROVE  FALSE
        BY <1>3, <3>1 DEF Fresh
      <3>q. QED BY <3>1 DEF MonitorStart, ObserveReady
    <2>3. stream[k] # "open"
      BY <1>1, <2>2 DEF StreamInv, Streaming
    <2>q. QED BY <1>1, <1>3, <2>1, <2>3 DEF StreamInv, Distinct, Streaming
  <1>q. QED BY <1>2, <1>3 DEF MonitorStart, ObserveReady

LEMMA StreamStep ==
  ASSUME TypeInv, SeenReady, StreamInv, NEW k \in Clients, Step(k)
  PROVE  StreamInv'
  <1> USE NullAssumption DEF TypeInv, TypeOK, Holding, StreamInv, Distinct, Streaming
  <1>1. CASE ConnectOpened(k)      BY <1>1 DEF ConnectOpened
  <1>2. CASE ConnectFailed(k)      BY <1>2 DEF ConnectFailed
  <1>3. CASE DisconnectClose(k)
    <2>1. SetLink(k, "shutdown") /\ UNCHANGED <<conns, seen, conn>>
      BY <1>3 DEF DisconnectClose
    <2>2. CASE link[k] = "shutdown"
      BY <2>1, <2>2 DEF SetLink
    <2>3. CASE link[k] # "shutdown"
      BY <2>1, <2>3, StreamLink DEF ConnState
    <2>q. QED BY <2>2, <2>3
  <1>4. CASE MonitorStart(k)       BY <1>4, StreamLook
  <1>5. CASE ObserveReady(k)       BY <1>5, StreamLook
  <1>6. CASE ObserveIdle(k)        BY <1>6 DEF ObserveIdle
  <1>7. CASE ObserveDown(k)        BY <1>7 DEF ObserveDown
  <1>8. CASE StreamReopened(k)     BY <1>8 DEF StreamReopened, SeenReady
  <1>9. CASE StreamReopenFailed(k) BY <1>9 DEF StreamReopenFailed
  <1>10. CASE AddConn(k)           BY <1>10 DEF AddConn
  <1>11. CASE AnnounceAdd(k)       BY <1>11 DEF AnnounceAdd, Resume
  <1>12. CASE RemoveConn(k)
    <2>1. pc[k] = "remove" /\ stream[k] # "open"
      BY <1>12 DEF RemoveConn
    <2>2. CASE conns[conn[k]] # NoClient
      BY <1>12, <2>1, <2>2 DEF RemoveConn
    <2>3. CASE conns[conn[k]] = NoClient
      BY <1>12, <2>1, <2>3 DEF RemoveConn
    <2>q. QED BY <2>2, <2>3
  <1>13. CASE AnnounceRemove(k)    BY <1>13 DEF AnnounceRemove
  <1>q. QED
    BY <1>1, <1>2, <1>3, <1>4, <1>5, <1>6, <1>7, <1>8, <1>9, <1>10, <1>11, <1>12, <1>13
       DEF Step

LEMMA StreamInvariant == Spec => []StreamInv
  <1>1. Init => StreamInv
    BY DEF Init, StreamInv, Distinct, Streaming
  <1>2. TypeInv /\ RegistryInv /\ StreamInv /\ [Next]_vars => StreamInv'
    <2> SUFFICES ASSUME TypeInv, RegistryInv, StreamInv, [Next]_vars PROVE StreamInv'
      OBVIOUS
    <2>1. ASSUME NEW t \in Targets, DisconnectUnmap(t) PROVE StreamInv'
      BY <2>1, StreamFrame DEF DisconnectUnmap
    <2>2. ASSUME NEW t \in Targets, NEW k \in Clients, Connect(t, k) PROVE StreamInv'
      BY <2>2 DEF Connect, TypeInv, TypeOK, StreamInv, Distinct, Streaming
    <2>3. ASSUME NEW k \in Clients, Link(k) PROVE StreamInv'
      <3>1. \E s \in ConnState \ {link[k]} : SetLink(k, s)
        BY <2>3 DEF Link, LinkDial, LinkUp, LinkFail, LinkLost, LinkStep, ConnState
      <3>q. QED BY <2>3, <3>1, LinkTarget, StreamLink
    <2>4. ASSUME NEW w \in Watchers, Watch(w) \/ Consume(w) PROVE StreamInv'
      <3>1. UNCHANGED <<conns, clientVars>>
        BY <2>4 DEF Watch, Consume, WatchLock, WatchRegister, ReplaySend, ReplayDone,
                    Unwatch, Receive, Lookup
      <3>q. QED BY <3>1, StreamFrame
    <2>5. CASE Events
      BY <2>5, StreamFrame DEF Events, EventLock, EventDone, EventSend
    <2>6. CASE UNCHANGED vars
      BY <2>6, StreamFrame DEF vars
    <2>q. QED
      BY <2>1, <2>2, <2>3, <2>4, <2>5, <2>6, NextCases, StreamStep DEF RegistryInv
  <1>q. QED BY <1>1, <1>2, TypeInvariant, RegistryInvariant, PTL DEF Spec

\* conn_manager.go:121-149, 207-212: an open stream is that of a registered
\* connection or of one about to be registered, for any number of clients.
THEOREM UsableRegistered == Spec => []UsableIsRegistered
  <1>1. StreamInv => UsableIsRegistered
    BY DEF StreamInv, Streaming, UsableIsRegistered
  <1>q. QED BY <1>1, StreamInvariant, PTL

-----------------------------------------------------------------------------
(* Notifications.  A change of conns leaves its monitor at announceAdd or    *)
(* announceRemove; from there the connection goes to processEvents, to the   *)
(* channels of all registered watchers, and to their look-ups.  A watcher    *)
(* that registers meanwhile starts with an empty view and a replay of what   *)
(* is live then, so it needs nothing of what was announced before.           *)

\* The monitors' contribution to Pending.
Announced(c) ==
  \E k \in Clients : pc[k] \in {"announceAdd", "announceRemove"} /\ conn[k] = c

LEMMA PendingCases ==
  ASSUME NEW w, NEW c
  PROVE  Pending(w, c) <=>
           /\ w \in watchers
           /\ \/ Announced(c)
              \/ evt = c /\ (evpc = "lock" \/ w \in todo)
              \/ c \in replay[w]
              \/ \E i \in DOMAIN queue[w] : queue[w][i] = c
              \/ inhand[w] = c
  BY Zenon DEF Pending, Announced

LEMMA PendingCasesPrime ==
  ASSUME NEW w, NEW c
  PROVE  Pending(w, c)' <=>
           /\ w \in watchers'
           /\ \/ Announced(c)'
              \/ evt' = c /\ (evpc' = "lock" \/ w \in todo')
              \/ c \in replay'[w]
              \/ \E i \in DOMAIN queue'[w] : queue'[w][i] = c
              \/ inhand'[w] = c
  BY Zenon DEF Pending, Announced

\* A step of a monitor that is not announcing anything, and does not touch
\* conns, is invisible to the watchers.
LEMMA NotifyFrame ==
  ASSUME NotifyInv, UNCHANGED <<conns, eventVars, watchVars, userVars>>,
         \A k \in Clients : pc[k] \in {"announceAdd", "announceRemove"} =>
                              pc'[k] = pc[k] /\ conn'[k] = conn[k]
  PROVE  NotifyInv'
  <1> USE DEF eventVars, watchVars, userVars
  <1>1. Round' /\ Registered'
    BY DEF NotifyInv, Round, Registered
  <1>2. \A c \in ConnIDs : Announced(c) => Announced(c)'
    BY DEF Announced
  <1>3. \A w \in watchers, c \in ConnIDs : Pending(w, c) => Pending(w, c)'
    BY <1>2, PendingCases, PendingCasesPrime
  <1>4. NoLostNotification'
    BY <1>3 DEF NotifyInv, NoLostNotification, Live
  <1>q. QED BY <1>1, <1>4 DEF NotifyInv

\* A monitor that leaves k's turn to processEvents keeps the notification alive.
LEMMA NotifyAnnounce ==
  ASSUME TypeInv, NotifyInv, NEW k \in Clients, AnnounceAdd(k) \/ AnnounceRemove(k)
  PROVE  NotifyInv'
  <1>1. /\ evpc = "receive" /\ evpc' = "lock" /\ evt' = conn[k]
        /\ UNCHANGED <<conns, todo, watchVars, userVars>>
        /\ \A j \in Clients \ {k} : pc'[j] = pc[j] /\ conn'[j] = conn[j]
    BY DEF AnnounceAdd, AnnounceRemove, TypeInv, TypeOK
  <1> USE DEF watchVars, userVars
  <1>2. Round' /\ Registered'
    BY <1>1 DEF NotifyInv, Round, Registered
  <1>3. ASSUME NEW c \in ConnIDs, Announced(c) PROVE Announced(c)' \/ evt' = c
    BY <1>1, <1>3 DEF Announced
  <1>4. todo = {}
    BY <1>1 DEF NotifyInv, Round
  <1>5. \A w \in watchers, c \in ConnIDs : Pending(w, c) => Pending(w, c)'
    BY <1>1, <1>3, <1>4, PendingCases, PendingCasesPrime
  <1>6. NoLostNotification'
    BY <1>1, <1>5 DEF NotifyInv, NoLostNotification, Live
  <1>q. QED BY <1>2, <1>6 DEF NotifyInv

\* A change of conns puts its monitor at an announcement of it.
LEMMA NotifyChange ==
  ASSUME TypeInv, NotifyInv, NEW k \in Clients,
         \/ AddConn(k)
         \/ RemoveConn(k) /\ conns[conn[k]] # NoClient
  PROVE  NotifyInv'
  <1> USE DEF TypeInv, TypeOK
  <1>1. /\ pc[k] \in {"add", "remove"} /\ conn' = conn
        /\ \E p \in {"announceAdd", "announceRemove"} : pc' = [pc EXCEPT ![k] = p]
        /\ \E v \in Clients \cup {NoClient} : conns' = [conns EXCEPT ![conn[k]] = v]
        /\ UNCHANGED <<eventVars, watchVars, userVars>>
    BY DEF AddConn, RemoveConn
  <1> USE DEF eventVars, watchVars, userVars
  <1>2. Round' /\ Registered'
    BY <1>1 DEF NotifyInv, Round, Registered
  <1>3. \A c \in ConnIDs : Announced(c) => Announced(c)'
    BY <1>1 DEF Announced
  <1>4. Announced(conn[k])'
    BY <1>1 DEF Announced
  <1>5. ASSUME NEW w \in watchers, NEW c \in ConnIDs, Pending(w, c) \/ c = conn[k]
        PROVE  Pending(w, c)'
    BY <1>1, <1>3, <1>4, <1>5, PendingCases, PendingCasesPrime
  <1>6. \A c \in ConnIDs : c # conn[k] => (c \in Live' <=> c \in Live)
    BY <1>1 DEF Live
  <1>7. NoLostNotification'
    BY <1>1, <1>5, <1>6 DEF NotifyInv, NoLostNotification
  <1>q. QED BY <1>2, <1>7 DEF NotifyInv

LEMMA NotifyStep ==
  ASSUME TypeInv, NotifyInv, NEW k \in Clients, Step(k)
  PROVE  NotifyInv'
  <1>1. CASE AddConn(k)
    BY <1>1, NotifyChange
  <1>2. CASE AnnounceAdd(k) \/ AnnounceRemove(k)
    BY <1>2, NotifyAnnounce
  <1>3. CASE RemoveConn(k)
    <2>1. CASE conns[conn[k]] # NoClient
      BY <1>3, <2>1, NotifyChange
    <2>2. CASE conns[conn[k]] = NoClient
      <3>1. UNCHANGED <<conns, eventVars, watchVars, userVars>>
        BY <1>3, <2>2 DEF RemoveConn
      <3>2. \A j \in Clients : pc[j] \in {"announceAdd", "announceRemove"} =>
                                 pc'[j] = pc[j] /\ conn'[j] = conn[j]
        BY <1>3, <2>2 DEF RemoveConn, TypeInv, TypeOK
      <3>q. QED BY <3>1, <3>2, NotifyFrame
    <2>q. QED BY <2>1, <2>2
  <1>4. CASE \/ ConnectOpened(k) \/ ConnectFailed(k) \/ DisconnectClose(k)
             \/ MonitorStart(k) \/ ObserveReady(k) \/ ObserveIdle(k) \/ ObserveDown(k)
             \/ StreamReopened(k) \/ StreamReopenFailed(k)
    <2>1. UNCHANGED <<conns, eventVars, watchVars, userVars>>
      BY <1>4 DEF ConnectOpened, ConnectFailed, DisconnectClose, MonitorStart,
                  ObserveReady, ObserveIdle, ObserveDown, StreamReopened,
                  StreamReopenFailed
    <2>2. pc[k] \in {"announceAdd", "announceRemove"} => pc' = pc /\ conn' = conn
      BY <1>4 DEF ConnectOpened, ConnectFailed, DisconnectClose, SetLink, MonitorStart,
                  ObserveReady, ObserveIdle, ObserveDown, StreamReopened,
                  StreamReopenFailed, TypeInv, TypeOK
    <2>3. \A j \in Clients \ {k} : pc'[j] = pc[j] /\ conn'[j] = conn[j]
      BY <1>4 DEF ConnectOpened, ConnectFailed, DisconnectClose, SetLink, MonitorStart,
                  ObserveReady, ObserveIdle, ObserveDown, StreamReopened,
                  StreamReopenFailed, TypeInv, TypeOK
    <2>q. QED BY <2>1, <2>2, <2>3, NotifyFrame
  <1>q. QED BY <1>1, <1>2, <1>3, <1>4 DEF Step

LEMMA NotifyConnect ==
  ASSUME TypeInv, NotifyInv,
         \/ \E t \in Targets : DisconnectUnmap(t)
         \/ \E t \in Targets, k \in Clients : Connect(t, k)
         \/ \E k \in Clients : Link(k)
  PROVE  NotifyInv'
  <1>1. CASE \E t \in Targets : DisconnectUnmap(t)
    BY <1>1, NotifyFrame DEF DisconnectUnmap, clientVars
  <1>2. ASSUME NEW t \in Targets, NEW k \in Clients, Connect(t, k) PROVE NotifyInv'
    <2>1. UNCHANGED <<conns, eventVars, watchVars, userVars>>
      BY <1>2 DEF Connect
    <2>2. \A j \in Clients : pc[j] \in {"announceAdd", "announceRemove"} =>
                               pc'[j] = pc[j] /\ conn'[j] = conn[j]
      BY <1>2 DEF Connect, Unused, TypeInv, TypeOK
    <2>q. QED BY <2>1, <2>2, NotifyFrame
  <1>3. ASSUME NEW k \in Clients, Link(k) PROVE NotifyInv'
    <2>1. UNCHANGED <<conns, conn, eventVars, watchVars, userVars>>
      BY <1>3, LinkTarget
    <2>2. \A j \in Clients : pc[j] \in {"announceAdd", "announceRemove"} => pc'[j] = pc[j]
      BY <1>3, LinkTarget DEF SetLink, TypeInv, TypeOK
    <2>q. QED BY <2>1, <2>2, NotifyFrame
  <1>q. QED BY <1>1, <1>2, <1>3

\* processEvents hands what it announces to every watcher registered by then.
LEMMA NotifyEvents ==
  ASSUME TypeInv, NotifyInv, Events
  PROVE  NotifyInv'
  <1> USE DEF clientVars, userVars
  <1>0. UNCHANGED <<conns, pc, conn, watchers, wpc, replay, inhand, view>>
    BY DEF Events, EventLock, EventSend, EventDone, watchVars
  <1>1. \A c \in ConnIDs : Announced(c)' <=> Announced(c)
    BY <1>0 DEF Announced
  <1>2. /\ Round' /\ Registered'
        /\ \A w \in watchers, c \in ConnIDs : Pending(w, c) => Pending(w, c)'
    <2>1. CASE EventLock
      <3>1. /\ evpc = "lock" /\ evpc' = "deliver" /\ todo' = watchers
            /\ UNCHANGED <<evt, queue>>
        BY <2>1 DEF EventLock, watchVars
      <3>q. QED
        BY <3>1, <1>0, <1>1, PendingCases, PendingCasesPrime
           DEF NotifyInv, Round, Registered
    <2>2. CASE EventDone
      <3>1. /\ evpc = "deliver" /\ todo = {} /\ todo' = {} /\ evpc' = "receive"
            /\ UNCHANGED queue
        BY <2>2 DEF EventDone, watchVars
      <3>q. QED
        BY <3>1, <1>0, <1>1, PendingCases, PendingCasesPrime
           DEF NotifyInv, Round, Registered
    <2>3. ASSUME NEW v \in Watchers, EventSend(v)
          PROVE  /\ Round' /\ Registered'
                 /\ \A w \in watchers, c \in ConnIDs : Pending(w, c) => Pending(w, c)'
      <3>1. /\ evpc = "deliver" /\ v \in todo /\ todo' = todo \ {v}
            /\ queue' = [queue EXCEPT ![v] = Append(@, evt)]
            /\ UNCHANGED <<evpc, evt>>
        BY <2>3 DEF EventSend
      <3>2. /\ \A w \in Watchers \ {v} : queue'[w] = queue[w]
            /\ v \in watchers
        BY <3>1 DEF TypeInv, TypeOK, NotifyInv, Round
      <3>3. Round' /\ Registered'
        BY <3>1, <3>2, <1>0 DEF NotifyInv, Round, Registered
      <3>4. /\ queue[v] \in Seq(ConnIDs) /\ evt \in ConnIDs
            /\ queue'[v] = Append(queue[v], evt)
        BY <3>1 DEF TypeInv, TypeOK, Announcing
      <3>5. /\ \E i \in DOMAIN queue'[v] : queue'[v][i] = evt
            /\ \A i \in DOMAIN queue[v] : i \in DOMAIN queue'[v] /\ queue'[v][i] = queue[v][i]
        BY <3>4
      <3>6. ASSUME NEW w \in watchers, NEW c \in ConnIDs, Pending(w, c)
            PROVE  Pending(w, c)'
        <4>1. w \in Watchers
          BY DEF TypeInv, TypeOK
        <4>2. CASE w = v
          BY <3>1, <3>5, <3>6, <4>2, <1>0, <1>1, PendingCases, PendingCasesPrime
        <4>3. CASE w # v
          BY <3>1, <3>2, <3>6, <4>1, <4>3, <1>0, <1>1, PendingCases, PendingCasesPrime
        <4>q. QED BY <4>2, <4>3
      <3>q. QED BY <3>3, <3>6
    <2>q. QED BY <2>1, <2>2, <2>3 DEF Events
  <1>3. NoLostNotification'
    BY <1>0, <1>2 DEF NotifyInv, NoLostNotification, Live
  <1>q. QED BY <1>2, <1>3 DEF NotifyInv

\* The steps of a watcher concern that watcher only.
LEMMA WatchLocal ==
  ASSUME TypeInv, NEW w \in Watchers, Watch(w) \/ Consume(w)
  PROVE  /\ UNCHANGED <<conns, pc, conn, evpc, evt, todo>>
         /\ \A v \in Watchers \ {w} :
              /\ v \in watchers' <=> v \in watchers
              /\ wpc'[v] = wpc[v] /\ replay'[v] = replay[v] /\ queue'[v] = queue[v]
              /\ inhand'[v] = inhand[v] /\ view'[v] = view[v]
  <1> USE DEF TypeInv, TypeOK, clientVars, eventVars, watchVars, userVars
  <1>1. CASE WatchLock(w)     BY <1>1 DEF WatchLock
  <1>2. CASE WatchRegister(w) BY <1>2 DEF WatchRegister
  <1>3. CASE \E c \in ConnIDs : ReplaySend(w, c) BY <1>3 DEF ReplaySend
  <1>4. CASE ReplayDone(w)    BY <1>4 DEF ReplayDone
  <1>5. CASE Unwatch(w)       BY <1>5 DEF Unwatch
  <1>6. CASE Receive(w)       BY <1>6 DEF Receive
  <1>7. CASE Lookup(w)        BY <1>7 DEF Lookup
  <1>q. QED BY <1>1, <1>2, <1>3, <1>4, <1>5, <1>6, <1>7 DEF Watch, Consume

\* So only what the watcher itself believes, and what is on its way to it, has
\* to be looked at.
LEMMA WatchReduce ==
  ASSUME TypeInv, NotifyInv, NEW w \in Watchers, Watch(w) \/ Consume(w),
         \A c \in ConnIDs :
           w \in watchers' /\ (c \in view'[w]) # (c \in Live) => Pending(w, c)'
  PROVE  NoLostNotification'
  <1>1. Live' = Live
    BY WatchLocal DEF Live
  <1>2. \A c \in ConnIDs : Announced(c)' <=> Announced(c)
    BY WatchLocal DEF Announced
  <1>3. ASSUME NEW v \in Watchers \ {w}, v \in watchers', NEW c \in ConnIDs,
               (c \in view'[v]) # (c \in Live)
        PROVE  Pending(v, c)'
    <2>1. v \in watchers /\ (c \in view[v]) # (c \in Live)
      BY <1>3, WatchLocal
    <2>2. Pending(v, c)
      BY <2>1 DEF NotifyInv, NoLostNotification
    <2>3. /\ evpc' = evpc /\ evt' = evt /\ todo' = todo
          /\ replay'[v] = replay[v] /\ queue'[v] = queue[v] /\ inhand'[v] = inhand[v]
      BY WatchLocal
    <2>q. QED
      BY <1>2, <1>3, <2>2, <2>3, PendingCases, PendingCasesPrime
  <1>4. watchers' \subseteq Watchers
    BY TypeWatch DEF TypeInv, TypeOK
  <1>q. QED BY <1>1, <1>3, <1>4 DEF NoLostNotification

LEMMA NotifyWatch ==
  ASSUME TypeInv, NotifyInv, NEW w \in Watchers, Watch(w) \/ Consume(w)
  PROVE  NotifyInv'
  <1> USE DEF TypeInv, TypeOK
  <1> DEFINE Good == \A c \in ConnIDs :
                       w \in watchers' /\ (c \in view'[w]) # (c \in Live) => Pending(w, c)'
             Mine == /\ w \in watchers' <=> wpc'[w] \in {"replay", "on"}
                     /\ w \notin watchers' =>
                          queue'[w] = <<>> /\ inhand'[w] = NoConn /\ view'[w] = {}
  <1>1. w \in watchers => \A c \in ConnIDs : (c \in view[w]) # (c \in Live) => Pending(w, c)
    BY DEF NotifyInv, NoLostNotification
  <1>2. /\ w \in watchers <=> wpc[w] \in {"replay", "on"}
        /\ w \notin watchers => queue[w] = <<>> /\ inhand[w] = NoConn /\ view[w] = {}
    BY DEF NotifyInv, Registered
  <1>3. todo \subseteq watchers /\ (evpc # "deliver" => todo = {})
    BY DEF NotifyInv, Round
  <1>4. /\ evpc' = evpc /\ evt' = evt /\ todo' = todo
        /\ \A c \in ConnIDs : Announced(c)' <=> Announced(c)
    BY WatchLocal DEF Announced
  <1>5. Mine /\ Good /\ todo \subseteq watchers'
    <2>1. CASE WatchLock(w)
      <3>1. /\ wpc[w] = "off" /\ wpc'[w] = "locked"
            /\ UNCHANGED <<watchers, queue, inhand, view>>
        BY <2>1 DEF WatchLock, userVars
      <3>q. QED BY <3>1, <1>2, <1>3
    <2>2. CASE WatchRegister(w)
      <3>1. /\ wpc[w] = "locked" /\ wpc'[w] = "replay" /\ replay'[w] = Live
            /\ watchers' = watchers \cup {w} /\ UNCHANGED <<queue, inhand, view>>
        BY <2>2 DEF WatchRegister, userVars
      <3>2. view'[w] = {}
        BY <3>1, <1>2
      <3>3. Good
        BY <3>1, <3>2, PendingCasesPrime
      <3>q. QED BY <3>1, <3>3, <1>3
    <2>3. CASE ReplayDone(w)
      <3>1. /\ wpc[w] = "replay" /\ wpc'[w] = "on"
            /\ UNCHANGED <<watchers, replay, queue, inhand, view>>
        BY <2>3 DEF ReplayDone, userVars
      <3>q. QED BY <3>1, <1>1, <1>2, <1>3, <1>4, PendingCases, PendingCasesPrime
    <2>4. CASE Unwatch(w)
      <3>1. /\ w \notin watchers' /\ wpc'[w] = "off" /\ queue'[w] = <<>>
            /\ inhand'[w] = NoConn /\ view'[w] = {} /\ evpc # "deliver"
        BY <2>4 DEF Unwatch, WatchersMuFree
      <3>q. QED BY <3>1, <1>3
    <2>5. ASSUME NEW c \in ConnIDs, ReplaySend(w, c) PROVE Mine /\ Good /\ todo \subseteq watchers'
      <3>1. /\ wpc[w] = "replay" /\ c \in replay[w]
            /\ queue'[w] = Append(queue[w], c) /\ replay'[w] = replay[w] \ {c}
            /\ UNCHANGED <<watchers, wpc, inhand, view>>
        BY <2>5 DEF ReplaySend, userVars
      <3>2. /\ \E i \in DOMAIN queue'[w] : queue'[w][i] = c
            /\ \A i \in DOMAIN queue[w] : i \in DOMAIN queue'[w] /\ queue'[w][i] = queue[w][i]
        <4>1. queue[w] \in Seq(ConnIDs) OBVIOUS
        <4> HIDE DEF TypeInv, TypeOK
        <4>q. QED BY <3>1, <4>1
      <3>3. \A d \in ConnIDs : Pending(w, d) => Pending(w, d)'
        BY <3>1, <3>2, <1>4, PendingCases, PendingCasesPrime
      <3>q. QED BY <3>1, <3>3, <1>1, <1>2, <1>3
    <2>6. CASE Receive(w)
      <3>1. /\ inhand[w] = NoConn /\ queue[w] # <<>>
            /\ inhand'[w] = Head(queue[w]) /\ queue'[w] = Tail(queue[w])
            /\ UNCHANGED <<watchers, wpc, replay, view>>
        BY <2>6 DEF Receive
      <3>2. w \in watchers
        BY <3>1, <1>2
      <3>3. ASSUME NEW i \in DOMAIN queue[w]
            PROVE  \/ queue[w][i] = inhand'[w]
                   \/ \E j \in DOMAIN queue'[w] : queue'[w][j] = queue[w][i]
        <4>1. queue[w] \in Seq(ConnIDs) /\ i \in 1 .. Len(queue[w])
          OBVIOUS
        <4>2. CASE i = 1 BY <3>1, <4>1, <4>2
        <4>3. CASE i # 1
          <5>1. i - 1 \in DOMAIN queue'[w] /\ queue'[w][i - 1] = queue[w][i]
            BY <3>1, <4>1, <4>3
          <5>q. QED BY <5>1
        <4>q. QED BY <4>2, <4>3
      <3>4. \A c \in ConnIDs : Pending(w, c) => Pending(w, c)'
        BY <3>1, <3>2, <3>3, <1>4, NullAssumption, PendingCases, PendingCasesPrime
      <3>q. QED BY <3>1, <3>2, <3>4, <1>1, <1>2, <1>3
    <2>7. CASE Lookup(w)
      <3>1. /\ inhand[w] # NoConn /\ inhand'[w] = NoConn
            /\ view'[w] = IF inhand[w] \in Live THEN view[w] \cup {inhand[w]}
                          ELSE view[w] \ {inhand[w]}
            /\ UNCHANGED <<watchers, wpc, replay, queue>>
        BY <2>7 DEF Lookup, watchVars
      <3>2. w \in watchers
        BY <3>1, <1>2
      <3>3. \A c \in ConnIDs : c # inhand[w] /\ Pending(w, c) => Pending(w, c)'
        BY <3>1, <3>2, <1>4, PendingCases, PendingCasesPrime
      <3>q. QED BY <3>1, <3>2, <3>3, <1>1, <1>2, <1>3
    <2>q. QED
      BY <2>1, <2>2, <2>3, <2>4, <2>5, <2>6, <2>7 DEF Watch, Consume
  <1>6. NoLostNotification'
    BY <1>5, WatchReduce
  <1>7. Round'
    BY <1>3, <1>4, <1>5 DEF Round
  <1>8. Registered'
    <2> SUFFICES ASSUME NEW v \in Watchers
                 PROVE  /\ v \in watchers' <=> wpc'[v] \in {"replay", "on"}
                        /\ v \notin watchers' => queue'[v] = <<>> /\ inhand'[v] = NoConn /\ view'[v] = {}
      BY DEF Registered
    <2>1. CASE v = w BY <2>1, <1>5
    <2>2. CASE v # w
      BY <2>2, <1>3, <1>4, WatchLocal DEF NotifyInv, Registered
    <2>q. QED BY <2>1, <2>2
  <1>q. QED BY <1>6, <1>7, <1>8 DEF NotifyInv

LEMMA NotifyInvariant == Spec => []NotifyInv
  <1>1. Init => NotifyInv
    BY DEF Init, NotifyInv, Round, Registered, NoLostNotification
  <1>2. TypeInv /\ NotifyInv /\ [Next]_vars => NotifyInv'
    <2> SUFFICES ASSUME TypeInv, NotifyInv, [Next]_vars PROVE NotifyInv'
      OBVIOUS
    <2>1. CASE Next
      BY <2>1, NextCases, NotifyConnect, NotifyStep, NotifyWatch, NotifyEvents
    <2>2. CASE UNCHANGED vars
      BY <2>2, NotifyFrame DEF vars, clientVars
    <2>q. QED BY <2>1, <2>2
  <1>q. QED BY <1>1, <1>2, TypeInvariant, PTL DEF Spec

\* conn_manager.go:186-238: no watcher ever loses a change of conns, for any
\* number of monitors and watchers and any capacity of their channels.
THEOREM NotificationsAreKept == Spec => []NoLostNotification
  <1>1. NotifyInv => NoLostNotification
    BY DEF NotifyInv
  <1>q. QED BY <1>1, NotifyInvariant, PTL

-----------------------------------------------------------------------------
(* The manager implements ConnWatch.  A registration, its end and a look-up   *)
(* are those of ConnWatch; addConn and removeConn are its Change; every      *)
(* other step moves a notification on without adding or dropping one.        *)

\* Steps that change no connection, watcher or view, and no notification.
LEMMA ContractFrame ==
  ASSUME UNCHANGED <<conns, watchers, view>>,
         \A w \in watchers, c \in ConnIDs : Pending(w, c)' <=> Pending(w, c)
  PROVE  UNCHANGED WatchContract!vars
  <1>1. \A w \in Watchers, c \in ConnIDs : Pending(w, c)' <=> Pending(w, c)
    BY PendingCases, PendingCasesPrime
  <1>2. Notices' = Notices
    BY <1>1, Zenon DEF Notices
  <1>3. Live' = Live
    BY DEF Live
  <1>q. QED BY <1>2, <1>3 DEF WatchContract!vars

\* A monitor's step that leaves conns and the announcements alone.
LEMMA ContractMonitor ==
  ASSUME UNCHANGED <<conns, eventVars, watchVars, userVars>>,
         \A k \in Clients :
           pc[k] \in {"announceAdd", "announceRemove"} \/ pc'[k] \in {"announceAdd", "announceRemove"}
             => pc'[k] = pc[k] /\ conn'[k] = conn[k]
  PROVE  UNCHANGED WatchContract!vars
  <1>1. \A c \in ConnIDs : Announced(c)' <=> Announced(c)
    BY DEF Announced
  <1>q. QED
    BY <1>1, PendingCases, PendingCasesPrime, ContractFrame DEF eventVars, watchVars, userVars

\* addConn and removeConn: the connection changes, its monitor announces it.
LEMMA ContractChange ==
  ASSUME TypeInv, RegistryInv, Distinct, NEW k \in Clients,
         \/ AddConn(k)
         \/ RemoveConn(k) /\ conns[conn[k]] # NoClient
  PROVE  WatchContract!Next
  <1> USE DEF TypeInv, TypeOK
  <1>1. /\ pc[k] \in {"add", "remove"} /\ conn' = conn /\ conn[k] \in ConnIDs
        /\ \E p \in {"announceAdd", "announceRemove"} : pc' = [pc EXCEPT ![k] = p]
        /\ UNCHANGED <<evpc, evt, todo, watchers, replay, queue, inhand, view>>
    BY DEF AddConn, RemoveConn, Holding, eventVars, watchVars, userVars
  <1>2. Live' = IF conn[k] \in Live THEN Live \ {conn[k]} ELSE Live \cup {conn[k]}
    <2>1. CASE AddConn(k)
      <3>1. conns' = [conns EXCEPT ![conn[k]] = k] /\ pc[k] = "add"
        BY <2>1 DEF AddConn
      <3>2. conns[conn[k]] = NoClient
        <4> SUFFICES ASSUME conns[conn[k]] # NoClient PROVE FALSE
          OBVIOUS
        <4>1. PICK j \in Clients : conns[conn[k]] = j
          BY <1>1
        <4>2. conn[j] = conn[k] /\ pc[j] \in Owning
          BY <1>1, <4>1 DEF RegistryInv, RegistrySound
        <4>3. j = k
          BY <1>1, <4>2, NullAssumption DEF Distinct
        <4>q. QED BY <3>1, <4>2, <4>3 DEF Owning
      <3>q. QED BY <1>1, <3>1, <3>2, NullAssumption DEF Live
    <2>2. CASE RemoveConn(k) /\ conns[conn[k]] # NoClient
      <3>1. conns' = [conns EXCEPT ![conn[k]] = NoClient]
        BY <2>2 DEF RemoveConn
      <3>q. QED BY <1>1, <2>2, <3>1 DEF Live
    <2>q. QED BY <2>1, <2>2
  <1>3. \A c \in ConnIDs : Announced(c)' <=> Announced(c) \/ c = conn[k]
    BY <1>1 DEF Announced
  <1>4. \A w \in Watchers, c \in ConnIDs :
          Pending(w, c)' <=> w \in watchers /\ (Pending(w, c) \/ c = conn[k])
    BY <1>1, <1>3, PendingCases, PendingCasesPrime
  <1>5. \A w \in Watchers :
          {c \in ConnIDs : Pending(w, c)'} =
            IF w \in watchers THEN {c \in ConnIDs : Pending(w, c)} \cup {conn[k]} ELSE {}
    BY <1>1, <1>4
  <1>6. Notices' = [w \in Watchers |->
                     IF w \in watchers THEN Notices[w] \cup {conn[k]} ELSE {}]
    BY <1>5 DEF Notices
  <1>7. WatchContract!Change(conn[k])
    BY <1>1, <1>2, <1>6 DEF WatchContract!Change
  <1>q. QED BY <1>1, <1>7 DEF WatchContract!Next

LEMMA ContractStep ==
  ASSUME TypeInv, RegistryInv, Distinct, NotifyInv, NEW k \in Clients, Step(k)
  PROVE  WatchContract!Next \/ UNCHANGED WatchContract!vars
  <1> USE DEF TypeInv, TypeOK
  <1>1. CASE AddConn(k)
    BY <1>1, ContractChange
  <1>2. CASE AnnounceAdd(k) \/ AnnounceRemove(k)
    <2>1. /\ evpc = "receive" /\ evpc' = "lock" /\ evt' = conn[k]
          /\ pc[k] \in {"announceAdd", "announceRemove"}
          /\ pc'[k] \notin {"announceAdd", "announceRemove"}
          /\ UNCHANGED <<conns, todo, watchers, replay, queue, inhand, view>>
          /\ \A j \in Clients \ {k} : pc'[j] = pc[j] /\ conn'[j] = conn[j]
      BY <1>2, ResumeType DEF AnnounceAdd, AnnounceRemove, watchVars, userVars
    <2>2. todo = {}
      BY <2>1 DEF NotifyInv, Round
    <2>3. \A c \in ConnIDs : Announced(c) <=> Announced(c)' \/ c = conn[k]
      BY <2>1 DEF Announced
    <2>4. \A w \in watchers, c \in ConnIDs : Pending(w, c)' <=> Pending(w, c)
      BY <2>1, <2>2, <2>3, PendingCases, PendingCasesPrime
    <2>q. QED BY <2>1, <2>4, ContractFrame
  <1>3. CASE RemoveConn(k)
    <2>1. CASE conns[conn[k]] # NoClient
      BY <1>3, <2>1, ContractChange
    <2>2. CASE conns[conn[k]] = NoClient
      <3>1. UNCHANGED <<conns, eventVars, watchVars, userVars>>
        BY <1>3, <2>2 DEF RemoveConn
      <3>2. /\ pc[k] = "remove" /\ pc'[k] \in {"done", "waiting", "woken"}
            /\ \A j \in Clients \ {k} : pc'[j] = pc[j] /\ conn'[j] = conn[j]
        BY <1>3, <2>2, ResumeType DEF RemoveConn
      <3>q. QED BY <3>1, <3>2, ContractMonitor
    <2>q. QED BY <2>1, <2>2
  <1>4. CASE \/ ConnectOpened(k) \/ ConnectFailed(k) \/ DisconnectClose(k)
             \/ MonitorStart(k) \/ ObserveReady(k) \/ ObserveIdle(k) \/ ObserveDown(k)
             \/ StreamReopened(k) \/ StreamReopenFailed(k)
    <2>1. UNCHANGED <<conns, eventVars, watchVars, userVars>>
      BY <1>4 DEF ConnectOpened, ConnectFailed, DisconnectClose, MonitorStart,
                  ObserveReady, ObserveIdle, ObserveDown, StreamReopened,
                  StreamReopenFailed
    <2>2. \/ pc'[k] = pc[k] /\ conn'[k] = conn[k]
          \/ /\ pc[k] \notin {"announceAdd", "announceRemove"}
             /\ pc'[k] \notin {"announceAdd", "announceRemove"}
      <3>1. CASE ObserveDown(k)
        BY <3>1, ResumeType DEF ObserveDown
      <3>2. CASE StreamReopenFailed(k)
        BY <3>2, ResumeType DEF StreamReopenFailed
      <3>3. CASE ObserveIdle(k)
        BY <3>3 DEF ObserveIdle
      <3>4. CASE DisconnectClose(k)
        BY <3>4 DEF DisconnectClose, SetLink
      <3>q. QED
        BY <1>4, <3>1, <3>2, <3>3, <3>4
           DEF ConnectOpened, ConnectFailed, MonitorStart, ObserveReady, StreamReopened
    <2>3. \A j \in Clients \ {k} : pc'[j] = pc[j] /\ conn'[j] = conn[j]
      BY <1>4 DEF ConnectOpened, ConnectFailed, DisconnectClose, SetLink, MonitorStart,
                  ObserveReady, ObserveIdle, ObserveDown, StreamReopened,
                  StreamReopenFailed
    <2>q. QED BY <2>1, <2>2, <2>3, ContractMonitor
  <1>q. QED BY <1>1, <1>2, <1>3, <1>4 DEF Step

LEMMA ContractConnect ==
  ASSUME TypeInv,
         \/ \E t \in Targets : DisconnectUnmap(t)
         \/ \E t \in Targets, k \in Clients : Connect(t, k)
         \/ \E k \in Clients : Link(k)
  PROVE  UNCHANGED WatchContract!vars
  <1> USE DEF TypeInv, TypeOK
  <1>1. CASE \E t \in Targets : DisconnectUnmap(t)
    BY <1>1, ContractMonitor DEF DisconnectUnmap, clientVars
  <1>2. ASSUME NEW t \in Targets, NEW k \in Clients, Connect(t, k)
        PROVE  UNCHANGED WatchContract!vars
    <2>1. UNCHANGED <<conns, eventVars, watchVars, userVars>>
      BY <1>2 DEF Connect
    <2>2. /\ pc[k] \notin {"announceAdd", "announceRemove"} /\ pc'[k] = "dialing"
          /\ \A j \in Clients \ {k} : pc'[j] = pc[j] /\ conn'[j] = conn[j]
      BY <1>2 DEF Connect, Unused
    <2>q. QED BY <2>1, <2>2, ContractMonitor
  <1>3. ASSUME NEW k \in Clients, Link(k) PROVE UNCHANGED WatchContract!vars
    <2>1. UNCHANGED <<conns, conn, eventVars, watchVars, userVars>>
      BY <1>3, LinkTarget
    <2>2. \A j \in Clients : pc'[j] = pc[j] \/ (pc[j] = "waiting" /\ pc'[j] = "woken")
      BY <1>3, LinkTarget DEF SetLink
    <2>q. QED BY <2>1, <2>2, ContractMonitor
  <1>q. QED BY <1>1, <1>2, <1>3

\* What a channel holds after a send.
LEMMA AppendHolds ==
  ASSUME NEW q \in Seq(ConnIDs), NEW e \in ConnIDs, NEW c \in ConnIDs
  PROVE  (\E i \in DOMAIN Append(q, e) : Append(q, e)[i] = c) <=>
           (\E i \in DOMAIN q : q[i] = c) \/ c = e
  <1>1. /\ DOMAIN Append(q, e) = 1 .. Len(q) + 1 /\ DOMAIN q = 1 .. Len(q)
        /\ Len(q) \in Nat
        /\ Append(q, e)[Len(q) + 1] = e
        /\ \A i \in 1 .. Len(q) : Append(q, e)[i] = q[i]
    OBVIOUS
  <1>2. \A i \in 1 .. Len(q) + 1 : i \in 1 .. Len(q) \/ i = Len(q) + 1
    BY <1>1
  <1>3. 1 .. Len(q) \subseteq 1 .. Len(q) + 1 /\ Len(q) + 1 \in 1 .. Len(q) + 1
    BY <1>1
  <1>q. QED BY <1>1, <1>2, <1>3, Zenon

\* processEvents passes a notification on: it is in evt until it is in the channel.
LEMMA ContractEvents ==
  ASSUME TypeInv, NotifyInv, Events
  PROVE  UNCHANGED WatchContract!vars
  <1> USE DEF clientVars, userVars
  <1>0. UNCHANGED <<conns, pc, conn, watchers, wpc, replay, inhand, view>>
    BY DEF Events, EventLock, EventSend, EventDone, watchVars
  <1>1. \A c \in ConnIDs : Announced(c)' <=> Announced(c)
    BY <1>0 DEF Announced
  <1>2. \A w \in watchers, c \in ConnIDs : Pending(w, c)' <=> Pending(w, c)
    <2>1. CASE EventLock
      <3>1. /\ evpc = "lock" /\ evpc' = "deliver" /\ todo' = watchers
            /\ UNCHANGED <<evt, queue>>
        BY <2>1 DEF EventLock, watchVars
      <3>q. QED BY <3>1, <1>0, <1>1, PendingCases, PendingCasesPrime
    <2>2. CASE EventDone
      <3>1. /\ evpc = "deliver" /\ todo = {} /\ todo' = {} /\ evpc' = "receive"
            /\ UNCHANGED queue
        BY <2>2 DEF EventDone, watchVars
      <3>q. QED BY <3>1, <1>0, <1>1, PendingCases, PendingCasesPrime
    <2>3. ASSUME NEW v \in Watchers, EventSend(v)
          PROVE  \A w \in watchers, c \in ConnIDs : Pending(w, c)' <=> Pending(w, c)
      <3>1. /\ evpc = "deliver" /\ v \in todo /\ todo' = todo \ {v}
            /\ queue' = [queue EXCEPT ![v] = Append(@, evt)]
            /\ UNCHANGED <<evpc, evt>>
        BY <2>3 DEF EventSend
      <3>2. /\ \A w \in Watchers \ {v} : queue'[w] = queue[w]
            /\ queue[v] \in Seq(ConnIDs) /\ evt \in ConnIDs
            /\ queue'[v] = Append(queue[v], evt)
            /\ watchers \subseteq Watchers
        BY <3>1 DEF TypeInv, TypeOK, Announcing
      <3>3. \A c \in ConnIDs :
              (\E i \in DOMAIN queue'[v] : queue'[v][i] = c) <=>
                (\E i \in DOMAIN queue[v] : queue[v][i] = c) \/ c = evt
        BY <3>2, AppendHolds
      <3>4. \A w \in watchers : w # v => (w \in todo' <=> w \in todo) /\ queue'[w] = queue[w]
        BY <3>1, <3>2
      <3>5. \A c \in ConnIDs : Pending(v, c)' <=> Pending(v, c)
        BY <3>1, <3>3, <1>0, <1>1, PendingCases, PendingCasesPrime
      <3>6. \A w \in watchers, c \in ConnIDs : w # v => (Pending(w, c)' <=> Pending(w, c))
        BY <3>1, <3>4, <1>0, <1>1, PendingCases, PendingCasesPrime
      <3>q. QED BY <3>5, <3>6
    <2>q. QED BY <2>1, <2>2, <2>3 DEF Events
  <1>q. QED BY <1>0, <1>2, ContractFrame

\* What a channel holds before a receive.
LEMMA TailHolds ==
  ASSUME NEW q \in Seq(ConnIDs), q # <<>>, NEW c \in ConnIDs
  PROVE  (\E i \in DOMAIN q : q[i] = c) <=>
           (\E i \in DOMAIN Tail(q) : Tail(q)[i] = c) \/ c = Head(q)
  <1>1. /\ DOMAIN q = 1 .. Len(q) /\ DOMAIN Tail(q) = 1 .. Len(q) - 1
        /\ Len(q) \in Nat \ {0}
        /\ Head(q) = q[1]
        /\ \A i \in 1 .. Len(q) - 1 : Tail(q)[i] = q[i + 1]
    OBVIOUS
  <1>2. ASSUME NEW i \in DOMAIN q, q[i] = c
        PROVE  (\E j \in DOMAIN Tail(q) : Tail(q)[j] = c) \/ c = Head(q)
    <2>1. CASE i = 1 BY <1>1, <1>2, <2>1
    <2>2. CASE i # 1
      <3>1. i - 1 \in DOMAIN Tail(q) /\ Tail(q)[i - 1] = q[i]
        BY <1>1, <2>2
      <3>q. QED BY <1>2, <3>1
    <2>q. QED BY <2>1, <2>2
  <1>3. ASSUME NEW i \in DOMAIN Tail(q), Tail(q)[i] = c
        PROVE  \E j \in DOMAIN q : q[j] = c
    <2>1. i + 1 \in DOMAIN q /\ q[i + 1] = Tail(q)[i]
      BY <1>1
    <2>q. QED BY <1>3, <2>1
  <1>4. ASSUME c = Head(q) PROVE \E j \in DOMAIN q : q[j] = c
    <2>1. 1 \in DOMAIN q
      BY <1>1
    <2>q. QED BY <1>1, <1>4, <2>1
  <1>q. QED BY <1>2, <1>3, <1>4

\* The other watchers notice nothing of a watcher's step.
LEMMA ContractOthers ==
  ASSUME TypeInv, NEW w \in Watchers, Watch(w) \/ Consume(w)
  PROVE  /\ Live' = Live
         /\ \A c \in ConnIDs : Announced(c)' <=> Announced(c)
         /\ \A v \in Watchers \ {w} : Notices'[v] = Notices[v]
  <1>1. Live' = Live
    BY WatchLocal DEF Live
  <1>2. \A c \in ConnIDs : Announced(c)' <=> Announced(c)
    BY WatchLocal DEF Announced
  <1>3. ASSUME NEW v \in Watchers \ {w} PROVE Notices'[v] = Notices[v]
    <2>1. /\ evpc' = evpc /\ evt' = evt /\ todo' = todo
          /\ v \in watchers' <=> v \in watchers
          /\ replay'[v] = replay[v] /\ queue'[v] = queue[v] /\ inhand'[v] = inhand[v]
      BY WatchLocal
    <2>2. \A c \in ConnIDs : Pending(v, c)' <=> Pending(v, c)
      BY <1>2, <2>1, PendingCases, PendingCasesPrime
    <2>q. QED BY <2>2 DEF Notices
  <1>q. QED BY <1>1, <1>2, <1>3

\* The steps of a watcher that only move its notifications on.
LEMMA ContractQuiet ==
  ASSUME TypeInv, NEW w \in Watchers, Watch(w) \/ Consume(w),
         UNCHANGED <<watchers, view>>,
         \A c \in ConnIDs : Pending(w, c)' <=> Pending(w, c)
  PROVE  UNCHANGED WatchContract!vars
  <1>1. Notices'[w] = Notices[w]
    BY DEF Notices
  <1>2. \A v \in Watchers : Notices'[v] = Notices[v]
    BY <1>1, ContractOthers
  <1>3. Notices' = Notices
    <2>1. Notices' = [v \in Watchers |-> Notices'[v]] /\ Notices = [v \in Watchers |-> Notices[v]]
      BY DEF Notices
    <2>q. QED BY <1>2, <2>1
  <1>q. QED BY <1>3, ContractOthers DEF WatchContract!vars

LEMMA ContractWatch ==
  ASSUME TypeInv, NotifyInv, NEW w \in Watchers, Watch(w) \/ Consume(w)
  PROVE  WatchContract!Next \/ UNCHANGED WatchContract!vars
  <1>1. /\ w \in watchers <=> wpc[w] \in {"replay", "on"}
        /\ w \notin watchers => queue[w] = <<>> /\ inhand[w] = NoConn /\ view[w] = {}
    BY DEF NotifyInv, Registered
  <1>2. /\ evpc' = evpc /\ evt' = evt /\ todo' = todo
        /\ \A c \in ConnIDs : Announced(c)' <=> Announced(c)
    BY WatchLocal, ContractOthers
  <1>3. CASE WatchLock(w) \/ ReplayDone(w)
    <2>1. /\ UNCHANGED <<watchers, replay, queue, inhand, view>>
      BY <1>3 DEF WatchLock, ReplayDone, userVars
    <2>2. \A c \in ConnIDs : Pending(w, c)' <=> Pending(w, c)
      BY <1>2, <2>1, PendingCases, PendingCasesPrime
    <2>q. QED BY <2>1, <2>2, ContractQuiet
  <1>4. CASE WatchRegister(w)
    <2>1. /\ wpc[w] = "locked" /\ replay'[w] = Live /\ view' = view
          /\ watchers' = watchers \cup {w}
      BY <1>4 DEF WatchRegister, userVars, TypeInv, TypeOK
    <2>2. Notices'[w] = Live \cup Notices'[w]
      <3>1. \A c \in Live : c \in ConnIDs /\ Pending(w, c)'
        BY <2>1, PendingCasesPrime DEF Live
      <3>q. QED BY <3>1 DEF Notices
    <2>3. Notices' = [Notices EXCEPT ![w] = Live \cup Notices'[w]]
      <3>1. Notices' = [v \in Watchers |-> Notices'[v]] /\ DOMAIN Notices = Watchers
        BY DEF Notices
      <3>q. QED BY <2>2, <3>1, ContractOthers
    <2>4. Notices'[w] \in SUBSET ConnIDs
      BY DEF Notices
    <2>5. WatchContract!Register(w)
      BY <1>1, <2>1, <2>3, <2>4, ContractOthers DEF WatchContract!Register
    <2>q. QED BY <2>5 DEF WatchContract!Next
  <1>5. ASSUME NEW d \in ConnIDs, ReplaySend(w, d) PROVE UNCHANGED WatchContract!vars
    <2>1. /\ d \in replay[w] /\ replay'[w] = replay[w] \ {d}
          /\ queue'[w] = Append(queue[w], d) /\ queue[w] \in Seq(ConnIDs)
          /\ UNCHANGED <<watchers, inhand, view>>
      BY <1>5 DEF ReplaySend, userVars, TypeInv, TypeOK
    <2>2. \A c \in ConnIDs :
            (\E i \in DOMAIN queue'[w] : queue'[w][i] = c) <=>
              (\E i \in DOMAIN queue[w] : queue[w][i] = c) \/ c = d
      <3>1. \A c \in ConnIDs :
              (\E i \in DOMAIN Append(queue[w], d) : Append(queue[w], d)[i] = c) <=>
                (\E i \in DOMAIN queue[w] : queue[w][i] = c) \/ c = d
        BY <2>1, AppendHolds, Zenon
      <3>q. QED BY <2>1, <3>1, Zenon
    <2>3. \A c \in ConnIDs : Pending(w, c)' <=> Pending(w, c)
      BY <1>2, <2>1, <2>2, PendingCases, PendingCasesPrime
    <2>q. QED BY <2>1, <2>3, ContractQuiet
  <1>6. CASE Unwatch(w)
    <2>1. /\ wpc[w] = "on" /\ watchers' = watchers \ {w} /\ view' = [view EXCEPT ![w] = {}]
      BY <1>6 DEF Unwatch
    <2>2. Notices'[w] = {}
      BY <2>1, PendingCasesPrime DEF Notices
    <2>3. Notices' = [Notices EXCEPT ![w] = {}]
      <3>1. Notices' = [v \in Watchers |-> Notices'[v]] /\ DOMAIN Notices = Watchers
        BY DEF Notices
      <3>q. QED BY <2>2, <3>1, ContractOthers
    <2>4. WatchContract!Unregister(w)
      BY <1>1, <2>1, <2>3, ContractOthers DEF WatchContract!Unregister
    <2>q. QED BY <2>4 DEF WatchContract!Next
  <1>7. CASE Receive(w)
    <2>1. /\ inhand[w] = NoConn /\ queue[w] # <<>> /\ queue[w] \in Seq(ConnIDs)
          /\ inhand'[w] = Head(queue[w]) /\ queue'[w] = Tail(queue[w])
          /\ UNCHANGED <<watchers, replay, view>>
      BY <1>7 DEF Receive, TypeInv, TypeOK
    <2>2. \A c \in ConnIDs :
            (\E i \in DOMAIN queue[w] : queue[w][i] = c) <=>
              (\E i \in DOMAIN queue'[w] : queue'[w][i] = c) \/ c = inhand'[w]
      BY <2>1, TailHolds
    <2>3. \A c \in ConnIDs : inhand[w] # c
      BY <2>1, NullAssumption
    <2>4. \A c \in ConnIDs : Pending(w, c)' <=> Pending(w, c)
      BY <1>2, <2>1, <2>2, <2>3, PendingCases, PendingCasesPrime
    <2>q. QED BY <2>1, <2>4, ContractQuiet
  <1>8. CASE Lookup(w)
    <2>1. /\ inhand[w] \in ConnIDs /\ inhand'[w] = NoConn
          /\ view' = [view EXCEPT ![w] = IF inhand[w] \in Live THEN @ \cup {inhand[w]}
                                         ELSE @ \ {inhand[w]}]
          /\ UNCHANGED <<watchers, replay, queue>>
      BY <1>8 DEF Lookup, watchVars, TypeInv, TypeOK
    <2>2. w \in watchers
      BY <1>1, <2>1, NullAssumption
    <2>3. inhand[w] \in Notices[w]
      BY <2>1, <2>2, PendingCases DEF Notices
    <2>4. \A c \in ConnIDs : c # inhand[w] => (Pending(w, c)' <=> Pending(w, c))
      BY <1>2, <2>1, NullAssumption, PendingCases, PendingCasesPrime
    <2>5. Notices'[w] \in {Notices[w], Notices[w] \ {inhand[w]}}
      <3>1. /\ Notices'[w] \subseteq ConnIDs /\ Notices[w] \subseteq ConnIDs
            /\ \A c \in ConnIDs : c # inhand[w] => (c \in Notices'[w] <=> c \in Notices[w])
        BY <2>4 DEF Notices
      <3>2. CASE inhand[w] \in Notices'[w]
        BY <2>3, <3>1, <3>2
      <3>3. CASE inhand[w] \notin Notices'[w]
        BY <2>3, <3>1, <3>3
      <3>q. QED BY <3>2, <3>3
    <2>6. /\ Notices' = [v \in Watchers |-> Notices'[v]]
          /\ Notices = [v \in Watchers |-> Notices[v]]
      BY DEF Notices
    <2>7. Notices' = [Notices EXCEPT ![w] = @ \ {inhand[w]}] \/ Notices' = Notices
      <3>1. CASE Notices'[w] = Notices[w]
        BY <2>6, <3>1, ContractOthers
      <3>2. CASE Notices'[w] = Notices[w] \ {inhand[w]}
        BY <2>6, <3>2, ContractOthers
      <3>q. QED BY <2>5, <3>1, <3>2
    <2>8. WatchContract!Observe(w, inhand[w])
      BY <2>1, <2>3, <2>7, ContractOthers DEF WatchContract!Observe
    <2>q. QED BY <2>1, <2>8 DEF WatchContract!Next
  <1>q. QED BY <1>3, <1>4, <1>5, <1>6, <1>7, <1>8 DEF Watch, Consume

\* conn_manager.go:186-238: for any number of monitors, watchers and connections
\* and any capacity of the channels, every behaviour of the manager is one of
\* ConnWatch: what a watcher looks up is what was announced to it, every change
\* is announced, and its record of a connection is never older than its look.
THEOREM WatchIsImplemented == Spec => WatchImplemented
  <1>1. Init => WatchContract!Init
    <2> SUFFICES ASSUME Init PROVE WatchContract!Init
      OBVIOUS
    <2>1. Live = {} /\ watchers = {} /\ view = [w \in Watchers |-> {}]
      BY DEF Init, Live
    <2>2. \A w \in Watchers, c \in ConnIDs : ~Pending(w, c)
      BY <2>1, PendingCases
    <2>3. Notices = [w \in Watchers |-> {}]
      BY <2>2 DEF Notices
    <2>q. QED BY <2>1, <2>3 DEF WatchContract!Init
  <1>2. TypeInv /\ RegistryInv /\ StreamInv /\ NotifyInv /\ [Next]_vars
          => [WatchContract!Next]_(WatchContract!vars)
    <2> SUFFICES ASSUME TypeInv, RegistryInv, StreamInv, NotifyInv, [Next]_vars
                 PROVE  WatchContract!Next \/ UNCHANGED WatchContract!vars
      OBVIOUS
    <2>1. CASE UNCHANGED vars
      <3>1. UNCHANGED <<conns, watchers, view>> /\ UNCHANGED <<pc, conn, evpc, evt, todo, replay, queue, inhand>>
        BY <2>1 DEF vars, clientVars, eventVars, watchVars, userVars
      <3>2. \A c \in ConnIDs : Announced(c)' <=> Announced(c)
        BY <3>1 DEF Announced
      <3>q. QED BY <3>1, <3>2, PendingCases, PendingCasesPrime, ContractFrame
    <2>q. QED
      BY <2>1, NextCases, ContractConnect, ContractStep, ContractWatch, ContractEvents
         DEF StreamInv
  <1>q. QED
    BY <1>1, <1>2, TypeInvariant, RegistryInvariant, StreamInvariant, NotifyInvariant, PTL
       DEF Spec, WatchImplemented, WatchContract!Spec

-----------------------------------------------------------------------------
(* The locks.  Whoever holds connsMu keeps everybody else from changing      *)
(* targets and conns.                                                        *)

\* Only a replay that is running has something to send.
Replaying == \A w \in Watchers : replay[w] # {} => wpc[w] = "replay"

ReplayInv == Replaying /\ ReplaySound

LEMMA ReplayFrame ==
  ASSUME ReplayInv, UNCHANGED <<conns, wpc, replay>>
  PROVE  ReplayInv'
  BY DEF ReplayInv, Replaying, ReplaySound, Live

LEMMA ReplayWatch ==
  ASSUME TypeInv, ReplayInv, NEW w \in Watchers, Watch(w) \/ Consume(w)
  PROVE  ReplayInv'
  <1>1. Live' = Live
    BY WatchLocal DEF Live
  <1>2. \A v \in Watchers \ {w} : wpc'[v] = wpc[v] /\ replay'[v] = replay[v]
    BY WatchLocal
  <1>3. (replay'[w] # {} => wpc'[w] = "replay") /\ replay'[w] \subseteq Live
    <2> USE DEF TypeInv, TypeOK, ReplayInv, Replaying, ReplaySound, watchVars
    <2>1. CASE WatchLock(w)     BY <2>1 DEF WatchLock
    <2>2. CASE WatchRegister(w) BY <2>2 DEF WatchRegister
    <2>3. CASE \E c \in ConnIDs : ReplaySend(w, c) BY <2>3 DEF ReplaySend
    <2>4. CASE ReplayDone(w)    BY <2>4 DEF ReplayDone
    <2>5. CASE Unwatch(w)       BY <2>5 DEF Unwatch
    <2>6. CASE Receive(w)       BY <2>6 DEF Receive
    <2>7. CASE Lookup(w)        BY <2>7 DEF Lookup
    <2>q. QED BY <2>1, <2>2, <2>3, <2>4, <2>5, <2>6, <2>7 DEF Watch, Consume
  <1>q. QED BY <1>1, <1>2, <1>3 DEF ReplayInv, Replaying, ReplaySound

LEMMA ReplayStep ==
  ASSUME ReplayInv, NEW k \in Clients, Step(k)
  PROVE  ReplayInv'
  <1>1. UNCHANGED <<wpc, replay>>
    BY DEF Step, ConnectOpened, ConnectFailed, DisconnectClose, MonitorStart,
           ObserveReady, ObserveIdle, ObserveDown, StreamReopened, StreamReopenFailed,
           AddConn, AnnounceAdd, RemoveConn, AnnounceRemove, watchVars
  <1>2. CASE UNCHANGED conns
    BY <1>1, <1>2, ReplayFrame
  <1>3. CASE ConnsMuFree
    <2>1. \A w \in Watchers : replay[w] = {}
      BY <1>3 DEF ConnsMuFree, ReplayInv, Replaying
    <2>q. QED BY <1>1, <2>1 DEF ReplayInv, Replaying, ReplaySound
  <1>4. UNCHANGED conns \/ ConnsMuFree
    BY DEF Step, ConnectOpened, ConnectFailed, DisconnectClose, MonitorStart,
           ObserveReady, ObserveIdle, ObserveDown, StreamReopened, StreamReopenFailed,
           AddConn, AnnounceAdd, RemoveConn, AnnounceRemove
  <1>q. QED BY <1>2, <1>3, <1>4

LEMMA ReplayInvariant == Spec => []ReplayInv
  <1>1. Init => ReplayInv
    BY DEF Init, ReplayInv, Replaying, ReplaySound
  <1>2. TypeInv /\ ReplayInv /\ [Next]_vars => ReplayInv'
    <2> SUFFICES ASSUME TypeInv, ReplayInv, [Next]_vars PROVE ReplayInv'
      OBVIOUS
    <2>1. ASSUME NEW t \in Targets, DisconnectUnmap(t) PROVE ReplayInv'
      BY <2>1, ReplayFrame DEF DisconnectUnmap, watchVars
    <2>2. ASSUME NEW t \in Targets, NEW k \in Clients, Connect(t, k) PROVE ReplayInv'
      BY <2>2, ReplayFrame DEF Connect, watchVars
    <2>3. ASSUME NEW k \in Clients, Link(k) PROVE ReplayInv'
      BY <2>3, LinkTarget, ReplayFrame DEF watchVars
    <2>4. CASE Events
      BY <2>4, ReplayFrame DEF Events, EventLock, EventDone, EventSend, watchVars
    <2>5. CASE UNCHANGED vars
      BY <2>5, ReplayFrame DEF vars, watchVars
    <2>q. QED
      BY <2>1, <2>2, <2>3, <2>4, <2>5, NextCases, ReplayStep, ReplayWatch
  <1>q. QED BY <1>1, <1>2, TypeInvariant, PTL DEF Spec

\* conn_manager.go:193-197: what a replay has still to send is still registered.
THEOREM ReplayIsSound == Spec => []ReplaySound
  <1>1. ReplayInv => ReplaySound
    BY DEF ReplayInv
  <1>q. QED BY <1>1, ReplayInvariant, PTL

LEMMA ClientFrame ==
  ASSUME OneClientPerTarget, UNCHANGED <<targets, closing, targetID>>,
         \A k \in Clients : link'[k] # "shutdown" => link[k] # "shutdown"
  PROVE  OneClientPerTarget'
  BY DEF OneClientPerTarget

LEMMA ClientStep ==
  ASSUME TypeInv, OneClientPerTarget, NEW k \in Clients, Step(k)
  PROVE  OneClientPerTarget'
  <1> USE DEF TypeInv, TypeOK
  <1>1. CASE DisconnectClose(k)
    BY <1>1 DEF DisconnectClose, SetLink, OneClientPerTarget
  <1>2. CASE ObserveIdle(k)
    BY <1>2, ClientFrame DEF ObserveIdle
  <1>3. CASE UNCHANGED <<targets, closing, targetID, link>>
    BY <1>3, ClientFrame
  <1>q. QED
    BY <1>1, <1>2, <1>3
       DEF Step, ConnectOpened, ConnectFailed, MonitorStart, ObserveReady, ObserveDown,
           StreamReopened, StreamReopenFailed, AddConn, AnnounceAdd, RemoveConn,
           AnnounceRemove

\* conn_manager.go:81-114, 173-184: a target never has two open clients besides
\* those being closed, however many clients are dialled and closed for it.
THEOREM OneClient == Spec => []OneClientPerTarget
  <1>1. Init => OneClientPerTarget
    BY DEF Init, OneClientPerTarget
  <1>2. TypeInv /\ OneClientPerTarget /\ [Next]_vars => OneClientPerTarget'
    <2> SUFFICES ASSUME TypeInv, OneClientPerTarget, [Next]_vars
                 PROVE  OneClientPerTarget'
      OBVIOUS
    <2>1. ASSUME NEW t \in Targets, DisconnectUnmap(t) PROVE OneClientPerTarget'
      BY <2>1 DEF DisconnectUnmap, clientVars, OneClientPerTarget, TypeInv, TypeOK
    <2>2. ASSUME NEW t \in Targets, NEW k \in Clients, Connect(t, k)
          PROVE  OneClientPerTarget'
      BY <2>2, NullAssumption DEF Connect, NotConnected, Unused, OneClientPerTarget, TypeInv, TypeOK
    <2>3. ASSUME NEW k \in Clients, Link(k) PROVE OneClientPerTarget'
      BY <2>3, LinkTarget, ClientFrame DEF SetLink, TypeInv, TypeOK
    <2>4. ASSUME NEW w \in Watchers, Watch(w) \/ Consume(w) PROVE OneClientPerTarget'
      <3>1. UNCHANGED <<targets, closing, targetID, link>>
        BY <2>4 DEF Watch, Consume, WatchLock, WatchRegister, ReplaySend, ReplayDone,
                    Unwatch, Receive, Lookup, clientVars
      <3>q. QED BY <3>1, ClientFrame
    <2>5. CASE Events
      BY <2>5, ClientFrame DEF Events, EventLock, EventDone, EventSend, clientVars
    <2>6. CASE UNCHANGED vars
      BY <2>6, ClientFrame DEF vars, clientVars
    <2>q. QED
      BY <2>1, <2>2, <2>3, <2>4, <2>5, <2>6, NextCases, ClientStep
  <1>q. QED BY <1>1, <1>2, TypeInvariant, PTL DEF Spec

=============================================================================
