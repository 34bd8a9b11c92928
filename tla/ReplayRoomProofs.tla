---------------------------- MODULE ReplayRoomProofs ---------------------------
(* Proof that a replay and its consumer never wait for each other where a   *)
(* watcher's channel has room for two entries per client.  All that is in   *)
(* the channel or on its way to it while the replay holds connsMu is        *)
(* counted: nobody can add to it until the lock is released.                *)
EXTENDS ConnManagerProofs, FiniteSetTheorems

-----------------------------------------------------------------------------
(* What there is to be counted.                                            *)

\* The clients that have changed conns and not yet told processEvents.
Announcers == {k \in Clients : pc[k] \in {"announceAdd", "announceRemove"}}

\* The announcement processEvents has still to send to w.
Unsent(w) == IF evpc = "lock" \/ w \in todo THEN 1 ELSE 0

\* What the consumer of w has taken and not looked up.
Taken(w) == IF inhand[w] = NoConn THEN 0 ELSE 1

Load(w) ==
  Len(queue[w]) + Taken(w) + Cardinality(replay[w]) + Unsent(w) + Cardinality(Announcers)

\* The invariant: everything there is for w while its replay runs.
RoomInv ==
  \A w \in Watchers : wpc[w] = "replay" => Load(w) <= 2 * Cardinality(Clients) + 1

-----------------------------------------------------------------------------
(* Cardinalities.                                                          *)

LEMMA ClientsCounted ==
  /\ Cardinality(Clients) \in Nat
  /\ IsFiniteSet(Announcers) /\ Cardinality(Announcers) \in Nat
  /\ Cardinality(Announcers) <= Cardinality(Clients)
<1>1. Announcers \subseteq Clients
  BY DEF Announcers
<1> QED BY <1>1, ClientAssumption, FS_Subset, FS_CardinalityType

\* There are no more connections than clients: each client has at most one.
LEMMA LiveCounted ==
  ASSUME TypeInv, RegistryInv
  PROVE  IsFiniteSet(Live) /\ Cardinality(Live) <= Cardinality(Clients)
<1> DEFINE owner == [c \in Live |-> conns[c]]
<1>1. owner \in [Live -> Clients]
  BY DEF TypeInv, TypeOK, Live
<1>2. \A c, d \in Live : owner[c] = owner[d] => c = d
  BY DEF TypeInv, TypeOK, RegistryInv, RegistrySound, Live
<1>3. owner \in Injection(Live, Clients)
  BY <1>1, <1>2, Zenon DEF Injection, IsInjective
<1> QED BY <1>3, ClientAssumption, FS_Injection

\* What a replay has still to send can be counted, before a step and after it.
LEMMA ReplayCounted ==
  ASSUME TypeInv, RegistryInv, ReplayInv, NEW w \in Watchers
  PROVE  IsFiniteSet(replay[w]) /\ Cardinality(replay[w]) \in Nat
<1>1. replay[w] \subseteq Live
  BY DEF ReplayInv, ReplaySound
<1> QED BY <1>1, LiveCounted, FS_Subset, FS_CardinalityType

-----------------------------------------------------------------------------
(* The steps.  Each is about one watcher whose replay runs, before and after. *)

\* A monitor that steps while connsMu is taken does not change conns: it announces
\* a change it has made before, or does nothing that has to be announced.
LEMMA StepHeld ==
  ASSUME TypeInv, NEW k \in Clients, Step(k), ~ ConnsMuFree
  PROVE  /\ UNCHANGED <<watchVars, userVars, todo>>
         /\ \/ Announcers' \subseteq Announcers /\ UNCHANGED evpc
            \/ /\ k \in Announcers
               /\ Announcers' = Announcers \ {k}
               /\ evpc = "receive" /\ evpc' = "lock"
<1> USE DEF TypeInv, TypeOK
<1>1. CASE AnnounceAdd(k) \/ AnnounceRemove(k)
  <2>1. PICK p \in {"done", "waiting", "woken"} : pc' = [pc EXCEPT ![k] = p]
    BY <1>1, ResumeType DEF AnnounceAdd, AnnounceRemove
  <2>2. k \in Announcers /\ Announcers' = Announcers \ {k}
    BY <1>1, <2>1 DEF Announcers, AnnounceAdd, AnnounceRemove
  <2> QED BY <1>1, <2>2 DEF AnnounceAdd, AnnounceRemove, watchVars, userVars
<1>2. CASE DisconnectClose(k)
  <2>1. Announcers' \subseteq Announcers
    BY <1>2 DEF DisconnectClose, SetLink, Announcers
  <2> QED BY <1>2, <2>1 DEF DisconnectClose, eventVars
<1>3. ~ AddConn(k) /\ ~ RemoveConn(k)
  BY DEF AddConn, RemoveConn
<1>4. CASE ConnectOpened(k) \/ ConnectFailed(k) \/ MonitorStart(k) \/ ObserveReady(k)
           \/ ObserveIdle(k) \/ ObserveDown(k) \/ StreamReopened(k) \/ StreamReopenFailed(k)
  <2>0. UNCHANGED <<watchVars, userVars, eventVars>>
    BY <1>4
       DEF ConnectOpened, ConnectFailed, MonitorStart, ObserveReady, ObserveIdle,
           ObserveDown, StreamReopened, StreamReopenFailed
  <2>1. ASSUME NEW p \in {"start", "abandoned", "add", "reopen", "remove", "woken", "waiting", "done"},
               pc' = [pc EXCEPT ![k] = p]
        PROVE  Announcers' \subseteq Announcers
    BY <2>1 DEF Announcers
  <2>2. ConnectOpened(k) => Announcers' \subseteq Announcers
    BY <2>1 DEF ConnectOpened
  <2>3. ConnectFailed(k) => Announcers' \subseteq Announcers
    BY <2>1 DEF ConnectFailed
  <2>4. MonitorStart(k) => Announcers' \subseteq Announcers
    BY <2>1 DEF MonitorStart
  <2>5. ObserveReady(k) => Announcers' \subseteq Announcers
    BY <2>1 DEF ObserveReady
  <2>6. ObserveIdle(k) => Announcers' \subseteq Announcers
    BY DEF ObserveIdle, Announcers
  <2>7. ObserveDown(k) => Announcers' \subseteq Announcers
    BY <2>1 DEF ObserveDown, Resume
  <2>8. StreamReopened(k) => Announcers' \subseteq Announcers
    BY <2>1 DEF StreamReopened
  <2>9. StreamReopenFailed(k) => Announcers' \subseteq Announcers
    BY <2>1 DEF StreamReopenFailed, Resume
  <2>10. Announcers' \subseteq Announcers
    BY <1>4, <2>2, <2>3, <2>4, <2>5, <2>6, <2>7, <2>8, <2>9
  <2> QED BY <2>0, <2>10 DEF eventVars
<1> QED BY <1>1, <1>2, <1>3, <1>4 DEF Step

\* The load of a watcher does not grow with such a step.
LEMMA RoomStep ==
  ASSUME TypeInv, RegistryInv, ReplayInv, NotifyInv, NEW w \in Watchers,
         wpc[w] = "replay", Load(w) <= 2 * Cardinality(Clients) + 1,
         NEW k \in Clients, Step(k)
  PROVE  Load(w)' <= 2 * Cardinality(Clients) + 1
<1>1. ~ ConnsMuFree
  BY DEF ConnsMuFree
<1>2. UNCHANGED <<Len(queue[w]), Taken(w), Cardinality(replay[w])>>
  BY <1>1, StepHeld DEF Taken, watchVars, userVars
<1>3. Len(queue[w]) \in Nat /\ Taken(w) \in Nat
  BY DEF TypeInv, TypeOK, Taken
<1>4. CASE Announcers' \subseteq Announcers /\ UNCHANGED <<evpc, todo>>
  <2>1. Cardinality(Announcers') <= Cardinality(Announcers) /\ Cardinality(Announcers') \in Nat
    BY <1>4, ClientsCounted, FS_Subset, FS_CardinalityType
  <2>2. Unsent(w)' = Unsent(w) /\ Unsent(w) \in Nat
    BY <1>4 DEF Unsent
  <2>3. PICK q, t, r, u, a, b \in Nat :
          /\ q = Len(queue[w]) /\ t = Taken(w) /\ r = Cardinality(replay[w])
          /\ u = Unsent(w) /\ a = Cardinality(Announcers) /\ b = Cardinality(Announcers')
    BY <1>3, <2>1, <2>2, ReplayCounted, ClientsCounted
  <2>4. Load(w) = q + t + r + u + a
    BY <2>3 DEF Load
  <2>5. Load(w)' = q + t + r + u + b
    BY <1>2, <2>2, <2>3 DEF Load
  <2>6. b <= a /\ Load(w)' <= Load(w)
    BY <2>1, <2>3, <2>4, <2>5
  <2>7. Cardinality(Clients) \in Nat
    BY ClientsCounted
  <2> QED BY <2>4, <2>5, <2>6, <2>7
<1>5. CASE /\ k \in Announcers /\ Announcers' = Announcers \ {k}
           /\ evpc = "receive" /\ evpc' = "lock"
  <2>1. Cardinality(Announcers') = Cardinality(Announcers) - 1
    BY <1>5, ClientsCounted, FS_RemoveElement
  <2>2. Unsent(w) = 0 /\ Unsent(w)' = 1
    BY <1>5 DEF Unsent, NotifyInv, Round
  <2> QED BY <1>2, <1>3, <2>1, <2>2, ReplayCounted, ClientsCounted DEF Load
<1> QED BY <1>1, <1>4, <1>5, StepHeld

\* A change of a channel is nothing for the watchers.
LEMMA RoomLink ==
  ASSUME TypeInv, NEW w \in Watchers, NEW k \in Clients, Link(k)
  PROVE  Load(w)' = Load(w)
<1>1. PICK s \in ConnState : SetLink(k, s)
  BY LinkTarget
<1>2. Announcers' = Announcers
  BY <1>1 DEF SetLink, Announcers, TypeInv, TypeOK
<1> QED BY <1>2, LinkTarget DEF Load, Taken, Unsent, eventVars, watchVars, userVars

\* processEvents hands on what it has: to w, it becomes an entry of the channel.
LEMMA RoomEvents ==
  ASSUME TypeInv, RegistryInv, ReplayInv, NotifyInv, NEW w \in Watchers,
         wpc[w] = "replay", Load(w) <= 2 * Cardinality(Clients) + 1, Events
  PROVE  Load(w)' <= 2 * Cardinality(Clients) + 1
<1>1. UNCHANGED <<pc, inhand, replay>>
  BY DEF Events, EventLock, EventDone, EventSend, clientVars, watchVars, userVars
<1>2. Taken(w)' = Taken(w) /\ Announcers' = Announcers /\ replay'[w] = replay[w]
  BY <1>1 DEF Taken, Announcers
<1>3. w \in watchers
  BY DEF NotifyInv, Registered
<1>4. CASE EventLock
  <2>1. Unsent(w)' = Unsent(w) /\ queue'[w] = queue[w]
    BY <1>3, <1>4 DEF EventLock, Unsent, watchVars
  <2> QED BY <1>2, <2>1 DEF Load
<1>5. CASE EventDone
  <2>1. Unsent(w)' = Unsent(w) /\ queue'[w] = queue[w]
    BY <1>5 DEF EventDone, Unsent, watchVars
  <2> QED BY <1>2, <2>1 DEF Load
<1>6. ASSUME NEW v \in Watchers, EventSend(v)
      PROVE  Load(w)' <= 2 * Cardinality(Clients) + 1
  <2>1. CASE v # w
    <3>1. Unsent(w)' = Unsent(w) /\ queue'[w] = queue[w]
      BY <1>6, <2>1 DEF EventSend, Unsent, TypeInv, TypeOK
    <3> QED BY <1>2, <3>1 DEF Load
  <2>2. CASE v = w
    <3>1. Unsent(w) = 1 /\ Unsent(w)' = 0
      BY <1>6, <2>2 DEF EventSend, Unsent
    <3>2. evt \in ConnIDs
      BY <1>6 DEF EventSend, TypeInv, TypeOK, Announcing
    <3>3. queue'[w] = Append(queue[w], evt) /\ queue[w] \in Seq(ConnIDs)
      BY <1>6, <2>2 DEF EventSend, TypeInv, TypeOK
    <3>4. Len(queue'[w]) = Len(queue[w]) + 1 /\ Len(queue[w]) \in Nat
      BY <3>2, <3>3
    <3>5. Taken(w) \in Nat
      BY DEF Taken
    <3> QED BY <1>2, <3>1, <3>4, <3>5, ReplayCounted, ClientsCounted DEF Load
  <2> QED BY <2>1, <2>2
<1> QED BY <1>4, <1>5, <1>6 DEF Events

\* The replay of w and its consumer move an entry on, those of others none of w.
LEMMA RoomWatch ==
  ASSUME TypeInv, RegistryInv, ReplayInv, NotifyInv, NEW w \in Watchers,
         wpc[w] = "replay", wpc'[w] = "replay",
         Load(w) <= 2 * Cardinality(Clients) + 1,
         NEW v \in Watchers, Watch(v) \/ Consume(v)
  PROVE  Load(w)' <= 2 * Cardinality(Clients) + 1
<1>1. UNCHANGED <<pc, evpc, todo>>
  BY DEF Watch, Consume, WatchLock, WatchRegister, ReplaySend, ReplayDone, Unwatch,
         Receive, Lookup, clientVars, eventVars
<1>2. Announcers' = Announcers /\ Unsent(w)' = Unsent(w)
  BY <1>1 DEF Announcers, Unsent
<1>3. Unsent(w) \in Nat /\ Taken(w) \in Nat /\ Len(queue[w]) \in Nat
  BY DEF Unsent, Taken, TypeInv, TypeOK
<1>4. CASE v # w
  <2>1. queue'[w] = queue[w] /\ replay'[w] = replay[w] /\ inhand'[w] = inhand[w]
    BY <1>4, WatchLocal
  <2> QED BY <1>2, <2>1 DEF Load, Taken
<1>5. CASE v = w
  <2>1. ~ WatchLock(w) /\ ~ WatchRegister(w) /\ ~ ReplayDone(w) /\ ~ Unwatch(w) /\ ~ Lookup(w)
    BY DEF WatchLock, WatchRegister, ReplayDone, Unwatch, Lookup, ConnsMuFree, TypeInv, TypeOK
  <2>2. ASSUME NEW c \in ConnIDs, ReplaySend(w, c)
        PROVE  Load(w)' <= 2 * Cardinality(Clients) + 1
    <3>1. replay'[w] = replay[w] \ {c} /\ c \in replay[w] /\ inhand'[w] = inhand[w]
      BY <2>2 DEF ReplaySend, userVars, TypeInv, TypeOK
    <3>2. queue'[w] = Append(queue[w], c) /\ queue[w] \in Seq(ConnIDs)
      BY <2>2 DEF ReplaySend, TypeInv, TypeOK
    <3>3. Len(queue'[w]) = Len(queue[w]) + 1
      BY <3>2
    <3>4. Cardinality(replay'[w]) = Cardinality(replay[w]) - 1
      <4>1. IsFiniteSet(replay[w])
        BY ReplayCounted
      <4>2. Cardinality(replay[w] \ {c}) = Cardinality(replay[w]) - 1
        BY <3>1, <4>1, FS_RemoveElement
      <4> QED BY <3>1, <4>2
    <3>5. Taken(w)' = Taken(w)
      BY <3>1 DEF Taken
    <3>6. Cardinality(replay[w]) \in Nat /\ Cardinality(Announcers) \in Nat
      BY ReplayCounted, ClientsCounted
    <3>7. PICK q, t, r, u, a \in Nat :
            /\ q = Len(queue[w]) /\ t = Taken(w) /\ r = Cardinality(replay[w])
            /\ u = Unsent(w) /\ a = Cardinality(Announcers)
      BY <1>3, <3>6
    <3>8. Load(w) = q + t + r + u + a
      BY <3>7 DEF Load
    <3>9. Load(w)' = (q + 1) + t + (r - 1) + u + a
      BY <1>2, <3>3, <3>4, <3>5, <3>7 DEF Load
    <3>10. Load(w)' = Load(w)
      BY <3>8, <3>9
    <3> QED BY <3>10
  <2>3. CASE Receive(w)
    <3>1. queue'[w] = Tail(queue[w]) /\ queue[w] # <<>> /\ replay'[w] = replay[w]
      BY <2>3 DEF Receive, TypeInv, TypeOK
    <3>2. Len(queue'[w]) = Len(queue[w]) - 1
      BY <3>1 DEF TypeInv, TypeOK
    <3>3. Taken(w) = 0 /\ (Taken(w)' = 1 \/ Taken(w)' = 0)
      BY <2>3 DEF Receive, Taken
    <3> QED BY <1>2, <1>3, <3>1, <3>2, <3>3, ReplayCounted, ClientsCounted DEF Load
  <2> QED BY <1>5, <2>1, <2>2, <2>3 DEF Watch, Consume
<1> QED BY <1>4, <1>5

\* A replay begins with an empty channel: what can come is one connection of each
\* client, one announcement of each, and the one processEvents has.
LEMMA RoomAtStart ==
  ASSUME TypeInv, RegistryInv, NotifyInv, NEW w \in Watchers, WatchRegister(w)
  PROVE  Load(w)' <= 2 * Cardinality(Clients) + 1
<1>1. w \notin watchers
  BY DEF WatchRegister, NotifyInv, Registered
<1>2. queue'[w] = <<>> /\ inhand'[w] = NoConn
  BY <1>1 DEF WatchRegister, NotifyInv, Registered, userVars
<1>3. Len(queue'[w]) = 0 /\ Taken(w)' = 0
  BY <1>2 DEF Taken
<1>4. replay'[w] = Live /\ Announcers' = Announcers
  BY DEF WatchRegister, clientVars, Announcers, TypeInv, TypeOK
<1>5. Cardinality(Live) \in Nat /\ Cardinality(Live) <= Cardinality(Clients)
  BY LiveCounted, FS_CardinalityType
<1>6. Unsent(w)' \in {0, 1}
  BY DEF Unsent
<1> QED BY <1>3, <1>4, <1>5, <1>6, ClientsCounted DEF Load

-----------------------------------------------------------------------------
(* The invariant, and the theorem.                                         *)

LEMMA RoomInvariant == Spec => []RoomInv
<1>1. Init => RoomInv
  BY DEF Init, RoomInv
<1>2. TypeInv /\ RegistryInv /\ ReplayInv /\ NotifyInv /\ RoomInv /\ [Next]_vars => RoomInv'
  <2> SUFFICES ASSUME TypeInv, RegistryInv, ReplayInv, NotifyInv, RoomInv, [Next]_vars,
                      NEW w \in Watchers, wpc'[w] = "replay"
               PROVE  Load(w)' <= 2 * Cardinality(Clients) + 1
    BY DEF RoomInv
  <2>1. CASE wpc[w] = "replay"
    <3>1. Load(w) <= 2 * Cardinality(Clients) + 1
      BY <2>1 DEF RoomInv
    <3>2. ~ ConnsMuFree
      BY <2>1 DEF ConnsMuFree
    <3>3. ASSUME NEW t \in Targets PROVE ~ DisconnectUnmap(t)
      BY <3>2 DEF DisconnectUnmap
    <3>4. ASSUME NEW t \in Targets, NEW k \in Clients PROVE ~ Connect(t, k)
      BY <3>2 DEF Connect
    <3>5. ASSUME NEW k \in Clients, Step(k)
          PROVE  Load(w)' <= 2 * Cardinality(Clients) + 1
      BY <2>1, <3>1, <3>5, RoomStep
    <3>6. ASSUME NEW k \in Clients, Link(k)
          PROVE  Load(w)' <= 2 * Cardinality(Clients) + 1
      BY <3>1, <3>6, RoomLink
    <3>7. ASSUME NEW v \in Watchers, Watch(v) \/ Consume(v)
          PROVE  Load(w)' <= 2 * Cardinality(Clients) + 1
      BY <2>1, <3>1, <3>7, RoomWatch
    <3>8. CASE Events
      BY <2>1, <3>1, <3>8, RoomEvents
    <3>9. CASE UNCHANGED vars
      BY <3>1, <3>9 DEF vars, clientVars, eventVars, watchVars, userVars, Load, Taken,
                        Unsent, Announcers
    <3> QED BY <3>3, <3>4, <3>5, <3>6, <3>7, <3>8, <3>9, NextCases
  <2>2. CASE wpc[w] # "replay"
    <3>1. ASSUME NEW v \in Watchers, Watch(v) \/ Consume(v), ~ WatchRegister(v)
          PROVE  wpc'[w] # "replay"
      BY <2>2, <3>1
         DEF Watch, Consume, WatchLock, ReplaySend, ReplayDone, Unwatch, Receive, Lookup,
             watchVars, TypeInv, TypeOK
    <3>2. ASSUME NEW v \in Watchers \ {w}, WatchRegister(v)
          PROVE  wpc'[w] # "replay"
      BY <2>2, <3>2 DEF WatchRegister, TypeInv, TypeOK
    <3>3. ASSUME NEW k \in Clients, Step(k) PROVE UNCHANGED wpc
      BY <3>3
         DEF Step, ConnectOpened, ConnectFailed, DisconnectClose, MonitorStart,
             ObserveReady, ObserveIdle, ObserveDown, StreamReopened, StreamReopenFailed,
             AddConn, AnnounceAdd, RemoveConn, AnnounceRemove, watchVars
    <3>4. ASSUME NEW k \in Clients, Link(k) PROVE UNCHANGED wpc
      BY <3>4, LinkTarget DEF watchVars
    <3>5. ASSUME NEW t \in Targets, DisconnectUnmap(t) PROVE UNCHANGED wpc
      BY <3>5 DEF DisconnectUnmap, watchVars
    <3>6. ASSUME NEW t \in Targets, NEW k \in Clients, Connect(t, k) PROVE UNCHANGED wpc
      BY <3>6 DEF Connect, watchVars
    <3>7. ASSUME Events PROVE UNCHANGED wpc
      BY <3>7 DEF Events, EventLock, EventDone, EventSend, watchVars
    <3>8. ASSUME UNCHANGED vars PROVE UNCHANGED wpc
      BY <3>8 DEF vars, watchVars
    <3>9. WatchRegister(w)
      BY <2>2, <3>1, <3>2, <3>3, <3>4, <3>5, <3>6, <3>7, <3>8, NextCases
    <3> QED BY <3>9, RoomAtStart
  <2> QED BY <2>1, <2>2
<1> QED
  BY <1>1, <1>2, TypeInvariant, RegistryInvariant, ReplayInvariant, NotifyInvariant, PTL
     DEF Spec

\* conn_manager.go:186-202: with two places per client in a watcher's channel, the
\* replay that holds connsMu never waits for a consumer that waits for connsMu: a
\* full channel, an entry in the consumer's hand and one still to be replayed would
\* be more than there can be.
THEOREM RoomIsEnough == Spec => []ReplayHasRoom
<1>1. TypeInv /\ RegistryInv /\ ReplayInv /\ RoomInv => ReplayHasRoom
  <2> SUFFICES ASSUME TypeInv, RegistryInv, ReplayInv, RoomInv,
                      QueueSize >= 2 * Cardinality(Clients),
                      NEW w \in Watchers, Blocked(w)
               PROVE  FALSE
    BY DEF ReplayHasRoom, Halted
  <2>1. Load(w) <= 2 * Cardinality(Clients) + 1
    BY DEF RoomInv, Blocked
  <2>2. Len(queue[w]) = QueueSize /\ Taken(w) = 1
    BY DEF Blocked, Taken
  <2>3. Cardinality(replay[w]) \in Nat \ {0}
    BY ReplayCounted, FS_EmptySet DEF Blocked
  <2>4. Unsent(w) \in Nat
    BY DEF Unsent
  <2> QED BY <2>1, <2>2, <2>3, <2>4, ClientsCounted, QueueAssumption DEF Load
<1> QED
  BY <1>1, TypeInvariant, RegistryInvariant, ReplayInvariant, RoomInvariant, PTL
=============================================================================
