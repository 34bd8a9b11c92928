------------------------------ MODULE ConnManager ------------------------------
(***************************************************************************)
(* The southbound connection manager (pkg/southbound/conn_manager.go).     *)
(*                                                                         *)
(* Connect dials a target and starts one monitor goroutine per client; the *)
(* monitor follows the connectivity state of the gRPC channel, keeps the   *)
(* map conns up to date and announces every change of it on eventCh.  The  *)
(* goroutine processEvents forwards each announcement to every registered  *)
(* watcher; Watch registers a watcher and replays the connections that     *)
(* exist at that moment.  A watcher is the ConnWatcher of a controller: it *)
(* drains its bounded queue and looks the connection up with Get.          *)
(*                                                                         *)
(* The two mutexes have no variable of their own: a lock is held by the    *)
(* goroutine whose program counter stands inside the critical section.     *)
(* Identifiers (connection UUIDs, client objects) are drawn from finite    *)
(* sets and reused once nothing in the program refers to them any more.    *)
(***************************************************************************)
EXTENDS Naturals, Sequences, FiniteSets

CONSTANTS
  Targets,     \* topology entities a client may be connected to
  Clients,     \* client objects: one gRPC channel and one monitor each
  ConnIDs,     \* connection UUIDs
  Watchers,    \* registrations made with Watch
  QueueSize,   \* capacity of a watcher's channel (100 in every controller)
  NoTarget, NoClient, NoConn   \* absent values

ASSUME NullAssumption ==
  /\ NoTarget \notin Targets
  /\ NoClient \notin Clients
  /\ NoConn   \notin ConnIDs

ASSUME ClientAssumption == IsFiniteSet(Clients)

ASSUME QueueAssumption == QueueSize \in Nat \ {0}

VARIABLES
  targets,    \* connManager.targets: the client of each target, or NoClient
  conns,      \* connManager.conns: the client behind each registered ConnID
  closing,    \* clients Disconnect has unmapped and not yet closed
  targetID,   \* the target a client was dialled for
  link,       \* connectivity state of a client's gRPC channel
  stream,     \* state of the client's p4rt StreamChannel
  pc,         \* where the client's monitor (or the Connect call) stands
  seen,       \* the monitor's local variable "state"
  conn,       \* the monitor's local variable "conn"
  evpc,       \* where processEvents stands
  evt,        \* the connection processEvents is announcing
  todo,       \* watchers the announcement has still to be sent to
  watchers,   \* connManager.watchers
  wpc,        \* where the Watch call of each watcher stands
  replay,     \* connections its replay has still to send
  queue,      \* its channel
  inhand,     \* the connection its consumer is looking up
  view        \* the connections its consumer takes to be up

clientVars == <<targetID, link, stream, pc, seen, conn>>
eventVars  == <<evpc, evt, todo>>
watchVars  == <<watchers, wpc, replay, queue>>
userVars   == <<inhand, view>>
vars == <<targets, conns, closing, clientVars, eventVars, watchVars, userVars>>

-----------------------------------------------------------------------------

ConnState == {"idle", "connecting", "ready", "failure", "shutdown"}

MonitorPC == {"none",       \* the client object is not in use
              "dialing",    \* Connect is opening the stream, holding connsMu
              "abandoned",  \* Connect failed to open the stream and returned
              "start",      \* the goroutine has been started
              "reopen",     \* StreamChannel call of the Ready branch
              "add",        \* addConn, before the lock
              "announceAdd",\* addConn, sending on eventCh
              "remove",     \* removeConn, before the lock
              "announceRemove", \* removeConn, sending on eventCh
              "waiting",    \* blocked in WaitForStateChange
              "woken",      \* WaitForStateChange has returned
              "done"}       \* the goroutine has exited

TypeOK ==
  /\ targets  \in [Targets -> Clients \cup {NoClient}]
  /\ conns    \in [ConnIDs -> Clients \cup {NoClient}]
  /\ closing  \in SUBSET Clients
  /\ targetID \in [Clients -> Targets \cup {NoTarget}]
  /\ link     \in [Clients -> ConnState]
  /\ stream   \in [Clients -> {"none", "open", "broken"}]
  /\ pc       \in [Clients -> MonitorPC]
  /\ seen     \in [Clients -> ConnState]
  /\ conn     \in [Clients -> ConnIDs \cup {NoConn}]
  /\ evpc     \in {"receive", "lock", "deliver"}
  /\ evt      \in ConnIDs \cup {NoConn}
  /\ todo     \in SUBSET Watchers
  /\ watchers \in SUBSET Watchers
  /\ wpc      \in [Watchers -> {"off", "locked", "replay", "on"}]
  /\ replay   \in [Watchers -> SUBSET ConnIDs]
  /\ queue    \in [Watchers -> Seq(ConnIDs)]
  /\ inhand   \in [Watchers -> ConnIDs \cup {NoConn}]
  /\ view     \in [Watchers -> SUBSET ConnIDs]

Live == {c \in ConnIDs : conns[c] # NoClient}

\* (mutant: Watch gives connsMu back before its replay)
ConnsMuFreeInReplay ==
  \A k \in Clients : pc[k] # "dialing"

\* connsMu is free for a writer, and for a reader.  Connect holds it while it
\* opens the stream, Watch while it replays; nobody else holds it across a step.
ConnsMuFree ==
  /\ \A k \in Clients  : pc[k] # "dialing"
  /\ \A w \in Watchers : wpc[w] # "replay"

\* watchersMu: processEvents holds it for reading while it delivers, Watch for
\* writing until it has obtained connsMu as well.
WatchersMuFree ==
  /\ evpc # "deliver"
  /\ \A w \in Watchers : wpc[w] # "locked"

\* A client object nothing refers to any more.
Unused(k) ==
  /\ pc[k] \in {"none", "abandoned", "done"}
  /\ k \notin closing
  /\ \A t \in Targets : targets[t] # k

\* newConnID: a UUID nothing in the program refers to.
Fresh(c) ==
  /\ conns[c] = NoClient
  /\ evt # c
  /\ \A k \in Clients : conn[k] # c
  /\ \A w \in Watchers :
        /\ inhand[w] # c
        /\ c \notin view[w]
        /\ \A i \in DOMAIN queue[w] : queue[w][i] # c

-----------------------------------------------------------------------------

Init ==
  /\ targets  = [t \in Targets |-> NoClient]
  /\ conns    = [c \in ConnIDs |-> NoClient]
  /\ closing  = {}
  /\ targetID = [k \in Clients |-> NoTarget]
  /\ link     = [k \in Clients |-> "shutdown"]
  /\ stream   = [k \in Clients |-> "none"]
  /\ pc       = [k \in Clients |-> "none"]
  /\ seen     = [k \in Clients |-> "shutdown"]
  /\ conn     = [k \in Clients |-> NoConn]
  /\ evpc = "receive" /\ evt = NoConn /\ todo = {}
  /\ watchers = {}
  /\ wpc      = [w \in Watchers |-> "off"]
  /\ replay   = [w \in Watchers |-> {}]
  /\ queue    = [w \in Watchers |-> <<>>]
  /\ inhand   = [w \in Watchers |-> NoConn]
  /\ view     = [w \in Watchers |-> {}]

-----------------------------------------------------------------------------
(* Connect and Disconnect.                                                 *)

\* (mutant: a client whose stream could not be opened is dialled anew)
NotConnectedOrAbandoned(t) ==
  targets[t] \in {NoClient} \cup {k \in Clients : pc[k] = "abandoned"}

\* The test Connect makes before it takes the lock and again under it.
NotConnected(t) == targets[t] = NoClient

\* Connect up to the StreamChannel call: the target is not mapped (checked
\* again under the lock), the dial does not block, the client is entered in
\* targets.  connsMu stays held.  The early returns (already connected, not
\* an entity, no kind, a missing aspect) change nothing.
Connect(t, k) ==
  /\ NotConnected(t)
  /\ ConnsMuFree
  /\ Unused(k)
  /\ targets'  = [targets  EXCEPT ![t] = k]
  /\ targetID' = [targetID EXCEPT ![k] = t]
  /\ link'     = [link     EXCEPT ![k] = "idle"]
  /\ stream'   = [stream   EXCEPT ![k] = "none"]
  /\ pc'       = [pc       EXCEPT ![k] = "dialing"]
  /\ seen'     = [seen     EXCEPT ![k] = "shutdown"]
  /\ conn'     = [conn     EXCEPT ![k] = NoConn]
  /\ UNCHANGED <<conns, closing, eventVars, watchVars, userVars>>

\* The stream opens: the monitor goroutine is started, the lock released.
ConnectOpened(k) ==
  /\ pc[k] = "dialing"
  /\ link[k] = "ready"
  /\ stream' = [stream EXCEPT ![k] = "open"]
  /\ pc'     = [pc EXCEPT ![k] = "start"]
  /\ UNCHANGED <<targets, conns, closing, targetID, link, seen, conn,
                 eventVars, watchVars, userVars>>

\* (mutant: Connect keeps trying, and keeps the lock)
ConnectFailedRetries(k) ==
  /\ pc[k] = "dialing"
  /\ link[k] = "failure"
  /\ UNCHANGED vars

\* The stream cannot be opened: Connect returns the error and releases the
\* lock; the entry in targets stays, no monitor runs.
ConnectFailed(k) ==
  /\ pc[k] = "dialing"
  /\ link[k] = "failure"
  /\ pc' = [pc EXCEPT ![k] = "abandoned"]
  /\ UNCHANGED <<targets, conns, closing, targetID, link, stream, seen, conn,
                 eventVars, watchVars, userVars>>

\* (mutant: the target is not looked up first)
DisconnectUnmapUnchecked(t) ==
  /\ ConnsMuFree
  /\ targets' = [targets EXCEPT ![t] = NoClient]
  /\ closing' = closing \cup {targets[t]}
  /\ UNCHANGED <<conns, clientVars, eventVars, watchVars, userVars>>

\* Disconnect, first half: unmap the client under connsMu.
DisconnectUnmap(t) ==
  /\ targets[t] # NoClient
  /\ ConnsMuFree
  /\ targets' = [targets EXCEPT ![t] = NoClient]
  /\ closing' = closing \cup {targets[t]}
  /\ UNCHANGED <<conns, clientVars, eventVars, watchVars, userVars>>

\* The channel of k moves to state s.  A stream does not survive its
\* transport, and a monitor blocked in WaitForStateChange is woken.
SetLink(k, s) ==
  /\ link'   = [link EXCEPT ![k] = s]
  /\ stream' = [stream EXCEPT ![k] =
                  IF @ = "open" /\ s # "ready" THEN "broken" ELSE @]
  /\ pc'     = [pc EXCEPT ![k] = IF @ = "waiting" THEN "woken" ELSE @]

\* Disconnect, second half: close the channel, without any lock.
DisconnectClose(k) ==
  /\ k \in closing
  /\ closing' = closing \ {k}
  /\ SetLink(k, "shutdown")
  /\ UNCHANGED <<targets, conns, targetID, seen, conn,
                 eventVars, watchVars, userVars>>

-----------------------------------------------------------------------------
(* The gRPC channel (external): its documented connectivity states.        *)

LinkStep(k, from, to) ==
  /\ link[k] \in from
  /\ SetLink(k, to)
  /\ UNCHANGED <<targets, conns, closing, targetID, seen, conn,
                 eventVars, watchVars, userVars>>

\* An idle channel starts connecting when asked to (by Connect or by an RPC),
\* a failed one after its backoff.
LinkDial(k) == LinkStep(k, {"idle", "failure"}, "connecting")
LinkUp(k)   == LinkStep(k, {"connecting", "failure"}, "ready")
LinkFail(k) == LinkStep(k, {"connecting", "ready"}, "failure")
LinkLost(k) == LinkStep(k, {"ready"}, "idle")

-----------------------------------------------------------------------------
(* The monitor goroutine of Connect.                                       *)

\* (mutant: the monitor exits on the state the channel has now)
ResumeOnLink(k, s) ==
  IF link[k] = "shutdown" THEN "done"
  ELSE IF link[k] = s THEN "waiting" ELSE "woken"

\* (mutant: the monitor sleeps without comparing the states)
ResumeBlind(k, s) == IF s = "shutdown" THEN "done" ELSE "waiting"

\* Where the monitor of k goes when it is done with state s: it returns if
\* the channel is shut down, else waits for the state to change from s.
Resume(k, s) ==
  IF s = "shutdown" THEN "done"
  ELSE IF link[k] = s THEN "waiting" ELSE "woken"

\* First look at the channel: a channel that is ready gets its connection.
MonitorStart(k) ==
  /\ pc[k] = "start"
  /\ seen' = [seen EXCEPT ![k] = link[k]]
  /\ \/ /\ link[k] = "ready"
        /\ \E c \in ConnIDs : Fresh(c) /\ conn' = [conn EXCEPT ![k] = c]
        /\ pc' = [pc EXCEPT ![k] = "add"]
     \/ /\ link[k] # "ready"
        /\ pc' = [pc EXCEPT ![k] = "waiting"]
        /\ UNCHANGED conn
  /\ UNCHANGED <<targets, conns, closing, targetID, link, stream,
                 eventVars, watchVars, userVars>>

\* case connectivity.Ready: with no connection at hand, make one and open a
\* new stream for it; with one at hand, do nothing.
ObserveReady(k) ==
  /\ pc[k] = "woken"
  /\ link[k] = "ready"
  /\ seen' = [seen EXCEPT ![k] = "ready"]
  /\ \/ /\ conn[k] = NoConn
        /\ \E c \in ConnIDs : Fresh(c) /\ conn' = [conn EXCEPT ![k] = c]
        /\ pc' = [pc EXCEPT ![k] = "reopen"]
     \/ /\ conn[k] # NoConn
        /\ pc' = [pc EXCEPT ![k] = "waiting"]
        /\ UNCHANGED conn
  /\ UNCHANGED <<targets, conns, closing, targetID, link, stream,
                 eventVars, watchVars, userVars>>

\* case connectivity.Idle: ask the channel to connect, keep the connection.
ObserveIdle(k) ==
  /\ pc[k] = "woken"
  /\ link[k] = "idle"
  /\ seen' = [seen EXCEPT ![k] = "idle"]
  /\ link' = [link EXCEPT ![k] = "connecting"]
  /\ UNCHANGED <<targets, conns, closing, targetID, stream, pc, conn,
                 eventVars, watchVars, userVars>>

\* default: the connection, if there is one, has to be removed.
ObserveDown(k) ==
  /\ pc[k] = "woken"
  /\ link[k] \in {"connecting", "failure", "shutdown"}
  /\ seen' = [seen EXCEPT ![k] = link[k]]
  /\ pc' = [pc EXCEPT ![k] = IF conn[k] # NoConn THEN "remove"
                             ELSE Resume(k, link[k])]
  /\ UNCHANGED <<targets, conns, closing, targetID, link, stream, conn,
                 eventVars, watchVars, userVars>>

\* (mutant: addConn is forgotten for a stream that was opened again)
StreamReopenedOnly(k) ==
  /\ pc[k] = "reopen"
  /\ link[k] = "ready"
  /\ stream' = [stream EXCEPT ![k] = "open"]
  /\ pc'     = [pc EXCEPT ![k] = Resume(k, seen[k])]
  /\ UNCHANGED <<targets, conns, closing, targetID, link, seen, conn,
                 eventVars, watchVars, userVars>>

\* The Ready branch opens the new stream: it replaces the old one.
StreamReopened(k) ==
  /\ pc[k] = "reopen"
  /\ link[k] = "ready"
  /\ stream' = [stream EXCEPT ![k] = "open"]
  /\ pc'     = [pc EXCEPT ![k] = "add"]
  /\ UNCHANGED <<targets, conns, closing, targetID, link, seen, conn,
                 eventVars, watchVars, userVars>>

\* The Ready branch cannot open the stream: it skips addConn ("continue"),
\* and the local variable conn stays set.
StreamReopenFailed(k) ==
  /\ pc[k] = "reopen"
  /\ link[k] \in {"failure", "shutdown"}
  /\ pc' = [pc EXCEPT ![k] = Resume(k, seen[k])]
  /\ UNCHANGED <<targets, conns, closing, targetID, link, stream, seen, conn,
                 eventVars, watchVars, userVars>>

\* addConn: enter the connection under connsMu ...
AddConn(k) ==
  /\ pc[k] = "add"
  /\ ConnsMuFree
  /\ conns' = [conns EXCEPT ![conn[k]] = k]
  /\ pc'    = [pc EXCEPT ![k] = "announceAdd"]
  /\ UNCHANGED <<targets, closing, targetID, link, stream, seen, conn,
                 eventVars, watchVars, userVars>>

\* ... and hand it to processEvents over the unbuffered eventCh.
AnnounceAdd(k) ==
  /\ pc[k] = "announceAdd"
  /\ evpc = "receive"
  /\ evt'  = conn[k]
  /\ evpc' = "lock"
  /\ pc'   = [pc EXCEPT ![k] = Resume(k, seen[k])]
  /\ UNCHANGED <<targets, conns, closing, targetID, link, stream, seen, conn,
                 todo, watchVars, userVars>>

\* (mutant: the removal is not announced)
RemoveConnSilent(k) ==
  /\ pc[k] = "remove"
  /\ ConnsMuFree
  /\ conns' = [conns EXCEPT ![conn[k]] = NoClient]
  /\ conn'  = [conn EXCEPT ![k] = NoConn]
  /\ pc'    = [pc EXCEPT ![k] = Resume(k, seen[k])]
  /\ UNCHANGED <<targets, closing, targetID, link, stream, seen,
                 eventVars, watchVars, userVars>>

\* removeConn: delete the connection under connsMu; one that was never
\* entered is not announced.
RemoveConn(k) ==
  /\ pc[k] = "remove"
  /\ ConnsMuFree
  /\ \/ /\ conns[conn[k]] # NoClient
        /\ conns' = [conns EXCEPT ![conn[k]] = NoClient]
        /\ pc'    = [pc EXCEPT ![k] = "announceRemove"]
        /\ UNCHANGED conn
     \/ /\ conns[conn[k]] = NoClient
        /\ conn' = [conn EXCEPT ![k] = NoConn]
        /\ pc'   = [pc EXCEPT ![k] = Resume(k, seen[k])]
        /\ UNCHANGED conns
  /\ UNCHANGED <<targets, closing, targetID, link, stream, seen,
                 eventVars, watchVars, userVars>>

AnnounceRemove(k) ==
  /\ pc[k] = "announceRemove"
  /\ evpc = "receive"
  /\ evt'  = conn[k]
  /\ evpc' = "lock"
  /\ conn' = [conn EXCEPT ![k] = NoConn]
  /\ pc'   = [pc EXCEPT ![k] = Resume(k, seen[k])]
  /\ UNCHANGED <<targets, conns, closing, targetID, link, stream, seen,
                 todo, watchVars, userVars>>

-----------------------------------------------------------------------------
(* processEvents.                                                          *)

\* processEvent takes watchersMu for reading ...
EventLock ==
  /\ evpc = "lock"
  /\ \A w \in Watchers : wpc[w] # "locked"
  /\ evpc' = "deliver"
  /\ todo' = watchers
  /\ UNCHANGED <<targets, conns, closing, clientVars, evt, watchVars, userVars>>

\* (mutant: a watcher that has not caught up is skipped, as if one notice stood for
\* all that follow it)
EventSendOrDrop(w) ==
  /\ evpc = "deliver"
  /\ w \in todo
  /\ queue' = [queue EXCEPT ![w] = IF @ = <<>> THEN <<evt>> ELSE @]
  /\ todo'  = todo \ {w}
  /\ UNCHANGED <<targets, conns, closing, clientVars, evpc, evt,
                 watchers, wpc, replay, userVars>>

\* ... sends the connection to the watchers, one after the other in any
\* order, blocking on a full channel ...
EventSend(w) ==
  /\ evpc = "deliver"
  /\ w \in todo
  /\ Len(queue[w]) < QueueSize
  /\ queue' = [queue EXCEPT ![w] = Append(@, evt)]
  /\ todo'  = todo \ {w}
  /\ UNCHANGED <<targets, conns, closing, clientVars, evpc, evt,
                 watchers, wpc, replay, userVars>>

\* ... and releases the lock.
EventDone ==
  /\ evpc = "deliver"
  /\ todo = {}
  /\ evpc' = "receive"
  /\ evt'  = NoConn
  /\ UNCHANGED <<targets, conns, closing, clientVars, todo, watchVars, userVars>>

-----------------------------------------------------------------------------
(* Watch, its goroutine, and the watcher's consumer.                       *)

\* Watch takes watchersMu for writing ...
WatchLock(w) ==
  /\ wpc[w] = "off"
  /\ WatchersMuFree
  /\ wpc' = [wpc EXCEPT ![w] = "locked"]
  /\ UNCHANGED <<targets, conns, closing, clientVars, eventVars,
                 watchers, replay, queue, userVars>>

\* (mutant: what is there already is not replayed)
WatchRegisterOnly(w) ==
  /\ wpc[w] = "locked"
  /\ ConnsMuFree
  /\ watchers' = watchers \cup {w}
  /\ wpc'      = [wpc    EXCEPT ![w] = "replay"]
  /\ UNCHANGED <<targets, conns, closing, clientVars, eventVars,
                 replay, queue, userVars>>

\* ... then connsMu, registers the new channel, releases watchersMu and
\* leaves connsMu to the goroutine.
WatchRegister(w) ==
  /\ wpc[w] = "locked"
  /\ ConnsMuFree
  /\ watchers' = watchers \cup {w}
  /\ wpc'      = [wpc    EXCEPT ![w] = "replay"]
  /\ replay'   = [replay EXCEPT ![w] = Live]
  /\ UNCHANGED <<targets, conns, closing, clientVars, eventVars, queue, userVars>>

\* The goroutine sends the connections it finds, in any order, ...
ReplaySend(w, c) ==
  /\ wpc[w] = "replay"
  /\ c \in replay[w]
  /\ Len(queue[w]) < QueueSize
  /\ queue'  = [queue  EXCEPT ![w] = Append(@, c)]
  /\ replay' = [replay EXCEPT ![w] = @ \ {c}]
  /\ UNCHANGED <<targets, conns, closing, clientVars, eventVars,
                 watchers, wpc, userVars>>

\* ... and releases connsMu.
ReplayDone(w) ==
  /\ wpc[w] = "replay"
  /\ replay[w] = {}
  /\ wpc' = [wpc EXCEPT ![w] = "on"]
  /\ UNCHANGED <<targets, conns, closing, clientVars, eventVars,
                 watchers, replay, queue, userVars>>

\* The watcher's context is cancelled: the goroutine deletes the
\* registration; channel and consumer are given up.
Unwatch(w) ==
  /\ wpc[w] = "on"
  /\ WatchersMuFree
  /\ watchers' = watchers \ {w}
  /\ wpc'      = [wpc    EXCEPT ![w] = "off"]
  /\ queue'    = [queue  EXCEPT ![w] = <<>>]
  /\ inhand'   = [inhand EXCEPT ![w] = NoConn]
  /\ view'     = [view   EXCEPT ![w] = {}]
  /\ UNCHANGED <<targets, conns, closing, clientVars, eventVars, replay>>

\* The consumer of a watcher takes the next connection from its channel ...
Receive(w) ==
  /\ inhand[w] = NoConn
  /\ queue[w] # <<>>
  /\ inhand' = [inhand EXCEPT ![w] = Head(queue[w])]
  /\ queue'  = [queue  EXCEPT ![w] = Tail(@)]
  /\ UNCHANGED <<targets, conns, closing, clientVars, eventVars,
                 watchers, wpc, replay, view>>

\* ... and looks it up with Get, under connsMu, as connection.Reconcile does.
Lookup(w) ==
  /\ inhand[w] # NoConn
  /\ ConnsMuFree
  /\ view'   = [view EXCEPT ![w] = IF inhand[w] \in Live THEN @ \cup {inhand[w]}
                                   ELSE @ \ {inhand[w]}]
  /\ inhand' = [inhand EXCEPT ![w] = NoConn]
  /\ UNCHANGED <<targets, conns, closing, clientVars, eventVars, watchVars>>

-----------------------------------------------------------------------------

Step(k) ==
  \/ ConnectOpened(k) \/ ConnectFailed(k) \/ DisconnectClose(k)
  \/ MonitorStart(k) \/ ObserveReady(k) \/ ObserveIdle(k) \/ ObserveDown(k)
  \/ StreamReopened(k) \/ StreamReopenFailed(k)
  \/ AddConn(k) \/ AnnounceAdd(k) \/ RemoveConn(k) \/ AnnounceRemove(k)

Link(k) == LinkDial(k) \/ LinkUp(k) \/ LinkFail(k) \/ LinkLost(k)

Watch(w) ==
  \/ WatchLock(w) \/ WatchRegister(w) \/ ReplayDone(w) \/ Unwatch(w)
  \/ \E c \in ConnIDs : ReplaySend(w, c)

Events == EventLock \/ EventDone \/ \E w \in Watchers : EventSend(w)

Consume(w) == Receive(w) \/ Lookup(w)

Next ==
  \/ \E t \in Targets : DisconnectUnmap(t) \/ \E k \in Clients : Connect(t, k)
  \/ \E k \in Clients : Step(k) \/ Link(k)
  \/ \E w \in Watchers : Watch(w) \/ Consume(w)
  \/ Events

Spec == Init /\ [][Next]_vars

\* The goroutines that are there keep running.  Steps that wait for a mutex,
\* for eventCh or for a state of the channel get strong fairness: Go's mutexes
\* and channels serve their waiters, and gRPC fails or completes an RPC.  A
\* channel asked to connect gives a verdict.  Nobody is obliged to Connect,
\* Disconnect, Watch or cancel, and no link is obliged to fail.
Fairness ==
  /\ \A k \in Clients :
       /\ WF_vars(DisconnectClose(k))
       /\ SF_vars(ConnectOpened(k) \/ ConnectFailed(k))
       /\ SF_vars(StreamReopened(k) \/ StreamReopenFailed(k))
       /\ SF_vars(MonitorStart(k) \/ ObserveReady(k))
       /\ WF_vars(ObserveIdle(k) \/ ObserveDown(k))
       /\ SF_vars(AddConn(k) \/ RemoveConn(k))
       /\ SF_vars(AnnounceAdd(k) \/ AnnounceRemove(k))
       /\ WF_vars(LinkDial(k))
       /\ WF_vars(link[k] = "connecting" /\ (LinkUp(k) \/ LinkFail(k)))
  /\ SF_vars(Events)
  /\ \A w \in Watchers :
       /\ SF_vars(WatchRegister(w))
       /\ WF_vars(ReplayDone(w) \/ \E c \in ConnIDs : ReplaySend(w, c))
       /\ WF_vars(Receive(w))
       /\ SF_vars(Lookup(w))

FairSpec == Spec /\ Fairness
-----------------------------------------------------------------------------
(* What the manager guarantees.                                            *)

\* A monitor that may own an entry of conns stands at one of these places.
Owning == {"announceAdd", "waiting", "woken", "remove"}

\* conn_manager.go:121-168, 207-223: conns holds exactly connections their own
\* monitors still hold in "conn": a monitor never registers a second
\* connection, never forgets one, and never exits before it has removed it.
RegistrySound ==
  \A c \in ConnIDs, k \in Clients :
    conns[c] = k => conn[k] = c /\ pc[k] \in Owning

\* conn_manager.go:131-168: a monitor never goes to sleep on a state the
\* channel has already left, so none that sleeps owns a connection while its
\* channel is connecting, in failure or shut down.
WithdrawnWhenDown ==
  \A k \in Clients :
    pc[k] = "waiting" /\ link[k] \in {"connecting", "failure", "shutdown"}
      => \A c \in ConnIDs : conns[c] # k

\* A notification of c is on its way to the registered watcher w.
Pending(w, c) ==
  /\ w \in watchers
  /\ \/ \E k \in Clients : pc[k] \in {"announceAdd", "announceRemove"} /\ conn[k] = c
     \/ evt = c /\ (evpc = "lock" \/ w \in todo)
     \/ c \in replay[w]
     \/ \E i \in DOMAIN queue[w] : queue[w][i] = c
     \/ inhand[w] = c

\* conn_manager.go:186-238: no change of conns is ever lost on a watcher:
\* whenever what it believes of a connection is wrong, a notification of
\* that connection is on its way, however Watch, its replay, processEvents,
\* addConn and removeConn interleave.
NoLostNotification ==
  \A w \in watchers, c \in ConnIDs :
    (c \in view[w]) # (c \in Live) => Pending(w, c)

\* conn_manager.go:121-149, 207-212: a stream that is open belongs to a
\* registered connection or to one its monitor is about to register: neither a
\* failed reopening nor a channel lost meanwhile leaves a client with a working
\* stream that no watcher will ever hear of.
UsableIsRegistered ==
  \A k \in Clients :
    stream[k] = "open" =>
      \/ pc[k] \in {"start", "add"}
      \/ \E c \in ConnIDs : conns[c] = k

\* conn_manager.go:81-114, 173-184: of all the clients ever dialled for a target,
\* at most one has an open channel besides those Disconnect is about to close.
OneClientPerTarget ==
  \A t \in Targets, k \in Clients :
    targetID[k] = t /\ link[k] # "shutdown" => targets[t] = k \/ k \in closing

\* conn_manager.go:193-197, 209: the connections a replay has still to send are
\* registered: nothing is removed while Watch's goroutine reads conns.
ReplaySound ==
  \A w \in Watchers : replay[w] \subseteq Live

\* conn_manager.go:186-202: the replay of w and its consumer wait for each other.
\* The replay holds connsMu and cannot send, the channel being full; the consumer
\* would make room for it, but waits for connsMu in Get (:54-60) first.
Blocked(w) ==
  /\ wpc[w] = "replay"
  /\ replay[w] # {}
  /\ Len(queue[w]) = QueueSize
  /\ inhand[w] # NoConn

\* The manager has come to a halt: connsMu is never released again.
Halted == \E w \in Watchers : Blocked(w)

\* connection/watcher.go:16 against conn_manager.go:186-238: a replay and its
\* consumer never wait for each other where the watcher's channel has room for two
\* entries per client.  While a replay holds connsMu nobody can change conns, so
\* what may still come is the replay itself and one announcement of each client
\* that had changed conns before, besides the one processEvents holds.  With fewer
\* places, more than fifty clients in the case of the code's hundred, the manager
\* can halt.
ReplayHasRoom == QueueSize >= 2 * Cardinality(Clients) => ~ Halted

\* conn_manager.go:186-204: a Watch call that has taken its lock registers the
\* watcher and its replay ends, so that connsMu is released again; nothing but a
\* channel that is full (ReplayHasRoom) can prevent it.
ReplayCompletes ==
  \A w \in Watchers : wpc[w] = "locked" ~> wpc[w] \in {"on", "off"} \/ Halted

\* conn_manager.go:154-165, 183: once Disconnect has closed a client, its
\* connections leave conns, unless the manager has come to a halt.
ClosedIsWithdrawn ==
  \A k \in Clients :
    k \in closing ~> (\A c \in ConnIDs : conns[c] # k) \/ Halted

\* connection/controller.go:50-61 on conn_manager.go:186-238: a connection that
\* stays up is known to every watcher that stays, one that stays down is not.
Converges ==
  \A w \in Watchers, c \in ConnIDs :
    /\ <>[](wpc[w] = "on" /\ c \in Live)    => <>[](c \in view[w])
    /\ <>[](wpc[w] = "on" /\ c \notin Live) => <>[](c \notin view[w])

\* The notifications under way, as ConnWatch sees them.
Notices == [w \in Watchers |-> {c \in ConnIDs : Pending(w, c)}]

\* conn_manager.go:186-238 implements ConnWatch: every step of the manager is a
\* change of the live connections, a registration, its end, a look-up by a
\* watcher, or invisible to watchers; a look-up is possible only on a notice.
WatchContract ==
  INSTANCE ConnWatch WITH
    live       <- Live,
    registered <- watchers,
    notices    <- Notices

WatchImplemented == WatchContract!Spec

-----------------------------------------------------------------------------
(* What the documentation says, and the code does not do.                  *)

\* docs/core_functions.md:12-13: the target controller adds a connection when
\* the entity is added; Connect answers "already exists" for a target that is
\* mapped (conn_manager.go:77-79), so a mapped target has a client somebody
\* monitors.
MappedIsMonitored ==
  \A t \in Targets : targets[t] # NoClient => pc[targets[t]] # "abandoned"

=============================================================================
