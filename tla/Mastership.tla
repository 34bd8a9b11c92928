------------------------------- MODULE Mastership ------------------------------
(***************************************************************************)
(* Mastership election for one target (pkg/controller/mastership), run by  *)
(* every instance of an application (a controller) against the topology    *)
(* store and the P4Runtime server of the device.                           *)
(*                                                                         *)
(* A reconcile reads the service entity and lists the connection relations *)
(* of the service.  If the recorded master connection is gone, it resigns  *)
(* it (no connection is left) or asks the device for mastership with       *)
(* election id term + 1 and, on an OK, records its own connection and the  *)
(* answered election id in the service entity.  The update carries the     *)
(* revision that was read: a concurrent update makes it a conflict.        *)
(*                                                                         *)
(* The service entity exists throughout.  Target and controller entities   *)
(* come and go as the operator and the node controllers please, so that    *)
(* each reconcile finds them or not.  A connection is the pair of its      *)
(* controller and the number of times that controller has connected so     *)
(* far, which Epochs bounds.                                               *)
(***************************************************************************)
EXTENDS Naturals, Sequences

CONSTANTS
  Controllers,   \* instances of the application
  Listening,     \* those whose application has called PacketIn
  Traffic,       \* those to which the device may send packets while they are primary
  Exposed,       \* those whose watch may end, whose store may fail or lack an entity
  Epochs,        \* how many connections each makes in the course of a behaviour
  NoConn         \* the empty connection ID

Conns == {c \in Controllers \X Nat : c[2] \in 1 .. Epochs[c[1]]}

ASSUME ControllerAssumption ==
  Listening \cup Traffic \cup Exposed \subseteq Controllers
ASSUME EpochAssumption == Epochs \in [Controllers -> Nat]
ASSUME NoConnAssumption == NoConn \notin Controllers \X Nat

VARIABLES
  master,     \* the connection recorded in the service entity
  term,       \* the term recorded beside it
  current,    \* controllers whose copy of the service entity has its revision
  relations,  \* connection relations of the service in the store
  epoch,      \* connections each controller has made so far
  up,         \* the connection in its connection manager, or NoConn
  making,     \* the connection whose relation it is about to create, or NoConn
  stream,     \* the stream of the client of the target, "none" without a client
  requests,   \* election ids of the requests the device has not read yet
  inbox,      \* messages the client has not read yet
  eid,        \* device: election id registered for the stream, or 0
  top,        \* device: the highest election id it has seen
  deaf,       \* controllers whose watch of the store has ended
  pending,    \* the controller's work queue holds the service
  pc,         \* where its reconcile stands
  local       \* what it knows: the service entity read, own relations, the answer

storeVars  == <<master, term, current, relations>>
linkVars   == <<epoch, up, making>>
deviceVars == <<eid, top>>
streamVars == <<stream, requests, inbox>>
localVars  == <<pc, local>>
queueVars == <<deaf, pending>>
vars == <<storeVars, linkVars, deviceVars, streamVars, queueVars, localVars>>

-----------------------------------------------------------------------------

\* What the device sends: an arbitration update, a status and the primary's
\* election id, or a packet, whose id is 0.
Message == [status : {"OK", "ALREADY_EXISTS", "NOT_FOUND", "PACKET"}, id : Nat]

Packet == [status |-> "PACKET", id |-> 0]

ReconcilePC == {"idle",      \* no reconcile is running
                "absent",    \* nor has been, since one found an entity missing
                "list",      \* the service entity has been read
                "resign",    \* Update with no master
                "send",      \* SendArbitrationRequest
                "recv",      \* RecvArbitrationResponse
                "stale",     \* the same, on a stream that has been replaced
                "update",    \* Update with the own connection
                "crashed"}   \* the process has panicked

Local == [master : Conns \cup {NoConn}, term : Nat, mine : SUBSET Conns, answer : Nat]

NoLocal == [master |-> NoConn, term |-> 0, mine |-> {}, answer |-> 0]

\* Every variable has its type.
TypeOK ==
  /\ master    \in Conns \cup {NoConn}
  /\ term      \in Nat
  /\ current   \in SUBSET Controllers
  /\ relations \in SUBSET Conns
  /\ epoch     \in [Controllers -> Nat]
  /\ up        \in [Controllers -> Conns \cup {NoConn}]
  /\ making    \in [Controllers -> Conns \cup {NoConn}]
  /\ stream    \in [Controllers -> {"none", "open", "invalid", "lost"}]
  /\ requests  \in [Controllers -> Seq(Nat)]
  /\ inbox     \in [Controllers -> Seq(Message)]
  /\ eid       \in [Controllers -> Nat]
  /\ top       \in Nat
  /\ deaf      \in SUBSET Exposed
  /\ pending   \in [Controllers -> BOOLEAN]
  /\ pc        \in [Controllers -> ReconcilePC]
  /\ local     \in [Controllers -> Local]

Init ==
  /\ master = NoConn /\ term = 0 /\ current = {} /\ relations = {}
  /\ epoch    = [n \in Controllers |-> 0]
  /\ up       = [n \in Controllers |-> NoConn]
  /\ making   = [n \in Controllers |-> NoConn]
  /\ stream   = [n \in Controllers |-> "none"]
  /\ requests = [n \in Controllers |-> <<>>]
  /\ inbox    = [n \in Controllers |-> <<>>]
  /\ eid      = [n \in Controllers |-> 0]
  /\ top      = 0
  /\ deaf     = {}
  /\ pending  = [n \in Controllers |-> TRUE]
  /\ pc       = [n \in Controllers |-> "idle"]
  /\ local    = [n \in Controllers |-> NoLocal]

\* A change of the service entity or of a relation reaches the TopoWatcher of every
\* controller whose watch has not ended, which puts the service in its work queue.
Notify ==
  /\ pending' = [n \in Controllers |-> pending[n] \/ n \notin deaf]
  /\ UNCHANGED deaf

Goto(n, l) == pc' = [pc EXCEPT ![n] = l]

\* The reconcile of n ends; with an error or a Requeue it will run again.
Ends(n) ==
  /\ Goto(n, "idle")
  /\ local' = [local EXCEPT ![n] = NoLocal]
Return(n) == Ends(n) /\ UNCHANGED queueVars
Retry(n)  == Ends(n) /\ pending' = [pending EXCEPT ![n] = TRUE] /\ UNCHANGED deaf

-----------------------------------------------------------------------------
(* The device (external): P4Runtime master arbitration for one role.       *)

\* The stream of n is the one that was granted the highest election id.
Primary(n) == eid[n] # 0 /\ eid[n] = top

\* The streams that hear of it when the stream of n is gone: if it was the
\* primary's, the registered ones learn that there is no primary.
AfterLeave(n) ==
  [m \in Controllers |->
     IF Primary(n) /\ m # n /\ eid[m] # 0
     THEN Append(inbox[m], [status |-> "NOT_FOUND", id |-> top])
     ELSE inbox[m]]

\* An election id another stream holds: the stream is terminated.
Reject(n, id) ==
  /\ \E m \in Controllers \ {n} : eid[m] = id
  /\ stream'   = [stream EXCEPT ![n] = "invalid"]
  /\ requests' = [requests EXCEPT ![n] = <<>>]
  /\ inbox'    = AfterLeave(n)
  /\ eid'      = [eid EXCEPT ![n] = 0]
  /\ UNCHANGED top

\* An id not lower than any seen makes its stream the primary, and every other
\* registered stream is told of a new primary; a lower one is answered alone.
Accept(n, id) ==
  /\ \A m \in Controllers \ {n} : eid[m] # id
  /\ eid' = [eid EXCEPT ![n] = id]
  /\ requests' = [requests EXCEPT ![n] = Tail(@)]
  /\ IF id >= top
     THEN /\ top' = id
          /\ inbox' = [m \in Controllers |->
               IF m = n THEN Append(inbox[m], [status |-> "OK", id |-> id])
               ELSE IF eid[m] # 0 /\ eid[n] # id
               THEN Append(inbox[m], [status |-> "ALREADY_EXISTS", id |-> id])
               ELSE inbox[m]]
     ELSE /\ inbox' = [inbox EXCEPT ![n] = Append(@,
               [status |-> IF \E m \in Controllers \ {n} : eid[m] = top
                           THEN "ALREADY_EXISTS" ELSE "NOT_FOUND",
                id |-> top])]
          /\ UNCHANGED top
  /\ UNCHANGED stream

Arbitrate(n) ==
  /\ requests[n] # <<>>
  /\ Reject(n, Head(requests[n])) \/ Accept(n, Head(requests[n]))
  /\ UNCHANGED <<storeVars, linkVars, queueVars, localVars>>

\* The primary gets the packets of the device.  One of them waits at a time.
SendPacket(n) ==
  /\ n \in Traffic
  /\ Primary(n)
  /\ \A i \in 1 .. Len(inbox[n]) : inbox[n][i] # Packet
  /\ inbox' = [inbox EXCEPT ![n] = Append(@, Packet)]
  /\ UNCHANGED <<storeVars, linkVars, deviceVars, stream, requests, queueVars, localVars>>

-----------------------------------------------------------------------------
(* Connections come and go (connection manager and connection controller). *)

\* The stream of n is gone: the device forgets it, its requests in flight are lost.
Leave(n) ==
  /\ requests' = [requests EXCEPT ![n] = <<>>]
  /\ eid'      = [eid EXCEPT ![n] = 0]

\* The stream breaks, with its channel.  What has arrived on it can still be read.
\* The connection stays in its manager until the monitor has a look, and longer if
\* the channel is Ready again by then.
StreamBreaks(n) ==
  /\ stream[n] = "open"
  /\ Leave(n)
  /\ stream' = [stream EXCEPT ![n] = "lost"]
  /\ inbox'  = AfterLeave(n)
  /\ UNCHANGED <<storeVars, linkVars, top, queueVars, localVars>>

\* The monitor finds the channel down and takes the connection out of the manager.
Withdraw(n) ==
  /\ up[n] # NoConn
  /\ stream[n] # "open"
  /\ up' = [up EXCEPT ![n] = NoConn]
  /\ UNCHANGED <<storeVars, epoch, making, deviceVars, streamVars, queueVars, localVars>>

\* Mutant: what has not been read from the old stream is still there on the new one.
LinkUpKeepsInbox(n) ==
  /\ up[n] = NoConn
  /\ pc[n] # "crashed"
  /\ epoch[n] < Epochs[n]
  /\ epoch'  = [epoch  EXCEPT ![n] = @ + 1]
  /\ up'     = [up     EXCEPT ![n] = <<n, epoch[n] + 1>>]
  /\ stream' = [stream EXCEPT ![n] = "open"]
  /\ UNCHANGED pc \/ (pc[n] = "recv" /\ Goto(n, "stale"))
  /\ UNCHANGED <<storeVars, making, deviceVars, requests, inbox, queueVars, local>>

\* The channel is Ready and no connection is at hand: a new stream takes the place
\* of the old one in the client, and a connection with a new ID is registered.  A
\* receive that has begun stays with the old stream.  (What can happen between the
\* two, a request or the loss of the stream, can happen after them as well.)
LinkUp(n) ==
  /\ up[n] = NoConn
  /\ pc[n] # "crashed"
  /\ epoch[n] < Epochs[n]
  /\ epoch'  = [epoch  EXCEPT ![n] = @ + 1]
  /\ up'     = [up     EXCEPT ![n] = <<n, epoch[n] + 1>>]
  /\ stream' = [stream EXCEPT ![n] = "open"]
  /\ inbox'  = [inbox  EXCEPT ![n] = <<>>]
  /\ UNCHANGED pc \/ (pc[n] = "recv" /\ Goto(n, "stale"))
  /\ UNCHANGED <<storeVars, making, deviceVars, requests, queueVars, local>>

\* Mutant: the relation is created without looking whether a connection was found.
CreateRelationBlind(n) ==
  /\ pc[n] # "crashed"
  /\ relations' = relations \cup {making[n]}
  /\ making' = [making EXCEPT ![n] = NoConn]
  /\ Notify
  /\ UNCHANGED <<master, term, current, epoch, up, deviceVars, streamVars, localVars>>

\* Mutant: the watcher does not pass on a created relation.
CreateRelationQuiet(n) ==
  /\ making[n] # NoConn
  /\ relations' = relations \cup {making[n]}
  /\ making' = [making EXCEPT ![n] = NoConn]
  /\ UNCHANGED <<master, term, current, epoch, up, deviceVars, streamVars, queueVars, localVars>>

\* Mutant: the watcher does not pass on a removed relation.
DeleteRelationQuiet(n) ==
  /\ making[n] = NoConn
  /\ pc[n] # "crashed"
  /\ \E e \in 1 .. Epochs[n] :
       /\ <<n, e>> \in relations \ {up[n]}
       /\ relations' = relations \ {<<n, e>>}
  /\ UNCHANGED <<master, term, current, linkVars, deviceVars, streamVars, queueVars, localVars>>

\* connection.Reconcile finds a connection in the manager, then creates the
\* relation for it, even if the connection has been lost in between.
FindConn(n) ==
  /\ making[n] = NoConn
  /\ up[n] \notin relations \cup {NoConn}
  /\ making' = [making EXCEPT ![n] = up[n]]
  /\ UNCHANGED <<storeVars, epoch, up, deviceVars, streamVars, queueVars, localVars>>

CreateRelation(n) ==
  /\ making[n] # NoConn
  /\ relations' = relations \cup {making[n]}
  /\ making' = [making EXCEPT ![n] = NoConn]
  /\ Notify
  /\ UNCHANGED <<master, term, current, epoch, up, deviceVars, streamVars, localVars>>

\* One that is not in the manager: its relation, if there is one, is deleted.
DeleteRelation(n) ==
  /\ making[n] = NoConn
  /\ pc[n] # "crashed"
  /\ \E e \in 1 .. Epochs[n] :
       /\ <<n, e>> \in relations \ {up[n]}
       /\ relations' = relations \ {<<n, e>>}
  /\ Notify
  /\ UNCHANGED <<master, term, current, linkVars, deviceVars, streamVars, localVars>>

-----------------------------------------------------------------------------
(* Reconcile.                                                              *)

\* topo.Get of the service entity.
ReadService(n) ==
  /\ pc[n] \in {"idle", "absent"}
  /\ pending[n]
  /\ pending' = [pending EXCEPT ![n] = FALSE]
  /\ local'   = [local EXCEPT ![n].master = master, ![n].term = term]
  /\ current' = current \cup {n}
  /\ Goto(n, "list")
  /\ UNCHANGED <<master, term, relations, linkVars, deviceVars, streamVars, deaf>>

\* topo.Get of the target or of the own controller entity finds none: the reconcile
\* ends without a requeue, and the watcher passes on no event of either entity.
EntityAbsent(n) ==
  /\ n \in Exposed
  /\ pc[n] = "list"
  /\ Goto(n, "absent")
  /\ local' = [local EXCEPT ![n] = NoLocal]
  /\ UNCHANGED <<storeVars, linkVars, deviceVars, streamVars, queueVars>>

\* topo.List of the connection relations, and the choice made on it.
ListRelations(n) ==
  /\ pc[n] = "list"
  /\ IF local[n].master \in relations \/ (relations = {} /\ local[n].master = NoConn)
     THEN Return(n)
     ELSE /\ local' = [local EXCEPT ![n].mine = {c \in relations : c[1] = n}]
          /\ Goto(n, IF relations = {} THEN "resign" ELSE "send")
          /\ UNCHANGED queueVars
  /\ UNCHANGED <<storeVars, linkVars, deviceVars, streamVars>>

\* Mutant: the update does not carry the revision.
AnyRevision(n) == n \in Controllers

\* The service entity has not been written since n read it.
Current(n) == n \in current

\* topo.Update succeeds on the revision that was read, and makes it old for
\* every other reader; otherwise the conflict ends the reconcile quietly.
Store(n, c, t) ==
  \/ /\ Current(n)
     /\ master'  = c
     /\ term'    = t
     /\ current' = {}
     /\ Ends(n)
     /\ Notify
  \/ /\ ~ Current(n)
     /\ Return(n)
     /\ UNCHANGED <<master, term, current>>

\* No connection is left: the master resigns.
Resign(n) ==
  /\ pc[n] = "resign"
  /\ Store(n, NoConn, local[n].term)
  /\ UNCHANGED <<relations, linkVars, deviceVars, streamVars>>

\* SendArbitrationRequest on the stream the client holds; on a stream that has
\* ended it fails, and the reconcile is tried again.  Without a client there is
\* nothing to do.
Send(n) ==
  /\ pc[n] = "send"
  /\ \/ /\ stream[n] = "open"
        /\ requests' = [requests EXCEPT ![n] = Append(@, local[n].term + 1)]
        /\ Goto(n, "recv")
        /\ UNCHANGED <<queueVars, local>>
     \/ stream[n] \in {"invalid", "lost"} /\ Retry(n) /\ UNCHANGED requests
     \/ stream[n] = "none" /\ Return(n) /\ UNCHANGED requests
  /\ UNCHANGED <<storeVars, linkVars, deviceVars, stream, inbox>>

\* RecvArbitrationResponse: the next message, whatever request it answers.
Recv(n) ==
  /\ pc[n] = "recv"
  /\ inbox[n] # <<>>
  /\ inbox' = [inbox EXCEPT ![n] = Tail(@)]
  /\ LET response == Head(inbox[n]) IN
       \/ /\ response.status = "OK"
          /\ local[n].mine # {}
          /\ local' = [local EXCEPT ![n].answer = response.id]
          /\ Goto(n, "update")
          /\ UNCHANGED queueVars
       \/ response.status = "OK" /\ local[n].mine = {} /\ Return(n)
       \/ response.status = "ALREADY_EXISTS" /\ Return(n)
       \/ response.status = "NOT_FOUND" /\ Retry(n)
  /\ UNCHANGED <<storeVars, linkVars, deviceVars, stream, requests>>

\* A process panics: what it has goes with it, its connection and stream too.
Panic(n) ==
  /\ Goto(n, "crashed")
  /\ local'  = [local EXCEPT ![n] = NoLocal]
  /\ up'     = [up EXCEPT ![n] = NoConn]
  /\ Leave(n)
  /\ stream' = [stream EXCEPT ![n] = "none"]
  /\ inbox'  = [AfterLeave(n) EXCEPT ![n] = <<>>]
  /\ making' = [making EXCEPT ![n] = NoConn]
  /\ deaf'   = deaf \ {n}
  /\ UNCHANGED <<storeVars, epoch, top, pending>>

\* The store fails, or an aspect is missing: the reconcile is tried again.  When it
\* is the target that cannot be read, the log entry names the ID of the object
\* that was not returned, and the process panics.
StoreFails(n) ==
  /\ n \in Exposed
  /\ pc[n] \in {"list", "resign", "update"}
  /\ \/ Retry(n) /\ UNCHANGED <<storeVars, linkVars, deviceVars, streamVars>>
     \/ pc[n] = "list" /\ Panic(n)

\* The stream was terminated with INVALID_ARGUMENT: an error, to be retried.  Recv
\* returns gRPC's error as it is; where errors.IsInvalid asks for one of its own, it
\* is any other error.
RecvInvalid(n) ==
  /\ pc[n] = "recv"
  /\ inbox[n] = <<>>
  /\ stream[n] = "invalid"
  /\ \/ Retry(n) /\ UNCHANGED <<storeVars, linkVars, deviceVars, streamVars>>
     \/ Panic(n)

\* The stream has ended, with an end of file, which ends the reconcile, or with
\* another error, which is logged before the absent response is used.
RecvLost(n) ==
  /\ \/ pc[n] = "stale"
     \/ pc[n] = "recv" /\ inbox[n] = <<>> /\ stream[n] = "lost"
  /\ \/ Return(n) /\ UNCHANGED <<storeVars, linkVars, deviceVars, streamVars>>
     \/ Panic(n)

\* A packet stands where the response is expected: an error, too.
RecvPacket(n) ==
  /\ pc[n] = "recv"
  /\ inbox[n] # <<>>
  /\ Head(inbox[n]) = Packet
  /\ Panic(n)

\* Mutant: the term that was asked for is recorded.
UpdateAsked(n) ==
  /\ pc[n] = "update"
  /\ \E c \in local[n].mine : Store(n, c, local[n].term + 1)
  /\ UNCHANGED <<relations, linkVars, deviceVars, streamVars>>

\* The own connection becomes the master, in the term the device has answered.
Update(n) ==
  /\ pc[n] = "update"
  /\ \E c \in local[n].mine : Store(n, c, local[n].answer)
  /\ UNCHANGED <<relations, linkVars, deviceVars, streamVars>>

\* The application reads packets from the same stream: it takes the next message,
\* and drops it if it is an arbitration update.
PacketIn(n) ==
  /\ n \in Listening
  /\ inbox[n] # <<>>
  /\ inbox' = [inbox EXCEPT ![n] = Tail(@)]
  /\ UNCHANGED <<storeVars, linkVars, deviceVars, stream, requests, queueVars, localVars>>

\* The watch of the store ends: Recv fails, topoClient.Watch closes the channel of
\* events, and the loop of the watcher is left for good.  What is in the work queue
\* stays.  (Events lost on the way are those of a watch that has ended before them.)
WatchEnds(n) ==
  /\ n \in Exposed \ deaf
  /\ pc[n] # "crashed"
  /\ deaf' = deaf \cup {n}
  /\ UNCHANGED <<storeVars, linkVars, deviceVars, streamVars, pending, localVars>>

\* The process is started again; the watchers' replay fills its work queues.
Restart(n) ==
  /\ pc[n] = "crashed"
  /\ Retry(n)
  /\ UNCHANGED <<storeVars, linkVars, deviceVars, streamVars>>

-----------------------------------------------------------------------------

Reconcile(n) ==
  \/ ReadService(n) \/ ListRelations(n) \/ Resign(n) \/ Send(n)
  \/ Recv(n) \/ RecvInvalid(n) \/ RecvLost(n) \/ RecvPacket(n) \/ Update(n)

ReconcileRelation(n) == FindConn(n) \/ CreateRelation(n) \/ DeleteRelation(n)

Environment(n) ==
  \/ Arbitrate(n) \/ SendPacket(n) \/ StreamBreaks(n) \/ Withdraw(n) \/ LinkUp(n)
  \/ WatchEnds(n) \/ EntityAbsent(n) \/ StoreFails(n) \/ PacketIn(n) \/ Restart(n)

Next ==
  \E n \in Controllers : Environment(n) \/ ReconcileRelation(n) \/ Reconcile(n)

Spec == Init /\ [][Next]_vars

\* The device answers, reconciles go on, and a process that has panicked is started
\* again.  The store fails for a time only.  Nobody has to connect or to withdraw a
\* connection, and no relation has to be written.
Fairness ==
  /\ \A n \in Controllers :
       /\ WF_vars(Arbitrate(n))
       /\ WF_vars(Reconcile(n))
       /\ WF_vars(Restart(n))
  /\ <>[][\A n \in Controllers : ~ StoreFails(n)]_vars

FairSpec == Spec /\ Fairness

-----------------------------------------------------------------------------
(* The mastership state, as MasterRecord sees it.                          *)

\* A connection has its relation, or will never get one (again): it is not in
\* its manager, no relation is about to be created for it, and its number is
\* used up.
Known(c) ==
  \/ c \in relations
  \/ /\ c[2] <= epoch[c[1]]
     /\ up[c[1]] # c
     /\ making[c[1]] # c

\* All connections there may ever be, and those that will not come to life (again).
Numbered == UNION {{n} \X (1 .. Epochs[n]) : n \in Controllers}
Spent == {c \in Numbered : Known(c)}

RecordContract ==
  INSTANCE MasterRecord WITH
    Conns   <- Numbered,
    granted <- top,
    live    <- relations,
    spent   <- Spent

(***************************************************************************)
(* Properties.                                                             *)
(***************************************************************************)

\* As long as the recorded master connection has its relation, nobody deposes
\* it and its term stands, however old the list was on which a reconcile based
\* its update (mastership/controller.go:125-148, 192-208): the decision is made
\* on a read that precedes the device's answer, and only the revision and the
\* uniqueness of connection IDs keep it from hitting a master elected since.
LiveMasterKept ==
  [][(master \in relations) => (master' = master /\ term' = term)]_vars

\* The recorded term is one the device has granted, never ahead of it: the term
\* is the election id of an OK (mastership/controller.go:195-198), not the one
\* that was asked for.
TermGranted == term <= top

\* mastership/controller.go:104-232 implements MasterRecord: however reconciles,
\* conflicts, panics, answers and connections interleave, the service entity as
\* the other controllers and the applications read it changes from one master to
\* the next only in its steps.
RecordImplemented == RecordContract!Spec

\* The controller hears of changes, and its last reconcile has found the entities
\* of its target and of itself.  One that has not is woken only by a change of the
\* service entity or of a relation (mastership/controller.go:70-73, 87-90,
\* watcher.go:45-58), which need not come.
Attentive(n) == n \notin deaf /\ pc[n] # "absent"

\* Once the last connection of the service is gone for good, its master is
\* resigned (mastership/controller.go:126-148), whatever panics, failures of the
\* store, conflicts and old messages come before, if there is a controller that
\* hears of changes, finds its entities, and whose reconciles return.
MasterIsResigned ==
  \A n \in Controllers :
    <>[](relations = {} /\ Attentive(n)) /\ []<>(pc[n] = "idle")
      => <>[](master = NoConn)

\* Whoever can resign a master whose service has no connection left is on its way:
\* the service is in its queue, or its reconcile has read the service entity since
\* and can still update it.  This is what MasterIsResigned rests on: no wake-up is
\* lost between the watcher's event and the reads of a reconcile that is already
\* under way (mastership/controller.go:104-148, watcher.go:26-71).
ResignDue ==
  relations = {} /\ master # NoConn =>
    \A n \in Controllers :
      Attentive(n) =>
        \/ pending[n]
        \/ pc[n] = "crashed"
        \/ pc[n] \in {"list", "resign"} /\ Current(n)

\* The connection of n is in its manager, the only one of n in the store, and its
\* stream has not been terminated.
Steady(n) ==
  /\ up[n] # NoConn
  /\ {c \in relations : c[1] = n} = {up[n]}
  /\ stream[n] = "open"

\* No other controller has ever connected.
Alone(n) == \A m \in Controllers \ {n} : epoch[m] = 0

\* Of a controller that is the only one to connect, the recorded term is the one
\* in which the device has made its stream the primary, as long as its connection
\* is the recorded master's and the stream lasts: no answer to an earlier request,
\* and none that came on an earlier stream, is recorded for the connection it has
\* now (mastership/controller.go:159-210, southbound/conn_manager.go:146-160).
TermAgreed ==
  \A n \in Controllers :
    Alone(n) /\ up[n] # NoConn /\ stream[n] = "open" /\ master = up[n]
      => Primary(n) /\ term = eid[n]

\* A controller whose connection and stream last, whose reconciles return and find
\* their entities, that hears of changes, and which is the only one to connect,
\* becomes the recorded master, in the very term in which the device has made it
\* the primary (mastership/controller.go:126-232), whatever packets, lost streams,
\* failures of the store and panics come before, and whichever of its requests the
\* recorded answer belongs to.
SteadyElects ==
  \A n \in Controllers :
    <>[](Steady(n) /\ Alone(n) /\ Attentive(n)) /\ []<>(pc[n] = "idle")
      => <>[](master = up[n] /\ Primary(n) /\ term = eid[n])

\* As long as no master has a connection, the only controller with one does not
\* fall asleep: each of its reconciles that ends without an election leaves the
\* service in its queue, whether it was overtaken by an update, read an old
\* answer, lost its stream, found it replaced or met a store that fails
\* (mastership/controller.go:104-232).  Only the absence of an entity, or the end
\* of the watch, makes it wait for somebody else.
ElectionDue ==
  \A n \in Controllers :
    Steady(n) /\ Alone(n) /\ Attentive(n) /\ master \notin relations
      => pending[n] \/ pc[n] # "idle"

\* docs/core_functions.md:16-17: the controller sends a request "after a
\* connection is made", and "after processing the response ... updates mastership
\* state".  Of a controller that is not alone this does not hold, even if it hears
\* of all changes and finds all entities: a notice about another primary is taken
\* for the answer, and the reconcile ends without a requeue
\* (mastership/controller.go:221).
ContendedElects ==
  \A n \in Controllers :
    <>[](Steady(n) /\ Attentive(n)) /\ []<>(pc[n] = "idle")
      => <>[](master \in relations)
=============================================================================
