------------------------------ MODULE ControlPlane -----------------------------
(***************************************************************************)
(* The controllers that turn a target in the topology store into a         *)
(* connection, and the connection into a relation (pkg/controller/service, *)
(* pkg/controller/target, pkg/controller/connection), in one instance of   *)
(* an application and for one target.                                      *)
(*                                                                         *)
(* Each controller has watchers that put IDs into its work queue, and      *)
(* reconciles one ID at a time: it reads the store or the connection       *)
(* manager, and acts on what it has read.  Nothing tells the controllers   *)
(* of each other but the store and the manager: the service controller     *)
(* creates the service entity for a target, the event of the service       *)
(* entity makes the target controller connect, the event of the connection *)
(* makes the connection controller create its relation.                    *)
(*                                                                         *)
(* The connection manager is here what ConnWatch says it is.  A queue is   *)
(* the set of the IDs in it or on their way to it.  An ID may be in it     *)
(* more than once: when a reconcile takes one, it is open whether it was   *)
(* the last.                                                               *)
(***************************************************************************)
EXTENDS Naturals

CONSTANTS
  Endpoints,    \* addresses the target may have
  NoEndpoint,   \* no target, or no client
  ConnIDs,      \* connection UUIDs
  NoConn,
  Removable,    \* a target may be changed and removed
  Breakable     \* the controllers whose watch of the store may end

ASSUME NoEndpointAssumption == NoEndpoint \notin Endpoints
ASSUME NoConnAssumption     == NoConn \notin ConnIDs
ASSUME RemovableAssumption  == Removable \in BOOLEAN

StoreWatchers == {"service", "target", "connection"}

ASSUME BreakableAssumption  == Breakable \subseteq StoreWatchers

VARIABLES
  endpoint,   \* store: the target entity
  service,    \* store: the service entity exists
  controls,   \* store: the CONTROLS relation from service to target exists
  relations,  \* store: CONNECTION relations of this instance
  running,    \* the process runs
  deaf,       \* controllers whose watch of the store has ended in this run of it
  dialed,     \* manager: what the client of the target was dialed with
  conns,      \* manager: the connections that are up
  closing,    \* those of them whose client has been closed
  serviceQ,   \* the service controller has the target in its queue
  targetQ,    \* the target controller has it
  connQ,      \* IDs in the queue of the connection controller
  spc,        \* where the reconcile of the service controller stands
  tpc,        \* ... of the target controller,
  read,       \* and the target it has read
  cpc,        \* ... of the connection controller,
  about       \* and the connection it is about

storeVars   == <<endpoint, service, controls, relations>>
managerVars == <<dialed, conns, closing>>
queueVars   == <<serviceQ, targetQ, connQ>>
targetVars  == <<tpc, read>>
connVars    == <<cpc, about>>
localVars   == <<spc, targetVars, connVars>>
vars == <<storeVars, running, deaf, managerVars, queueVars, localVars>>

\* Every variable has its type; only connections that are up are closing.
TypeOK ==
  /\ endpoint  \in Endpoints \cup {NoEndpoint}
  /\ service   \in BOOLEAN
  /\ controls  \in BOOLEAN
  /\ relations \in SUBSET ConnIDs
  /\ running   \in BOOLEAN
  /\ deaf      \in SUBSET StoreWatchers
  /\ dialed    \in Endpoints \cup {NoEndpoint}
  /\ conns     \in SUBSET ConnIDs
  /\ closing   \in SUBSET conns
  /\ serviceQ  \in BOOLEAN
  /\ targetQ   \in BOOLEAN
  /\ connQ     \in SUBSET ConnIDs
  /\ spc       \in {"idle", "entity", "relation"}
  /\ tpc       \in {"idle", "connect", "disconnect"}
  /\ read      \in Endpoints \cup {NoEndpoint}
  /\ cpc       \in {"idle", "create", "delete"}
  /\ about     \in ConnIDs \cup {NoConn}

Init ==
  /\ endpoint = NoEndpoint /\ service = FALSE /\ controls = FALSE
  /\ relations = {}
  /\ running = TRUE /\ deaf = {}
  /\ dialed = NoEndpoint /\ conns = {} /\ closing = {}
  /\ serviceQ = FALSE /\ targetQ = FALSE /\ connQ = {}
  /\ spc = "idle"
  /\ tpc = "idle" /\ read = NoEndpoint
  /\ cpc = "idle" /\ about = NoConn

-----------------------------------------------------------------------------
(* Events: what the watchers make of a change, in a process that runs.     *)

\* The watch of the store of controller w delivers events.
Hears(w) == running /\ w \notin deaf

\* The service controller hears of the target (it has a P4RTServerInfo aspect)
\* and of the CONTROLS relation.
TargetEvent ==
  /\ serviceQ' = (serviceQ \/ Hears("service"))
  /\ UNCHANGED <<targetQ, connQ>>

\* The service and the target controller hear of the service entity.
ServiceEvent ==
  /\ serviceQ' = (serviceQ \/ Hears("service"))
  /\ targetQ'  = (targetQ \/ Hears("target"))
  /\ UNCHANGED connQ

\* The connection controller hears of its relation.
RelationEvent(c) ==
  /\ connQ' = IF Hears("connection") THEN connQ \cup {c} ELSE connQ
  /\ UNCHANGED <<serviceQ, targetQ>>

\* The target and the connection controller hear of a connection.
ConnEvent(c) == targetQ' = TRUE /\ connQ' = connQ \cup {c} /\ UNCHANGED serviceQ

-----------------------------------------------------------------------------
(* The operator, the mastership controller and the process.                *)

\* The target entity is created, changed or removed in the topology store.
SetTarget(e) ==
  /\ e # endpoint
  /\ endpoint # NoEndpoint => Removable
  /\ endpoint' = e
  /\ TargetEvent
  /\ UNCHANGED <<service, controls, relations, running, deaf, managerVars, localVars>>

\* The mastership controller, here or elsewhere, updates the service entity.
ServiceUpdated ==
  /\ service
  /\ ServiceEvent
  /\ UNCHANGED <<storeVars, running, deaf, managerVars, localVars>>

\* The process stops: queues, reconciles, clients and connections are gone.
Crash ==
  /\ running
  /\ running' = FALSE /\ deaf' = {}
  /\ dialed' = NoEndpoint /\ conns' = {} /\ closing' = {}
  /\ serviceQ' = FALSE /\ targetQ' = FALSE /\ connQ' = {}
  /\ spc' = "idle"
  /\ tpc' = "idle" /\ read' = NoEndpoint
  /\ cpc' = "idle" /\ about' = NoConn
  /\ UNCHANGED storeVars

\* (mutant: the watchers ask the store not to replay)
RestartNoReplay ==
  /\ ~ running
  /\ running' = TRUE
  /\ UNCHANGED <<storeVars, deaf, managerVars, queueVars, localVars>>

\* It starts again under the same ID: topo.Watch replays what is in the store.
Restart ==
  /\ ~ running
  /\ running'  = TRUE
  /\ serviceQ' = (endpoint # NoEndpoint \/ service \/ controls)
  /\ targetQ'  = service
  /\ connQ'    = relations
  /\ UNCHANGED <<storeVars, deaf, managerVars, localVars>>

\* The stream of a watch of the store ends, with an end of file or with an error
\* that is not retried.  Its goroutine ends with it, and TopoWatcher.Start does
\* nothing a second time.
WatchEnds(w) ==
  /\ running
  /\ w \in Breakable \ deaf
  /\ deaf' = deaf \cup {w}
  /\ UNCHANGED <<storeVars, running, managerVars, queueVars, localVars>>

-----------------------------------------------------------------------------
(* The connection manager.                                                 *)

Fresh(c) == c \notin conns \cup relations \cup connQ \cup {about}

\* The client of the target gets a connection.
ConnUp(c) ==
  /\ dialed # NoEndpoint
  /\ conns \subseteq closing
  /\ Fresh(c)
  /\ conns' = conns \cup {c}
  /\ ConnEvent(c)
  /\ UNCHANGED <<storeVars, running, deaf, dialed, closing, localVars>>

\* (mutant: a lost connection is not announced)
ConnDownSilent(c) ==
  /\ c \in conns
  /\ conns'   = conns \ {c}
  /\ closing' = closing \ {c}
  /\ UNCHANGED <<storeVars, running, deaf, dialed, queueVars, localVars>>

\* It loses it; so does a client that has been closed.
ConnDown(c) ==
  /\ c \in conns
  /\ conns'   = conns \ {c}
  /\ closing' = closing \ {c}
  /\ ConnEvent(c)
  /\ UNCHANGED <<storeVars, running, deaf, dialed, localVars>>

-----------------------------------------------------------------------------
(* service.Reconcile.                                                      *)

\* Without a target there is nothing to do, not even to remove.
ServiceGet ==
  /\ spc = "idle"
  /\ serviceQ
  /\ serviceQ' \in BOOLEAN
  /\ spc' = IF endpoint # NoEndpoint THEN "entity" ELSE "idle"
  /\ UNCHANGED <<storeVars, running, deaf, managerVars, targetQ, connQ,
                 targetVars, connVars>>

\* createServiceEntity: the reconcile ends if it has created it.
CreateServiceEntity ==
  /\ spc = "entity"
  /\ \/ /\ ~ service
        /\ service' = TRUE
        /\ ServiceEvent
        /\ spc' = "idle"
     \/ /\ service
        /\ spc' = "relation"
        /\ UNCHANGED <<service, queueVars>>
  /\ UNCHANGED <<endpoint, controls, relations, running, deaf, managerVars,
                 targetVars, connVars>>

\* createServiceRelation; that there is one already is no error.
CreateServiceRelation ==
  /\ spc = "relation"
  /\ spc' = "idle"
  /\ controls' = TRUE
  /\ IF controls THEN UNCHANGED queueVars ELSE TargetEvent
  /\ UNCHANGED <<endpoint, service, relations, running, deaf, managerVars,
                 targetVars, connVars>>

\* (mutant: the error is logged and not returned)
ServiceFailsQuiet ==
  /\ spc # "idle"
  /\ spc' = "idle"
  /\ UNCHANGED <<storeVars, running, deaf, managerVars, queueVars, targetVars, connVars>>

\* The store returns an error: the reconcile ends and is due again.
ServiceFails ==
  /\ spc # "idle"
  /\ spc' = "idle"
  /\ serviceQ' = TRUE
  /\ UNCHANGED <<storeVars, running, deaf, managerVars, targetQ, connQ, targetVars, connVars>>

-----------------------------------------------------------------------------
(* target.Reconcile.                                                       *)

\* The target is read, then connected to or disconnected from.
TargetGet ==
  /\ tpc = "idle"
  /\ targetQ
  /\ targetQ' \in BOOLEAN
  /\ read' = endpoint
  /\ tpc' = IF endpoint # NoEndpoint THEN "connect" ELSE "disconnect"
  /\ UNCHANGED <<storeVars, running, deaf, managerVars, serviceQ, connQ, spc, connVars>>

\* connManager.Connect; a target that has a client keeps it.
TargetConnect ==
  /\ tpc = "connect"
  /\ tpc' = "idle"
  /\ dialed' = IF dialed = NoEndpoint THEN read ELSE dialed
  /\ UNCHANGED <<storeVars, running, deaf, conns, closing, queueVars, spc, read, connVars>>

\* There is no destination to dial in the target, or the dial fails, or the
\* stream cannot be opened, by when the client has been entered.
TargetConnectFails ==
  /\ tpc = "connect"
  /\ dialed = NoEndpoint
  /\ tpc' = "idle"
  /\ targetQ' = TRUE
  /\ dialed' \in {NoEndpoint, read}
  /\ UNCHANGED <<storeVars, running, deaf, conns, closing, serviceQ, connQ, spc, read, connVars>>

\* connManager.Disconnect: the client is removed and closed.
TargetDisconnect ==
  /\ tpc = "disconnect"
  /\ tpc' = "idle"
  /\ dialed' = NoEndpoint
  /\ closing' = conns
  /\ UNCHANGED <<storeVars, running, deaf, conns, queueVars, spc, read, connVars>>

-----------------------------------------------------------------------------
(* connection.Reconcile.                                                   *)

\* The connection is looked up in the manager.
ConnGet(c) ==
  /\ cpc = "idle"
  /\ c \in connQ
  /\ connQ' \in {connQ, connQ \ {c}}
  /\ about' = c
  /\ cpc' = IF c \in conns THEN "create" ELSE "delete"
  /\ UNCHANGED <<storeVars, running, deaf, managerVars, serviceQ, targetQ, spc, targetVars>>

\* createRelation: one that exists is left alone.
CreateRelation ==
  /\ cpc = "create"
  /\ \/ /\ about \notin relations
        /\ relations' = relations \cup {about}
        /\ RelationEvent(about)
     \/ about \in relations /\ UNCHANGED <<relations, queueVars>>
  /\ cpc' = "idle"
  /\ about' = NoConn
  /\ UNCHANGED <<endpoint, service, controls, running, deaf, managerVars, spc, targetVars>>

\* deleteRelation: one that does not exist is no error.
DeleteRelation ==
  /\ cpc = "delete"
  /\ \/ /\ about \in relations
        /\ relations' = relations \ {about}
        /\ RelationEvent(about)
     \/ about \notin relations /\ UNCHANGED <<relations, queueVars>>
  /\ cpc' = "idle"
  /\ about' = NoConn
  /\ UNCHANGED <<endpoint, service, controls, running, deaf, managerVars, spc, targetVars>>

\* (mutant: the ID is dropped before it is put back)
RelationFailsReset ==
  /\ cpc # "idle"
  /\ cpc' = "idle"
  /\ about' = NoConn
  /\ connQ' = connQ \cup {about'}
  /\ UNCHANGED <<storeVars, running, deaf, managerVars, serviceQ, targetQ, spc, targetVars>>

\* The store returns an error: the reconcile ends and is due again.
RelationFails ==
  /\ cpc # "idle"
  /\ cpc' = "idle"
  /\ about' = NoConn
  /\ connQ' = connQ \cup {about}
  /\ UNCHANGED <<storeVars, running, deaf, managerVars, serviceQ, targetQ, spc, targetVars>>

-----------------------------------------------------------------------------

Next ==
  \/ \E e \in Endpoints \cup {NoEndpoint} : SetTarget(e)
  \/ ServiceUpdated \/ Crash \/ Restart
  \/ \E w \in StoreWatchers : WatchEnds(w)
  \/ \E c \in ConnIDs : ConnUp(c) \/ ConnDown(c) \/ ConnGet(c)
  \/ ServiceGet \/ CreateServiceEntity \/ CreateServiceRelation \/ ServiceFails
  \/ TargetGet \/ TargetConnect \/ TargetConnectFails \/ TargetDisconnect
  \/ CreateRelation \/ DeleteRelation \/ RelationFails

Spec == Init /\ [][Next]_vars

\* A process that has stopped is started again; an ID in a queue gets its turn,
\* and its reconcile goes on; a store or a dial that is tried again and again
\* succeeds in the end.  Nobody has to change a target, update a service, answer
\* a dial or end a watch.
Fairness ==
  /\ WF_vars(Restart)
  /\ WF_vars(ServiceGet)
  /\ SF_vars(CreateServiceEntity)
  /\ WF_vars(TargetGet)
  /\ SF_vars(TargetConnect \/ TargetDisconnect)
  /\ \A c \in ConnIDs :
       /\ SF_vars(ConnGet(c))
       /\ SF_vars(about = c /\ (CreateRelation \/ DeleteRelation))

FairSpec == Spec /\ Fairness

-----------------------------------------------------------------------------
(* Properties.                                                             *)

\* The connection controller will look at c, or is about to act on it.
Attended(c) == c \in connQ \/ (cpc # "idle" /\ about = c)

\* Store and manager disagree on a connection only while that connection is in
\* the work queue or in a reconcile.
ConnIsDue ==
  running => \A c \in ConnIDs : (c \in conns) # (c \in relations) => Attended(c)

\* While the watch of the store lasts, a target lacks its service entity or the
\* relation to it only while the service controller is to look at it.
ServiceIsDue ==
  running /\ "service" \notin deaf /\ endpoint # NoEndpoint =>
    (service /\ controls) \/ serviceQ \/ spc # "idle"

\* connection/controller.go:50-116, service/controller.go:133-163 and their watchers:
\* as long as the process runs, whatever a controller is there to put right is in
\* its queue or its hands, however losing a connection, finding it and creating
\* its relation interleave, whatever the store has refused, and also after a
\* restart.
NothingForgotten == ConnIsDue /\ ServiceIsDue

\* connection/controller.go:50-116, connection/watcher.go:74-104: in an instance
\* that stays up, a connection that stays up gets a relation that stays, and one
\* that is gone, be it in an earlier run of the process, has no relation in the
\* end, whichever watches of the store have ended (store/topo/store.go:149-152):
\* the events of the manager, and the replay of a new run, are enough.
RelationsFollow ==
  \A c \in ConnIDs :
    /\ <>[](running /\ c \in conns) => <>[](c \in relations)
    /\ <>[](running /\ c \notin conns) => <>[](c \notin relations)

\* The target has not been removed since there is a service entity for it.
Kept == [](service => endpoint # NoEndpoint)

\* target/controller.go:49-93, target/watcher.go:45-59: a target that has a service
\* entity, and has not been removed since, is without a client only while the
\* target controller is to look at it or is about to connect; no dial that
\* fails and no restart loses it.
DialIsDue ==
  Kept => [](running /\ service /\ "target" \notin deaf /\ dialed = NoEndpoint
               => targetQ \/ tpc = "connect")

\* target/controller.go:49-93, service/controller.go:133-163: a target that has not
\* been removed is dialed in the end by an instance that stays up and whose
\* watches of the store last, whatever crashes and failures come before.
TargetIsDialed ==
  Kept /\ <>[](endpoint # NoEndpoint /\ running /\ deaf = {}) => <>[](dialed # NoEndpoint)

\* docs/core_functions.md:12-13: "add/remove a connection ... when the
\* corresponding entity is added/removed".  Of a target that was removed before it
\* is not true: the service entity is still there, and the target controller hears
\* of nothing else (target/watcher.go:50).
AddedIsDialed ==
  <>[](endpoint # NoEndpoint /\ running /\ deaf = {}) => <>[](dialed # NoEndpoint)
=============================================================================
