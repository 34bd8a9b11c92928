-------------------------- MODULE ControlPlaneProofs ---------------------------
(***************************************************************************)
(* Proofs about ControlPlane, for any number of connections: the variables *)
(* keep their types, no connection on which store and manager disagree is  *)
(* forgotten, and no target is while its service entity, the relation to   *)
(* it or its client is missing.                                            *)
(***************************************************************************)
EXTENDS ControlPlane, TLAPS

\* What the connection controller is about to do agrees with the manager, or
\* the connection is in its queue again.
ReconcileIsDue ==
  /\ cpc # "idle" => about \in ConnIDs
  /\ cpc = "create" => about \in conns \cup connQ
  /\ cpc = "delete" => about \notin conns

\* A process that has stopped has no client, and nothing that makes one.
StoppedIsEmpty ==
  ~ running => /\ conns = {} /\ connQ = {} /\ dialed = NoEndpoint
               /\ ~ targetQ /\ tpc = "idle" /\ cpc = "idle"

AttendInv == TypeOK /\ ConnIsDue /\ ReconcileIsDue /\ StoppedIsEmpty

\* The parts of the state the actions are grouped by.
ServiceStep == ServiceGet \/ CreateServiceEntity \/ CreateServiceRelation \/ ServiceFails
TargetStep  == TargetGet \/ TargetConnect \/ TargetConnectFails \/ TargetDisconnect
StoreStep   == \/ \E e \in Endpoints \cup {NoEndpoint} : SetTarget(e)
               \/ ServiceUpdated
               \/ \E w \in StoreWatchers : WatchEnds(w)

\* The next-state relation, in groups.
LEMMA NextInGroups ==
  ASSUME [Next]_vars
  PROVE  \/ StoreStep \/ Crash \/ Restart \/ ServiceStep \/ TargetStep
         \/ \E c \in ConnIDs : ConnUp(c) \/ ConnDown(c) \/ ConnGet(c)
         \/ CreateRelation \/ DeleteRelation \/ RelationFails
         \/ UNCHANGED vars
  BY DEF Next, StoreStep, ServiceStep, TargetStep

-----------------------------------------------------------------------------
(* Type correctness.                                                       *)

LEMMA InitialTypes == Init => TypeOK
  BY DEF Init, TypeOK

LEMMA StepTypes ==
  ASSUME TypeOK, ReconcileIsDue, [Next]_vars
  PROVE  TypeOK'
  <1> USE DEF TypeOK
  <1>1. CASE StoreStep
    BY <1>1 DEF StoreStep, SetTarget, ServiceUpdated, WatchEnds, Hears, TargetEvent, ServiceEvent,
                storeVars, managerVars, queueVars, localVars, targetVars, connVars
  <1>2. CASE Crash
    BY <1>2 DEF Crash, storeVars
  <1>3. CASE Restart
    BY <1>3 DEF Restart, storeVars, managerVars, localVars, targetVars, connVars
  <1>4. CASE ServiceStep
    <2> USE DEF storeVars, managerVars, queueVars, targetVars, connVars
    <2>1. CASE ServiceGet            BY <2>1 DEF ServiceGet
    <2>2. CASE CreateServiceEntity
      <3>1. CASE service   BY <2>2, <3>1 DEF CreateServiceEntity
      <3>2. CASE ~ service BY <2>2, <3>2 DEF CreateServiceEntity, ServiceEvent, Hears
      <3> QED  BY <3>1, <3>2
    <2>3. CASE CreateServiceRelation BY <2>3 DEF CreateServiceRelation, TargetEvent, Hears
    <2>4. CASE ServiceFails          BY <2>4 DEF ServiceFails
    <2> QED  BY <1>4, <2>1, <2>2, <2>3, <2>4 DEF ServiceStep
  <1>5. CASE TargetStep
    <2> USE DEF storeVars, managerVars, queueVars, connVars
    <2>1. CASE TargetGet          BY <2>1 DEF TargetGet
    <2>2. CASE TargetConnect      BY <2>2 DEF TargetConnect
    <2>3. CASE TargetConnectFails BY <2>3 DEF TargetConnectFails
    <2>4. CASE TargetDisconnect   BY <2>4 DEF TargetDisconnect
    <2> QED  BY <1>5, <2>1, <2>2, <2>3, <2>4 DEF TargetStep
  <1>6. CASE \E c \in ConnIDs : ConnUp(c) \/ ConnDown(c) \/ ConnGet(c)
    <2> PICK c \in ConnIDs : ConnUp(c) \/ ConnDown(c) \/ ConnGet(c)
      BY <1>6
    <2> USE DEF ConnEvent, storeVars, managerVars, localVars, targetVars, connVars
    <2>1. CASE ConnUp(c)   BY <2>1 DEF ConnUp
    <2>2. CASE ConnDown(c) BY <2>2 DEF ConnDown
    <2>3. CASE ConnGet(c)  BY <2>3 DEF ConnGet
    <2> QED  BY <2>1, <2>2, <2>3
  <1>7. CASE CreateRelation \/ DeleteRelation \/ RelationFails
    BY <1>7 DEF ReconcileIsDue, CreateRelation, DeleteRelation, RelationFails,
                RelationEvent, storeVars, managerVars, queueVars, targetVars
  <1>8. CASE UNCHANGED vars
    BY <1>8 DEF vars, storeVars, managerVars, queueVars, localVars, targetVars,
                connVars
  <1> QED  BY <1>1, <1>2, <1>3, <1>4, <1>5, <1>6, <1>7, <1>8, NextInGroups

-----------------------------------------------------------------------------
(* The process that has stopped, and the reconcile that runs.              *)

LEMMA StepStopped ==
  ASSUME TypeOK, StoppedIsEmpty, [Next]_vars
  PROVE  StoppedIsEmpty'
  <1> USE DEF StoppedIsEmpty
  <1>1. CASE StoreStep
    BY <1>1 DEF StoreStep, SetTarget, ServiceUpdated, WatchEnds, Hears, TargetEvent, ServiceEvent,
                managerVars, queueVars, localVars, targetVars, connVars
  <1>2. CASE Crash \/ Restart
    BY <1>2 DEF Crash, Restart
  <1>3. CASE ServiceStep
    BY <1>3 DEF TypeOK, ServiceStep, ServiceGet, CreateServiceEntity,
                CreateServiceRelation, ServiceFails, TargetEvent, ServiceEvent, Hears,
                managerVars, queueVars, targetVars, connVars
  <1>4. CASE TargetStep
    BY <1>4 DEF TargetStep, TargetGet, TargetConnect, TargetConnectFails,
                TargetDisconnect, managerVars, queueVars, connVars
  <1>5. CASE \E c \in ConnIDs : ConnUp(c) \/ ConnDown(c) \/ ConnGet(c)
    BY <1>5 DEF ConnUp, ConnDown, ConnGet, managerVars
  <1>6. CASE CreateRelation \/ DeleteRelation \/ RelationFails
    BY <1>6 DEF CreateRelation, DeleteRelation, RelationFails
  <1>7. CASE UNCHANGED vars
    BY <1>7 DEF vars, managerVars, queueVars, localVars, targetVars, connVars
  <1> QED  BY <1>1, <1>2, <1>3, <1>4, <1>5, <1>6, <1>7, NextInGroups

LEMMA StepDue ==
  ASSUME TypeOK, ReconcileIsDue, StoppedIsEmpty, [Next]_vars
  PROVE  ReconcileIsDue'
  <1> USE DEF ReconcileIsDue
  <1>1. CASE StoreStep \/ ServiceStep \/ TargetStep
    BY <1>1 DEF StoreStep, SetTarget, ServiceUpdated, WatchEnds, Hears, TargetEvent, ServiceEvent,
                ServiceStep, ServiceGet, CreateServiceEntity,
                CreateServiceRelation, ServiceFails, TargetStep, TargetGet,
                TargetConnect, TargetConnectFails, TargetDisconnect,
                managerVars, queueVars, localVars, connVars
  <1>2. CASE Crash
    BY <1>2 DEF Crash
  <1>3. CASE Restart
    BY <1>3 DEF Restart, StoppedIsEmpty, localVars, connVars
  <1>4. CASE \E c \in ConnIDs : ConnUp(c) \/ ConnDown(c)
    BY <1>4 DEF ConnUp, ConnDown, ConnEvent, Fresh, localVars, connVars
  <1>5. CASE \E c \in ConnIDs : ConnGet(c)
    BY <1>5 DEF ConnGet, managerVars
  <1>6. CASE CreateRelation \/ DeleteRelation \/ RelationFails
    BY <1>6 DEF CreateRelation, DeleteRelation, RelationFails
  <1>7. CASE UNCHANGED vars
    BY <1>7 DEF vars, managerVars, queueVars, localVars, connVars
  <1> QED  BY <1>1, <1>2, <1>3, <1>4, <1>5, <1>6, <1>7, NextInGroups

-----------------------------------------------------------------------------
(* No connection is forgotten.                                             *)

\* A step that leaves the connections, the relations and the connection
\* controller alone forgets none.
LEMMA NothingMoves ==
  ASSUME ConnIsDue,
         UNCHANGED <<conns, relations, connQ, cpc, about, running>>
  PROVE  ConnIsDue'
  BY DEF ConnIsDue, Attended

\* A connection that comes or goes is in the queue; the others stay where they
\* were.
LEMMA UpAndDownAttend ==
  ASSUME ConnIsDue, NEW c \in ConnIDs, ConnUp(c) \/ ConnDown(c)
  PROVE  ConnIsDue'
  <1> SUFFICES ASSUME running', NEW d \in ConnIDs,
                      (d \in conns') # (d \in relations')
               PROVE  Attended(d)'
    BY DEF ConnIsDue
  <1>1. connQ' = connQ \cup {c} /\ UNCHANGED <<relations, running, cpc, about>>
    BY DEF ConnUp, ConnDown, ConnEvent, storeVars, localVars, connVars
  <1>2. CASE d = c
    BY <1>1, <1>2 DEF Attended
  <1>3. CASE d # c
    <2>1. d \in conns' <=> d \in conns
      BY <1>3 DEF ConnUp, ConnDown
    <2> QED  BY <1>1, <2>1 DEF ConnIsDue, Attended
  <1> QED  BY <1>2, <1>3

\* What leaves the queue is in a reconcile.
LEMMA GetAttends ==
  ASSUME ConnIsDue, NEW c \in ConnIDs, ConnGet(c)
  PROVE  ConnIsDue'
  <1> SUFFICES ASSUME running', NEW d \in ConnIDs,
                      (d \in conns') # (d \in relations')
               PROVE  Attended(d)'
    BY DEF ConnIsDue
  <1>1. /\ connQ' \in {connQ, connQ \ {c}} /\ cpc = "idle"
        /\ about' = c /\ cpc' \in {"create", "delete"}
        /\ UNCHANGED <<conns, relations, running>>
    BY DEF ConnGet, storeVars, managerVars
  <1>2. Attended(d)
    BY <1>1 DEF ConnIsDue
  <1> QED  BY <1>1, <1>2 DEF Attended

\* At the end of a reconcile store and manager agree on its connection, or it
\* is in the queue again.
LEMMA ReconcileAttends ==
  ASSUME TypeOK, ConnIsDue, ReconcileIsDue,
         CreateRelation \/ DeleteRelation \/ RelationFails
  PROVE  ConnIsDue'
  <1> SUFFICES ASSUME running', NEW d \in ConnIDs,
                      (d \in conns') # (d \in relations')
               PROVE  d \in connQ'
    BY DEF ConnIsDue, Attended
  <1>1. UNCHANGED <<conns, running>> /\ connQ \subseteq connQ'
    BY DEF CreateRelation, DeleteRelation, RelationFails, RelationEvent,
           managerVars, queueVars
  <1>2. CASE d # about
    <2>1. d \in relations' <=> d \in relations
      BY <1>2 DEF CreateRelation, DeleteRelation, RelationFails, storeVars
    <2> QED  BY <1>1, <1>2, <2>1 DEF ConnIsDue, Attended
  <1>3. CASE d = about
    <2>1. CASE CreateRelation
      BY <1>1, <1>3, <2>1 DEF CreateRelation, RelationEvent, ReconcileIsDue
    <2>2. CASE DeleteRelation
      BY <1>1, <1>3, <2>2 DEF DeleteRelation, RelationEvent, ReconcileIsDue
    <2>3. CASE RelationFails
      BY <1>3, <2>3 DEF RelationFails
    <2> QED  BY <2>1, <2>2, <2>3
  <1> QED  BY <1>2, <1>3

LEMMA StepAttends ==
  ASSUME AttendInv, [Next]_vars
  PROVE  ConnIsDue'
  <1> USE DEF AttendInv
  <1>1. CASE StoreStep \/ ServiceStep \/ TargetStep
    <2>1. UNCHANGED <<conns, relations, connQ, cpc, about, running>>
      BY <1>1 DEF StoreStep, SetTarget, ServiceUpdated, WatchEnds, Hears, TargetEvent, ServiceEvent,
                  ServiceStep, ServiceGet, CreateServiceEntity,
                  CreateServiceRelation, ServiceFails, TargetStep, TargetGet,
                  TargetConnect, TargetConnectFails, TargetDisconnect,
                  storeVars, managerVars, queueVars, localVars, connVars
    <2> QED  BY <2>1, NothingMoves
  <1>2. CASE Crash
    BY <1>2 DEF Crash, ConnIsDue
  <1>3. CASE Restart
    BY <1>3 DEF Restart, StoppedIsEmpty, ConnIsDue, Attended, storeVars,
                managerVars
  <1>4. CASE \E c \in ConnIDs : ConnUp(c) \/ ConnDown(c)
    BY <1>4, UpAndDownAttend
  <1>5. CASE \E c \in ConnIDs : ConnGet(c)
    BY <1>5, GetAttends
  <1>6. CASE CreateRelation \/ DeleteRelation \/ RelationFails
    BY <1>6, ReconcileAttends
  <1>7. CASE UNCHANGED vars
    BY <1>7, NothingMoves DEF vars, storeVars, managerVars, queueVars, localVars,
                              connVars
  <1> QED  BY <1>1, <1>2, <1>3, <1>4, <1>5, <1>6, <1>7, NextInGroups

LEMMA AttendInvariant == Spec => []AttendInv
  <1>1. Init => AttendInv
    BY InitialTypes DEF Init, AttendInv, ConnIsDue, ReconcileIsDue,
                        StoppedIsEmpty
  <1>2. AttendInv /\ [Next]_vars => AttendInv'
    BY StepTypes, StepStopped, StepDue, StepAttends DEF AttendInv
  <1> QED  BY <1>1, <1>2, PTL DEF Spec

-----------------------------------------------------------------------------

\* The variables of the controllers keep their types, and only connections that
\* are up are being closed (pkg/controller/service, target, connection).
THEOREM ControlTypeCorrect == Spec => []TypeOK
  <1>1. AttendInv => TypeOK
    BY DEF AttendInv
  <1> QED  BY <1>1, AttendInvariant, PTL

\* Store and manager disagree on a connection only while the connection
\* controller is to look at it (connection/controller.go:50-116), for any number
\* of connections, whatever is lost, found, added, removed, refused by the store
\* or restarted in the meantime.
LEMMA ConnsAreDue == Spec => []ConnIsDue
  <1>1. AttendInv => ConnIsDue
    BY DEF AttendInv
  <1> QED  BY <1>1, AttendInvariant, PTL
-----------------------------------------------------------------------------
(* The service controller finishes what it has begun.                      *)

\* The relation to the target is created after the service entity, which
\* nobody removes.
EntityFirst == spc = "relation" => service

ServiceInv == ServiceIsDue /\ EntityFirst

\* A step that touches none of what the service controller is about.
LEMMA ServiceFrame ==
  ASSUME ServiceInv,
         UNCHANGED <<endpoint, service, controls, running, deaf, serviceQ, spc>>
  PROVE  ServiceInv'
  BY DEF ServiceInv, ServiceIsDue, EntityFirst

LEMMA ServiceStepDue ==
  ASSUME TypeOK, ServiceInv, ServiceStep
  PROVE  ServiceInv'
  <1> USE DEF TypeOK, ServiceInv, ServiceIsDue, EntityFirst
  <1>1. CASE ServiceGet
    BY <1>1 DEF ServiceGet, storeVars
  <1>2. CASE CreateServiceEntity
    <2>1. CASE ~ service
      BY <1>2, <2>1 DEF CreateServiceEntity, ServiceEvent, Hears
    <2>2. CASE service
      BY <1>2, <2>2 DEF CreateServiceEntity
    <2> QED  BY <2>1, <2>2
  <1>3. CASE CreateServiceRelation
    BY <1>3 DEF CreateServiceRelation
  <1>4. CASE ServiceFails
    BY <1>4 DEF ServiceFails, storeVars
  <1> QED  BY <1>1, <1>2, <1>3, <1>4 DEF ServiceStep

LEMMA ServiceInductive ==
  ASSUME TypeOK, ServiceInv, [Next]_vars
  PROVE  ServiceInv'
  <1>1. CASE StoreStep
    <2> USE DEF ServiceInv, ServiceIsDue, EntityFirst, localVars
    <2>1. ASSUME NEW e \in Endpoints \cup {NoEndpoint}, SetTarget(e)
          PROVE  ServiceInv'
      BY <2>1 DEF SetTarget, TargetEvent, Hears
    <2>2. CASE ServiceUpdated
      BY <2>2 DEF ServiceUpdated, ServiceEvent, Hears, storeVars
    <2>3. ASSUME NEW w \in StoreWatchers, WatchEnds(w)
          PROVE  ServiceInv'
      BY <2>3 DEF WatchEnds, storeVars, queueVars
    <2> QED  BY <1>1, <2>1, <2>2, <2>3 DEF StoreStep
  <1>2. CASE Crash
    BY <1>2 DEF Crash, ServiceInv, ServiceIsDue, EntityFirst
  <1>3. CASE Restart
    BY <1>3 DEF Restart, ServiceInv, ServiceIsDue, EntityFirst, storeVars, localVars
  <1>4. CASE ServiceStep
    BY <1>4, ServiceStepDue
  <1>5. CASE TargetStep
    BY <1>5, ServiceFrame DEF TargetStep, TargetGet, TargetConnect,
             TargetConnectFails, TargetDisconnect, storeVars, queueVars
  <1>6. CASE \E c \in ConnIDs : ConnUp(c) \/ ConnDown(c) \/ ConnGet(c)
    BY <1>6, ServiceFrame DEF ConnUp, ConnDown, ConnGet, ConnEvent, storeVars,
             localVars
  <1>7. CASE CreateRelation \/ DeleteRelation \/ RelationFails
    BY <1>7, ServiceFrame DEF CreateRelation, DeleteRelation, RelationFails,
             RelationEvent, storeVars, queueVars
  <1>8. CASE UNCHANGED vars
    BY <1>8, ServiceFrame DEF vars, storeVars, queueVars, localVars
  <1> QED  BY <1>1, <1>2, <1>3, <1>4, <1>5, <1>6, <1>7, <1>8, NextInGroups

\* A target lacks its service entity, or the relation to it, only while the
\* service controller is to look at it (service/controller.go:133-163),
\* whatever the store refuses and whenever the process restarts.
LEMMA ServicesAreDue == Spec => []ServiceIsDue
  <1>1. Init => ServiceInv
    BY DEF Init, ServiceInv, ServiceIsDue, EntityFirst
  <1>2. AttendInv /\ ServiceInv /\ [Next]_vars => ServiceInv'
    BY ServiceInductive DEF AttendInv
  <1>3. ServiceInv => ServiceIsDue
    BY DEF ServiceInv
  <1> QED  BY <1>1, <1>2, <1>3, AttendInvariant, PTL DEF Spec

\* What the connection controller and the service controller are there to put
\* right is always in their queues or their hands (connection/controller.go:50-116,
\* service/controller.go:133-163), for any number of connections, whatever the
\* store refuses and whenever the process restarts.
THEOREM NothingIsForgotten == Spec => []NothingForgotten
  BY ConnsAreDue, ServicesAreDue, PTL DEF NothingForgotten

-----------------------------------------------------------------------------
(* A target that is kept is dialed, or to be dialed.                       *)

\* The target has not been removed from under its service entity.
InPlace == service => endpoint # NoEndpoint

\* The target controller has been told of a service entity that it has not
\* acted on ...
Told == running /\ service /\ "target" \notin deaf

\* ... also when it has not found the target and is about to disconnect; and it
\* connects to a target that it has found.
DialDue ==
  /\ Told /\ dialed = NoEndpoint => targetQ \/ tpc = "connect"
  /\ Told /\ tpc = "disconnect" => targetQ
  /\ tpc = "connect" => read # NoEndpoint

\* A step that leaves the target controller, its client and its watch alone.
LEMMA DialFrame ==
  ASSUME DialDue, targetQ => targetQ',
         UNCHANGED <<service, running, deaf, dialed, tpc, read>>
  PROVE  DialDue'
  BY DEF DialDue, Told

LEMMA DialInductive ==
  ASSUME AttendInv, DialDue, InPlace, [Next]_vars
  PROVE  DialDue'
  <1> USE DEF AttendInv, TypeOK
  <1>1. CASE StoreStep
    <2>1. CASE (\E e \in Endpoints \cup {NoEndpoint} : SetTarget(e)) \/ ServiceUpdated
      BY <2>1, DialFrame DEF SetTarget, ServiceUpdated, TargetEvent, ServiceEvent,
               storeVars, managerVars, localVars, targetVars
    <2>2. ASSUME NEW w \in StoreWatchers, WatchEnds(w)
          PROVE  DialDue'
      BY <2>2 DEF WatchEnds, DialDue, Told, storeVars, managerVars, queueVars,
                  localVars, targetVars
    <2> QED  BY <1>1, <2>1, <2>2 DEF StoreStep
  <1>2. CASE Crash
    BY <1>2 DEF Crash, DialDue, Told
  <1>3. CASE Restart
    BY <1>3 DEF Restart, StoppedIsEmpty, DialDue, Told, storeVars, localVars,
                targetVars
  <1>4. CASE ServiceStep
    <2>1. CASE CreateServiceEntity /\ ~ service
      <3>1. targetQ' = (targetQ \/ Hears("target"))
        BY <2>1 DEF CreateServiceEntity, ServiceEvent
      <3>2. UNCHANGED <<running, deaf, tpc, read>>
        BY <2>1 DEF CreateServiceEntity, targetVars
      <3>3. Told' => targetQ'
        BY <3>1, <3>2 DEF Told, Hears
      <3> QED  BY <3>2, <3>3 DEF DialDue
    <2>2. CASE CreateServiceEntity /\ service
      BY <2>2, DialFrame DEF CreateServiceEntity, managerVars, queueVars, targetVars
    <2>3. CASE ServiceGet \/ CreateServiceRelation \/ ServiceFails
      BY <2>3, DialFrame DEF ServiceGet, CreateServiceRelation, ServiceFails,
               TargetEvent, storeVars, managerVars, queueVars, targetVars
    <2> QED  BY <1>4, <2>1, <2>2, <2>3 DEF ServiceStep
  <1>5. CASE TargetStep
    <2> USE DEF DialDue, Told, storeVars, queueVars
    <2>1. CASE TargetGet
      BY <2>1, NoEndpointAssumption DEF TargetGet, InPlace
    <2>2. CASE TargetConnect
      BY <2>2 DEF TargetConnect
    <2>3. CASE TargetConnectFails
      BY <2>3 DEF TargetConnectFails
    <2>4. CASE TargetDisconnect
      BY <2>4 DEF TargetDisconnect
    <2> QED  BY <1>5, <2>1, <2>2, <2>3, <2>4 DEF TargetStep
  <1>6. CASE \E c \in ConnIDs : ConnUp(c) \/ ConnDown(c) \/ ConnGet(c)
    BY <1>6, DialFrame DEF ConnUp, ConnDown, ConnGet, ConnEvent, storeVars,
             managerVars, localVars, targetVars
  <1>7. CASE CreateRelation \/ DeleteRelation \/ RelationFails
    BY <1>7, DialFrame DEF CreateRelation, DeleteRelation, RelationFails,
             RelationEvent, storeVars, managerVars, queueVars, targetVars
  <1>8. CASE UNCHANGED vars
    BY <1>8, DialFrame DEF vars, storeVars, managerVars, queueVars, localVars,
             targetVars
  <1> QED  BY <1>1, <1>2, <1>3, <1>4, <1>5, <1>6, <1>7, <1>8, NextInGroups

\* A target that has a service entity, and has not been removed since, is
\* without a client only while the target controller is to look at it or is
\* about to connect (target/controller.go:49-93), for any number of addresses,
\* and whichever other watches of the store end.
THEOREM DialsAreDue == Spec => DialIsDue
  <1> DEFINE Waits == running /\ service /\ "target" \notin deaf /\ dialed = NoEndpoint
                        => targetQ \/ tpc = "connect"
  <1>1. Init => DialDue
    BY DEF Init, DialDue, Told
  <1>2. AttendInv /\ InPlace /\ DialDue /\ [Next]_vars => DialDue'
    BY DialInductive
  <1>3. DialDue => Waits
    BY DEF DialDue, Told
  <1>4. InPlace <=> (service => endpoint # NoEndpoint)
    BY DEF InPlace
  <1> QED  BY <1>1, <1>2, <1>3, <1>4, AttendInvariant, PTL DEF Spec, DialIsDue, Kept
=============================================================================
