---------------------------- MODULE MastershipProofs ---------------------------
(***************************************************************************)
(* Proofs about the mastership election, for any number of controllers and *)
(* any number of reconnections.                                            *)
(***************************************************************************)
EXTENDS Mastership, TLAPS

\* The places of a reconcile that has found the recorded master gone.
Working == {"resign", "send", "recv", "stale", "update"}

-----------------------------------------------------------------------------
(* The inductive invariant.                                                *)

\* Where connections come from: a controller holds its latest one, creates
\* relations for its own ones only, and numbers are never ahead of the epoch.
Owned ==
  /\ \A n \in Controllers :
       /\ up[n] # NoConn => up[n] = <<n, epoch[n]>>
       /\ making[n] # NoConn => making[n][1] = n /\ making[n][2] <= epoch[n]
  /\ \A c \in relations : c[2] <= epoch[c[1]]

\* What a reconcile has listed, and what is recorded, once had its relation.
Listed ==
  /\ \A n \in Controllers : \A c \in local[n].mine : Known(c)
  /\ master # NoConn => Known(master)

\* A copy that is still current says who the master is.
FreshCopy ==
  \A n \in current : pc[n] = "list" => local[n].master = master

\* A reconcile that has found the master gone, and whose copy is still current,
\* is right: the master has not come back.
DeadMaster ==
  \A n \in current : pc[n] \in Working => master \notin relations

ElectionInv == Owned /\ Listed /\ FreshCopy /\ DeadMaster

-----------------------------------------------------------------------------
(* Type correctness.                                                       *)

\* No connection is the empty connection ID.
LEMMA ConnIsNotNone == NoConn \notin Conns
  BY NoConnAssumption DEF Conns

LEMMA NoLocalType == NoLocal \in Local
  BY DEF NoLocal, Local

LEMMA MessageType ==
  ASSUME NEW i \in Nat, NEW s \in {"OK", "ALREADY_EXISTS", "NOT_FOUND"}
  PROVE  [status |-> s, id |-> i] \in Message
  BY DEF Message

LEMMA PacketType == Packet \in Message /\ Packet.id = 0
  BY DEF Message, Packet

LEMMA AppendType ==
  ASSUME NEW q \in Seq(Message), NEW m \in Message
  PROVE  Append(q, m) \in Seq(Message)
  OBVIOUS

LEMMA TypeInit == ASSUME Init PROVE TypeOK
  BY NoLocalType DEF Init, TypeOK, ReconcilePC

\* The end of a reconcile.
LEMMA TypeEnds ==
  ASSUME TypeOK, NEW n \in Controllers, Return(n) \/ Retry(n)
  PROVE  /\ pc' \in [Controllers -> ReconcilePC]
         /\ local' \in [Controllers -> Local]
         /\ pending' \in [Controllers -> BOOLEAN]
         /\ deaf' \in SUBSET Exposed
  <1>1. /\ pc' = [pc EXCEPT ![n] = "idle"]
        /\ local' = [local EXCEPT ![n] = NoLocal]
        /\ pending' \in {pending, [pending EXCEPT ![n] = TRUE]}
        /\ deaf' = deaf
    BY DEF Return, Retry, Ends, Goto, queueVars
  <1>2. pc' \in [Controllers -> ReconcilePC]
    BY <1>1 DEF ReconcilePC, TypeOK
  <1>3. local' \in [Controllers -> Local]
    BY <1>1, NoLocalType DEF TypeOK
  <1>4. pending' \in [Controllers -> BOOLEAN]
    BY <1>1 DEF TypeOK
  <1>q. QED BY <1>1, <1>2, <1>3, <1>4 DEF TypeOK

\* The messages the device sends when a stream is gone.
LEMMA TypeAfterLeave ==
  ASSUME TypeOK, NEW n \in Controllers
  PROVE  AfterLeave(n) \in [Controllers -> Seq(Message)]
  <1>1. ASSUME NEW m \in Controllers
        PROVE  Append(inbox[m], [status |-> "NOT_FOUND", id |-> top])
                 \in Seq(Message)
    <2>1. [status |-> "NOT_FOUND", id |-> top] \in Message
      BY MessageType DEF TypeOK
    <2>2. inbox[m] \in Seq(Message)
      BY DEF TypeOK
    <2>q. QED BY <2>1, <2>2, AppendType
  <1>q. QED BY <1>1 DEF AfterLeave, TypeOK

LEMMA TypeArbitrate ==
  ASSUME TypeOK, NEW n \in Controllers, Arbitrate(n)
  PROVE  TypeOK'
  <1> USE DEF TypeOK
  <1> DEFINE id == Head(requests[n])
  <1>1. id \in Nat /\ Tail(requests[n]) \in Seq(Nat)
    BY DEF Arbitrate
  <1> HIDE DEF id
  <1>2. UNCHANGED <<storeVars, linkVars, queueVars, localVars>>
    BY DEF Arbitrate
  <1>3. CASE Reject(n, id)
    <2>1. inbox' \in [Controllers -> Seq(Message)]
      BY <1>3, TypeAfterLeave DEF Reject
    <2>2. /\ stream' \in [Controllers -> {"none", "open", "invalid", "lost"}]
          /\ requests' \in [Controllers -> Seq(Nat)]
          /\ eid' \in [Controllers -> Nat]
          /\ top' \in Nat
      BY <1>3 DEF Reject
    <2>q. QED BY <1>2, <2>1, <2>2 DEF storeVars, linkVars, queueVars, localVars
  <1>4. CASE Accept(n, id)
    <2>1. ASSUME NEW m \in Controllers, NEW i \in Nat,
                 NEW s \in {"OK", "ALREADY_EXISTS", "NOT_FOUND"}
          PROVE  Append(inbox[m], [status |-> s, id |-> i]) \in Seq(Message)
      <3>1. [status |-> s, id |-> i] \in Message
        BY MessageType
      <3>q. QED BY <3>1, AppendType
    <2>2. inbox' \in [Controllers -> Seq(Message)]
      <3>1. CASE id >= top
        <4>1. \A m \in Controllers :
                /\ Append(inbox[m], [status |-> "OK", id |-> id]) \in Seq(Message)
                /\ Append(inbox[m], [status |-> "ALREADY_EXISTS", id |-> id]) \in Seq(Message)
          BY <1>1, <2>1
        <4>q. QED BY <1>4, <3>1, <4>1 DEF Accept
      <3>2. CASE ~ (id >= top)
        <4>1. /\ Append(inbox[n], [status |-> "NOT_FOUND", id |-> top]) \in Seq(Message)
              /\ Append(inbox[n], [status |-> "ALREADY_EXISTS", id |-> top]) \in Seq(Message)
          BY <2>1
        <4>2. \/ inbox' = [inbox EXCEPT ![n] = Append(@, [status |-> "NOT_FOUND", id |-> top])]
              \/ inbox' = [inbox EXCEPT ![n] = Append(@, [status |-> "ALREADY_EXISTS", id |-> top])]
          BY <1>4, <3>2 DEF Accept
        <4>q. QED BY <4>1, <4>2
      <3>q. QED BY <3>1, <3>2
    <2>3. /\ eid' \in [Controllers -> Nat]
          /\ requests' \in [Controllers -> Seq(Nat)]
          /\ stream' \in [Controllers -> {"none", "open", "invalid", "lost"}]
          /\ top' \in Nat
      <3>1. requests' = [requests EXCEPT ![n] = Tail(@)]
        BY <1>4 DEF Accept
      <3>2. requests' \in [Controllers -> Seq(Nat)]
        BY <1>1, <3>1
      <3>q. QED BY <1>1, <1>4, <3>2 DEF Accept
    <2>q. QED BY <1>2, <2>2, <2>3 DEF storeVars, linkVars, queueVars, localVars
  <1>q. QED BY <1>3, <1>4 DEF Arbitrate, id

LEMMA TypeLink ==
  ASSUME TypeOK, NEW n \in Controllers, StreamBreaks(n) \/ Withdraw(n) \/ LinkUp(n)
  PROVE  TypeOK'
  <1> USE DEF TypeOK
  <1>1. CASE StreamBreaks(n)
    BY <1>1, TypeAfterLeave DEF StreamBreaks, Leave, storeVars, linkVars, queueVars, localVars
  <1>3. CASE Withdraw(n)
    BY <1>3 DEF Withdraw, storeVars, deviceVars, streamVars, queueVars, localVars
  <1>2. CASE LinkUp(n)
    <2>1. <<n, epoch[n] + 1>> \in Conns
      <3>1. epoch[n] \in Nat /\ Epochs[n] \in Nat /\ epoch[n] < Epochs[n]
        BY <1>2, EpochAssumption DEF LinkUp
      <3>q. QED BY <3>1 DEF Conns
    <2>2. pc' \in [Controllers -> ReconcilePC]
      BY <1>2 DEF LinkUp, Goto, ReconcilePC
    <2>3. /\ epoch' \in [Controllers -> Nat]
          /\ up' \in [Controllers -> Conns \cup {NoConn}]
          /\ stream' \in [Controllers -> {"none", "open", "invalid", "lost"}]
          /\ inbox' \in [Controllers -> Seq(Message)]
      BY <1>2, <2>1 DEF LinkUp
    <2>q. QED BY <1>2, <2>2, <2>3 DEF LinkUp, storeVars, deviceVars, queueVars
  <1>q. QED BY <1>1, <1>2, <1>3

LEMMA TypeRelation ==
  ASSUME TypeOK, NEW n \in Controllers, ReconcileRelation(n)
  PROVE  TypeOK'
  <1> USE DEF TypeOK, storeVars, linkVars, deviceVars, streamVars, queueVars, localVars
  <1>1. CASE FindConn(n)       BY <1>1 DEF FindConn
  <1>2. CASE CreateRelation(n) BY <1>2 DEF CreateRelation, Notify
  <1>3. CASE DeleteRelation(n) BY <1>3 DEF DeleteRelation, Notify
  <1>q. QED BY <1>1, <1>2, <1>3 DEF ReconcileRelation

\* An update of the service entity.
LEMMA TypeStore ==
  ASSUME TypeOK, NEW n \in Controllers, NEW c \in Conns \cup {NoConn}, NEW t \in Nat,
         Store(n, c, t)
  PROVE  /\ master' \in Conns \cup {NoConn} /\ term' \in Nat
         /\ current' \in SUBSET Controllers
         /\ pc' \in [Controllers -> ReconcilePC]
         /\ local' \in [Controllers -> Local]
         /\ pending' \in [Controllers -> BOOLEAN]
         /\ deaf' \in SUBSET Exposed
  <1>1. CASE Current(n)
    <2>1. /\ master' = c /\ term' = t /\ current' = {}
          /\ pc' = [pc EXCEPT ![n] = "idle"]
          /\ local' = [local EXCEPT ![n] = NoLocal]
          /\ pending' = [m \in Controllers |-> pending[m] \/ m \notin deaf]
          /\ deaf' = deaf
      BY <1>1 DEF Store, Ends, Goto, Notify
    <2>2. pc' \in [Controllers -> ReconcilePC]
      BY <2>1 DEF ReconcilePC, TypeOK
    <2>3. local' \in [Controllers -> Local]
      BY <2>1, NoLocalType DEF TypeOK
    <2>4. pending' \in [Controllers -> BOOLEAN]
      BY <2>1 DEF TypeOK
    <2>q. QED BY <2>1, <2>2, <2>3, <2>4 DEF TypeOK
  <1>2. CASE ~ Current(n)
    <2>1. Return(n) /\ UNCHANGED <<master, term, current>>
      BY <1>2 DEF Store
    <2>q. QED BY <2>1, TypeEnds DEF TypeOK
  <1>q. QED BY <1>1, <1>2

\* A panic.
LEMMA TypePanic ==
  ASSUME TypeOK, NEW n \in Controllers, Panic(n)
  PROVE  TypeOK'
  <1> USE DEF TypeOK, storeVars
  <1>1. /\ pc' = [pc EXCEPT ![n] = "crashed"]
        /\ local' = [local EXCEPT ![n] = NoLocal]
        /\ inbox' = [AfterLeave(n) EXCEPT ![n] = <<>>]
        /\ making' = [making EXCEPT ![n] = NoConn]
        /\ deaf' = deaf \ {n}
    BY DEF Panic, Goto
  <1>2. inbox' \in [Controllers -> Seq(Message)]
    BY <1>1, TypeAfterLeave
  <1>3. /\ pc' \in [Controllers -> ReconcilePC]
        /\ local' \in [Controllers -> Local]
        /\ making' \in [Controllers -> Conns \cup {NoConn}]
    BY <1>1, NoLocalType DEF ReconcilePC
  <1>q. QED BY <1>1, <1>2, <1>3 DEF Panic, Leave

LEMMA TypeReconcile ==
  ASSUME TypeOK, NEW n \in Controllers, Reconcile(n)
  PROVE  TypeOK'
  <1> USE DEF TypeOK, storeVars, linkVars, deviceVars, streamVars, queueVars, localVars
  <1>1. CASE ReadService(n)
    <2>1. pc' \in [Controllers -> ReconcilePC]
      BY <1>1 DEF ReadService, Goto, ReconcilePC
    <2>2. local' \in [Controllers -> Local]
      <3>1. [local[n] EXCEPT !.master = master, !.term = term] \in Local
        BY DEF Local
      <3>2. local' = [local EXCEPT ![n] = [@ EXCEPT !.master = master, !.term = term]]
        BY <1>1 DEF ReadService
      <3>q. QED BY <3>1, <3>2
    <2>q. QED BY <1>1, <2>1, <2>2 DEF ReadService
  <1>2. CASE ListRelations(n)
    <2>1. CASE Return(n)
      BY <1>2, <2>1, TypeEnds DEF ListRelations
    <2>2. CASE ~ Return(n)
      <3>1. local' = [local EXCEPT ![n] = [@ EXCEPT !.mine = {c \in relations : c[1] = n}]]
        BY <1>2, <2>2 DEF ListRelations
      <3>2. [local[n] EXCEPT !.mine = {c \in relations : c[1] = n}] \in Local
        BY DEF Local
      <3>3. local' \in [Controllers -> Local]
        BY <3>1, <3>2
      <3>4. pc' \in [Controllers -> ReconcilePC] /\ UNCHANGED queueVars
        BY <1>2, <2>2 DEF ListRelations, Goto, ReconcilePC
      <3>q. QED BY <1>2, <3>3, <3>4 DEF ListRelations
    <2>q. QED BY <2>1, <2>2
  <1>3. CASE Resign(n)
    <2>1. local[n].term \in Nat
      BY DEF Local
    <2>q. QED BY <1>3, <2>1, TypeStore DEF Resign
  <1>4. CASE Send(n)
    <2>1. CASE pc' = [pc EXCEPT ![n] = "recv"] /\ UNCHANGED <<queueVars, local>>
      <3>1. requests' \in [Controllers -> Seq(Nat)]
        <4>1. local[n].term + 1 \in Nat
          BY DEF Local
        <4>2. requests' = [requests EXCEPT ![n] = Append(@, local[n].term + 1)] \/ UNCHANGED requests
          BY <1>4 DEF Send
        <4>3. Append(requests[n], local[n].term + 1) \in Seq(Nat)
          BY <4>1
        <4>q. QED BY <4>2, <4>3
      <3>q. QED BY <1>4, <2>1, <3>1 DEF Send, ReconcilePC
    <2>2. CASE (Return(n) \/ Retry(n)) /\ UNCHANGED requests
      BY <1>4, <2>2, TypeEnds DEF Send
    <2>q. QED BY <1>4, <2>1, <2>2 DEF Send, Goto
  <1>5. CASE Recv(n)
    <2>1. /\ Head(inbox[n]) \in Message
          /\ Tail(inbox[n]) \in Seq(Message)
      BY <1>5 DEF Recv
    <2>2. inbox' \in [Controllers -> Seq(Message)]
      BY <1>5, <2>1 DEF Recv
    <2>3. CASE Return(n) \/ Retry(n)
      BY <1>5, <2>2, <2>3, TypeEnds DEF Recv
    <2>4. CASE ~ (Return(n) \/ Retry(n))
      <3>1. /\ local' = [local EXCEPT ![n] = [@ EXCEPT !.answer = Head(inbox[n]).id]]
            /\ pc' = [pc EXCEPT ![n] = "update"]
            /\ UNCHANGED queueVars
        BY <1>5, <2>4 DEF Recv, Goto
      <3>2. Head(inbox[n]).id \in Nat
        BY <2>1 DEF Message
      <3>3. [local[n] EXCEPT !.answer = Head(inbox[n]).id] \in Local
        BY <3>2 DEF Local
      <3>q. QED BY <1>5, <2>2, <3>1, <3>3 DEF Recv, ReconcilePC
    <2>q. QED BY <2>3, <2>4
  <1>6. CASE RecvInvalid(n)
    BY <1>6, TypeEnds, TypePanic DEF RecvInvalid
  <1>7. CASE RecvLost(n)
    BY <1>7, TypeEnds, TypePanic DEF RecvLost
  <1>9. CASE RecvPacket(n)
    BY <1>9, TypePanic DEF RecvPacket
  <1>8. CASE Update(n)
    <2>1. PICK c \in local[n].mine : Store(n, c, local[n].answer)
      BY <1>8 DEF Update
    <2>2. c \in Conns /\ local[n].answer \in Nat
      BY <2>1 DEF Local
    <2>q. QED BY <1>8, <2>1, <2>2, TypeStore DEF Update
  <1>q. QED
    BY <1>1, <1>2, <1>3, <1>4, <1>5, <1>6, <1>7, <1>8, <1>9 DEF Reconcile

LEMMA TypeStep == ASSUME TypeOK, [Next]_vars PROVE TypeOK'
  <1> USE DEF TypeOK
  <1>1. ASSUME NEW n \in Controllers, PacketIn(n) PROVE TypeOK'
    <2>1. Tail(inbox[n]) \in Seq(Message)
      BY <1>1 DEF PacketIn
    <2>q. QED BY <1>1, <2>1 DEF PacketIn, storeVars, linkVars, deviceVars, queueVars, localVars
  <1>2. ASSUME NEW n \in Controllers, Restart(n) PROVE TypeOK'
    BY <1>2, TypeEnds DEF Restart, storeVars, linkVars, deviceVars, streamVars
  <1>4. ASSUME NEW n \in Controllers, SendPacket(n) PROVE TypeOK'
    <2>1. inbox' \in [Controllers -> Seq(Message)]
      <3>1. Append(inbox[n], Packet) \in Seq(Message)
        BY PacketType, AppendType
      <3>q. QED BY <1>4, <3>1 DEF SendPacket
    <2>q. QED BY <1>4, <2>1 DEF SendPacket, storeVars, linkVars, deviceVars, queueVars, localVars
  <1>5. ASSUME NEW n \in Controllers, WatchEnds(n) PROVE TypeOK'
    BY <1>5 DEF WatchEnds, storeVars, linkVars, deviceVars, streamVars, localVars
  <1>6. ASSUME NEW n \in Controllers, EntityAbsent(n) PROVE TypeOK'
    <2>1. /\ pc' = [pc EXCEPT ![n] = "absent"]
          /\ local' = [local EXCEPT ![n] = NoLocal]
          /\ UNCHANGED <<storeVars, linkVars, deviceVars, streamVars, queueVars>>
      BY <1>6 DEF EntityAbsent, Goto
    <2>2. pc' \in [Controllers -> ReconcilePC] /\ local' \in [Controllers -> Local]
      BY <2>1, NoLocalType DEF ReconcilePC
    <2>q. QED BY <2>1, <2>2 DEF storeVars, linkVars, deviceVars, streamVars, queueVars
  <1>7. ASSUME NEW n \in Controllers, StoreFails(n) PROVE TypeOK'
    <2>1. CASE Retry(n) /\ UNCHANGED <<storeVars, linkVars, deviceVars, streamVars>>
      BY <2>1, TypeEnds DEF storeVars, linkVars, deviceVars, streamVars
    <2>q. QED BY <1>7, <2>1, TypePanic DEF StoreFails
  <1>3. CASE UNCHANGED vars
    BY <1>3 DEF vars, storeVars, linkVars, deviceVars, streamVars, queueVars, localVars
  <1>q. QED
    BY <1>1, <1>2, <1>3, <1>4, <1>5, <1>6, <1>7,
       TypeArbitrate, TypeLink, TypeRelation, TypeReconcile DEF Next, Environment

\* The variables of the election keep their types, with any number of controllers
\* and reconnections (mastership/controller.go:48-230).
THEOREM ElectionTypeCorrect == Spec => []TypeOK
  BY TypeInit, TypeStep, PTL DEF Spec

-----------------------------------------------------------------------------
(* A living master stays.                                                  *)

\* What a controller's process holds: it is all that Owned and Known look at.
LEMMA ElectionFrame ==
  ASSUME ElectionInv, UNCHANGED <<storeVars, linkVars>>,
         \A n \in Controllers :
           /\ local'[n].mine \in {local[n].mine, {}}
           /\ pc'[n] = "list" => pc[n] = "list" /\ local'[n].master = local[n].master
           /\ pc'[n] \in Working => pc[n] \in Working,
         current \subseteq Controllers
  PROVE  ElectionInv'
  BY DEF ElectionInv, Owned, Listed, Known, FreshCopy, DeadMaster, storeVars, linkVars

\* A connection that is known stays known: numbers are not used twice.
LEMMA KnownStays ==
  ASSUME TypeOK, Owned, NEW n \in Controllers, NEW c \in Conns, Known(c),
         Withdraw(n) \/ LinkUp(n) \/ ReconcileRelation(n) \/ Panic(n)
  PROVE  Known(c)'
  <1> USE DEF Known, Owned
  <1>1. c[1] \in Controllers /\ c[2] \in Nat /\ c = <<c[1], c[2]>> /\ c # NoConn
    BY ConnIsNotNone DEF Conns
  <1>2. CASE Withdraw(n)
    BY <1>1, <1>2 DEF Withdraw, storeVars, TypeOK
  <1>3. CASE LinkUp(n)
    BY <1>1, <1>3 DEF LinkUp, storeVars, TypeOK
  <1>4. CASE FindConn(n)
    BY <1>1, <1>4 DEF FindConn, storeVars, TypeOK
  <1>5. CASE CreateRelation(n)
    BY <1>1, <1>5 DEF CreateRelation, TypeOK
  <1>6. CASE DeleteRelation(n)
    BY <1>1, <1>6 DEF DeleteRelation, linkVars, TypeOK
  <1>7. CASE Panic(n)
    BY <1>1, <1>7 DEF Panic, Leave, storeVars, TypeOK
  <1>q. QED BY <1>2, <1>3, <1>4, <1>5, <1>6, <1>7 DEF ReconcileRelation

LEMMA OwnedStays ==
  ASSUME TypeOK, Owned, NEW n \in Controllers,
         Withdraw(n) \/ LinkUp(n) \/ ReconcileRelation(n) \/ Panic(n)
  PROVE  Owned'
  <1> USE DEF Owned
  <1>1. \A c \in Conns : c[1] \in Controllers /\ c[2] \in Nat /\ c # NoConn
    BY ConnIsNotNone DEF Conns
  <1>2. CASE Withdraw(n)
    BY <1>1, <1>2 DEF Withdraw, storeVars, TypeOK
  <1>3. CASE LinkUp(n)
    BY <1>1, <1>3 DEF LinkUp, storeVars, TypeOK
  <1>4. CASE FindConn(n)
    BY <1>1, <1>4 DEF FindConn, storeVars, TypeOK
  <1>5. CASE CreateRelation(n)
    BY <1>1, <1>5 DEF CreateRelation, TypeOK
  <1>6. CASE DeleteRelation(n)
    BY <1>1, <1>6 DEF DeleteRelation, linkVars, TypeOK
  <1>7. CASE Panic(n)
    BY <1>1, <1>7 DEF Panic, Leave, storeVars, TypeOK
  <1>q. QED BY <1>2, <1>3, <1>4, <1>5, <1>6, <1>7 DEF ReconcileRelation

\* A known connection without a relation does not get one.
LEMMA NoReturn ==
  ASSUME TypeOK, Owned, NEW n \in Controllers, NEW c \in Conns, Known(c),
         c \notin relations,
         Withdraw(n) \/ LinkUp(n) \/ ReconcileRelation(n) \/ Panic(n)
  PROVE  c \notin relations'
  <1>1. CASE UNCHANGED relations
    BY <1>1
  <1>2. CASE CreateRelation(n)
    <2>1. making[n] # c
      BY <1>2 DEF Known, Owned, CreateRelation
    <2>q. QED BY <1>2, <2>1 DEF CreateRelation
  <1>3. CASE DeleteRelation(n)
    BY <1>3 DEF DeleteRelation
  <1>q. QED
    BY <1>1, <1>2, <1>3
       DEF ReconcileRelation, Withdraw, LinkUp, FindConn, Panic, storeVars

\* Connections and relations come and go, controllers panic.
LEMMA ElectionEnvironment ==
  ASSUME TypeOK, ElectionInv, NEW n \in Controllers,
         Withdraw(n) \/ LinkUp(n) \/ ReconcileRelation(n) \/ Panic(n)
  PROVE  ElectionInv'
  <1>1. /\ UNCHANGED <<master, current>>
        /\ \A m \in Controllers :
             /\ local'[m].mine \in {local[m].mine, {}}
             /\ pc'[m] = "list" => pc[m] = "list" /\ local'[m].master = local[m].master
             /\ pc'[m] \in Working => pc[m] \in Working
    <2> USE DEF TypeOK, storeVars, localVars, Goto, Working
    <2>1. CASE Withdraw(n) BY <2>1 DEF Withdraw
    <2>2. CASE LinkUp(n)   BY <2>2 DEF LinkUp
    <2>3. CASE ReconcileRelation(n)
      BY <2>3 DEF ReconcileRelation, FindConn, CreateRelation, DeleteRelation
    <2>4. CASE Panic(n)    BY <2>4 DEF Panic, NoLocal
    <2>q. QED BY <2>1, <2>2, <2>3, <2>4
  <1>2. \A m \in Controllers : local[m].mine \subseteq Conns
    BY DEF TypeOK, Local
  <1>3. Listed'
    <2>1. ASSUME NEW m \in Controllers, NEW c \in local'[m].mine PROVE Known(c)'
      <3>1. c \in local[m].mine
        BY <1>1, <2>1
      <3>q. QED BY <1>2, <3>1, KnownStays DEF ElectionInv, Listed
    <2>2. master' # NoConn => Known(master)'
      BY <1>1, KnownStays DEF ElectionInv, Listed, TypeOK
    <2>q. QED BY <2>1, <2>2 DEF Listed
  <1>4. FreshCopy'
    BY <1>1 DEF ElectionInv, FreshCopy, TypeOK
  <1>5. DeadMaster'
    <2>1. ASSUME NEW m \in current, pc[m] \in Working PROVE master \notin relations'
      <3>1. master \notin relations
        BY <2>1 DEF ElectionInv, DeadMaster
      <3>2. CASE master = NoConn
        <4>1. relations' \subseteq Conns
          BY TypeLink, TypeRelation, TypePanic DEF TypeOK
        <4>q. QED BY <3>2, <4>1, ConnIsNotNone
      <3>3. CASE master # NoConn
        BY <3>1, <3>3, NoReturn DEF ElectionInv, Listed, TypeOK
      <3>q. QED BY <3>2, <3>3
    <2>q. QED BY <1>1, <2>1 DEF DeadMaster, TypeOK
  <1>q. QED BY <1>3, <1>4, <1>5, OwnedStays DEF ElectionInv

\* What the end of a reconcile leaves.
LEMMA EndsFrame ==
  ASSUME TypeOK, NEW n \in Controllers, Ends(n)
  PROVE  \A m \in Controllers :
           /\ local'[m].mine \in {local[m].mine, {}}
           /\ pc'[m] = "list" => pc[m] = "list" /\ local'[m].master = local[m].master
           /\ pc'[m] \in Working => pc[m] \in Working
  BY DEF Ends, Goto, NoLocal, Working, TypeOK

LEMMA ReadKeeps ==
  ASSUME TypeOK, ElectionInv, NEW n \in Controllers, ReadService(n)
  PROVE  ElectionInv'
  <1>1. /\ local' = [local EXCEPT ![n] = [@ EXCEPT !.master = master, !.term = term]]
        /\ pc' = [pc EXCEPT ![n] = "list"]
        /\ current' = current \cup {n}
        /\ UNCHANGED <<master, relations, linkVars>>
    BY DEF ReadService, Goto
  <1>2. /\ local'[n].master = master
        /\ \A m \in Controllers :
             /\ local'[m].mine = local[m].mine
             /\ m # n => local'[m] = local[m] /\ pc'[m] = pc[m]
        /\ pc'[n] = "list"
    BY <1>1 DEF TypeOK, Local
  <1>3. Owned' /\ Listed'
    BY <1>1, <1>2 DEF ElectionInv, Owned, Listed, Known, linkVars
  <1>4. FreshCopy' /\ DeadMaster'
    BY <1>1, <1>2 DEF ElectionInv, FreshCopy, DeadMaster, Working, TypeOK
  <1>q. QED BY <1>3, <1>4 DEF ElectionInv

\* The list is read after the service entity: if the copy is still current, the
\* master that is missing from the list is the recorded one.
LEMMA ListKeeps ==
  ASSUME TypeOK, ElectionInv, NEW n \in Controllers, ListRelations(n)
  PROVE  ElectionInv'
  <1>1. CASE Return(n)
    BY <1>1, EndsFrame, ElectionFrame DEF ListRelations, Return, TypeOK
  <1>2. CASE ~ Return(n)
    <2>1. /\ local[n].master \notin relations
          /\ local' = [local EXCEPT ![n] = [@ EXCEPT !.mine = {c \in relations : c[1] = n}]]
          /\ \/ pc' = [pc EXCEPT ![n] = "resign"]
             \/ pc' = [pc EXCEPT ![n] = "send"]
          /\ pc[n] = "list"
          /\ UNCHANGED <<storeVars, linkVars>>
      BY <1>2 DEF ListRelations, Goto
    <2>2. /\ local'[n].mine \subseteq relations
          /\ \A m \in Controllers \ {n} : local'[m] = local[m] /\ pc'[m] = pc[m]
          /\ pc'[n] \in {"resign", "send"}
      BY <2>1 DEF TypeOK, Local
    <2>3. Owned' /\ Listed'
      BY <2>1, <2>2 DEF ElectionInv, Owned, Listed, Known, storeVars, linkVars
    <2>4. FreshCopy'
      BY <2>1, <2>2 DEF ElectionInv, FreshCopy, storeVars, TypeOK
    <2>5. DeadMaster'
      BY <2>1, <2>2 DEF ElectionInv, FreshCopy, DeadMaster, storeVars, TypeOK
    <2>q. QED BY <2>3, <2>4, <2>5 DEF ElectionInv
  <1>q. QED BY <1>1, <1>2

\* What a reconcile that has found the master gone stores.
LEMMA StoreKeeps ==
  ASSUME TypeOK, ElectionInv, NEW n \in Controllers, NEW c, NEW t,
         c # NoConn => Known(c),
         Store(n, c, t), UNCHANGED <<relations, linkVars>>
  PROVE  ElectionInv'
  <1>1. CASE Current(n)
    <2>1. /\ master' = c
          /\ current' = {}
          /\ \A m \in Controllers : local'[m].mine \in {local[m].mine, {}}
      BY <1>1, EndsFrame DEF Store
    <2>2. Owned' /\ Listed'
      BY <2>1 DEF ElectionInv, Owned, Listed, Known, linkVars
    <2>q. QED BY <2>1, <2>2 DEF ElectionInv, FreshCopy, DeadMaster
  <1>2. CASE ~ Current(n)
    BY <1>2, EndsFrame, ElectionFrame DEF Store, Return, TypeOK, storeVars
  <1>q. QED BY <1>1, <1>2

LEMMA ReconcileKeeps ==
  ASSUME TypeOK, ElectionInv, NEW n \in Controllers, Reconcile(n)
  PROVE  ElectionInv'
  <1>1. CASE Resign(n)
    BY <1>1, StoreKeeps DEF Resign
  <1>2. CASE Update(n)
    <2>1. PICK c \in local[n].mine : Store(n, c, local[n].answer)
      BY <1>2 DEF Update
    <2>2. Known(c)
      BY <2>1 DEF ElectionInv, Listed
    <2>q. QED BY <1>2, <2>1, <2>2, StoreKeeps DEF Update
  <1>3. CASE Send(n) \/ Recv(n)
    <2>1. UNCHANGED <<storeVars, linkVars>>
      BY <1>3 DEF Send, Recv
    <2>2. pc[n] \in Working
      BY <1>3 DEF Send, Recv, Working
    <2>3. \/ Ends(n)
          \/ pc' = [pc EXCEPT ![n] = "recv"] /\ local' = local
          \/ /\ pc' = [pc EXCEPT ![n] = "update"]
             /\ \E i : local' = [local EXCEPT ![n] = [@ EXCEPT !.answer = i]]
      BY <1>3 DEF Send, Recv, Return, Retry, Goto
    <2>4. CASE Ends(n)
      BY <2>1, <2>4, EndsFrame, ElectionFrame DEF TypeOK
    <2>5. CASE pc' = [pc EXCEPT ![n] = "recv"] /\ local' = local
      BY <2>1, <2>2, <2>5, ElectionFrame DEF TypeOK, Working
    <2>6. ASSUME NEW i, local' = [local EXCEPT ![n] = [@ EXCEPT !.answer = i]],
                 pc' = [pc EXCEPT ![n] = "update"]
          PROVE  ElectionInv'
      <3>1. \A m \in Controllers : local'[m].mine = local[m].mine
                                  /\ local'[m].master = local[m].master
        BY <2>6 DEF TypeOK, Local
      <3>2. \A m \in Controllers : /\ pc'[m] = "list" => pc[m] = "list"
                                   /\ pc'[m] \in Working => pc[m] \in Working
        BY <2>2, <2>6 DEF TypeOK
      <3>q. QED BY <2>1, <3>1, <3>2, ElectionFrame DEF TypeOK
    <2>q. QED BY <2>3, <2>4, <2>5, <2>6
  <1>4. CASE RecvInvalid(n) \/ RecvLost(n) \/ RecvPacket(n)
    <2>1. CASE (Return(n) \/ Retry(n)) /\ UNCHANGED <<storeVars, linkVars>>
      BY <2>1, EndsFrame, ElectionFrame DEF Return, Retry, TypeOK
    <2>q. QED BY <1>4, <2>1, ElectionEnvironment DEF RecvInvalid, RecvLost, RecvPacket
  <1>q. QED
    BY <1>1, <1>2, <1>3, <1>4, ReadKeeps, ListKeeps DEF Reconcile

LEMMA ElectionStep == ASSUME TypeOK, ElectionInv, [Next]_vars PROVE ElectionInv'
  <1>1. ASSUME NEW n \in Controllers,
               Arbitrate(n) \/ SendPacket(n) \/ StreamBreaks(n) \/ PacketIn(n) \/ WatchEnds(n)
        PROVE  ElectionInv'
    BY <1>1, ElectionFrame
       DEF Arbitrate, SendPacket, StreamBreaks, PacketIn, WatchEnds, localVars, TypeOK
  <1>4. ASSUME NEW n \in Controllers, EntityAbsent(n) PROVE ElectionInv'
    <2>1. \A m \in Controllers :
            /\ local'[m].mine \in {local[m].mine, {}}
            /\ pc'[m] = "list" => pc[m] = "list" /\ local'[m].master = local[m].master
            /\ pc'[m] \in Working => pc[m] \in Working
      BY <1>4 DEF EntityAbsent, Goto, NoLocal, Working, TypeOK
    <2>q. QED BY <1>4, <2>1, ElectionFrame DEF EntityAbsent, TypeOK
  <1>5. ASSUME NEW n \in Controllers, StoreFails(n) PROVE ElectionInv'
    <2>1. CASE Retry(n) /\ UNCHANGED <<storeVars, linkVars>>
      BY <2>1, EndsFrame, ElectionFrame DEF Retry, TypeOK
    <2>q. QED BY <1>5, <2>1, ElectionEnvironment DEF StoreFails
  <1>2. ASSUME NEW n \in Controllers, Restart(n) PROVE ElectionInv'
    BY <1>2, EndsFrame, ElectionFrame DEF Restart, Retry, TypeOK
  <1>3. CASE UNCHANGED vars
    BY <1>3, ElectionFrame DEF vars, localVars, TypeOK
  <1>q. QED
    BY <1>1, <1>2, <1>3, <1>4, <1>5, ElectionEnvironment, ReconcileKeeps DEF Next, Environment

LEMMA ElectionInvariant == Spec => [](TypeOK /\ ElectionInv)
  <1>1. Init => TypeOK /\ ElectionInv
    BY TypeInit
       DEF Init, ElectionInv, Owned, Listed, Known, FreshCopy, DeadMaster, NoLocal
  <1>q. QED BY <1>1, TypeStep, ElectionStep, PTL DEF Spec

\* A step that deposes a master or changes its term finds it without a relation.
LEMMA LiveMasterStep ==
  ASSUME TypeOK, ElectionInv, [Next]_vars, master \in relations
  PROVE  UNCHANGED <<master, term>>
  <1>1. ASSUME NEW n \in Controllers, NEW c, NEW t, pc[n] \in Working, Store(n, c, t)
        PROVE  UNCHANGED <<master, term>>
    BY <1>1 DEF Store, Current, ElectionInv, DeadMaster
  <1>2. ASSUME NEW n \in Controllers, Resign(n) PROVE UNCHANGED <<master, term>>
    BY <1>1, <1>2 DEF Resign, Working
  <1>3. ASSUME NEW n \in Controllers, Update(n) PROVE UNCHANGED <<master, term>>
    BY <1>1, <1>3 DEF Update, Working
  <1>4. CASE UNCHANGED <<master, term>>
    BY <1>4
  <1>q. QED
    BY <1>2, <1>3, <1>4
       DEF Next, Environment, vars, Arbitrate, StreamBreaks, Withdraw, LinkUp, WatchEnds,
           ReconcileRelation, FindConn, CreateRelation, DeleteRelation, Reconcile,
           ReadService, ListRelations, EntityAbsent, StoreFails, Send, Recv, RecvInvalid,
           RecvLost, RecvPacket, Panic, SendPacket, PacketIn, Restart, storeVars

\* mastership/controller.go:125-148, 192-208: a recorded master whose connection relation
\* is in the store is never deposed and its term never changed, by any number of
\* controllers that reconcile, panic and reconnect at the same time.
THEOREM LiveMasterIsKept == Spec => LiveMasterKept
  <1>1. TypeOK /\ ElectionInv /\ [Next]_vars
          => [(master \in relations) => (master' = master /\ term' = term)]_vars
    BY LiveMasterStep
  <1>q. QED BY <1>1, ElectionInvariant, PTL DEF LiveMasterKept, Spec

\* Every step keeps what is known of a connection, and brings none back.
LEMMA KnownStep ==
  ASSUME TypeOK, Owned, [Next]_vars, NEW c \in Conns, Known(c)
  PROVE  Known(c)' /\ (c \notin relations => c \notin relations')
  <1>1. CASE UNCHANGED <<relations, linkVars>>
    BY <1>1 DEF Known, linkVars
  <1>2. ASSUME NEW n \in Controllers,
               Withdraw(n) \/ LinkUp(n) \/ ReconcileRelation(n) \/ Panic(n)
        PROVE  Known(c)' /\ (c \notin relations => c \notin relations')
    BY <1>2, KnownStays, NoReturn
  <1>q. QED
    BY <1>1, <1>2
       DEF Next, Environment, vars, Arbitrate, StreamBreaks, WatchEnds, Reconcile,
           ReadService, ListRelations, EntityAbsent, StoreFails, Resign, Update, Send, Recv,
           RecvInvalid, RecvLost, RecvPacket, SendPacket, PacketIn, Restart, storeVars

-----------------------------------------------------------------------------
(* The term never runs ahead of the device.                                *)

\* The messages of a queue name election ids not above t.
Upto(q, t) == \A i \in 1 .. Len(q) : q[i].id <= t

\* Nothing that travels from the device to the service entity is above the
\* highest election id the device has seen.
GrantInv ==
  /\ TermGranted
  /\ \A n \in Controllers :
       /\ local[n].term <= top
       /\ local[n].answer <= top
       /\ Upto(inbox[n], top)

LEMMA UptoAppend ==
  ASSUME NEW q \in Seq(Message), NEW m \in Message, NEW t \in Nat, Upto(q, t), m.id <= t
  PROVE  Upto(Append(q, m), t)
  BY DEF Upto

LEMMA UptoTail ==
  ASSUME NEW q \in Seq(Message), NEW t \in Nat, Upto(q, t), q # <<>>
  PROVE  Upto(Tail(q), t) /\ Head(q).id <= t
  BY DEF Upto

LEMMA UptoGrows ==
  ASSUME NEW q \in Seq(Message), NEW t \in Nat, NEW u \in Nat, Upto(q, t), t <= u
  PROVE  Upto(q, u)
  <1>1. \A i \in 1 .. Len(q) : q[i].id \in Nat
    <2>1. ASSUME NEW i \in 1 .. Len(q) PROVE q[i] \in Message
      OBVIOUS
    <2>q. QED BY <2>1 DEF Message
  <1>q. QED BY <1>1 DEF Upto

LEMMA UptoAfterLeave ==
  ASSUME TypeOK, GrantInv, NEW n \in Controllers, NEW m \in Controllers
  PROVE  Upto(AfterLeave(n)[m], top)
  <1>1. /\ inbox[m] \in Seq(Message) /\ top \in Nat
        /\ [status |-> "NOT_FOUND", id |-> top] \in Message
    BY MessageType DEF TypeOK
  <1>2. Upto(Append(inbox[m], [status |-> "NOT_FOUND", id |-> top]), top)
    BY <1>1, UptoAppend DEF GrantInv
  <1>q. QED BY <1>2 DEF AfterLeave, GrantInv

\* The device answers with election ids it has just seen.
LEMMA GrantArbitrate ==
  ASSUME TypeOK, GrantInv, NEW n \in Controllers, Arbitrate(n)
  PROVE  GrantInv'
  <1> DEFINE id == Head(requests[n])
  <1>1. id \in Nat
    BY DEF Arbitrate, TypeOK
  <1> HIDE DEF id
  <1>2. UNCHANGED <<term, local>>
    BY DEF Arbitrate, storeVars, localVars
  <1>3. CASE Reject(n, id)
    BY <1>2, <1>3, UptoAfterLeave DEF Reject, GrantInv, TermGranted, TypeOK
  <1>4. CASE Accept(n, id)
    <2>1. /\ top' \in Nat /\ top <= top'
          /\ \A m \in Controllers :
               \/ inbox'[m] = inbox[m]
               \/ \E s \in {"OK", "ALREADY_EXISTS", "NOT_FOUND"} :
                    inbox'[m] = Append(inbox[m], [status |-> s, id |-> top'])
      <3>1. CASE id >= top
        BY <1>1, <1>4, <3>1 DEF Accept, TypeOK
      <3>2. CASE ~ (id >= top)
        <4>1. top' = top
          BY <1>4, <3>2 DEF Accept
        <4>2. \/ inbox' = [inbox EXCEPT ![n] = Append(@, [status |-> "NOT_FOUND", id |-> top])]
              \/ inbox' = [inbox EXCEPT ![n] = Append(@, [status |-> "ALREADY_EXISTS", id |-> top])]
          BY <1>4, <3>2 DEF Accept
        <4>q. QED BY <4>1, <4>2 DEF TypeOK
      <3>q. QED BY <3>1, <3>2
    <2>2. ASSUME NEW m \in Controllers PROVE Upto(inbox'[m], top')
      <3>1. inbox[m] \in Seq(Message) /\ top \in Nat
        BY DEF TypeOK
      <3>2. Upto(inbox[m], top')
        BY <2>1, <3>1, UptoGrows DEF GrantInv
      <3>3. ASSUME NEW s \in {"OK", "ALREADY_EXISTS", "NOT_FOUND"}
            PROVE  Upto(Append(inbox[m], [status |-> s, id |-> top']), top')
        <4>1. [status |-> s, id |-> top'] \in Message
          BY <2>1, MessageType
        <4>q. QED BY <2>1, <3>1, <3>2, <4>1, UptoAppend
      <3>q. QED BY <2>1, <3>2, <3>3
    <2>3. \A m \in Controllers : local[m].term \in Nat /\ local[m].answer \in Nat
      BY DEF TypeOK, Local
    <2>q. QED BY <1>2, <2>1, <2>2, <2>3 DEF GrantInv, TermGranted, TypeOK
  <1>q. QED BY <1>3, <1>4 DEF Arbitrate, id

\* Steps that only empty inboxes and local variables.
LEMMA GrantFrame ==
  ASSUME TypeOK, GrantInv, UNCHANGED <<term, top>>,
         \A n \in Controllers :
           /\ local'[n].term = local[n].term \/ local'[n].term = 0
           /\ local'[n].answer = local[n].answer \/ local'[n].answer = 0
           /\ \/ inbox'[n] = inbox[n]
              \/ inbox'[n] = <<>>
              \/ inbox'[n] = Tail(inbox[n]) /\ inbox[n] # <<>>
  PROVE  GrantInv'
  <1>1. ASSUME NEW n \in Controllers PROVE Upto(inbox'[n], top)
    <2>1. inbox[n] \in Seq(Message) /\ top \in Nat /\ Upto(<<>>, top)
      BY DEF TypeOK, Upto
    <2>q. QED BY <2>1, UptoTail DEF GrantInv
  <1>2. ASSUME NEW n \in Controllers
        PROVE  local'[n].term <= top /\ local'[n].answer <= top
    <2>1. local[n].term <= top /\ local[n].answer <= top /\ 0 <= top
      BY DEF GrantInv, TypeOK
    <2>2. /\ local'[n].term = local[n].term \/ local'[n].term = 0
          /\ local'[n].answer = local[n].answer \/ local'[n].answer = 0
      OBVIOUS
    <2>q. QED BY <2>1, <2>2
  <1>q. QED BY <1>1, <1>2 DEF GrantInv, TermGranted

LEMMA GrantEnds ==
  ASSUME TypeOK, GrantInv, NEW n \in Controllers, Ends(n), UNCHANGED <<term, top, inbox>>
  PROVE  GrantInv'
  <1>1. \A m \in Controllers :
          /\ local'[m].term = local[m].term \/ local'[m].term = 0
          /\ local'[m].answer = local[m].answer \/ local'[m].answer = 0
    BY DEF Ends, NoLocal, TypeOK
  <1>q. QED BY <1>1, GrantFrame

LEMMA GrantStore ==
  ASSUME TypeOK, GrantInv, NEW n \in Controllers, NEW c, NEW t \in Nat, t <= top,
         Store(n, c, t), UNCHANGED <<top, inbox>>
  PROVE  GrantInv'
  <1>1. CASE Current(n)
    <2>1. \A m \in Controllers :
            /\ local'[m].term = local[m].term \/ local'[m].term = 0
            /\ local'[m].answer = local[m].answer \/ local'[m].answer = 0
      <3>1. local' = [local EXCEPT ![n] = NoLocal]
        BY <1>1 DEF Store, Ends
      <3>q. QED BY <3>1 DEF NoLocal, TypeOK
    <2>2. ASSUME NEW m \in Controllers
          PROVE  local'[m].term <= top /\ local'[m].answer <= top
      <3>1. local[m].term <= top /\ local[m].answer <= top /\ 0 <= top
        BY DEF GrantInv, TypeOK
      <3>q. QED BY <2>1, <3>1
    <2>q. QED BY <1>1, <2>2 DEF GrantInv, TermGranted, Store
  <1>2. CASE ~ Current(n)
    BY <1>2, GrantEnds DEF Store, Return
  <1>q. QED BY <1>1, <1>2

\* A panic leaves nothing behind but notices of the device.
LEMMA GrantPanic ==
  ASSUME TypeOK, GrantInv, NEW n \in Controllers, Panic(n)
  PROVE  GrantInv'
  <1>1. /\ local' = [local EXCEPT ![n] = NoLocal]
        /\ inbox' = [AfterLeave(n) EXCEPT ![n] = <<>>]
        /\ UNCHANGED <<term, top>>
    BY DEF Panic, storeVars
  <1>2. ASSUME NEW m \in Controllers
        PROVE  /\ local'[m].term <= top /\ local'[m].answer <= top
               /\ Upto(inbox'[m], top)
    <2>1. Upto(AfterLeave(n)[m], top) /\ Upto(<<>>, top)
      BY UptoAfterLeave DEF Upto
    <2>2. inbox'[m] \in {AfterLeave(n)[m], <<>>}
      BY <1>1, TypeAfterLeave
    <2>3. local'[m] \in {local[m], NoLocal} /\ top \in Nat
      BY <1>1 DEF TypeOK
    <2>q. QED BY <2>1, <2>2, <2>3 DEF NoLocal, GrantInv
  <1>q. QED BY <1>1, <1>2 DEF GrantInv, TermGranted

LEMMA GrantReconcile ==
  ASSUME TypeOK, GrantInv, NEW n \in Controllers, Reconcile(n)
  PROVE  GrantInv'
  <1> USE DEF storeVars, linkVars, deviceVars, streamVars
  <1>0. local[n] \in Local /\ top \in Nat /\ inbox[n] \in Seq(Message)
    BY DEF TypeOK
  <1>1. CASE ReadService(n)
    <2>1. /\ local' = [local EXCEPT ![n] = [@ EXCEPT !.master = master, !.term = term]]
          /\ UNCHANGED <<term, top, inbox>>
      BY <1>1 DEF ReadService
    <2>2. \A m \in Controllers : /\ local'[m].term = local[m].term \/ local'[m].term = term
                                 /\ local'[m].answer = local[m].answer
      BY <2>1 DEF TypeOK, Local
    <2>q. QED BY <2>1, <2>2 DEF GrantInv, TermGranted
  <1>2. CASE ListRelations(n)
    <2>1. CASE Return(n)
      BY <1>2, <2>1, GrantEnds DEF ListRelations, Return
    <2>2. CASE ~ Return(n)
      <3>1. /\ local' = [local EXCEPT ![n] = [@ EXCEPT !.mine = {c \in relations : c[1] = n}]]
            /\ UNCHANGED <<term, top, inbox>>
        BY <1>2, <2>2 DEF ListRelations
      <3>2. \A m \in Controllers : /\ local'[m].term = local[m].term
                                   /\ local'[m].answer = local[m].answer
        BY <3>1 DEF TypeOK, Local
      <3>q. QED BY <3>1, <3>2, GrantFrame
    <2>q. QED BY <2>1, <2>2
  <1>3. CASE Resign(n)
    BY <1>0, <1>3, GrantStore DEF Resign, Local, GrantInv
  <1>4. CASE Update(n)
    BY <1>0, <1>4, GrantStore DEF Update, Local, GrantInv
  <1>5. CASE Send(n)
    <2>1. UNCHANGED <<term, top, inbox>> /\ (local' = local \/ Ends(n))
      BY <1>5 DEF Send, Return, Retry
    <2>q. QED BY <2>1, GrantEnds, GrantFrame
  <1>6. CASE Recv(n)
    <2>1. /\ inbox' = [inbox EXCEPT ![n] = Tail(@)] /\ inbox[n] # <<>>
          /\ UNCHANGED <<term, top>>
          /\ \/ Ends(n)
             \/ local' = [local EXCEPT ![n] = [@ EXCEPT !.answer = Head(inbox[n]).id]]
      BY <1>6 DEF Recv, Return, Retry
    <2>2. ASSUME NEW m \in Controllers
          PROVE  local'[m].term <= top /\ local'[m].answer <= top
      <3>1. Head(inbox[n]).id <= top
        BY <1>0, <2>1, UptoTail DEF GrantInv
      <3>2. CASE Ends(n)
        BY <3>2, <1>0 DEF Ends, NoLocal, GrantInv, TypeOK
      <3>3. CASE local' = [local EXCEPT ![n] = [@ EXCEPT !.answer = Head(inbox[n]).id]]
        BY <3>1, <3>3 DEF GrantInv, TypeOK, Local
      <3>q. QED BY <2>1, <3>2, <3>3
    <2>3. \A m \in Controllers : Upto(inbox'[m], top)
      BY <1>0, <2>1, UptoTail DEF GrantInv, TypeOK
    <2>q. QED BY <2>1, <2>2, <2>3 DEF GrantInv, TermGranted
  <1>8. CASE RecvInvalid(n) \/ RecvLost(n) \/ RecvPacket(n)
    <2>1. CASE (Return(n) \/ Retry(n)) /\ UNCHANGED <<storeVars, deviceVars, streamVars>>
      BY <2>1, GrantEnds DEF Return, Retry
    <2>q. QED BY <1>8, <2>1, GrantPanic DEF RecvInvalid, RecvLost, RecvPacket
  <1>q. QED
    BY <1>1, <1>2, <1>3, <1>4, <1>5, <1>6, <1>8 DEF Reconcile

LEMMA GrantInvariant == Spec => []GrantInv
  <1>1. Init => GrantInv
    BY DEF Init, GrantInv, TermGranted, NoLocal, Upto
  <1>2. TypeOK /\ GrantInv /\ [Next]_vars => GrantInv'
    <2> SUFFICES ASSUME TypeOK, GrantInv, [Next]_vars PROVE GrantInv'
      OBVIOUS
    <2> USE DEF storeVars, linkVars, deviceVars, streamVars, localVars
    <2>1. ASSUME NEW n \in Controllers, StreamBreaks(n) PROVE GrantInv'
      BY <2>1, UptoAfterLeave DEF StreamBreaks, GrantInv, TermGranted
    <2>8. ASSUME NEW n \in Controllers, Withdraw(n) \/ WatchEnds(n) PROVE GrantInv'
      BY <2>8, GrantFrame DEF Withdraw, WatchEnds
    <2>9. ASSUME NEW n \in Controllers, EntityAbsent(n) PROVE GrantInv'
      <3>1. \A m \in Controllers :
              /\ local'[m].term = local[m].term \/ local'[m].term = 0
              /\ local'[m].answer = local[m].answer \/ local'[m].answer = 0
        BY <2>9 DEF EntityAbsent, NoLocal, TypeOK
      <3>q. QED BY <2>9, <3>1, GrantFrame DEF EntityAbsent
    <2>10. ASSUME NEW n \in Controllers, StoreFails(n) PROVE GrantInv'
      BY <2>10, GrantEnds, GrantPanic DEF StoreFails, Retry
    <2>2. ASSUME NEW n \in Controllers, LinkUp(n) PROVE GrantInv'
      BY <2>2, GrantFrame DEF LinkUp, TypeOK
    <2>3. ASSUME NEW n \in Controllers, ReconcileRelation(n) PROVE GrantInv'
      BY <2>3, GrantFrame DEF ReconcileRelation, FindConn, CreateRelation, DeleteRelation
    <2>4. ASSUME NEW n \in Controllers, PacketIn(n) PROVE GrantInv'
      BY <2>4, GrantFrame DEF PacketIn, TypeOK
    <2>5. ASSUME NEW n \in Controllers, Restart(n) PROVE GrantInv'
      BY <2>5, GrantEnds DEF Restart, Retry
    <2>7. ASSUME NEW n \in Controllers, SendPacket(n) PROVE GrantInv'
      <3>1. /\ inbox[n] \in Seq(Message) /\ Packet \in Message
            /\ top \in Nat /\ Packet.id <= top
        BY PacketType DEF TypeOK
      <3>2. Upto(Append(inbox[n], Packet), top)
        BY <3>1, UptoAppend DEF GrantInv
      <3>q. QED BY <2>7, <3>2 DEF SendPacket, GrantInv, TermGranted, TypeOK
    <2>6. CASE UNCHANGED vars
      BY <2>6, GrantFrame DEF vars
    <2>q. QED
      BY <2>1, <2>2, <2>3, <2>4, <2>5, <2>6, <2>7, <2>8, <2>9, <2>10,
         GrantArbitrate, GrantReconcile DEF Next, Environment
  <1>q. QED BY <1>1, <1>2, ElectionTypeCorrect, PTL DEF Spec

\* mastership/controller.go:195-198: the term of the service entity is never
\* above the highest election id the device has seen, so that a device that
\* keeps its state can always answer the next request with an OK or name the
\* controller that is ahead.
THEOREM TermIsGranted == Spec => []TermGranted
  <1>1. GrantInv => TermGranted
    BY DEF GrantInv
  <1>q. QED BY <1>1, GrantInvariant, PTL

-----------------------------------------------------------------------------
(* No wake-up is lost.                                                     *)

\* A reconcile is under way.
Busy(n) == pc[n] \notin {"idle", "absent", "crashed"}

\* A reconcile that has been overtaken by an update will be followed by another,
\* if its controller still hears of updates.
Overtaken ==
  \A n \in Controllers : Busy(n) /\ n \notin current /\ n \notin deaf => pending[n]

\* A watch that has ended is not opened again but by another process.
LEMMA StaysDeaf ==
  ASSUME TypeOK, [Next]_vars, NEW m \in Controllers, m \in deaf
  PROVE  m \in deaf' \/ pc'[m] = "crashed"
  <1> USE DEF queueVars
  <1>1. CASE UNCHANGED deaf
    BY <1>1
  <1>2. ASSUME NEW n \in Controllers, Panic(n) PROVE m \in deaf' \/ pc'[m] = "crashed"
    BY <1>2 DEF Panic, Goto, TypeOK
  <1>3. ASSUME NEW n \in Controllers, WatchEnds(n) PROVE m \in deaf'
    BY <1>3 DEF WatchEnds
  <1>4. ASSUME NEW n \in Controllers, Resign(n) \/ Update(n) PROVE UNCHANGED deaf
    BY <1>4 DEF Resign, Update, Store, Return, Notify
  <1>5. ASSUME NEW n \in Controllers, Reconcile(n), ~ Panic(n) PROVE UNCHANGED deaf
    BY <1>4, <1>5 DEF Reconcile, ReadService, ListRelations, Send, Recv, RecvInvalid,
                      RecvLost, RecvPacket, Return, Retry
  <1>6. ASSUME NEW n \in Controllers, ReconcileRelation(n) PROVE UNCHANGED deaf
    BY <1>6 DEF ReconcileRelation, FindConn, CreateRelation, DeleteRelation, Notify
  <1>7. ASSUME NEW n \in Controllers, Environment(n), ~ Panic(n), ~ WatchEnds(n)
        PROVE  UNCHANGED deaf
    BY <1>7 DEF Environment, Arbitrate, SendPacket, StreamBreaks, Withdraw, LinkUp,
                EntityAbsent, StoreFails, PacketIn, Restart, Retry
  <1>q. QED BY <1>1, <1>2, <1>3, <1>5, <1>6, <1>7 DEF Next, vars

\* What a step does to the work queues: it fills those of all who listen, it takes
\* from one to read the service entity, or it takes from none and changes neither
\* the service entity nor the relations.
LEMMA WakeUps ==
  ASSUME TypeOK, [Next]_vars
  PROVE  \/ Notify
         \/ \E n \in Controllers : ReadService(n)
         \/ /\ UNCHANGED storeVars
            /\ \A m \in Controllers : pending[m] => pending'[m]
  <1> USE DEF storeVars, linkVars, deviceVars, streamVars, queueVars, localVars
  <1>0. ASSUME NEW n \in Controllers, Return(n) \/ Retry(n), UNCHANGED storeVars
        PROVE  /\ UNCHANGED storeVars
               /\ \A m \in Controllers : pending[m] => pending'[m]
    BY <1>0 DEF Return, Retry, TypeOK
  <1>1. ASSUME NEW n \in Controllers,
               Arbitrate(n) \/ SendPacket(n) \/ StreamBreaks(n) \/ Withdraw(n) \/ LinkUp(n)
                 \/ PacketIn(n) \/ WatchEnds(n) \/ EntityAbsent(n) \/ FindConn(n)
                 \/ Panic(n) \/ UNCHANGED vars
        PROVE  UNCHANGED storeVars /\ UNCHANGED pending
    BY <1>1 DEF Arbitrate, SendPacket, StreamBreaks, Withdraw, LinkUp, PacketIn, WatchEnds,
                EntityAbsent, FindConn, Panic, vars
  <1>2. ASSUME NEW n \in Controllers, CreateRelation(n) \/ DeleteRelation(n)
        PROVE  Notify
    BY <1>2 DEF CreateRelation, DeleteRelation
  <1>3. ASSUME NEW n \in Controllers, ListRelations(n) \/ Send(n)
        PROVE  /\ UNCHANGED storeVars
               /\ \A m \in Controllers : pending[m] => pending'[m]
    BY <1>0, <1>3 DEF ListRelations, Send
  <1>4. ASSUME NEW n \in Controllers, Resign(n) \/ Update(n)
        PROVE  \/ Notify
               \/ /\ UNCHANGED storeVars
                  /\ \A m \in Controllers : pending[m] => pending'[m]
    BY <1>0, <1>4 DEF Resign, Update, Store
  <1>5. ASSUME NEW n \in Controllers, Recv(n) \/ Restart(n)
        PROVE  /\ UNCHANGED storeVars
               /\ \A m \in Controllers : pending[m] => pending'[m]
    BY <1>0, <1>5 DEF Recv, Restart
  <1>6. ASSUME NEW n \in Controllers,
               RecvInvalid(n) \/ RecvLost(n) \/ RecvPacket(n) \/ StoreFails(n)
        PROVE  /\ UNCHANGED storeVars
               /\ \A m \in Controllers : pending[m] => pending'[m]
    BY <1>0, <1>1, <1>6 DEF RecvInvalid, RecvLost, RecvPacket, StoreFails
  <1>7. CASE UNCHANGED vars
    BY <1>7 DEF vars
  <1>q. QED
    BY <1>1, <1>2, <1>3, <1>4, <1>5, <1>6, <1>7
       DEF Next, Environment, Reconcile, ReconcileRelation

\* What a step does to one controller: it is a step of its reconcile, its process
\* is started again, it connects, an entity is missing, the store fails, or nothing
\* happens to its reconcile.
LEMMA Moves ==
  ASSUME TypeOK, [Next]_vars, NEW m \in Controllers
  PROVE  \/ Restart(m) \/ Reconcile(m)
         \/ LinkUp(m) \/ EntityAbsent(m) \/ StoreFails(m)
         \/ pc'[m] = pc[m] /\ local'[m] = local[m]
  <1> USE DEF storeVars, linkVars, deviceVars, streamVars, localVars, TypeOK
  <1>1. ASSUME NEW n \in Controllers,
               Arbitrate(n) \/ SendPacket(n) \/ StreamBreaks(n) \/ Withdraw(n) \/ PacketIn(n)
                 \/ WatchEnds(n) \/ ReconcileRelation(n) \/ UNCHANGED vars
        PROVE  UNCHANGED <<pc, local>>
    BY <1>1 DEF Arbitrate, SendPacket, StreamBreaks, Withdraw, PacketIn, WatchEnds,
                ReconcileRelation, FindConn, CreateRelation, DeleteRelation, vars
  <1>2. ASSUME NEW n \in Controllers \ {m}, LinkUp(n)
        PROVE  pc'[m] = pc[m] /\ local'[m] = local[m]
    BY <1>2 DEF LinkUp, Goto
  <1>3. ASSUME NEW n \in Controllers \ {m}, Reconcile(n) \/ Restart(n) \/ EntityAbsent(n) \/ StoreFails(n)
        PROVE  pc'[m] = pc[m] /\ local'[m] = local[m]
    <2> DEFINE Own == /\ \E l : pc' = [pc EXCEPT ![n] = l]
                      /\ local' = local \/ \E r : local' = [local EXCEPT ![n] = r]
    <2> USE DEF Return, Retry, Ends, Goto
    <2>1. ASSUME ReadService(n) \/ Send(n) PROVE Own
      BY <2>1 DEF ReadService, Send
    <2>2. ASSUME ListRelations(n) \/ Restart(n) PROVE Own
      BY <2>2 DEF ListRelations, Restart
    <2>3. ASSUME Resign(n) \/ Update(n) PROVE Own
      BY <2>3 DEF Resign, Update, Store
    <2>4. ASSUME Recv(n) \/ EntityAbsent(n) PROVE Own
      BY <2>4 DEF Recv, EntityAbsent
    <2>5. ASSUME RecvInvalid(n) \/ RecvLost(n) \/ RecvPacket(n) \/ StoreFails(n) PROVE Own
      BY <2>5 DEF RecvInvalid, RecvLost, RecvPacket, StoreFails, Panic
    <2>6. Own
      BY <1>3, <2>1, <2>2, <2>3, <2>4, <2>5 DEF Reconcile
    <2>q. QED BY <2>6
  <1>4. CASE UNCHANGED vars
    BY <1>4 DEF vars
  <1>q. QED BY <1>1, <1>2, <1>3, <1>4 DEF Next, Environment

\* A step of a reconcile takes nothing from the queue but to begin.
LEMMA OvertakenStep ==
  ASSUME TypeOK, Overtaken, [Next]_vars
  PROVE  Overtaken'
  <1>1. CASE Notify
    BY <1>1 DEF Notify, Overtaken
  <1>2. ASSUME NEW n \in Controllers, ReadService(n)
        PROVE  Overtaken'
    BY <1>2 DEF ReadService, Overtaken, Busy, Goto, TypeOK
  <1>3. CASE /\ UNCHANGED storeVars
             /\ \A m \in Controllers : pending[m] => pending'[m]
             /\ \A m \in Controllers : ~ ReadService(m)
    <2>1. ASSUME NEW m \in Controllers, Busy(m)'
          PROVE  Busy(m)
      <3>1. ~ Restart(m)
        BY <2>1 DEF Restart, Retry, Ends, Goto, Busy, TypeOK
      <3>3. LinkUp(m) => Busy(m)
        <4>1. CASE pc' = pc
          BY <2>1, <4>1 DEF Busy
        <4>2. CASE pc[m] = "recv"
          BY <4>2 DEF Busy
        <4>q. QED BY <4>1, <4>2 DEF LinkUp, localVars
      <3>4. ~ EntityAbsent(m) /\ ~ (StoreFails(m) /\ ~ Busy(m))
        BY <2>1 DEF EntityAbsent, StoreFails, Goto, Busy, TypeOK
      <3>2. Reconcile(m) => Busy(m)
        BY <1>3 DEF Reconcile, ListRelations, Resign, Update, Send, Recv, RecvInvalid,
                    RecvLost, RecvPacket, Busy
      <3>q. QED BY <2>1, <3>1, <3>2, <3>3, <3>4, Moves DEF Busy
    <2>2. ASSUME NEW m \in Controllers, Busy(m)', m \notin deaf' PROVE m \notin deaf
      BY <2>2, StaysDeaf DEF Busy
    <2>q. QED BY <1>3, <2>1, <2>2 DEF Overtaken, storeVars
  <1>q. QED BY <1>1, <1>2, <1>3, WakeUps

\* A reconcile that could resign the master goes on to do so, or is followed by
\* another: what it has read is still current, so that it has read this master.
LEMMA ResignStep ==
  ASSUME TypeOK, ElectionInv, Overtaken, ResignDue, [Next]_vars
  PROVE  ResignDue'
  <1>1. CASE Notify
    BY <1>1 DEF Notify, ResignDue, Attentive
  <1>2. ASSUME NEW n \in Controllers, ReadService(n)
        PROVE  ResignDue'
    BY <1>2 DEF ReadService, ResignDue, Attentive, Current, Goto, TypeOK
  <1>3. CASE /\ UNCHANGED storeVars
             /\ \A m \in Controllers : pending[m] => pending'[m]
    <2> SUFFICES ASSUME relations = {}, master # NoConn, NEW m \in Controllers,
                        Attentive(m)', ~ pending'[m], pc'[m] # "crashed"
                 PROVE  pc'[m] \in {"list", "resign"} /\ m \in current
      BY <1>3 DEF ResignDue, Current, storeVars
    <2>6. ~ pending[m] /\ m \notin deaf /\ pc'[m] # "absent"
      BY <1>3, StaysDeaf DEF Attentive
    <2>2. ~ Restart(m) /\ ~ EntityAbsent(m) /\ ~ StoreFails(m)
      BY <2>6 DEF Restart, EntityAbsent, StoreFails, Panic, Retry, Goto, TypeOK
    <2>7. pc[m] # "absent"
      <3>1. CASE Reconcile(m)
        BY <2>6, <3>1 DEF Reconcile, ReadService, ListRelations, Resign, Update, Send, Recv,
                          RecvInvalid, RecvLost, RecvPacket
      <3>2. CASE LinkUp(m)
        BY <2>6, <3>2 DEF LinkUp, localVars
      <3>q. QED BY <2>2, <2>6, <3>1, <3>2, Moves
    <2>1. pc[m] = "crashed" \/ (pc[m] \in {"list", "resign"} /\ m \in current)
      BY <2>6, <2>7 DEF ResignDue, Current, Attentive
    <2>5. LinkUp(m) => pc'[m] = pc[m]
      BY <2>1 DEF LinkUp, Goto
    <2>3. CASE ~ Reconcile(m)
      BY <2>1, <2>2, <2>3, <2>5, Moves
    <2>4. CASE Reconcile(m)
      <3>1. pc[m] \in {"list", "resign"} /\ m \in current
        BY <2>1, <2>4 DEF Reconcile, ReadService, ListRelations, Resign, Update, Send, Recv,
                          RecvInvalid, RecvLost, RecvPacket
      <3>2. CASE pc[m] = "list"
        <4>1. ListRelations(m)
          BY <2>4, <3>2 DEF Reconcile, ReadService, ListRelations, Resign, Update, Send,
                            Recv, RecvInvalid, RecvLost, RecvPacket
        <4>2. local[m].master = master
          BY <3>1, <3>2 DEF ElectionInv, FreshCopy
        <4>3. pc' = [pc EXCEPT ![m] = "resign"]
          BY <4>1, <4>2 DEF ListRelations, Goto
        <4>q. QED BY <3>1, <4>3 DEF TypeOK
      <3>3. CASE pc[m] = "resign"
        <4>1. Resign(m)
          BY <2>4, <3>3 DEF Reconcile, ReadService, ListRelations, Resign, Update, Send,
                            Recv, RecvInvalid, RecvLost, RecvPacket
        <4>2. Notify
          BY <3>1, <4>1 DEF Resign, Store, Current
        <4>q. QED BY <2>6, <4>2 DEF Notify
      <3>q. QED BY <3>1, <3>2, <3>3
    <2>q. QED BY <2>3, <2>4
  <1>q. QED BY <1>1, <1>2, <1>3, WakeUps

\* mastership/controller.go:47-148: once the last connection of the service is gone,
\* no controller that hears of changes and has found its entities forgets that the
\* master has to be resigned: it will reconcile, or it has read the service entity
\* that it needs to resign it, whatever watches end, entities are missing, stores
\* fail and processes panic.
THEOREM ResignIsDue == Spec => []ResignDue
  <1>1. Init => Overtaken /\ ResignDue
    BY DEF Init, Overtaken, ResignDue, Busy
  <1>2. TypeOK /\ ElectionInv /\ Overtaken /\ ResignDue /\ [Next]_vars
          => (Overtaken /\ ResignDue)'
    BY OvertakenStep, ResignStep
  <1>q. QED BY <1>1, <1>2, ElectionInvariant, PTL DEF Spec

-----------------------------------------------------------------------------
(* The only controller with a connection does not fall asleep.             *)

\* A controller that has never connected means nothing to the device.
Unconnected ==
  \A m \in Controllers :
    epoch[m] = 0 => eid[m] = 0 /\ requests[m] = <<>> /\ stream[m] = "none"

\* No notice of another primary.
NoRival(q) == \A i \in 1 .. Len(q) : q[i].status # "ALREADY_EXISTS"

\* Whoever is alone has found its own relations, hears of no other primary, and
\* has its service in the queue again when the relation of a new connection has
\* come while it was stuck in a receive on the old one, if it still hears of it.
SoleInv ==
  /\ Unconnected
  /\ \A n \in Controllers :
       /\ Alone(n) => NoRival(inbox[n])
       /\ Alone(n) /\ pc[n] \in Working \ {"resign"} => local[n].mine # {}
       /\ pc[n] = "stale" /\ up[n] \in relations /\ n \notin deaf => pending[n]
  /\ ElectionDue

LEMMA NoRivalAppend ==
  ASSUME NEW q \in Seq(Message), NEW m \in Message, NoRival(q), m.status # "ALREADY_EXISTS"
  PROVE  NoRival(Append(q, m))
  BY DEF NoRival

LEMMA NoRivalTail ==
  ASSUME NEW q \in Seq(Message), NoRival(q), q # <<>>
  PROVE  NoRival(Tail(q)) /\ Head(q).status # "ALREADY_EXISTS"
  BY DEF NoRival

\* Only a new connection gives a controller an open stream, and the number of
\* connections does not fall.
LEMMA Links ==
  ASSUME TypeOK, [Next]_vars, NEW m \in Controllers
  PROVE  /\ epoch'[m] >= epoch[m]
         /\ \/ LinkUp(m)
            \/ /\ up'[m] \in {up[m], NoConn}
               /\ stream'[m] = "open" => stream[m] = "open"
  <1> USE DEF storeVars, linkVars, deviceVars, streamVars, localVars, TypeOK
  <1>1. ASSUME NEW n \in Controllers, Arbitrate(n)
        PROVE  /\ UNCHANGED linkVars
               /\ stream'[m] = "open" => stream[m] = "open"
    BY <1>1 DEF Arbitrate, Reject, Accept
  <1>2. ASSUME NEW n \in Controllers,
               SendPacket(n) \/ PacketIn(n) \/ ReconcileRelation(n) \/ Restart(n)
                 \/ WatchEnds(n) \/ EntityAbsent(n)
        PROVE  UNCHANGED <<epoch, up, stream>>
    BY <1>2 DEF SendPacket, PacketIn, ReconcileRelation, FindConn, CreateRelation,
                DeleteRelation, Restart, WatchEnds, EntityAbsent
  <1>3. ASSUME NEW n \in Controllers, StreamBreaks(n) \/ Withdraw(n) \/ Panic(n)
        PROVE  /\ UNCHANGED epoch
               /\ up'[m] \in {up[m], NoConn}
               /\ stream'[m] = "open" => stream[m] = "open"
    BY <1>3 DEF StreamBreaks, Withdraw, Panic, Leave
  <1>4. ASSUME NEW n \in Controllers, LinkUp(n)
        PROVE  /\ epoch'[m] >= epoch[m]
               /\ n # m => up'[m] = up[m] /\ stream'[m] = stream[m]
    <2>1. epoch' = [epoch EXCEPT ![n] = @ + 1]
      BY <1>4 DEF LinkUp
    <2>2. epoch'[m] >= epoch[m]
      BY <2>1
    <2>q. QED BY <1>4, <2>2 DEF LinkUp
  <1>5. ASSUME NEW n \in Controllers, Reconcile(n) \/ StoreFails(n)
        PROVE  UNCHANGED <<epoch, up, stream>> \/ Panic(n)
    BY <1>5 DEF StoreFails, Reconcile, ReadService, ListRelations, Resign, Update, Send, Recv,
                RecvInvalid, RecvLost, RecvPacket
  <1>6. CASE UNCHANGED vars
    BY <1>6 DEF vars
  <1>7. epoch[m] \in Nat
    OBVIOUS
  <1>8. CASE UNCHANGED <<epoch, up, stream>>
    BY <1>7, <1>8
  <1>9. ASSUME NEW n \in Controllers, StreamBreaks(n) \/ Withdraw(n) \/ Panic(n)
        PROVE  /\ epoch'[m] >= epoch[m]
               /\ up'[m] \in {up[m], NoConn}
               /\ stream'[m] = "open" => stream[m] = "open"
    BY <1>3, <1>7, <1>9
  <1>q. QED BY <1>1, <1>2, <1>4, <1>5, <1>6, <1>7, <1>8, <1>9 DEF Next, Environment

LEMMA StaysAlone ==
  ASSUME TypeOK, [Next]_vars, NEW n \in Controllers, Alone(n)'
  PROVE  Alone(n)
  <1>1. ASSUME NEW m \in Controllers \ {n} PROVE epoch[m] = 0
    <2>1. epoch'[m] = 0 /\ epoch'[m] >= epoch[m] /\ epoch[m] \in Nat
      BY Links DEF Alone, TypeOK
    <2>q. QED BY <2>1
  <1>q. QED BY <1>1 DEF Alone

\* The relation of a new connection is still to come.
LEMMA NewIsUnrelated ==
  ASSUME TypeOK, Owned, NEW n \in Controllers, LinkUp(n)
  PROVE  up'[n] \notin relations'
  <1>1. up'[n] = <<n, epoch[n] + 1>> /\ relations' = relations
    BY DEF LinkUp, storeVars, TypeOK
  <1>2. <<n, epoch[n] + 1>> \notin relations
    BY DEF Owned, TypeOK
  <1>q. QED BY <1>1, <1>2

LEMMA UnconnectedStep ==
  ASSUME TypeOK, Unconnected, [Next]_vars
  PROVE  Unconnected'
  <1> USE DEF storeVars, linkVars, deviceVars, streamVars, localVars, TypeOK, Unconnected
  <1>1. ASSUME NEW n \in Controllers, Arbitrate(n) PROVE Unconnected'
    BY <1>1 DEF Arbitrate, Reject, Accept
  <1>2. ASSUME NEW n \in Controllers,
               SendPacket(n) \/ PacketIn(n) \/ ReconcileRelation(n) \/ Restart(n)
                 \/ Withdraw(n) \/ WatchEnds(n) \/ EntityAbsent(n)
        PROVE  Unconnected'
    BY <1>2 DEF SendPacket, PacketIn, ReconcileRelation, FindConn, CreateRelation,
                DeleteRelation, Restart, Withdraw, WatchEnds, EntityAbsent
  <1>3. ASSUME NEW n \in Controllers, StreamBreaks(n) \/ Panic(n) PROVE Unconnected'
    BY <1>3 DEF StreamBreaks, Panic, Leave
  <1>4. ASSUME NEW n \in Controllers, LinkUp(n) PROVE Unconnected'
    <2>1. /\ epoch' = [epoch EXCEPT ![n] = @ + 1] /\ epoch[n] \in Nat
          /\ stream' = [stream EXCEPT ![n] = "open"]
          /\ UNCHANGED <<eid, requests>>
      BY <1>4 DEF LinkUp
    <2>q. QED BY <2>1
  <1>5. ASSUME NEW n \in Controllers, Send(n) PROVE Unconnected'
    BY <1>5 DEF Send
  <1>6. ASSUME NEW n \in Controllers, Reconcile(n) \/ StoreFails(n), ~ Send(n) PROVE Unconnected'
    <2>1. UNCHANGED <<epoch, eid, requests, stream>> \/ Panic(n)
      BY <1>6 DEF StoreFails, Reconcile, ReadService, ListRelations, Resign, Update, Recv,
                  RecvInvalid, RecvLost, RecvPacket
    <2>q. QED BY <1>3, <2>1
  <1>7. CASE UNCHANGED vars
    BY <1>7 DEF vars
  <1>q. QED BY <1>1, <1>2, <1>3, <1>4, <1>5, <1>6, <1>7 DEF Next, Environment

\* The device tells a controller that is alone of no other primary.
LEMMA HearsNoRival ==
  ASSUME TypeOK, Unconnected, [Next]_vars, NEW n \in Controllers,
         Alone(n), NoRival(inbox[n])
  PROVE  NoRival(inbox'[n])
  <1> USE DEF storeVars, linkVars, deviceVars, streamVars, localVars
  <1>0. /\ inbox \in [Controllers -> Seq(Message)] /\ inbox[n] \in Seq(Message)
        /\ top \in Nat /\ NoRival(<<>>)
    BY DEF TypeOK, NoRival
  <1>8. ASSUME NEW s \in {"OK", "NOT_FOUND"}, NEW i \in Nat
        PROVE  NoRival(Append(inbox[n], [status |-> s, id |-> i]))
    <2>1. [status |-> s, id |-> i] \in Message
      BY MessageType
    <2>q. QED BY <1>0, <2>1, NoRivalAppend
  <1>9. ASSUME NEW m \in Controllers PROVE NoRival(AfterLeave(m)[n])
    BY <1>0, <1>8 DEF AfterLeave
  <1>1. ASSUME NEW m \in Controllers, Arbitrate(m) PROVE NoRival(inbox'[n])
    <2> DEFINE id == Head(requests[m])
    <2>1. m = n
      BY <1>1 DEF Arbitrate, Unconnected, Alone
    <2>2. id \in Nat
      BY <1>1 DEF Arbitrate, TypeOK
    <2> HIDE DEF id
    <2>3. CASE Reject(m, id)
      BY <1>9, <2>3 DEF Reject
    <2>4. CASE Accept(m, id) /\ id >= top
      BY <1>0, <1>8, <2>1, <2>2, <2>4 DEF Accept
    <2>5. CASE Accept(m, id) /\ ~ (id >= top)
      <3>1. ~ \E k \in Controllers \ {n} : eid[k] = top
        BY <1>0, <2>2, <2>5 DEF Unconnected, Alone
      <3>2. inbox' = [inbox EXCEPT ![n] = Append(@, [status |-> "NOT_FOUND", id |-> top])]
        BY <2>1, <2>5, <3>1 DEF Accept
      <3>q. QED BY <1>0, <1>8, <3>2
    <2>q. QED BY <1>1, <2>3, <2>4, <2>5 DEF Arbitrate, id
  <1>2. ASSUME NEW m \in Controllers, SendPacket(m) PROVE NoRival(inbox'[n])
    <2>1. NoRival(Append(inbox[n], Packet))
      BY <1>0, PacketType, NoRivalAppend DEF Packet
    <2>q. QED BY <1>0, <1>2, <2>1 DEF SendPacket
  <1>3. ASSUME NEW m \in Controllers, PacketIn(m) \/ Recv(m) PROVE NoRival(inbox'[n])
    BY <1>0, <1>3, NoRivalTail DEF PacketIn, Recv
  <1>4. ASSUME NEW m \in Controllers, StreamBreaks(m) \/ LinkUp(m) PROVE NoRival(inbox'[n])
    BY <1>0, <1>4, <1>9 DEF StreamBreaks, LinkUp
  <1>5. ASSUME NEW m \in Controllers, Panic(m) PROVE NoRival(inbox'[n])
    <2>1. inbox'[n] \in {AfterLeave(m)[n], <<>>}
      BY <1>5, TypeAfterLeave DEF Panic
    <2>q. QED BY <1>0, <1>9, <2>1
  <1>6. ASSUME NEW m \in Controllers,
               ReconcileRelation(m) \/ Restart(m) \/ Withdraw(m) \/ WatchEnds(m)
                 \/ EntityAbsent(m)
        PROVE  NoRival(inbox'[n])
    BY <1>6 DEF ReconcileRelation, FindConn, CreateRelation, DeleteRelation, Restart,
                Withdraw, WatchEnds, EntityAbsent
  <1>7. ASSUME NEW m \in Controllers, Reconcile(m) \/ StoreFails(m), ~ Recv(m)
        PROVE  NoRival(inbox'[n])
    <2>1. UNCHANGED inbox \/ Panic(m)
      BY <1>7 DEF StoreFails, Reconcile, ReadService, ListRelations, Resign, Update, Send, RecvInvalid,
                  RecvLost, RecvPacket
    <2>q. QED BY <1>5, <2>1
  <1>10. CASE UNCHANGED vars
    BY <1>10 DEF vars
  <1>q. QED BY <1>1, <1>2, <1>3, <1>4, <1>6, <1>7, <1>10 DEF Next, Environment

\* Whoever is alone finds only its own relations.
LEMMA FindsItsOwn ==
  ASSUME TypeOK, Owned, [Next]_vars, NEW n \in Controllers, Alone(n),
         pc[n] \in Working \ {"resign"} => local[n].mine # {},
         pc'[n] \in Working \ {"resign"}
  PROVE  local'[n].mine # {}
  <1> USE DEF Working
  <1>1. CASE pc'[n] = pc[n] /\ local'[n] = local[n]
    BY <1>1
  <1>2. CASE LinkUp(n)
    <2>1. pc[n] \in Working \ {"resign"} /\ local' = local
      BY <1>2 DEF LinkUp, Goto
    <2>q. QED BY <2>1
  <1>3. ~ Restart(n) /\ ~ EntityAbsent(n) /\ ~ StoreFails(n)
    BY DEF Restart, EntityAbsent, StoreFails, Panic, Retry, Ends, Goto, TypeOK
  <1>4. CASE Reconcile(n)
    <2>1. ~ Ends(n) /\ ~ Panic(n)
      BY DEF Ends, Panic, Goto, TypeOK
    <2>2. ListRelations(n) \/ Send(n) \/ Recv(n)
      <3>1. ~ ReadService(n)
        BY DEF ReadService, Goto, TypeOK
      <3>q. QED BY <1>4, <2>1, <3>1
            DEF Reconcile, Resign, Update, Store, RecvInvalid, RecvLost, RecvPacket,
                Return, Retry
    <2>3. CASE ListRelations(n)
      <3>1. /\ local' = [local EXCEPT ![n] = [@ EXCEPT !.mine = {c \in relations : c[1] = n}]]
            /\ relations # {}
        <4>1. ~ Return(n)
          BY <2>1 DEF Return
        <4>2. relations = {} => pc'[n] = "resign"
          BY <2>3, <4>1 DEF ListRelations, Goto, TypeOK
        <4>q. QED BY <2>3, <4>1, <4>2 DEF ListRelations
      <3>2. PICK c \in relations : TRUE
        BY <3>1
      <3>3. c[1] = n
        <4>1. c[1] \in Controllers /\ c[2] \in Nat /\ 1 <= c[2]
          BY EpochAssumption DEF TypeOK, Conns
        <4>2. c[2] <= epoch[c[1]] /\ epoch[c[1]] \in Nat
          BY <4>1 DEF Owned, TypeOK
        <4>q. QED BY <4>1, <4>2 DEF Alone
      <3>4. local'[n].mine = {d \in relations : d[1] = n}
        BY <3>1 DEF TypeOK, Local
      <3>q. QED BY <3>3, <3>4
    <2>4. CASE Send(n)
      <3>1. pc[n] = "send" /\ local' = local
        BY <2>1, <2>4 DEF Send, Return, Retry
      <3>q. QED BY <3>1
    <2>5. CASE Recv(n)
      <3>1. /\ pc[n] = "recv"
            /\ \E i : local' = [local EXCEPT ![n] = [@ EXCEPT !.answer = i]]
        BY <2>1, <2>5 DEF Recv, Return, Retry
      <3>2. local'[n].mine = local[n].mine
        BY <3>1 DEF TypeOK, Local
      <3>q. QED BY <3>1, <3>2
    <2>q. QED BY <2>2, <2>3, <2>4, <2>5
  <1>q. QED BY <1>1, <1>2, <1>3, <1>4, Moves

\* The relation of the connection that has replaced the one a reconcile waits on
\* comes with a wake-up.
LEMMA ReplacedStep ==
  ASSUME TypeOK, Owned, [Next]_vars, NEW n \in Controllers,
         pc[n] = "stale" /\ up[n] \in relations /\ n \notin deaf => pending[n],
         pc'[n] = "stale", up'[n] \in relations', n \notin deaf'
  PROVE  pending'[n]
  <1>7. n \notin deaf
    BY StaysDeaf
  <1>1. CASE Notify
    BY <1>1, <1>7 DEF Notify
  <1>2. ~ LinkUp(n)
    BY NewIsUnrelated
  <1>8. ~ EntityAbsent(n) /\ ~ StoreFails(n)
    BY DEF EntityAbsent, StoreFails, Retry, Ends, Panic, Goto, TypeOK
  <1>3. ~ Restart(n) /\ ~ Reconcile(n)
    <2>1. ~ Ends(n) /\ ~ Panic(n) /\ ~ Goto(n, "recv") /\ ~ Goto(n, "update")
      BY DEF Ends, Panic, Goto, TypeOK
    <2>2. ~ Goto(n, "list") /\ ~ Goto(n, "resign") /\ ~ Goto(n, "send")
      BY DEF Goto, TypeOK
    <2>3. ~ Return(n) /\ ~ Retry(n)
      BY <2>1 DEF Return, Retry
    <2>4. ~ ReadService(n) /\ ~ ListRelations(n) /\ ~ Restart(n)
      BY <2>2, <2>3 DEF ReadService, ListRelations, Restart
    <2>5. ~ Resign(n) /\ ~ Update(n)
      BY <2>1, <2>3 DEF Resign, Update, Store
    <2>6. ~ Send(n) /\ ~ Recv(n) /\ ~ RecvInvalid(n) /\ ~ RecvLost(n) /\ ~ RecvPacket(n)
      BY <2>1, <2>3 DEF Send, Recv, RecvInvalid, RecvLost, RecvPacket
    <2>q. QED BY <2>4, <2>5, <2>6 DEF Reconcile
  <1>4. pc[n] = "stale"
    BY <1>2, <1>3, <1>8, Moves
  <1>5. up'[n] = up[n]
    <2>1. NoConn \notin relations'
      BY TypeStep, ConnIsNotNone DEF TypeOK
    <2>q. QED BY <1>2, <2>1, Links
  <1>6. ASSUME NEW m \in Controllers, ReadService(m)
        PROVE  pending'[n]
    <2>1. m # n /\ UNCHANGED relations
      BY <1>3, <1>6 DEF ReadService, Reconcile
    <2>q. QED BY <1>4, <1>5, <1>6, <1>7, <2>1 DEF ReadService, TypeOK
  <1>q. QED BY <1>1, <1>4, <1>5, <1>6, <1>7, WakeUps DEF storeVars

\* A reconcile of the only controller with a connection does not end without an
\* election and without another reconcile to come.
LEMMA SoleReconcile ==
  ASSUME TypeOK, ElectionInv, Overtaken, SoleInv, NEW n \in Controllers,
         Steady(n), Alone(n), n \notin deaf, master \notin relations,
         Reconcile(n), pc'[n] = "idle", ~ pending'[n], ~ pending[n]
  PROVE  FALSE
  <1>1. ~ Retry(n) /\ ~ Notify
    BY DEF Retry, Notify, TypeOK
  <1>2. /\ ~ Goto(n, "list") /\ ~ Goto(n, "resign") /\ ~ Goto(n, "send")
        /\ ~ Goto(n, "recv") /\ ~ Goto(n, "update") /\ ~ Panic(n)
    BY DEF Goto, Panic, TypeOK
  <1>3. n \in current \/ ~ Busy(n)
    BY DEF Overtaken
  <1>4. CASE ReadService(n)
    BY <1>2, <1>4 DEF ReadService
  <1>5. CASE ListRelations(n)
    <2>1. local[n].master \in relations
      BY <1>2, <1>5 DEF ListRelations, Steady
    <2>2. local[n].master = master
      BY <1>3, <1>5 DEF ListRelations, Busy, ElectionInv, FreshCopy
    <2>q. QED BY <2>1, <2>2
  <1>6. CASE Resign(n) \/ Update(n)
    <2>1. Current(n)
      BY <1>3, <1>6 DEF Resign, Update, Busy, Current
    <2>q. QED BY <1>1, <1>6, <2>1 DEF Resign, Update, Store
  <1>7. CASE Send(n)
    BY <1>2, <1>7 DEF Send, Steady
  <1>8. CASE Recv(n)
    <2>1. local[n].mine # {}
      BY <1>8 DEF Recv, SoleInv, Working
    <2>2. Head(inbox[n]).status # "ALREADY_EXISTS"
      BY <1>8, NoRivalTail DEF Recv, SoleInv, TypeOK
    <2>q. QED BY <1>1, <1>2, <1>8, <2>1, <2>2 DEF Recv
  <1>9. CASE RecvInvalid(n)
    BY <1>1, <1>2, <1>9 DEF RecvInvalid
  <1>10. CASE RecvLost(n) \/ RecvPacket(n)
    BY <1>2, <1>10 DEF RecvLost, RecvPacket, SoleInv, Steady
  <1>q. QED
    BY <1>4, <1>5, <1>6, <1>7, <1>8, <1>9, <1>10 DEF Reconcile

LEMMA DueStep ==
  ASSUME TypeOK, ElectionInv, Overtaken, SoleInv, [Next]_vars
  PROVE  ElectionDue'
  <1> SUFFICES ASSUME NEW n \in Controllers, Steady(n)', Alone(n)', Attentive(n)',
                      master' \notin relations', ~ pending'[n], pc'[n] = "idle"
               PROVE  FALSE
    BY DEF ElectionDue
  <1>10. n \notin deaf
    BY StaysDeaf DEF Attentive
  <1>1. ~ Notify
    BY <1>10 DEF Notify
  <1>2. ~ LinkUp(n)
    BY NewIsUnrelated DEF ElectionInv, Steady
  <1>3. UNCHANGED <<master, relations>>
    BY <1>1, WakeUps DEF storeVars, ReadService
  <1>4. Steady(n) /\ Alone(n)
    BY <1>2, <1>3, Links, StaysAlone DEF Steady
  <1>5. ~ ReadService(n)
    BY DEF ReadService, Goto, TypeOK
  <1>6. ~ pending[n]
    <2>1. ASSUME NEW m \in Controllers, ReadService(m) PROVE ~ pending[n]
      BY <1>5, <2>1 DEF ReadService, TypeOK
    <2>q. QED BY <1>1, <2>1, WakeUps
  <1>8. ~ Restart(n) /\ ~ EntityAbsent(n) /\ ~ StoreFails(n)
    BY DEF Restart, EntityAbsent, StoreFails, Panic, Retry, Goto, TypeOK
  <1>11. pc[n] # "absent"
    <2>1. ASSUME pc[n] = "absent" PROVE ~ Reconcile(n)
      BY <1>5, <2>1 DEF Reconcile, ListRelations, Resign, Send, Recv, RecvInvalid, RecvLost,
                        RecvPacket, Update
    <2>q. QED BY <1>2, <1>8, <2>1, Moves
  <1>7. pc[n] # "idle"
    BY <1>3, <1>4, <1>6, <1>10, <1>11 DEF SoleInv, ElectionDue, Attentive
  <1>9. Reconcile(n)
    BY <1>2, <1>7, <1>8, Moves
  <1>q. QED BY <1>3, <1>4, <1>6, <1>9, <1>10, SoleReconcile

LEMMA SoleStep ==
  ASSUME TypeOK, ElectionInv, Overtaken, SoleInv, [Next]_vars
  PROVE  SoleInv'
  <1>1. ASSUME NEW n \in Controllers, Alone(n)'
        PROVE  /\ NoRival(inbox[n])'
               /\ pc'[n] \in Working \ {"resign"} => local'[n].mine # {}
    BY <1>1, StaysAlone, HearsNoRival, FindsItsOwn DEF SoleInv, ElectionInv
  <1>2. ASSUME NEW n \in Controllers, pc'[n] = "stale", up'[n] \in relations', n \notin deaf'
        PROVE  pending'[n]
    BY <1>2, ReplacedStep DEF SoleInv, ElectionInv
  <1>3. Unconnected'
    BY UnconnectedStep DEF SoleInv
  <1>q. QED BY <1>1, <1>2, <1>3, DueStep DEF SoleInv

\* mastership/controller.go:47-232: a controller that alone has a connection, hears of
\* changes and has found its entities, while no master has a connection, has the
\* service in its queue or a reconcile under way, whatever it has read, received or
\* lost before, for any number of controllers and reconnections.
THEOREM ElectionIsDue == Spec => []ElectionDue
  <1>1. Init => Overtaken /\ SoleInv
    BY DEF Init, Overtaken, Busy, SoleInv, Unconnected, NoRival, ElectionDue, Working
  <1>2. TypeOK /\ ElectionInv /\ Overtaken /\ SoleInv /\ [Next]_vars
          => (Overtaken /\ SoleInv)'
    BY OvertakenStep, SoleStep
  <1>3. SoleInv => ElectionDue
    BY DEF SoleInv
  <1>q. QED BY <1>1, <1>2, <1>3, ElectionInvariant, PTL DEF Spec

-----------------------------------------------------------------------------
(* The term of a master that is alone.                                     *)

\* Nothing but packets.
Quiet(q) == \A i \in 1 .. Len(q) : q[i].status = "PACKET"

\* Packets and at most one answer, which grants t.
Grants(q, t) ==
  \A i \in 1 .. Len(q) :
    \/ q[i].status = "PACKET"
    \/ /\ q[i].status = "OK" /\ q[i].id = t
       /\ \A j \in 1 .. Len(q) \ {i} : q[j].status = "PACKET"

\* The device has made n the primary in the next term.
Won(n) == eid[n] = term + 1 /\ top = term + 1

\* Without a connection there is no stream, and the device knows of none that is
\* not open.
Offline ==
  \A n \in Controllers :
    /\ up[n] = NoConn => stream[n] # "open"
    /\ stream[n] # "open" => eid[n] = 0 /\ requests[n] = <<>>

\* A copy that is still current has the recorded term.
FreshTerm == \A n \in current : pc[n] \in {"list", "resign"} => local[n].term = term

\* What a reconcile has listed are its own relations.
OwnList == \A n \in Controllers : \A c \in local[n].mine : c[1] = n

\* Who is alone has at most one request or one answer under way, and only while
\* its reconcile waits for it: it asks for, is granted and records the next term.
SoleTerm(n) ==
  /\ top <= term + 1
  /\ Busy(n) => local[n].term = term /\ master \in {local[n].master, NoConn}
  /\ pc[n] \in Working => up[n] = NoConn \/ master # up[n]
  /\ requests[n] # <<>> => /\ pc[n] = "recv"
                           /\ requests[n] = <<term + 1>>
                           /\ Quiet(inbox[n])
  /\ ~ Quiet(inbox[n]) => pc[n] = "recv" /\ (stream[n] = "open" => Won(n))
  /\ Grants(inbox[n], term + 1)
  /\ pc[n] = "update" => /\ local[n].answer = term + 1
                         /\ up[n] \in local[n].mine /\ stream[n] = "open" => Won(n)
  /\ up[n] # NoConn /\ stream[n] = "open" /\ master = up[n]
       => Primary(n) /\ term = eid[n]

TermInv ==
  /\ Unconnected
  /\ Offline
  /\ FreshTerm
  /\ OwnList
  /\ \A n \in Controllers : Alone(n) => SoleTerm(n)

LEMMA QuietIsGranted ==
  ASSUME NEW q \in Seq(Message), NEW t \in Nat, Quiet(q)
  PROVE  Grants(q, t)
  BY DEF Quiet, Grants

LEMMA QuietTail ==
  ASSUME NEW q \in Seq(Message), q # <<>>, Quiet(q)
  PROVE  Quiet(Tail(q))
  BY DEF Quiet

LEMMA QuietAppend ==
  ASSUME NEW q \in Seq(Message)
  PROVE  Quiet(Append(q, Packet)) <=> Quiet(q)
  <1>1. ASSUME Quiet(q) PROVE Quiet(Append(q, Packet))
    BY <1>1, PacketType DEF Quiet, Packet
  <1>2. ASSUME Quiet(Append(q, Packet)) PROVE Quiet(q)
    <2> SUFFICES ASSUME NEW i \in 1 .. Len(q) PROVE q[i].status = "PACKET"
      BY DEF Quiet
    <2>1. Append(q, Packet)[i] = q[i] /\ i \in 1 .. Len(Append(q, Packet))
      BY PacketType
    <2>q. QED BY <1>2, <2>1 DEF Quiet
  <1>q. QED BY <1>1, <1>2

LEMMA GrantsAppend ==
  ASSUME NEW q \in Seq(Message), NEW t \in Nat, Grants(q, t)
  PROVE  Grants(Append(q, Packet), t)
  <1>1. Packet \in Message /\ Packet.status = "PACKET"
    BY PacketType DEF Packet
  <1> HIDE DEF Packet
  <1>q. QED BY <1>1 DEF Grants

\* A message is read.
LEMMA GrantsTail ==
  ASSUME NEW q \in Seq(Message), NEW t \in Nat, Grants(q, t), q # <<>>
  PROVE  /\ Grants(Tail(q), t)
         /\ Head(q).status \in {"OK", "PACKET"}
         /\ Head(q).status = "OK" => Head(q).id = t /\ Quiet(Tail(q)) /\ ~ Quiet(q)
  <1>1. /\ Len(Tail(q)) = Len(q) - 1 /\ Len(q) \in Nat \ {0}
        /\ \A i \in 1 .. Len(Tail(q)) : Tail(q)[i] = q[i + 1] /\ i + 1 \in 1 .. Len(q)
        /\ Head(q) = q[1] /\ 1 \in 1 .. Len(q)
    OBVIOUS
  <1>2. Grants(Tail(q), t)
    <2> SUFFICES ASSUME NEW i \in 1 .. Len(Tail(q)), q[i + 1].status # "PACKET",
                        NEW j \in 1 .. Len(Tail(q)) \ {i}
                 PROVE  /\ q[i + 1].status = "OK" /\ q[i + 1].id = t
                        /\ q[j + 1].status = "PACKET"
      BY <1>1 DEF Grants
    <2>q. QED BY <1>1 DEF Grants
  <1>3. Head(q).status = "OK" => Quiet(Tail(q)) /\ ~ Quiet(q)
    BY <1>1 DEF Grants, Quiet
  <1>q. QED BY <1>1, <1>2, <1>3 DEF Grants

\* The device answers.
LEMMA GrantsAnswer ==
  ASSUME NEW q \in Seq(Message), NEW t \in Nat, Quiet(q)
  PROVE  Grants(Append(q, [status |-> "OK", id |-> t]), t)
  <1> DEFINE m == [status |-> "OK", id |-> t]
  <1>1. m \in Message /\ m.status = "OK" /\ m.id = t
    BY MessageType
  <1> HIDE DEF m
  <1>2. Grants(Append(q, m), t)
    BY <1>1 DEF Grants, Quiet
  <1>q. QED BY <1>2 DEF m

LEMMA OfflineStep ==
  ASSUME TypeOK, Offline, [Next]_vars
  PROVE  Offline'
  <1> USE DEF storeVars, linkVars, deviceVars, streamVars, localVars, TypeOK, Offline
  <1>1. ASSUME NEW n \in Controllers, Arbitrate(n) PROVE Offline'
    <2>1. stream[n] = "open" /\ up[n] # NoConn
      BY <1>1 DEF Arbitrate
    <2>2. CASE Reject(n, Head(requests[n]))
      BY <1>1, <2>2 DEF Arbitrate, Reject
    <2>3. CASE Accept(n, Head(requests[n]))
      BY <1>1, <2>1, <2>3 DEF Arbitrate, Accept
    <2>q. QED BY <1>1, <2>2, <2>3 DEF Arbitrate
  <1>2. ASSUME NEW n \in Controllers,
               SendPacket(n) \/ PacketIn(n) \/ ReconcileRelation(n) \/ Restart(n)
                 \/ WatchEnds(n) \/ EntityAbsent(n)
        PROVE  Offline'
    BY <1>2 DEF SendPacket, PacketIn, ReconcileRelation, FindConn, CreateRelation,
                DeleteRelation, Restart, WatchEnds, EntityAbsent
  <1>3. ASSUME NEW n \in Controllers, StreamBreaks(n) \/ Withdraw(n) \/ Panic(n)
        PROVE  Offline'
    BY <1>3 DEF StreamBreaks, Withdraw, Panic, Leave
  <1>4. ASSUME NEW n \in Controllers, LinkUp(n) PROVE Offline'
    <2>1. <<n, epoch[n] + 1>> # NoConn
      BY NoConnAssumption
    <2>q. QED BY <1>4, <2>1 DEF LinkUp
  <1>5. ASSUME NEW n \in Controllers, Send(n) PROVE Offline'
    BY <1>5 DEF Send
  <1>6. ASSUME NEW n \in Controllers, Reconcile(n) \/ StoreFails(n), ~ Send(n) PROVE Offline'
    <2>1. UNCHANGED <<up, eid, requests, stream>> \/ Panic(n)
      BY <1>6 DEF StoreFails, Reconcile, ReadService, ListRelations, Resign, Update, Recv,
                  RecvInvalid, RecvLost, RecvPacket
    <2>q. QED BY <1>3, <2>1
  <1>7. CASE UNCHANGED vars
    BY <1>7 DEF vars
  <1>q. QED BY <1>1, <1>2, <1>3, <1>4, <1>5, <1>6, <1>7 DEF Next, Environment

\* A step that writes the service entity leaves no copy current.
LEMMA FreshTermStep ==
  ASSUME TypeOK, FreshTerm, [Next]_vars
  PROVE  FreshTerm'
  <1> USE DEF TypeOK, FreshTerm
  <1>1. ASSUME NEW n \in Controllers, ReadService(n) PROVE FreshTerm'
    <2>1. /\ local' = [local EXCEPT ![n] = [@ EXCEPT !.master = master, !.term = term]]
          /\ pc' = [pc EXCEPT ![n] = "list"]
          /\ current' = current \cup {n}
          /\ UNCHANGED term
      BY <1>1 DEF ReadService, Goto
    <2>2. local'[n].term = term
      BY <2>1 DEF Local
    <2>q. QED BY <2>1, <2>2
  <1>2. CASE current' = {}
    BY <1>2
  <1>3. ASSUME UNCHANGED <<term, current>>,
               NEW m \in current, pc'[m] \in {"list", "resign"},
               ~ ReadService(m)
        PROVE  local'[m].term = term
    <2>1. ~ Restart(m) /\ ~ EntityAbsent(m) /\ ~ StoreFails(m)
      BY <1>3 DEF Restart, EntityAbsent, StoreFails, Panic, Retry, Ends, Goto
    <2>2. CASE LinkUp(m)
      BY <1>3, <2>2 DEF LinkUp, Goto
    <2>3. CASE Reconcile(m)
      <3>1. ~ Ends(m) /\ ~ Panic(m) /\ ~ Goto(m, "recv") /\ ~ Goto(m, "update")
        BY <1>3 DEF Ends, Panic, Goto
      <3>2. ListRelations(m) /\ ~ Return(m)
        BY <1>3, <2>3, <3>1
           DEF Reconcile, ListRelations, Resign, Update, Store, Send, Recv,
               RecvInvalid, RecvLost, RecvPacket, Return, Retry
      <3>3. /\ pc[m] = "list"
            /\ local' = [local EXCEPT ![m] = [@ EXCEPT !.mine = {c \in relations : c[1] = m}]]
        BY <3>2 DEF ListRelations
      <3>q. QED BY <1>3, <3>3 DEF Local
    <2>q. QED BY <1>3, <2>1, <2>2, <2>3, Moves
  <1>4. \/ UNCHANGED <<term, current>> /\ \A n \in Controllers : ~ ReadService(n)
        \/ current' = {}
        \/ \E n \in Controllers : ReadService(n)
    BY DEF Next, Environment, vars, Arbitrate, StreamBreaks, Withdraw, LinkUp, WatchEnds,
           ReconcileRelation, FindConn, CreateRelation, DeleteRelation, Reconcile,
           ListRelations, EntityAbsent, StoreFails, Resign, Update, Store, Send, Recv,
           RecvInvalid, RecvLost, RecvPacket, Panic, SendPacket, PacketIn, Restart, storeVars
  <1>q. QED BY <1>1, <1>2, <1>3, <1>4

LEMMA OwnListStep ==
  ASSUME TypeOK, OwnList, [Next]_vars
  PROVE  OwnList'
  <1> SUFFICES ASSUME NEW n \in Controllers, NEW c \in local'[n].mine
               PROVE  c[1] = n
    BY DEF OwnList
  <1>1. CASE local'[n].mine = local[n].mine
    BY <1>1 DEF OwnList
  <1>2. CASE local' = [local EXCEPT ![n] = NoLocal]
    BY <1>2 DEF NoLocal, TypeOK
  <1>3. CASE Ends(n) \/ Panic(n)
    BY <1>2, <1>3 DEF Ends, Panic
  <1>4. CASE Reconcile(n)
    <2>1. CASE ReadService(n)
      BY <1>1, <2>1 DEF ReadService, TypeOK, Local
    <2>2. CASE ListRelations(n) /\ ~ Return(n)
      BY <2>2 DEF ListRelations, TypeOK, Local
    <2>3. CASE Recv(n)
      <3>1. Ends(n) \/ \E i : local' = [local EXCEPT ![n] = [@ EXCEPT !.answer = i]]
        BY <2>3 DEF Recv, Return, Retry
      <3>q. QED BY <1>1, <1>3, <3>1 DEF TypeOK, Local
    <2>4. CASE Resign(n) \/ Update(n) \/ Send(n) \/ RecvInvalid(n) \/ RecvLost(n)
                 \/ RecvPacket(n) \/ Return(n)
      BY <1>1, <1>3, <2>4
         DEF Resign, Update, Store, Send, RecvInvalid, RecvLost, RecvPacket, Return, Retry
    <2>q. QED BY <1>4, <2>1, <2>2, <2>3, <2>4 DEF Reconcile
  <1>5. CASE LinkUp(n) \/ Restart(n) \/ StoreFails(n)
    BY <1>1, <1>3, <1>5 DEF LinkUp, Restart, StoreFails, Retry
  <1>6. CASE EntityAbsent(n)
    BY <1>2, <1>6 DEF EntityAbsent
  <1>q. QED BY <1>1, <1>4, <1>5, <1>6, Moves

\* All that SoleTerm says of n beside the service entity and the device's top.
Side(n) == <<up[n], stream[n], eid[n], requests[n], inbox[n], pc[n], local[n]>>

LEMMA SoleTermFrame ==
  ASSUME NEW n \in Controllers, SoleTerm(n), UNCHANGED <<term, top, Side(n)>>,
         master' \in {master, NoConn}
  PROVE  SoleTerm(n)'
  BY DEF SoleTerm, Side, Busy, Won, Primary

\* A controller that has never connected changes nothing for the one that has:
\* it may resign the master, and keeps the term.
LEMMA OthersStep ==
  ASSUME TypeOK, ElectionInv, TermInv, NEW n \in Controllers, Alone(n),
         NEW m \in Controllers \ {n},
         \/ Arbitrate(m) \/ SendPacket(m) \/ StreamBreaks(m) \/ Withdraw(m)
         \/ WatchEnds(m) \/ EntityAbsent(m) \/ StoreFails(m)
         \/ ReconcileRelation(m) \/ Reconcile(m) \/ PacketIn(m) \/ Restart(m)
  PROVE  UNCHANGED <<term, top, Side(n)>> /\ master' \in {master, NoConn}
  <1> USE DEF storeVars, linkVars, deviceVars, streamVars, localVars
  <1>1. /\ epoch[m] = 0 /\ eid[m] = 0 /\ requests[m] = <<>> /\ stream[m] = "none"
        /\ ~ Primary(m)
    BY DEF Alone, TermInv, Unconnected, Primary
  <1>2. \A c \in Conns : c[1] = m => ~ (c[2] <= epoch[m])
    BY <1>1, EpochAssumption DEF Conns
  <1>3. up[m] = NoConn /\ making[m] = NoConn
    <2>1. /\ up[m] # NoConn => up[m] = <<m, epoch[m]>>
          /\ making[m] # NoConn => making[m][1] = m /\ making[m][2] <= epoch[m]
      BY DEF ElectionInv, Owned
    <2>2. up[m] \in Conns \cup {NoConn} /\ making[m] \in Conns \cup {NoConn}
      BY DEF TypeOK
    <2>3. epoch[m] <= epoch[m]
      BY <1>1
    <2>4. CASE up[m] # NoConn
      BY <1>2, <2>1, <2>2, <2>3, <2>4
    <2>5. CASE making[m] # NoConn
      BY <1>2, <2>1, <2>2, <2>5
    <2>q. QED BY <2>4, <2>5
  <1>4. \A c \in relations : c[1] # m
    BY <1>2 DEF ElectionInv, Owned, TypeOK
  <1>5. local[m].mine = {}
    <2>1. ASSUME NEW c \in local[m].mine PROVE FALSE
      <3>1. c \in Conns /\ c[1] = m /\ Known(c)
        BY DEF TypeOK, Local, TermInv, OwnList, ElectionInv, Listed
      <3>q. QED BY <1>2, <1>4, <3>1 DEF Known
    <2>q. QED BY <2>1
  <1>6. AfterLeave(m) = inbox
    BY <1>1 DEF AfterLeave, TypeOK
  <1>7. ASSUME Panic(m)
        PROVE  UNCHANGED <<term, top, Side(n), master>>
    BY <1>6, <1>7 DEF Panic, Leave, Goto, Side, TypeOK
  <1>8. ASSUME Return(m) \/ Retry(m)
        PROVE  UNCHANGED <<pc[n], local[n]>>
    BY <1>8 DEF Return, Retry, Ends, Goto, TypeOK
  <1>9. ~ Arbitrate(m) /\ ~ SendPacket(m) /\ ~ StreamBreaks(m) /\ ~ Withdraw(m)
    BY <1>1, <1>3 DEF Arbitrate, SendPacket, StreamBreaks, Withdraw
  <1>10. ~ ReconcileRelation(m)
    <2>1. ~ FindConn(m) /\ ~ CreateRelation(m)
      BY <1>3 DEF FindConn, CreateRelation
    <2>2. ~ DeleteRelation(m)
      BY <1>4 DEF DeleteRelation
    <2>q. QED BY <2>1, <2>2 DEF ReconcileRelation
  <1>11. CASE PacketIn(m) \/ Recv(m)
    <2>1. /\ inbox' = [inbox EXCEPT ![m] = Tail(@)]
          /\ UNCHANGED <<term, top, master, up, stream, eid, requests>>
      BY <1>11 DEF PacketIn, Recv
    <2>2. UNCHANGED <<pc[n], local[n]>>
      BY <1>8, <1>11 DEF PacketIn, Recv, Goto, TypeOK
    <2>q. QED BY <2>1, <2>2 DEF Side, TypeOK
  <1>12. CASE Resign(m)
    <2>1. /\ pc[m] = "resign"
          /\ Store(m, NoConn, local[m].term)
          /\ UNCHANGED <<top, up, stream, eid, requests, inbox>>
      BY <1>12 DEF Resign
    <2>2. Current(m) => local[m].term = term
      BY <2>1 DEF Current, TermInv, FreshTerm
    <2>3. UNCHANGED term /\ master' \in {master, NoConn} /\ UNCHANGED <<pc[n], local[n]>>
      BY <1>8, <2>1, <2>2 DEF Store, Return, Ends, Goto, TypeOK
    <2>q. QED BY <2>1, <2>3 DEF Side
  <1>13. CASE \/ ReadService(m) \/ ListRelations(m) \/ Send(m) \/ WatchEnds(m)
              \/ EntityAbsent(m) \/ Restart(m)
    <2>1. UNCHANGED <<term, top, master, up, stream, eid, inbox>>
      BY <1>13 DEF ReadService, ListRelations, Send, WatchEnds, EntityAbsent, Restart
    <2>2. UNCHANGED requests
      BY <1>1, <1>13 DEF ReadService, ListRelations, Send, WatchEnds, EntityAbsent, Restart
    <2>3. UNCHANGED <<pc[n], local[n]>>
      BY <1>1, <1>8, <1>13
         DEF ReadService, ListRelations, Send, WatchEnds, EntityAbsent, Restart, Goto, TypeOK
    <2>q. QED BY <2>1, <2>2, <2>3 DEF Side
  <1>14. CASE RecvInvalid(m) \/ RecvLost(m) \/ RecvPacket(m) \/ StoreFails(m)
    <2>1. CASE (Return(m) \/ Retry(m)) /\ UNCHANGED <<storeVars, linkVars, deviceVars, streamVars>>
      BY <1>8, <2>1 DEF Side
    <2>q. QED BY <1>7, <1>14, <2>1 DEF RecvInvalid, RecvLost, RecvPacket, StoreFails
  <1>15. ~ Update(m)
    BY <1>5 DEF Update
  <1>q. QED
    BY <1>9, <1>10, <1>11, <1>12, <1>13, <1>14, <1>15 DEF Reconcile

LEMMA SoleTypes ==
  ASSUME TypeOK, NEW n \in Controllers
  PROVE  /\ term \in Nat /\ top \in Nat /\ term + 1 \in Nat
         /\ eid[n] \in Nat /\ inbox[n] \in Seq(Message) /\ requests[n] \in Seq(Nat)
         /\ local[n] \in Local /\ local[n].mine \subseteq Conns
  BY DEF TypeOK, Local

\* The device grants the next term to the only one that asks for it, and sends
\* packets; the application reads what there is.
LEMMA SoleDevice ==
  ASSUME TypeOK, TermInv, NEW n \in Controllers, Alone(n), SoleTerm(n),
         Arbitrate(n) \/ SendPacket(n) \/ PacketIn(n)
  PROVE  SoleTerm(n)'
  <1> USE DEF storeVars, linkVars, deviceVars, streamVars, localVars
  <1>1. CASE Arbitrate(n)
    <2>1. /\ requests[n] = <<term + 1>> /\ Quiet(inbox[n]) /\ pc[n] = "recv"
          /\ up[n] = NoConn \/ master # up[n]
      BY <1>1 DEF Arbitrate, SoleTerm, Working
    <2>2. Head(requests[n]) = term + 1 /\ Tail(requests[n]) = <<>>
      BY <2>1, SoleTypes
    <2>3. UNCHANGED <<term, master, up, pc, local>>
      BY <1>1 DEF Arbitrate, localVars
    <2>4. ~ Reject(n, term + 1)
      BY SoleTypes DEF Reject, Alone, TermInv, Unconnected
    <2>5. Accept(n, term + 1)
      BY <1>1, <2>2, <2>4 DEF Arbitrate
    <2>6. term + 1 >= top
      BY SoleTypes DEF SoleTerm
    <2>7. /\ eid'[n] = term + 1 /\ top' = term + 1 /\ requests'[n] = <<>>
          /\ inbox'[n] = Append(inbox[n], [status |-> "OK", id |-> term + 1])
      BY <2>2, <2>5, <2>6 DEF Accept, TypeOK
    <2>8. Grants(inbox'[n], term + 1)
      BY <2>1, <2>7, SoleTypes, GrantsAnswer
    <2>q. QED
      BY <2>1, <2>3, <2>7, <2>8, SoleTypes DEF SoleTerm, Busy, Won
  <1>2. CASE SendPacket(n)
    <2>1. /\ inbox'[n] = Append(inbox[n], Packet)
          /\ UNCHANGED <<term, master, up, stream, pc, local, eid, top, requests>>
      BY <1>2 DEF SendPacket, TypeOK
    <2>2. /\ Quiet(inbox'[n]) <=> Quiet(inbox[n])
          /\ Grants(inbox'[n], term + 1)
      BY <2>1, SoleTypes, QuietAppend, GrantsAppend DEF SoleTerm
    <2>q. QED BY <2>1, <2>2 DEF SoleTerm, Busy, Won, Primary
  <1>3. CASE PacketIn(n)
    <2>1. /\ inbox[n] # <<>> /\ inbox'[n] = Tail(inbox[n])
          /\ UNCHANGED <<term, master, up, stream, pc, local, eid, top, requests>>
      BY <1>3 DEF PacketIn, TypeOK
    <2>2. /\ Quiet(inbox[n]) => Quiet(inbox'[n])
          /\ Grants(inbox'[n], term + 1)
      BY <2>1, SoleTypes, QuietTail, GrantsTail DEF SoleTerm
    <2>q. QED BY <2>1, <2>2 DEF SoleTerm, Busy, Won, Primary
  <1>q. QED BY <1>1, <1>2, <1>3

\* The stream breaks, and what has been answered is nobody's; a new connection is
\* neither the master nor among the relations a reconcile has listed.
LEMMA SoleLink ==
  ASSUME TypeOK, ElectionInv, TermInv, NEW n \in Controllers, SoleTerm(n),
         \/ StreamBreaks(n) \/ Withdraw(n) \/ LinkUp(n)
         \/ ReconcileRelation(n) \/ Panic(n)
  PROVE  SoleTerm(n)'
  <1> USE DEF storeVars, linkVars, deviceVars, streamVars, localVars
  <1>1. CASE StreamBreaks(n)
    <2>1. /\ stream'[n] = "lost" /\ requests'[n] = <<>> /\ inbox'[n] = inbox[n]
          /\ UNCHANGED <<term, master, up, pc, local, top>>
      BY <1>1 DEF StreamBreaks, Leave, AfterLeave, TypeOK
    <2>q. QED BY <2>1 DEF SoleTerm, Busy
  <1>5. CASE Withdraw(n)
    <2>1. /\ up'[n] = NoConn /\ stream[n] # "open"
          /\ UNCHANGED <<term, master, stream, eid, requests, inbox, pc, local, top>>
      BY <1>5 DEF Withdraw, TypeOK
    <2>q. QED BY <2>1 DEF SoleTerm, Busy
  <1>2. CASE LinkUp(n)
    <2> DEFINE c == <<n, epoch[n] + 1>>
    <2>1. /\ up[n] = NoConn /\ up'[n] = c /\ inbox'[n] = <<>>
          /\ UNCHANGED <<term, master, local, top, requests, eid>>
          /\ pc'[n] = pc[n] \/ (pc[n] = "recv" /\ pc'[n] = "stale")
      BY <1>2 DEF LinkUp, Goto, TypeOK
    <2>2. requests[n] = <<>>
      BY <2>1 DEF TermInv, Offline
    <2>3. ~ Known(c)
      <3>1. epoch[n] \in Nat
        BY DEF TypeOK
      <3>2. ~ (c[2] <= epoch[c[1]])
        BY <3>1
      <3>q. QED BY <3>2 DEF Known, ElectionInv, Owned
    <2>4. c \notin local[n].mine /\ master # c
      <3>1. c # NoConn
        BY NoConnAssumption DEF TypeOK
      <3>q. QED BY <2>3, <3>1 DEF ElectionInv, Listed
    <2> HIDE DEF c
    <2>5. Quiet(<<>>) /\ Grants(<<>>, term + 1)
      BY SoleTypes DEF Quiet, Grants
    <2>q. QED BY <2>1, <2>2, <2>4, <2>5 DEF SoleTerm, Busy, Working
  <1>3. CASE ReconcileRelation(n)
    <2>1. UNCHANGED <<term, master, top, Side(n)>>
      BY <1>3 DEF ReconcileRelation, FindConn, CreateRelation, DeleteRelation, Side
    <2>q. QED BY <2>1, SoleTermFrame
  <1>4. CASE Panic(n)
    <2>1. /\ up'[n] = NoConn /\ requests'[n] = <<>> /\ inbox'[n] = <<>>
          /\ pc'[n] = "crashed" /\ stream'[n] = "none"
          /\ UNCHANGED <<term, master, top>>
      <3>1. AfterLeave(n) \in [Controllers -> Seq(Message)]
        BY TypeAfterLeave
      <3>q. QED BY <1>4, <3>1 DEF Panic, Leave, Goto, TypeOK
    <2>2. Quiet(<<>>) /\ Grants(<<>>, term + 1)
      BY SoleTypes DEF Quiet, Grants
    <2>q. QED BY <2>1, <2>2 DEF SoleTerm, Busy, Working
  <1>q. QED BY <1>1, <1>2, <1>3, <1>4, <1>5

\* A reconcile ends with nothing under way.
LEMMA SoleEnds ==
  ASSUME TypeOK, NEW n \in Controllers, SoleTerm(n), Ends(n),
         requests[n] = <<>>, Quiet(inbox'[n]),
         UNCHANGED <<term, master, top, up, stream, eid, requests>>
  PROVE  SoleTerm(n)'
  <1>1. pc'[n] = "idle"
    BY DEF Ends, Goto, TypeOK
  <1>2. Grants(inbox'[n], term + 1)
    BY SoleTypes DEF Quiet, Grants
  <1>q. QED BY <1>1, <1>2 DEF SoleTerm, Busy, Working, Primary

\* The reconcile that has read the service entity and found its master gone asks
\* for the next term and records what the device has granted.
LEMMA SoleAsks ==
  ASSUME TypeOK, ElectionInv, TermInv, NEW n \in Controllers, Alone(n), SoleTerm(n),
         ReadService(n) \/ ListRelations(n) \/ Resign(n) \/ Send(n)
  PROVE  SoleTerm(n)'
  <1> USE DEF storeVars, linkVars, deviceVars, streamVars, localVars
  <1>1. pc[n] # "recv" /\ requests[n] = <<>> /\ Quiet(inbox[n])
    BY DEF ReadService, ListRelations, Resign, Send, SoleTerm
  <1>2. CASE ReadService(n)
    <2>1. /\ local' = [local EXCEPT ![n] = [@ EXCEPT !.master = master, !.term = term]]
          /\ pc' = [pc EXCEPT ![n] = "list"]
          /\ UNCHANGED <<term, master, top, up, stream, eid, requests, inbox>>
      BY <1>2 DEF ReadService, Goto
    <2>2. local'[n].master = master /\ local'[n].term = term /\ pc'[n] = "list"
      BY <2>1 DEF TypeOK, Local
    <2>q. QED BY <1>1, <2>1, <2>2 DEF SoleTerm, Working, Primary
  <1>3. CASE ListRelations(n) /\ Return(n)
    BY <1>1, <1>3, SoleEnds DEF ListRelations, Return
  <1>4. CASE ListRelations(n) /\ ~ Return(n)
    <2>1. /\ local' = [local EXCEPT ![n] = [@ EXCEPT !.mine = {c \in relations : c[1] = n}]]
          /\ local[n].master \notin relations /\ pc[n] = "list"
          /\ UNCHANGED <<term, master, relations, top, up, stream, eid, requests, inbox>>
      BY <1>4 DEF ListRelations
    <2>2. pc'[n] \in {"resign", "send"}
      BY <1>4 DEF ListRelations, Goto, TypeOK
    <2>3. local'[n].master = local[n].master /\ local'[n].term = local[n].term
      BY <2>1 DEF TypeOK, Local
    <2>4. up[n] = NoConn \/ master # up[n]
      <3> SUFFICES ASSUME up[n] # NoConn, master = up[n] PROVE FALSE
        OBVIOUS
      <3>1. master = local[n].master
        BY <2>1 DEF SoleTerm, Busy
      <3>2. Known(master) /\ up[n] = <<n, epoch[n]>>
        BY DEF ElectionInv, Listed, Owned
      <3>3. master \notin relations
        BY <2>1, <3>1
      <3>4. master[1] = n
        <4>1. master = <<n, epoch[n]>>
          BY <3>2
        <4>q. QED BY <4>1
      <3>q. QED BY <3>2, <3>3, <3>4 DEF Known
    <2>q. QED BY <1>1, <2>1, <2>2, <2>3, <2>4 DEF SoleTerm, Busy, Working, Primary
  <1>5. CASE Resign(n)
    <2>1. CASE Current(n)
      <3>1. /\ term' = local[n].term /\ master' = NoConn /\ Ends(n)
            /\ UNCHANGED <<top, up, stream, eid, requests, inbox>>
        BY <1>5, <2>1 DEF Resign, Store
      <3>2. term' = term
        BY <1>5, <3>1 DEF Resign, SoleTerm, Busy
      <3>3. pc'[n] = "idle" /\ Grants(inbox[n], term + 1)
        BY <3>1 DEF Ends, Goto, TypeOK, SoleTerm
      <3>q. QED BY <1>1, <3>1, <3>2, <3>3 DEF SoleTerm, Busy, Working
    <2>2. CASE ~ Current(n)
      BY <1>1, <1>5, <2>2, SoleEnds DEF Resign, Store, Return
    <2>q. QED BY <2>1, <2>2
  <1>6. CASE Send(n)
    <2>1. CASE Ends(n) /\ UNCHANGED requests
      BY <1>1, <1>6, <2>1, SoleEnds DEF Send
    <2>2. CASE /\ requests' = [requests EXCEPT ![n] = Append(@, local[n].term + 1)]
               /\ Goto(n, "recv")
               /\ UNCHANGED local
      <3>1. requests'[n] = <<term + 1>> /\ pc'[n] = "recv"
        <4>1. local[n].term = term
          BY <1>6 DEF Send, SoleTerm, Busy
        <4>2. Append(<<>>, term + 1) = <<term + 1>>
          OBVIOUS
        <4>q. QED BY <1>1, <2>2, <4>1, <4>2 DEF Goto, TypeOK
      <3>2. pc[n] = "send" /\ UNCHANGED <<term, master, top, up, stream, eid, inbox>>
        BY <1>6 DEF Send
      <3>q. QED BY <1>1, <2>2, <3>1, <3>2 DEF SoleTerm, Busy, Working, Primary
    <2>q. QED BY <1>6, <2>1, <2>2 DEF Send, Return, Retry
  <1>q. QED BY <1>2, <1>3, <1>4, <1>5, <1>6

LEMMA SoleAnswered ==
  ASSUME TypeOK, ElectionInv, TermInv, NEW n \in Controllers, Alone(n), SoleTerm(n),
         Recv(n) \/ RecvInvalid(n) \/ RecvLost(n) \/ RecvPacket(n) \/ Update(n)
  PROVE  SoleTerm(n)'
  <1> USE DEF storeVars, linkVars, deviceVars, streamVars, localVars
  <1>1. CASE Recv(n)
    <2>1. /\ inbox[n] # <<>> /\ inbox'[n] = Tail(inbox[n]) /\ pc[n] = "recv"
          /\ UNCHANGED <<term, master, top, up, stream, eid, requests>>
      BY <1>1 DEF Recv, TypeOK
    <2>2. Head(inbox[n]).status = "OK"
      <3>1. Head(inbox[n]).status \in {"OK", "PACKET"}
        BY <2>1, SoleTypes, GrantsTail DEF SoleTerm
      <3>q. QED BY <1>1, <3>1 DEF Recv
    <2>3. /\ Head(inbox[n]).id = term + 1 /\ Quiet(inbox'[n]) /\ ~ Quiet(inbox[n])
          /\ Grants(inbox'[n], term + 1)
      BY <2>1, <2>2, SoleTypes, GrantsTail DEF SoleTerm
    <2>4. requests[n] = <<>> /\ (stream[n] = "open" => Won(n))
      BY <2>3 DEF SoleTerm
    <2>5. CASE Ends(n)
      BY <2>1, <2>3, <2>4, <2>5, SoleEnds
    <2>6. CASE /\ local' = [local EXCEPT ![n].answer = Head(inbox[n]).id]
               /\ Goto(n, "update")
      <3>1. /\ local'[n].answer = term + 1 /\ local'[n].mine = local[n].mine
            /\ local'[n].master = local[n].master /\ local'[n].term = local[n].term
        BY <2>3, <2>6 DEF TypeOK, Local
      <3>2. pc'[n] = "update" /\ NoConn \notin local[n].mine
        BY <2>6, SoleTypes, ConnIsNotNone DEF Goto, TypeOK
      <3>q. QED
        BY <2>1, <2>3, <2>4, <3>1, <3>2 DEF SoleTerm, Busy, Working, Primary, Won
    <2>q. QED BY <1>1, <2>2, <2>5, <2>6 DEF Recv, Return, Retry
  <1>2. CASE (RecvInvalid(n) /\ Retry(n)) \/ (RecvLost(n) /\ Return(n))
    <2>1. CASE pc[n] = "recv"
      <3>1. stream[n] # "open" /\ inbox[n] = <<>>
        BY <1>2, <2>1 DEF RecvInvalid, RecvLost
      <3>2. requests[n] = <<>> /\ Quiet(inbox[n])
        BY <3>1 DEF TermInv, Offline, Quiet
      <3>3. Ends(n) /\ UNCHANGED <<term, master, top, up, stream, eid, requests, inbox>>
        BY <1>2, <2>1 DEF RecvInvalid, RecvLost, Return, Retry, Panic, Ends, Goto, TypeOK
      <3>q. QED BY <3>2, <3>3, SoleEnds
    <2>2. CASE pc[n] = "stale"
      <3>1. requests[n] = <<>> /\ Quiet(inbox[n])
        BY <2>2 DEF SoleTerm
      <3>2. Ends(n) /\ UNCHANGED <<term, master, top, up, stream, eid, requests, inbox>>
        BY <1>2, <2>2 DEF RecvInvalid, RecvLost, Return, Retry, Panic, Ends, Goto, TypeOK
      <3>q. QED BY <3>1, <3>2, SoleEnds
    <2>q. QED BY <1>2, <2>1, <2>2 DEF RecvInvalid, RecvLost
  <1>3. CASE Panic(n)
    BY <1>3, SoleLink
  <1>4. CASE Update(n)
    <2>1. PICK c \in local[n].mine : Store(n, c, local[n].answer)
      BY <1>4 DEF Update
    <2>2. /\ pc[n] = "update"
          /\ UNCHANGED <<top, up, stream, eid, requests, inbox>>
      BY <1>4 DEF Update
    <2>3. /\ requests[n] = <<>> /\ Quiet(inbox[n])
          /\ local[n].answer = term + 1 /\ (up[n] \in local[n].mine /\ stream[n] = "open" => Won(n))
      BY <2>2 DEF SoleTerm
    <2>4. CASE Current(n)
      <3>1. master' = c /\ term' = term + 1 /\ Ends(n)
        BY <2>1, <2>3, <2>4 DEF Store
      <3>2. pc'[n] = "idle"
        BY <3>1 DEF Ends, Goto, TypeOK
      <3>3. Grants(inbox[n], term' + 1) /\ top <= term' + 1
        BY <2>3, <3>1, SoleTypes DEF Quiet, Grants, SoleTerm
      <3>4. master' = up[n] /\ stream[n] = "open" => Primary(n) /\ term' = eid[n]
        BY <2>1, <2>3, <3>1, SoleTypes DEF Won, Primary
      <3>q. QED
        BY <2>2, <2>3, <3>2, <3>3, <3>4 DEF SoleTerm, Busy, Working, Primary
    <2>5. CASE ~ Current(n)
      BY <2>1, <2>2, <2>3, <2>5, SoleEnds DEF Store, Return
    <2>q. QED BY <2>4, <2>5
  <1>q. QED BY <1>1, <1>2, <1>3, <1>4 DEF RecvInvalid, RecvLost, RecvPacket

\* An entity is missing, or the store fails.
LEMMA SoleFails ==
  ASSUME TypeOK, ElectionInv, TermInv, NEW n \in Controllers, SoleTerm(n),
         EntityAbsent(n) \/ StoreFails(n)
  PROVE  SoleTerm(n)'
  <1> USE DEF storeVars, linkVars, deviceVars, streamVars
  <1>1. CASE Panic(n)
    BY <1>1, SoleLink
  <1>2. requests[n] = <<>> /\ Quiet(inbox[n])
    BY DEF EntityAbsent, StoreFails, SoleTerm
  <1>3. CASE EntityAbsent(n)
    <2>1. pc'[n] = "absent" /\ UNCHANGED <<term, master, top, up, stream, eid, requests, inbox>>
      BY <1>3 DEF EntityAbsent, Goto, TypeOK
    <2>q. QED BY <1>2, <2>1 DEF SoleTerm, Busy, Working, Primary
  <1>4. CASE /\ Retry(n)
             /\ UNCHANGED <<storeVars, linkVars, deviceVars, streamVars>>
    BY <1>2, <1>4, SoleEnds DEF Retry
  <1>q. QED BY <1>1, <1>3, <1>4 DEF StoreFails

LEMMA TermAgreedStep ==
  ASSUME TypeOK, ElectionInv, TermInv, [Next]_vars
  PROVE  TermInv'
  <1> SUFFICES ASSUME NEW n \in Controllers, Alone(n)' PROVE SoleTerm(n)'
    BY UnconnectedStep, OfflineStep, FreshTermStep, OwnListStep DEF TermInv
  <1>1. Alone(n) /\ SoleTerm(n)
    BY StaysAlone DEF TermInv
  <1>2. CASE UNCHANGED vars
    BY <1>1, <1>2, SoleTermFrame
       DEF vars, storeVars, linkVars, deviceVars, streamVars, localVars, Side
  <1>3. ASSUME NEW m \in Controllers \ {n}, LinkUp(m)
        PROVE  FALSE
    <2>1. epoch' = [epoch EXCEPT ![m] = @ + 1] /\ epoch[m] \in Nat
      BY <1>3 DEF LinkUp, TypeOK
    <2>q. QED BY <2>1 DEF Alone, TypeOK
  <1>4. ASSUME NEW m \in Controllers \ {n},
               \/ Arbitrate(m) \/ SendPacket(m) \/ StreamBreaks(m) \/ Withdraw(m)
               \/ WatchEnds(m) \/ EntityAbsent(m) \/ StoreFails(m)
               \/ ReconcileRelation(m) \/ Reconcile(m) \/ PacketIn(m) \/ Restart(m)
        PROVE  SoleTerm(n)'
    BY <1>1, <1>4, OthersStep, SoleTermFrame
  <1>5. CASE Restart(n)
    <2>1. requests[n] = <<>> /\ Quiet(inbox[n])
      BY <1>1, <1>5 DEF Restart, SoleTerm
    <2>q. QED
      BY <1>1, <1>5, <2>1, SoleEnds
         DEF Restart, Retry, storeVars, linkVars, deviceVars, streamVars
  <1>6. CASE Arbitrate(n) \/ SendPacket(n) \/ PacketIn(n)
    BY <1>1, <1>6, SoleDevice
  <1>7. CASE StreamBreaks(n) \/ Withdraw(n) \/ LinkUp(n) \/ ReconcileRelation(n)
    BY <1>1, <1>7, SoleLink
  <1>9. CASE EntityAbsent(n) \/ StoreFails(n)
    BY <1>1, <1>9, SoleFails
  <1>10. CASE WatchEnds(n)
    BY <1>1, <1>10, SoleTermFrame
       DEF WatchEnds, storeVars, linkVars, deviceVars, streamVars, localVars, Side
  <1>8. CASE Reconcile(n)
    BY <1>1, <1>8, SoleAsks, SoleAnswered DEF Reconcile
  <1>q. QED BY <1>2, <1>3, <1>4, <1>5, <1>6, <1>7, <1>8, <1>9, <1>10 DEF Next, Environment

LEMMA TermInvariant == Spec => []TermInv
  <1>1. Init => TermInv
    BY DEF Init, TermInv, Unconnected, Offline, FreshTerm, OwnList, SoleTerm, Busy, Working,
           Quiet, Grants, NoLocal
  <1>2. TypeOK /\ ElectionInv /\ TermInv /\ [Next]_vars => TermInv'
    BY TermAgreedStep
  <1>q. QED BY <1>1, <1>2, ElectionInvariant, PTL DEF Spec

\* mastership/controller.go:159-210: as long as no other controller has connected, the
\* term recorded for a master that still has its connection, on a stream that has not
\* broken, is the one in which the device has made it the primary, whichever answers
\* were lost or taken by the application, whenever the monitor notices that a stream
\* has gone, and however often the controller has reconnected or panicked.
THEOREM TermIsAgreed == Spec => []TermAgreed
  <1>1. TermInv => TermAgreed
    BY DEF TermInv, SoleTerm, TermAgreed
  <1>q. QED BY <1>1, TermInvariant, PTL

-----------------------------------------------------------------------------
(* The controllers together implement MasterRecord.                        *)

LEMMA NumberedIsConns == Numbered = Conns
  <1>1. \A c \in Conns : c \in {c[1]} \X (1 .. Epochs[c[1]]) /\ c[1] \in Controllers
    BY DEF Conns
  <1>2. ASSUME NEW n \in Controllers, NEW c \in {n} \X (1 .. Epochs[n]) PROVE c \in Conns
    BY EpochAssumption DEF Conns
  <1>q. QED BY <1>1, <1>2 DEF Numbered

\* Connections are lost, or nothing happens that the record shows.
LEMMA RecordMisses ==
  ASSUME UNCHANGED <<master, term, top, relations>>, Spent \subseteq Spent'
  PROVE  RecordContract!Next
  <1> DEFINE lost == Spent' \ Spent
  <1>1. lost \in SUBSET (Numbered \ Spent)
    BY DEF Spent
  <1>2. RecordContract!Miss(lost)
    BY DEF RecordContract!Miss
  <1> HIDE DEF lost
  <1>q. QED BY <1>1, <1>2 DEF RecordContract!Next

\* What happens to connections.
LEMMA RecordConns ==
  ASSUME TypeOK, ElectionInv, NEW n \in Controllers,
         Withdraw(n) \/ LinkUp(n) \/ ReconcileRelation(n) \/ Panic(n)
  PROVE  RecordContract!Next
  <1> USE DEF storeVars, linkVars, deviceVars
  <1>1. UNCHANGED <<master, term, top>>
    BY DEF Withdraw, LinkUp, ReconcileRelation, FindConn, CreateRelation, DeleteRelation,
           Panic
  <1>2. Spent \subseteq Spent'
    BY NumberedIsConns, KnownStays DEF Spent, ElectionInv
  <1>3. CASE UNCHANGED relations
    BY <1>1, <1>2, <1>3, RecordMisses
  <1>4. CASE CreateRelation(n) /\ making[n] \notin relations
    <2>1. PICK c \in Numbered : c = making[n] /\ c[1] = n /\ c # NoConn
      BY <1>4, NumberedIsConns DEF CreateRelation, TypeOK, ElectionInv, Owned
    <2>2. c \notin Spent
      BY <1>4, <2>1 DEF Spent, Known
    <2>3. /\ relations' = relations \cup {c}
          /\ making' = [making EXCEPT ![n] = NoConn]
          /\ UNCHANGED <<epoch, up>>
      BY <1>4, <2>1 DEF CreateRelation
    <2>4. ASSUME NEW d \in Numbered, Known(d)', d # c PROVE Known(d)
      <3>1. d[1] \in Controllers
        BY NumberedIsConns DEF Conns
      <3>q. QED BY <2>1, <2>3, <2>4, <3>1 DEF Known, TypeOK
    <2>5. Known(c)'
      BY <2>3 DEF Known
    <2>6. Spent' = Spent \cup {c}
      BY <1>2, <2>1, <2>4, <2>5 DEF Spent
    <2>7. RecordContract!Come(c)
      BY <1>1, <2>2, <2>3, <2>6 DEF RecordContract!Come
    <2>q. QED BY <2>1, <2>7 DEF RecordContract!Next
  <1>5. CASE DeleteRelation(n)
    <2>1. PICK e \in 1 .. Epochs[n] : /\ <<n, e>> \in relations
                                      /\ relations' = relations \ {<<n, e>>}
      BY <1>5 DEF DeleteRelation
    <2>2. Spent' \subseteq Spent
      BY <1>5, <2>1 DEF Spent, Known, DeleteRelation
    <2>3. RecordContract!Go(<<n, e>>)
      BY <1>1, <1>2, <2>1, <2>2 DEF RecordContract!Go
    <2>4. <<n, e>> \in Numbered
      BY <2>1, NumberedIsConns DEF TypeOK
    <2>q. QED BY <2>3, <2>4 DEF RecordContract!Next
  <1>6. CASE CreateRelation(n) /\ making[n] \in relations
    BY <1>3, <1>6 DEF CreateRelation
  <1>q. QED
    BY <1>3, <1>4, <1>5, <1>6
       DEF Withdraw, LinkUp, ReconcileRelation, FindConn, Panic

\* What happens to the record and the device.
LEMMA RecordWrites ==
  ASSUME TypeOK, ElectionInv, GrantInv, FreshTerm, NEW n \in Controllers,
         Arbitrate(n) \/ Resign(n) \/ Update(n)
  PROVE  RecordContract!Next \/ UNCHANGED RecordContract!vars
  <1> USE DEF storeVars, linkVars, deviceVars
  <1>1. UNCHANGED <<relations, linkVars>>
    BY DEF Arbitrate, Resign, Update
  <1>2. Spent' = Spent
    BY <1>1 DEF Spent, Known
  <1>3. CASE Arbitrate(n)
    <2>1. top' = top \/ (top' \in Nat /\ top' > top)
      <3>1. Head(requests[n]) \in Nat
        BY <1>3 DEF Arbitrate, TypeOK
      <3>q. QED BY <1>3, <3>1 DEF Arbitrate, Reject, Accept, TypeOK
    <2>2. UNCHANGED <<master, term>>
      BY <1>3 DEF Arbitrate
    <2>q. QED
      BY <1>1, <1>2, <2>1, <2>2
         DEF RecordContract!Next, RecordContract!Grant, RecordContract!vars
  <1>4. CASE ~ Current(n) /\ (Resign(n) \/ Update(n))
    BY <1>1, <1>2, <1>4 DEF Resign, Update, Store, RecordContract!vars
  <1>5. CASE Current(n) /\ Resign(n)
    <2>1. master' = NoConn /\ term' = local[n].term /\ UNCHANGED top
      BY <1>5 DEF Resign, Store
    <2>2. master \notin relations /\ local[n].term = term
      BY <1>5 DEF Current, Resign, ElectionInv, DeadMaster, FreshTerm, Working
    <2>q. QED
      BY <1>1, <1>2, <2>1, <2>2 DEF RecordContract!Next, RecordContract!Resign
  <1>6. CASE Current(n) /\ Update(n)
    <2>1. PICK c \in local[n].mine : master' = c /\ term' = local[n].answer
      BY <1>6 DEF Update, Store
    <2>2. c \in Numbered /\ c \in Spent
      BY NumberedIsConns DEF Spent, ElectionInv, Listed, TypeOK, Local
    <2>3. master \notin relations
      BY <1>6 DEF Current, Update, ElectionInv, DeadMaster, Working
    <2>4. term' \in 0 .. top
      BY <2>1 DEF GrantInv, TypeOK, Local
    <2>5. RecordContract!Elect(c)
      BY <1>1, <1>2, <1>6, <2>1, <2>2, <2>3, <2>4 DEF Update, RecordContract!Elect
    <2>q. QED BY <2>2, <2>5 DEF RecordContract!Next
  <1>q. QED BY <1>3, <1>4, <1>5, <1>6

LEMMA RecordStep ==
  ASSUME TypeOK, ElectionInv, GrantInv, FreshTerm, [Next]_vars
  PROVE  RecordContract!Next \/ UNCHANGED RecordContract!vars
  <1>1. ASSUME UNCHANGED <<storeVars, linkVars, top>>
        PROVE  UNCHANGED RecordContract!vars
    BY <1>1 DEF storeVars, linkVars, Spent, Known, RecordContract!vars
  <1>2. ASSUME NEW n \in Controllers,
               \/ SendPacket(n) \/ StreamBreaks(n) \/ PacketIn(n) \/ Restart(n)
               \/ WatchEnds(n) \/ EntityAbsent(n)
        PROVE  UNCHANGED <<storeVars, linkVars, top>>
    BY <1>2 DEF SendPacket, StreamBreaks, PacketIn, Restart, WatchEnds, EntityAbsent,
                deviceVars
  <1>3. ASSUME NEW n \in Controllers, ReadService(n)
        PROVE  UNCHANGED RecordContract!vars
    BY <1>3 DEF ReadService, linkVars, deviceVars, Spent, Known, RecordContract!vars
  <1>4. ASSUME NEW n \in Controllers,
               ListRelations(n) \/ Send(n) \/ Recv(n)
        PROVE  UNCHANGED <<storeVars, linkVars, top>>
    BY <1>4 DEF ListRelations, Send, Recv, deviceVars
  <1>5. ASSUME NEW n \in Controllers,
               RecvInvalid(n) \/ RecvLost(n) \/ RecvPacket(n) \/ StoreFails(n)
        PROVE  UNCHANGED <<storeVars, linkVars, top>> \/ Panic(n)
    BY <1>5 DEF RecvInvalid, RecvLost, RecvPacket, StoreFails, deviceVars
  <1>6. CASE UNCHANGED vars
    BY <1>1, <1>6 DEF vars, deviceVars
  <1>q. QED
    BY <1>1, <1>2, <1>3, <1>4, <1>5, <1>6, RecordConns, RecordWrites
       DEF Next, Environment, Reconcile

\* mastership/controller.go:104-232: for any number of controllers and connections,
\* every step of the election is one of MasterRecord or shows nothing of itself
\* in the service entity.
THEOREM RecordIsImplemented == Spec => RecordImplemented
  <1>1. Init => RecordContract!Init
    <2> SUFFICES ASSUME Init PROVE Spent = {}
      BY DEF Init, RecordContract!Init
    <2>1. ASSUME NEW c \in Conns PROVE ~ Known(c)
      BY EpochAssumption DEF Known, Init, Conns
    <2>q. QED BY <2>1, NumberedIsConns DEF Spent
  <1>2. TypeOK /\ ElectionInv /\ GrantInv /\ TermInv /\ [Next]_vars
          => [RecordContract!Next]_(RecordContract!vars)
    BY RecordStep DEF TermInv
  <1>q. QED
    BY <1>1, <1>2, ElectionInvariant, GrantInvariant, TermInvariant, PTL
       DEF Spec, RecordImplemented, RecordContract!Spec
=============================================================================
