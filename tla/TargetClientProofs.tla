--------------------------- MODULE TargetClientProofs --------------------------
(***************************************************************************)
(* Proofs about the clients of a target, for any number of controllers,    *)
(* connections and calls.                                                  *)
(***************************************************************************)
EXTENDS TargetClient, MastershipProofs

\* What a call has read, or a client holds, of connection c and term t: c is known
\* to the election, and as long as it has its relation it is the master's.
Held(c, t) == Known(c) /\ (c \in relations => c = master /\ t = term)

ClientInv ==
  \A n \in Controllers :
    /\ call[n] # NoCall => Held(call[n].conn, call[n].term)
    /\ client[n] # NoClient => Held(client[n].conn, client[n].term)

-----------------------------------------------------------------------------
(* The election beside the clients is the election.                        *)

LEMMA ClientStepIsElectionStep ==
  ASSUME [ClientNext]_<<vars, clientVars>>
  PROVE  [Next]_vars
  BY DEF ClientNext, Election, GetClient, GetMastership, GetRelation, GetConn,
         ReturnClient, Write

\* appsdk/app_controller.go:60-123, admin/admin_controller.go:60-122: whatever the
\* applications ask for and write, the controllers behave as the election does.
THEOREM ClientsKeepElection == ClientSpec => Spec
  <1>1. ClientInit => Init
    BY DEF ClientInit
  <1>q. QED BY <1>1, ClientStepIsElectionStep, PTL DEF ClientSpec, Spec

-----------------------------------------------------------------------------
(* Type correctness.                                                       *)

LEMMA ClientTypeInit == ASSUME ClientInit PROVE ClientTypeOK
  BY TypeInit DEF ClientInit, ClientTypeOK, Call, Client

\* Calls and clients are those that are there, or new ones of the right type.
LEMMA GetClientType ==
  ASSUME ClientTypeOK, NEW n \in Controllers, GetClient(n)
  PROVE  call' \in [Controllers -> Call] /\ client' \in [Controllers -> Client]
  <1>1. TypeOK /\ call \in [Controllers -> Call] /\ client \in [Controllers -> Client]
    BY DEF ClientTypeOK
  <1>2. NoCall \in Call
    BY DEF Call
  <1>3. CASE GetMastership(n)
    <2>1. [at |-> "relation", conn |-> master, term |-> term] \in Call
      BY <1>1, <1>3 DEF GetMastership, Call, TypeOK
    <2>q. QED BY <1>1, <1>3, <2>1 DEF GetMastership
  <1>4. CASE GetRelation(n)
    <2>1. call[n] # NoCall
      BY <1>4 DEF GetRelation, NoCall
    <2>2. [call[n] EXCEPT !.at = "conns"] \in Call
      BY <1>1, <2>1 DEF Call
    <2>q. QED BY <1>1, <1>2, <1>4, <2>2 DEF GetRelation
  <1>5. CASE GetConn(n)
    <2>1. call[n] # NoCall
      BY <1>5 DEF GetConn, ReturnClient, NoCall
    <2>2. [conn |-> call[n].conn, term |-> call[n].term] \in Client
      BY <1>1, <2>1 DEF Call, Client
    <2>3. /\ call' = [call EXCEPT ![n] = NoCall]
          /\ \/ client' = client
             \/ client' = [client EXCEPT ![n] = [conn |-> call[n].conn, term |-> call[n].term]]
      BY <1>1, <1>5 DEF GetConn, ReturnClient
    <2>q. QED BY <1>1, <1>2, <2>2, <2>3
  <1>q. QED BY <1>3, <1>4, <1>5 DEF GetClient

LEMMA ClientTypeStep ==
  ASSUME ClientTypeOK, [ClientNext]_<<vars, clientVars>>
  PROVE  ClientTypeOK'
  <1>1. TypeOK'
    BY TypeStep, ClientStepIsElectionStep DEF ClientTypeOK
  <1>2. CASE Election
    BY <1>1, <1>2 DEF Election, ClientTypeOK, Call, Client
  <1>3. ASSUME NEW n \in Controllers, GetClient(n) PROVE ClientTypeOK'
    <2>1. written' = <<>>
      BY <1>3 DEF GetClient, GetMastership, GetRelation, GetConn, ReturnClient
    <2>q. QED BY <1>1, <1>3, <2>1, GetClientType DEF ClientTypeOK
  <1>4. ASSUME NEW n \in Controllers, Write(n) PROVE ClientTypeOK'
    <2>1. client[n].term \in Nat
      BY DEF ClientTypeOK, Client, NoClient
    <2>q. QED BY <1>1, <1>4, <2>1 DEF Write, ClientTypeOK
  <1>5. CASE UNCHANGED <<vars, clientVars>>
    BY <1>1, <1>5 DEF clientVars, ClientTypeOK
  <1>q. QED BY <1>2, <1>3, <1>4, <1>5 DEF ClientNext

\* The variables of the clients keep their types: no call goes on without a master,
\* and no client is made without a connection (app_controller.go:90, 106).
THEOREM ClientTypeCorrect == ClientSpec => []ClientTypeOK
  BY ClientTypeInit, ClientTypeStep, PTL DEF ClientSpec

-----------------------------------------------------------------------------
(* A client is the master's.                                               *)

\* The election does not touch what is held: a master with a relation stays, and
\* a connection without one does not get it back.
LEMMA HeldStays ==
  ASSUME TypeOK, ElectionInv, [Next]_vars, NEW c \in Conns, NEW t, Held(c, t)
  PROVE  Held(c, t)'
  <1>1. Known(c)' /\ (c \notin relations => c \notin relations')
    BY KnownStep DEF Held, ElectionInv
  <1>2. CASE c \in relations
    BY <1>1, <1>2, LiveMasterStep DEF Held
  <1>3. CASE c \notin relations
    BY <1>1, <1>3 DEF Held
  <1>q. QED BY <1>2, <1>3

LEMMA ClientStep ==
  ASSUME ClientTypeOK, ElectionInv, ClientInv, [ClientNext]_<<vars, clientVars>>
  PROVE  ClientInv'
  <1>0. /\ TypeOK
        /\ \A n \in Controllers :
             /\ call[n] \in Call /\ (call[n] # NoCall => call[n].conn \in Conns)
             /\ client[n] \in Client /\ (client[n] # NoClient => client[n].conn \in Conns)
    BY DEF ClientTypeOK, Call, Client
  <1>1. ASSUME NEW c \in Conns, NEW t, Held(c, t) PROVE Held(c, t)'
    BY <1>0, <1>1, HeldStays, ClientStepIsElectionStep
  <1>2. ASSUME NEW r, r = NoCall \/ \E m \in Controllers : r = call[m],
               r # NoCall
        PROVE  Held(r.conn, r.term)'
    BY <1>0, <1>1, <1>2 DEF ClientInv
  <1>3. ASSUME NEW r, r = NoClient \/ \E m \in Controllers : r = client[m],
               r # NoClient
        PROVE  Held(r.conn, r.term)'
    BY <1>0, <1>1, <1>3 DEF ClientInv
  <1>4. CASE Election
    BY <1>2, <1>3, <1>4 DEF Election, ClientInv
  <1>5. ASSUME NEW n \in Controllers, GetMastership(n) PROVE ClientInv'
    <2>1. master \in Conns /\ Held(master, term)
      BY <1>0, <1>5 DEF GetMastership, TypeOK, ElectionInv, Listed, Held
    <2>2. Held(master, term)'
      BY <1>1, <2>1, <1>5 DEF GetMastership, Held, Known, vars, storeVars, linkVars
    <2>3. /\ call' = [call EXCEPT ![n] = [at |-> "relation", conn |-> master, term |-> term]]
          /\ client' = client /\ master' = master /\ term' = term
      BY <1>5 DEF GetMastership, vars, storeVars
    <2>4. ASSUME NEW m \in Controllers, call'[m] # NoCall
          PROVE  (Held(call[m].conn, call[m].term))'
      <3>1. CASE m = n
        <4>1. call'[m].conn = master' /\ call'[m].term = term'
          BY <1>0, <2>3, <3>1 DEF ClientTypeOK
        <4>q. QED BY <2>2, <4>1
      <3>2. CASE m # n
        BY <1>2, <2>3, <2>4, <3>2 DEF ClientTypeOK
      <3>q. QED BY <3>1, <3>2
    <2>q. QED BY <1>3, <2>3, <2>4 DEF ClientInv
  <1>6. ASSUME NEW n \in Controllers, GetRelation(n) PROVE ClientInv'
    <2>0. call[n] # NoCall
      BY <1>6 DEF GetRelation, NoCall
    <2>1. /\ \/ call' = [call EXCEPT ![n] = NoCall]
             \/ call' = [call EXCEPT ![n] = [@ EXCEPT !.at = "conns"]]
          /\ call[n] # NoCall /\ client' = client
      BY <1>6, <2>0 DEF GetRelation
    <2>2. ASSUME NEW m \in Controllers, call'[m] # NoCall
          PROVE  /\ call[m] # NoCall
                 /\ call'[m].conn = call[m].conn /\ call'[m].term = call[m].term
      BY <1>0, <2>1, <2>2 DEF ClientTypeOK, Call
    <2>q. QED BY <1>2, <1>3, <2>1, <2>2 DEF ClientInv
  <1>7. ASSUME NEW n \in Controllers, GetConn(n) PROVE ClientInv'
    <2>0. call[n] # NoCall
      BY <1>7 DEF GetConn, ReturnClient, NoCall
    <2>1. /\ call' = [call EXCEPT ![n] = NoCall]
          /\ call[n] # NoCall
          /\ \/ client' = client
             \/ client' = [client EXCEPT ![n] = [conn |-> call[n].conn, term |-> call[n].term]]
      BY <1>7, <2>0 DEF GetConn, ReturnClient, ClientTypeOK
    <2>2. ASSUME NEW m \in Controllers, call'[m] # NoCall PROVE call'[m] = call[m]
      BY <2>1, <2>2 DEF ClientTypeOK
    <2>3. ASSUME NEW m \in Controllers, client'[m] # NoClient
          PROVE  \/ client'[m] = client[m]
                 \/ client'[m].conn = call[n].conn /\ client'[m].term = call[n].term
      BY <2>1, <2>3 DEF ClientTypeOK
    <2>q. QED BY <1>2, <1>3, <2>1, <2>2, <2>3 DEF ClientInv
  <1>8. ASSUME NEW n \in Controllers, Write(n) PROVE ClientInv'
    BY <1>2, <1>3, <1>8 DEF Write, ClientInv
  <1>9. CASE UNCHANGED <<vars, clientVars>>
    BY <1>2, <1>3, <1>9 DEF clientVars, ClientInv
  <1>q. QED
    BY <1>4, <1>5, <1>6, <1>7, <1>8, <1>9 DEF ClientNext, GetClient

\* appsdk/app_controller.go:59-123: as long as the connection of a client has its
\* relation, the client is the recorded master's and names the recorded term, for
\* any number of controllers that are elected, panic and reconnect between the reads
\* of Client() and after them.
THEOREM ClientStaysMaster == ClientSpec => []ClientIsMaster
  <1>1. ClientInit => ClientInv
    BY DEF ClientInit, ClientInv
  <1>2. ClientTypeOK /\ (TypeOK /\ ElectionInv) /\ ClientInv /\ [ClientNext]_<<vars, clientVars>>
          => ClientInv'
    BY ClientStep
  <1>3. ClientTypeOK /\ ClientInv => ClientIsMaster
    <2> SUFFICES ASSUME ClientTypeOK, ClientInv, NEW n \in Controllers,
                        client[n].conn \in relations
                 PROVE  client[n].conn = master /\ client[n].term = term
      BY DEF ClientIsMaster
    <2>1. client[n] # NoClient
      BY ConnIsNotNone DEF NoClient, ClientTypeOK, TypeOK
    <2>q. QED BY <2>1 DEF ClientInv, Held
  <1>4. ClientSpec => [](TypeOK /\ ElectionInv)
    BY ClientsKeepElection, ElectionInvariant
  <1>q. QED
    BY <1>1, <1>2, <1>3, <1>4, ClientTypeCorrect, PTL DEF ClientSpec

\* appsdk/app_controller.go:93-122: as long as no other controller has connected, the
\* device takes the writes of a client that is made of the present connection,
\* and for those of the primary, while the stream of the connection lasts: Client()
\* has read a master (ClientStaysMaster) whose term is the election id of that
\* stream (TermIsAgreed).  A stream that breaks takes the primary with it before
\* anybody withdraws the connection.
THEOREM SoleClientIsAccepted == ClientSpec => []ClientIsAccepted
  <1>1. TypeOK /\ ClientIsMaster /\ TermAgreed => ClientIsAccepted
    <2> SUFFICES ASSUME TypeOK, ClientIsMaster, TermAgreed, NEW n \in Controllers,
                        Alone(n), client[n].conn \in relations, client[n].conn = up[n],
                        stream[n] = "open"
                 PROVE  Primary(n) /\ Accepted(client[n].term)
      BY DEF ClientIsAccepted
    <2>1. up[n] # NoConn
      BY ConnIsNotNone DEF TypeOK
    <2>2. master = up[n] /\ client[n].term = term
      BY DEF ClientIsMaster
    <2>3. Primary(n) /\ term = eid[n]
      BY <2>1, <2>2 DEF TermAgreed
    <2>q. QED BY <2>2, <2>3 DEF Accepted
  <1>q. QED
    BY <1>1, ClientsKeepElection, ElectionTypeCorrect, TermIsAgreed, ClientStaysMaster, PTL
=============================================================================
