------------------------------ MODULE TargetClient -----------------------------
(***************************************************************************)
(* The clients an application (pkg/p4rt/appsdk) or an administrator        *)
(* (pkg/p4rt/admin) gets for a target, beside the mastership election.     *)
(*                                                                         *)
(* Client() reads the service entity, the relation of the master recorded  *)
(* there and the connection manager one after the other, while the         *)
(* election goes on.  The client it returns keeps the connection and the   *)
(* term it has read for as long as the application keeps the client: each  *)
(* Write and SetForwardingPipelineConfig names that term as its election   *)
(* id, and the device takes it only from the id of its primary.            *)
(*                                                                         *)
(* The two Client() functions differ in what they return beside the        *)
(* client.  The target and the controller entity exist, and role and       *)
(* device ID are those of the election.  Calls that only read the device   *)
(* change nothing, and are left out.                                       *)
(***************************************************************************)
EXTENDS Mastership

CONSTANT Apps     \* the controllers whose application asks for clients

ASSUME AppsAssumption == Apps \subseteq Controllers

VARIABLES
  call,     \* where each controller's call of Client() stands, and what it has read
  client,   \* the client its application holds, or NoClient
  written   \* controller and election id of the write the device has just taken, or <<>>

clientVars == <<call, client, written>>

-----------------------------------------------------------------------------

NoClient == [conn |-> NoConn, term |-> 0]

Client == [conn : Conns, term : Nat] \cup {NoClient}

NoCall == [at |-> "none", conn |-> NoConn, term |-> 0]

\* A call that is under way has found a master.
Call == [at : {"relation", "conns"}, conn : Conns, term : Nat] \cup {NoCall}

\* Every variable has its type.
ClientTypeOK ==
  /\ TypeOK
  /\ call    \in [Controllers -> Call]
  /\ client  \in [Controllers -> Client]
  /\ written \in (Controllers \X Nat) \cup {<<>>}

ClientInit ==
  /\ Init
  /\ call    = [n \in Controllers |-> NoCall]
  /\ client  = [n \in Controllers |-> NoClient]
  /\ written = <<>>

-----------------------------------------------------------------------------
(* Client().                                                               *)

\* Mutant: an empty connection ID is not noticed.
GetMastershipUnchecked(n) ==
  /\ n \in Apps
  /\ pc[n] # "crashed"
  /\ call[n] = NoCall
  /\ call' = [call EXCEPT ![n] = [at |-> "relation", conn |-> master, term |-> term]]
  /\ written' = <<>>
  /\ UNCHANGED <<vars, client>>

\* topoStore.Get of the service entity: its mastership state, if it has a master.
GetMastership(n) ==
  /\ n \in Apps
  /\ pc[n] # "crashed"
  /\ call[n] = NoCall
  /\ master # NoConn
  /\ call' = [call EXCEPT ![n] = [at |-> "relation", conn |-> master, term |-> term]]
  /\ written' = <<>>
  /\ UNCHANGED <<vars, client>>

\* topoStore.Get of the relation the mastership state names: it exists and starts
\* at this controller, or there is no client.
GetRelation(n) ==
  /\ call[n].at = "relation"
  /\ call' = [call EXCEPT ![n] = IF @.conn \in relations /\ @.conn[1] = n
                                 THEN [@ EXCEPT !.at = "conns"] ELSE NoCall]
  /\ written' = <<>>
  /\ UNCHANGED <<vars, client>>

\* The call ends: with a client, or with an error that leaves the caller the one
\* it has.
ReturnClient(n, c) ==
  /\ call[n].at = "conns"
  /\ client' = [client EXCEPT ![n] = IF c # NoConn THEN [conn |-> c, term |-> call[n].term]
                                     ELSE @]
  /\ call' = [call EXCEPT ![n] = NoCall]
  /\ written' = <<>>
  /\ UNCHANGED vars

\* Mutant: whatever connection the manager has for the target.
GetConnOfTarget(n) == ReturnClient(n, up[n])

\* conns.Get: the connection is in the manager, or there is no client.
GetConn(n) == ReturnClient(n, IF up[n] = call[n].conn THEN up[n] ELSE NoConn)

-----------------------------------------------------------------------------
(* The calls of a client.                                                  *)

\* The device takes a write that names the election id of its primary (external).
Accepted(id) == \E m \in Controllers : Primary(m) /\ eid[m] = id

\* Write and SetForwardingPipelineConfig, on the gRPC channel of the client, which
\* is the same for all connections of the controller, and can be up whatever has
\* become of the stream and of the connection.
Write(n) ==
  /\ client[n] # NoClient
  /\ Accepted(client[n].term)
  /\ written' = <<n, client[n].term>>
  /\ UNCHANGED <<vars, call, client>>

-----------------------------------------------------------------------------

\* A step of the election.  What a process holds is gone when it panics.
Election ==
  /\ Next
  /\ call'   = [n \in Controllers |-> IF pc'[n] = "crashed" THEN NoCall ELSE call[n]]
  /\ client' = [n \in Controllers |-> IF pc'[n] = "crashed" THEN NoClient ELSE client[n]]
  /\ written' = <<>>

GetClient(n) == GetMastership(n) \/ GetRelation(n) \/ GetConn(n)

ClientNext == Election \/ \E n \in Controllers : GetClient(n) \/ Write(n)

ClientSpec == ClientInit /\ [][ClientNext]_<<vars, clientVars>>

-----------------------------------------------------------------------------

(***************************************************************************)
(* Properties.                                                             *)
(***************************************************************************)

\* appsdk/app_controller.go:59: Client() returns a master client.  As long as the
\* connection of a client has its relation in the store, it is the recorded
\* master's, and the client names the recorded term, however much time has passed
\* between the reads of Client() (app_controller.go:65-105) and since: a client of
\* any other mastership has a connection that is gone for good.
ClientIsMaster ==
  \A n \in Controllers :
    client[n].conn \in relations => client[n].conn = master /\ client[n].term = term

\* A client of a controller that is the only one to connect, made of the connection
\* it has now, is taken for the primary's by the device, and is, as long as its
\* stream lasts: the term that Client() has copied is the election id of the stream,
\* however the answer to the request has reached the store
\* (app_controller.go:93-122, mastership/controller.go:159-210).  A client whose
\* stream has broken keeps its connection until the monitor withdraws it, and is
\* nobody's primary.  OnlyPrimaryWrites shows that with a second controller it need
\* not be the primary either.
ClientIsAccepted ==
  \A n \in Controllers :
    /\ Alone(n)
    /\ client[n].conn \in relations
    /\ client[n].conn = up[n]
    /\ stream[n] = "open"
    => Primary(n) /\ Accepted(client[n].term)

\* appsdk/app_controller.go:59 again: the writes of a "master client" are those of
\* the primary, and the device tells them by their election id.  They are not: the
\* next request is for the recorded term + 1 (mastership/controller.go:159), so a
\* request that was made before the term was recorded asks for the very id of the
\* primary, and gets it once the primary's stream has gone.  The clients of the
\* former primary name the same id.
OnlyPrimaryWrites ==
  [][\A n \in Controllers : Write(n) => Primary(n)]_<<vars, clientVars>>
=============================================================================
