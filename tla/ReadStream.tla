------------------------------ MODULE ReadStream -------------------------------
(***************************************************************************)
(* How entities and packets reach the application (pkg/southbound):        *)
(* readClient.ReadEntities and streamClient.PacketIn start a goroutine     *)
(* that reads a gRPC stream and pushes what it gets, one at a time, into   *)
(* an unbuffered channel; the goroutine of newReadEntitiesStream (or       *)
(* newPacketInStream, the same code) takes it from there into a slice of   *)
(* any length, and offers the head of the slice to the application.        *)
(*                                                                         *)
(* A response carries any number of entities: those of PacketIn carry one  *)
(* packet, or none when they are about something else.  The stream ends    *)
(* with io.EOF, with an error of the server or the transport, or when the  *)
(* context of the call is canceled; gRPC reports the latter two as status  *)
(* errors.                                                                 *)
(***************************************************************************)
EXTENDS Naturals, Sequences

CONSTANTS
  Entities,     \* entities, or packets
  MaxEntities   \* bound: how many the target sends

ASSUME MaxAssumption == MaxEntities \in Nat

VARIABLES
  sent,       \* how many entities the target has sent
  wire,       \* those that Recv has not returned yet
  status,     \* "open", or how the stream has ended
  rpc,        \* where the reader goroutine stands
  rest,       \* what it has left of the response it is pushing
  inOpen,     \* the buffer goroutine has in # nil
  buffer,     \* its slice
  outClosed,  \* the channel of the application is closed
  delivered   \* what the application has received

targetVars == <<sent, wire, status>>
readerVars == <<rpc, rest>>
bufferVars == <<inOpen, buffer, outClosed>>
vars == <<targetVars, readerVars, bufferVars, delivered>>

Endings == {"eof", "failed", "canceled"}

\* Every variable has its type, and the reader stops receiving only when there
\* is something to push: a response without entities leaves it where it is
\* (read.go:42, stream.go:57-62).
TypeOK ==
  /\ sent      \in 0..MaxEntities
  /\ wire      \in Seq(Entities)
  /\ status    \in {"open"} \cup Endings
  /\ rpc       \in {"recv", "push", "warn", "stopped"}
  /\ rest      \in Seq(Entities)
  /\ rpc = "push" => rest # <<>>
  /\ inOpen    \in BOOLEAN
  /\ buffer    \in Seq(Entities)
  /\ outClosed \in BOOLEAN
  /\ delivered \in Seq(Entities)

Init ==
  /\ sent = 0 /\ wire = <<>> /\ status = "open"
  /\ rpc = "recv" /\ rest = <<>>
  /\ inOpen = TRUE /\ buffer = <<>> /\ outClosed = FALSE
  /\ delivered = <<>>

-----------------------------------------------------------------------------
(* The target and gRPC.                                                    *)

Send(e) ==
  /\ status = "open"
  /\ sent < MaxEntities
  /\ sent' = sent + 1
  /\ wire' = Append(wire, e)
  /\ UNCHANGED <<status, readerVars, bufferVars, delivered>>

\* The target ends the stream, well or with an error, after what it has sent.
Finish ==
  /\ status = "open"
  /\ status' \in {"eof", "failed"}
  /\ UNCHANGED <<sent, wire, readerVars, bufferVars, delivered>>

\* The context is canceled, or the connection closed: what gRPC has not handed
\* out yet may be lost.
Cancel ==
  /\ status = "open"
  /\ status' = "canceled"
  /\ \E kept \in 0..Len(wire) : wire' = SubSeq(wire, 1, kept)
  /\ UNCHANGED <<sent, readerVars, bufferVars, delivered>>

-----------------------------------------------------------------------------
(* The reader goroutine.                                                   *)

\* (mutant) Every response is taken to carry an entity.
RecvResponseUnchecked ==
  /\ rpc = "recv"
  /\ \E k \in 0..Len(wire) :
       /\ k = 0 => status = "open"
       /\ rest' = SubSeq(wire, 1, k)
       /\ wire' = SubSeq(wire, k + 1, Len(wire))
       /\ rpc' = "push"
  /\ UNCHANGED <<sent, status, bufferVars, delivered>>

\* Recv returns a response, with the next entities or with none.
RecvResponse ==
  /\ rpc = "recv"
  /\ \E k \in 0..Len(wire) :
       /\ k = 0 => status = "open"
       /\ rest' = SubSeq(wire, 1, k)
       /\ wire' = SubSeq(wire, k + 1, Len(wire))
       /\ rpc' = IF k = 0 THEN "recv" ELSE "push"
  /\ UNCHANGED <<sent, status, bufferVars, delivered>>

\* Recv returns io.EOF: the loop ends, and the deferred close of the channel to
\* the buffer runs.
RecvEOF ==
  /\ rpc = "recv"
  /\ wire = <<>>
  /\ status = "eof"
  /\ rpc' = "stopped"
  /\ UNCHANGED <<targetVars, rest, bufferVars, delivered>>

\* Recv returns a status error, also for a canceled context: it is not equal
\* to context.Canceled, is logged, and the loop goes on.
RecvError ==
  /\ rpc = "recv"
  /\ wire = <<>>
  /\ status \in {"failed", "canceled"}
  /\ rpc' = "warn"
  /\ UNCHANGED <<targetVars, rest, bufferVars, delivered>>

Continue ==
  /\ rpc = "warn"
  /\ rpc' = "recv"
  /\ UNCHANGED <<targetVars, rest, bufferVars, delivered>>

-----------------------------------------------------------------------------
(* The buffer goroutine.                                                   *)

\* The two goroutines meet on the unbuffered channel: the next entity goes to
\* the end of the slice.
Push ==
  /\ rpc = "push"
  /\ inOpen
  /\ buffer' = Append(buffer, Head(rest))
  /\ rest'   = Tail(rest)
  /\ rpc'    = IF rest' = <<>> THEN "recv" ELSE "push"
  /\ UNCHANGED <<targetVars, inOpen, outClosed, delivered>>

\* (mutant) The goroutine forgets to set in to nil.
InClosedUnseen ==
  /\ rpc = "stopped"
  /\ inOpen
  /\ UNCHANGED vars

\* It sees that the channel is closed, and selects on it no more.
InClosed ==
  /\ rpc = "stopped"
  /\ inOpen
  /\ inOpen' = FALSE
  /\ UNCHANGED <<targetVars, readerVars, buffer, outClosed, delivered>>

\* The application receives the head of the slice; while the slice is empty the
\* channel offered to select is nil.
Deliver ==
  /\ buffer # <<>>
  /\ delivered' = Append(delivered, Head(buffer))
  /\ buffer'    = Tail(buffer)
  /\ UNCHANGED <<targetVars, readerVars, inOpen, outClosed>>

\* (mutant) The loop ends as soon as its input is closed.
CloseOutEarly ==
  /\ ~ inOpen
  /\ ~ outClosed
  /\ outClosed' = TRUE
  /\ UNCHANGED <<targetVars, readerVars, inOpen, buffer, delivered>>

\* Nothing is left and nothing will come: the loop ends.
CloseOut ==
  /\ ~ inOpen
  /\ buffer = <<>>
  /\ ~ outClosed
  /\ outClosed' = TRUE
  /\ UNCHANGED <<targetVars, readerVars, inOpen, buffer, delivered>>

-----------------------------------------------------------------------------

Reader == RecvResponse \/ RecvEOF \/ RecvError \/ Continue
Buffer == Push \/ InClosed \/ CloseOut

Next ==
  \/ \E e \in Entities : Send(e)
  \/ Finish \/ Cancel
  \/ Reader \/ Buffer \/ Deliver

Spec == Init /\ [][Next]_vars

\* The goroutines run, and a response with entities does arrive; the
\* application keeps on receiving.  The target owes nothing.
Fairness ==
  /\ WF_vars(RecvResponse /\ rpc' = "push")
  /\ WF_vars(RecvEOF \/ RecvError \/ Continue)
  /\ WF_vars(Push)
  /\ WF_vars(InClosed \/ CloseOut)
  /\ WF_vars(Deliver)

FairSpec == Spec /\ Fairness

-----------------------------------------------------------------------------
(* Properties.                                                             *)

\* read.go and read_entities_buffer.go (stream.go and stream_packetin_buffer.go)
\* together behave like one FIFO queue, which is closed only when it is empty:
\* what is on the wire, in the hands of the reader and in the slice is the
\* queue.
Channel ==
  INSTANCE EntityChannel WITH
    queue     <- buffer \o rest \o wire,
    ended     <- status # "open",
    closed    <- outClosed

ChannelImplemented == Channel!Spec

\* An application that reads until its channel is closed, as
\* conn_manager_test.go:440-443 does, gets to the end of a stream that ended
\* well.
EndIsSeen == status = "eof" ~> outClosed
=============================================================================
