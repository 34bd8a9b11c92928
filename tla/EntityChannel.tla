----------------------------- MODULE EntityChannel -----------------------------
(***************************************************************************)
(* What ReadEntities and PacketIn promise the application: the channel it  *)
(* passes behaves like one unbounded FIFO queue between the target and     *)
(* itself.  Nothing is lost, duplicated or reordered, except that ending   *)
(* the call early may cost what was still to come, and the channel is      *)
(* closed only after everything has been taken out of it.                  *)
(***************************************************************************)
EXTENDS Sequences, Naturals

CONSTANT Entities

VARIABLES
  queue,      \* sent and not yet taken
  delivered,  \* taken by the application
  ended,      \* the target sends nothing more
  closed      \* the channel of the application is closed

vars == <<queue, delivered, ended, closed>>

Init ==
  /\ queue = <<>> /\ delivered = <<>>
  /\ ended = FALSE /\ closed = FALSE

Put(e) ==
  /\ ~ ended
  /\ queue' = Append(queue, e)
  /\ UNCHANGED <<delivered, ended, closed>>

End ==
  /\ ~ ended
  /\ ended' = TRUE
  /\ \E kept \in 0..Len(queue) : queue' = SubSeq(queue, 1, kept)
  /\ UNCHANGED <<delivered, closed>>

Take ==
  /\ queue # <<>>
  /\ ~ closed
  /\ delivered' = Append(delivered, Head(queue))
  /\ queue' = Tail(queue)
  /\ UNCHANGED <<ended, closed>>

Close ==
  /\ ended
  /\ queue = <<>>
  /\ closed' = TRUE
  /\ UNCHANGED <<queue, delivered, ended>>

Next == (\E e \in Entities : Put(e)) \/ End \/ Take \/ Close

Spec == Init /\ [][Next]_vars
=============================================================================
