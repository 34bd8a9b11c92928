---------------------------- MODULE ReadStreamProofs ---------------------------
(***************************************************************************)
(* Proofs about ReadStream, for any entities and any number of them: the   *)
(* variables keep their types, and the reader and the buffer together      *)
(* implement EntityChannel.                                                *)
(***************************************************************************)
EXTENDS ReadStream, SequenceTheorems, TLAPS

-----------------------------------------------------------------------------
(* About sequences.                                                        *)

\* Moving the head of one sequence to the end of the one before it.
LEMMA MoveHead ==
  ASSUME NEW S, NEW s \in Seq(S), NEW t \in Seq(S), t # <<>>
  PROVE  Append(s, Head(t)) \o Tail(t) = s \o t
  <1>1. Head(t) \in S /\ Tail(t) \in Seq(S)
    BY HeadTailProperties
  <1>2. Append(s, Head(t)) = s \o <<Head(t)>>
    BY <1>1, AppendIsConcat
  <1>3. <<Head(t)>> \o Tail(t) = t
    <2>1. Len(t) \in Nat \ {0}
      BY EmptySeq
    <2>2. SubSeq(t, 1, Len(t)) = <<t[1]>> \o SubSeq(t, 2, Len(t))
      BY <2>1, SubSeqRecursiveFirst
    <2>3. SubSeq(t, 1, Len(t)) = t /\ SubSeq(t, 2, Len(t)) = Tail(t)
      BY SubSeqFull, TailIsSubSeq
    <2>4. Head(t) = t[1]
      BY <2>1
    <2> QED  BY <2>2, <2>3, <2>4
  <1>4. <<Head(t)>> \in Seq(S)
    BY <1>1
  <1>5. (s \o <<Head(t)>>) \o Tail(t) = s \o (<<Head(t)>> \o Tail(t))
    BY <1>1, <1>4, ConcatAssociative
  <1> QED  BY <1>2, <1>3, <1>5

\* Adding to the end of the last of two sequences.
LEMMA AppendRight ==
  ASSUME NEW S, NEW s \in Seq(S), NEW t \in Seq(S), NEW e \in S
  PROVE  s \o Append(t, e) = Append(s \o t, e)
  <1>1. Append(t, e) = t \o <<e>> /\ <<e>> \in Seq(S)
    BY AppendIsConcat
  <1>2. s \o t \in Seq(S)
    BY ConcatProperties
  <1>3. Append(s \o t, e) = (s \o t) \o <<e>>
    BY <1>2, AppendIsConcat
  <1> QED  BY <1>1, <1>3, ConcatAssociative

\* Taking from the front of the first of two sequences.
LEMMA TakeLeft ==
  ASSUME NEW S, NEW s \in Seq(S), NEW t \in Seq(S), s # <<>>
  PROVE  /\ s \o t # <<>>
         /\ Head(s \o t) = Head(s)
         /\ Tail(s \o t) = Tail(s) \o t
  <1>1. /\ s \o t \in Seq(S)
        /\ Len(s \o t) = Len(s) + Len(t)
        /\ \A i \in 1 .. Len(s) + Len(t) :
             (s \o t)[i] = IF i <= Len(s) THEN s[i] ELSE t[i - Len(s)]
    BY ConcatProperties
  <1>2. Len(s) \in Nat \ {0} /\ Len(t) \in Nat
    BY EmptySeq, LenProperties
  <1>3. s \o t # <<>>
    BY <1>1, <1>2, EmptySeq
  <1>4. Head(s \o t) = Head(s)
    BY <1>1, <1>2
  <1>5. /\ Tail(s) \in Seq(S)
        /\ Len(Tail(s)) = Len(s) - 1
        /\ \A i \in 1 .. Len(Tail(s)) : Tail(s)[i] = s[i+1]
    BY HeadTailProperties
  <1>6. /\ Tail(s \o t) \in Seq(S)
        /\ Len(Tail(s \o t)) = Len(s \o t) - 1
        /\ \A i \in 1 .. Len(Tail(s \o t)) : Tail(s \o t)[i] = (s \o t)[i+1]
    BY <1>1, <1>3, HeadTailProperties
  <1>7. /\ Tail(s) \o t \in Seq(S)
        /\ Len(Tail(s) \o t) = Len(Tail(s)) + Len(t)
        /\ \A i \in 1 .. Len(Tail(s)) + Len(t) :
             (Tail(s) \o t)[i] =
               IF i <= Len(Tail(s)) THEN Tail(s)[i] ELSE t[i - Len(Tail(s))]
    BY <1>5, ConcatProperties
  <1>8. Len(Tail(s \o t)) = Len(Tail(s) \o t)
    BY <1>1, <1>2, <1>5, <1>6, <1>7
  <1>9. ASSUME NEW i \in 1 .. Len(Tail(s \o t))
        PROVE  Tail(s \o t)[i] = (Tail(s) \o t)[i]
    <2>1. i \in Nat \ {0} /\ i + 1 \in 1 .. Len(s) + Len(t)
      BY <1>1, <1>2, <1>6
    <2>2. Tail(s \o t)[i] = (s \o t)[i+1]
      BY <1>6
    <2>3. CASE i + 1 <= Len(s)
      BY <1>1, <1>2, <1>5, <1>7, <2>1, <2>2, <2>3
    <2>4. CASE ~ (i + 1 <= Len(s))
      <3>1. (s \o t)[i+1] = t[(i + 1) - Len(s)]
        BY <1>1, <2>1, <2>4
      <3>2. (Tail(s) \o t)[i] = t[i - (Len(s) - 1)]
        BY <1>2, <1>5, <1>7, <2>1, <2>4
      <3>3. (i + 1) - Len(s) = i - (Len(s) - 1)
        BY <1>2, <2>1
      <3> QED  BY <2>2, <3>1, <3>2, <3>3
    <2> QED  BY <2>3, <2>4
  <1>10. Tail(s \o t) = Tail(s) \o t
    BY <1>6, <1>7, <1>8, <1>9, SeqEqual
  <1> QED  BY <1>3, <1>4, <1>10

\* Cutting a sequence in two.
LEMMA Split ==
  ASSUME NEW S, NEW s \in Seq(S), NEW k \in 0 .. Len(s)
  PROVE  /\ SubSeq(s, 1, k) \in Seq(S)
         /\ SubSeq(s, k + 1, Len(s)) \in Seq(S)
         /\ Len(SubSeq(s, 1, k)) = k
         /\ SubSeq(s, 1, k) \o SubSeq(s, k + 1, Len(s)) = s
  <1>1. Len(s) \in Nat /\ k \in Int
    BY LenProperties
  <1>2. \A i \in 1 .. Len(s) : s[i] \in S
    BY ElementOfSeq
  <1>3. SubSeq(s, 1, k) \in Seq(S) /\ Len(SubSeq(s, 1, k)) = k
    BY <1>1, <1>2, SubSeqProperties
  <1>4. SubSeq(s, k + 1, Len(s)) \in Seq(S)
    BY <1>1, <1>2, SubSeqProperties
  <1>5. SubSeq(s, 1, k) \o SubSeq(s, k + 1, Len(s)) = SubSeq(s, 1, Len(s))
    <2>1. /\ 1 \in 1 .. Len(s) + 1
          /\ k \in 1 - 1 .. Len(s)
          /\ Len(s) \in k .. Len(s)
      BY <1>1
    <2> QED  BY <2>1, ConcatAdjacentSubSeq
  <1> QED  BY <1>3, <1>4, <1>5, SubSeqFull

\* Cutting off the end of the second of two sequences.
LEMMA CutRight ==
  ASSUME NEW S, NEW s \in Seq(S), NEW t \in Seq(S), NEW k \in 0 .. Len(t)
  PROVE  /\ Len(s) + k \in 0 .. Len(s \o t)
         /\ s \o SubSeq(t, 1, k) = SubSeq(s \o t, 1, Len(s) + k)
  <1>1. /\ s \o t \in Seq(S)
        /\ Len(s \o t) = Len(s) + Len(t)
        /\ \A i \in 1 .. Len(s) + Len(t) :
             (s \o t)[i] = IF i <= Len(s) THEN s[i] ELSE t[i - Len(s)]
    BY ConcatProperties
  <1>2. Len(s) \in Nat /\ Len(t) \in Nat /\ k \in Nat /\ k <= Len(t)
    BY LenProperties
  <1>3. Len(s) + k \in 0 .. Len(s \o t)
    BY <1>1, <1>2
  <1>4. /\ SubSeq(t, 1, k) \in Seq(S)
        /\ Len(SubSeq(t, 1, k)) = k
        /\ \A i \in 1 .. k : SubSeq(t, 1, k)[i] = t[i]
    <2>1. \A i \in 1 .. k : t[i] \in S
      BY <1>2, ElementOfSeq
    <2> QED  BY <1>2, <2>1, SubSeqProperties
  <1>5. /\ s \o SubSeq(t, 1, k) \in Seq(S)
        /\ Len(s \o SubSeq(t, 1, k)) = Len(s) + k
        /\ \A i \in 1 .. Len(s) + k :
             (s \o SubSeq(t, 1, k))[i] =
               IF i <= Len(s) THEN s[i] ELSE SubSeq(t, 1, k)[i - Len(s)]
    BY <1>4, ConcatProperties
  <1>6. /\ SubSeq(s \o t, 1, Len(s) + k) \in Seq(S)
        /\ Len(SubSeq(s \o t, 1, Len(s) + k)) = Len(s) + k
        /\ \A i \in 1 .. Len(s) + k :
             SubSeq(s \o t, 1, Len(s) + k)[i] = (s \o t)[i]
    <2>1. \A i \in 1 .. Len(s) + k : (s \o t)[i] \in S
      BY <1>1, <1>2, ElementOfSeq
    <2> QED  BY <1>2, <2>1, SubSeqProperties
  <1>7. ASSUME NEW i \in 1 .. Len(s) + k
        PROVE  (s \o SubSeq(t, 1, k))[i] = SubSeq(s \o t, 1, Len(s) + k)[i]
    <2>1. i \in 1 .. Len(s) + Len(t)
      BY <1>2
    <2>2. CASE i <= Len(s)
      BY <1>1, <1>5, <1>6, <2>1, <2>2
    <2>3. CASE ~ (i <= Len(s))
      <3>1. i - Len(s) \in 1 .. k
        BY <1>2, <2>3
      <3> QED  BY <1>1, <1>4, <1>5, <1>6, <2>1, <2>3, <3>1
    <2> QED  BY <2>2, <2>3
  <1>8. s \o SubSeq(t, 1, k) = SubSeq(s \o t, 1, Len(s) + k)
    BY <1>5, <1>6, <1>7, SeqEqual
  <1> QED  BY <1>3, <1>8

-----------------------------------------------------------------------------
(* Type correctness.                                                       *)

LEMMA TypeInductive ==
  ASSUME TypeOK, [Next]_vars
  PROVE  TypeOK'
  <1> USE MaxAssumption
  <1> USE DEF Endings, targetVars, readerVars, bufferVars
  <1>1. ASSUME NEW e \in Entities, Send(e)
        PROVE  TypeOK'
    <2>1. wire' \in Seq(Entities)
      BY <1>1, AppendProperties DEF TypeOK, Send
    <2>2. sent' \in 0..MaxEntities
      BY <1>1 DEF TypeOK, Send
    <2> QED  BY <1>1, <2>1, <2>2 DEF TypeOK, Send
  <1>2. CASE Finish
    BY <1>2 DEF TypeOK, Finish
  <1>3. CASE Cancel
    <2>1. wire' \in Seq(Entities)
      BY <1>3, Split DEF TypeOK, Cancel
    <2> QED  BY <1>3, <2>1 DEF TypeOK, Cancel
  <1>4. CASE RecvResponse
    <2>1. PICK k \in 0..Len(wire) :
            /\ rest' = SubSeq(wire, 1, k)
            /\ wire' = SubSeq(wire, k + 1, Len(wire))
            /\ rpc' = IF k = 0 THEN "recv" ELSE "push"
      BY <1>4 DEF RecvResponse
    <2>2. /\ rest' \in Seq(Entities)
          /\ wire' \in Seq(Entities)
          /\ Len(rest') = k
      BY <2>1, Split DEF TypeOK
    <2>3. rpc' = "push" => rest' # <<>>
      BY <2>1, <2>2, EmptySeq
    <2> QED  BY <1>4, <2>1, <2>2, <2>3 DEF TypeOK, RecvResponse
  <1>5. CASE RecvEOF
    BY <1>5 DEF TypeOK, RecvEOF
  <1>6. CASE RecvError
    BY <1>6 DEF TypeOK, RecvError
  <1>7. CASE Continue
    BY <1>7 DEF TypeOK, Continue
  <1>8. CASE Push
    <2>1. rest # <<>>
      BY <1>8 DEF TypeOK, Push
    <2>2. Head(rest) \in Entities /\ Tail(rest) \in Seq(Entities)
      BY <2>1, HeadTailProperties DEF TypeOK
    <2>3. buffer' \in Seq(Entities)
      BY <1>8, <2>2, AppendProperties DEF TypeOK, Push
    <2> QED  BY <1>8, <2>2, <2>3 DEF TypeOK, Push
  <1>9. CASE InClosed
    BY <1>9 DEF TypeOK, InClosed
  <1>10. CASE Deliver
    <2>1. Head(buffer) \in Entities /\ Tail(buffer) \in Seq(Entities)
      BY <1>10, HeadTailProperties DEF TypeOK, Deliver
    <2>2. delivered' \in Seq(Entities)
      BY <1>10, <2>1, AppendProperties DEF TypeOK, Deliver
    <2> QED  BY <1>10, <2>1, <2>2 DEF TypeOK, Deliver
  <1>11. CASE CloseOut
    BY <1>11 DEF TypeOK, CloseOut
  <1>12. CASE UNCHANGED vars
    BY <1>12 DEF TypeOK, vars
  <1> QED  BY <1>1, <1>2, <1>3, <1>4, <1>5, <1>6, <1>7, <1>8, <1>9, <1>10,
              <1>11, <1>12 DEF Next, Reader, Buffer

LEMMA TypeInitial ==
  ASSUME Init
  PROVE  TypeOK
  <1>1. <<>> \in Seq(Entities)
    BY EmptySeq
  <1>2. 0 \in 0..MaxEntities
    BY MaxAssumption
  <1> QED  BY <1>1, <1>2 DEF Init, TypeOK

\* In every behaviour the variables have their types; the reader never pushes
\* from an empty response (read.go:42-44, stream.go:57-62).
THEOREM StreamTypeCorrect == Spec => []TypeOK
  <1> QED  BY TypeInitial, TypeInductive, PTL DEF Spec

-----------------------------------------------------------------------------
(* ReadStream implements EntityChannel.                                    *)

\* Outside of a push the reader holds nothing; once it has stopped, the stream
\* has ended and is empty; the buffer sees its input closed only after that,
\* and closes its output only when nothing is left.
Drained ==
  /\ rpc # "push" => rest = <<>>
  /\ rpc = "stopped" => status = "eof" /\ wire = <<>>
  /\ ~ inOpen => rpc = "stopped"
  /\ outClosed => ~ inOpen /\ buffer = <<>>

StreamInv == TypeOK /\ Drained

LEMMA DrainedInitial ==
  ASSUME Init
  PROVE  Drained
  BY DEF Init, Drained

LEMMA DrainedInductive ==
  ASSUME StreamInv, [Next]_vars
  PROVE  Drained'
  <1> USE DEF StreamInv, Drained, targetVars, readerVars, bufferVars
  <1>1. ASSUME NEW e \in Entities, Send(e)
        PROVE  Drained'
    BY <1>1 DEF Send
  <1>2. CASE Finish
    BY <1>2 DEF Finish
  <1>3. CASE Cancel
    BY <1>3 DEF Cancel
  <1>4. CASE RecvResponse
    <2>1. PICK k \in 0..Len(wire) :
            /\ rest' = SubSeq(wire, 1, k)
            /\ rpc' = IF k = 0 THEN "recv" ELSE "push"
      BY <1>4 DEF RecvResponse
    <2>2. rpc' # "push" => rest' = <<>>
      BY <2>1, SubSeqEmpty
    <2> QED  BY <1>4, <2>1, <2>2 DEF RecvResponse
  <1>5. CASE RecvEOF
    BY <1>5 DEF RecvEOF
  <1>6. CASE RecvError
    BY <1>6 DEF RecvError
  <1>7. CASE Continue
    BY <1>7 DEF Continue
  <1>8. CASE Push
    BY <1>8 DEF Push
  <1>9. CASE InClosed
    BY <1>9 DEF InClosed
  <1>10. CASE Deliver
    BY <1>10 DEF Deliver
  <1>11. CASE CloseOut
    BY <1>11 DEF CloseOut
  <1>12. CASE UNCHANGED vars
    BY <1>12 DEF vars
  <1> QED  BY <1>1, <1>2, <1>3, <1>4, <1>5, <1>6, <1>7, <1>8, <1>9, <1>10,
              <1>11, <1>12 DEF Next, Reader, Buffer

\* The queue of EntityChannel under the mapping.
Queue == buffer \o rest \o wire

LEMMA InitImplemented ==
  ASSUME Init
  PROVE  Channel!Init
  <1>1. Queue = <<>>
    BY ConcatEmptySeq, EmptySeq DEF Init, Queue
  <1> QED  BY <1>1 DEF Init, Channel!Init, Queue

\* Every step is a step of the channel or invisible to the application.
LEMMA StepImplemented ==
  ASSUME StreamInv, StreamInv', [Next]_vars
  PROVE  [Channel!Next]_(Channel!vars)
  <1> DEFINE Visible == <<Queue, delivered, status # "open", outClosed>>
  <1> USE DEF targetVars, readerVars, bufferVars
  <1>0. /\ wire \in Seq(Entities) /\ rest \in Seq(Entities)
        /\ buffer \in Seq(Entities) /\ buffer \o rest \in Seq(Entities)
    BY ConcatProperties DEF StreamInv, TypeOK
  <1>1. ASSUME NEW e \in Entities, Send(e)
        PROVE  Channel!Next
    <2>1. Queue' = Append(Queue, e)
      BY <1>0, <1>1, AppendRight DEF Send, Queue
    <2>2. Channel!Put(e)
      BY <1>1, <2>1 DEF Send, Queue, Channel!Put
    <2> QED  BY <2>2 DEF Channel!Next
  <1>2. CASE Finish
    <2>1. Queue \in Seq(Entities) /\ Len(Queue) \in 0..Len(Queue)
      BY <1>0, ConcatProperties, LenProperties DEF Queue
    <2>2. Queue' = SubSeq(Queue, 1, Len(Queue))
      BY <1>2, <2>1, SubSeqFull DEF Finish, Queue
    <2>3. Channel!End
      BY <1>2, <2>1, <2>2 DEF Finish, Queue, Channel!End
    <2> QED  BY <2>3 DEF Channel!Next
  <1>3. CASE Cancel
    <2>1. PICK kept \in 0..Len(wire) : wire' = SubSeq(wire, 1, kept)
      BY <1>3 DEF Cancel
    <2>2. /\ Len(buffer \o rest) + kept \in 0..Len(Queue)
          /\ Queue' = SubSeq(Queue, 1, Len(buffer \o rest) + kept)
      BY <1>0, <1>3, <2>1, CutRight DEF Cancel, Queue
    <2>3. Channel!End
      BY <1>3, <2>2 DEF Cancel, Queue, Channel!End
    <2> QED  BY <2>3 DEF Channel!Next
  <1>4. CASE RecvResponse
    <2>1. rest = <<>>
      BY <1>4 DEF RecvResponse, StreamInv, Drained
    <2>2. PICK k \in 0..Len(wire) :
            /\ rest' = SubSeq(wire, 1, k)
            /\ wire' = SubSeq(wire, k + 1, Len(wire))
      BY <1>4 DEF RecvResponse
    <2>3. /\ rest' \in Seq(Entities) /\ wire' \in Seq(Entities)
          /\ rest' \o wire' = wire
      BY <1>0, <2>2, Split
    <2>4. Queue = buffer \o wire
      BY <1>0, <2>1, ConcatEmptySeq DEF Queue
    <2>5. Queue' = buffer \o (rest' \o wire')
      <3>1. \A r, w \in Seq(Entities) : (buffer \o r) \o w = buffer \o (r \o w)
        BY <1>0, ConcatAssociative
      <3>2. (buffer \o rest') \o wire' = buffer \o (rest' \o wire')
        BY <2>3, <3>1
      <3> QED  BY <1>4, <3>2 DEF RecvResponse, Queue
    <2>6. UNCHANGED Visible
      BY <1>4, <2>3, <2>4, <2>5 DEF RecvResponse
    <2> QED  BY <2>6 DEF Channel!vars, Queue
  <1>5. CASE RecvEOF
    BY <1>5 DEF RecvEOF, Channel!vars
  <1>6. CASE RecvError
    BY <1>6 DEF RecvError, Channel!vars
  <1>7. CASE Continue
    BY <1>7 DEF Continue, Channel!vars
  <1>8. CASE Push
    <2>1. rest # <<>>
      BY <1>8 DEF Push, StreamInv, TypeOK
    <2>2. buffer' \o rest' = buffer \o rest
      BY <1>0, <1>8, <2>1, MoveHead DEF Push
    <2>3. UNCHANGED Visible
      BY <1>8, <2>2 DEF Push, Queue
    <2> QED  BY <2>3 DEF Channel!vars, Queue
  <1>9. CASE InClosed
    BY <1>9 DEF InClosed, Channel!vars
  <1>10. CASE Deliver
    <2>1. buffer # <<>>
      BY <1>10 DEF Deliver
    <2>2. /\ buffer \o rest # <<>>
          /\ Head(buffer \o rest) = Head(buffer)
          /\ Tail(buffer \o rest) = Tail(buffer) \o rest
      BY <1>0, <2>1, TakeLeft
    <2>3. /\ Queue # <<>>
          /\ Head(Queue) = Head(buffer \o rest)
          /\ Tail(Queue) = Tail(buffer \o rest) \o wire
      BY <1>0, <2>2, TakeLeft DEF Queue
    <2>4. Queue' = Tail(Queue)
      BY <1>10, <2>2, <2>3 DEF Deliver, Queue
    <2>5. ~ outClosed
      BY <2>1 DEF StreamInv, Drained
    <2>6. Channel!Take
      BY <1>10, <2>2, <2>3, <2>4, <2>5 DEF Deliver, Queue, Channel!Take
    <2> QED  BY <2>6 DEF Channel!Next
  <1>11. CASE CloseOut
    <2>1. buffer = <<>> /\ rest = <<>> /\ wire = <<>> /\ status = "eof"
      BY <1>11 DEF CloseOut, StreamInv, Drained
    <2>2. Queue = <<>>
      BY <1>0, <2>1, ConcatEmptySeq DEF Queue
    <2>3. Channel!Close
      BY <1>11, <2>1, <2>2 DEF CloseOut, Queue, Channel!Close
    <2> QED  BY <2>3 DEF Channel!Next
  <1>12. CASE UNCHANGED vars
    BY <1>12 DEF vars, Channel!vars
  <1> QED  BY <1>1, <1>2, <1>3, <1>4, <1>5, <1>6, <1>7, <1>8, <1>9, <1>10,
              <1>11, <1>12 DEF Next, Reader, Buffer

\* Whatever the target sends and however the goroutines interleave, the channel
\* of the application is a FIFO queue that is closed only when it is empty
\* (read.go:29-47, read_entities_buffer.go:13-33).
THEOREM StreamImplementsChannel == Spec => ChannelImplemented
  <1>1. Init => StreamInv
    BY TypeInitial, DrainedInitial DEF StreamInv
  <1>2. StreamInv /\ [Next]_vars => StreamInv'
    BY TypeInductive, DrainedInductive DEF StreamInv
  <1>3. Init => Channel!Init
    BY InitImplemented
  <1>4. StreamInv /\ StreamInv' /\ [Next]_vars => [Channel!Next]_(Channel!vars)
    BY StepImplemented
  <1> QED  BY <1>1, <1>2, <1>3, <1>4, PTL DEF Spec, ChannelImplemented, Channel!Spec
=============================================================================
