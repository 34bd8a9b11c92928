---------------------------- MODULE NodeLeaseProofs ----------------------------
(***************************************************************************)
(* Proofs about NodeLease, for any number of controllers, any length of    *)
(* the lease and any clocks: the variables keep their types, only expired  *)
(* entities are deleted, and while its watch of the store lasts a prompt    *)
(* controller keeps its lease, and each is listed and overlooks nothing.    *)
(***************************************************************************)
EXTENDS NodeLease, TLAPS

-----------------------------------------------------------------------------
(* Type correctness.                                                       *)

\* The timers after a RequeueAfter of a positive delay.
LEMMA RequeueTypes ==
  ASSUME TypeOK, NEW n \in Controllers, NEW c \in Controllers,
         NEW delay \in Nat \ {0}, RequeueAfter(n, c, delay)
  PROVE  /\ timers' \in [Controllers -> [Controllers -> SUBSET (Nat \ {0})]]
         /\ pc' \in [Controllers -> ReconcilePC]
  <1>1. timers[n] \in [Controllers -> SUBSET (Nat \ {0})]
    BY DEF TypeOK
  <1>2. [timers[n] EXCEPT ![c] = @ \cup {delay}]
          \in [Controllers -> SUBSET (Nat \ {0})]
    BY <1>1
  <1>3. timers' = [timers EXCEPT ![n] =
                     [timers[n] EXCEPT ![c] = @ \cup {delay}]]
    BY DEF RequeueAfter
  <1> QED  BY <1>2, <1>3 DEF TypeOK, RequeueAfter, Ends, ReconcilePC

\* A read leaves timers of positive delays: on either branch the delay is what
\* is left over after a comparison.
LEMMA ReadTypes ==
  ASSUME TypeOK, NEW n \in Controllers, NEW c \in Controllers,
         ReadRemote(n, c) \/ ReadLocal(n, c) \/ ReadNothing(n, c)
  PROVE  /\ timers' \in [Controllers -> [Controllers -> SUBSET (Nat \ {0})]]
         /\ pc' \in [Controllers -> ReconcilePC]
  <1> DEFINE Typed ==
        /\ timers' \in [Controllers -> [Controllers -> SUBSET (Nat \ {0})]]
        /\ pc' \in [Controllers -> ReconcilePC]
  <1> USE HalfAssumption, SkewAssumption
  <1>0. left[c] \in Nat /\ Skew[n] \in Nat
    BY DEF TypeOK
  <1>1. CASE ReadRemote(n, c)
    <2>1. CASE Expired(n, c)
      BY <1>1, <2>1 DEF ReadRemote, TypeOK, ReconcilePC
    <2>2. CASE ~ Expired(n, c)
      <3>1. Remaining(n, c) \in Nat \ {0}
        BY <1>0, <2>2 DEF Expired, Remaining
      <3>2. RequeueAfter(n, c, Remaining(n, c))
        BY <1>1, <2>2 DEF ReadRemote
      <3> QED  BY <3>1, <3>2, RequeueTypes
    <2> QED  BY <2>1, <2>2
  <1>2. CASE ReadLocal(n, c)
    <2>1. CASE left[c] <= Skew[n] + Half
      BY <1>2, <2>1, <1>0 DEF ReadLocal, TypeOK, ReconcilePC
    <2>2. CASE left[c] > Skew[n] + Half
      <3>1. Remaining(n, c) - Half \in Nat \ {0}
        BY <1>0, <2>2 DEF Remaining
      <3>2. RequeueAfter(n, c, Remaining(n, c) - Half)
        BY <1>2, <1>0, <2>2 DEF ReadLocal
      <3> QED  BY <3>1, <3>2, RequeueTypes
    <2> QED  BY <2>1, <2>2, <1>0
  <1>3. CASE ReadNothing(n, c)
    BY <1>3 DEF ReadNothing, TypeOK, ReconcilePC
  <1> QED  BY <1>1, <1>2, <1>3

\* A tick shortens every timer that does not run out.
LEMMA TickTypes ==
  ASSUME TypeOK, Tick
  PROVE  TypeOK'
  <1>1. left' \in [Controllers -> Nat]
    <2>1. ASSUME NEW c \in Controllers
          PROVE  (IF left[c] = 0 THEN 0 ELSE left[c] - 1) \in Nat
      <3>1. left[c] \in Nat
        BY DEF TypeOK
      <3> QED  BY <3>1
    <2> QED  BY <2>1 DEF Tick
  <1>2. timers' \in [Controllers -> [Controllers -> SUBSET (Nat \ {0})]]
    <2>1. ASSUME NEW n \in Controllers, NEW c \in Controllers
          PROVE  {t - 1 : t \in timers[n][c] \ {1}} \in SUBSET (Nat \ {0})
      <3>1. timers[n][c] \in SUBSET (Nat \ {0})
        BY DEF TypeOK
      <3> QED  BY <3>1
    <2> QED  BY <2>1 DEF Tick
  <1>3. pending' \in [Controllers -> SUBSET Controllers]
    <2>1. ASSUME NEW n \in Controllers
          PROVE  pending[n] \cup {c \in Controllers : 1 \in timers[n][c]}
                   \in SUBSET Controllers
      BY DEF TypeOK
    <2> QED  BY <2>1 DEF Tick
  <1> QED  BY <1>1, <1>2, <1>3 DEF TypeOK, Tick, localVars

\* The length of a new lease is a number.
LEMMA LeaseType ==
  ASSUME TypeOK, NEW n \in Controllers
  PROVE  Lease(n) \in [Controllers -> Nat]
  BY HalfAssumption, SkewAssumption DEF TypeOK, Lease

\* An event only adds IDs of controllers to the work queues.
LEMMA NotifyType ==
  ASSUME TypeOK, NEW c \in Controllers, Notify(c)
  PROVE  pending' \in [Controllers -> SUBSET Controllers]
  <1>1. ASSUME NEW m \in Controllers
        PROVE  (IF m \in Listening THEN pending[m] \cup {c} ELSE pending[m])
                 \in SUBSET Controllers
    BY DEF TypeOK
  <1> QED  BY <1>1 DEF Notify

LEMMA TypeInductive ==
  ASSUME TypeOK, [Next]_vars
  PROVE  TypeOK'
  <1> USE DEF ReconcilePC
  <1>1. CASE Tick
    BY <1>1, TickTypes
  <1>2. ASSUME NEW n \in Controllers, Start(n)
        PROVE  TypeOK'
    BY <1>2 DEF TypeOK, Start, storeVars, localVars
  <1>3. ASSUME NEW n \in Controllers, Stop(n)
        PROVE  TypeOK'
    BY <1>3 DEF TypeOK, Stop, Ends, storeVars
  <1>4. ASSUME NEW n \in Controllers, NEW c \in Controllers, Read(n, c)
        PROVE  TypeOK'
    <2>1. /\ timers' \in [Controllers -> [Controllers -> SUBSET (Nat \ {0})]]
          /\ pc' \in [Controllers -> ReconcilePC]
      BY <1>4, ReadTypes DEF Read
    <2> QED  BY <1>4, <2>1 DEF TypeOK, Read, storeVars
  <1>5. ASSUME NEW n \in Controllers, Delete(n)
        PROVE  TypeOK'
    <2>1. about[n] \in Controllers
      BY DEF TypeOK
    <2>2. pending' \in [Controllers -> SUBSET Controllers]
      <3>1. CASE Notify(about[n])
        BY <2>1, <3>1, NotifyType
      <3>2. CASE Conflict(n)
        BY <3>2 DEF Conflict, TypeOK
      <3>3. CASE NotFound(n)
        BY <3>3 DEF NotFound, TypeOK
      <3> QED  BY <1>5, <3>1, <3>2, <3>3 DEF Delete
    <2> QED  BY <1>5, <2>1, <2>2
             DEF TypeOK, Delete, Conflict, NotFound, Written, Ends, storeVars
  <1>6. ASSUME NEW n \in Controllers, Renew(n)
        PROVE  TypeOK'
    <2>1. pending' \in [Controllers -> SUBSET Controllers]
      <3>1. CASE Notify(n)
        BY <3>1, NotifyType
      <3>2. CASE Conflict(n)
        BY <3>2 DEF Conflict, TypeOK
      <3>3. CASE NotFound(n)
        BY <3>3 DEF NotFound, TypeOK
      <3> QED  BY <1>6, <3>1, <3>2, <3>3 DEF Renew
    <2> QED  BY <1>6, <2>1, LeaseType
             DEF TypeOK, Renew, Conflict, NotFound, Written, Ends, storeVars
  <1>7. ASSUME NEW n \in Controllers, Create(n)
        PROVE  TypeOK'
    <2>1. pending' \in [Controllers -> SUBSET Controllers]
      BY <1>7, NotifyType DEF Create, TypeOK
    <2> QED  BY <1>7, <2>1, LeaseType
             DEF TypeOK, Create, Written, Ends, storeVars
  <1>8. ASSUME NEW n \in Controllers, WatchEnds(n)
        PROVE  TypeOK'
    BY <1>8 DEF TypeOK, WatchEnds, Listening, storeVars, queueVars, localVars
  <1>9. CASE UNCHANGED vars
    BY <1>9 DEF TypeOK, vars, storeVars, queueVars, localVars
  <1> QED  BY <1>1, <1>2, <1>3, <1>4, <1>5, <1>6, <1>7, <1>8, <1>9 DEF Next, Write

LEMMA TypeInitial ==
  ASSUME Init
  PROVE  TypeOK
  BY DEF Init, TypeOK, ReconcilePC

\* In every behaviour the variables have their types; above all, no requeue
\* has a delay of zero or less (controller.go:121-123 and :137-139).
THEOREM LeaseTypeCorrect == Spec => []TypeOK
  <1> QED  BY TypeInitial, TypeInductive, PTL DEF Spec

-----------------------------------------------------------------------------
(* Only expired entities are deleted.                                      *)

\* A controller about to delete an entity that is still the one it read sees
\* an expired lease: time only makes it older, and whatever extends the lease
\* also makes the copy old.
DeleteDue ==
  \A n \in Controllers :
    pc[n] = "delete" /\ Current(n) /\ about[n] \in entity
      => Expired(n, about[n])

LeaseInv == TypeOK /\ DeleteDue

LEMMA DueInitial ==
  ASSUME Init
  PROVE  DeleteDue
  BY DEF Init, DeleteDue, Current

LEMMA DueInductive ==
  ASSUME LeaseInv, [Next]_vars
  PROVE  DeleteDue'
  <1> SUFFICES ASSUME NEW m \in Controllers,
                      pc'[m] = "delete", m \in current', about'[m] \in entity'
               PROVE  left'[about'[m]] <= Skew[m]
    BY DEF DeleteDue, Current, Expired
  <1> USE SkewAssumption DEF LeaseInv, Expired, Current
  <1>1. CASE Tick
    <2>1. about[m] \in Controllers /\ left[about[m]] \in Nat /\ Skew[m] \in Nat
      BY DEF TypeOK
    <2>2. left[about[m]] <= Skew[m]
      BY <1>1 DEF DeleteDue, Tick, localVars
    <2>3. left'[about[m]] = IF left[about[m]] = 0 THEN 0 ELSE left[about[m]] - 1
      BY <1>1, <2>1 DEF Tick
    <2> QED  BY <1>1, <2>1, <2>2, <2>3 DEF Tick, localVars
  <1>2. ASSUME NEW n \in Controllers, Start(n)
        PROVE  left'[about'[m]] <= Skew[m]
    BY <1>2 DEF DeleteDue, Start, storeVars, localVars
  <1>3. ASSUME NEW n \in Controllers, Stop(n)
        PROVE  left'[about'[m]] <= Skew[m]
    <2>1. m # n
      BY <1>3 DEF Stop
    <2> QED  BY <1>3, <2>1 DEF DeleteDue, Stop, Ends, storeVars, TypeOK
  <1>4. ASSUME NEW n \in Controllers, NEW c \in Controllers, Read(n, c)
        PROVE  left'[about'[m]] <= Skew[m]
    <2>1. CASE m = n
      <3>1. about'[m] = c
        BY <1>4, <2>1 DEF Read, TypeOK
      <3>2. CASE ReadRemote(n, c)
        <4>1. Expired(n, c)
          BY <1>4, <2>1, <3>2 DEF ReadRemote, RequeueAfter, Ends, TypeOK
        <4> QED  BY <1>4, <2>1, <3>1, <4>1 DEF Read, storeVars
      <3>3. CASE ReadLocal(n, c)
        BY <1>4, <2>1, <3>3 DEF ReadLocal, RequeueAfter, Ends, TypeOK
      <3>4. CASE ReadNothing(n, c)
        BY <1>4, <2>1, <3>4 DEF ReadNothing, TypeOK
      <3> QED  BY <1>4, <3>2, <3>3, <3>4 DEF Read
    <2>2. CASE m # n
      <3>1. pc'[m] = pc[m]
        BY <1>4, <2>2 DEF Read, ReadRemote, ReadLocal, ReadNothing,
                          RequeueAfter, Ends, TypeOK
      <3> QED  BY <1>4, <2>2, <3>1 DEF DeleteDue, Read, storeVars, TypeOK
    <2> QED  BY <2>1, <2>2
  <1>5. ASSUME NEW n \in Controllers, Delete(n)
        PROVE  left'[about'[m]] <= Skew[m]
    <2>1. m # n
      BY <1>5 DEF Delete, Ends, TypeOK
    <2> QED  BY <1>5, <2>1 DEF DeleteDue, Delete, Conflict, NotFound, Written,
                               Ends, storeVars, TypeOK
  <1>6. ASSUME NEW n \in Controllers, Renew(n)
        PROVE  left'[about'[m]] <= Skew[m]
    <2>1. m # n
      BY <1>6 DEF Renew, Ends, TypeOK
    <2>2. pc'[m] = pc[m] /\ about' = about
      BY <1>6, <2>1 DEF Renew, Ends, TypeOK
    <2>3. CASE left' = Lease(n) /\ Written(n) /\ UNCHANGED entity
      <3>1. about[m] # n
        BY <2>3 DEF Written
      <3>2. left'[about[m]] = left[about[m]]
        BY <2>3, <3>1 DEF Lease, TypeOK
      <3> QED  BY <2>2, <2>3, <3>2 DEF DeleteDue, Written
    <2>4. CASE UNCHANGED <<storeVars, current>>
      BY <2>2, <2>4 DEF DeleteDue, storeVars
    <2> QED  BY <1>6, <2>3, <2>4 DEF Renew, Conflict, NotFound
  <1>7. ASSUME NEW n \in Controllers, Create(n)
        PROVE  left'[about'[m]] <= Skew[m]
    <2>1. m # n
      BY <1>7 DEF Create, Ends, TypeOK
    <2>2. pc'[m] = pc[m] /\ about' = about
      BY <1>7, <2>1 DEF Create, Ends, TypeOK
    <2>3. CASE entity' = entity \cup {n} /\ left' = Lease(n) /\ Written(n)
      <3>1. about[m] # n
        BY <2>3 DEF Written
      <3>2. left'[about[m]] = left[about[m]]
        BY <2>3, <3>1 DEF Lease, TypeOK
      <3> QED  BY <2>2, <2>3, <3>1, <3>2 DEF DeleteDue, Written
    <2>4. CASE UNCHANGED <<storeVars, current>>
      BY <2>2, <2>4 DEF DeleteDue, storeVars
    <2> QED  BY <1>7, <2>3, <2>4 DEF Create
  <1>8. ASSUME NEW n \in Controllers, WatchEnds(n)
        PROVE  left'[about'[m]] <= Skew[m]
    BY <1>8 DEF DeleteDue, WatchEnds, storeVars, localVars
  <1>9. CASE UNCHANGED vars
    BY <1>9 DEF DeleteDue, vars, storeVars, localVars
  <1> QED  BY <1>1, <1>2, <1>3, <1>4, <1>5, <1>6, <1>7, <1>8, <1>9 DEF Next, Write

\* What a step takes out of the store had expired.
LEMMA DeletedIsExpired ==
  ASSUME LeaseInv, [Next]_vars, NEW c \in entity \ entity'
  PROVE  \E n \in Controllers : Expired(n, c)
  <1>1. CASE \E n \in Controllers : Delete(n)
    <2>1. PICK n \in Controllers : Delete(n)
      BY <1>1
    <2>2. c = about[n] /\ Current(n) /\ pc[n] = "delete"
      BY <2>1 DEF Delete, Conflict, NotFound, storeVars
    <2> QED  BY <2>2 DEF LeaseInv, DeleteDue
  <1>2. CASE ~ \E n \in Controllers : Delete(n)
    BY <1>2 DEF Next, Write, Tick, Start, Stop, WatchEnds, Read, Renew, Create, Conflict,
                NotFound, vars, storeVars
  <1> QED  BY <1>1, <1>2

\* A CONTROLLER entity is deleted only while its lease is expired on the clock
\* of some controller (controller.go:108-118), for any number of controllers,
\* any clocks, and reconciles of any duration.
THEOREM DeletionsAreDue == Spec => OnlyExpiredDeleted
  <1>1. Init => LeaseInv
    BY TypeInitial, DueInitial DEF LeaseInv
  <1>2. LeaseInv /\ [Next]_vars => LeaseInv'
    BY TypeInductive, DueInductive DEF LeaseInv
  <1>3. LeaseInv /\ [Next]_vars
          => [\A c \in entity \ entity' : \E n \in Controllers : Expired(n, c)]_vars
    BY DeletedIsExpired
  <1> QED  BY <1>1, <1>2, <1>3, PTL DEF Spec, OnlyExpiredDeleted

-----------------------------------------------------------------------------
(* A prompt controller keeps its lease.  At any time something will make it  *)
(* look at its own entity in time: the ID in its queue, a reconcile of it    *)
(* that has begun, or a timer that runs out when half of the lease is left.  *)

RenewalDue(c) ==
  \/ c \in pending[c]
  \/ pc[c] # "idle" /\ about[c] = c
  \/ \E t \in timers[c][c] : left[c] >= Skew[c] + Half + t

RenewalsDue == \A c \in Listening \cap entity : RenewalDue(c)

\* Nobody deletes its own entity, and nobody else creates it.
OwnEntity ==
  \A c \in Controllers :
    about[c] = c => pc[c] # "delete" /\ (pc[c] = "create" => c \notin entity)

KeepInv == TypeOK /\ OwnEntity /\ RenewalsDue

LEMMA KeepInitial ==
  ASSUME Init
  PROVE  OwnEntity /\ RenewalsDue
  BY DEF Init, OwnEntity, RenewalsDue

\* A step of another controller that does not touch the entity of c.
LEMMA DueFrame ==
  ASSUME NEW c \in Controllers, RenewalDue(c),
         pending[c] \subseteq pending'[c], pc'[c] = pc[c], about'[c] = about[c],
         timers'[c][c] = timers[c][c], left'[c] = left[c]
  PROVE  RenewalDue(c)'
  BY DEF RenewalDue

\* What the reconcile of an ID by n decides.
LEMMA ReadCases ==
  ASSUME NEW n \in Controllers, NEW c \in Controllers,
         ReadRemote(n, c) \/ ReadLocal(n, c) \/ ReadNothing(n, c)
  PROVE  /\ \E p \in ReconcilePC : pc' = [pc EXCEPT ![n] = p]
         /\ timers' = timers \/ \E d : timers' = [timers EXCEPT ![n][c] = @ \cup {d}]
  BY DEF ReadRemote, ReadLocal, ReadNothing, RequeueAfter, Ends, ReconcilePC

LEMMA OwnInductive ==
  ASSUME TypeOK, OwnEntity, [Next]_vars
  PROVE  OwnEntity'
  <1> SUFFICES ASSUME NEW m \in Controllers, about'[m] = m
               PROVE  pc'[m] # "delete" /\ (pc'[m] = "create" => m \notin entity')
    BY DEF OwnEntity
  <1>1. CASE Tick
    BY <1>1 DEF OwnEntity, Tick, localVars
  <1>2. ASSUME NEW n \in Controllers, Start(n)
        PROVE  pc'[m] # "delete" /\ (pc'[m] = "create" => m \notin entity')
    BY <1>2 DEF OwnEntity, Start, storeVars, localVars
  <1>3. ASSUME NEW n \in Controllers, Stop(n)
        PROVE  pc'[m] # "delete" /\ (pc'[m] = "create" => m \notin entity')
    BY <1>3 DEF OwnEntity, Stop, Ends, storeVars, TypeOK
  <1>4. ASSUME NEW n \in Controllers, NEW c \in Controllers, Read(n, c)
        PROVE  pc'[m] # "delete" /\ (pc'[m] = "create" => m \notin entity')
    <2>1. CASE m = n
      <3>1. c = m
        BY <1>4, <2>1 DEF Read, TypeOK
      <3>q. QED
        BY <1>4, <2>1, <3>1 DEF Read, ReadRemote, ReadLocal, ReadNothing, RequeueAfter,
                                Ends, storeVars, TypeOK
    <2>2. CASE m # n
      <3>1. pc'[m] = pc[m] /\ about'[m] = about[m] /\ entity' = entity
        BY <1>4, <2>2, ReadCases DEF Read, storeVars, TypeOK
      <3>q. QED BY <3>1 DEF OwnEntity
    <2>q. QED BY <2>1, <2>2
  <1>5. ASSUME NEW n \in Controllers, Write(n)
        PROVE  pc'[m] # "delete" /\ (pc'[m] = "create" => m \notin entity')
    <2>1. pc' = [pc EXCEPT ![n] = "idle"] /\ about' = about /\ entity' \subseteq entity \cup {n}
      BY <1>5 DEF Write, Delete, Renew, Create, Conflict, NotFound, Ends, storeVars
    <2>2. CASE m = n BY <2>1, <2>2 DEF TypeOK
    <2>3. CASE m # n BY <2>1, <2>3 DEF OwnEntity, TypeOK
    <2>q. QED BY <2>2, <2>3
  <1>6. ASSUME NEW n \in Controllers, WatchEnds(n)
        PROVE  pc'[m] # "delete" /\ (pc'[m] = "create" => m \notin entity')
    BY <1>6 DEF OwnEntity, WatchEnds, storeVars, localVars
  <1>7. CASE UNCHANGED vars
    BY <1>7 DEF OwnEntity, vars, storeVars, localVars
  <1>q. QED BY <1>1, <1>2, <1>3, <1>4, <1>5, <1>6, <1>7 DEF Next

\* A timer loses a tick with the lease, or it runs out.
LEMMA DueTick ==
  ASSUME TypeOK, NEW c \in Controllers, RenewalDue(c), Tick
  PROVE  RenewalDue(c)'
  <1> USE HalfAssumption, SkewAssumption
  <1>1. CASE c \in pending[c] \/ (pc[c] # "idle" /\ about[c] = c)
    BY <1>1 DEF RenewalDue, Tick, localVars
  <1>2. ASSUME NEW t \in timers[c][c], left[c] >= Skew[c] + Half + t
        PROVE  RenewalDue(c)'
    <2>1. t \in Nat \ {0} /\ left[c] \in Nat /\ Skew[c] \in Nat
      BY DEF TypeOK
    <2>2. CASE t = 1
      BY <2>2 DEF RenewalDue, Tick
    <2>3. CASE t # 1
      <3>1. t - 1 \in timers'[c][c]
        BY <2>3 DEF Tick
      <3>2. left'[c] = left[c] - 1
        BY <1>2, <2>1 DEF Tick
      <3>3. left'[c] >= Skew[c] + Half + (t - 1)
        BY <1>2, <2>1, <3>2
      <3>q. QED BY <3>1, <3>3 DEF RenewalDue
    <2>q. QED BY <2>2, <2>3
  <1>q. QED BY <1>1, <1>2 DEF RenewalDue

\* A reconcile of its own entity leaves c renewing it, or with a timer.
LEMMA DueRead ==
  ASSUME TypeOK, NEW c \in entity, RenewalDue(c),
         NEW n \in Controllers, NEW d \in Controllers, Read(n, d)
  PROVE  RenewalDue(c)'
  <1> USE HalfAssumption, SkewAssumption DEF TypeOK
  <1>1. /\ \E p \in ReconcilePC : pc' = [pc EXCEPT ![n] = p]
        /\ timers' = timers \/ \E e : timers' = [timers EXCEPT ![n][d] = @ \cup {e}]
        /\ pc[n] = "idle" /\ left' = left
        /\ pending' = [pending EXCEPT ![n] = @ \ {d}] /\ about' = [about EXCEPT ![n] = d]
    BY ReadCases DEF Read, storeVars
  <1>2. CASE c # n
    BY <1>1, <1>2, DueFrame
  <1>3. CASE c = n /\ d # c
    <2>1. CASE c \in pending[c]
      BY <1>1, <1>3, <2>1 DEF RenewalDue
    <2>2. ASSUME NEW t \in timers[c][c], left[c] >= Skew[c] + Half + t
          PROVE  RenewalDue(c)'
      <3>1. timers'[c][c] = timers[c][c]
        BY <1>1, <1>3
      <3>q. QED BY <1>1, <2>2, <3>1 DEF RenewalDue
    <2>q. QED BY <1>1, <1>3, <2>1, <2>2 DEF RenewalDue
  <1>4. CASE c = n /\ d = c
    <2>1. ReadLocal(c, c)
      BY <1>4 DEF Read, ReadRemote, ReadNothing
    <2>2. CASE pc' = [pc EXCEPT ![c] = "renew"]
      BY <1>1, <1>4, <2>2 DEF RenewalDue
    <2>3. CASE RequeueAfter(c, c, Remaining(c, c) - Half)
      <3>1. Remaining(c, c) - Half \in timers'[c][c]
        <4>1. timers[c] \in [Controllers -> SUBSET (Nat \ {0})]
          OBVIOUS
        <4>q. QED BY <2>3, <4>1 DEF RequeueAfter
      <3>2. left'[c] >= Skew[c] + Half + (Remaining(c, c) - Half)
        BY <1>1 DEF Remaining
      <3>q. QED BY <3>1, <3>2 DEF RenewalDue
    <2>q. QED BY <2>1, <2>2, <2>3 DEF ReadLocal
  <1>q. QED BY <1>2, <1>3, <1>4

\* A write is announced to its own writer as well; a write that fails is tried
\* again, and one that finds nothing has nothing to keep.
LEMMA DueWrite ==
  ASSUME TypeOK, OwnEntity, NEW c \in Listening \cap entity', c \in entity => RenewalDue(c),
         NEW n \in Controllers, Write(n)
  PROVE  RenewalDue(c)'
  <1> USE DEF TypeOK, Listening
  <1>1. /\ pc' = [pc EXCEPT ![n] = "idle"] /\ about' = about /\ timers' = timers
        /\ pc[n] # "idle"
    BY DEF Write, Delete, Renew, Create, Ends
  <1>2. CASE Notify(c)
    BY <1>2 DEF Notify, RenewalDue
  <1>3. CASE /\ c \in entity /\ left'[c] = left[c]
             /\ \A m \in Controllers : pending[m] \subseteq pending'[m]
             /\ n = c => about[c] # c \/ c \in pending'[c]
    <2>1. CASE n # c
      BY <1>1, <1>3, <2>1, DueFrame
    <2>2. CASE n = c
      BY <1>1, <1>3, <2>2 DEF RenewalDue
    <2>q. QED BY <2>1, <2>2
  <1>4. CASE Delete(n)
    <2>1. CASE /\ about[n] \in entity /\ Current(n) /\ entity' = entity \ {about[n]}
               /\ Notify(about[n]) /\ left' = left
      BY <1>3, <1>4, <2>1 DEF Notify, OwnEntity, Delete
    <2>2. CASE Conflict(n)
      BY <1>3, <1>4, <2>2 DEF Conflict, Delete, storeVars, OwnEntity
    <2>3. CASE NotFound(n)
      BY <1>3, <1>4, <2>3 DEF NotFound, Delete, storeVars, OwnEntity
    <2>q. QED BY <1>4, <2>1, <2>2, <2>3 DEF Delete
  <1>5. CASE Renew(n)
    <2>1. CASE left' = Lease(n) /\ Notify(n) /\ UNCHANGED entity
      BY <1>2, <1>3, <2>1 DEF Notify, Lease
    <2>2. CASE Conflict(n)
      BY <1>3, <1>5, <2>2 DEF Conflict, Renew, storeVars
    <2>3. CASE NotFound(n)
      BY <1>3, <1>5, <2>3 DEF NotFound, Renew, storeVars
    <2>q. QED BY <1>5, <2>1, <2>2, <2>3 DEF Renew
  <1>6. CASE Create(n)
    <2>1. CASE entity' = entity \cup {n} /\ left' = Lease(n) /\ Notify(n)
      BY <1>2, <1>3, <2>1 DEF Notify, Lease
    <2>2. CASE n \in entity /\ UNCHANGED <<storeVars, pending, current>>
      BY <1>3, <1>6, <2>2 DEF Create, storeVars, OwnEntity
    <2>q. QED BY <1>6, <2>1, <2>2 DEF Create
  <1>q. QED BY <1>4, <1>5, <1>6 DEF Write

LEMMA DuesInductive ==
  ASSUME KeepInv, [Next]_vars
  PROVE  RenewalsDue'
  <1> SUFFICES ASSUME NEW c \in Listening' \cap entity' PROVE RenewalDue(c)'
    BY DEF RenewalsDue
  <1> USE DEF KeepInv, TypeOK, Listening
  <1>0. c \in Listening /\ c \in entity => RenewalDue(c)
    BY DEF RenewalsDue
  <1>1. CASE Tick
    BY <1>0, <1>1, DueTick DEF Tick
  <1>2. ASSUME NEW n \in Controllers, Start(n) PROVE RenewalDue(c)'
    <2>1. CASE c = n BY <1>2, <2>1 DEF Start, RenewalDue
    <2>2. CASE c # n
      BY <1>0, <1>2, <2>2, DueFrame DEF Start, storeVars, localVars
    <2>q. QED BY <2>1, <2>2
  <1>3. ASSUME NEW n \in Controllers, Stop(n) PROVE RenewalDue(c)'
    BY <1>0, <1>3, DueFrame DEF Stop, Ends, storeVars
  <1>4. ASSUME NEW n \in Controllers, NEW d \in Controllers, Read(n, d) PROVE RenewalDue(c)'
    BY <1>0, <1>4, DueRead DEF Read, storeVars
  <1>5. ASSUME NEW n \in Controllers, Write(n) PROVE RenewalDue(c)'
    <2>1. Listening' = Listening
      BY <1>5 DEF Write, Delete, Renew, Create
    <2>q. QED BY <1>0, <1>5, <2>1, DueWrite
  <1>6. ASSUME NEW n \in Controllers, WatchEnds(n) PROVE RenewalDue(c)'
    BY <1>0, <1>6, DueFrame DEF WatchEnds, storeVars, queueVars, localVars
  <1>7. CASE UNCHANGED vars
    BY <1>0, <1>7, DueFrame DEF vars, storeVars, queueVars, localVars
  <1>q. QED BY <1>1, <1>2, <1>3, <1>4, <1>5, <1>6, <1>7 DEF Next

\* The lease of a controller that runs, whose watch of the store lasts and that has
\* nothing to do is not expired on anybody's clock (controller.go:134-162), for any
\* number of controllers and any clocks no two of which are half of a lease apart.
THEOREM LeasesAreKept == Spec => []LeaseKept
  <1>1. Init => KeepInv
    BY TypeInitial, KeepInitial DEF KeepInv
  <1>2. KeepInv /\ [Next]_vars => KeepInv'
    BY TypeInductive, OwnInductive, DuesInductive DEF KeepInv
  <1>3. KeepInv => LeaseKept
    <2> SUFFICES ASSUME KeepInv, NEW c \in Prompt \cap Listening \cap entity, ~ Busy(c),
                        NEW n \in Controllers
                 PROVE  ~ Expired(n, c)
      BY DEF LeaseKept
    <2>1. c \in Controllers /\ RenewalDue(c)
      BY DEF KeepInv, RenewalsDue, TypeOK, Listening
    <2>2. PICK t \in timers[c][c] : left[c] >= Skew[c] + Half + t
      BY <2>1 DEF Busy, RenewalDue
    <2>3. t \in Nat \ {0} /\ left[c] \in Nat /\ Skew[c] \in Nat /\ Skew[n] \in Nat
      BY <2>1, SkewAssumption DEF KeepInv, TypeOK
    <2>4. Skew[n] < Skew[c] + Half
      BY <2>1, ClockAssumption
    <2>q. QED BY <2>2, <2>3, <2>4, HalfAssumption DEF Expired
  <1>q. QED BY <1>1, <1>2, <1>3, PTL DEF Spec

-----------------------------------------------------------------------------
(* A controller that hears of the store is listed.  As long as its entity is *)
(* missing, its own ID is in its queue, or it is about to create it, whatever ID *)
(* made it find nothing.                                                     *)

CreationDue(c) == c \in pending[c] \/ pc[c] = "create"

CreationsDue == \A c \in Listening \ entity : CreationDue(c)

ListInv == TypeOK /\ OwnEntity /\ CreationsDue

\* A deletion is announced to the owner before anything else happens, and the
\* owner is never the one who deletes.
LEMMA CreationWrite ==
  ASSUME ListInv, NEW c \in Listening \ entity', NEW n \in Controllers, Write(n)
  PROVE  CreationDue(c)'
  <1> USE DEF ListInv, TypeOK, Listening
  <1>1. pc' = [pc EXCEPT ![n] = "idle"]
    BY DEF Write, Delete, Renew, Create, Ends
  <1>2. CASE Notify(c)
    BY <1>2 DEF Notify, CreationDue
  <1>3. CASE /\ c \notin entity
             /\ \A m \in Controllers : pending[m] \subseteq pending'[m]
             /\ n = c => pc[c] # "create"
    <2>1. CreationDue(c)
      BY <1>3 DEF CreationsDue
    <2> QED  BY <1>1, <1>3, <2>1 DEF CreationDue
  <1>4. CASE Delete(n)
    <2>1. CASE /\ about[n] \in entity /\ Current(n) /\ entity' = entity \ {about[n]}
               /\ Notify(about[n])
      BY <1>2, <1>3, <1>4, <2>1 DEF Notify, Delete
    <2>2. CASE Conflict(n)
      BY <1>3, <1>4, <2>2 DEF Conflict, Delete, storeVars
    <2>3. CASE NotFound(n)
      BY <1>3, <1>4, <2>3 DEF NotFound, Delete, storeVars
    <2> QED  BY <1>4, <2>1, <2>2, <2>3 DEF Delete
  <1>5. CASE Renew(n)
    <2>1. CASE Notify(n) /\ UNCHANGED entity
      BY <1>3, <1>5, <2>1 DEF Notify, Renew
    <2>2. CASE Conflict(n)
      BY <1>3, <1>5, <2>2 DEF Conflict, Renew, storeVars
    <2>3. CASE NotFound(n)
      BY <1>3, <1>5, <2>3 DEF NotFound, Renew, storeVars
    <2> QED  BY <1>5, <2>1, <2>2, <2>3 DEF Renew
  <1>6. CASE Create(n)
    <2>1. n \in entity' /\ entity \subseteq entity'
      BY <1>6 DEF Create, storeVars
    <2>2. \A m \in Controllers : pending[m] \subseteq pending'[m]
      BY <1>6 DEF Create, Notify
    <2> QED  BY <1>3, <2>1, <2>2
  <1> QED  BY <1>4, <1>5, <1>6 DEF Write

LEMMA CreationsInductive ==
  ASSUME ListInv, [Next]_vars
  PROVE  CreationsDue'
  <1> SUFFICES ASSUME NEW c \in Listening' \ entity'
               PROVE  CreationDue(c)'
    BY DEF CreationsDue
  <1> USE DEF ListInv, TypeOK, Listening
  <1>0. c \in Listening /\ c \notin entity => CreationDue(c)
    BY DEF CreationsDue
  <1>1. CASE Tick
    BY <1>0, <1>1 DEF Tick, localVars, CreationDue
  <1>2. ASSUME NEW n \in Controllers, Start(n)
        PROVE  CreationDue(c)'
    BY <1>0, <1>2 DEF Start, storeVars, localVars, CreationDue
  <1>3. ASSUME NEW n \in Controllers, Stop(n)
        PROVE  CreationDue(c)'
    BY <1>0, <1>3 DEF Stop, Ends, storeVars, CreationDue
  <1>4. ASSUME NEW n \in Controllers, NEW d \in Controllers, Read(n, d)
        PROVE  CreationDue(c)'
    <2>1. /\ c \in Listening /\ c \notin entity /\ pc[n] = "idle"
          /\ pending' = [pending EXCEPT ![n] = @ \ {d}]
      BY <1>4 DEF Read, storeVars
    <2>2. CASE d = c
      <3>1. ReadNothing(n, c)
        BY <1>4, <2>1, <2>2 DEF Read, ReadRemote, ReadLocal
      <3> QED  BY <1>0, <2>1, <2>2, <3>1 DEF ReadNothing, CreationDue
    <2>3. CASE d # c
      <3>1. c # n => pc'[c] = pc[c]
        BY <1>4, ReadCases DEF Read
      <3> QED  BY <1>0, <2>1, <2>3, <3>1 DEF CreationDue
    <2> QED  BY <2>2, <2>3
  <1>5. ASSUME NEW n \in Controllers, Write(n)
        PROVE  CreationDue(c)'
    <2>1. Listening' = Listening
      BY <1>5 DEF Write, Delete, Renew, Create
    <2> QED  BY <1>5, <2>1, CreationWrite
  <1>6. ASSUME NEW n \in Controllers, WatchEnds(n)
        PROVE  CreationDue(c)'
    BY <1>0, <1>6 DEF WatchEnds, storeVars, queueVars, localVars, CreationDue
  <1>7. CASE UNCHANGED vars
    BY <1>0, <1>7 DEF vars, storeVars, queueVars, localVars, CreationDue
  <1> QED  BY <1>1, <1>2, <1>3, <1>4, <1>5, <1>6, <1>7 DEF Next

\* A controller whose watch lasts and that has nothing to do is in the store
\* (controller.go:165-174 and watcher.go:45), however often it is started and
\* stopped and whoever deletes the entity in the meantime.
LEMMA RunningAreListed == Spec => []SettledListed
  <1>1. Init => ListInv
    BY TypeInitial, KeepInitial DEF ListInv, CreationsDue, Init, Listening
  <1>2. ListInv /\ [Next]_vars => ListInv'
    BY TypeInductive, OwnInductive, CreationsInductive DEF ListInv
  <1>3. ListInv => SettledListed
    BY DEF ListInv, CreationsDue, CreationDue, SettledListed, Busy, TypeOK, Listening
  <1> QED  BY <1>1, <1>2, <1>3, PTL DEF Spec

-----------------------------------------------------------------------------
(* No expired lease is overlooked.  Each one that hears of the store returns to *)
(* the entity of every other one before its lease expires: the ID is in its   *)
(* queue, it is about to delete the entity, or one of its timers runs out no  *)
(* later than the lease.                                                      *)

ExpiryDue(n, c) ==
  \/ c \in pending[n]
  \/ pc[n] = "delete" /\ about[n] = c
  \/ \E t \in timers[n][c] : left[c] >= Skew[n] + t

ExpiriesDue == \A n \in Listening : \A c \in entity \ {n} : ExpiryDue(n, c)

WatchInv == TypeOK /\ ExpiriesDue

\* A step that takes nothing from n and leaves the lease of c alone.
LEMMA ExpiryFrame ==
  ASSUME NEW n \in Controllers, NEW c \in Controllers, ExpiryDue(n, c),
         pending[n] \subseteq pending'[n], pc'[n] = pc[n], about'[n] = about[n],
         timers'[n][c] = timers[n][c], left'[c] = left[c]
  PROVE  ExpiryDue(n, c)'
  BY DEF ExpiryDue

\* Timers and leases lose their ticks together.
LEMMA ExpiryTick ==
  ASSUME TypeOK, NEW n \in Controllers, NEW c \in Controllers, ExpiryDue(n, c), Tick
  PROVE  ExpiryDue(n, c)'
  <1> USE SkewAssumption
  <1>1. CASE c \in pending[n] \/ (pc[n] = "delete" /\ about[n] = c)
    BY <1>1 DEF ExpiryDue, Tick, localVars
  <1>2. ASSUME NEW t \in timers[n][c], left[c] >= Skew[n] + t
        PROVE  ExpiryDue(n, c)'
    <2>1. t \in Nat \ {0} /\ left[c] \in Nat /\ Skew[n] \in Nat
      BY DEF TypeOK
    <2>2. CASE t = 1
      BY <2>2 DEF ExpiryDue, Tick
    <2>3. CASE t # 1
      <3>1. t - 1 \in timers'[n][c]
        BY <2>3 DEF Tick
      <3>2. left'[c] = left[c] - 1
        BY <1>2, <2>1 DEF Tick
      <3>3. left'[c] >= Skew[n] + (t - 1)
        BY <1>2, <2>1, <3>2
      <3> QED  BY <3>1, <3>3 DEF ExpiryDue
    <2> QED  BY <2>2, <2>3
  <1> QED  BY <1>1, <1>2 DEF ExpiryDue

\* A reconcile of the entity of another controller ends in a delete, or in a
\* timer for what is left of the lease.
LEMMA ExpiryRead ==
  ASSUME TypeOK, NEW m \in Controllers, NEW c \in entity \ {m}, ExpiryDue(m, c),
         NEW n \in Controllers, NEW d \in Controllers, Read(n, d)
  PROVE  ExpiryDue(m, c)'
  <1> USE SkewAssumption DEF TypeOK
  <1>1. /\ \E p \in ReconcilePC : pc' = [pc EXCEPT ![n] = p]
        /\ timers' = timers \/ \E e : timers' = [timers EXCEPT ![n][d] = @ \cup {e}]
        /\ pc[n] = "idle" /\ left' = left
        /\ pending' = [pending EXCEPT ![n] = @ \ {d}] /\ about' = [about EXCEPT ![n] = d]
    BY ReadCases DEF Read, storeVars
  <1>2. CASE m # n
    BY <1>1, <1>2, ExpiryFrame
  <1>3. CASE m = n /\ d # c
    <2>1. CASE c \in pending[m]
      BY <1>1, <1>3, <2>1 DEF ExpiryDue
    <2>2. ASSUME NEW t \in timers[m][c], left[c] >= Skew[m] + t
          PROVE  ExpiryDue(m, c)'
      <3>1. timers'[m][c] = timers[m][c]
        BY <1>1, <1>3
      <3> QED  BY <1>1, <2>2, <3>1 DEF ExpiryDue
    <2> QED  BY <1>1, <1>3, <2>1, <2>2 DEF ExpiryDue
  <1>4. CASE m = n /\ d = c
    <2>1. ReadRemote(m, c)
      BY <1>4 DEF Read, ReadLocal, ReadNothing
    <2>2. CASE pc' = [pc EXCEPT ![m] = "delete"]
      BY <1>1, <1>4, <2>2 DEF ExpiryDue
    <2>3. CASE RequeueAfter(m, c, Remaining(m, c))
      <3>1. Remaining(m, c) \in timers'[m][c]
        <4>1. timers[m] \in [Controllers -> SUBSET (Nat \ {0})]
          OBVIOUS
        <4> QED  BY <2>3, <4>1 DEF RequeueAfter
      <3>2. left'[c] >= Skew[m] + Remaining(m, c)
        BY <1>1 DEF Remaining
      <3> QED  BY <3>1, <3>2 DEF ExpiryDue
    <2> QED  BY <2>1, <2>2, <2>3 DEF ReadRemote
  <1> QED  BY <1>2, <1>3, <1>4

\* A write of an entity is announced to everyone that runs, and a delete that
\* was refused is tried again.
LEMMA ExpiryWrite ==
  ASSUME WatchInv, NEW m \in Listening, NEW c \in entity' \ {m},
         NEW n \in Controllers, Write(n)
  PROVE  ExpiryDue(m, c)'
  <1> USE DEF WatchInv, TypeOK, Listening
  <1>1. /\ pc' = [pc EXCEPT ![n] = "idle"] /\ about' = about /\ timers' = timers
        /\ pc[n] # "idle"
    BY DEF Write, Delete, Renew, Create, Ends
  <1>2. CASE Notify(c)
    BY <1>2 DEF Notify, ExpiryDue
  <1>3. CASE /\ c \in entity /\ left'[c] = left[c]
             /\ \A k \in Controllers : pending[k] \subseteq pending'[k]
             /\ n = m /\ pc[m] = "delete" => about[m] # c \/ c \in pending'[m]
    <2>1. ExpiryDue(m, c)
      BY <1>3 DEF ExpiriesDue
    <2>2. CASE n # m
      BY <1>1, <1>3, <2>1, <2>2, ExpiryFrame
    <2>3. CASE n = m
      BY <1>1, <1>3, <2>1, <2>3 DEF ExpiryDue
    <2> QED  BY <2>2, <2>3
  <1>4. CASE Delete(n)
    <2>1. CASE /\ about[n] \in entity /\ Current(n) /\ entity' = entity \ {about[n]}
               /\ Notify(about[n]) /\ left' = left
      BY <1>3, <1>4, <2>1 DEF Notify, Delete
    <2>2. CASE Conflict(n)
      BY <1>3, <1>4, <2>2 DEF Conflict, Delete, storeVars
    <2>3. CASE NotFound(n)
      BY <1>3, <1>4, <2>3 DEF NotFound, Delete, storeVars
    <2> QED  BY <1>4, <2>1, <2>2, <2>3 DEF Delete
  <1>5. CASE Renew(n)
    <2>1. CASE left' = Lease(n) /\ Notify(n) /\ UNCHANGED entity
      BY <1>2, <1>3, <1>5, <2>1 DEF Notify, Lease, Renew
    <2>2. CASE Conflict(n)
      BY <1>3, <1>5, <2>2 DEF Conflict, Renew, storeVars
    <2>3. CASE NotFound(n)
      BY <1>3, <1>5, <2>3 DEF NotFound, Renew, storeVars
    <2> QED  BY <1>5, <2>1, <2>2, <2>3 DEF Renew
  <1>6. CASE Create(n)
    <2>1. CASE entity' = entity \cup {n} /\ left' = Lease(n) /\ Notify(n)
      BY <1>2, <1>3, <1>6, <2>1 DEF Notify, Lease, Create
    <2>2. CASE n \in entity /\ UNCHANGED <<storeVars, pending, current>>
      BY <1>3, <1>6, <2>2 DEF Create, storeVars
    <2> QED  BY <1>6, <2>1, <2>2 DEF Create
  <1> QED  BY <1>4, <1>5, <1>6 DEF Write

LEMMA ExpiriesInductive ==
  ASSUME WatchInv, [Next]_vars
  PROVE  ExpiriesDue'
  <1> SUFFICES ASSUME NEW m \in Listening', NEW c \in entity' \ {m}
               PROVE  ExpiryDue(m, c)'
    BY DEF ExpiriesDue
  <1> USE DEF WatchInv, TypeOK, Listening
  <1>0. m \in Listening /\ c \in entity => ExpiryDue(m, c)
    BY DEF ExpiriesDue
  <1>1. CASE Tick
    BY <1>0, <1>1, ExpiryTick DEF Tick
  <1>2. ASSUME NEW n \in Controllers, Start(n)
        PROVE  ExpiryDue(m, c)'
    <2>1. CASE m = n
      BY <1>2, <2>1 DEF Start, storeVars, ExpiryDue
    <2>2. CASE m # n
      BY <1>0, <1>2, <2>2, ExpiryFrame DEF Start, storeVars, localVars
    <2> QED  BY <2>1, <2>2
  <1>3. ASSUME NEW n \in Controllers, Stop(n)
        PROVE  ExpiryDue(m, c)'
    BY <1>0, <1>3, ExpiryFrame DEF Stop, Ends, storeVars
  <1>4. ASSUME NEW n \in Controllers, NEW d \in Controllers, Read(n, d)
        PROVE  ExpiryDue(m, c)'
    BY <1>0, <1>4, ExpiryRead DEF Read, storeVars
  <1>5. ASSUME NEW n \in Controllers, Write(n)
        PROVE  ExpiryDue(m, c)'
    <2>1. Listening' = Listening
      BY <1>5 DEF Write, Delete, Renew, Create
    <2> QED  BY <1>5, <2>1, ExpiryWrite
  <1>6. ASSUME NEW n \in Controllers, WatchEnds(n)
        PROVE  ExpiryDue(m, c)'
    BY <1>0, <1>6, ExpiryFrame DEF WatchEnds, storeVars, queueVars, localVars
  <1>7. CASE UNCHANGED vars
    BY <1>0, <1>7, ExpiryFrame DEF vars, storeVars, queueVars, localVars
  <1> QED  BY <1>1, <1>2, <1>3, <1>4, <1>5, <1>6, <1>7 DEF Next

\* A controller whose watch lasts and that is idle sees no expired lease of another
\* one (controller.go:108-123), for any clocks, however old the copies are that
\* the deletes were attempted with.
LEMMA ExpiredAreSeen == Spec => []NoneOverdue
  <1>1. Init => WatchInv
    BY TypeInitial DEF WatchInv, ExpiriesDue, Init, Listening
  <1>2. WatchInv /\ [Next]_vars => WatchInv'
    BY TypeInductive, ExpiriesInductive DEF WatchInv
  <1>3. WatchInv => NoneOverdue
    <2> SUFFICES ASSUME WatchInv, NEW n \in Listening, NEW c \in entity \ {n}, ~ Busy(n)
                 PROVE  ~ Expired(n, c)
      BY DEF NoneOverdue
    <2>1. n \in Controllers /\ c \in Controllers /\ ExpiryDue(n, c)
      BY DEF WatchInv, ExpiriesDue, TypeOK, Listening
    <2>2. PICK t \in timers[n][c] : left[c] >= Skew[n] + t
      BY <2>1 DEF Busy, ExpiryDue
    <2>3. t \in Nat \ {0} /\ left[c] \in Nat /\ Skew[n] \in Nat
      BY <2>1, SkewAssumption DEF WatchInv, TypeOK
    <2> QED  BY <2>2, <2>3 DEF Expired
  <1> QED  BY <1>1, <1>2, <1>3, PTL DEF Spec

\* A controller whose watch of the store lasts, with an empty queue and no reconcile
\* under way, is listed and has seen every lease that is expired on its clock
\* (controller.go:100-178), for any number of controllers and any clocks.
THEOREM NothingIsOverlooked == Spec => []NothingOverlooked
  BY RunningAreListed, ExpiredAreSeen, PTL DEF NothingOverlooked
=============================================================================
