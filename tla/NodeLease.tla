-------------------------------- MODULE NodeLease ------------------------------
(***************************************************************************)
(* The node controller (pkg/controller/node): every instance of an         *)
(* application keeps a CONTROLLER entity with a lease in the topology      *)
(* store, renews it when half of it is left, and deletes the entities of   *)
(* the others once their leases have expired.                              *)
(*                                                                         *)
(* Time is counted in ticks, and a lease by the ticks that are left of it  *)
(* on the slowest clock; skew[n] is how far the clock of n is ahead of     *)
(* that one.  A tick stands for the instants that follow it: a timer of    *)
(* exactly the time that is left fires when nothing is left.               *)
(***************************************************************************)
EXTENDS Naturals

CONSTANTS
  Controllers,   \* instances of the application
  Half,          \* defaultExpirationDuration / 2, in ticks
  Skew,          \* how far the clock of each controller is ahead
  Prompt         \* those whose reconciles take no time, as far as ticks can tell

ASSUME HalfAssumption   == Half \in Nat \ {0}
ASSUME SkewAssumption   == Skew \in [Controllers -> Nat]
ASSUME PromptAssumption == Prompt \subseteq Controllers

\* No clock is ahead of another one by half of the lease.
ASSUME ClockAssumption ==
  \A n, m \in Controllers : Skew[n] < Skew[m] + Half

VARIABLES
  entity,    \* controllers that have an entity in the store
  left,      \* ticks left of the lease in it, on the slowest clock
  alive,     \* controllers that run
  deaf,      \* those of them whose watch of the store has ended
  pending,   \* IDs in the work queue of each controller
  timers,    \* for each controller and ID, the delays of its RequeueAfters
  pc,        \* where the reconcile of each controller stands
  about,     \* the ID it is about
  current    \* controllers whose copy of that entity has its revision

storeVars == <<entity, left>>
queueVars == <<pending, timers>>
localVars == <<pc, about>>
vars == <<storeVars, alive, deaf, queueVars, localVars, current>>

-----------------------------------------------------------------------------

ReconcilePC == {"idle", "create", "renew", "delete"}

\* Every variable has its type.
TypeOK ==
  /\ entity  \in SUBSET Controllers
  /\ left    \in [Controllers -> Nat]
  /\ alive   \in SUBSET Controllers
  /\ deaf    \in SUBSET alive
  /\ pending \in [Controllers -> SUBSET Controllers]
  /\ timers  \in [Controllers -> [Controllers -> SUBSET (Nat \ {0})]]
  /\ pc      \in [Controllers -> ReconcilePC]
  /\ about   \in [Controllers -> Controllers]
  /\ current \in SUBSET Controllers

\* Controllers that hear of what changes in the store.
Listening == alive \ deaf

Init ==
  /\ entity  = {}
  /\ left    = [c \in Controllers |-> 0]
  /\ alive   = {}
  /\ deaf    = {}
  /\ pending = [n \in Controllers |-> {}]
  /\ timers  = [n \in Controllers |-> [c \in Controllers |-> {}]]
  /\ pc      = [n \in Controllers |-> "idle"]
  /\ about   = [n \in Controllers |-> n]
  /\ current = {}

\* (mutant) The watcher skips the events of the instance's own entity.
NotifyOthers(c) ==
  pending' = [m \in Controllers |->
                IF m \in Listening THEN pending[m] \cup ({c} \ {m}) ELSE pending[m]]

\* TopoWatcher: an event of the entity of c, also the removal of it, puts c in
\* the work queue of every controller that runs and whose watch has not ended.
Notify(c) ==
  pending' = [m \in Controllers |->
                IF m \in Listening THEN pending[m] \cup {c} ELSE pending[m]]

\* A write of the entity of c makes the copies of it old.
Written(c) == current' = {m \in current : about[m] # c}

Ends(n) == pc' = [pc EXCEPT ![n] = "idle"]

\* The reconcile ends with a RequeueAfter.
RequeueAfter(n, c, delay) ==
  /\ Ends(n)
  /\ timers' = [timers EXCEPT ![n][c] = @ \cup {delay}]

\* What n reads off its own clock: the lease of c has expired ...
Expired(n, c) == left[c] <= Skew[n]

\* ... or so much of it is left.
Remaining(n, c) == left[c] - Skew[n]

-----------------------------------------------------------------------------
(* Processes and time.                                                     *)

\* A controller starts: the watcher enqueues its own ID, then those of the
\* entities there are.
Start(n) ==
  /\ n \notin alive
  /\ alive'   = alive \cup {n}
  /\ pending' = [pending EXCEPT ![n] = {n} \cup entity]
  /\ UNCHANGED <<storeVars, deaf, timers, localVars, current>>

\* A controller stops, and everything in its memory is gone.
Stop(n) ==
  /\ n \in alive
  /\ alive'   = alive \ {n}
  /\ deaf'    = deaf \ {n}
  /\ pending' = [pending EXCEPT ![n] = {}]
  /\ timers'  = [timers EXCEPT ![n] = [c \in Controllers |-> {}]]
  /\ current' = current \ {n}
  /\ about'   = [about EXCEPT ![n] = n]
  /\ Ends(n)
  /\ UNCHANGED storeVars

\* The watch of the store ends: Recv fails, topoClient.Watch closes the channel of
\* events, and the loop of the watcher is left.  What is in the work queue stays,
\* timers go on, but no event reaches the controller any more: the watcher is not
\* started a second time.  (Events lost on the way are those of a watch that has
\* ended before them.)
WatchEnds(n) ==
  /\ n \in Listening
  /\ deaf' = deaf \cup {n}
  /\ UNCHANGED <<storeVars, alive, queueVars, localVars, current>>

Busy(n) == pending[n] # {} \/ pc[n] # "idle"

\* Time passes; the timers that run out put their IDs in the work queue.
Tick ==
  /\ \A n \in Prompt : ~ Busy(n)
  /\ left'    = [c \in Controllers |-> IF left[c] = 0 THEN 0 ELSE left[c] - 1]
  /\ timers'  = [n \in Controllers |-> [c \in Controllers |->
                   {t - 1 : t \in timers[n][c] \ {1}}]]
  /\ pending' = [n \in Controllers |->
                   pending[n] \cup {c \in Controllers : 1 \in timers[n][c]}]
  /\ UNCHANGED <<entity, alive, deaf, localVars, current>>

-----------------------------------------------------------------------------
(* Reconcile.                                                              *)

\* (mutant) The entity of another controller that has not expired is left alone.
ReadRemoteOnce(n, c) ==
  /\ c # n
  /\ c \in entity
  /\ pc' = [pc EXCEPT ![n] = IF Expired(n, c) THEN "delete" ELSE "idle"]
  /\ UNCHANGED timers

\* The entity of another controller: delete it, or come back when it expires.
ReadRemote(n, c) ==
  /\ c # n
  /\ c \in entity
  /\ \/ /\ Expired(n, c)
        /\ pc' = [pc EXCEPT ![n] = "delete"]
        /\ UNCHANGED timers
     \/ /\ ~ Expired(n, c)
        /\ RequeueAfter(n, c, Remaining(n, c))

\* (mutant) The requeue is for the expiry of the lease, not for half of it.
ReadLocalLate(n, c) ==
  /\ c = n
  /\ c \in entity
  /\ \/ /\ left[c] <= Skew[n] + Half
        /\ pc' = [pc EXCEPT ![n] = "renew"]
        /\ UNCHANGED timers
     \/ /\ left[c] > Skew[n] + Half
        /\ RequeueAfter(n, c, Remaining(n, c))

\* (mutant) A lease with exactly half of it left is not renewed either.
ReadLocalBelowHalf(n, c) ==
  /\ c = n
  /\ c \in entity
  /\ \/ /\ left[c] < Skew[n] + Half
        /\ pc' = [pc EXCEPT ![n] = "renew"]
        /\ UNCHANGED timers
     \/ /\ left[c] >= Skew[n] + Half
        /\ RequeueAfter(n, c, Remaining(n, c) - Half)

\* The own entity: renew it, or come back when half of the lease is left.
ReadLocal(n, c) ==
  /\ c = n
  /\ c \in entity
  /\ \/ /\ left[c] <= Skew[n] + Half
        /\ pc' = [pc EXCEPT ![n] = "renew"]
        /\ UNCHANGED timers
     \/ /\ left[c] > Skew[n] + Half
        /\ RequeueAfter(n, c, Remaining(n, c) - Half)

\* No entity, whosever it was: the own one is created.
ReadNothing(n, c) ==
  /\ c \notin entity
  /\ pc' = [pc EXCEPT ![n] = "create"]
  /\ UNCHANGED timers

\* topo.Get of the entity of c, and what follows from it.
Read(n, c) ==
  /\ pc[n] = "idle"
  /\ c \in pending[n]
  /\ pending' = [pending EXCEPT ![n] = @ \ {c}]
  /\ about'   = [about EXCEPT ![n] = c]
  /\ ReadRemote(n, c) \/ ReadLocal(n, c) \/ ReadNothing(n, c)
  /\ current' = current \cup {n}
  /\ UNCHANGED <<storeVars, alive, deaf>>

Lease(n) == [left EXCEPT ![n] = 2 * Half + Skew[n]]

\* (mutant) Writes do not carry the revision that was read.
AnyRevision(n) == TRUE

\* The entity has not been written since n read it.
Current(n) == n \in current

\* topo.Update and topo.Delete carry the revision that was read.  On a conflict
\* the reconcile fails, and is tried again.
Conflict(n) ==
  /\ about[n] \in entity
  /\ ~ Current(n)
  /\ pending' = [pending EXCEPT ![n] = @ \cup {about[n]}]
  /\ UNCHANGED <<storeVars, current>>

\* The entity is not there any more: nothing is left to do.
NotFound(n) ==
  /\ about[n] \notin entity
  /\ UNCHANGED <<storeVars, pending, current>>

Delete(n) ==
  /\ pc[n] = "delete"
  /\ \/ /\ about[n] \in entity
        /\ Current(n)
        /\ entity' = entity \ {about[n]}
        /\ Notify(about[n])
        /\ Written(about[n])
        /\ UNCHANGED left
     \/ Conflict(n)
     \/ NotFound(n)
  /\ Ends(n)
  /\ UNCHANGED <<alive, deaf, timers, about>>

Renew(n) ==
  /\ pc[n] = "renew"
  /\ \/ /\ n \in entity
        /\ Current(n)
        /\ left' = Lease(n)
        /\ Notify(n)
        /\ Written(n)
        /\ UNCHANGED entity
     \/ Conflict(n)
     \/ NotFound(n)
  /\ Ends(n)
  /\ UNCHANGED <<alive, deaf, timers, about>>

\* createControllerEntity; that there is one already is no error.
Create(n) ==
  /\ pc[n] = "create"
  /\ \/ /\ n \notin entity
        /\ entity' = entity \cup {n}
        /\ left'   = Lease(n)
        /\ Notify(n)
        /\ Written(n)
     \/ /\ n \in entity
        /\ UNCHANGED <<storeVars, pending, current>>
  /\ Ends(n)
  /\ UNCHANGED <<alive, deaf, timers, about>>

-----------------------------------------------------------------------------

Write(n) == Delete(n) \/ Renew(n) \/ Create(n)

Next ==
  \/ Tick
  \/ \E n \in Controllers : Start(n) \/ Stop(n) \/ WatchEnds(n) \/ Write(n)
  \/ \E n, c \in Controllers : Read(n, c)

Spec == Init /\ [][Next]_vars

\* Time passes, however often controllers start and stop; a reconcile comes to
\* its end; the work queue is a channel: an ID in it gets its turn.  That watches
\* end is possible, never due.
Fairness ==
  /\ SF_vars(Tick)
  /\ \A n \in Controllers : WF_vars(Write(n))
  /\ \A n, c \in Controllers : SF_vars(Read(n, c))

FairSpec == Spec /\ Fairness

-----------------------------------------------------------------------------
(* Properties.                                                             *)

\* A CONTROLLER entity is deleted only while its lease is expired on the clock
\* of some controller.  controller.go:109 checks the copy it read, the delete
\* (:111) comes later, and the owner may have renewed the lease in between: it
\* is the revision in topo.Delete (store/topo/store.go) that prevents it.
OnlyExpiredDeleted ==
  [][\A c \in entity \ entity' : \E n \in Controllers : Expired(n, c)]_vars

\* The lease of a controller that runs and whose reconciles are prompt is not
\* expired on anybody's clock, whoever is ahead of whom and however slow the
\* others are: the renewal at half of the lease (controller.go:134-162) comes
\* early enough, provided that no clock is ahead of another one by half of the
\* lease, and for as long as the watch lasts.  A renewal ends without a requeue
\* (:157-162), and what brings the next one is the event of its own write: without
\* the watch the lease is renewed once more at most, and then expires.
LeaseKept ==
  \A c \in Prompt \cap Listening \cap entity :
    ~ Busy(c) => \A n \in Controllers : ~ Expired(n, c)

\* Its own entity is in the store: the ID it starts with (watcher.go:45), the event
\* of a deletion by another controller, and the create that follows a read of
\* nothing (controller.go:165-174) leave no gap while the watch lasts.
SettledListed == \A c \in Listening : ~ Busy(c) => c \in entity

\* It sees no expired lease of another one: each entity is in its queue or comes
\* back when the lease runs out (controller.go:108-123).
NoneOverdue ==
  \A n \in Listening : \A c \in entity \ {n} : ~ Busy(n) => ~ Expired(n, c)

\* A controller that runs, whose watch lasts and that has nothing to do has nothing
\* left to do, whatever came between its reads and its writes: it is listed, and no
\* lease has expired unseen (controller.go:100-178).  It is what keeps LiveListed
\* and DeadForgotten from waiting forever.
NothingOverlooked == SettledListed /\ NoneOverdue

\* When a controller stops for good, one that runs and hears of the store gets rid
\* of its entity: the RequeueAfter of controller.go:121-123 is never lost, and a
\* delete that conflicts or comes too early is followed by another one.
DeadForgotten ==
  \A c, n \in Controllers :
    <>[](c \notin alive /\ n \in Listening) => <>[](c \notin entity)

\* A prompt controller that runs for good, and whose watch lasts, is in the topology
\* store for good from some time on, also when its entity was deleted by another
\* controller after it had stopped for a while (controller.go:165-176).
LiveListed ==
  \A c \in Prompt : <>[](c \in Listening) => <>[](c \in entity)
=============================================================================
