----------------------------- MODULE Scheduler -----------------------------
(***************************************************************************)
(* The worker's admission scheduler (worker/app/scheduler.py): a bounded   *)
(* queue of tickets in front of max_batch leases.  Each caller is a thread *)
(* that acquires a lease, holds it while its response streams, releases it *)
(* and may come again.                                                     *)
(*                                                                         *)
(* acquire polls: every wait of its loop is timed, so the events that      *)
(* release and a timeout set only make a waiter look sooner.  A turn of    *)
(* the loop that finds nothing to do changes no state and is a stuttering  *)
(* step here; one that does something is Grant or TimeOut.                 *)
(***************************************************************************)
EXTENDS Integers, Sequences, FiniteSets, SequencesExt

CONSTANTS
  Callers,      \* threads that call acquire
  Patient,      \* those that call it without a timeout
  Capacity,     \* tickets and leases together
  MaxBatch      \* leases

ASSUME SchedulerAssumption ==
  /\ Patient \subseteq Callers
  /\ Capacity \in Nat \ {0}
  /\ MaxBatch \in Nat \ {0}

VARIABLES
  queue,        \* _queue, the waiting tickets (a ticket is named by its caller)
  active,       \* _active, leases given and not released
  fresh,        \* tickets that arrived less than batch_wait_ms ago
  late,         \* tickets whose deadline has passed
  holders       \* callers that hold a lease not yet released

vars == <<queue, active, fresh, late, holders>>

Waiting == ToSet(queue)
Position(c) == CHOOSE i \in DOMAIN queue : queue[i] = c

Init ==
  /\ queue = <<>>
  /\ active = 0
  /\ fresh = {}
  /\ late = {}
  /\ holders = {}

\* A bug of Enqueue: the capacity off by one.
EnqueueOneTooMany(c) ==
  /\ c \notin Waiting \cup holders
  /\ Len(queue) + active <= Capacity
  /\ queue' = Append(queue, c)
  /\ fresh' = fresh \cup {c}
  /\ UNCHANGED <<active, late, holders>>

\* acquire, up to the loop.  At capacity it raises QueueFullError, which
\* changes nothing.
Enqueue(c) ==
  /\ c \notin Waiting \cup holders
  /\ Len(queue) + active < Capacity
  /\ queue' = Append(queue, c)
  /\ fresh' = fresh \cup {c}
  /\ UNCHANGED <<active, late, holders>>

Leave(c) ==
  /\ queue' = RemoveAt(queue, Position(c))
  /\ fresh' = fresh \ {c}
  /\ late' = late \ {c}

\* A bug of Lingers: the whole batch waits, for as long as the newest ticket.
LingersWithNewest(c) == active = 0 /\ Len(queue) > 1 /\ fresh # {}

\* The head of the queue lets a batch gather behind it.
Lingers(c) == Position(c) = 1 /\ active = 0 /\ c \in fresh /\ Len(queue) > 1

Grantable(c) == Position(c) <= MaxBatch /\ active < MaxBatch /\ ~Lingers(c)

\* Bugs of Grant: the lease not counted; the ticket left in the queue.
GrantUncounted(c) ==
  /\ c \in Waiting
  /\ Grantable(c)
  /\ Leave(c)
  /\ holders' = holders \cup {c}
  /\ UNCHANGED active
GrantKeepsTicket(c) ==
  /\ c \in Waiting
  /\ Grantable(c)
  /\ active' = active + 1
  /\ holders' = holders \cup {c}
  /\ UNCHANGED <<queue, fresh, late>>

Grant(c) ==
  /\ c \in Waiting
  /\ Grantable(c)
  /\ Leave(c)
  /\ active' = active + 1
  /\ holders' = holders \cup {c}

\* Bugs of TimeOut: a lease released that was never given; the deadline looked
\* at only by those behind the batch.
TimeOutReleases(c) ==
  /\ c \in Waiting \cap late
  /\ ~Grantable(c)
  /\ Leave(c)
  /\ active' = active - 1
  /\ UNCHANGED holders
TimeOutBehindBatch(c) ==
  /\ c \in Waiting \cap late
  /\ Position(c) > MaxBatch
  /\ Leave(c)
  /\ UNCHANGED <<active, holders>>

\* The wait has lasted too long: QueueFullError.
TimeOut(c) ==
  /\ c \in Waiting \cap late
  /\ ~Grantable(c)
  /\ Leave(c)
  /\ UNCHANGED <<active, holders>>

\* The scheduler takes a lease back.
GiveBack == active' = IF active > 0 THEN active - 1 ELSE active

\* A lease releases once, however often it is asked to.
Release(c) ==
  /\ c \in holders
  /\ holders' = holders \ {c}
  /\ GiveBack
  /\ UNCHANGED <<queue, fresh, late>>

\* Time passes: the batch wait, or the deadline, of a ticket is over.
Ripen(c) ==
  /\ c \in fresh
  /\ fresh' = fresh \ {c}
  /\ UNCHANGED <<queue, active, late, holders>>

Deadline(c) ==
  /\ c \in Waiting \ (late \cup Patient)
  /\ late' = late \cup {c}
  /\ UNCHANGED <<queue, active, fresh, holders>>

Next == \E c \in Callers :
  Enqueue(c) \/ Grant(c) \/ TimeOut(c) \/ Release(c) \/ Ripen(c) \/ Deadline(c)

\* Threads run and time passes; streams end, so leases are released.
Fairness == \A c \in Callers :
  /\ WF_vars(Grant(c) \/ TimeOut(c))
  /\ WF_vars(Release(c))
  /\ WF_vars(Ripen(c))
  /\ WF_vars(Deadline(c))

Spec == Init /\ [][Next]_vars
FairSpec == Spec /\ Fairness
-----------------------------------------------------------------------------
\* Type invariant.
TypeOK ==
  /\ queue \in Seq(Callers)
  /\ active \in Nat
  /\ fresh \subseteq Callers
  /\ late \subseteq Callers
  /\ holders \subseteq Callers

\* The count of active leases is the number of leases out, so that leaving by a
\* timeout, a refusal and a release never lets a slot leak or be given twice.
LeasesCounted == active = Cardinality(holders)

\* A caller that waits has one ticket in the queue and no lease: the ticket of
\* a waiting caller is never lost, the case acquire raises an error for.
OneTicketEach ==
  /\ Cardinality(Waiting) = Len(queue)
  /\ Waiting \cap holders = {}
  /\ fresh \cup late \subseteq Waiting

\* The bounds the scheduler is named for hold at every instant, whichever
\* waiters and newcomers meet in the queue.
Bounded == active <= MaxBatch /\ Len(queue) + active <= Capacity

\* A caller with a deadline does not wait for ever, although a waiter may be
\* overtaken by later ones any number of times.
AcquireEnds == \A c \in Callers \ Patient : c \in Waiting ~> c \notin Waiting

\* The linger never idles the worker: while somebody waits who will not give
\* up, a lease is out sooner or later, however tickets that arrive behind or
\* time out in front keep the batch gathering.
NeverIdle == Waiting \cap Patient # {} ~> active > 0
=============================================================================
