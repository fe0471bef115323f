-------------------------- MODULE SchedulerProofs --------------------------
(***************************************************************************)
(* What Scheduler.tla guarantees for any set of callers and any capacity   *)
(* and batch, with proofs checked by TLAPS.                                *)
(***************************************************************************)
EXTENDS Scheduler, SequenceTheorems, FiniteSetTheorems, FunctionTheorems, TLAPS

-----------------------------------------------------------------------------
(* Facts about sequences without duplicates.                               *)

Distinct(s) == \A i, j \in DOMAIN s : s[i] = s[j] => i = j

\* A sequence without duplicates is as long as its set.
LEMMA DistinctCardinality ==
  ASSUME NEW S, NEW s \in Seq(S), Distinct(s)
  PROVE  Cardinality(ToSet(s)) = Len(s)
<1>1. Len(s) \in Nat /\ DOMAIN s = 1 .. Len(s)
  OBVIOUS
<1>2. s \in [1 .. Len(s) -> ToSet(s)]
  BY <1>1, LenProperties DEF ToSet
<1>3. \A i, j \in 1 .. Len(s) : s[i] = s[j] => i = j
  BY <1>1 DEF Distinct
<1>4. \A x \in ToSet(s) : \E i \in 1 .. Len(s) : s[i] = x
  BY <1>1 DEF ToSet
<1>5. s \in Bijection(1 .. Len(s), ToSet(s))
  BY <1>2, <1>3, <1>4, Fun_IsBij
<1>6. ExistsBijection(1 .. Len(s), ToSet(s))
  BY <1>5 DEF ExistsBijection
<1> QED
  BY <1>1, <1>6, FS_CountingElements

\* Appending an element a sequence does not have keeps it without duplicates.
LEMMA AppendDistinct ==
  ASSUME NEW S, NEW s \in Seq(S), NEW x \in S, Distinct(s), x \notin ToSet(s)
  PROVE  /\ Append(s, x) \in Seq(S)
         /\ Len(Append(s, x)) = Len(s) + 1
         /\ Distinct(Append(s, x))
         /\ ToSet(Append(s, x)) = ToSet(s) \cup {x}
<1> DEFINE t == Append(s, x)
<1>1. Len(s) \in Nat /\ DOMAIN s = 1 .. Len(s)
  OBVIOUS
<1>2. /\ t \in Seq(S) /\ Len(t) = Len(s) + 1 /\ DOMAIN t = 1 .. Len(s) + 1
      /\ \A i \in 1 .. Len(s) : t[i] = s[i]
      /\ t[Len(s) + 1] = x
  BY <1>1, AppendProperties
<1> HIDE DEF t
<1>3. \A i \in 1 .. Len(s) : s[i] # x
  BY <1>1 DEF ToSet
<1>4. \A i \in DOMAIN t : i = Len(s) + 1 \/ i \in 1 .. Len(s)
  BY <1>1, <1>2
<1>5. Distinct(t)
  BY <1>1, <1>2, <1>3, <1>4 DEF Distinct
<1>6. ToSet(t) = ToSet(s) \cup {x}
  BY <1>1, <1>2, <1>4 DEF ToSet
<1> QED
  BY <1>2, <1>5, <1>6 DEF t

\* Removing a place of it takes that one element out.
LEMMA RemoveDistinct ==
  ASSUME NEW S, NEW s \in Seq(S), NEW i \in DOMAIN s, Distinct(s)
  PROVE  /\ RemoveAt(s, i) \in Seq(S)
         /\ Len(RemoveAt(s, i)) = Len(s) - 1
         /\ Distinct(RemoveAt(s, i))
         /\ ToSet(RemoveAt(s, i)) = ToSet(s) \ {s[i]}
<1> DEFINE front == SubSeq(s, 1, i - 1)
           back == SubSeq(s, i + 1, Len(s))
           t == front \o back
<1>1. Len(s) \in Nat /\ DOMAIN s = 1 .. Len(s) /\ i \in 1 .. Len(s)
  OBVIOUS
<1>2. \A j \in 1 .. Len(s) : s[j] \in S
  BY <1>1, ElementOfSeq
<1>3. /\ front \in Seq(S) /\ Len(front) = i - 1
      /\ \A j \in 1 .. i - 1 : front[j] = s[j]
  BY <1>1, <1>2, SubSeqProperties
<1>4. /\ back \in Seq(S) /\ Len(back) = Len(s) - i
      /\ \A j \in 1 .. Len(s) - i : back[j] = s[i + j]
  BY <1>1, <1>2, SubSeqProperties
<1>5. /\ t \in Seq(S) /\ Len(t) = Len(front) + Len(back)
      /\ \A j \in 1 .. Len(front) + Len(back) :
           t[j] = IF j <= Len(front) THEN front[j] ELSE back[j - Len(front)]
  BY <1>3, <1>4, ConcatProperties
<1>6. RemoveAt(s, i) = t
  BY DEF RemoveAt
<1> HIDE DEF front, back, t
<1>7. Len(t) = Len(s) - 1 /\ DOMAIN t = 1 .. Len(s) - 1
  BY <1>1, <1>3, <1>4, <1>5
<1>8. \A j \in DOMAIN t : t[j] = IF j < i THEN s[j] ELSE s[j + 1]
  <2> SUFFICES ASSUME NEW j \in 1 .. Len(s) - 1
               PROVE  t[j] = IF j < i THEN s[j] ELSE s[j + 1]
    BY <1>7
  <2>1. CASE j < i
    BY <1>1, <1>3, <1>4, <1>5, <2>1
  <2>2. CASE ~(j < i)
    <3>1. t[j] = back[j - (i - 1)] /\ j - (i - 1) \in 1 .. Len(s) - i
      BY <1>1, <1>3, <1>4, <1>5, <2>2
    <3>2. back[j - (i - 1)] = s[i + (j - (i - 1))] /\ i + (j - (i - 1)) = j + 1
      BY <1>1, <1>4, <3>1
    <3> QED
      BY <1>1, <2>2, <3>1, <3>2
  <2> QED
    BY <2>1, <2>2
<1>9. \A j \in DOMAIN t : \E k \in DOMAIN s : k # i /\ t[j] = s[k]
  <2> TAKE j \in DOMAIN t
  <2>1. CASE j < i
    BY <1>1, <1>7, <1>8, <2>1
  <2>2. CASE ~(j < i)
    <3>1. j + 1 \in DOMAIN s /\ j + 1 # i
      BY <1>1, <1>7, <2>2
    <3> QED
      BY <1>8, <2>2, <3>1
  <2> QED
    BY <2>1, <2>2
<1>10. \A k \in DOMAIN s \ {i} : \E j \in DOMAIN t : t[j] = s[k]
  <2> TAKE k \in DOMAIN s \ {i}
  <2>1. CASE k < i
    BY <1>1, <1>7, <1>8, <2>1
  <2>2. CASE ~(k < i)
    <3>1. k - 1 \in DOMAIN t /\ ~(k - 1 < i) /\ (k - 1) + 1 = k
      BY <1>1, <1>7, <2>2
    <3> QED
      BY <1>8, <3>1
  <2> QED
    BY <2>1, <2>2
<1>11. Distinct(t)
  BY <1>1, <1>7, <1>8 DEF Distinct
<1>12. ToSet(t) = ToSet(s) \ {s[i]}
  BY <1>1, <1>9, <1>10 DEF ToSet, Distinct
<1> QED
  BY <1>5, <1>6, <1>7, <1>11, <1>12

-----------------------------------------------------------------------------
(* The inductive invariant.                                                *)

\* No ticket is in the queue twice, so that the one a waiter takes out is its own.
TicketsInv ==
  /\ Distinct(queue)
  /\ Waiting \cap holders = {}
  /\ fresh \cup late \subseteq Waiting

LeasesInv == IsFiniteSet(holders) /\ LeasesCounted

SchedulerInv == TypeOK /\ TicketsInv /\ LeasesInv /\ Bounded

\* The limits the scheduler is built with are positive integers.
LEMMA LimitsPositive ==
  /\ Capacity \in Nat /\ MaxBatch \in Nat
  /\ 0 < Capacity /\ 0 < MaxBatch
BY SchedulerAssumption

\* Those that wait are callers.
LEMMA WaitingIsCallers ==
  ASSUME TypeOK
  PROVE  /\ Waiting \subseteq Callers
         /\ Len(queue) \in Nat
         /\ \A c \in Waiting : Position(c) \in DOMAIN queue /\ queue[Position(c)] = c
<1>1. queue \in Seq(Callers)
  BY DEF TypeOK
<1>2. Len(queue) \in Nat
  BY <1>1
<1>3. ToSet(queue) \subseteq Callers
  BY <1>1 DEF ToSet
<1>4. \A c \in Waiting : \E i \in DOMAIN queue : queue[i] = c
  BY DEF Waiting, ToSet
<1> QED
  BY <1>2, <1>3, <1>4 DEF Position, Waiting

\* A ticket that leaves the queue leaves the others in it.
LEMMA LeaveKeepsOthers ==
  ASSUME TypeOK, TicketsInv, NEW c \in Waiting, Leave(c)
  PROVE  /\ queue' \in Seq(Callers)
         /\ Len(queue') = Len(queue) - 1
         /\ Distinct(queue')
         /\ Waiting' = Waiting \ {c}
         /\ fresh' \subseteq Waiting' /\ late' \subseteq Waiting'
<1>1. queue \in Seq(Callers) /\ Distinct(queue)
  BY DEF TypeOK, TicketsInv
<1>2. Position(c) \in DOMAIN queue /\ queue[Position(c)] = c
  BY WaitingIsCallers
<1>3. queue' = RemoveAt(queue, Position(c)) /\ fresh' = fresh \ {c} /\ late' = late \ {c}
  BY DEF Leave
<1>4. Waiting' = ToSet(queue')
  BY DEF Waiting
<1>5. /\ queue' \in Seq(Callers) /\ Len(queue') = Len(queue) - 1
      /\ Distinct(queue') /\ ToSet(queue') = ToSet(queue) \ {c}
  BY <1>1, <1>2, <1>3, RemoveDistinct
<1> QED
  BY <1>3, <1>4, <1>5 DEF TicketsInv, Waiting

\* Entering the queue keeps the invariant.
LEMMA EnqueueKeeps ==
  ASSUME SchedulerInv, NEW c \in Callers, Enqueue(c)
  PROVE  SchedulerInv' /\ Waiting' = Waiting \cup {c} /\ holders' = holders
<1>1. /\ queue \in Seq(Callers) /\ Distinct(queue) /\ c \notin ToSet(queue)
      /\ queue' = Append(queue, c)
  BY DEF Enqueue, SchedulerInv, TypeOK, TicketsInv, Waiting
<1>2. /\ queue' \in Seq(Callers) /\ Len(queue') = Len(queue) + 1
      /\ Distinct(queue') /\ ToSet(queue') = ToSet(queue) \cup {c}
  BY <1>1, AppendDistinct
<1>3. Waiting' = Waiting \cup {c}
  BY <1>2 DEF Waiting
<1>4. TypeOK'
  BY <1>2 DEF Enqueue, SchedulerInv, TypeOK
<1>5. TicketsInv'
  BY <1>2, <1>3 DEF Enqueue, SchedulerInv, TicketsInv
<1>6. LeasesInv'
  BY DEF Enqueue, SchedulerInv, LeasesInv, LeasesCounted
<1>7. Bounded'
  <2>1. active \in Nat /\ Len(queue) \in Nat
    BY WaitingIsCallers DEF SchedulerInv, TypeOK
  <2> QED
    BY <1>2, <2>1, LimitsPositive DEF Enqueue, SchedulerInv, Bounded
<1> QED
  BY <1>3, <1>4, <1>5, <1>6, <1>7 DEF SchedulerInv, Enqueue

\* Being granted a lease keeps the invariant.
LEMMA GrantKeeps ==
  ASSUME SchedulerInv, NEW c \in Callers, Grant(c)
  PROVE  /\ SchedulerInv'
         /\ c \in Waiting /\ Waiting' = Waiting \ {c} /\ holders' = holders \cup {c}
<1>1. c \in Waiting /\ c \notin holders
  BY DEF Grant, SchedulerInv, TicketsInv
<1>2. /\ queue' \in Seq(Callers) /\ Len(queue') = Len(queue) - 1 /\ Distinct(queue')
      /\ Waiting' = Waiting \ {c} /\ fresh' \subseteq Waiting' /\ late' \subseteq Waiting'
  BY <1>1, LeaveKeepsOthers DEF Grant, SchedulerInv
<1>3. active' = active + 1 /\ holders' = holders \cup {c} /\ active \in Nat
  BY DEF Grant, SchedulerInv, TypeOK
<1>4. TypeOK'
  <2>1. Waiting' \subseteq Callers
    BY <1>2, WaitingIsCallers DEF SchedulerInv
  <2> QED
    BY <1>2, <1>3, <2>1 DEF SchedulerInv, TypeOK
<1>5. TicketsInv'
  BY <1>2, <1>3 DEF SchedulerInv, TicketsInv
<1>6. LeasesInv'
  BY <1>1, <1>3, FS_AddElement DEF SchedulerInv, LeasesInv, LeasesCounted
<1>7. Bounded'
  <2>1. Len(queue) \in Nat
    BY WaitingIsCallers DEF SchedulerInv
  <2>2. active < MaxBatch
    BY DEF Grant, Grantable
  <2> QED
    BY <1>2, <1>3, <2>1, <2>2, LimitsPositive DEF SchedulerInv, Bounded
<1> QED
  BY <1>1, <1>2, <1>3, <1>4, <1>5, <1>6, <1>7 DEF SchedulerInv

\* Leaving the queue at the deadline keeps the invariant.
LEMMA TimeOutKeeps ==
  ASSUME SchedulerInv, NEW c \in Callers, TimeOut(c)
  PROVE  /\ SchedulerInv'
         /\ c \in Waiting /\ Waiting' = Waiting \ {c} /\ holders' = holders
<1>1. c \in Waiting /\ UNCHANGED <<active, holders>>
  BY DEF TimeOut
<1>2. /\ queue' \in Seq(Callers) /\ Len(queue') = Len(queue) - 1 /\ Distinct(queue')
      /\ Waiting' = Waiting \ {c} /\ fresh' \subseteq Waiting' /\ late' \subseteq Waiting'
  BY <1>1, LeaveKeepsOthers DEF TimeOut, SchedulerInv
<1>3. TypeOK'
  <2>1. Waiting' \subseteq Callers
    BY <1>2, WaitingIsCallers DEF SchedulerInv
  <2> QED
    BY <1>1, <1>2, <2>1 DEF SchedulerInv, TypeOK
<1>4. TicketsInv'
  BY <1>1, <1>2 DEF SchedulerInv, TicketsInv
<1>5. LeasesInv'
  BY <1>1 DEF SchedulerInv, LeasesInv, LeasesCounted
<1>6. Bounded'
  <2>1. Len(queue) \in Nat /\ active \in Nat
    BY WaitingIsCallers DEF SchedulerInv, TypeOK
  <2> QED
    BY <1>1, <1>2, <2>1, LimitsPositive DEF SchedulerInv, Bounded
<1> QED
  BY <1>1, <1>2, <1>3, <1>4, <1>5, <1>6 DEF SchedulerInv

\* A lease that is out is counted, so that its release finds the count positive.
LEMMA ReleaseKeeps ==
  ASSUME SchedulerInv, NEW c \in Callers, Release(c)
  PROVE  /\ SchedulerInv'
         /\ c \in holders /\ holders' = holders \ {c} /\ Waiting' = Waiting
<1>1. /\ c \in holders /\ holders' = holders \ {c} /\ UNCHANGED <<queue, fresh, late>>
      /\ Waiting' = Waiting
  BY DEF Release, Waiting
<1>2. active \in Nat /\ active # 0
  <2>1. active = Cardinality(holders) /\ IsFiniteSet(holders)
    BY DEF SchedulerInv, LeasesInv, LeasesCounted
  <2> QED
    BY <1>1, <2>1, FS_EmptySet DEF SchedulerInv, TypeOK
<1>3. active' = active - 1
  BY <1>2 DEF Release, GiveBack
<1>4. TypeOK'
  BY <1>1, <1>2, <1>3 DEF SchedulerInv, TypeOK
<1>5. TicketsInv'
  BY <1>1 DEF SchedulerInv, TicketsInv
<1>6. LeasesInv'
  BY <1>1, <1>3, FS_RemoveElement DEF SchedulerInv, LeasesInv, LeasesCounted
<1>7. Bounded'
  <2>1. Len(queue) \in Nat /\ queue' = queue
    BY <1>1, WaitingIsCallers DEF SchedulerInv
  <2> QED
    BY <1>2, <1>3, <2>1, LimitsPositive DEF SchedulerInv, Bounded
<1> QED
  BY <1>1, <1>4, <1>5, <1>6, <1>7 DEF SchedulerInv

\* The passing of a ticket's time keeps the invariant.
LEMMA TicketAgesKeeps ==
  ASSUME SchedulerInv, NEW c \in Callers, Ripen(c) \/ Deadline(c)
  PROVE  SchedulerInv' /\ Waiting' = Waiting /\ holders' = holders
<1>1. /\ UNCHANGED <<queue, active, holders>> /\ Waiting' = Waiting
      /\ fresh' \subseteq fresh /\ late' \subseteq late \cup Waiting
  BY DEF Ripen, Deadline, Waiting
<1>2. TypeOK'
  <2>1. Waiting \subseteq Callers
    BY WaitingIsCallers DEF SchedulerInv
  <2> QED
    BY <1>1, <2>1 DEF SchedulerInv, TypeOK
<1> QED
  BY <1>1, <1>2 DEF SchedulerInv, TicketsInv, LeasesInv, LeasesCounted, Bounded

\* A new scheduler satisfies the invariant.
LEMMA SchedulerBegins == Init => SchedulerInv
<1> SUFFICES ASSUME Init PROVE SchedulerInv
  OBVIOUS
<1>1. queue = <<>> /\ active = 0 /\ fresh = {} /\ late = {} /\ holders = {}
  BY DEF Init
<1>2. Len(queue) = 0 /\ DOMAIN queue = {}
  BY <1>1
<1>3. TypeOK
  BY <1>1 DEF TypeOK
<1>4. TicketsInv
  BY <1>1, <1>2 DEF TicketsInv, Distinct
<1>5. LeasesInv
  BY <1>1, FS_EmptySet DEF LeasesInv, LeasesCounted
<1>6. Bounded
  BY <1>1, <1>2, LimitsPositive DEF Bounded
<1> QED
  BY <1>3, <1>4, <1>5, <1>6 DEF SchedulerInv

\* An idle turn of the polling loop keeps the invariant.
LEMMA SchedulerStutters ==
  ASSUME SchedulerInv, UNCHANGED vars
  PROVE  SchedulerInv' /\ Waiting' = Waiting /\ holders' = holders
<1>1. UNCHANGED <<queue, active, fresh, late, holders>>
  BY DEF vars
<1>2. Waiting' = Waiting
  BY <1>1 DEF Waiting
<1> QED
  BY <1>1, <1>2 DEF SchedulerInv, TypeOK, TicketsInv, LeasesInv, LeasesCounted, Bounded

-----------------------------------------------------------------------------
(* The theorems.                                                           *)

\* The inductive invariant of the scheduler: every ticket in the queue is its
\* caller's only one, and active counts the leases that are out.
THEOREM SchedulerInvHolds == Spec => []SchedulerInv
<1>1. ASSUME SchedulerInv, [Next]_vars PROVE SchedulerInv'
  BY <1>1, EnqueueKeeps, GrantKeeps, TimeOutKeeps, ReleaseKeeps, TicketAgesKeeps,
     SchedulerStutters DEF Next
<1> QED
  BY <1>1, SchedulerBegins, PTL DEF Spec

\* Every variable of the scheduler keeps its type.  In particular the count of
\* leases never falls below zero.
THEOREM SchedulerTypes == Spec => []TypeOK
<1>1. SchedulerInv => TypeOK
  BY DEF SchedulerInv
<1> QED
  BY <1>1, SchedulerInvHolds, PTL

\* The scheduler counts exactly the leases that are out: no grant, timeout, refusal
\* or release, in whatever order the threads run, leaks a slot or gives one twice.
THEOREM LeasesAlwaysCounted == Spec => []LeasesCounted
<1>1. SchedulerInv => LeasesCounted
  BY DEF SchedulerInv, LeasesInv
<1> QED
  BY <1>1, SchedulerInvHolds, PTL

\* A caller that waits has exactly one ticket in the queue until it leaves, and no
\* lease: acquire never finds its own ticket lost.
THEOREM TicketsNeverLost == Spec => []OneTicketEach
<1>1. SchedulerInv => OneTicketEach
  <2> SUFFICES ASSUME SchedulerInv PROVE OneTicketEach
    OBVIOUS
  <2>1. queue \in Seq(Callers) /\ Distinct(queue)
    BY DEF SchedulerInv, TypeOK, TicketsInv
  <2>2. Cardinality(Waiting) = Len(queue)
    BY <2>1, DistinctCardinality DEF Waiting
  <2> QED
    BY <2>2 DEF SchedulerInv, TicketsInv, OneTicketEach
<1> QED
  BY <1>1, SchedulerInvHolds, PTL

\* At no instant are there more leases than max_batch, or more tickets and leases
\* than the capacity.
THEOREM SchedulerBounded == Spec => []Bounded
<1>1. SchedulerInv => Bounded
  BY DEF SchedulerInv
<1> QED
  BY <1>1, SchedulerInvHolds, PTL
=============================================================================
