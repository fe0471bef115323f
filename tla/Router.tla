------------------------------ MODULE Router -------------------------------
(***************************************************************************)
(* The gateway's worker pool (package router), with the concurrent         *)
(* requests that pick a worker for their session key.                      *)
(*                                                                         *)
(* PickForKey is not atomic: it looks the key up under the read lock, reads*)
(* the worker's State after it has let go of the lock, chooses a worker    *)
(* under the read lock again, and settles the affinity under the write     *)
(* lock.  Update may run between any two of these.  A Worker struct that   *)
(* Update drops from the pool lives on, unchanged, while a request points  *)
(* to it; an id that comes back is a new struct.                           *)
(*                                                                         *)
(* Either of the two workers drawn at random may be any ready worker, so   *)
(* the scores they are compared by (score, Observe) rule no choice out.    *)
(* The unlocked read of State races with Update's write of it; a torn read *)
(* compares unequal to "ready", as the other value of the two does, so the *)
(* race has no outcome that reading before or after the write has not.     *)
(***************************************************************************)
EXTENDS Fleet, FiniteSets, Functions

CONSTANTS
  Callers,      \* goroutines that pick, one pick at a time
  Keys,         \* session keys, the empty one aside
  Structs,      \* Worker structs
  NoStruct      \* the absence of one

ASSUME RouterAssumption == NoStruct \notin Structs

VARIABLES
  workers,      \* Pool.workers
  up,           \* the structs whose State is "ready"
  affinity,     \* Pool.affinity
  pc,           \* where PickForKey is
  key,          \* its argument
  held,         \* w, the struct found under the first read lock
  chosen,       \* the id of that worker, later of the one Pick returned
  result,       \* the id of the worker PickForKey returned
  seen,         \* history: answers the pool allowed at some time of the call
  steady,       \* history: calls that no Update has run during
  given         \* history: results of calls begun and ended since the last Update

poolVars == <<workers, up, affinity>>
callVars == <<pc, key, held, chosen, result>>
history  == <<seen, steady, given>>
vars     == <<poolVars, callVars, history>>

Init ==
  /\ workers = [w \in Workers |-> NoStruct]
  /\ up = {}
  /\ affinity = [k \in Keys |-> NoWorker]
  /\ pc = [c \in Callers |-> "idle"]
  /\ key \in [Callers -> Keys]
  /\ held = [c \in Callers |-> NoStruct]
  /\ chosen = [c \in Callers |-> NoWorker]
  /\ result = [c \in Callers |-> NoWorker]
  /\ seen = [c \in Callers |-> {NoWorker}]
  /\ steady = {}
  /\ given = [k \in Keys |-> {}]

Ready == {w \in Workers : workers[w] \in up}

\* What a pick at this instant may answer.
Answers == IF Ready = {} THEN {NoWorker} ELSE Ready

-----------------------------------------------------------------------------
(* Update.                                                                 *)

Unused == Structs \ (Range(workers) \cup {held[c] : c \in Callers})

\* A snapshot lists some workers, some of them ready.  A worker that is known
\* keeps its struct, a new one gets a fresh struct, one not listed is dropped.
\* Affinities to a worker that is not ready are dropped as well.
Update(listed, ready) ==
  /\ \E fresh \in Injection({w \in listed : workers[w] = NoStruct}, Unused) :
       workers' = [w \in Workers |->
         IF w \notin listed THEN NoStruct
         ELSE IF workers[w] # NoStruct THEN workers[w] ELSE fresh[w]]
  /\ up' = {s \in Structs :
              \/ \E w \in ready : workers'[w] = s
              \/ /\ s \in up \ Range(workers')
                 /\ \E c \in Callers : held[c] = s}
  /\ affinity' = [k \in Keys |-> IF affinity[k] \in ready THEN affinity[k] ELSE NoWorker]
  /\ seen' = [c \in Callers |->
                IF pc[c] = "idle" THEN seen[c] ELSE seen[c] \cup Answers']
  /\ steady' = {}
  /\ given' = [k \in Keys |-> {}]
  /\ UNCHANGED callVars

-----------------------------------------------------------------------------
(* PickForKey.                                                             *)

Return(c, w) ==
  /\ pc' = [pc EXCEPT ![c] = "idle"]
  /\ result' = [result EXCEPT ![c] = w]
  /\ given' = IF c \in steady THEN [given EXCEPT ![key[c]] = @ \cup {w}] ELSE given
  /\ steady' = steady \ {c}

\* The call, up to the end of the first read lock.
Find(c, k) ==
  /\ pc[c] = "idle"
  /\ key' = [key EXCEPT ![c] = k]
  /\ LET w == affinity[k] IN
       IF w # NoWorker /\ workers[w] # NoStruct
         THEN /\ pc' = [pc EXCEPT ![c] = "check"]
              /\ held' = [held EXCEPT ![c] = workers[w]]
              /\ chosen' = [chosen EXCEPT ![c] = w]
         ELSE /\ pc' = [pc EXCEPT ![c] = "pick"]
              /\ UNCHANGED <<held, chosen>>
  /\ result' = [result EXCEPT ![c] = NoWorker]
  /\ seen' = [seen EXCEPT ![c] = Answers]
  /\ steady' = steady \cup {c}
  /\ UNCHANGED <<poolVars, given>>

\* A bug of Check: the State of the worker not looked at.
CheckNothing(c) ==
  /\ pc[c] = "check"
  /\ Return(c, chosen[c])
  /\ held' = [held EXCEPT ![c] = NoStruct]
  /\ chosen' = [chosen EXCEPT ![c] = NoWorker]
  /\ UNCHANGED <<poolVars, key, seen>>

\* The State is read with no lock held.
Check(c) ==
  /\ pc[c] = "check"
  /\ IF held[c] \in up
       THEN Return(c, chosen[c])
       ELSE /\ pc' = [pc EXCEPT ![c] = "pick"]
            /\ UNCHANGED <<result, steady, given>>
  /\ held' = [held EXCEPT ![c] = NoStruct]
  /\ chosen' = [chosen EXCEPT ![c] = NoWorker]
  /\ UNCHANGED <<poolVars, key, seen>>

\* A bug of Pick: nil taken for a worker.
PickWithoutNilCheck(c) ==
  /\ pc[c] = "pick"
  /\ \E w \in Answers : chosen' = [chosen EXCEPT ![c] = w]
  /\ pc' = [pc EXCEPT ![c] = "settle"]
  /\ UNCHANGED <<poolVars, key, held, result, history>>

\* Pick: the ready workers are listed under the read lock, and one is drawn.
Pick(c) ==
  /\ pc[c] = "pick"
  /\ \E w \in Answers :
       IF w = NoWorker
         THEN /\ Return(c, NoWorker)
              /\ UNCHANGED chosen
         ELSE /\ pc' = [pc EXCEPT ![c] = "settle"]
              /\ chosen' = [chosen EXCEPT ![c] = w]
              /\ UNCHANGED <<result, steady, given>>
  /\ UNCHANGED <<poolVars, key, held, seen>>

\* Bugs of Settle: the affinity not looked at again; looked at, but the worker
\* drawn returned all the same.
SettleBlindly(c) ==
  /\ pc[c] = "settle"
  /\ affinity' = [affinity EXCEPT ![key[c]] = chosen[c]]
  /\ Return(c, chosen[c])
  /\ chosen' = [chosen EXCEPT ![c] = NoWorker]
  /\ UNCHANGED <<workers, up, key, held, seen>>
SettleForOthers(c) ==
  /\ pc[c] = "settle"
  /\ affinity' = [affinity EXCEPT ![key[c]] = IF @ \in Ready THEN @ ELSE chosen[c]]
  /\ Return(c, chosen[c])
  /\ chosen' = [chosen EXCEPT ![c] = NoWorker]
  /\ UNCHANGED <<workers, up, key, held, seen>>

\* Under the write lock: a ready worker that the key has got meanwhile wins
\* over the one drawn, which may no longer be ready itself.
Settle(c) ==
  /\ pc[c] = "settle"
  /\ LET k == key[c] IN
       IF affinity[k] \in Ready
         THEN /\ Return(c, affinity[k])
              /\ UNCHANGED affinity
         ELSE /\ Return(c, chosen[c])
              /\ affinity' = [affinity EXCEPT ![k] = chosen[c]]
  /\ chosen' = [chosen EXCEPT ![c] = NoWorker]
  /\ UNCHANGED <<workers, up, key, held, seen>>

-----------------------------------------------------------------------------
Next ==
  \/ \E listed \in SUBSET Workers : \E ready \in SUBSET listed : Update(listed, ready)
  \/ \E c \in Callers, k \in Keys : Find(c, k)
  \/ \E c \in Callers : Check(c) \/ Pick(c) \/ Settle(c)

Spec == Init /\ [][Next]_vars
-----------------------------------------------------------------------------
\* Type invariant: no two ids share a struct, and a call that has a worker in
\* hand has the id of one.
TypeOK ==
  /\ workers \in [Workers -> Structs \cup {NoStruct}]
  /\ \A w, x \in Workers : workers[w] = workers[x] => w = x \/ workers[w] = NoStruct
  /\ up \subseteq Structs
  /\ affinity \in [Keys -> Workers \cup {NoWorker}]
  /\ pc \in [Callers -> {"idle", "check", "pick", "settle"}]
  /\ key \in [Callers -> Keys]
  /\ held \in [Callers -> Structs \cup {NoStruct}]
  /\ chosen \in [Callers -> Workers \cup {NoWorker}]
  /\ \A c \in Callers : pc[c] \in {"check", "settle"} => chosen[c] \in Workers
  /\ \A c \in Callers : pc[c] = "check" => held[c] \in Structs

\* Whatever updates ran meanwhile, a pick answers as the pool allowed at some
\* time during the call: with a worker that was ready, or with nil if none
\* was.  This is all that Serve, and the model of it, rely on.
AnswersInTime == \A c \in Callers : pc[c] = "idle" => result[c] \in seen[c]

\* While the snapshots do not change the pool, all requests of a session go to
\* the same worker, even those that were looking for one at the same time.
OneWorkerPerSession == \A k \in Keys : Cardinality(given[k]) <= 1

\* A session leaves its worker only when that worker stops being ready.
StickySessions ==
  [][\A k \in Keys : affinity[k] \in Ready /\ affinity[k] \in Ready'
       => affinity'[k] = affinity[k]]_vars
=============================================================================
