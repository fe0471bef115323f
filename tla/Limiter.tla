------------------------------ MODULE Limiter ------------------------------
(***************************************************************************)
(* The gateway's adaptive concurrency limiter (package limiter): for every *)
(* worker a cap that grows by one per success and halves per timeout, and  *)
(* the number of slots taken.  Each operation is one critical section of   *)
(* the limiter's mutex.  A worker missing from the Go maps reads as the    *)
(* initial cap and zero slots, so both maps are total functions here.      *)
(***************************************************************************)
EXTENDS Integers, Fleet

CONSTANTS
  InitialCap, MinCap, MaxCap     \* the arguments of limiter.New

ASSUME LimiterAssumption == {InitialCap, MinCap, MaxCap} \subseteq Int

VARIABLES
  caps,        \* slots a worker may have in flight
  inflight     \* slots taken

limiterVars == <<caps, inflight>>

\* limiter.New clamps its arguments in this order.
Floor   == IF MinCap < 1 THEN 1 ELSE MinCap
Ceiling == IF MaxCap < Floor THEN Floor ELSE MaxCap
Start   == IF InitialCap < Floor THEN Floor
           ELSE IF InitialCap > Ceiling THEN Ceiling ELSE InitialCap

LimiterTypeOK ==
  /\ caps \in [Workers -> Floor .. Ceiling]
  /\ inflight \in [Workers -> Nat]

LimiterInit ==
  /\ caps = [w \in Workers |-> Start]
  /\ inflight = [w \in Workers |-> 0]

\* A bug of HasSlot: the comparison off by one.
HasSlotInclusive(w) == inflight[w] <= caps[w]

HasSlot(w) == inflight[w] < caps[w]

\* TryAcquire when it returns true; when it returns false nothing changes.
Acquire(w) ==
  /\ HasSlot(w)
  /\ inflight' = [inflight EXCEPT ![w] = @ + 1]
  /\ UNCHANGED caps

Release(w) ==
  /\ inflight' = [inflight EXCEPT ![w] = IF @ > 0 THEN @ - 1 ELSE @]
  /\ UNCHANGED caps

OnSuccess(w) ==
  /\ caps' = [caps EXCEPT ![w] = IF @ < Ceiling THEN @ + 1 ELSE @]
  /\ UNCHANGED inflight

\* A bug of OnTimeout: the halved cap is not kept above the minimum.
OnTimeoutWithoutFloor(w) ==
  /\ caps' = [caps EXCEPT ![w] = @ \div 2]
  /\ UNCHANGED inflight

OnTimeout(w) ==
  /\ caps' = [caps EXCEPT ![w] = IF @ \div 2 < Floor THEN Floor ELSE @ \div 2]
  /\ UNCHANGED inflight
=============================================================================
