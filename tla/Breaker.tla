------------------------------ MODULE Breaker ------------------------------
(***************************************************************************)
(* The gateway's circuit breakers (package breaker), one per worker id,    *)
(* created closed on first use and never removed.  Each operation is one   *)
(* critical section of the breaker's mutex.  The clock is abstracted to    *)
(* the one comparison the code makes, and only while it makes it: cooled   *)
(* says, of an open breaker, whether the cooldown has passed since         *)
(* openedAt was last written.  The failure count is only ever compared     *)
(* with the threshold and reset, so it saturates there.                    *)
(***************************************************************************)
EXTENDS Integers, Fleet

CONSTANT Threshold     \* consecutive failures that open a breaker

ASSUME BreakerAssumption == Threshold \in Nat \ {0}

VARIABLES
  circuit,     \* Closed, Open or HalfOpen
  failures,    \* failures recorded since the last recorded success
  cooled       \* time.Since(openedAt) >= cooldown; FALSE unless open

breakerVars == <<circuit, failures, cooled>>

BreakerTypeOK ==
  /\ circuit \in [Workers -> {"closed", "open", "halfOpen"}]
  /\ failures \in [Workers -> 0 .. Threshold]
  /\ cooled \in [Workers -> BOOLEAN]

BreakerInit ==
  /\ circuit = [w \in Workers |-> "closed"]
  /\ failures = [w \in Workers |-> 0]
  /\ cooled = [w \in Workers |-> FALSE]

\* What Allow returns.
Permits(w) == circuit[w] # "open" \/ cooled[w]

\* What Allow does to the breaker when it returns true; it changes nothing
\* when it returns false.
Allow(w) ==
  /\ Permits(w)
  /\ circuit' = [circuit EXCEPT ![w] = IF @ = "open" THEN "halfOpen" ELSE @]
  /\ cooled' = [cooled EXCEPT ![w] = FALSE]
  /\ UNCHANGED failures

RecordSuccess(w) ==
  /\ circuit' = [circuit EXCEPT ![w] = "closed"]
  /\ failures' = [failures EXCEPT ![w] = 0]
  /\ cooled' = [cooled EXCEPT ![w] = FALSE]

\* A bug of RecordFailure: the breaker opens one failure too late.
RecordFailureLate(w) ==
  /\ failures' = [failures EXCEPT ![w] = IF @ < Threshold THEN @ + 1 ELSE @]
  /\ circuit' = [circuit EXCEPT ![w] =
                   IF @ = "halfOpen" \/ failures[w] + 1 > Threshold
                   THEN "open" ELSE @]
  /\ cooled' = [cooled EXCEPT ![w] = FALSE]

RecordFailure(w) ==
  /\ failures' = [failures EXCEPT ![w] = IF @ < Threshold THEN @ + 1 ELSE @]
  /\ circuit' = [circuit EXCEPT ![w] =
                   IF @ = "halfOpen" \/ failures[w] + 1 >= Threshold
                   THEN "open" ELSE @]
  /\ cooled' = [cooled EXCEPT ![w] = FALSE]

\* The clock passes openedAt + cooldown.
CooldownElapses(w) ==
  /\ circuit[w] = "open"
  /\ ~cooled[w]
  /\ cooled' = [cooled EXCEPT ![w] = TRUE]
  /\ UNCHANGED <<circuit, failures>>
=============================================================================
