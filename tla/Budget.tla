------------------------------- MODULE Budget -------------------------------
(***************************************************************************)
(* The hedge budget (gateway/internal/hedge/hedge.go): how long a race     *)
(* waits before its second call, the 95th percentile of the times to the   *)
(* first token that were observed lately.  Times are positive integers.    *)
(***************************************************************************)
EXTENDS Integers, Sequences, FiniteSets, TLC

CONSTANTS
  Limit,       \* samples kept: with one more, only the latest Kept are
  Kept,
  Default      \* the budget before the first sample

Observe(samples, d) ==
  LET more == Append(samples, d) IN
    IF d <= 0 THEN samples
    ELSE IF Len(more) > Limit THEN SubSeq(more, Len(more) - Kept + 1, Len(more))
    ELSE more

\* Go's slices begin at 0, and so does the index of Value.
Value(samples) ==
  IF samples = <<>> THEN Default
  ELSE SortSeq(samples, <)[((Len(samples) * 95) \div 100) + 1]

-----------------------------------------------------------------------------
\* A value is the budget if no more than 95 of 100 samples are shorter, and
\* more than that are no longer.
IsPercentile(v, samples) ==
  /\ 100 * Cardinality({i \in DOMAIN samples : samples[i] < v}) <= 95 * Len(samples)
  /\ 100 * Cardinality({i \in DOMAIN samples : samples[i] <= v}) > 95 * Len(samples)
=============================================================================
