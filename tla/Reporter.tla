------------------------------ MODULE Reporter ------------------------------
(***************************************************************************)
(* The report of an experiment (chaosd/internal/reporter/reporter.go).  It *)
(* reads what Prometheus recorded of cluster_state_version, and takes the  *)
(* first three times it rose for the suspicion, the death and the return   *)
(* of a worker.  A sample has a time T from 1 on and a value V, and the    *)
(* samples come in the order of their times.                               *)
(***************************************************************************)
EXTENDS Integers, Sequences
LOCAL INSTANCE SequencesExt

Unknown == 0       \* the zero time, and the zero duration

\* found: the times of the samples above all that came before.
Rises(points) ==
  LET higher(acc, p) ==
        IF p.V > acc.current
          THEN [current |-> p.V, found |-> Append(acc.found, p.T)]
          ELSE acc
  IN IF points = <<>> THEN <<>>
     ELSE FoldLeft(higher, [current |-> Head(points).V, found |-> <<>>], Tail(points)).found

versionEvents(points) ==
  LET nth(i) == IF i <= Len(Rises(points)) THEN Rises(points)[i] ELSE Unknown
  IN [suspect |-> nth(1), dead |-> nth(2), ready |-> nth(3)]

Between(from, to) == IF from = Unknown \/ to = Unknown THEN 0 ELSE to - from

Report(points) ==
  LET at == versionEvents(points)
  IN [MTTD |-> Between(at.suspect, at.dead), MTTR |-> Between(at.dead, at.ready)]
=============================================================================
