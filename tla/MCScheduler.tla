---------------------------- MODULE MCScheduler ----------------------------
(***************************************************************************)
(* Instances of Scheduler for TLC.                                         *)
(***************************************************************************)
EXTENDS Scheduler, TLC

CONSTANTS c1, c2, c3, c4, c5

TwoCallers  == {c1, c2}
FourCallers == {c1, c2, c3, c4}
FiveCallers == {c1, c2, c3, c4, c5}
Nobody      == {}

CallerSymmetry == Permutations(Callers)
=============================================================================
