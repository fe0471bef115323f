------------------------------ MODULE MCChaos ------------------------------
(***************************************************************************)
(* Instances of Chaos for TLC.                                             *)
(***************************************************************************)
EXTENDS Chaos

CONSTANTS w1, w2

TwoWorkers == {w1, w2}

\* The shapes of src/experiments: crash and partition, cascade, slow-burn, and
\* a definition with a mistake in it.
Files ==
  { <<<<"partition", w1>>>>,
    <<<<"kill", w1>>, <<"kill", w2>>>>,
    <<<<"latency", w1>>, <<"latency", w1>>, <<"latency", w1>>>>,
    <<<<"latency", w1>>, <<"partition", w2>>, <<"other", w1>>>> }

\* Every plan of three rounds.
ThreeRounds == [1 .. 3 -> Kinds \X Workers]

\* Once a run has ended, no step and no property but its type reads its plan.
View ==
  IF pc = "idle"
    THEN <<toxics, disabled, pc, kind, outcome, found, lost, unreset>>
    ELSE vars
=============================================================================
