----------------------------- MODULE MCRouter ------------------------------
(***************************************************************************)
(* Instances of Router for TLC.                                            *)
(***************************************************************************)
EXTENDS Router, TLC

CONSTANTS w1, w2, c1, c2, c3, k1, s1, s2, s3, s4

TwoWorkers   == {w1, w2}
ThreeCallers == {c1, c2, c3}
OneKey       == {k1}
FourStructs  == {s1, s2, s3, s4}

Symmetry ==
  Permutations(Workers) \cup Permutations(Callers)
    \cup Permutations(Structs)
=============================================================================
