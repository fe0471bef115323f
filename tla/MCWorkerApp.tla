---------------------------- MODULE MCWorkerApp ----------------------------
(***************************************************************************)
(* Instances of WorkerApp for TLC.                                         *)
(***************************************************************************)
EXTENDS WorkerApp

CONSTANTS c1, c2, c3

TwoCallers   == {c1, c2}
ThreeCallers == {c1, c2, c3}
Nobody       == {}

\* Two turns of a conversation, the second prompt beginning with the first, and
\* another prompt.
FirstTurn  == <<"user">>
SecondTurn == <<"user", "assistant", "user">>
Unrelated  == <<"system">>
ThreePrompts == {FirstTurn, SecondTurn, Unrelated}

OneOrTwo == {1, 2}

\* The engine stops early on the second turn.
Lengths == [p \in ThreePrompts |-> IF p = SecondTurn THEN 1 ELSE 2]
=============================================================================
