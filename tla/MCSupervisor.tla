---------------------------- MODULE MCSupervisor ----------------------------
(***************************************************************************)
(* Instances of Supervisor for TLC.                                        *)
(***************************************************************************)
EXTENDS Supervisor, Reporter, TLC

CONSTANTS w1, w2, p1, p2, a1, a2, a3, a4

OneWorker   == {w1}
TwoWorkers  == {w1, w2}
OnePoll     == {p1}
TwoPolls    == {p1, p2}
ThreeActors == {a1, a2, a3}
FourActors  == {a1, a2, a3, a4}

Symmetry == Permutations(Workers) \cup Permutations(Polls) \cup Permutations(Actors)

\* What the next steps can still read: not the history variable, nor the locals
\* of a poll that is between two workers.
View ==
  <<registryVars, supervisorVars, processVars, pc, pollAge, todo, reply, gatewayVars, bounds,
    [p \in {q \in Polls : pc[q] \notin {"idle", "beat", "answer"}} |->
       <<current[p], gone[p]>>]>>
-----------------------------------------------------------------------------
(* What the report of an experiment makes of versions.                     *)

\* Up to five samples of up to four versions, which a restart may set back.
Recordings == UNION {[1 .. n -> 0 .. 3] : n \in 0 .. 5}
Points(versions) == [i \in DOMAIN versions |-> [T |-> i, V |-> versions[i]]]

\* The rises are the samples above all earlier ones, in their order: a version
\* that was set back counts again only when it is above where it had been.
ASSUME RisesAreRecords ==
  \A v \in Recordings :
    LET records == {i \in DOMAIN v : i > 1 /\ \A j \in 1 .. i - 1 : v[j] < v[i]}
        rises   == Rises(Points(v))
    IN Range(rises) = records /\ \A i, j \in DOMAIN rises : i < j => rises[i] < rises[j]

\* The versions of a death are those of DeathByStages: suspect, removed, starting,
\* ready.  So the return a report names is the start of the new actor, however
\* long that takes to be ready, and versions that fall between two samples make
\* it name a later stage.
ASSUME ReturnIsStart ==
  \A started, ready \in 5 .. 9 : started < ready =>
    LET at(t) == IF t < 2 THEN 3 ELSE IF t < 4 THEN 4 ELSE IF t < started THEN 5
                 ELSE IF t < ready THEN 6 ELSE 7
    IN Report(Points([t \in 1 .. 10 |-> at(t)])) = [MTTD |-> 2, MTTR |-> started - 4]

=============================================================================
