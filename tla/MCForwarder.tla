---------------------------- MODULE MCForwarder ----------------------------
(***************************************************************************)
(* Instances of Forwarder for TLC.                                         *)
(***************************************************************************)
EXTENDS Forwarder, SequencesExt, TLC

CONSTANTS w1, w2, r1, r2

TwoWorkers   == {w1, w2}
OneRequest   == {r1}
TwoRequests  == {r1, r2}

\* The pool never changes, or changes freely.
AlwaysAll == {Workers}
AnySet    == SUBSET Workers

WorkerSymmetry == Permutations(Workers)
AnySymmetry == Permutations(Workers) \cup Permutations(Requests)
\* What the next steps and the safety properties can still read.  Dead are the
\* target and flags of a call that has ended, once nobody waits for its result
\* and its sibling has picked its worker, and the handler's variables of a
\* request that is done.
Ended(c) ==
  /\ call[c] \in {"none", "busy", "nohedge", "failed", "closed", "broken"}
  /\ c \notin Awaited(RequestOf(c)) \cup cleaners
  /\ call[Sibling(c)] # "hedge"
Live == {c \in Calls : ~Ended(c)}
View ==
  <<ready, pc,
    [r \in {q \in Requests : pc[q] # "done"} |->
       <<attempt[r], prev[r], streams[r], sent[r], verdict[r], winner[r]>>],
    gone,
    [c \in Live |-> <<call[c], target[c], c \in stopped>>],
    cleaners, limiterVars, breakerVars>>

\* Bounds of the larger instances.
NoRetry == \A r \in Requests : attempt[r] = 0

-----------------------------------------------------------------------------
(* The hedge budget.                                                       *)

B == INSTANCE Budget WITH Limit <- 6, Kept <- 3, Default <- 1

\* Samples of three sizes, of which at most two are long.
Observations ==
  UNION {{[i \in 1 .. n |-> IF i \in long THEN 9 + i ELSE 1 + (i % 2)] :
            long \in {{i, j} : i, j \in 1 .. n}} : n \in {1, 19, 20, 21, 40, 41}}

\* The budget is the percentile it is named for.
ASSUME BudgetIsPercentile ==
  \A s \in Observations : B!IsPercentile(B!Value(s), s)

\* Up to twenty samples it is the longest of all: one slow answer keeps the
\* second calls of the next twenty requests back.
ASSUME BudgetOfFew ==
  \A s \in Observations : Len(s) <= 20 => \A i \in DOMAIN s : s[i] <= B!Value(s)

\* However many are observed, the samples are the latest of those that count, and
\* at least Kept of them once there are so many.
Observed(ds) == FoldLeft(B!Observe, <<>>, ds)
ASSUME WindowIsLatest ==
  \A ds \in UNION {[1 .. n -> 0 .. 1] : n \in 0 .. 11} :
    LET counted == SelectSeq(ds, LAMBDA d : d > 0)
        kept    == Observed(ds)
    IN /\ Len(kept) <= 6
       /\ IsSuffix(kept, counted)
       /\ Len(kept) >= (IF Len(counted) < 3 THEN Len(counted) ELSE 3)
=============================================================================
