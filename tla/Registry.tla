------------------------------ MODULE Registry ------------------------------
(***************************************************************************)
(* The registry actor (controlplane/registry.py): the state each worker is *)
(* listed with, and a version that counts the calls that changed it.  An   *)
(* actor runs one method at a time, so each call is one step.  A restart   *)
(* of the actor runs its constructor again.                                *)
(***************************************************************************)
EXTENDS Integers, Fleet

CONSTANT MaxVersion    \* bound: versions are counted up to it

ASSUME RegistryAssumption == MaxVersion \in Nat

VARIABLES
  version,
  listed       \* the state a worker is listed with, "absent" if it is not

registryVars == <<version, listed>>

ListedStates == {"absent", "starting", "ready", "suspect"}

RegistryTypeOK ==
  /\ version \in Nat
  /\ listed \in [Workers -> ListedStates]

Counted(n) == IF n < MaxVersion THEN n ELSE MaxVersion

\* A bug of Update: only new members counted.
UpdateCountsMembers(w, state) ==
  /\ listed' = [listed EXCEPT ![w] = state]
  /\ version' = IF listed[w] = "absent" THEN Counted(version + 1) ELSE version

Update(w, state) ==
  /\ listed' = [listed EXCEPT ![w] = state]
  /\ version' = Counted(version + 1)

Remove(w) ==
  /\ listed' = [listed EXCEPT ![w] = "absent"]
  /\ version' = Counted(version + 1)

Restart ==
  /\ listed' = [w \in Workers |-> "absent"]
  /\ version' = 0
=============================================================================
