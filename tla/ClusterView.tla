---------------------------- MODULE ClusterView ----------------------------
(***************************************************************************)
(* What the control plane promises the gateway, with nothing of how: the   *)
(* membership changes one worker at a time, every change makes a new       *)
(* version of it, and the gateway only ever sees memberships that were,    *)
(* with their versions, and never goes back.  It may miss versions.        *)
(***************************************************************************)
EXTENDS Integers, Fleet

CONSTANT States

VARIABLES
  version, members,        \* the membership, and what it is called
  answers,                 \* memberships on their way to the gateway
  seen, view               \* the last one it was given

clusterVars == <<version, members, answers, seen, view>>

ClusterInit ==
  /\ version \in Nat
  /\ members \in [Workers -> States]
  /\ answers = {}
  /\ seen = 0
  /\ view \in [Workers -> States]

Change ==
  /\ \E w \in Workers, s \in States : members' = [members EXCEPT ![w] = s]
  /\ version' = version + 1
  /\ UNCHANGED <<answers, seen, view>>

\* Somebody asks, the gateway or another.
Ask ==
  /\ answers' = answers \cup {[version |-> version, members |-> members]}
  /\ UNCHANGED <<version, members, seen, view>>

\* An answer may be on its way to several, and stays then.
Leaves(a) == answers' = answers \/ answers' = answers \ {a}

See == \E a \in answers :
  /\ a.version >= seen
  /\ seen' = a.version
  /\ view' = a.members
  /\ Leaves(a)
  /\ UNCHANGED <<version, members>>

\* It was not for the gateway, or the gateway has given it up.
Discard == \E a \in answers :
  /\ Leaves(a)
  /\ UNCHANGED <<version, members, seen, view>>

ClusterNext == Change \/ Ask \/ See \/ Discard
=============================================================================
