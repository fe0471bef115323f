------------------------------- MODULE Chaos -------------------------------
(***************************************************************************)
(* The chaos controller: experiments (package experiment) and game days    *)
(* (package gameday), the fault store they inject through (package faults) *)
(* and the network faults that its requests leave in Toxiproxy.            *)
(*                                                                         *)
(* A run is a process with a store of its own; Toxiproxy outlives it.  A   *)
(* request to Toxiproxy can fail before or after it has taken effect.      *)
(* Killing a worker leaves nothing behind here: the supervisor respawns it.*)
(***************************************************************************)
EXTENDS Fleet, Integers, Sequences

CONSTANTS
  Experiments,      \* definitions: sequences of <<fault, target>> steps
  GameDays,         \* plans: sequences of <<kind, worker>> events
  MaxLost           \* bound: requests of a run to Toxiproxy that fail

Kinds == {"kill", "latency", "partition"}

\* An experiment may name a fault that Run does not know; Plan does not.
ASSUME ChaosAssumption ==
  /\ \A p \in Experiments : p \in Seq((Kinds \cup {"other"}) \X Workers) /\ p # <<>>
  /\ \A p \in GameDays : p \in Seq(Kinds \X Workers) /\ p # <<>>
  /\ MaxLost \in Nat

VARIABLES
  toxics,           \* Toxiproxy: proxies with the toxic latency_downstream
  disabled,         \* Toxiproxy: proxies that are disabled
  pc,               \* where the run is
  kind,             \* what it runs
  plan,             \* its steps
  step,             \* the step it is at
  faults,           \* Store.faults, without their ids
  outcome,          \* how the run ended
  found,            \* history: the faults the run found in Toxiproxy
  lost,             \* history: requests of the run that failed
  unreset           \* history: whether its last reset was one of them

proxyVars == <<toxics, disabled>>
runVars == <<kind, plan, found>>
vars == <<proxyVars, pc, runVars, step, faults, outcome, lost, unreset>>

Active == (({"latency"} \X toxics) \cup ({"partition"} \X disabled))
Healthy == Active = {}

Init ==
  /\ toxics = {}
  /\ disabled = {}
  /\ pc = "idle"
  /\ kind = "experiment"
  /\ plan = <<>>
  /\ step = 1
  /\ faults = {}
  /\ outcome = "none"
  /\ found = {}
  /\ lost = 0
  /\ unreset = FALSE

\* chaos schedule run, chaos gameday: a new process with an empty store.
Begin(k, p) ==
  /\ pc = "idle"
  /\ pc' = "inject"
  /\ kind' = k
  /\ plan' = p
  /\ step' = 1
  /\ faults' = {}
  /\ outcome' = "none"
  /\ found' = Active
  /\ lost' = 0
  /\ unreset' = FALSE
  /\ UNCHANGED proxyVars

-----------------------------------------------------------------------------
(* Requests to Toxiproxy.                                                  *)

Lose == lost < MaxLost /\ lost' = lost + 1

\* AddToxic is refused if the proxy has a toxic of that name; Toggle is not.
Accepts(fault, w) == fault \in Kinds /\ (fault = "latency" => w \notin toxics)

TakesEffect(fault, w) ==
  /\ toxics' = IF fault = "latency" THEN toxics \cup {w} ELSE toxics
  /\ disabled' = IF fault = "partition" THEN disabled \cup {w} ELSE disabled

\* Reset removes every toxic and enables every proxy.
Clear == toxics' = {} /\ disabled' = {}

Reset ==
  \/ Clear /\ unreset' = FALSE /\ UNCHANGED lost
  \/ Lose /\ unreset' = TRUE /\ (Clear \/ UNCHANGED proxyVars)

-----------------------------------------------------------------------------
(* A run.                                                                  *)

Fault == plan[step][1]
Target == plan[step][2]

Goto(label) == pc' = label /\ UNCHANGED outcome
Stop(how) == pc' = "idle" /\ outcome' = how

\* A bug of Inject: the fault not recorded.
InjectUnrecorded ==
  /\ pc = "inject"
  /\ Accepts(Fault, Target)
  /\ TakesEffect(Fault, Target)
  /\ Goto("wait")
  /\ UNCHANGED <<runVars, step, faults, lost, unreset>>

\* Kill, Latency or Partition succeeds, and the store records the fault.
Inject ==
  /\ pc = "inject"
  /\ Accepts(Fault, Target)
  /\ TakesEffect(Fault, Target)
  /\ faults' = faults \cup {<<Fault, Target>>}
  /\ Goto("wait")
  /\ UNCHANGED <<runVars, step, lost, unreset>>

\* The fault is unknown or refused, or its request fails, which may have taken
\* effect.  A game day resets before it gives up; an experiment does not.
InjectFails ==
  /\ pc = "inject"
  /\ \/ ~Accepts(Fault, Target) /\ UNCHANGED <<proxyVars, lost>>
     \/ /\ Fault \in {"latency", "partition"}
        /\ Lose
        /\ \/ UNCHANGED proxyVars
           \/ Accepts(Fault, Target) /\ TakesEffect(Fault, Target)
  /\ IF kind = "experiment" THEN Stop("failed") ELSE Goto("give up")
  /\ UNCHANGED <<runVars, step, faults, unreset>>

\* A bug of Check: an experiment that finds the gateway unready stops at once.
CheckStopsAtOnce ==
  /\ pc = "wait"
  /\ kind = "experiment"
  /\ \/ /\ step < Len(plan) /\ Goto("inject")
        /\ step' = step + 1
     \/ /\ \/ step = Len(plan) /\ Goto("finish")
           \/ Stop("aborted")
        /\ UNCHANGED step
  /\ UNCHANGED <<proxyVars, runVars, faults, lost, unreset>>

\* An experiment asks the gateway whether it is ready, and goes on if it is.
Check ==
  /\ pc = "wait"
  /\ kind = "experiment"
  /\ \/ /\ step < Len(plan) /\ Goto("inject")
        /\ step' = step + 1
     \/ /\ \/ step = Len(plan) /\ Goto("finish")
           \/ Goto("abort")
        /\ UNCHANGED step
  /\ UNCHANGED <<proxyVars, runVars, faults, lost, unreset>>

\* A game day enables the worker's proxy, whether or not the request succeeds.
Heal ==
  /\ pc = "wait"
  /\ kind = "gameday"
  /\ \/ disabled' = disabled \ {Target} /\ UNCHANGED lost
     \/ Lose /\ UNCHANGED disabled
  /\ Goto("reset")
  /\ UNCHANGED <<toxics, runVars, step, faults, unreset>>

\* A bug of EndRound: no reset but the one of the last round.
EndRoundHealed ==
  /\ pc = "reset"
  /\ IF step < Len(plan)
       THEN step' = step + 1 /\ Goto("inject") /\ UNCHANGED <<proxyVars, lost, unreset>>
       ELSE Reset /\ Stop("ok") /\ UNCHANGED step
  /\ UNCHANGED <<runVars, faults>>

\* A bug of EndRound: one round too many.
EndRoundOnceMore ==
  /\ pc = "reset"
  /\ Reset
  /\ IF step <= Len(plan)
       THEN step' = step + 1 /\ Goto("inject")
       ELSE Stop("ok") /\ UNCHANGED step
  /\ UNCHANGED <<runVars, faults>>

\* It then resets everything, whether or not that succeeds.
EndRound ==
  /\ pc = "reset"
  /\ Reset
  /\ IF step < Len(plan)
       THEN step' = step + 1 /\ Goto("inject")
       ELSE Stop("ok") /\ UNCHANGED step
  /\ UNCHANGED <<runVars, faults>>

\* The last reset of an experiment, or of a game day that gives up.  Only the
\* experiment that has made all its steps may report that it failed.
LastReset ==
  /\ pc \in {"finish", "abort", "give up"}
  /\ Reset
  /\ \/ pc = "abort" /\ Stop("aborted")
     \/ pc = "give up" /\ Stop("failed")
     \/ pc = "finish" /\ Stop("ok")
     \/ pc = "finish" /\ unreset' /\ Stop("failed")
  /\ UNCHANGED <<runVars, step, faults>>

-----------------------------------------------------------------------------
(* The other commands and the /reset of chaos serve: processes whose stores *)
(* know none of the faults.  Nobody injects by hand while a run goes on.   *)

\* chaos latency, chaos partition.  The last run no longer answers for what is there.
OperatorInjects ==
  /\ pc = "idle"
  /\ \E fault \in {"latency", "partition"}, w \in Workers :
       Accepts(fault, w) /\ TakesEffect(fault, w)
  /\ outcome' = "none"
  /\ UNCHANGED <<pc, runVars, step, faults, lost, unreset>>

OperatorHeals ==
  /\ \E w \in disabled : disabled' = disabled \ {w}
  /\ UNCHANGED <<toxics, pc, runVars, step, faults, outcome, lost, unreset>>

OperatorResets ==
  /\ ~Healthy
  /\ Clear
  /\ UNCHANGED <<pc, runVars, step, faults, outcome, lost, unreset>>

-----------------------------------------------------------------------------
Next ==
  \/ \E p \in Experiments : Begin("experiment", p)
  \/ \E p \in GameDays : Begin("gameday", p)
  \/ Inject \/ InjectFails \/ Check \/ Heal \/ EndRound \/ LastReset
  \/ OperatorInjects \/ OperatorHeals \/ OperatorResets

Spec == Init /\ [][Next]_vars
-----------------------------------------------------------------------------
\* The loops never run off the end of their plan.
StepInPlan ==
  /\ plan \in Experiments \cup GameDays \cup {<<>>}
  /\ pc # "idle" => step \in DOMAIN plan

\* Type invariant.
TypeOK ==
  /\ toxics \subseteq Workers
  /\ disabled \subseteq Workers
  /\ pc \in {"idle", "inject", "wait", "reset", "finish", "abort", "give up"}
  /\ kind \in {"experiment", "gameday"}
  /\ StepInPlan
  /\ faults \subseteq Kinds \X Workers
  /\ outcome \in {"none", "ok", "aborted", "failed"}
  /\ found \subseteq Kinds \X Workers
  /\ lost \in 0 .. MaxLost
  /\ unreset \in BOOLEAN

\* Whatever faults a run finds, it leaves a healthy network behind: but for an
\* experiment that could not inject a fault, and for a last reset that was lost.
\* What went wrong in earlier rounds is made up for.
RunsLeaveNothing ==
  pc = "idle" /\ outcome # "none" /\ ~Healthy
    => unreset \/ (kind = "experiment" /\ outcome = "failed")

\* Each round of a game day but the first injects into a healthy network, unless
\* the reset before it was lost: one fault at a time, and no latency is refused.
RoundsIndependent ==
  kind = "gameday" /\ pc = "inject" /\ step > 1 /\ ~unreset => Healthy

\* While a run goes on its store names every fault in Toxiproxy that it did not
\* find there, so that what it lists misses none of its own.
StoreNamesFaults ==
  pc \notin {"idle", "give up"} => Active \subseteq found \cup faults
=============================================================================
