----------------------------- MODULE Supervisor -----------------------------
(***************************************************************************)
(* Membership: the supervisor (controlplane/supervisor.py), its worker     *)
(* actors, the registry it writes, and the gateway's poller that reads it. *)
(*                                                                         *)
(* The supervisor has no loop of its own.  A GET of the cluster state,     *)
(* here a poll, asks every worker actor for a heartbeat, tells the         *)
(* registry what has changed, kills and respawns what is dead, and answers *)
(* with the registry's contents.  The endpoint is a plain function, so     *)
(* every poll runs in a thread of its own and polls may overlap: when the  *)
(* gateway gives one up and asks again, or when anybody else asks.  They   *)
(* share the dicts handles, last_beat and states.                          *)
(*                                                                         *)
(* A poll's step runs from one remote call to the next.  Times are kept as *)
(* ages, in units of a tick.  The order in which a poll visits the workers *)
(* is left open.                                                           *)
(***************************************************************************)
EXTENDS Registry, FiniteSets, Functions

CONSTANTS
  Polls,               \* threads of the supervisor's server
  NoPoll,
  Actors,              \* InferenceWorker actors
  NoActor,
  SuspectThreshold,    \* SUSPECT_THRESHOLD_S
  DeadThreshold,       \* DEAD_THRESHOLD_S
  ClientTimeout,       \* of the gateway's registry client
  MaxPoll,             \* bound: ticks a poll may take
  MaxFaults,           \* bound: worker processes that die, heartbeats lost
  MaxRestarts,         \* bound: restarts of the registry actor
  SpawnMayFail,        \* whether starting an actor can raise
  ChildrenOutlive      \* whether a worker process may outlive its actor

ASSUME SupervisorAssumption ==
  /\ IsFiniteSet(Workers)
  /\ NoPoll \notin Polls
  /\ NoActor \notin Actors
  /\ {SuspectThreshold, DeadThreshold, ClientTimeout, MaxPoll, MaxFaults, MaxRestarts}
       \subseteq Nat
  /\ SuspectThreshold <= DeadThreshold
  /\ SpawnMayFail \in BOOLEAN
  /\ ChildrenOutlive \in BOOLEAN

VARIABLES
  handles,       \* handles: the actor of each worker
  beatAge,       \* age of last_beat
  states,        \* states
  runs,          \* the worker whose process runs under an actor
  failing,       \* actors whose process found its port taken, and is about to end
  orphans,       \* workers whose port is held by a process without an actor
  silence,       \* history: ticks since an actor started or last answered so
  pc,            \* where each poll is
  pollAge,       \* age of its now
  todo,          \* the (wid, handle) pairs it has yet to visit
  current,       \* the worker it is at
  gone,          \* whether the gap it measured is beyond DeadThreshold
  reply,         \* the registry contents it is about to answer with
  asked,         \* the poll the gateway waits for
  pool,          \* the gateway's pool: the listed state of each worker
  seenVersion,   \* the gateway's version, cluster_state_version
  faults, restarts

processVars == <<runs, failing, orphans>>
supervisorVars == <<handles, beatAge, states>>
actorVars  == <<processVars, silence>>
pollVars   == <<pc, pollAge, todo, current, gone, reply>>
gatewayVars == <<asked, pool, seenVersion>>
bounds     == <<faults, restarts>>
vars == <<registryVars, supervisorVars, actorVars, pollVars, gatewayVars, bounds>>

\* Ages beyond this one are not told apart.
MaxAge == DeadThreshold + MaxPoll + 1
Older(age) == IF age < MaxAge THEN age + 1 ELSE age

Nothing == [w \in Workers |-> NoActor]
NoReply == [version |-> 0, listed |-> [w \in Workers |-> "absent"]]

\* Every worker has been spawned, and no poll has run.
Init ==
  /\ version = Counted(Cardinality(Workers))
  /\ listed = [w \in Workers |-> "starting"]
  /\ handles \in Injection(Workers, Actors)
  /\ beatAge = [w \in Workers |-> 0]
  /\ states = [w \in Workers |-> "starting"]
  /\ runs = [a \in Actors |-> IF a \in Range(handles)
                              THEN CHOOSE w \in Workers : handles[w] = a ELSE NoWorker]
  /\ failing = {}
  /\ orphans = {}
  /\ silence = [a \in Actors |-> 0]
  /\ pc = [p \in Polls |-> "idle"]
  /\ pollAge = [p \in Polls |-> 0]
  /\ todo = [p \in Polls |-> Nothing]
  /\ current = [p \in Polls |-> NoWorker]
  /\ gone = [p \in Polls |-> FALSE]
  /\ reply = [p \in Polls |-> NoReply]
  /\ asked = NoPoll
  /\ pool = [w \in Workers |-> "absent"]
  /\ seenVersion = 0
  /\ faults = 0
  /\ restarts = 0

-----------------------------------------------------------------------------
(* The worker actors, their processes, and the ports these open.           *)

\* The actors that would answer a heartbeat with "alive".
alive == {a \in Actors : runs[a] # NoWorker}

\* A process holds the port of a worker.
Taken(w) == w \in orphans \/ \E a \in alive \ failing : runs[a] = w

Ends(a) ==
  /\ runs' = [b \in Actors |-> IF b = a THEN NoWorker ELSE runs[b]]
  /\ failing' = failing \ {a}

\* An actor is gone, and with it its process, unless that outlives it.
ActorGoes(a) ==
  /\ Ends(a)
  /\ \/ UNCHANGED orphans
     \/ /\ ChildrenOutlive
        /\ a \in alive \ failing
        /\ orphans' = orphans \cup {runs[a]}

-----------------------------------------------------------------------------
(* A poll.                                                                 *)

Goto(p, label) == pc' = [pc EXCEPT ![p] = label]

\* The thread is done: its locals are gone, and a gateway that waited for it
\* waits no more.
End(p) ==
  /\ Goto(p, "idle")
  /\ pollAge' = [pollAge EXCEPT ![p] = 0]
  /\ todo' = [todo EXCEPT ![p] = Nothing]
  /\ current' = [current EXCEPT ![p] = NoWorker]
  /\ gone' = [gone EXCEPT ![p] = FALSE]
  /\ reply' = [reply EXCEPT ![p] = NoReply]
  /\ asked' = IF asked = p THEN NoPoll ELSE asked

\* The thread reads the clock and copies the handles.
Start(p) ==
  /\ pc[p] = "idle"
  /\ Goto(p, "beat")
  /\ pollAge' = [pollAge EXCEPT ![p] = 0]
  /\ todo' = [todo EXCEPT ![p] = handles]
  /\ UNCHANGED <<current, gone, reply>>

Visits(p) == {w \in Workers : todo[p][w] # NoActor}

\* The heartbeat of the next worker is answered "alive".
Beat(p) ==
  /\ pc[p] = "beat"
  /\ \E w \in Visits(p) :
       /\ todo[p][w] \in alive
       /\ silence' = [silence EXCEPT ![todo[p][w]] = 0]
       /\ current' = [current EXCEPT ![p] = w]
       /\ todo' = [todo EXCEPT ![p][w] = NoActor]
  /\ Goto(p, "beaten")
  /\ UNCHANGED <<registryVars, supervisorVars, processVars, pollAge, gone, reply,
                 gatewayVars, bounds>>

\* It is not: the process or the actor is dead, or the answer is late.
Miss(p) ==
  /\ pc[p] = "beat"
  /\ \E w \in Visits(p) :
       /\ IF todo[p][w] \in alive
            THEN faults < MaxFaults /\ faults' = faults + 1
            ELSE UNCHANGED faults
       /\ current' = [current EXCEPT ![p] = w]
       /\ todo' = [todo EXCEPT ![p][w] = NoActor]
  /\ Goto(p, "missed")
  /\ UNCHANGED <<registryVars, supervisorVars, actorVars, pollAge, gone, reply,
                 gatewayVars, restarts>>

\* A bug of NoteBeat: the time of a beat kept only if the worker was not ready.
NoteBeatIfNews(p) ==
  /\ pc[p] = "beaten"
  /\ LET w == current[p] IN
       /\ beatAge' = [beatAge EXCEPT ![w] = IF states[w] # "ready" THEN pollAge[p] ELSE @]
       /\ states' = [states EXCEPT ![w] = "ready"]
       /\ Goto(p, IF states[w] # "ready" THEN "tellReady" ELSE "beat")
  /\ UNCHANGED <<registryVars, handles, actorVars, pollAge, todo, current, gone, reply,
                 gatewayVars, bounds>>

\* A worker that beats is ready, and the registry is told if that is news.
NoteBeat(p) ==
  /\ pc[p] = "beaten"
  /\ LET w == current[p] IN
       /\ beatAge' = [beatAge EXCEPT ![w] = pollAge[p]]
       /\ states' = [states EXCEPT ![w] = "ready"]
       /\ Goto(p, IF states[w] # "ready" THEN "tellReady" ELSE "beat")
  /\ UNCHANGED <<registryVars, handles, actorVars, pollAge, todo, current, gone, reply,
                 gatewayVars, bounds>>

\* Bugs of NoteMiss: a worker found dead only by the poll that suspects it; one
\* that is dead already not suspected first.
NoteMissOnlyNews(p) ==
  /\ pc[p] = "missed"
  /\ LET w       == current[p]
         gap     == beatAge[w] - pollAge[p]
         suspect == gap > SuspectThreshold /\ states[w] # "suspect"
     IN /\ states' = [states EXCEPT ![w] = IF suspect THEN "suspect" ELSE @]
        /\ gone' = [gone EXCEPT ![p] = suspect /\ gap > DeadThreshold]
        /\ Goto(p, IF suspect THEN "tellSuspect" ELSE "beat")
  /\ UNCHANGED <<registryVars, handles, beatAge, actorVars, pollAge, todo, current, reply,
                 gatewayVars, bounds>>

NoteMissDeadFirst(p) ==
  /\ pc[p] = "missed"
  /\ LET w       == current[p]
         gap     == beatAge[w] - pollAge[p]
         dead    == gap > DeadThreshold
         suspect == ~dead /\ gap > SuspectThreshold /\ states[w] # "suspect"
     IN /\ states' = [states EXCEPT ![w] = IF suspect THEN "suspect"
                                           ELSE IF dead THEN "dead" ELSE @]
        /\ gone' = [gone EXCEPT ![p] = dead]
        /\ Goto(p, IF suspect THEN "tellSuspect" ELSE IF dead THEN "remove" ELSE "beat")
  /\ UNCHANGED <<registryVars, handles, beatAge, actorVars, pollAge, todo, current, reply,
                 gatewayVars, bounds>>

\* A worker that does not is suspect or dead by the time since its last beat.
NoteMiss(p) ==
  /\ pc[p] = "missed"
  /\ LET w       == current[p]
         gap     == beatAge[w] - pollAge[p]
         suspect == gap > SuspectThreshold /\ states[w] # "suspect"
         dead    == gap > DeadThreshold
     IN /\ states' = [states EXCEPT ![w] = IF suspect THEN "suspect"
                                           ELSE IF dead THEN "dead" ELSE @]
        /\ gone' = [gone EXCEPT ![p] = dead]
        /\ Goto(p, IF suspect THEN "tellSuspect" ELSE IF dead THEN "remove" ELSE "beat")
  /\ UNCHANGED <<registryVars, handles, beatAge, actorVars, pollAge, todo, current, reply,
                 gatewayVars, bounds>>

\* The registry hears of a worker that beats.
TellReady(p) ==
  /\ pc[p] = "tellReady"
  /\ Update(current[p], "ready")
  /\ Goto(p, "beat")
  /\ UNCHANGED <<supervisorVars, actorVars, pollAge, todo, current, gone, reply,
                 gatewayVars, bounds>>

\* It hears of a suspect; the same poll may go on to declare it dead.
TellSuspect(p) ==
  /\ pc[p] = "tellSuspect"
  /\ Update(current[p], "suspect")
  /\ IF gone[p]
       THEN /\ states' = [states EXCEPT ![current[p]] = "dead"]
            /\ Goto(p, "remove")
       ELSE /\ Goto(p, "beat")
            /\ UNCHANGED states
  /\ UNCHANGED <<handles, beatAge, actorVars, pollAge, todo, current, gone, reply,
                 gatewayVars, bounds>>

\* Bugs of Bury: the registry told of the dead worker instead of losing it; the
\* poll going on to the next worker.
BuryByUpdate(p) ==
  /\ pc[p] = "remove"
  /\ Update(current[p], "dead")
  /\ handles' = [handles EXCEPT ![current[p]] = NoActor]
  /\ ActorGoes(handles[current[p]])
  /\ Goto(p, "spawn")
  /\ UNCHANGED <<beatAge, states, silence, pollAge, todo, current, gone, reply,
                 gatewayVars, bounds>>
BuryWithoutRespawn(p) ==
  /\ pc[p] = "remove"
  /\ Remove(current[p])
  /\ handles' = [handles EXCEPT ![current[p]] = NoActor]
  /\ ActorGoes(handles[current[p]])
  /\ Goto(p, "beat")
  /\ UNCHANGED <<beatAge, states, silence, pollAge, todo, current, gone, reply,
                 gatewayVars, bounds>>

\* A dead worker is removed from the registry, and whatever actor its entry
\* now names is dropped and killed.
Bury(p) ==
  /\ pc[p] = "remove"
  /\ Remove(current[p])
  /\ handles' = [handles EXCEPT ![current[p]] = NoActor]
  /\ ActorGoes(handles[current[p]])
  /\ Goto(p, "spawn")
  /\ UNCHANGED <<beatAge, states, silence, pollAge, todo, current, gone, reply,
                 gatewayVars, bounds>>

Referenced == Range(handles) \cup UNION {Range(todo[p]) : p \in Polls}

\* A bug of Spawn: the state of the dead worker kept.
SpawnKeepsState(p) ==
  /\ pc[p] = "spawn"
  /\ \E a \in Actors \ (Referenced \cup alive) :
       /\ handles' = [handles EXCEPT ![current[p]] = a]
       /\ runs' = [runs EXCEPT ![a] = current[p]]
       /\ failing' = IF Taken(current[p]) THEN failing \cup {a} ELSE failing
       /\ silence' = [silence EXCEPT ![a] = 0]
  /\ beatAge' = [beatAge EXCEPT ![current[p]] = 0]
  /\ Goto(p, "tellStarting")
  /\ UNCHANGED <<registryVars, orphans, states, pollAge, todo, current, gone, reply, gatewayVars,
                 bounds>>

\* _spawn, once the new actor has started its process.
Spawn(p) ==
  /\ pc[p] = "spawn"
  /\ \E a \in Actors \ (Referenced \cup alive) :
       /\ handles' = [handles EXCEPT ![current[p]] = a]
       /\ runs' = [runs EXCEPT ![a] = current[p]]
       /\ failing' = IF Taken(current[p]) THEN failing \cup {a} ELSE failing
       /\ silence' = [silence EXCEPT ![a] = 0]
  /\ states' = [states EXCEPT ![current[p]] = "starting"]
  /\ beatAge' = [beatAge EXCEPT ![current[p]] = 0]
  /\ Goto(p, "tellStarting")
  /\ UNCHANGED <<registryVars, orphans, pollAge, todo, current, gone, reply, gatewayVars,
                 bounds>>

\* _spawn raises: the poll ends with a 500.
SpawnFails(p) ==
  /\ SpawnMayFail
  /\ pc[p] = "spawn"
  /\ End(p)
  /\ UNCHANGED <<registryVars, supervisorVars, actorVars, pool, seenVersion, bounds>>

TellStarting(p) ==
  /\ pc[p] = "tellStarting"
  /\ Update(current[p], "starting")
  /\ Goto(p, "beat")
  /\ UNCHANGED <<supervisorVars, actorVars, pollAge, todo, current, gone, reply,
                 gatewayVars, bounds>>

\* Every worker has been visited: the registry is read.
ReadRegistry(p) ==
  /\ pc[p] = "beat"
  /\ Visits(p) = {}
  /\ reply' = [reply EXCEPT ![p] = [version |-> version, listed |-> listed]]
  /\ Goto(p, "answer")
  /\ UNCHANGED <<registryVars, supervisorVars, actorVars, pollAge, todo, current, gone,
                 gatewayVars, bounds>>

\* A bug of Answer: the gateway takes any answer for the one it waits for.
AnswerAnybody(p) ==
  /\ pc[p] = "answer"
  /\ pool' = reply[p].listed
  /\ seenVersion' = reply[p].version
  /\ End(p)
  /\ UNCHANGED <<registryVars, supervisorVars, actorVars, bounds>>

\* The answer arrives.  The gateway installs it if it still waits for it:
\* Pool.Update first, then the version, which only the metrics read.
Answer(p) ==
  /\ pc[p] = "answer"
  /\ IF asked = p
       THEN /\ pool' = reply[p].listed
            /\ seenVersion' = reply[p].version
       ELSE UNCHANGED <<pool, seenVersion>>
  /\ End(p)
  /\ UNCHANGED <<registryVars, supervisorVars, actorVars, bounds>>

-----------------------------------------------------------------------------
(* Those who poll, and what may go wrong.                                  *)

\* The gateway asks once it has the answer to its last poll, or has given it
\* up.
GatewayAsks(p) ==
  /\ asked = NoPoll
  /\ Start(p)
  /\ asked' = p
  /\ UNCHANGED <<registryVars, supervisorVars, actorVars, pool, seenVersion, bounds>>

\* An operator, or worker/tests/test_chaos.py.
SomebodyAsks(p) ==
  /\ Start(p)
  /\ UNCHANGED <<registryVars, supervisorVars, actorVars, gatewayVars, bounds>>

GatewayGivesUp ==
  /\ asked # NoPoll
  /\ pollAge[asked] >= ClientTimeout
  /\ asked' = NoPoll
  /\ UNCHANGED <<registryVars, supervisorVars, actorVars, pollVars, pool, seenVersion, bounds>>

\* A process that could not open its port ends.
CannotOpen(a) ==
  /\ a \in failing
  /\ Ends(a)
  /\ UNCHANGED <<registryVars, supervisorVars, orphans, silence, pollVars, gatewayVars,
                 bounds>>

\* A worker process dies, by kill -9 or of itself.
ProcessDies(a) ==
  /\ a \in alive
  /\ faults < MaxFaults
  /\ faults' = faults + 1
  /\ Ends(a)
  /\ UNCHANGED <<registryVars, supervisorVars, orphans, silence, pollVars, gatewayVars,
                 restarts>>

OrphanDies(w) ==
  /\ w \in orphans
  /\ orphans' = orphans \ {w}
  /\ UNCHANGED <<registryVars, supervisorVars, runs, failing, silence, pollVars,
                 gatewayVars, bounds>>

\* An actor dies.  Ray starts it again, without its process.
ActorDies(a) ==
  /\ a \in alive
  /\ faults < MaxFaults
  /\ faults' = faults + 1
  /\ ActorGoes(a)
  /\ UNCHANGED <<registryVars, supervisorVars, silence, pollVars, gatewayVars, restarts>>

\* Ray terminates an actor that nobody has a handle of.
Collect(a) ==
  /\ a \in alive \ Referenced
  /\ ActorGoes(a)
  /\ UNCHANGED <<registryVars, supervisorVars, silence, pollVars, gatewayVars, bounds>>

\* The registry actor crashes and restarts.  Calls it was serving raise, and
\* their polls end with a 500.
CallsRegistry(p) ==
  \/ pc[p] \in {"tellReady", "tellSuspect", "remove", "tellStarting"}
  \/ pc[p] = "beat" /\ Visits(p) = {}
RegistryRestarts ==
  /\ restarts < MaxRestarts
  /\ restarts' = restarts + 1
  /\ Restart
  /\ \E failed \in SUBSET {p \in Polls : CallsRegistry(p)} :
       /\ pc' = [p \in Polls |-> IF p \in failed THEN "idle" ELSE pc[p]]
       /\ pollAge' = [p \in Polls |-> IF p \in failed THEN 0 ELSE pollAge[p]]
       /\ todo' = [p \in Polls |-> IF p \in failed THEN Nothing ELSE todo[p]]
       /\ current' = [p \in Polls |-> IF p \in failed THEN NoWorker ELSE current[p]]
       /\ gone' = [p \in Polls |-> IF p \in failed THEN FALSE ELSE gone[p]]
       /\ asked' = IF asked \in failed THEN NoPoll ELSE asked
  /\ UNCHANGED <<supervisorVars, actorVars, reply, pool, seenVersion, faults>>

Tick ==
  /\ \A p \in Polls : pc[p] # "idle" => pollAge[p] < MaxPoll
  /\ beatAge' = [w \in Workers |-> Older(beatAge[w])]
  /\ silence' = [a \in Actors |-> IF a \in Range(handles) THEN Older(silence[a]) ELSE 0]
  /\ pollAge' = [p \in Polls |-> IF pc[p] = "idle" THEN 0 ELSE pollAge[p] + 1]
  /\ UNCHANGED <<registryVars, handles, states, processVars, pc, todo, current, gone, reply,
                 gatewayVars, bounds>>

-----------------------------------------------------------------------------
PollStep(p) ==
  \/ Beat(p) \/ Miss(p) \/ NoteBeat(p) \/ NoteMiss(p)
  \/ TellReady(p) \/ TellSuspect(p) \/ TellStarting(p)
  \/ Bury(p) \/ Spawn(p) \/ SpawnFails(p) \/ ReadRegistry(p) \/ Answer(p)

Next ==
  \/ \E p \in Polls : PollStep(p) \/ GatewayAsks(p) \/ SomebodyAsks(p)
  \/ \E a \in Actors : CannotOpen(a) \/ ProcessDies(a) \/ ActorDies(a) \/ Collect(a)
  \/ \E w \in Workers : OrphanDies(w)
  \/ GatewayGivesUp \/ RegistryRestarts \/ Tick

\* Threads run, time passes, processes that cannot open their port end, Ray
\* collects actors, and the gateway's poller never stops asking.  The
\* server has threads for all who ask, so the gateway gets its turn.
Fairness ==
  /\ \A p \in Polls : WF_vars(PollStep(p))
  /\ SF_vars(\E p \in Polls : GatewayAsks(p))
  /\ \A a \in Actors : WF_vars(CannotOpen(a)) /\ WF_vars(Collect(a))
  /\ WF_vars(Tick)

Spec == Init /\ [][Next]_vars
FairSpec == Spec /\ Fairness
-----------------------------------------------------------------------------
PollStates ==
  {"idle", "beat", "beaten", "missed", "tellReady", "tellSuspect", "remove", "spawn",
   "tellStarting", "answer"}

\* Type invariant: a thread past its heartbeat is at a worker, and the registry
\* lists no worker as dead.
TypeOK ==
  /\ RegistryTypeOK
  /\ handles \in [Workers -> Actors \cup {NoActor}]
  /\ beatAge \in [Workers -> 0 .. MaxAge]
  /\ states \in [Workers -> {"starting", "ready", "suspect", "dead"}]
  /\ runs \in [Actors -> Workers \cup {NoWorker}]
  /\ failing \subseteq alive
  /\ orphans \subseteq Workers
  /\ silence \in [Actors -> 0 .. MaxAge]
  /\ pc \in [Polls -> PollStates]
  /\ pollAge \in [Polls -> 0 .. MaxPoll]
  /\ todo \in [Polls -> [Workers -> Actors \cup {NoActor}]]
  /\ current \in [Polls -> Workers \cup {NoWorker}]
  /\ gone \in [Polls -> BOOLEAN]
  /\ reply \in [Polls -> [version : Nat, listed : [Workers -> ListedStates]]]
  /\ asked \in Polls \cup {NoPoll}
  /\ pool \in [Workers -> ListedStates]
  /\ seenVersion \in Nat
  /\ faults \in 0 .. MaxFaults
  /\ restarts \in 0 .. MaxRestarts
  /\ \A p \in Polls : pc[p] \notin {"idle", "beat", "answer"} => current[p] \in Workers

\* However polls overlap, fail or are given up, a worker without an actor is
\* being given one: no id drops out of the supervisor's care.
NoWorkerForgotten ==
  \A w \in Workers :
    handles[w] = NoActor => \E p \in Polls : pc[p] = "spawn" /\ current[p] = w

\* A version below the bound names one membership: as long as the registry has
\* not restarted, a gateway at its version has its contents, and an older gateway
\* an older version.
VersionNamesContents ==
  restarts = 0 /\ version < MaxVersion =>
    /\ seenVersion <= version
    /\ seenVersion = version => pool = listed

\* As long as the registry has not restarted, the control plane is ClusterView
\* to the gateway, the answers on their way being those of polls that are
\* about to give them: it sees what was listed, and never goes back, although
\* polls overlap and answer others too, or too late.
Promise == INSTANCE ClusterView WITH
  States  <- ListedStates,
  members <- listed,
  answers <- {[version |-> reply[p].version, members |-> reply[p].listed] :
                p \in {q \in Polls : pc[q] = "answer"}},
  seen    <- seenVersion,
  view    <- pool
ClusterViewKept ==
  /\ Promise!ClusterInit
  /\ [][restarts' = 0 /\ version < MaxVersion => Promise!ClusterNext]_(Promise!clusterVars)

\* What the registry lists is what the supervisor thinks of a worker, unless a
\* poll is about to tell it.  Only polls that do not overlap keep this.
ListedAsKnown ==
  restarts = 0 =>
    \A w \in Workers :
      \/ states[w] = (IF listed[w] = "absent" THEN "dead" ELSE listed[w])
      \/ \E p \in Polls : current[p] = w /\ pc[p] \notin {"idle", "beat", "answer"}

\* The registry lists a worker as ready only after starting or a suspicion, and
\* loses it only after it has listed it as suspect: who reads the versions, as
\* the report of an experiment does, finds the stages of a death in their order.
\* Only polls that do not overlap keep this.
Follows == [ready    |-> {"starting", "suspect"},
            suspect  |-> {"starting", "ready"},
            absent   |-> {"suspect"},
            starting |-> {"absent"}]
DeathByStages ==
  [][restarts' = 0 => \A w \in Workers :
       listed'[w] # listed[w] => listed[w] \in Follows[listed'[w]]]_vars

\* An actor is killed only when it has not answered for nearly DeadThreshold:
\* the clock a poll reads at its start costs at most the length of a poll.
\* Only polls that do not overlap keep this.
Kills(w) == handles[w] # NoActor /\ handles'[w] = NoActor
SilentBeforeKill ==
  [][\A w \in Workers :
       Kills(w) => silence[handles[w]] + MaxPoll > DeadThreshold]_vars

\* After the last fault every worker comes back, and the gateway routes to it:
\* as long as the registry has not restarted, and but for the workers whose
\* spawn raised and those whose port an orphan holds, so that every process
\* the supervisor starts ends at once.
Recovers ==
  <>[](restarts = 0 => \A w \in Workers \ orphans :
         handles[w] = NoActor \/ (handles[w] \in alive /\ pool[w] = "ready"))
-----------------------------------------------------------------------------
(* What the documentation says and the code does not keep.                 *)

\* docs/architecture.md: dead actors are respawned.
DeadRespawned ==
  \A w \in Workers : handles[w] \notin alive ~> handles[w] \in alive

\* worker/tests/test_chaos.py, test_registry_converges_after_kill.
RegistryConverges == <>[](\A w \in Workers : listed[w] = "ready")
=============================================================================
