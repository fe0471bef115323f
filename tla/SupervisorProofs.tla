-------------------------- MODULE SupervisorProofs --------------------------
(***************************************************************************)
(* What Supervisor.tla guarantees for any number of workers, polls and     *)
(* actors, any thresholds and any of its bounds, with proofs checked by    *)
(* TLAPS.                                                                  *)
(***************************************************************************)
EXTENDS Supervisor, FiniteSetTheorems, TLAPS

-----------------------------------------------------------------------------
(* Types, part by part.                                                    *)

SupervisorTypeOK ==
  /\ handles \in [Workers -> Actors \cup {NoActor}]
  /\ beatAge \in [Workers -> 0 .. MaxAge]
  /\ states \in [Workers -> {"starting", "ready", "suspect", "dead"}]

ActorTypeOK ==
  /\ runs \in [Actors -> Workers \cup {NoWorker}]
  /\ failing \subseteq alive
  /\ orphans \subseteq Workers
  /\ silence \in [Actors -> 0 .. MaxAge]

PollTypeOK ==
  /\ pc \in [Polls -> PollStates]
  /\ pollAge \in [Polls -> 0 .. MaxPoll]
  /\ todo \in [Polls -> [Workers -> Actors \cup {NoActor}]]
  /\ current \in [Polls -> Workers \cup {NoWorker}]
  /\ gone \in [Polls -> BOOLEAN]
  /\ \A p \in Polls : pc[p] \notin {"idle", "beat", "answer"} => current[p] \in Workers

AnswerTypeOK ==
  /\ reply \in [Polls -> [version : Nat, listed : [Workers -> ListedStates]]]
  /\ asked \in Polls \cup {NoPoll}
  /\ pool \in [Workers -> ListedStates]
  /\ seenVersion \in Nat

BoundsTypeOK == faults \in 0 .. MaxFaults /\ restarts \in 0 .. MaxRestarts

PartsTypeOK ==
  RegistryTypeOK /\ SupervisorTypeOK /\ ActorTypeOK /\ PollTypeOK /\ AnswerTypeOK /\ BoundsTypeOK

\* The types, part by part.
LEMMA TypeOKParts == TypeOK <=> PartsTypeOK
BY DEF TypeOK, PartsTypeOK, SupervisorTypeOK, ActorTypeOK, PollTypeOK, AnswerTypeOK, BoundsTypeOK

\* The thresholds and the greatest age are natural numbers.
LEMMA LimitsTyped ==
  /\ SuspectThreshold \in Nat /\ DeadThreshold \in Nat /\ ClientTimeout \in Nat
  /\ MaxPoll \in Nat /\ MaxFaults \in Nat /\ MaxRestarts \in Nat
  /\ SuspectThreshold <= DeadThreshold
  /\ MaxVersion \in Nat
  /\ MaxAge \in Nat /\ MaxPoll <= MaxAge
<1>1. /\ SuspectThreshold \in Nat /\ DeadThreshold \in Nat /\ ClientTimeout \in Nat
      /\ MaxPoll \in Nat /\ MaxFaults \in Nat /\ MaxRestarts \in Nat
      /\ SuspectThreshold <= DeadThreshold
  BY SupervisorAssumption
<1>2. MaxAge \in Nat /\ MaxPoll <= MaxAge
  BY <1>1 DEF MaxAge
<1> QED
  BY <1>1, <1>2, RegistryAssumption

\* The registry keeps its type when it is told of a worker, or loses one.
LEMMA RegistryTold ==
  ASSUME RegistryTypeOK, NEW w, NEW s \in ListedStates \ {"absent"}, Update(w, s) \/ Remove(w)
  PROVE  RegistryTypeOK'
<1>1. "absent" \in ListedStates
  BY DEF ListedStates
<1>2. listed' \in [Workers -> ListedStates]
  BY <1>1 DEF Update, Remove, RegistryTypeOK
<1>3. Counted(version + 1) \in Nat
  BY LimitsTyped DEF Counted, RegistryTypeOK
<1> QED
  BY <1>2, <1>3 DEF Update, Remove, RegistryTypeOK

\* An actor that goes takes its process with it or leaves an orphan.
LEMMA ActorGoesTypes ==
  ASSUME ActorTypeOK, NEW a, ActorGoes(a), UNCHANGED silence
  PROVE  ActorTypeOK'
<1>1. runs' \in [Actors -> Workers \cup {NoWorker}] /\ alive' = alive \ {a}
  BY DEF ActorGoes, Ends, ActorTypeOK, alive
<1>2. orphans' \subseteq Workers
  BY DEF ActorGoes, ActorTypeOK, alive
<1> QED
  BY <1>1, <1>2 DEF ActorGoes, Ends, ActorTypeOK

\* A thread that is done is idle and holds nothing.
LEMMA EndTypes ==
  ASSUME PollTypeOK, AnswerTypeOK, NEW p \in Polls, End(p)
  PROVE  /\ PollTypeOK'
         /\ reply' \in [Polls -> [version : Nat, listed : [Workers -> ListedStates]]]
         /\ asked' \in Polls \cup {NoPoll}
<1>1. /\ Nothing \in [Workers -> Actors \cup {NoActor}]
      /\ NoReply \in [version : Nat, listed : [Workers -> ListedStates]]
      /\ "idle" \in PollStates /\ 0 \in 0 .. MaxPoll
  BY LimitsTyped DEF Nothing, NoReply, ListedStates, PollStates
<1>2. PollTypeOK'
  BY <1>1 DEF End, Goto, PollTypeOK
<1> QED
  BY <1>1, <1>2 DEF End, AnswerTypeOK

\* A poll that begins keeps the types.
LEMMA StartTypes ==
  ASSUME SupervisorTypeOK, PollTypeOK, NEW p \in Polls, Start(p)
  PROVE  PollTypeOK'
<1>1. "beat" \in PollStates /\ 0 \in 0 .. MaxPoll
  BY LimitsTyped DEF PollStates
<1> QED
  BY <1>1 DEF Start, Goto, PollTypeOK, SupervisorTypeOK

\* A poll that goes on from its worker, which stays the current one.
LEMMA GotoTypes ==
  ASSUME PollTypeOK, NEW p \in Polls, NEW label \in PollStates, Goto(p, label),
         label \notin {"idle", "beat", "answer"} => current[p] \in Workers,
         UNCHANGED <<pollAge, todo, current>>, gone' \in [Polls -> BOOLEAN]
  PROVE  PollTypeOK'
BY DEF Goto, PollTypeOK

\* A poll that goes on to the next worker keeps the types.
LEMMA VisitTypes ==
  ASSUME PollTypeOK, NEW p \in Polls, NEW label \in PollStates, Goto(p, label),
         NEW w \in Workers, current' = [current EXCEPT ![p] = w],
         todo' = [todo EXCEPT ![p][w] = NoActor], UNCHANGED <<pollAge, gone>>
  PROVE  PollTypeOK'
<1>1. todo' \in [Polls -> [Workers -> Actors \cup {NoActor}]]
  BY DEF PollTypeOK
<1>2. current' \in [Polls -> Workers \cup {NoWorker}]
  BY DEF PollTypeOK
<1> QED
  BY <1>1, <1>2 DEF Goto, PollTypeOK
-----------------------------------------------------------------------------
(* Types, step by step.                                                    *)

\* A heartbeat answered or missed keeps the types.
LEMMA BeatTypes ==
  ASSUME PartsTypeOK, NEW p \in Polls, Beat(p) \/ Miss(p)
  PROVE  PartsTypeOK'
<1>1. UNCHANGED <<version, listed, handles, beatAge, states, runs, failing, orphans, pollAge,
                  gone, reply, asked, pool, seenVersion, restarts>>
  BY DEF Beat, Miss, registryVars, supervisorVars, processVars, actorVars, gatewayVars, bounds
<1>2. PICK w \in Workers :
        current' = [current EXCEPT ![p] = w] /\ todo' = [todo EXCEPT ![p][w] = NoActor]
  BY DEF Beat, Miss, Visits
<1>3. Goto(p, "beaten") \/ Goto(p, "missed")
  BY DEF Beat, Miss
<1>4. PollTypeOK'
  BY <1>1, <1>2, <1>3, VisitTypes DEF PollStates, PartsTypeOK
<1>5. silence' \in [Actors -> 0 .. MaxAge]
  BY LimitsTyped DEF Beat, Miss, actorVars, PartsTypeOK, ActorTypeOK
<1>6. faults' \in 0 .. MaxFaults
  BY LimitsTyped DEF Beat, Miss, bounds, PartsTypeOK, BoundsTypeOK
<1>7. RegistryTypeOK' /\ SupervisorTypeOK' /\ AnswerTypeOK'
  BY <1>1 DEF PartsTypeOK, RegistryTypeOK, SupervisorTypeOK, AnswerTypeOK
<1>8. ActorTypeOK' /\ BoundsTypeOK'
  BY <1>1, <1>5, <1>6 DEF PartsTypeOK, ActorTypeOK, BoundsTypeOK, alive
<1> QED
  BY <1>4, <1>7, <1>8 DEF PartsTypeOK

\* What a poll notes of a heartbeat keeps the types.
LEMMA NoteTypes ==
  ASSUME PartsTypeOK, NEW p \in Polls, NoteBeat(p) \/ NoteMiss(p)
  PROVE  PartsTypeOK'
<1>1. UNCHANGED <<version, listed, handles, runs, failing, orphans, silence, pollAge, todo,
                  current, reply, asked, pool, seenVersion, faults, restarts>>
  BY DEF NoteBeat, NoteMiss, registryVars, processVars, actorVars, gatewayVars, bounds
<1>2. current[p] \in Workers
  BY DEF NoteBeat, NoteMiss, PartsTypeOK, PollTypeOK
<1>3. pollAge[p] \in 0 .. MaxAge
  BY LimitsTyped DEF PartsTypeOK, PollTypeOK
<1>4. beatAge' \in [Workers -> 0 .. MaxAge]
  BY <1>3 DEF NoteBeat, NoteMiss, PartsTypeOK, SupervisorTypeOK
<1>5. states' \in [Workers -> {"starting", "ready", "suspect", "dead"}]
  BY DEF NoteBeat, NoteMiss, PartsTypeOK, SupervisorTypeOK
<1>6. gone' \in [Polls -> BOOLEAN]
  <2> DEFINE dead == beatAge[current[p]] - pollAge[p] > DeadThreshold
  <2>1. UNCHANGED gone \/ gone' = [gone EXCEPT ![p] = dead]
    BY DEF NoteBeat, NoteMiss
  <2>2. dead \in BOOLEAN
    OBVIOUS
  <2> QED
    BY <2>1, <2>2, Zenon DEF PartsTypeOK, PollTypeOK
<1>7. \E label \in {"beat", "tellReady", "tellSuspect", "remove"} : Goto(p, label)
  BY DEF NoteBeat, NoteMiss
<1>8. PollTypeOK'
  BY <1>1, <1>2, <1>6, <1>7, GotoTypes DEF PollStates, PartsTypeOK
<1>9. RegistryTypeOK' /\ ActorTypeOK' /\ AnswerTypeOK' /\ BoundsTypeOK'
  BY <1>1 DEF PartsTypeOK, RegistryTypeOK, ActorTypeOK, AnswerTypeOK, BoundsTypeOK, alive
<1> QED
  BY <1>1, <1>4, <1>5, <1>8, <1>9 DEF PartsTypeOK, SupervisorTypeOK

\* What a poll tells the registry keeps the types.
LEMMA TellTypes ==
  ASSUME PartsTypeOK, NEW p \in Polls, TellReady(p) \/ TellSuspect(p) \/ TellStarting(p)
  PROVE  PartsTypeOK'
<1>1. UNCHANGED <<handles, beatAge, runs, failing, orphans, silence, pollAge, todo,
                  current, gone, reply, asked, pool, seenVersion, faults, restarts>>
  BY DEF TellReady, TellSuspect, TellStarting, supervisorVars, processVars, actorVars,
     gatewayVars, bounds
<1>2. current[p] \in Workers
  BY DEF TellReady, TellSuspect, TellStarting, PartsTypeOK, PollTypeOK
<1>3. states' \in [Workers -> {"starting", "ready", "suspect", "dead"}]
  BY DEF TellReady, TellSuspect, TellStarting, supervisorVars, PartsTypeOK, SupervisorTypeOK
<1>4. \E label \in {"beat", "remove"} : Goto(p, label)
  BY DEF TellReady, TellSuspect, TellStarting
<1>5. PollTypeOK'
  BY <1>1, <1>2, <1>4, GotoTypes DEF PollStates, PartsTypeOK, PollTypeOK
<1>6. \E s \in {"ready", "suspect", "starting"} : Update(current[p], s)
  BY DEF TellReady, TellSuspect, TellStarting
<1>7. RegistryTypeOK'
  BY <1>6, RegistryTold DEF ListedStates, PartsTypeOK
<1>8. ActorTypeOK' /\ AnswerTypeOK' /\ BoundsTypeOK'
  BY <1>1 DEF PartsTypeOK, ActorTypeOK, AnswerTypeOK, BoundsTypeOK, alive
<1> QED
  BY <1>1, <1>3, <1>5, <1>7, <1>8 DEF PartsTypeOK, SupervisorTypeOK

\* Burying a dead worker keeps the types.
LEMMA BuryTypes ==
  ASSUME PartsTypeOK, NEW p \in Polls, Bury(p)
  PROVE  PartsTypeOK'
<1>1. UNCHANGED <<beatAge, states, silence, pollAge, todo, current, gone, reply, asked, pool,
                  seenVersion, faults, restarts>>
  BY DEF Bury, gatewayVars, bounds
<1>2. current[p] \in Workers
  BY DEF Bury, PartsTypeOK, PollTypeOK
<1>3. SupervisorTypeOK'
  BY <1>1 DEF Bury, PartsTypeOK, SupervisorTypeOK
<1>4. ActorTypeOK'
  BY <1>1, ActorGoesTypes DEF Bury, PartsTypeOK
<1>5. Goto(p, "spawn") /\ gone' \in [Polls -> BOOLEAN]
  BY <1>1 DEF Bury, PartsTypeOK, PollTypeOK
<1>6. PollTypeOK'
  BY <1>1, <1>2, <1>5, GotoTypes DEF PollStates, PartsTypeOK
<1>7. RegistryTypeOK'
  <2>1. Remove(current[p]) /\ "ready" \in ListedStates \ {"absent"}
    BY DEF Bury, ListedStates
  <2> QED
    BY <2>1, RegistryTold DEF PartsTypeOK
<1>8. AnswerTypeOK' /\ BoundsTypeOK'
  BY <1>1 DEF PartsTypeOK, AnswerTypeOK, BoundsTypeOK
<1> QED
  BY <1>3, <1>4, <1>6, <1>7, <1>8 DEF PartsTypeOK

\* Spawning a worker, or failing to, keeps the types.
LEMMA SpawnTypes ==
  ASSUME PartsTypeOK, NEW p \in Polls, Spawn(p)
  PROVE  PartsTypeOK'
<1>1. UNCHANGED <<version, listed, orphans, pollAge, todo, current, gone, reply, asked, pool,
                  seenVersion, faults, restarts>>
  BY DEF Spawn, registryVars, gatewayVars, bounds
<1>2. current[p] \in Workers
  BY DEF Spawn, PartsTypeOK, PollTypeOK
<1>3. PICK a \in Actors :
        /\ handles' = [handles EXCEPT ![current[p]] = a]
        /\ runs' = [runs EXCEPT ![a] = current[p]]
        /\ failing' = IF Taken(current[p]) THEN failing \cup {a} ELSE failing
        /\ silence' = [silence EXCEPT ![a] = 0]
  BY DEF Spawn
<1>4. SupervisorTypeOK'
  <2>1. handles' \in [Workers -> Actors \cup {NoActor}]
    BY <1>3 DEF PartsTypeOK, SupervisorTypeOK
  <2>2. beatAge' \in [Workers -> 0 .. MaxAge]
    <3>1. beatAge' = [beatAge EXCEPT ![current[p]] = 0] /\ 0 \in 0 .. MaxAge
      BY LimitsTyped DEF Spawn
    <3> QED
      BY <3>1 DEF PartsTypeOK, SupervisorTypeOK
  <2>3. states' \in [Workers -> {"starting", "ready", "suspect", "dead"}]
    BY DEF Spawn, PartsTypeOK, SupervisorTypeOK
  <2> QED
    BY <2>1, <2>2, <2>3 DEF SupervisorTypeOK
<1>5. runs' \in [Actors -> Workers \cup {NoWorker}] /\ silence' \in [Actors -> 0 .. MaxAge]
  BY <1>2, <1>3, LimitsTyped DEF PartsTypeOK, ActorTypeOK
<1>6. alive' = alive \cup {a}
  BY <1>2, <1>3, FleetAssumption DEF PartsTypeOK, ActorTypeOK, alive
<1>7. ActorTypeOK'
  BY <1>1, <1>3, <1>5, <1>6 DEF PartsTypeOK, ActorTypeOK
<1>8. Goto(p, "tellStarting") /\ gone' \in [Polls -> BOOLEAN]
  BY <1>1 DEF Spawn, PartsTypeOK, PollTypeOK
<1>9. PollTypeOK'
  BY <1>1, <1>2, <1>8, GotoTypes DEF PollStates, PartsTypeOK
<1>10. RegistryTypeOK' /\ AnswerTypeOK' /\ BoundsTypeOK'
  BY <1>1 DEF PartsTypeOK, RegistryTypeOK, AnswerTypeOK, BoundsTypeOK
<1> QED
  BY <1>4, <1>7, <1>9, <1>10 DEF PartsTypeOK

\* Reading the registry and answering keep the types.
LEMMA AnswerTypes ==
  ASSUME PartsTypeOK, NEW p \in Polls, SpawnFails(p) \/ ReadRegistry(p) \/ Answer(p)
  PROVE  PartsTypeOK'
<1>1. UNCHANGED <<version, listed, handles, beatAge, states, runs, failing, orphans, silence,
                  faults, restarts>>
  BY DEF SpawnFails, ReadRegistry, Answer, registryVars, supervisorVars, processVars,
     actorVars, bounds
<1>2. RegistryTypeOK' /\ SupervisorTypeOK' /\ ActorTypeOK' /\ BoundsTypeOK'
  BY <1>1 DEF PartsTypeOK, RegistryTypeOK, SupervisorTypeOK, ActorTypeOK, BoundsTypeOK, alive
<1>3. CASE SpawnFails(p)
  <2>1. PollTypeOK' /\ AnswerTypeOK'
    BY <1>3, EndTypes DEF SpawnFails, PartsTypeOK, AnswerTypeOK
  <2> QED
    BY <1>2, <2>1 DEF PartsTypeOK
<1>4. CASE ReadRegistry(p)
  <2>1. /\ Goto(p, "answer") /\ UNCHANGED <<pollAge, todo, current, gone, asked, pool, seenVersion>>
        /\ reply' = [reply EXCEPT ![p] = [version |-> version, listed |-> listed]]
    BY <1>4 DEF ReadRegistry, gatewayVars
  <2>2. PollTypeOK'
    BY <2>1, GotoTypes DEF PollStates, PartsTypeOK, PollTypeOK
  <2>3. AnswerTypeOK'
    BY <2>1 DEF PartsTypeOK, AnswerTypeOK, RegistryTypeOK
  <2> QED
    BY <1>2, <2>2, <2>3 DEF PartsTypeOK
<1>5. CASE Answer(p)
  <2>1. pool' \in [Workers -> ListedStates] /\ seenVersion' \in Nat
    BY <1>5 DEF Answer, PartsTypeOK, AnswerTypeOK
  <2>2. PollTypeOK' /\ AnswerTypeOK'
    BY <1>5, <2>1, EndTypes DEF Answer, PartsTypeOK, AnswerTypeOK
  <2> QED
    BY <1>2, <2>2 DEF PartsTypeOK
<1> QED
  BY <1>3, <1>4, <1>5

\* Asking and giving up keep the types.
LEMMA GatewayTypes ==
  ASSUME PartsTypeOK,
         (\E p \in Polls : GatewayAsks(p) \/ SomebodyAsks(p)) \/ GatewayGivesUp
  PROVE  PartsTypeOK'
<1>1. UNCHANGED <<version, listed, handles, beatAge, states, runs, failing, orphans, silence,
                  reply, pool, seenVersion, faults, restarts>>
  BY DEF GatewayAsks, SomebodyAsks, GatewayGivesUp, Start, registryVars, supervisorVars,
     processVars, actorVars, pollVars, gatewayVars, bounds
<1>2. asked' \in Polls \cup {NoPoll}
  BY DEF GatewayAsks, SomebodyAsks, GatewayGivesUp, gatewayVars, PartsTypeOK, AnswerTypeOK
<1>3. PollTypeOK'
  <2>1. ASSUME NEW p \in Polls, GatewayAsks(p) \/ SomebodyAsks(p) PROVE PollTypeOK'
    BY <2>1, StartTypes DEF GatewayAsks, SomebodyAsks, PartsTypeOK
  <2>2. ASSUME GatewayGivesUp PROVE PollTypeOK'
    BY <2>2 DEF GatewayGivesUp, pollVars, PartsTypeOK, PollTypeOK
  <2> QED
    BY <2>1, <2>2
<1> QED
  BY <1>1, <1>2, <1>3 DEF PartsTypeOK, RegistryTypeOK, SupervisorTypeOK, ActorTypeOK,
     AnswerTypeOK, BoundsTypeOK, alive

\* What becomes of actors and their processes keeps the types.
LEMMA ProcessTypes ==
  ASSUME PartsTypeOK,
         \/ \E a \in Actors : CannotOpen(a) \/ ProcessDies(a) \/ ActorDies(a) \/ Collect(a)
         \/ \E w \in Workers : OrphanDies(w)
  PROVE  PartsTypeOK'
<1>1. UNCHANGED <<version, listed, handles, beatAge, states, silence, pc, pollAge, todo,
                  current, gone, reply, asked, pool, seenVersion, restarts>>
  BY DEF CannotOpen, ProcessDies, ActorDies, Collect, OrphanDies, registryVars,
     supervisorVars, pollVars, gatewayVars, bounds
<1>2. ActorTypeOK'
  <2>1. ASSUME NEW a \in Actors, Ends(a), UNCHANGED orphans PROVE ActorTypeOK'
    BY <1>1, <2>1, ActorGoesTypes DEF ActorGoes, PartsTypeOK
  <2>2. ASSUME NEW a \in Actors, ActorGoes(a) PROVE ActorTypeOK'
    BY <1>1, <2>2, ActorGoesTypes DEF PartsTypeOK
  <2>3. ASSUME NEW w \in Workers, OrphanDies(w) PROVE ActorTypeOK'
    BY <1>1, <2>3 DEF OrphanDies, PartsTypeOK, ActorTypeOK, alive
  <2> QED
    BY <2>1, <2>2, <2>3 DEF CannotOpen, ProcessDies, ActorDies, Collect
<1>3. faults' \in 0 .. MaxFaults
  BY LimitsTyped DEF CannotOpen, ProcessDies, ActorDies, Collect, OrphanDies, bounds,
     PartsTypeOK, BoundsTypeOK
<1> QED
  BY <1>1, <1>2, <1>3 DEF PartsTypeOK, RegistryTypeOK, SupervisorTypeOK, PollTypeOK,
     AnswerTypeOK, BoundsTypeOK

\* A restart of the registry keeps the types.
LEMMA RestartTypes ==
  ASSUME PartsTypeOK, RegistryRestarts
  PROVE  PartsTypeOK'
<1>1. UNCHANGED <<handles, beatAge, states, runs, failing, orphans, silence, reply, pool,
                  seenVersion, faults>>
  BY DEF RegistryRestarts, supervisorVars, processVars, actorVars
<1>2. RegistryTypeOK'
  BY DEF RegistryRestarts, Restart, RegistryTypeOK, ListedStates
<1>3. PICK failed \in SUBSET Polls :
        /\ pc' = [p \in Polls |-> IF p \in failed THEN "idle" ELSE pc[p]]
        /\ pollAge' = [p \in Polls |-> IF p \in failed THEN 0 ELSE pollAge[p]]
        /\ todo' = [p \in Polls |-> IF p \in failed THEN Nothing ELSE todo[p]]
        /\ current' = [p \in Polls |-> IF p \in failed THEN NoWorker ELSE current[p]]
        /\ gone' = [p \in Polls |-> IF p \in failed THEN FALSE ELSE gone[p]]
        /\ asked' = IF asked \in failed THEN NoPoll ELSE asked
  BY DEF RegistryRestarts
<1>4. PollTypeOK'
  <2>1. pc' \in [Polls -> PollStates]
    BY <1>3 DEF PartsTypeOK, PollTypeOK, PollStates
  <2>2. pollAge' \in [Polls -> 0 .. MaxPoll]
    BY <1>3, LimitsTyped DEF PartsTypeOK, PollTypeOK
  <2>3. todo' \in [Polls -> [Workers -> Actors \cup {NoActor}]]
    BY <1>3 DEF PartsTypeOK, PollTypeOK, Nothing
  <2>4. current' \in [Polls -> Workers \cup {NoWorker}]
    BY <1>3 DEF PartsTypeOK, PollTypeOK
  <2>5. gone' \in [Polls -> BOOLEAN]
    BY <1>3, Zenon DEF PartsTypeOK, PollTypeOK
  <2>6. \A p \in Polls : pc'[p] \notin {"idle", "beat", "answer"} => current'[p] \in Workers
    BY <1>3 DEF PartsTypeOK, PollTypeOK
  <2> QED
    BY <2>1, <2>2, <2>3, <2>4, <2>5, <2>6 DEF PollTypeOK
<1>5. restarts' \in 0 .. MaxRestarts
  BY LimitsTyped DEF RegistryRestarts, PartsTypeOK, BoundsTypeOK
<1> QED
  BY <1>1, <1>2, <1>3, <1>4, <1>5 DEF PartsTypeOK, SupervisorTypeOK, ActorTypeOK,
     AnswerTypeOK, BoundsTypeOK, alive

\* Ages only grow, up to the greatest.
LEMMA OlderTyped == \A age \in 0 .. MaxAge : Older(age) \in 0 .. MaxAge /\ Older(age) >= age
BY LimitsTyped DEF Older

\* The passing of time keeps the types.
LEMMA TickTypes ==
  ASSUME PartsTypeOK, Tick
  PROVE  PartsTypeOK'
<1>1. UNCHANGED <<version, listed, handles, states, runs, failing, orphans, pc, todo, current,
                  gone, reply, asked, pool, seenVersion, faults, restarts>>
  BY DEF Tick, registryVars, processVars, gatewayVars, bounds
<1>2. beatAge' \in [Workers -> 0 .. MaxAge]
  BY OlderTyped DEF Tick, PartsTypeOK, SupervisorTypeOK
<1>3. silence' \in [Actors -> 0 .. MaxAge]
  BY OlderTyped, LimitsTyped DEF Tick, PartsTypeOK, ActorTypeOK
<1>4. pollAge' \in [Polls -> 0 .. MaxPoll]
  BY LimitsTyped DEF Tick, PartsTypeOK, PollTypeOK
<1> QED
  BY <1>1, <1>2, <1>3, <1>4 DEF PartsTypeOK, RegistryTypeOK, SupervisorTypeOK, ActorTypeOK,
     PollTypeOK, AnswerTypeOK, BoundsTypeOK, alive

\* A step of something else keeps the types.
LEMMA StutterTypes ==
  ASSUME PartsTypeOK, UNCHANGED vars
  PROVE  PartsTypeOK'
BY DEF vars, registryVars, supervisorVars, processVars, actorVars, pollVars, gatewayVars,
   bounds, PartsTypeOK, RegistryTypeOK, SupervisorTypeOK, ActorTypeOK, PollTypeOK,
   AnswerTypeOK, BoundsTypeOK, alive

\* The initial state is typed.
LEMMA InitTypes == Init => PartsTypeOK
<1> SUFFICES ASSUME Init PROVE PartsTypeOK
  OBVIOUS
<1>1. Cardinality(Workers) \in Nat
  BY SupervisorAssumption, FS_CardinalityType
<1>2. RegistryTypeOK
  BY <1>1, LimitsTyped DEF Init, RegistryTypeOK, ListedStates, Counted
<1>3. handles \in [Workers -> Actors \cup {NoActor}]
  BY DEF Init, Injection, IsInjective
<1>4. SupervisorTypeOK
  BY <1>3, LimitsTyped DEF Init, SupervisorTypeOK
<1>5. runs \in [Actors -> Workers \cup {NoWorker}]
  <2>1. \A a \in Range(handles) : (CHOOSE w \in Workers : handles[w] = a) \in Workers
    BY <1>3 DEF Range
  <2> QED
    BY <2>1 DEF Init
<1>6. ActorTypeOK
  <2>1. failing = {} /\ orphans = {} /\ silence = [a \in Actors |-> 0]
    BY DEF Init
  <2>2. silence \in [Actors -> 0 .. MaxAge]
    BY <2>1, LimitsTyped
  <2> QED
    BY <1>5, <2>1, <2>2 DEF ActorTypeOK
<1>7. PollTypeOK
  BY LimitsTyped DEF Init, PollTypeOK, PollStates, Nothing
<1>8. AnswerTypeOK
  BY DEF Init, AnswerTypeOK, NoReply, ListedStates
<1>9. BoundsTypeOK
  BY LimitsTyped DEF Init, BoundsTypeOK
<1> QED
  BY <1>2, <1>4, <1>6, <1>7, <1>8, <1>9 DEF PartsTypeOK

\* Every variable keeps its type, each part of TypeOK being named so that a step
\* is asked only about those it disturbs.
THEOREM PartsAlwaysTyped == Spec => []PartsTypeOK
<1>1. ASSUME PartsTypeOK, [Next]_vars PROVE PartsTypeOK'
  BY <1>1, BeatTypes, NoteTypes, TellTypes, BuryTypes, SpawnTypes, AnswerTypes,
     GatewayTypes, ProcessTypes, RestartTypes, TickTypes, StutterTypes DEF Next, PollStep
<1> QED
  BY <1>1, InitTypes, PTL DEF Spec

\* Every variable of the control plane keeps its type, however polls overlap, fail
\* and are given up: a thread past its heartbeat is at a worker, and the registry
\* lists no worker as dead.
THEOREM MembershipTypes == Spec => []TypeOK
<1>1. PartsTypeOK => TypeOK
  BY TypeOKParts
<1> QED
  BY <1>1, PartsAlwaysTyped, PTL

-----------------------------------------------------------------------------
(* No worker is forgotten.                                                 *)

\* The polls that are about to spawn stay about to, and the handles stay.
SpawnersKept ==
  /\ UNCHANGED handles
  /\ \A q \in Polls : pc[q] = "spawn" => pc'[q] = "spawn" /\ current'[q] = current[q]

\* A poll that moves on changes no handle and ends no spawn.
LEMMA SpawnersOfOthers ==
  ASSUME PartsTypeOK, NEW p \in Polls,
         \/ Beat(p) \/ Miss(p) \/ NoteBeat(p) \/ NoteMiss(p)
         \/ TellReady(p) \/ TellSuspect(p) \/ TellStarting(p)
         \/ ReadRegistry(p) \/ Answer(p) \/ GatewayAsks(p) \/ SomebodyAsks(p)
  PROVE  SpawnersKept
<1>1. UNCHANGED handles /\ pc[p] # "spawn"
  BY DEF Beat, Miss, NoteBeat, NoteMiss, TellReady, TellSuspect, TellStarting, ReadRegistry,
     Answer, GatewayAsks, SomebodyAsks, Start, supervisorVars
<1>2. \A q \in Polls \ {p} : pc'[q] = pc[q] /\ current'[q] = current[q]
  <2>1. \E label : pc' = [pc EXCEPT ![p] = label]
    BY DEF Beat, Miss, NoteBeat, NoteMiss, TellReady, TellSuspect, TellStarting, ReadRegistry,
       Answer, GatewayAsks, SomebodyAsks, Start, End, Goto
  <2>2. \E w : current' = [current EXCEPT ![p] = w]
    <3>1. UNCHANGED current \/ \E w : current' = [current EXCEPT ![p] = w]
      BY DEF Beat, Miss, NoteBeat, NoteMiss, TellReady, TellSuspect, TellStarting,
         ReadRegistry, Answer, GatewayAsks, SomebodyAsks, Start, End
    <3>2. current = [current EXCEPT ![p] = current[p]]
      BY DEF PartsTypeOK, PollTypeOK
    <3> QED
      BY <3>1, <3>2
  <2> QED
    BY <2>1, <2>2 DEF PartsTypeOK, PollTypeOK
<1> QED
  BY <1>1, <1>2 DEF SpawnersKept

\* What is not a step of a poll takes no handle away and ends no spawn.
LEMMA SpawnersOfEnvironment ==
  ASSUME PartsTypeOK,
         \/ \E a \in Actors : CannotOpen(a) \/ ProcessDies(a) \/ ActorDies(a) \/ Collect(a)
         \/ \E w \in Workers : OrphanDies(w)
         \/ GatewayGivesUp \/ RegistryRestarts \/ Tick \/ UNCHANGED vars
  PROVE  SpawnersKept
<1>1. CASE RegistryRestarts
  <2>1. UNCHANGED handles
    BY <1>1 DEF RegistryRestarts, supervisorVars
  <2>2. PICK failed \in SUBSET {p \in Polls : CallsRegistry(p)} :
          /\ pc' = [p \in Polls |-> IF p \in failed THEN "idle" ELSE pc[p]]
          /\ current' = [p \in Polls |-> IF p \in failed THEN NoWorker ELSE current[p]]
    BY <1>1 DEF RegistryRestarts
  <2>3. \A q \in Polls : pc[q] = "spawn" => q \notin failed
    BY DEF CallsRegistry
  <2> QED
    BY <2>1, <2>2, <2>3 DEF SpawnersKept
<1>2. CASE ~RegistryRestarts
  BY <1>2 DEF CannotOpen, ProcessDies, ActorDies, Collect, OrphanDies, GatewayGivesUp, Tick,
     vars, pollVars, supervisorVars, SpawnersKept
<1> QED
  BY <1>1, <1>2

\* However polls overlap, are given up, or end when the registry restarts, a worker
\* without an actor is being given one, as long as starting an actor does not raise.
THEOREM NoWorkerEverForgotten ==
  ASSUME SpawnMayFail = FALSE
  PROVE  Spec => []NoWorkerForgotten
<1>1. Init => NoWorkerForgotten
  <2> SUFFICES ASSUME Init, NEW w \in Workers PROVE handles[w] # NoActor
    BY DEF NoWorkerForgotten
  <2>1. handles \in [Workers -> Actors]
    BY DEF Init, Injection
  <2> QED
    BY <2>1, SupervisorAssumption
<1>2. ASSUME PartsTypeOK, NoWorkerForgotten, [Next]_vars PROVE NoWorkerForgotten'
  <2>1. ASSUME SpawnersKept PROVE NoWorkerForgotten'
    BY <1>2, <2>1 DEF SpawnersKept, NoWorkerForgotten
  <2>2. ASSUME NEW p \in Polls, Bury(p) PROVE NoWorkerForgotten'
    <3>1. /\ current' = current /\ current[p] \in Workers
          /\ handles' = [handles EXCEPT ![current[p]] = NoActor]
          /\ pc[p] = "remove" /\ pc' = [pc EXCEPT ![p] = "spawn"]
      BY <1>2, <2>2 DEF Bury, Goto, PartsTypeOK, PollTypeOK
    <3>2. pc'[p] = "spawn" /\ \A q \in Polls \ {p} : pc'[q] = pc[q]
      BY <1>2, <3>1 DEF PartsTypeOK, PollTypeOK
    <3>3. \A w \in Workers \ {current[p]} : handles'[w] = handles[w]
      BY <1>2, <3>1 DEF PartsTypeOK, SupervisorTypeOK
    <3> QED
      BY <1>2, <3>1, <3>2, <3>3 DEF NoWorkerForgotten
  <2>3. ASSUME NEW p \in Polls, Spawn(p) PROVE NoWorkerForgotten'
    <3>1. PICK a \in Actors : handles' = [handles EXCEPT ![current[p]] = a]
      BY <2>3 DEF Spawn
    <3>2. /\ current' = current /\ current[p] \in Workers
          /\ pc[p] = "spawn" /\ pc' = [pc EXCEPT ![p] = "tellStarting"]
      BY <1>2, <2>3 DEF Spawn, Goto, PartsTypeOK, PollTypeOK
    <3>3. \A q \in Polls \ {p} : pc'[q] = pc[q]
      BY <1>2, <3>2 DEF PartsTypeOK, PollTypeOK
    <3>4. /\ handles'[current[p]] # NoActor
          /\ \A w \in Workers \ {current[p]} : handles'[w] = handles[w]
      BY <1>2, <3>1, <3>2, SupervisorAssumption DEF PartsTypeOK, SupervisorTypeOK
    <3> QED
      BY <1>2, <3>2, <3>3, <3>4 DEF NoWorkerForgotten
  <2>4. ASSUME NEW p \in Polls, SpawnFails(p) PROVE FALSE
    BY <2>4 DEF SpawnFails
  <2> QED
    BY <1>2, <2>1, <2>2, <2>3, <2>4, SpawnersOfOthers, SpawnersOfEnvironment
       DEF Next, PollStep
<1> QED
  BY <1>1, <1>2, PartsAlwaysTyped, PTL DEF Spec

-----------------------------------------------------------------------------
(* What a step does to the registry and to what the gateway is told of it. *)

\* The polls whose answer is on its way.
Answering == {p \in Polls : pc[p] = "answer"}

\* Nothing; the gateway may begin to wait, or give up.
Quiet ==
  /\ UNCHANGED <<version, listed, pool, seenVersion, restarts>>
  /\ Answering' = Answering
  /\ \A p \in Answering : reply'[p] = reply[p]
  /\ asked' = asked \/ asked' \notin Answering'

\* The registry is told of one worker, or loses one.
Told ==
  /\ \E w \in Workers, s \in ListedStates : listed' = [listed EXCEPT ![w] = s]
  /\ version' = Counted(version + 1)
  /\ UNCHANGED <<pool, seenVersion, restarts, reply, asked>>
  /\ Answering' = Answering

\* A version names one membership, and the answers on their way, the one the
\* gateway waits for among them, are of versions between its own and the last one.
VersionInv ==
  restarts = 0 /\ version < MaxVersion =>
    /\ seenVersion <= version
    /\ seenVersion = version => pool = listed
    /\ \A p \in Answering : /\ reply[p].version <= version
                            /\ reply[p].version = version => reply[p].listed = listed
    /\ asked \in Answering => seenVersion <= reply[asked].version

\* A poll that keeps its place keeps its answer.
LEMMA AnsweringKept ==
  ASSUME PartsTypeOK, NEW p \in Polls, pc[p] # "answer", NEW label, label # "answer",
         Goto(p, label)
  PROVE  Answering' = Answering
BY DEF Goto, Answering, PartsTypeOK, PollTypeOK

\* The absent poll answers nothing.
LEMMA NoPollAnswers == NoPoll \notin Answering
BY SupervisorAssumption DEF Answering

\* The steps of a poll that do not touch the registry.
LEMMA PollQuiet ==
  ASSUME PartsTypeOK, NEW p \in Polls,
         \/ Beat(p) \/ Miss(p) \/ NoteBeat(p) \/ NoteMiss(p) \/ Spawn(p) \/ SpawnFails(p)
         \/ GatewayAsks(p) \/ SomebodyAsks(p)
  PROVE  Quiet
<1>1. UNCHANGED <<version, listed, pool, seenVersion, restarts>>
  BY DEF Beat, Miss, NoteBeat, NoteMiss, Spawn, SpawnFails, GatewayAsks, SomebodyAsks,
     registryVars, gatewayVars, bounds
<1>2. pc[p] # "answer"
  BY DEF Beat, Miss, NoteBeat, NoteMiss, Spawn, SpawnFails, GatewayAsks, SomebodyAsks, Start
<1>3. \E label \in PollStates \ {"answer"} : Goto(p, label)
  BY DEF Beat, Miss, NoteBeat, NoteMiss, Spawn, SpawnFails, GatewayAsks, SomebodyAsks, Start,
     End, PollStates
<1>4. Answering' = Answering
  BY <1>2, <1>3, AnsweringKept
<1>5. \A q \in Answering : reply'[q] = reply[q]
  <2>1. UNCHANGED reply \/ reply' = [reply EXCEPT ![p] = NoReply]
    BY DEF Beat, Miss, NoteBeat, NoteMiss, Spawn, SpawnFails, GatewayAsks, SomebodyAsks,
       Start, End
  <2> QED
    BY <1>2, <2>1 DEF Answering, PartsTypeOK, AnswerTypeOK
<1>6. asked' = asked \/ asked' \notin Answering'
  <2>1. asked' \in {asked, NoPoll, p}
    BY DEF Beat, Miss, NoteBeat, NoteMiss, Spawn, SpawnFails, GatewayAsks, SomebodyAsks,
       Start, End, gatewayVars
  <2> QED
    BY <1>2, <1>4, <2>1, NoPollAnswers DEF Answering
<1> QED
  BY <1>1, <1>4, <1>5, <1>6 DEF Quiet

\* The steps of a poll that tell the registry of a worker.
LEMMA PollTells ==
  ASSUME PartsTypeOK, NEW p \in Polls,
         TellReady(p) \/ TellSuspect(p) \/ TellStarting(p) \/ Bury(p)
  PROVE  Told
<1>1. UNCHANGED <<pool, seenVersion, restarts, reply, asked>>
  BY DEF TellReady, TellSuspect, TellStarting, Bury, gatewayVars, bounds
<1>2. current[p] \in Workers /\ pc[p] # "answer"
  BY DEF TellReady, TellSuspect, TellStarting, Bury, PartsTypeOK, PollTypeOK
<1>3. \E label \in PollStates \ {"answer"} : Goto(p, label)
  BY DEF TellReady, TellSuspect, TellStarting, Bury, PollStates
<1>4. Answering' = Answering
  BY <1>2, <1>3, AnsweringKept
<1>5. \E s \in ListedStates : listed' = [listed EXCEPT ![current[p]] = s]
  BY DEF TellReady, TellSuspect, TellStarting, Bury, Update, Remove, ListedStates
<1>6. version' = Counted(version + 1)
  BY DEF TellReady, TellSuspect, TellStarting, Bury, Update, Remove
<1> QED
  BY <1>1, <1>2, <1>4, <1>5, <1>6 DEF Told

\* The steps of neither a poll nor the gateway.
LEMMA EnvironmentQuiet ==
  ASSUME PartsTypeOK,
         \/ \E a \in Actors : CannotOpen(a) \/ ProcessDies(a) \/ ActorDies(a) \/ Collect(a)
         \/ \E w \in Workers : OrphanDies(w)
         \/ GatewayGivesUp \/ Tick \/ UNCHANGED vars
  PROVE  Quiet
<1>1. UNCHANGED <<version, listed, pool, seenVersion, restarts, pc, reply>>
  BY DEF CannotOpen, ProcessDies, ActorDies, Collect, OrphanDies, GatewayGivesUp, Tick, vars,
     registryVars, pollVars, gatewayVars, bounds
<1>2. asked' \in {asked, NoPoll}
  BY DEF CannotOpen, ProcessDies, ActorDies, Collect, OrphanDies, GatewayGivesUp, Tick, vars,
     gatewayVars
<1> QED
  BY <1>1, <1>2, NoPollAnswers DEF Quiet, Answering

\* Every step is quiet, tells the registry, reads it, answers, or restarts it.
LEMMA StepKinds ==
  ASSUME PartsTypeOK, [Next]_vars
  PROVE  \/ Quiet \/ Told \/ RegistryRestarts
         \/ \E p \in Polls : ReadRegistry(p) \/ Answer(p)
BY PollQuiet, PollTells, EnvironmentQuiet DEF Next, PollStep

\* The answer of a poll is what it read.
LEMMA ReadDoes ==
  ASSUME PartsTypeOK, NEW p \in Polls, ReadRegistry(p)
  PROVE  /\ UNCHANGED <<version, listed, pool, seenVersion, restarts, asked>>
         /\ p \notin Answering /\ Answering' = Answering \cup {p}
         /\ reply'[p] = [version |-> version, listed |-> listed]
         /\ \A q \in Polls \ {p} : reply'[q] = reply[q]
<1>1. /\ UNCHANGED <<version, listed, pool, seenVersion, restarts, asked>>
      /\ pc[p] = "beat" /\ pc' = [pc EXCEPT ![p] = "answer"]
      /\ reply' = [reply EXCEPT ![p] = [version |-> version, listed |-> listed]]
  BY DEF ReadRegistry, Goto, registryVars, gatewayVars, bounds
<1>2. p \notin Answering /\ Answering' = Answering \cup {p}
  BY <1>1 DEF Answering, PartsTypeOK, PollTypeOK
<1> QED
  BY <1>1, <1>2 DEF PartsTypeOK, AnswerTypeOK

\* What an answer does to the gateway, if it waits for it.
LEMMA AnswerDoes ==
  ASSUME PartsTypeOK, NEW p \in Polls, Answer(p)
  PROVE  /\ UNCHANGED <<version, listed, restarts>>
         /\ p \in Answering /\ Answering' = Answering \ {p}
         /\ \A q \in Polls \ {p} : reply'[q] = reply[q]
         /\ IF asked = p
              THEN asked' = NoPoll /\ pool' = reply[p].listed /\ seenVersion' = reply[p].version
              ELSE UNCHANGED <<asked, pool, seenVersion>>
<1>1. /\ UNCHANGED <<version, listed, restarts>>
      /\ pc[p] = "answer" /\ pc' = [pc EXCEPT ![p] = "idle"]
      /\ reply' = [reply EXCEPT ![p] = NoReply]
      /\ IF asked = p
           THEN asked' = NoPoll /\ pool' = reply[p].listed /\ seenVersion' = reply[p].version
           ELSE UNCHANGED <<asked, pool, seenVersion>>
  BY DEF Answer, End, Goto, registryVars, bounds
<1>2. p \in Answering /\ Answering' = Answering \ {p}
  BY <1>1 DEF Answering, PartsTypeOK, PollTypeOK
<1> QED
  BY <1>1, <1>2 DEF PartsTypeOK, AnswerTypeOK

\* A restart is counted.
LEMMA RestartCounts ==
  ASSUME PartsTypeOK, RegistryRestarts
  PROVE  restarts' # 0
BY LimitsTyped DEF RegistryRestarts, PartsTypeOK, BoundsTypeOK

\* A version below the bound is one more than the one before.
LEMMA VersionCounts ==
  ASSUME NEW n \in Nat
  PROVE  /\ Counted(n + 1) < MaxVersion => n < MaxVersion /\ Counted(n + 1) = n + 1
         /\ n < MaxVersion => Counted(n + 1) = n + 1
BY LimitsTyped DEF Counted

\* Versions are natural numbers.
LEMMA VersionsTyped ==
  ASSUME PartsTypeOK
  PROVE  /\ version \in Nat /\ seenVersion \in Nat
         /\ \A p \in Answering : reply[p].version \in Nat
         /\ Answering \subseteq Polls
BY DEF PartsTypeOK, RegistryTypeOK, AnswerTypeOK, Answering

-----------------------------------------------------------------------------
(* Versions name contents.                                                 *)

\* The initial state satisfies the invariant of versions.
LEMMA InitVersions == Init => VersionInv
<1> SUFFICES ASSUME Init, version < MaxVersion
             PROVE  /\ seenVersion <= version
                    /\ seenVersion = version => pool = listed
                    /\ Answering = {}
  BY NoPollAnswers DEF VersionInv, Init
<1>1. Answering = {}
  BY DEF Init, Answering
<1>2. IsFiniteSet(Workers) /\ Cardinality(Workers) \in Nat
  BY SupervisorAssumption, FS_CardinalityType
<1>3. version = Cardinality(Workers) /\ seenVersion = 0
  BY <1>2, LimitsTyped DEF Init, Counted
<1>4. ASSUME version = 0 PROVE pool = listed
  <2>1. Workers = {}
    BY <1>2, <1>3, <1>4, FS_EmptySet
  <2> QED
    BY <2>1 DEF Init
<1> QED
  BY <1>1, <1>2, <1>3, <1>4

\* Every step keeps the invariant of versions.
LEMMA VersionStep ==
  ASSUME PartsTypeOK, VersionInv, [Next]_vars
  PROVE  VersionInv'
<1>1. CASE Quiet
  BY <1>1 DEF Quiet, VersionInv
<1>2. CASE Told
  <2> SUFFICES ASSUME restarts' = 0, version' < MaxVersion
               PROVE  /\ seenVersion' < version'
                      /\ \A p \in Answering' : reply'[p].version < version'
                      /\ asked' \in Answering' => seenVersion' <= reply'[asked'].version
    <3>1. /\ version' \in Nat /\ seenVersion' \in Nat
          /\ \A p \in Answering' : reply'[p].version \in Nat
      BY <1>2, VersionsTyped, VersionCounts, LimitsTyped DEF Told, Counted
    <3> QED
      BY <3>1 DEF VersionInv
  <2>1. restarts = 0 /\ version < MaxVersion /\ version' = version + 1
    BY <1>2, VersionCounts, VersionsTyped DEF Told
  <2>2. /\ seenVersion <= version
        /\ \A p \in Answering : reply[p].version <= version
        /\ asked \in Answering => seenVersion <= reply[asked].version
    BY <2>1 DEF VersionInv
  <2>3. UNCHANGED <<seenVersion, reply, asked>> /\ Answering' = Answering
    BY <1>2 DEF Told
  <2>4. seenVersion < version + 1 /\ \A p \in Answering : reply[p].version < version + 1
    BY <2>2, VersionsTyped
  <2> QED
    BY <2>1, <2>2, <2>3, <2>4
<1>3. CASE RegistryRestarts
  BY <1>3, RestartCounts DEF VersionInv
<1>4. ASSUME NEW p \in Polls, ReadRegistry(p) PROVE VersionInv'
  <2>1. reply'[p].version = version /\ reply'[p].listed = listed
    BY <1>4, ReadDoes
  <2> QED
    BY <1>4, <2>1, ReadDoes, VersionsTyped DEF VersionInv
<1>5. ASSUME NEW p \in Polls, Answer(p) PROVE VersionInv'
  <2>1. \A q \in Answering' : q \in Answering /\ reply'[q] = reply[q]
    BY <1>5, AnswerDoes, VersionsTyped
  <2>2. CASE asked = p
    BY <1>5, <2>1, <2>2, AnswerDoes, NoPollAnswers DEF VersionInv
  <2>3. CASE asked # p
    BY <1>5, <2>1, <2>3, AnswerDoes DEF VersionInv
  <2> QED
    BY <2>2, <2>3
<1> QED
  BY <1>1, <1>2, <1>3, <1>4, <1>5, StepKinds

\* The inductive invariant of versions: no answer under way, and nothing installed, is
\* newer than the registry, and what has the registry's version has its membership.
THEOREM VersionInvHolds == Spec => []VersionInv
BY InitVersions, VersionStep, PartsAlwaysTyped, PTL DEF Spec

\* As long as the registry has not restarted, two memberships never have the same
\* version, and the gateway's is the one its version names: which polls it waited
\* for, gave up or overtook makes no difference.
THEOREM VersionsNameContents == Spec => []VersionNamesContents
<1>1. VersionInv => VersionNamesContents
  BY DEF VersionInv, VersionNamesContents
<1> QED
  BY <1>1, VersionInvHolds, PTL

-----------------------------------------------------------------------------
(* The control plane implements ClusterView.                               *)

Given(p) == [version |-> reply[p].version, members |-> reply[p].listed]
Answers == {Given(p) : p \in Answering}

\* The variables of ClusterView under the mapping.
LEMMA PromiseAnswers == Promise!clusterVars = <<version, listed, Answers, seenVersion, pool>>
BY DEF Promise!clusterVars, Answers, Given, Answering

\* The initial state is one of ClusterView's.
LEMMA InitPromised == Init => Promise!ClusterInit
<1> SUFFICES ASSUME Init PROVE Promise!ClusterInit
  OBVIOUS
<1>1. PartsTypeOK
  BY InitTypes
<1>2. Answers = {}
  BY DEF Init, Answers, Answering
<1> QED
  BY <1>1, <1>2 DEF Init, Promise!ClusterInit, Answers, Given, Answering, PartsTypeOK,
     RegistryTypeOK, AnswerTypeOK

\* A quiet step is a stutter of ClusterView.
LEMMA QuietPromised ==
  ASSUME Quiet
  PROVE  UNCHANGED Promise!clusterVars
<1>1. Answers' = Answers
  BY DEF Quiet, Answers, Given
<1> QED
  BY <1>1 DEF Quiet, Promise!clusterVars, Answers, Given, Answering

\* Telling the registry is a change of ClusterView's membership.
LEMMA ToldPromised ==
  ASSUME PartsTypeOK, Told, version < MaxVersion
  PROVE  Promise!Change
<1>1. version' = version + 1
  BY VersionCounts, VersionsTyped DEF Told
<1>2. Answers' = Answers
  BY DEF Told, Answers, Given
<1> QED
  BY <1>1, <1>2 DEF Told, Promise!Change, Answers, Given, Answering

\* Reading the registry is ClusterView's making of an answer.
LEMMA ReadPromised ==
  ASSUME PartsTypeOK, NEW p \in Polls, ReadRegistry(p)
  PROVE  Promise!Ask
<1>1. Given(p)' = [version |-> version, members |-> listed]
  BY ReadDoes DEF Given
<1>2. \A q \in Answering : Given(q)' = Given(q)
  BY ReadDoes, VersionsTyped DEF Given
<1>3. Answers' = Answers \cup {[version |-> version, members |-> listed]}
  BY <1>1, <1>2, ReadDoes DEF Answers
<1> QED
  BY <1>3, ReadDoes DEF Promise!Ask, Answers, Given, Answering

\* The answer of one poll may also be that of another.
LEMMA AnswerPromised ==
  ASSUME PartsTypeOK, VersionInv, restarts = 0, version < MaxVersion,
         NEW p \in Polls, Answer(p)
  PROVE  Promise!See \/ Promise!Discard
<1>1. \A q \in Answering \ {p} : Given(q)' = Given(q)
  BY AnswerDoes, VersionsTyped DEF Given
<1>2. Given(p) \in Answers
  BY AnswerDoes DEF Answers
<1>3. Answers' = Answers \/ Answers' = Answers \ {Given(p)}
  <2>1. Answers' = {Given(q) : q \in Answering \ {p}}
    BY <1>1, AnswerDoes DEF Answers
  <2>2. CASE \E q \in Answering \ {p} : Given(q) = Given(p)
    <3>1. Answers \subseteq {Given(q) : q \in Answering \ {p}}
      BY <2>2 DEF Answers
    <3> QED
      BY <2>1, <3>1 DEF Answers
  <2>3. CASE \A q \in Answering \ {p} : Given(q) # Given(p)
    BY <2>1, <2>3 DEF Answers
  <2> QED
    BY <2>2, <2>3
<1>4. CASE asked = p
  <2>1. /\ Given(p).version >= seenVersion
        /\ seenVersion' = Given(p).version /\ pool' = Given(p).members
        /\ UNCHANGED <<version, listed>>
    BY <1>4, AnswerDoes, VersionsTyped DEF VersionInv, Given
  <2>2. Promise!See
    BY <1>2, <1>3, <2>1 DEF Promise!See, Promise!Leaves, Answers, Given, Answering
  <2> QED
    BY <2>2
<1>5. CASE asked # p
  <2>1. UNCHANGED <<version, listed, seenVersion, pool>>
    BY <1>5, AnswerDoes
  <2>2. Promise!Discard
    BY <1>2, <1>3, <2>1 DEF Promise!Discard, Promise!Leaves, Answers, Given, Answering
  <2> QED
    BY <2>2
<1> QED
  BY <1>4, <1>5

\* As long as the registry has not restarted, the control plane is to the gateway
\* what ClusterView promises: every step of the supervisor, of overlapping polls and
\* of the gateway is a change of one worker with a version of its own, somebody
\* asking, the gateway seeing a membership that was, never going back, or an answer
\* that nobody waits for.
THEOREM ClusterViewImplemented == Spec => ClusterViewKept
<1> DEFINE Guard == restarts' = 0 /\ version < MaxVersion
<1>1. ASSUME PartsTypeOK, VersionInv, [Next]_vars
      PROVE  [Guard => Promise!ClusterNext]_(Promise!clusterVars)
  <2>1. ASSUME RegistryRestarts PROVE ~Guard
    BY <1>1, <2>1, RestartCounts
  <2>2. ASSUME Told, Guard PROVE Promise!ClusterNext
    BY <1>1, <2>2, ToldPromised DEF Promise!ClusterNext
  <2>3. ASSUME NEW p \in Polls, ReadRegistry(p) PROVE Promise!ClusterNext
    BY <1>1, <2>3, ReadPromised DEF Promise!ClusterNext
  <2>4. ASSUME NEW p \in Polls, Answer(p), Guard PROVE Promise!ClusterNext
    <3>1. restarts = 0 /\ version < MaxVersion
      BY <1>1, <2>4, AnswerDoes
    <3> QED
      BY <1>1, <2>4, <3>1, AnswerPromised DEF Promise!ClusterNext
  <2> HIDE DEF Guard
  <2> QED
    BY <1>1, <2>1, <2>2, <2>3, <2>4, StepKinds, QuietPromised
<1> QED
  BY <1>1, InitPromised, PartsAlwaysTyped, VersionInvHolds, PTL DEF Spec, ClusterViewKept

-----------------------------------------------------------------------------
(* What polls that do not overlap keep.                                    *)

\* At most one poll is under way.  The gateway alone keeps to it as long as its polls
\* are answered in time; whoever else asks may not.
NoOverlap == \A p, q \in Polls : pc[p] # "idle" /\ pc[q] # "idle" => p = q

Visiting(p) == pc[p] \notin {"idle", "beat", "answer"}

\* A poll has its copy of the handles to itself: what it has yet to visit is as it
\* is in the dict, and the worker it is at is not among it.
VisitInv ==
  /\ \A v, w \in Workers : handles[v] = handles[w] /\ handles[v] # NoActor => v = w
  /\ \A p \in Polls : Visiting(p) => todo[p][current[p]] = NoActor
  /\ \A p \in Polls, w \in Workers :
       pc[p] # "idle" /\ todo[p][w] # NoActor => todo[p][w] = handles[w]

\* The worker has been heard of within the length of a poll of what silence says,
\* unless its beat has been answered and not noted yet; and who is about to be
\* killed has been silent.
HeardOf(w) == handles[w] # NoActor => beatAge[w] <= silence[handles[w]] + MaxPoll
Silent(w) == handles[w] # NoActor => silence[handles[w]] + MaxPoll > DeadThreshold

SilenceInv ==
  /\ \A w \in Workers : HeardOf(w) \/ \E p \in Polls : pc[p] = "beaten" /\ current[p] = w
  /\ \A p \in Polls :
       pc[p] = "remove" \/ (pc[p] = "tellSuspect" /\ gone[p]) => Silent(current[p])

\* What the supervisor thinks of a worker is what the registry lists.
Known(w) == states[w] = (IF listed[w] = "absent" THEN "dead" ELSE listed[w])

\* While a poll is at a worker, the two differ in one way.
Stage(p) ==
  LET w == current[p] IN
    /\ pc[p] \in {"beaten", "missed"} => states[w] # "dead"
    /\ pc[p] = "tellReady"    => states[w] = "ready"    /\ listed[w] \in {"starting", "suspect"}
    /\ pc[p] = "tellSuspect"  => states[w] = "suspect"  /\ listed[w] \in {"starting", "ready"}
    /\ pc[p] = "remove"       => states[w] = "dead"     /\ listed[w] = "suspect"
    /\ pc[p] = "spawn"        => states[w] = "dead"     /\ listed[w] = "absent"
    /\ pc[p] = "tellStarting" => states[w] = "starting" /\ listed[w] = "absent"

Telling == {"tellReady", "tellSuspect", "remove", "tellStarting"}

KnownInv ==
  /\ \A w \in Workers : Known(w) \/ \E p \in Polls : pc[p] \in Telling /\ current[p] = w
  /\ \A p \in Polls : Stage(p)
  /\ \A p \in Polls, w \in Workers :
       pc[p] # "idle" /\ todo[p][w] # NoActor => states[w] # "dead"
  /\ \A w \in Workers :
       handles[w] # NoActor =>
         states[w] # "dead" \/ \E p \in Polls : pc[p] = "remove" /\ current[p] = w

OneByOneInv == VisitInv /\ SilenceInv /\ (restarts = 0 => KnownInv)

\* Only one poll is not idle before and after its step.
LEMMA Alone ==
  ASSUME PartsTypeOK, NoOverlap, NEW p \in Polls, pc[p] # "idle", NEW label, Goto(p, label)
  PROVE  /\ pc'[p] = label
         /\ \A q \in Polls \ {p} : pc[q] = "idle" /\ pc'[q] = "idle"
BY DEF NoOverlap, Goto, PartsTypeOK, PollTypeOK

\* A poll that begins finds no other.
LEMMA StartsAlone ==
  ASSUME PartsTypeOK, NoOverlap', NEW p \in Polls, Start(p)
  PROVE  /\ pc[p] = "idle" /\ pc'[p] = "beat"
         /\ todo'[p] = handles /\ UNCHANGED <<current, gone, reply>>
         /\ \A q \in Polls \ {p} : pc[q] = "idle" /\ pc'[q] = "idle"
<1>1. /\ pc[p] = "idle" /\ pc'[p] = "beat" /\ todo'[p] = handles
      /\ UNCHANGED <<current, gone, reply>>
      /\ \A q \in Polls \ {p} : pc'[q] = pc[q]
  BY DEF Start, Goto, PartsTypeOK, PollTypeOK
<1> QED
  BY <1>1 DEF NoOverlap

\* A poll takes the next worker from those it has yet to visit.
LEMMA VisitDoes ==
  ASSUME PartsTypeOK, NoOverlap, NEW p \in Polls, Beat(p) \/ Miss(p)
  PROVE  /\ pc[p] = "beat" /\ pc'[p] \in {"beaten", "missed"}
         /\ \A q \in Polls \ {p} : pc[q] = "idle" /\ pc'[q] = "idle"
         /\ UNCHANGED <<version, listed, handles, beatAge, states, gone, restarts>>
         /\ \E w \in Workers :
              /\ todo[p][w] # NoActor /\ current'[p] = w /\ todo'[p][w] = NoActor
              /\ \A v \in Workers \ {w} : todo'[p][v] = todo[p][v]
              /\ pc'[p] = "missed" => UNCHANGED silence
              /\ pc'[p] = "beaten" => silence' = [silence EXCEPT ![todo[p][w]] = 0]
<1>1. pc[p] = "beat" /\ UNCHANGED <<version, listed, handles, beatAge, states, gone, restarts>>
  BY DEF Beat, Miss, registryVars, supervisorVars, bounds
<1>2. PICK w \in Workers :
        /\ todo[p][w] # NoActor
        /\ current' = [current EXCEPT ![p] = w]
        /\ todo' = [todo EXCEPT ![p][w] = NoActor]
        /\ Beat(p) => silence' = [silence EXCEPT ![todo[p][w]] = 0]
  BY DEF Beat, Miss, Visits
<1>3. /\ current'[p] = w /\ todo'[p][w] = NoActor
      /\ \A v \in Workers \ {w} : todo'[p][v] = todo[p][v]
  BY <1>2 DEF PartsTypeOK, PollTypeOK
<1>4. (Beat(p) /\ Goto(p, "beaten")) \/ (Goto(p, "missed") /\ UNCHANGED silence)
  BY DEF Beat, Miss, actorVars
<1>5. \/ Beat(p) /\ pc'[p] = "beaten"
      \/ UNCHANGED silence /\ pc'[p] = "missed"
  BY <1>1, <1>4, Alone
<1>6. \A q \in Polls \ {p} : pc[q] = "idle" /\ pc'[q] = "idle"
  BY <1>1, <1>4, Alone
<1> QED
  BY <1>1, <1>2, <1>3, <1>5, <1>6

\* A restart of the registry ends polls, but none that is between a beat and its note.
LEMMA RestartDoes ==
  ASSUME PartsTypeOK, RegistryRestarts
  PROVE  /\ UNCHANGED <<handles, beatAge, states, silence>>
         /\ \A p \in Polls :
              \/ pc'[p] = "idle" /\ pc[p] # "beaten"
              \/ /\ pc'[p] = pc[p] /\ todo'[p] = todo[p] /\ current'[p] = current[p]
                 /\ gone'[p] = gone[p]
<1>1. UNCHANGED <<handles, beatAge, states, silence>>
  BY DEF RegistryRestarts, supervisorVars, actorVars
<1>2. PICK failed \in SUBSET {p \in Polls : CallsRegistry(p)} :
        /\ pc' = [p \in Polls |-> IF p \in failed THEN "idle" ELSE pc[p]]
        /\ todo' = [p \in Polls |-> IF p \in failed THEN Nothing ELSE todo[p]]
        /\ current' = [p \in Polls |-> IF p \in failed THEN NoWorker ELSE current[p]]
        /\ gone' = [p \in Polls |-> IF p \in failed THEN FALSE ELSE gone[p]]
  BY DEF RegistryRestarts
<1>3. \A p \in failed : pc[p] # "beaten"
  BY DEF CallsRegistry
<1> QED
  BY <1>1, <1>2, <1>3

\* The new actor is nobody's, so that it is heard of from its start.
LEMMA SpawnDoes ==
  ASSUME PartsTypeOK, NoOverlap, NEW p \in Polls, Spawn(p)
  PROVE  /\ pc[p] = "spawn" /\ pc'[p] = "tellStarting"
         /\ \A q \in Polls \ {p} : pc[q] = "idle" /\ pc'[q] = "idle"
         /\ UNCHANGED <<version, listed, todo, current, gone, restarts>>
         /\ current[p] \in Workers
         /\ states' = [states EXCEPT ![current[p]] = "starting"]
         /\ beatAge' = [beatAge EXCEPT ![current[p]] = 0]
         /\ \E a \in Actors :
              /\ \A w \in Workers : handles[w] # a
              /\ handles' = [handles EXCEPT ![current[p]] = a]
              /\ silence' = [silence EXCEPT ![a] = 0]
<1>1. /\ pc[p] = "spawn" /\ Goto(p, "tellStarting")
      /\ UNCHANGED <<version, listed, todo, current, gone, restarts>>
      /\ states' = [states EXCEPT ![current[p]] = "starting"]
      /\ beatAge' = [beatAge EXCEPT ![current[p]] = 0]
  BY DEF Spawn, registryVars, bounds
<1>2. PICK a \in Actors \ Referenced :
        /\ handles' = [handles EXCEPT ![current[p]] = a]
        /\ silence' = [silence EXCEPT ![a] = 0]
  BY DEF Spawn
<1>3. \A w \in Workers : handles[w] # a
  <2>1. a \notin Range(handles)
    BY <1>2 DEF Referenced
  <2> QED
    BY <2>1 DEF Range, PartsTypeOK, SupervisorTypeOK
<1>4. current[p] \in Workers
  BY <1>1 DEF PartsTypeOK, PollTypeOK
<1> QED
  BY <1>1, <1>2, <1>3, <1>4, Alone

\* Burying takes one worker out of the listing.
LEMMA BuryDoes ==
  ASSUME PartsTypeOK, NoOverlap, NEW p \in Polls, Bury(p)
  PROVE  /\ pc[p] = "remove" /\ pc'[p] = "spawn"
         /\ \A q \in Polls \ {p} : pc[q] = "idle" /\ pc'[q] = "idle"
         /\ UNCHANGED <<beatAge, states, silence, todo, current, gone, restarts>>
         /\ current[p] \in Workers
         /\ listed' = [listed EXCEPT ![current[p]] = "absent"]
         /\ handles' = [handles EXCEPT ![current[p]] = NoActor]
<1>1. /\ pc[p] = "remove" /\ Goto(p, "spawn")
      /\ UNCHANGED <<beatAge, states, silence, todo, current, gone, restarts>>
      /\ listed' = [listed EXCEPT ![current[p]] = "absent"]
      /\ handles' = [handles EXCEPT ![current[p]] = NoActor]
  BY DEF Bury, Remove, bounds
<1>2. current[p] \in Workers
  BY <1>1 DEF PartsTypeOK, PollTypeOK
<1> QED
  BY <1>1, <1>2, Alone

\* A poll that ends is idle, and so are all.
LEMMA EndDoes ==
  ASSUME PartsTypeOK, NoOverlap, NEW p \in Polls, Answer(p) \/ SpawnFails(p)
  PROVE  /\ pc[p] \in {"answer", "spawn"}
         /\ \A q \in Polls : pc'[q] = "idle"
         /\ UNCHANGED <<version, listed, handles, beatAge, states, silence, restarts>>
<1>1. /\ pc[p] \in {"answer", "spawn"} /\ Goto(p, "idle")
      /\ UNCHANGED <<version, listed, handles, beatAge, states, silence, restarts>>
  BY DEF Answer, SpawnFails, End, registryVars, supervisorVars, actorVars, bounds
<1> QED
  BY <1>1, Alone

\* A poll goes on with the worker it is at, or has visited them all.
Onward(p) ==
  NoteBeat(p) \/ NoteMiss(p) \/ TellReady(p) \/ TellSuspect(p) \/ TellStarting(p)
    \/ ReadRegistry(p)

\* What a poll does that goes on to its next worker, or to its end.
LEMMA OnwardDoes ==
  ASSUME PartsTypeOK, NoOverlap, NEW p \in Polls, Onward(p)
  PROVE  /\ pc[p] # "idle" /\ pc'[p] # "idle"
         /\ \A q \in Polls \ {p} : pc[q] = "idle" /\ pc'[q] = "idle"
         /\ pc'[p] \notin {"beat", "answer"} => Visiting(p)
         /\ UNCHANGED <<handles, silence, todo, current, restarts>>
<1>1. UNCHANGED <<handles, silence, todo, current, restarts>>
  BY DEF Onward, NoteBeat, NoteMiss, TellReady, TellSuspect, TellStarting, ReadRegistry,
     supervisorVars, actorVars, bounds
<1>2. pc[p] # "idle" /\ (pc[p] = "beat" => Goto(p, "answer"))
  BY DEF Onward, NoteBeat, NoteMiss, TellReady, TellSuspect, TellStarting, ReadRegistry
<1>3. pc[p] # "answer"
  BY DEF Onward, NoteBeat, NoteMiss, TellReady, TellSuspect, TellStarting, ReadRegistry
<1>4. \E label \in PollStates \ {"idle"} : Goto(p, label)
  BY DEF Onward, NoteBeat, NoteMiss, TellReady, TellSuspect, TellStarting, ReadRegistry,
     PollStates
<1>5. /\ pc'[p] # "idle" /\ (pc[p] = "beat" => pc'[p] = "answer")
      /\ \A q \in Polls \ {p} : pc[q] = "idle" /\ pc'[q] = "idle"
  BY <1>2, <1>4, Alone
<1> QED
  BY <1>1, <1>2, <1>3, <1>5 DEF Visiting

\* Steps that no poll takes part in, but for the restart of the registry.
Elsewhere ==
  \/ \E a \in Actors : CannotOpen(a) \/ ProcessDies(a) \/ ActorDies(a) \/ Collect(a)
  \/ \E w \in Workers : OrphanDies(w)
  \/ GatewayGivesUp \/ Tick \/ UNCHANGED vars

\* A step that is not a poll's leaves polls where they are.
LEMMA ElsewhereDoes ==
  ASSUME Elsewhere
  PROVE  UNCHANGED <<version, listed, handles, states, pc, todo, current, gone, restarts>>
BY DEF Elsewhere, CannotOpen, ProcessDies, ActorDies, Collect, OrphanDies, GatewayGivesUp,
   Tick, vars, registryVars, supervisorVars, pollVars, bounds

\* Every step is a poll's or happens elsewhere.
LEMMA AllSteps ==
  ASSUME [Next]_vars
  PROVE  \/ \E p \in Polls : \/ Beat(p) \/ Miss(p) \/ Onward(p) \/ Bury(p) \/ Spawn(p)
                             \/ Answer(p) \/ SpawnFails(p)
                             \/ Start(p) /\ (GatewayAsks(p) \/ SomebodyAsks(p))
         \/ RegistryRestarts \/ Elsewhere
<1>1. \A p \in Polls : GatewayAsks(p) \/ SomebodyAsks(p) => Start(p)
  BY DEF GatewayAsks, SomebodyAsks
<1> QED
  BY <1>1 DEF Next, PollStep, Onward, Elsewhere

\* Every step keeps what is known of the visits.
LEMMA VisitStep ==
  ASSUME PartsTypeOK, NoOverlap, NoOverlap', VisitInv, [Next]_vars
  PROVE  VisitInv'
<1> DEFINE OneToOne == \A v, w \in Workers : handles[v] = handles[w] /\ handles[v] # NoActor => v = w
<1>1. ASSUME NEW p \in Polls, \A q \in Polls \ {p} : pc'[q] = "idle", OneToOne',
             Visiting(p)' => todo'[p][current'[p]] = NoActor,
             \A w \in Workers :
               pc'[p] # "idle" /\ todo'[p][w] # NoActor => todo'[p][w] = handles'[w]
      PROVE  VisitInv'
  BY <1>1 DEF VisitInv, Visiting
<1>2. OneToOne
  BY DEF VisitInv
<1>3. ASSUME NEW p \in Polls, Beat(p) \/ Miss(p) PROVE VisitInv'
  BY <1>1, <1>2, <1>3, VisitDoes DEF VisitInv
<1>4. ASSUME NEW p \in Polls, Onward(p) PROVE VisitInv'
  BY <1>1, <1>2, <1>4, OnwardDoes DEF VisitInv, Visiting
<1>5. ASSUME NEW p \in Polls, Bury(p) PROVE VisitInv'
  <2>1. /\ handles'[current[p]] = NoActor /\ todo'[p][current'[p]] = NoActor
        /\ \A w \in Workers \ {current[p]} : handles'[w] = handles[w]
    BY <1>5, BuryDoes DEF VisitInv, Visiting, PartsTypeOK, SupervisorTypeOK
  <2>2. OneToOne'
    BY <1>2, <2>1
  <2>3. \A w \in Workers : todo'[p][w] # NoActor => todo'[p][w] = handles'[w]
    BY <1>5, <2>1, BuryDoes DEF VisitInv
  <2> HIDE DEF OneToOne
  <2> QED
    BY <1>1, <1>5, <2>1, <2>2, <2>3, BuryDoes
<1>6. ASSUME NEW p \in Polls, Spawn(p) PROVE VisitInv'
  <2>1. PICK a \in Actors : /\ \A w \in Workers : handles[w] # a
                            /\ handles' = [handles EXCEPT ![current[p]] = a]
    BY <1>6, SpawnDoes
  <2>2. /\ handles'[current[p]] = a /\ todo'[p][current'[p]] = NoActor
        /\ \A w \in Workers \ {current[p]} : handles'[w] = handles[w]
    BY <1>6, <2>1, SpawnDoes DEF VisitInv, Visiting, PartsTypeOK, SupervisorTypeOK
  <2>3. OneToOne'
    BY <1>2, <2>1, <2>2
  <2>4. \A w \in Workers : todo'[p][w] # NoActor => todo'[p][w] = handles'[w]
    BY <1>6, <2>2, SpawnDoes DEF VisitInv
  <2> HIDE DEF OneToOne
  <2> QED
    BY <1>1, <1>6, <2>2, <2>3, <2>4, SpawnDoes
<1>7. ASSUME NEW p \in Polls, Answer(p) \/ SpawnFails(p) PROVE VisitInv'
  BY <1>2, <1>7, EndDoes DEF VisitInv, Visiting
<1>8. ASSUME NEW p \in Polls, Start(p), GatewayAsks(p) \/ SomebodyAsks(p) PROVE VisitInv'
  <2>1. UNCHANGED handles
    BY <1>8 DEF GatewayAsks, SomebodyAsks, supervisorVars
  <2> QED
    BY <1>1, <1>2, <1>8, <2>1, StartsAlone DEF Visiting
<1>9. ASSUME RegistryRestarts PROVE VisitInv'
  BY <1>9, RestartDoes DEF VisitInv, Visiting
<1>10. ASSUME Elsewhere PROVE VisitInv'
  BY <1>10, ElsewhereDoes DEF VisitInv, Visiting
<1> QED
  BY <1>3, <1>4, <1>5, <1>6, <1>7, <1>8, <1>9, <1>10, AllSteps

-----------------------------------------------------------------------------
(* Whoever is killed has been silent.                                      *)

\* Ages are natural numbers.
LEMMA AgesTyped ==
  ASSUME PartsTypeOK
  PROVE  /\ \A w \in Workers : /\ beatAge[w] \in 0 .. MaxAge
                               /\ handles[w] # NoActor => silence[handles[w]] \in 0 .. MaxAge
         /\ \A p \in Polls : pollAge[p] \in 0 .. MaxPoll
BY DEF PartsTypeOK, SupervisorTypeOK, ActorTypeOK, PollTypeOK

\* What is left of SilenceInv when only one poll is not idle.
LEMMA SilenceOf ==
  ASSUME NEW p \in Polls, \A q \in Polls \ {p} : pc'[q] = "idle",
         \A w \in Workers : HeardOf(w)' \/ (pc'[p] = "beaten" /\ current'[p] = w),
         pc'[p] = "remove" \/ (pc'[p] = "tellSuspect" /\ gone'[p]) => Silent(current[p])'
  PROVE  SilenceInv'
<1>1. \A q \in Polls : pc'[q] = "remove" \/ (pc'[q] = "tellSuspect" /\ gone'[q]) => q = p
  OBVIOUS
<1> QED
  BY <1>1 DEF SilenceInv

\* A visit keeps what is known of silences.
LEMMA VisitSilence ==
  ASSUME PartsTypeOK, NoOverlap, VisitInv, SilenceInv, NEW p \in Polls, Beat(p) \/ Miss(p)
  PROVE  SilenceInv'
<1>1. PICK w \in Workers :
        /\ todo[p][w] # NoActor /\ current'[p] = w
        /\ pc'[p] = "missed" => UNCHANGED silence
        /\ pc'[p] = "beaten" => silence' = [silence EXCEPT ![todo[p][w]] = 0]
  BY VisitDoes
<1>2. /\ pc[p] = "beat" /\ pc'[p] \in {"beaten", "missed"}
      /\ \A q \in Polls \ {p} : pc[q] = "idle" /\ pc'[q] = "idle"
      /\ UNCHANGED <<handles, beatAge>>
  BY VisitDoes
<1>3. \A v \in Workers : HeardOf(v)
  BY <1>2 DEF SilenceInv
<1>4. \A v \in Workers : HeardOf(v)' \/ (pc'[p] = "beaten" /\ current'[p] = v)
  <2>1. CASE pc'[p] = "missed"
    BY <1>1, <1>2, <1>3, <2>1 DEF HeardOf
  <2>2. CASE pc'[p] = "beaten"
    <3>1. todo[p][w] = handles[w] /\ silence' = [silence EXCEPT ![handles[w]] = 0]
      BY <1>1, <1>2, <2>2 DEF VisitInv
    <3>2. \A v \in Workers \ {w} : handles[v] # NoActor => silence'[handles[v]] = silence[handles[v]]
      <4>1. \A v \in Workers \ {w} : handles[v] # NoActor => handles[v] # handles[w]
        BY DEF VisitInv
      <4>2. \A v \in Workers : handles[v] # NoActor => handles[v] \in Actors
        BY DEF PartsTypeOK, SupervisorTypeOK
      <4> QED
        BY <3>1, <4>1, <4>2 DEF PartsTypeOK, ActorTypeOK
    <3> QED
      BY <1>1, <1>2, <1>3, <2>2, <3>2 DEF HeardOf
  <2> QED
    BY <1>2, <2>1, <2>2
<1> QED
  BY <1>2, <1>4, SilenceOf

\* A note keeps it.
LEMMA NoteSilence ==
  ASSUME PartsTypeOK, NoOverlap, SilenceInv, NEW p \in Polls, NoteBeat(p) \/ NoteMiss(p)
  PROVE  SilenceInv'
<1>1. /\ UNCHANGED <<handles, silence, current>>
      /\ \A q \in Polls \ {p} : pc[q] = "idle" /\ pc'[q] = "idle"
  BY OnwardDoes DEF Onward
<1>2. current[p] \in Workers
  BY DEF NoteBeat, NoteMiss, PartsTypeOK, PollTypeOK
<1>3. CASE NoteBeat(p)
  <2>1. /\ pc[p] = "beaten" /\ beatAge' = [beatAge EXCEPT ![current[p]] = pollAge[p]]
        /\ \E label \in {"tellReady", "beat"} : Goto(p, label)
    BY <1>3 DEF NoteBeat
  <2>2. pc'[p] \in {"tellReady", "beat"}
    BY <2>1, Alone
  <2>3. beatAge'[current[p]] = pollAge[p]
        /\ \A w \in Workers \ {current[p]} : beatAge'[w] = beatAge[w]
    BY <1>2, <2>1 DEF PartsTypeOK, SupervisorTypeOK
  <2>4. \A w \in Workers \ {current[p]} : HeardOf(w)
    BY <1>1, <2>1 DEF SilenceInv
  <2>5. HeardOf(current[p])'
    <3>1. pollAge[p] \in Nat /\ pollAge[p] <= MaxPoll
      BY AgesTyped, LimitsTyped
    <3>2. handles[current[p]] # NoActor => silence[handles[current[p]]] \in Nat
      BY <1>2, AgesTyped, LimitsTyped
    <3> QED
      BY <1>1, <2>3, <3>1, <3>2, LimitsTyped DEF HeardOf
  <2>6. \A w \in Workers : HeardOf(w)'
    BY <1>1, <2>3, <2>4, <2>5 DEF HeardOf
  <2> QED
    BY <1>1, <2>2, <2>6, SilenceOf
<1>4. CASE NoteMiss(p)
  <2> DEFINE w == current[p]
             dead == beatAge[w] - pollAge[p] > DeadThreshold
  <2>1. /\ pc[p] = "missed" /\ UNCHANGED beatAge
        /\ gone' = [gone EXCEPT ![p] = dead]
        /\ Goto(p, "beat") \/ Goto(p, "tellSuspect") \/ (Goto(p, "remove") /\ dead)
    BY <1>4 DEF NoteMiss
  <2>2. /\ pc'[p] # "beaten" /\ (pc'[p] = "remove" => dead)
        /\ pc'[p] \in {"beat", "tellSuspect", "remove"}
    BY <2>1, Alone
  <2>3. gone'[p] = dead
    BY <2>1, Zenon DEF PartsTypeOK, PollTypeOK
  <2>4. \A v \in Workers : HeardOf(v)
    BY <1>1, <2>1 DEF SilenceInv
  <2>5. dead => Silent(w)
    <3> SUFFICES ASSUME dead, handles[w] # NoActor
                 PROVE  silence[handles[w]] + MaxPoll > DeadThreshold
      BY DEF Silent
    <3>1. beatAge[w] <= silence[handles[w]] + MaxPoll
      BY <1>2, <2>4 DEF HeardOf
    <3>2. beatAge[w] \in Nat /\ pollAge[p] \in Nat /\ silence[handles[w]] \in Nat
      BY <1>2, AgesTyped, LimitsTyped
    <3> QED
      BY <3>1, <3>2, LimitsTyped
  <2> HIDE DEF dead
  <2>6. pc'[p] = "remove" \/ (pc'[p] = "tellSuspect" /\ gone'[p]) => Silent(current[p])'
    BY <1>1, <2>2, <2>3, <2>5 DEF Silent
  <2>7. \A v \in Workers : HeardOf(v)'
    BY <1>1, <2>1, <2>4 DEF HeardOf
  <2> QED
    BY <1>1, <2>6, <2>7, SilenceOf
<1> QED
  BY <1>3, <1>4

\* Telling the registry keeps it.
LEMMA TellSilence ==
  ASSUME PartsTypeOK, NoOverlap, SilenceInv, NEW p \in Polls,
         TellReady(p) \/ TellSuspect(p) \/ TellStarting(p) \/ ReadRegistry(p)
  PROVE  SilenceInv'
<1>1. /\ UNCHANGED <<handles, silence, current>>
      /\ \A q \in Polls \ {p} : pc[q] = "idle" /\ pc'[q] = "idle"
  BY OnwardDoes DEF Onward
<1>2. UNCHANGED <<beatAge, gone>> /\ pc[p] # "beaten"
  BY DEF TellReady, TellSuspect, TellStarting, ReadRegistry, supervisorVars
<1>3. /\ pc'[p] \in {"beat", "answer", "remove"}
      /\ pc'[p] = "remove" => pc[p] = "tellSuspect" /\ gone[p]
  <2>1. /\ Goto(p, "beat") \/ Goto(p, "answer") \/ (Goto(p, "remove") /\ gone[p])
        /\ Goto(p, "remove") => pc[p] = "tellSuspect"
        /\ pc[p] # "idle"
    <3>1. ASSUME TellReady(p) \/ TellStarting(p) PROVE Goto(p, "beat") /\ pc[p] \notin {"idle", "tellSuspect"}
      BY <3>1 DEF TellReady, TellStarting
    <3>2. ASSUME ReadRegistry(p) PROVE Goto(p, "answer") /\ pc[p] = "beat"
      BY <3>2 DEF ReadRegistry
    <3>3. ASSUME TellSuspect(p)
          PROVE  pc[p] = "tellSuspect" /\ (Goto(p, "beat") \/ (Goto(p, "remove") /\ gone[p]))
      BY <3>3 DEF TellSuspect
    <3>4. ASSUME Goto(p, "beat") \/ Goto(p, "answer"), pc[p] # "idle" PROVE ~Goto(p, "remove")
      BY <3>4, Alone
    <3> QED
      BY <3>1, <3>2, <3>3, <3>4
  <2> QED
    BY <2>1, Alone
<1>4. \A w \in Workers : HeardOf(w)'
  BY <1>1, <1>2 DEF SilenceInv, HeardOf
<1>5. pc'[p] = "remove" => Silent(current[p])'
  BY <1>1, <1>3 DEF SilenceInv, Silent
<1> QED
  BY <1>1, <1>3, <1>4, <1>5, SilenceOf

\* Burying keeps it.
LEMMA BurySilence ==
  ASSUME PartsTypeOK, NoOverlap, SilenceInv, NEW p \in Polls, Bury(p)
  PROVE  SilenceInv'
<1>1. \A w \in Workers : HeardOf(w)
  BY BuryDoes DEF SilenceInv
<1>2. \A w \in Workers : handles'[w] = handles[w] \/ handles'[w] = NoActor
  BY BuryDoes DEF PartsTypeOK, SupervisorTypeOK
<1>3. \A w \in Workers : HeardOf(w)'
  BY <1>1, <1>2, BuryDoes DEF HeardOf
<1> QED
  BY <1>3, BuryDoes, SilenceOf

\* Spawning keeps it.
LEMMA SpawnSilence ==
  ASSUME PartsTypeOK, NoOverlap, SilenceInv, NEW p \in Polls, Spawn(p)
  PROVE  SilenceInv'
<1>1. PICK a \in Actors :
        /\ \A w \in Workers : handles[w] # a
        /\ handles' = [handles EXCEPT ![current[p]] = a]
        /\ silence' = [silence EXCEPT ![a] = 0]
  BY SpawnDoes
<1>2. \A w \in Workers : HeardOf(w)
  BY SpawnDoes DEF SilenceInv
<1>3. /\ handles'[current[p]] = a /\ silence'[a] = 0 /\ beatAge'[current[p]] = 0
      /\ \A w \in Workers \ {current[p]} : handles'[w] = handles[w] /\ beatAge'[w] = beatAge[w]
  BY <1>1, SpawnDoes DEF PartsTypeOK, SupervisorTypeOK, ActorTypeOK
<1>4. \A w \in Workers : handles[w] # NoActor => silence'[handles[w]] = silence[handles[w]]
  BY <1>1 DEF PartsTypeOK, SupervisorTypeOK, ActorTypeOK
<1>5. UNCHANGED current /\ HeardOf(current[p])'
  <2>1. UNCHANGED current
    BY SpawnDoes
  <2> QED
    BY <1>3, <2>1, LimitsTyped DEF HeardOf
<1>6. \A w \in Workers \ {current[p]} : HeardOf(w)'
  BY <1>2, <1>3, <1>4 DEF HeardOf
<1>7. \A w \in Workers : HeardOf(w)'
  BY <1>5, <1>6
<1> QED
  BY <1>7, SpawnDoes, SilenceOf

\* The passing of time keeps it.
LEMMA TickSilence ==
  ASSUME PartsTypeOK, SilenceInv, Tick
  PROVE  SilenceInv'
<1>1. /\ UNCHANGED <<handles, pc, current, gone>>
      /\ beatAge' = [w \in Workers |-> Older(beatAge[w])]
      /\ silence' = [a \in Actors |-> IF a \in Range(handles) THEN Older(silence[a]) ELSE 0]
  BY DEF Tick
<1>2. ASSUME NEW w \in Workers
      PROVE  /\ handles[w] # NoActor => silence'[handles[w]] = Older(silence[handles[w]])
             /\ beatAge'[w] = Older(beatAge[w])
  <2>1. handles[w] \in Range(handles) /\ (handles[w] # NoActor => handles[w] \in Actors)
    BY DEF Range, PartsTypeOK, SupervisorTypeOK
  <2> QED
    BY <1>1, <2>1
<1>3. ASSUME NEW w \in Workers, HeardOf(w) PROVE HeardOf(w)'
  <2> SUFFICES ASSUME handles[w] # NoActor PROVE Older(beatAge[w]) <= Older(silence[handles[w]]) + MaxPoll
    BY <1>1, <1>2 DEF HeardOf
  <2>1. /\ beatAge[w] \in 0 .. MaxAge /\ silence[handles[w]] \in 0 .. MaxAge
        /\ beatAge[w] <= silence[handles[w]] + MaxPoll
    BY <1>3, AgesTyped DEF HeardOf
  <2> QED
    BY <2>1, LimitsTyped DEF Older
<1>4. ASSUME NEW w \in Workers, Silent(w) PROVE Silent(w)'
  <2> SUFFICES ASSUME handles[w] # NoActor PROVE Older(silence[handles[w]]) + MaxPoll > DeadThreshold
    BY <1>1, <1>2 DEF Silent
  <2>1. silence[handles[w]] \in 0 .. MaxAge /\ silence[handles[w]] + MaxPoll > DeadThreshold
    BY <1>4, AgesTyped DEF Silent
  <2> QED
    BY <2>1, LimitsTyped, OlderTyped
<1>5. \A p \in Polls : pc[p] \in {"remove", "tellSuspect"} => current[p] \in Workers
  BY DEF PartsTypeOK, PollTypeOK
<1> QED
  BY <1>1, <1>3, <1>4, <1>5 DEF SilenceInv

\* So does every step.
LEMMA SilenceStep ==
  ASSUME PartsTypeOK, NoOverlap, NoOverlap', VisitInv, SilenceInv, [Next]_vars
  PROVE  SilenceInv'
<1>1. ASSUME NEW p \in Polls, Onward(p) PROVE SilenceInv'
  BY <1>1, NoteSilence, TellSilence DEF Onward
<1>2. ASSUME NEW p \in Polls, Answer(p) \/ SpawnFails(p) PROVE SilenceInv'
  <2>1. \A w \in Workers : HeardOf(w)
    BY <1>2, EndDoes, Alone DEF SilenceInv, NoOverlap
  <2> QED
    BY <1>2, <2>1, EndDoes DEF SilenceInv, HeardOf
<1>3. ASSUME NEW p \in Polls, Start(p), GatewayAsks(p) \/ SomebodyAsks(p) PROVE SilenceInv'
  <2>1. UNCHANGED <<handles, beatAge, silence>>
    BY <1>3 DEF GatewayAsks, SomebodyAsks, supervisorVars, actorVars
  <2>2. \A q \in Polls : pc[q] = "idle"
    BY <1>3, StartsAlone
  <2>3. \A w \in Workers : HeardOf(w)
    BY <2>2 DEF SilenceInv
  <2>4. \A w \in Workers : HeardOf(w)'
    BY <2>1, <2>3 DEF HeardOf
  <2> QED
    BY <1>3, <2>4, StartsAlone, SilenceOf
<1>4. ASSUME RegistryRestarts PROVE SilenceInv'
  <2>1. \A w \in Workers : HeardOf(w)' <=> HeardOf(w)
    BY <1>4, RestartDoes DEF HeardOf
  <2>2. \A p \in Polls : current'[p] = current[p] => (Silent(current[p])' <=> Silent(current[p]))
    BY <1>4, RestartDoes DEF Silent
  <2>3. \A p \in Polls :
          /\ pc[p] = "beaten" => pc'[p] = "beaten" /\ current'[p] = current[p]
          /\ pc'[p] # "idle" => pc'[p] = pc[p] /\ current'[p] = current[p] /\ gone'[p] = gone[p]
    BY <1>4, RestartDoes
  <2>4. \A w \in Workers : HeardOf(w)' \/ \E p \in Polls : pc'[p] = "beaten" /\ current'[p] = w
    BY <2>1, <2>3 DEF SilenceInv
  <2>5. ASSUME NEW p \in Polls, pc'[p] = "remove" \/ (pc'[p] = "tellSuspect" /\ gone'[p])
        PROVE  Silent(current[p])'
    BY <2>2, <2>3, <2>5 DEF SilenceInv
  <2> QED
    BY <2>4, <2>5 DEF SilenceInv
<1>5. ASSUME Elsewhere PROVE SilenceInv'
  <2>1. CASE Tick
    BY <2>1, TickSilence
  <2>2. CASE ~Tick
    <3>1. UNCHANGED <<beatAge, silence>>
      BY <1>5, <2>2 DEF Elsewhere, CannotOpen, ProcessDies, ActorDies, Collect, OrphanDies,
         GatewayGivesUp, vars, supervisorVars, actorVars
    <3> QED
      BY <1>5, <3>1, ElsewhereDoes DEF SilenceInv, HeardOf, Silent
  <2> QED
    BY <2>1, <2>2
<1> QED
  BY <1>1, <1>2, <1>3, <1>4, <1>5, VisitSilence, BurySilence, SpawnSilence, AllSteps

-----------------------------------------------------------------------------
(* The supervisor knows what the registry lists.                           *)

\* What KnownInv says before the step of the only poll that is not idle, and what
\* is left of it after.
LEMMA KnownBefore ==
  ASSUME PartsTypeOK, KnownInv, NEW p \in Polls, \A q \in Polls \ {p} : pc[q] = "idle"
  PROVE  /\ \A w \in Workers : Known(w) \/ (pc[p] \in Telling /\ current[p] = w)
         /\ Stage(p)
         /\ \A w \in Workers : pc[p] # "idle" /\ todo[p][w] # NoActor => states[w] # "dead"
         /\ \A w \in Workers :
              handles[w] # NoActor => states[w] # "dead" \/ (pc[p] = "remove" /\ current[p] = w)
         /\ \A w \in Workers : /\ states[w] \in {"starting", "ready", "suspect", "dead"}
                               /\ listed[w] \in {"absent", "starting", "ready", "suspect"}
BY DEF KnownInv, Telling, PartsTypeOK, SupervisorTypeOK, RegistryTypeOK, ListedStates

\* What establishes it after a step of the only poll.
LEMMA KnownAfter ==
  ASSUME NEW p \in Polls, \A q \in Polls \ {p} : pc'[q] = "idle",
         \A w \in Workers : Known(w)' \/ (pc'[p] \in Telling /\ current'[p] = w),
         Stage(p)',
         \A w \in Workers : pc'[p] # "idle" /\ todo'[p][w] # NoActor => states'[w] # "dead",
         \A w \in Workers :
           handles'[w] # NoActor => states'[w] # "dead" \/ (pc'[p] = "remove" /\ current'[p] = w)
  PROVE  KnownInv'
<1>1. \A q \in Polls : Stage(q)'
  BY DEF Stage
<1> QED
  BY <1>1 DEF KnownInv

\* A visit keeps the registry's listing as it is known.
LEMMA VisitKnown ==
  ASSUME PartsTypeOK, NoOverlap, KnownInv, NEW p \in Polls, Beat(p) \/ Miss(p)
  PROVE  KnownInv'
<1>1. /\ pc[p] = "beat" /\ pc'[p] \in {"beaten", "missed"}
      /\ \A q \in Polls \ {p} : pc[q] = "idle" /\ pc'[q] = "idle"
      /\ UNCHANGED <<listed, handles, states>>
  BY VisitDoes
<1>2. PICK w \in Workers :
        /\ todo[p][w] # NoActor /\ current'[p] = w /\ todo'[p][w] = NoActor
        /\ \A v \in Workers \ {w} : todo'[p][v] = todo[p][v]
  BY VisitDoes
<1>3. /\ \A v \in Workers : Known(v)
      /\ \A v \in Workers : todo[p][v] # NoActor => states[v] # "dead"
      /\ \A v \in Workers : handles[v] # NoActor => states[v] # "dead"
  BY <1>1, KnownBefore DEF Telling
<1>4. Stage(p)'
  BY <1>1, <1>2, <1>3 DEF Stage
<1>5. \A v \in Workers : Known(v)'
  BY <1>1, <1>3 DEF Known
<1> QED
  BY <1>1, <1>2, <1>3, <1>4, <1>5, KnownAfter

\* A note that changes what is thought of a worker makes the poll about to tell of it.
LEMMA NoteKnown ==
  ASSUME PartsTypeOK, NoOverlap, VisitInv, KnownInv, NEW p \in Polls, NoteBeat(p) \/ NoteMiss(p)
  PROVE  KnownInv'
<1> DEFINE w == current[p]
<1>1. /\ UNCHANGED <<handles, todo, current>>
      /\ \A q \in Polls \ {p} : pc[q] = "idle" /\ pc'[q] = "idle"
  BY OnwardDoes DEF Onward
<1>2. /\ w \in Workers /\ pc[p] \in {"beaten", "missed"} /\ listed' = listed
  BY DEF NoteBeat, NoteMiss, PartsTypeOK, PollTypeOK, registryVars
<1>3. /\ todo[p][w] = NoActor
      /\ \A v \in Workers : Known(v)
      /\ states[w] # "dead"
      /\ \A v \in Workers : todo[p][v] # NoActor => states[v] # "dead"
      /\ \A v \in Workers : handles[v] # NoActor => states[v] # "dead"
      /\ states[w] \in {"starting", "ready", "suspect", "dead"}
      /\ listed[w] = states[w]
  BY <1>1, <1>2, KnownBefore DEF VisitInv, Visiting, Telling, Stage, Known
<1>4. \/ states' = states /\ pc'[p] = "beat"
      \/ /\ states' = [states EXCEPT ![w] = "ready"] /\ pc'[p] = "tellReady"
         /\ listed[w] \in {"starting", "suspect"}
      \/ /\ states' = [states EXCEPT ![w] = "suspect"] /\ pc'[p] = "tellSuspect"
         /\ listed[w] \in {"starting", "ready"}
      \/ states' = [states EXCEPT ![w] = "dead"] /\ pc'[p] = "remove" /\ listed[w] = "suspect"
  <2>1. CASE NoteBeat(p)
    <3>1. /\ pc[p] = "beaten" /\ states' = [states EXCEPT ![w] = "ready"]
          /\ Goto(p, IF states[w] # "ready" THEN "tellReady" ELSE "beat")
      BY <2>1 DEF NoteBeat
    <3>2. pc'[p] = IF states[w] # "ready" THEN "tellReady" ELSE "beat"
      BY <3>1, Alone
    <3>3. states[w] = "ready" => states' = states
      BY <3>1 DEF PartsTypeOK, SupervisorTypeOK
    <3> QED
      BY <1>3, <3>1, <3>2, <3>3
  <2>2. CASE NoteMiss(p)
    <3> DEFINE gap     == beatAge[w] - pollAge[p]
               suspect == gap > SuspectThreshold /\ states[w] # "suspect"
               dead    == gap > DeadThreshold
    <3>1. /\ pc[p] = "missed"
          /\ states' = [states EXCEPT ![w] = IF suspect THEN "suspect"
                                             ELSE IF dead THEN "dead" ELSE @]
          /\ Goto(p, IF suspect THEN "tellSuspect" ELSE IF dead THEN "remove" ELSE "beat")
      BY <2>2 DEF NoteMiss
    <3>2. pc'[p] = IF suspect THEN "tellSuspect" ELSE IF dead THEN "remove" ELSE "beat"
      BY <3>1, Alone
    <3>3. dead /\ ~suspect => states[w] = "suspect"
      <4>1. gap \in Int
        BY <1>2, AgesTyped, LimitsTyped
      <4> HIDE DEF gap
      <4> QED
        BY <4>1, LimitsTyped
    <3>4. suspect => states[w] # "suspect"
      OBVIOUS
    <3> HIDE DEF suspect, dead
    <3>5. ~suspect /\ ~dead => states' = states
      BY <3>1 DEF PartsTypeOK, SupervisorTypeOK
    <3> QED
      BY <1>3, <3>1, <3>2, <3>3, <3>4, <3>5
  <2> QED
    BY <2>1, <2>2
<1>5. \A v \in Workers \ {w} : states'[v] = states[v]
  BY <1>4 DEF PartsTypeOK, SupervisorTypeOK
<1>6. /\ pc'[p] = "beat" => states'[w] = states[w]
      /\ pc'[p] = "tellReady" => states'[w] = "ready"
      /\ pc'[p] = "tellSuspect" => states'[w] = "suspect"
      /\ pc'[p] = "remove" => states'[w] = "dead"
      /\ pc'[p] \in {"beat", "tellReady", "tellSuspect", "remove"}
  BY <1>2, <1>4 DEF PartsTypeOK, SupervisorTypeOK
<1>7. Stage(p)'
  BY <1>1, <1>2, <1>4, <1>6 DEF Stage
<1>8. \A v \in Workers : Known(v)' \/ (pc'[p] \in Telling /\ current'[p] = v)
  BY <1>1, <1>2, <1>3, <1>5, <1>6 DEF Known, Telling
<1>9. \A v \in Workers : todo'[p][v] # NoActor => states'[v] # "dead"
  BY <1>1, <1>3, <1>5
<1>10. \A v \in Workers :
         handles'[v] # NoActor => states'[v] # "dead" \/ (pc'[p] = "remove" /\ current'[p] = v)
  BY <1>1, <1>3, <1>5, <1>6
<1> HIDE DEF w
<1> QED
  BY <1>1, <1>7, <1>8, <1>9, <1>10, KnownAfter

\* Telling the registry makes the listing what is known.
LEMMA TellKnown ==
  ASSUME PartsTypeOK, NoOverlap, VisitInv, KnownInv, NEW p \in Polls,
         TellReady(p) \/ TellSuspect(p) \/ TellStarting(p)
  PROVE  KnownInv'
<1> DEFINE w == current[p]
<1>1. /\ UNCHANGED <<handles, todo, current>>
      /\ \A q \in Polls \ {p} : pc[q] = "idle" /\ pc'[q] = "idle"
  BY OnwardDoes DEF Onward
<1>2. w \in Workers /\ pc[p] \in {"tellReady", "tellSuspect", "tellStarting"}
  BY DEF TellReady, TellSuspect, TellStarting, PartsTypeOK, PollTypeOK
<1>3. /\ todo[p][w] = NoActor
      /\ \A v \in Workers \ {w} : Known(v)
      /\ \A v \in Workers : todo[p][v] # NoActor => states[v] # "dead"
      /\ \A v \in Workers : handles[v] # NoActor => states[v] # "dead"
  BY <1>1, <1>2, KnownBefore DEF VisitInv, Visiting
<1>4. Stage(p)
  BY <1>1, KnownBefore
<1>5. \E s \in {"ready", "suspect", "starting"} :
        /\ listed' = [listed EXCEPT ![w] = s] /\ states[w] = s
        /\ \/ states' = states /\ pc'[p] = "beat"
           \/ s = "suspect" /\ states' = [states EXCEPT ![w] = "dead"] /\ pc'[p] = "remove"
  <2>1. CASE TellReady(p)
    <3>1. /\ pc[p] = "tellReady" /\ listed' = [listed EXCEPT ![w] = "ready"]
          /\ states' = states /\ Goto(p, "beat")
      BY <2>1 DEF TellReady, Update, supervisorVars
    <3> QED
      BY <1>4, <3>1, Alone DEF Stage
  <2>2. CASE TellSuspect(p)
    <3>1. /\ pc[p] = "tellSuspect" /\ listed' = [listed EXCEPT ![w] = "suspect"]
          /\ \/ states' = states /\ Goto(p, "beat")
             \/ states' = [states EXCEPT ![w] = "dead"] /\ Goto(p, "remove")
      BY <2>2 DEF TellSuspect, Update
    <3> QED
      BY <1>4, <3>1, Alone DEF Stage
  <2>3. CASE TellStarting(p)
    <3>1. /\ pc[p] = "tellStarting" /\ listed' = [listed EXCEPT ![w] = "starting"]
          /\ states' = states /\ Goto(p, "beat")
      BY <2>3 DEF TellStarting, Update, supervisorVars
    <3> QED
      BY <1>4, <3>1, Alone DEF Stage
  <2> QED
    BY <2>1, <2>2, <2>3
<1>6. /\ \A v \in Workers \ {w} : states'[v] = states[v] /\ listed'[v] = listed[v]
      /\ pc'[p] \in {"beat", "remove"}
      /\ listed'[w] # "absent"
      /\ pc'[p] = "beat" => listed'[w] = states'[w] /\ states'[w] # "dead"
      /\ pc'[p] = "remove" => listed'[w] = "suspect" /\ states'[w] = "dead"
  BY <1>2, <1>5 DEF PartsTypeOK, SupervisorTypeOK, RegistryTypeOK
<1>7. Stage(p)'
  BY <1>1, <1>6 DEF Stage
<1>8. \A v \in Workers : Known(v)' \/ (pc'[p] \in Telling /\ current'[p] = v)
  BY <1>1, <1>2, <1>3, <1>6 DEF Known, Telling
<1>9. \A v \in Workers : todo'[p][v] # NoActor => states'[v] # "dead"
  BY <1>1, <1>3, <1>6
<1>10. \A v \in Workers :
         handles'[v] # NoActor => states'[v] # "dead" \/ (pc'[p] = "remove" /\ current'[p] = v)
  BY <1>1, <1>3, <1>6
<1> HIDE DEF w
<1> QED
  BY <1>1, <1>7, <1>8, <1>9, <1>10, KnownAfter

\* Burying removes from the listing a worker that is thought dead.
LEMMA BuryKnown ==
  ASSUME PartsTypeOK, NoOverlap, VisitInv, KnownInv, NEW p \in Polls, Bury(p)
  PROVE  KnownInv'
<1> DEFINE w == current[p]
<1>1. /\ pc[p] = "remove" /\ pc'[p] = "spawn" /\ w \in Workers
      /\ \A q \in Polls \ {p} : pc[q] = "idle" /\ pc'[q] = "idle"
      /\ UNCHANGED <<states, todo, current>>
      /\ listed' = [listed EXCEPT ![w] = "absent"]
      /\ handles' = [handles EXCEPT ![w] = NoActor]
  BY BuryDoes
<1>2. /\ \A v \in Workers \ {w} : Known(v)
      /\ states[w] = "dead"
      /\ \A v \in Workers : todo[p][v] # NoActor => states[v] # "dead"
      /\ \A v \in Workers \ {w} : handles[v] # NoActor => states[v] # "dead"
  BY <1>1, KnownBefore DEF Stage
<1>3. /\ listed'[w] = "absent" /\ handles'[w] = NoActor
      /\ \A v \in Workers \ {w} : listed'[v] = listed[v] /\ handles'[v] = handles[v]
  BY <1>1 DEF PartsTypeOK, SupervisorTypeOK, RegistryTypeOK
<1>4. Stage(p)'
  BY <1>1, <1>2, <1>3 DEF Stage
<1>5. \A v \in Workers : Known(v)'
  BY <1>1, <1>2, <1>3 DEF Known
<1>6. \A v \in Workers : handles'[v] # NoActor => states'[v] # "dead"
  BY <1>1, <1>2, <1>3
<1> HIDE DEF w
<1> QED
  BY <1>1, <1>2, <1>4, <1>5, <1>6, KnownAfter

\* Spawning makes the poll about to tell that the worker is starting.
LEMMA SpawnKnown ==
  ASSUME PartsTypeOK, NoOverlap, VisitInv, KnownInv, NEW p \in Polls, Spawn(p)
  PROVE  KnownInv'
<1> DEFINE w == current[p]
<1>1. /\ pc[p] = "spawn" /\ pc'[p] = "tellStarting" /\ w \in Workers
      /\ \A q \in Polls \ {p} : pc[q] = "idle" /\ pc'[q] = "idle"
      /\ UNCHANGED <<listed, todo, current>>
      /\ states' = [states EXCEPT ![w] = "starting"]
      /\ \A v \in Workers \ {w} : handles'[v] = handles[v]
  BY SpawnDoes DEF PartsTypeOK, SupervisorTypeOK
<1>2. /\ \A v \in Workers : Known(v)
      /\ listed[w] = "absent" /\ todo[p][w] = NoActor
      /\ \A v \in Workers : todo[p][v] # NoActor => states[v] # "dead"
      /\ \A v \in Workers : handles[v] # NoActor => states[v] # "dead"
  BY <1>1, KnownBefore DEF Stage, Telling, VisitInv, Visiting
<1>3. states'[w] = "starting" /\ \A v \in Workers \ {w} : states'[v] = states[v]
  BY <1>1 DEF PartsTypeOK, SupervisorTypeOK
<1>4. Stage(p)'
  BY <1>1, <1>2, <1>3 DEF Stage
<1>5. \A v \in Workers : Known(v)' \/ (pc'[p] \in Telling /\ current'[p] = v)
  BY <1>1, <1>2, <1>3 DEF Known, Telling
<1>6. \A v \in Workers : handles'[v] # NoActor \/ todo'[p][v] # NoActor => states'[v] # "dead"
  BY <1>1, <1>2, <1>3
<1> HIDE DEF w
<1> QED
  BY <1>1, <1>4, <1>5, <1>6, KnownAfter

\* So every step keeps it.
LEMMA KnownStep ==
  ASSUME PartsTypeOK, NoOverlap, NoOverlap', VisitInv, KnownInv, [Next]_vars, ~RegistryRestarts
  PROVE  KnownInv'
<1>1. ASSUME NEW p \in Polls, ReadRegistry(p) PROVE KnownInv'
  <2>1. /\ UNCHANGED <<handles, todo, current, listed, states>> /\ pc[p] = "beat"
        /\ Goto(p, "answer")
    BY <1>1 DEF ReadRegistry, registryVars, supervisorVars
  <2>2. pc'[p] = "answer" /\ \A q \in Polls \ {p} : pc[q] = "idle" /\ pc'[q] = "idle"
    BY <2>1, Alone
  <2>3. /\ \A v \in Workers : Known(v)
        /\ \A v \in Workers : handles[v] # NoActor \/ todo[p][v] # NoActor => states[v] # "dead"
    BY <2>1, <2>2, KnownBefore DEF Telling
  <2>4. (\A v \in Workers : Known(v)') /\ Stage(p)'
    BY <2>1, <2>2, <2>3 DEF Known, Stage
  <2> QED
    BY <2>1, <2>2, <2>3, <2>4, KnownAfter
<1>2. ASSUME NEW p \in Polls, Onward(p) PROVE KnownInv'
  BY <1>1, <1>2, NoteKnown, TellKnown DEF Onward
<1>3. ASSUME NEW p \in Polls, Answer(p) \/ SpawnFails(p) PROVE KnownInv'
  <2>1. /\ UNCHANGED <<handles, listed, states>> /\ pc[p] \in {"answer", "spawn"}
        /\ \A q \in Polls : pc'[q] = "idle"
    BY <1>3, EndDoes
  <2>2. \A q \in Polls \ {p} : pc[q] = "idle"
    BY <2>1 DEF NoOverlap
  <2>3. /\ \A v \in Workers : Known(v)
        /\ \A v \in Workers : handles[v] # NoActor => states[v] # "dead"
    BY <2>1, <2>2, KnownBefore DEF Telling
  <2>4. (\A v \in Workers : Known(v)') /\ Stage(p)'
    BY <2>1, <2>3 DEF Known, Stage
  <2> QED
    BY <2>1, <2>3, <2>4, KnownAfter
<1>4. ASSUME NEW p \in Polls, Start(p), GatewayAsks(p) \/ SomebodyAsks(p) PROVE KnownInv'
  <2>1. /\ UNCHANGED <<handles, listed, states>>
    BY <1>4 DEF GatewayAsks, SomebodyAsks, registryVars, supervisorVars
  <2>2. /\ pc[p] = "idle" /\ pc'[p] = "beat" /\ todo'[p] = handles
        /\ \A q \in Polls \ {p} : pc[q] = "idle" /\ pc'[q] = "idle"
    BY <1>4, StartsAlone
  <2>3. /\ \A v \in Workers : Known(v)
        /\ \A v \in Workers : handles[v] # NoActor => states[v] # "dead"
    BY <2>2, KnownBefore DEF Telling
  <2>4. (\A v \in Workers : Known(v)') /\ Stage(p)'
    BY <2>1, <2>2, <2>3 DEF Known, Stage
  <2> QED
    BY <2>1, <2>2, <2>3, <2>4, KnownAfter
<1>5. ASSUME Elsewhere PROVE KnownInv'
  BY <1>5, ElsewhereDoes DEF KnownInv, Known, Stage
<1> QED
  BY <1>2, <1>3, <1>4, <1>5, VisitKnown, BuryKnown, SpawnKnown, AllSteps

-----------------------------------------------------------------------------
(* The theorems about polls that do not overlap.                           *)

\* The initial state satisfies the invariant.
LEMMA InitOneByOne == Init => OneByOneInv
<1> SUFFICES ASSUME Init PROVE OneByOneInv
  OBVIOUS
<1>1. /\ handles \in [Workers -> Actors]
      /\ \A v, w \in Workers : handles[v] = handles[w] => v = w
  BY DEF Init, Injection, IsInjective
<1>2. /\ pc = [p \in Polls |-> "idle"] /\ states = [w \in Workers |-> "starting"]
      /\ listed = [w \in Workers |-> "starting"]
      /\ beatAge = [w \in Workers |-> 0] /\ silence = [a \in Actors |-> 0]
  BY DEF Init
<1>3. VisitInv
  BY <1>1, <1>2 DEF VisitInv, Visiting
<1>4. \A w \in Workers : HeardOf(w)
  BY <1>1, <1>2, LimitsTyped DEF HeardOf
<1>5. SilenceInv
  BY <1>2, <1>4 DEF SilenceInv
<1>6. KnownInv
  BY <1>2 DEF KnownInv, Known, Stage
<1> QED
  BY <1>3, <1>5, <1>6 DEF OneByOneInv

\* A registry that has restarted has always restarted since.
LEMMA RestartsRemembered ==
  ASSUME PartsTypeOK, [Next]_vars, restarts' = 0
  PROVE  restarts = 0 /\ ~RegistryRestarts
<1>1. ~RegistryRestarts
  BY RestartCounts
<1>2. UNCHANGED restarts
  BY <1>1, StepKinds, ReadDoes, AnswerDoes DEF Quiet, Told
<1> QED
  BY <1>1, <1>2

\* The inductive invariant of polls that come one by one: whom the poll has yet to
\* visit, how long each worker has been silent, and, without restarts of the
\* registry, that it lists what is known.
THEOREM OneByOneHolds == Spec /\ []NoOverlap => []OneByOneInv
<1>1. ASSUME PartsTypeOK, NoOverlap, NoOverlap', OneByOneInv, [Next]_vars
      PROVE  OneByOneInv'
  BY <1>1, VisitStep, SilenceStep, KnownStep, RestartsRemembered DEF OneByOneInv
<1> QED
  BY <1>1, InitOneByOne, PartsAlwaysTyped, PTL DEF Spec

\* As long as polls do not overlap and the registry has not restarted, it lists of a
\* worker what the supervisor thinks of it, unless the poll is about to tell it: a
\* spawn that raises and an answer that is given up make no difference.
THEOREM RegistryListsWhatIsKnown == Spec /\ []NoOverlap => []ListedAsKnown
<1>1. OneByOneInv => ListedAsKnown
  BY DEF OneByOneInv, KnownInv, Known, Telling, ListedAsKnown
<1> QED
  BY <1>1, OneByOneHolds, PTL

\* As long as polls do not overlap and the registry has not restarted, a worker dies
\* and comes back through the stages in their order.
THEOREM DeathAlwaysByStages == Spec /\ []NoOverlap => DeathByStages
<1>1. ASSUME PartsTypeOK, NoOverlap, OneByOneInv, [Next]_vars, restarts' = 0,
             NEW w \in Workers, listed'[w] # listed[w]
      PROVE  listed[w] \in Follows[listed'[w]]
  <2>1. KnownInv /\ ~RegistryRestarts
    BY <1>1, RestartsRemembered DEF OneByOneInv
  <2>2. PICK p \in Polls : TellReady(p) \/ TellSuspect(p) \/ TellStarting(p) \/ Bury(p)
    <3>1. ~Quiet /\ \A p \in Polls : ~ReadRegistry(p) /\ ~Answer(p)
      BY <1>1, ReadDoes, AnswerDoes DEF Quiet
    <3>2. ~UNCHANGED listed
      BY <1>1
    <3>3. \A p \in Polls : PollStep(p) =>
            TellReady(p) \/ TellSuspect(p) \/ TellStarting(p) \/ Bury(p) \/ Quiet
      BY <1>1, <3>1, PollQuiet DEF PollStep
    <3> QED
      BY <1>1, <2>1, <3>1, <3>3, PollQuiet, EnvironmentQuiet DEF Next
  <2>3. Stage(p) /\ current[p] \in Workers
    BY <1>1, <2>1, <2>2 DEF KnownInv, PartsTypeOK, PollTypeOK, TellReady, TellSuspect,
       TellStarting, Bury
  <2>4. PICK s \in ListedStates :
          /\ listed' = [listed EXCEPT ![current[p]] = s]
          /\ listed[current[p]] \in Follows[s]
    <3>1. CASE TellReady(p)
      BY <2>3, <3>1 DEF TellReady, Update, Stage, Follows, ListedStates
    <3>2. CASE TellSuspect(p)
      BY <2>3, <3>2 DEF TellSuspect, Update, Stage, Follows, ListedStates
    <3>3. CASE TellStarting(p)
      BY <2>3, <3>3 DEF TellStarting, Update, Stage, Follows, ListedStates
    <3>4. CASE Bury(p)
      BY <2>3, <3>4 DEF Bury, Remove, Stage, Follows, ListedStates
    <3> QED
      BY <2>2, <3>1, <3>2, <3>3, <3>4
  <2>5. w = current[p] /\ listed'[w] = s
    BY <1>1, <2>3, <2>4 DEF PartsTypeOK, RegistryTypeOK
  <2> QED
    BY <2>4, <2>5
<1>2. PartsTypeOK /\ NoOverlap /\ OneByOneInv /\ [Next]_vars =>
        [restarts' = 0 => \A w \in Workers :
           listed'[w] # listed[w] => listed[w] \in Follows[listed'[w]]]_vars
  BY <1>1
<1> QED
  BY <1>2, OneByOneHolds, PartsAlwaysTyped, PTL DEF Spec, DeathByStages

\* As long as polls do not overlap, no actor is killed that has answered within
\* DeadThreshold less the length of a poll, restarts of the registry included.
THEOREM KilledOnlyIfSilent == Spec /\ []NoOverlap => SilentBeforeKill
<1>1. ASSUME PartsTypeOK, NoOverlap, OneByOneInv, [Next]_vars,
             NEW w \in Workers, Kills(w)
      PROVE  silence[handles[w]] + MaxPoll > DeadThreshold
  <2>1. handles[w] # NoActor /\ handles'[w] = NoActor
    BY <1>1 DEF Kills
  <2>2. \A p \in Polls : ~Spawn(p)
    <3> SUFFICES ASSUME NEW p \in Polls, Spawn(p) PROVE FALSE
      OBVIOUS
    <3>1. PICK a \in Actors : handles' = [handles EXCEPT ![current[p]] = a]
      BY <1>1, SpawnDoes
    <3>2. handles'[w] \in {a, handles[w]} /\ a # NoActor
      BY <3>1, SupervisorAssumption DEF PartsTypeOK, SupervisorTypeOK
    <3> QED
      BY <2>1, <3>2
  <2>3. ~UNCHANGED handles
    BY <2>1
  <2>4. PICK p \in Polls : Bury(p)
    <3>1. \A p \in Polls : ~GatewayAsks(p) /\ ~SomebodyAsks(p)
      BY <2>3 DEF GatewayAsks, SomebodyAsks, supervisorVars
    <3> QED
      BY <1>1, <2>2, <2>3, <3>1, AllSteps, VisitDoes, OnwardDoes, EndDoes, RestartDoes,
         ElsewhereDoes
  <2>5. w = current[p] /\ pc[p] = "remove"
    BY <1>1, <2>1, <2>4, BuryDoes DEF PartsTypeOK, SupervisorTypeOK
  <2> QED
    BY <1>1, <2>1, <2>5 DEF OneByOneInv, SilenceInv, Silent
<1>2. PartsTypeOK /\ NoOverlap /\ OneByOneInv /\ [Next]_vars =>
        [\A w \in Workers :
           Kills(w) => silence[handles[w]] + MaxPoll > DeadThreshold]_vars
  BY <1>1
<1> QED
  BY <1>2, OneByOneHolds, PartsAlwaysTyped, PTL DEF Spec, SilentBeforeKill
=============================================================================
