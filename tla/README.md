# Verification of llms-chaos

TLA+ models of the inference gateway, its control plane, the worker's
endpoint with its scheduler and cache, and the chaos controller, the TLC instances that
check them, and TLAPS proofs of every safety property and both refinements that those
instances check. Everything is translated from the source under
`src/`; a name in a model is the source's name where TLA+ allows it.

## 1. The system

    client --HTTP--> gateway (Go) --HTTP--> worker 1..n (Python, one process each)
                        |  polls every second                 ^ starts, asks for heartbeats
                        v                                     |
                     supervisor (Python, Ray) ----------------+
                        |  update / remove / state
                        v
                     registry actor (Ray)
    chaos controller (Go): kills, delays, partitions, fills memory

| Component (source) | State | Operations | Talks to | What is hard | What makes it correct |
|---|---|---|---|---|---|
| **Forwarder** `gateway/internal/proxy` with **hedged race** `internal/hedge` | per request: attempt, last primary, bytes sent; per call: a goroutine, a connection, a limiter slot | `Serve`, `dialFirstToken`, `streamFromFirstToken`, `RaceWithCleanup`, the cleanup goroutine | pool, limiter, breakers, workers | up to four call goroutines per request, which outlive the race, the attempt and the request; client gone at any time; retries | one answer per request, no retry once bytes are out, the race never touches the stream relayed, every slot released exactly once |
| **Adaptive limiter** `internal/limiter` | cap and slots per worker | `TryAcquire`, `Release`, `OnSuccess`, `OnTimeout` | called by every call goroutine | caps shrink below what is in flight | counts are exact, never over the maximum, no lock-out |
| **Circuit breakers** `internal/breaker` | state, failures, `openedAt` per worker | `Allow`, `Record` | called by handlers and calls | late results of earlier calls | state agrees with what was recorded |
| **Pool** `internal/router` | workers, their states, affinities | `Update`, `Pick`, `PickForKey`, `PickExcept` | registry poller, forwarder | `PickForKey` is four critical sections with an update possible between any two, and one read without a lock | answers the pool allowed at some time of the call, one worker per session |
| **Registry poller** `gateway/cmd/gateway/main.go` | stored version | ask, give up after 3s, install | supervisor, pool | late answers | never installs an older membership |
| **Supervisor** `controlplane/supervisor.py` | `handles`, `last_beat`, `states` | `GET /v1/cluster/state` (does all the work), `_spawn` | worker actors, registry, gateway | runs in the server's threads without a lock; remote calls that fail half-way | no worker forgotten, the registry tells what the supervisor thinks, the dead come back |
| **Registry actor** `controlplane/registry.py` | version, members | `update`, `remove`, `state` | supervisor | restarts empty | a version names one membership |
| **Worker actor** `controlplane/actors.py` | sequence number, child process | `start`, `heartbeat` | supervisor | actor or process dies; a process outlives its actor and keeps the port | the supervisor replaces it, unless the port is held |
| **Worker scheduler** `worker/app/scheduler.py` | queue of tickets, active leases | `acquire`, `release` | HTTP handlers | polling threads, deadline against grant, batch linger | bounded, leases counted, nobody waits past a deadline |
| **Worker endpoint** `worker/app/main.py`, `drain.py` | drain flag and drain file; per request a lease | `/generate`, `/drain`, SIGTERM, `/debug/*` | scheduler, cache, engine | the drain check comes before a wait of up to 30s; the lease is released by the body of the response, which may be cut short or never start; the file outlives the process and is shared by the host's workers | a lease belongs to a request, every request ends, a drained worker comes to rest |
| **Prefix cache** `worker/app/cache.py` | entries with time stamps | `get`, `put`, both purge | endpoint | longest prefix, expiry, eviction at the limit | answers whole and fresh, bounded, the latest entry stays |
| **Hedge budget** `internal/hedge` | window of samples | `Observe`, `Value` | forwarder | percentile arithmetic | the percentile it is named for, of the latest samples |
| **Chaos controller** `chaosd/internal`, `cmd/chaos` | the fault store of each process; in Toxiproxy toxics and disabled proxies | inject, heal, reset; experiments and game days, which string them together | Toxiproxy, the gateway's `/readyz`, workers | requests that fail before or after they took effect, unchecked resets, a store per process | a run leaves no fault, rounds are independent, the store names what is injected |
| **Chaos reporter** `chaosd/internal/reporter` | - | `Generate` | Prometheus | takes rises of the version for stages of a death | the stages come one by one |
| Metrics, tracing, inference engines, placement, serve application, eval, load tests | - | - | - | - | out of scope: counters nobody reads back, data, declarative configuration, scripts |

`PROJECT.json` lists the hazards of this code line by line with the property
that covers each.

## 2. The modules

| Module | Models | State and actions against the code |
|---|---|---|
| `Fleet` | worker ids | constants shared by all |
| `Limiter` | `limiter.go` | `caps`, `inflight`; one operator per method, each one critical section |
| `Breaker` | `breaker.go` | `circuit`, `failures`; the clock is only `cooled`, the outcome of the one comparison `Allow` makes |
| `Forwarder` | `proxy.go`, `hedge.go` with the two above | `pc[r]` is where `Serve` is for request r; `call[c]` is where the goroutine of call c is, a call being (request, attempt, side); `cleaners` are the goroutines `RaceWithCleanup` leaves behind; `stopped` the cancelled contexts |
| `ClientView` | nothing in the code: what a client may rely on | waiting, body, closed; tries; one answer |
| `ForwarderProofs`, `RouterProofs`, `SchedulerProofs`, `WorkerAppProofs`, `SupervisorProofs`, `ChaosProofs` | theorems about the module each is named after (section 5) | - |
| `Router` | `router.go` | `Worker` structs are values of their own, because a request may hold one that `Update` has dropped; `pc[c]` steps through `PickForKey` |
| `Registry` | `registry.py` | one operator per method of the actor |
| `Supervisor` | `supervisor.py`, `actors.py`, the poller of `main.go`, with `Registry` | a poll is a thread of the supervisor's server; a step goes from one remote call to the next; times are ages in ticks |
| `Scheduler` | `scheduler.py` | a ticket is named by its caller; an idle turn of the polling loop is a stuttering step |
| `ClusterView` | nothing in the code: what the gateway may rely on | a membership that changes one worker per version, and a reader that sees some of the versions in their order |
| `Drain` | `drain.py` | `draining`, `file`; the operators have the functions' names. Another worker of the host may switch the file, and a new process finds it as it is |
| `PrefixCache` | `cache.py` | `store` in the order of the stamps; time is `expired`, how many entries at the front are too old |
| `WorkerApp` | `main.py` of the worker, with `Scheduler`, `PrefixCache`, `Drain` | a caller of the scheduler is the handler of a request; `phase` is where the request is, `given` what its body gives |
| `Budget` | the budget of `hedge.go` | one operator per method |
| `Reporter` | `versionEvents` and the durations of `reporter.go` | operators |
| `Chaos` | `faults.go`, `experiment.go`, `gameday.go`, `client.go`, `main.go` of `chaosd` | a run is a process, `pc` where it is in its loop; `toxics` and `disabled` are Toxiproxy's and outlive it; `faults` is the run's store; the readiness check may go either way |
| `MCForwarder`, `MCRouter`, `MCSupervisor`, `MCScheduler`, `MCWorkerApp`, `MCChaos` | instances for TLC | sets of model values, views, symmetry; `MCForwarder` also checks `Budget` and `MCSupervisor` `Reporter`, by assumptions TLC evaluates |

Operators preceded by a comment "A bug of X" are faulty variants of X. They are
not part of any specification: they are kept to show, by putting one in X's
place, that each property does catch the bug it is there for (`mutants` in
`PROJECT.json`).

Abstractions worth knowing:

* **Forwarder.** The pool is used through what `proxy.go` needs of it: it
  returns some ready worker, or nil. `Router`'s `AnswersInTime` is what
  justifies this. The ready set changes at any time within `ReadySets`. A worker
  reply is a first token, an error or a timeout; frames after the first are
  "some chunk was sent" and "the stream ended". The hedge budget decides only
  when the timer fires, which is left open. The branches for a nil limiter, a
  nil hedge budget and a budget of zero, which `main.go` never uses, are left
  out. A failed dial counts as a step that may also be a timeout, because Go's
  errors say so in ways that depend on the network.
* **Breaker.** The failure count saturates at the threshold: nothing reads more.
* **Router.** `score` and the latency averages only weigh the draw, and two
  random draws may both be any ready worker. The read of `State` outside the
  lock races with `Update`; a torn string compares unequal to `"ready"`, so the
  race has no outcome that reading before or after does not have.
* **Supervisor.** Within a step the thread's assignments to the shared dicts are
  atomic; the effect of a remote call on the registry and the assignments that
  follow it are one step, which loses no behaviour because they touch
  different state. Ray's own restarts of an actor leave it without a process,
  so it answers "not alive", as a dead one. Whether the process of an actor
  that is killed or dies goes with it depends on Ray and on how the actor ends,
  so it may or may not (`ChildrenOutlive`); one that stays holds its port, and a
  process started for that worker ends once it finds that out. The
  port goes to the process that was started first. `pool.Update` and the store of the version
  are one step: only the metrics read the version.
* **Scheduler.** Every wait is timed, so events only speed things up and are
  left out; `QueueFullError` at entry changes nothing.
* **Worker endpoint.** What a request asks for is chosen when its body reads it,
  which is the first time it matters. A body's tokens are abstracted to how many
  there are: a body begins, ends, or is cut short by its client or the engine.
  That a body may never start is Starlette's doing, when the client has gone
  before; the lease is then lost (`NeverStarts`), for no other code releases it.
  `FastAPI` runs handlers in 40 threads, so a queue of 64 is never full for a
  worker as configured; with a smaller capacity it is, and the model has
  that. A process that dies is started again in one step, since nothing of it is
  left but the drain file. Entries of the cache complete their keys; the
  trailing blank of a last token, which depends on the limit it was made for, is
  left out. Errors on the drain file go unnoticed in the code and here.
* **Budget.** Times are positive integers, and the window of 4096 and 2048
  samples is a parameter.
* **Chaos.** Toxiproxy is external: that it refuses a second toxic of a name
  and that a reset removes everything is its own documented interface. A killed
  worker leaves nothing behind here, since the supervisor respawns it. A failed request
  may have taken effect or not. Proxies exist already (`chaos init`).
  `Plan` is deterministic in its seed; the model takes every plan. Operators heal
  and reset at any time and inject by hand between runs.

## 3. What the runs check

Each passing run is exhaustive within its bounds. The runs of `MCForwarder` also
check that the hedge budget is a 95th percentile, the longest sample
of up to twenty, and that its window is the latest samples; those of
`MCSupervisor` that the report's stages are the first three records of the version,
so that what it calls the return of a worker is the start of the new actor.

| Run | Instance | Properties |
|---|---|---|
| `forwarder_one` | one request, two workers, any ready set at any time, cap 1, threshold 1 | `TypeOK`; `OrphansOnlyOfGoneClients`: a call nobody waits for belongs to a client that left; `RelayUndisturbed`: the stream relayed is one call of this attempt, not stopped and not cleaned; `AdmissionBounded`: connections per worker at most the limiter's maximum; `ClientViewKept`: refinement of `ClientView` |
| `forwarder_two` | two requests, two workers, caps 1 to 2, threshold 2, no second attempt | `SlotAccounting`: the limiter's count is exactly the calls that hold a slot; `NoLockout`; `BreakerTracksFailures` |
| `forwarder_live` | one request, two workers, fair | `EveryClientAnswered`; `SlotsComeBack`, unless the client left |
| `router` | three concurrent picks, one key, two workers, four structs | `TypeOK`; `AnswersInTime`; `OneWorkerPerSession`; `StickySessions` |
| `scheduler` | five callers, two without a deadline, two leases, four places, fair | `TypeOK`, `LeasesCounted`, `OneTicketEach`, `Bounded`, `AcquireEnds`, `NeverIdle` |
| `membership_overlap` | one worker, two overlapping polls, one fault, processes that find their port taken, versions up to eight | `TypeOK`; `NoWorkerForgotten`; `VersionNamesContents`: a version names one membership; `ClusterViewKept`: refinement of `ClusterView`, so the gateway sees memberships that were, and never goes back |
| `membership` | two workers, polls that do not overlap, one fault, one registry restart, spawns that raise, processes that outlive their actors, fair | `ListedAsKnown`; `DeathByStages`: a worker is listed suspect before it is removed, starting before ready; `SilentBeforeKill`; `Recovers`, but for workers whose port an orphan holds |
| `worker` | three requests, one lease, two places, three prompts of which one begins with another, two entries, fair | `AppTypeOK`; `LeaseHasOwner`: the leases out are those of requests that run, are about to, or never started; `AnswersWhole`; `StoreSound`: bounded, one entry of a prompt, and a wrong answer found by prefix is not stored in turn; `LatestKept`; `AnswersFresh`; `RequestsEnd`; `DrainCompletes`: a worker that stays drained comes to rest |
| `chaos` | runs one after another, each one of four experiments or any game day of three rounds on two workers, two failed requests in each | `TypeOK`; `RunsLeaveNothing`: a run that ends leaves a fault only if its last reset was lost or it is an experiment that could not inject; `RoundsIndependent`; `StoreNamesFaults` |

Bounds, and why they are enough:

* Two workers are as many as one attempt touches; the second attempt chooses
  among the same. One request with two attempts already has four calls and two
  races, so a slot can be contended by one request's own leftovers
  (`AdmissionBounded` fails there with an off-by-one in `TryAcquire`).
  Two requests show every pair of call goroutines of different requests on a
  worker; their second attempts are cut by the constraint `NoRetry`, since a second
  attempt has been checked alone and the theorems of section 5 have no such bound.
* Caps from 1 to 2 make growth, halving, the floor and the ceiling happen;
  thresholds 1 and 2 make a breaker open and reopen.
* `View` in `MCForwarder` leaves out what no later step and no property of those
  runs reads: the target of a call that has ended and is awaited by nobody, and
  the variables of a request that is done. `View` in `MCSupervisor` leaves out
  the history variable and the locals of a poll between two workers. Symmetry
  is only used where no liveness property is checked.
* A tick of the supervisor is one threshold unit (`SuspectThreshold` 0,
  `DeadThreshold` 1): the code compares with `>`, so a worker is suspect after
  one tick without a beat and dead after two. `MaxPoll` bounds how many ticks
  pass while a poll runs. `ClientTimeout` below or above `MaxPoll` makes the
  gateway give polls up or not. `MaxFaults` bounds process deaths and lost
  heartbeats, `MaxRestarts` the registry's restarts. Three actors for two
  workers suffice for polls that do not overlap: a buried actor is free again.
* `Capacity` 4 and five callers fill the queue; two leases make the batch.
* `MaxVersion` is where versions are no longer counted, since a port that is held
  makes the supervisor respawn for ever: eight are enough for two overlapping
  polls to bury and respawn the worker twice and see it ready again. `VersionNamesContents` and
  `ClusterViewKept` speak of versions below it; `membership`, whose properties read no
  version, counts none.
* One lease and two places make a request wait, be refused and time out behind
  another; more leases are `scheduler`'s. Two entries for three prompts make the
  cache evict, a prompt that begins with another makes it answer by prefix, and
  limits of one and two with an engine that stops early on one prompt make entries
  too short to serve.
* Three rounds are a first, a middle and a last one, and two lost requests lose
  both the heal and the reset of a round. The experiments have the shapes of
  the files in `experiments/`: distinct faults, repeated kills, the staircase of
  `slow-burn`, and a name `Run` does not know. `View` in `MCChaos` forgets the plan of a
  run that has ended.
* `CHECK_DEADLOCK FALSE` is set for `Forwarder` only: when every request is
  done and every call has ended the model stops, as an idle gateway does.

## 4. Fairness

* `Forwarder`: weak fairness of each goroutine. A dial ends at `DialTimeout`
  and a read at the deadline `SetDeadline` puts on the connection, so a call or
  a stream cannot last for ever. None for clients, cooldowns or the poller.
* `Scheduler`: threads run, the batch wait and deadlines pass, and leases are
  released because streams end. A caller need not come again.
* `WorkerApp`: the threads of handlers and the event loop run, engines end, and
  waits reach their deadline. None for clients, operators, the cache's time or the process's death.
* `Supervisor`: threads run, time passes, processes that cannot open their port
  end and Ray collects actors. Strong fairness of the gateway's
  asking: its loop never ends and FastAPI's thread pool serves more than the
  one or two polls modelled, so the gateway is not shut out by others for ever.
  `Recovers` is a statement about polls that do not overlap and answer within
  the client's timeout; with overlapping polls it is false (section 6).

## 5. What is proved

Every invariant and every action property of the passing runs, and both refinements,
are theorems, for every value of the constants that satisfies the assumptions named in
the modules. The assumptions say only what the code's configuration has: limits are
integers, positive where a size is meant, the workers are finitely many, and `NoWorker`
and its like are no workers. Each strengthening was first checked by TLC as an
invariant of the run it belongs to.

### The request path (`ForwarderProofs`)

For every set of workers, finite set of requests, limiter
arguments, threshold and family of ready sets.

1. `TypesCorrect`: `TypeOK` is inductive by itself; one lemma for calls and
   cleaners, one for handlers.
2. `BreakersTrackFailures`: inductive given the types.
3. `CallsAlwaysOwned`: the strengthening the next two rest on. `CallsOwned`
   gives every call an owner (not started, awaited by the handler of its
   attempt, relayed, waited for by a cleaner, ended, or of a client that has gone)
   and `StreamOwned` says that a handler in its stream has a call relayed.
   Neither `OrphansOnlyOfGoneClients` nor `RelayUndisturbed` is inductive: that a
   cleaner never has the relayed call needs to know that the race it lost or won
   was of this attempt.
4. `OrphansNeedDeparture` and `RelaysUndisturbed` follow from it.
5. `SlotsAccountedFor`: each step changes `SlotsOf(w)` by the one call it is
   about and `inflight[w]` by one, with the cardinality facts for finite sets;
   `EndStream` releases the winner's slot, which is the relayed call's by 3.
6. `WorkersAdmitted` (`AdmissionBounded`) from 5, with `inflight` never above
   `Ceiling`; `NoWorkerLockedOut` (`NoLockout`) from 5, with a cap that is never below
   the floor, which is one or more.
7. `ClientViewImplemented`: each step of `Forwarder` is a step of `ClientView`
   or a stutter under the mapping `ClientPhase`, `ClientTries`, `response`. The
   invariant needed says which responses go with which phase and that nothing has
   been sent while an attempt is being started or raced.

### The pool (`RouterProofs`)

For any workers, structs, callers and keys.

1. `RouterTypes`: `PickForKey` dereferences no nil. `Update` is the hard step: it hands
   structs out afresh, and none that a call still has in hand may go to another id
   (`UpdateStructs`).
2. `PicksAnswerInTime`. `AnswersInTime` speaks of calls that have returned, so it is
   not inductive. `TimeInv` says what a call may still answer: what the pool could answer
   now it has seen, and the worker it has drawn too; and a struct it has in hand, which may
   have been dropped meanwhile, is ready only if its worker was at some time of the call.
3. `SessionsAlwaysOnOneWorker`. Between two updates, `SessionInv` says that the
   workers a session has been given are none if nobody is ready, and else the one that
   its affinity names (`GivenAsNow`), and that a call that began in the period has the
   worker of its session in hand, or one that is ready (`Undisturbed`). The race of two
   calls that both found no affinity is the step `Settle`: the second finds the first's affinity, which is ready, and takes it
   (`SettleKeepsReady`).
4. `SessionsStick`: the same lemma, as an action property.

### The scheduler (`SchedulerProofs`)

`SchedulerInv` is `TypeOK`, `TicketsInv` (no ticket is twice in the queue,
nobody both waits and holds a lease), the count of the leases, and `Bounded`.
That a ticket is in the queue once is what makes `Leave`, which removes the first it
finds, remove the right one; that leases are counted exactly is what keeps a release from
taking the count below zero. `SchedulerTypes`, `LeasesAlwaysCounted`,
`TicketsNeverLost` and `SchedulerBounded` follow. The lemmas about sequences without
duplicates (`DistinctCardinality`, `AppendDistinct`, `RemoveDistinct`) serve the
cache too.

### The worker process (`WorkerAppProofs`)

For any requests, prompts, limits and any engine. The lemmas of `SchedulerProofs` say
what each step of the scheduler does to leases and waiters, so that a step of the
endpoint has only to move its request along. `AppInv` adds to `SchedulerInv`:

* `OwnersInv`: the leases out are those of the requests in a phase that has one, which
  `LeasesAlwaysOwned` is read off from;
* `StoreInv`: entries have no more tokens than the engine gives for their prompt
  (`Honest`) and each prompt has one. For `StoreAlwaysSound` this must hold through
  purge, removal of the same prompt, append and eviction, which `PurgedSound`,
  `WithoutSound` and `PutKeeps` show in turn;
* `BodyInv`: a body that runs knows what it gives and, if it asked the engine, that what it
  will store is of its own prompt. Without it `EndBody` could store anything.
  `AnswersAlwaysWhole` follows.

`LatestAlwaysKept` and `AnswersAlwaysFresh` are action properties: the
evicted entry is never the one just appended, since a cache has room for one at least, and what is found is
found after the purge.

### The control plane (`SupervisorProofs`)

For any number of workers, polls, actors and any thresholds and bounds.

1. `MembershipTypes`, with overlapping polls, faults and restarts.
2. `NoWorkerEverForgotten`, with overlapping polls, under `SpawnMayFail = FALSE`: with
   spawns that raise it is false, which is the run `lost_spawn`. It is inductive given the
   types.
3. `VersionsNameContents`. `VersionInv` extends it to the answers that are under way:
   none is newer than the registry, one of the registry's version has its
   membership, and the one the gateway waits for is not older than what the gateway has. The
   last is why the gateway never goes back: it has one question out at a time, and
   an answer it gave up is not installed.
4. `ClusterViewImplemented`: with `VersionInv`, each step is a step of `ClusterView` or a
   stutter, the answers under way being a set: the answer of one poll may equal
   that of another, so that giving one up may leave the set alone.
5. `RegistryListsWhatIsKnown`, `DeathAlwaysByStages` and `KilledOnlyIfSilent` are
   proved of behaviours in which polls do not overlap: `Spec /\ []NoOverlap`, where
   `NoOverlap` says that at most one poll is not idle. The hypothesis is about the
   environment (who asks, and when), and it is needed: `overlap_diverges` is what
   happens without it. The gateway alone satisfies it as long as a poll ends within its
   timeout of 3s. Any number of threads may serve the polls, one after another, and
   spawns may raise and actors die. `OneByOneInv` has three parts. `VisitInv`: what the
   poll has yet to visit is as it is in the dict. `SilenceInv`: a worker's stamp is at
   most the length of a poll older than its silence, unless its beat has been answered
   and not noted yet, and who is about to be killed has been silent; since a poll stamps
   with the time of its start, this is where the slack of `SilentBeforeKill` comes from.
   `KnownInv`: a listing and a state differ only at the worker the poll is at, in a way
   that each step of the poll determines (`Stage`). It holds until the registry
   restarts, and the other two hold through restarts.

The guards `restarts = 0` and `version < MaxVersion` are in the properties themselves:
what the registry promised does not survive its restart (section 6), and `MaxVersion` is a
constant, so a theorem for every value of it bounds nothing.

### The chaos controller (`ChaosProofs`)

For any plans, workers and number of lost requests. `ChaosTypes` needs that a run that
has not ended is at a step of its plan. `RunsAlwaysLeaveNothing`,
`RoundsAlwaysIndependent` and `StoreAlwaysNamesFaults` are inductive given the types: each says
what a state of the run's program counter implies about Toxiproxy, and each step
of the run is shown to bring it about.

### What stays with TLC

* Liveness under fairness: `EveryClientAnswered`, `SlotsComeBack`, `AcquireEnds`,
  `NeverIdle`, `RequestsEnd`, `DrainCompletes`, `Recovers`. The prover does not reason about
  `ENABLED`, which fairness is made of.
* The three runs of section 6, which refute.
* The percentile of the hedge budget and the rises of the report, which are
  assumptions of `MCForwarder` and `MCSupervisor` that TLC evaluates on bounded inputs:
  for all inputs they need induction over data.

## 6. Where the code and its documents disagree

Each is a run that TLC ends with a counterexample.

* `slot_leak` (`hedge.go:162`): the client leaves during the race, nobody waits
  for the calls, and one that still gets its first token keeps its slot. The
  runbook's remedy, less load, does not give it back.
* `lost_spawn` (`supervisor.py:148`): if starting the new actor raises, the
  worker's handle is gone already and no later poll looks for it.
* `overlap_diverges` (`supervisor.py:117`): two polls change `states` in one
  order and tell the registry in the other; nothing reports the state again and
  a healthy worker stays listed as starting.

Not runs, but seen while modelling:

* An experiment whose injection fails returns without a reset
  (`experiment.go:55`), against "calls /reset on abort"
  (`docs/chaos-experiments.md:9`), and `slow-burn.json` always does, because its
  second step adds a toxic of the same name to the same proxy
  (`RunsLeaveNothing` excepts such experiments).
* A second turn of a conversation begins with the prompt of the first and is
  answered from the cache with the first turn's answer (`cache.py:35`), though
  the sim engine's tokens are to derive from the prompt.
* A drained worker that is restarted refuses requests until its drain file is
  removed, and so do its siblings on the host (`drain.py:9`), which nobody tells
  the supervisor.
* A process that outlives its actor keeps the port, and every process the
  supervisor starts for the worker ends at once (`supervisor.py:145`).
* The return a report gives, "MTTR (dead-to-ready)", is the start of the new
  actor (`reporter.go:129`).
* `Worker.inflight` of the pool is never incremented, so the score is the
  latency average alone (`router.go:15`, against the "atomic inflight counters"
  of `docs/architecture.md`).
* Until twenty samples have come the hedge budget is the longest of them
  (`hedge.go:47`).
* The breaker of the primary records a failure whenever the race returns an
  error, be it the client's departure or the secondary's (`proxy.go:215`).
* The registry actor restarts empty and at version 0, so the "monotonic" version
  goes back and ready workers are not listed again (`registry.py:11`).
* `chaos serve` counts only its own process's faults, so `chaos_fault_active`
  shows none of an experiment's (`chaosd/cmd/chaos/main.go:143`).
* The late success of a call admitted before a breaker opened closes it without
  a cooldown (`breaker.go:59`).
* The admission cap is per worker, so the gateway as a whole may have several
  times 256 in flight (`limiter.go:36`).
* A heartbeat is stamped with the time its poll began (`supervisor.py:116`), so
  a slow poll shortens the time a worker has.

## 7. Plan

Done: the request path, the pool, the membership protocol with the
view it gives the gateway, the scheduler, the worker's endpoint and cache, the chaos
controller, the hedge budget, and proofs of all their safety properties. Next, most
important first:

1. Abstract specifications of the pool (a session store that answers in one step) and of
   the worker process (requests that get one whole answer or a refusal), and proofs
   that `Router` and `WorkerApp` implement them.
2. What survives overlapping polls of the properties that need `NoOverlap`: how far the
   registry may fall behind, and how long an actor has been silent when two polls judge it.
3. The pool's scores, if they come to matter: `score` reads an inflight count that
   nothing changes.

Not modelled: the counters and their formatting (`middleware`, `metrics.py`), tracing
and configuration, which no other part reads back; the inference engines, which are
data; placement and the serve application, which are declarative Ray configuration;
`/debug/stress`, whose effect is memory pressure; the evaluation and load scripts, which
drive the system from outside.
