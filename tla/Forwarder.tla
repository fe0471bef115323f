----------------------------- MODULE Forwarder -----------------------------
(***************************************************************************)
(* The request path of the gateway: Forwarder.Serve (package proxy), the   *)
(* hedged race it runs its worker calls in (hedge.RaceWithCleanup), and    *)
(* the limiter and breakers they share.                                    *)
(*                                                                         *)
(* A request is an HTTP handler goroutine.  It makes at most MaxAttempts   *)
(* attempts; each starts a primary call to a worker and, if that has not   *)
(* produced a first token within the hedge budget, a secondary call to     *)
(* another worker.  A call is a goroutine of its own that may outlive the  *)
(* attempt, and even the request, that started it; a race that ends with   *)
(* one call still out starts a cleaner goroutine that waits for that call. *)
(*                                                                         *)
(* Every critical section (of the pool, the limiter, a breaker) and every  *)
(* channel receive is a step of its own.  The pool is used only through    *)
(* the interface proxy.go declares: it returns some ready worker.  Worker  *)
(* replies are the ones the gateway can tell apart: a first token, an      *)
(* error, a timeout.                                                       *)
(***************************************************************************)
EXTENDS Limiter, Breaker, FiniteSets

CONSTANTS
  Requests,      \* requests the clients send
  ReadySets      \* sets of ready workers the registry may report

ASSUME ForwarderAssumption ==
  /\ IsFiniteSet(Requests)
  /\ ReadySets \subseteq SUBSET Workers
  /\ ReadySets # {}

MaxAttempts == 2

Sides == {"primary", "secondary"}
Calls == Requests \X (0 .. MaxAttempts - 1) \X Sides

VARIABLES
  ready,         \* the pool: its ready workers
  pc,            \* where the handler of each request is
  attempt,       \* Serve's loop counter
  prev,          \* prevID: the primary worker of the last attempt
  streams,       \* req.Stream
  sent,          \* headerSent: the response has begun
  gone,          \* the client has gone: r.Context() is cancelled
  verdict,       \* outcome of the relayed stream, while Serve acts on it
  winner,        \* winner.worker, while Serve uses it
  response,      \* how the request ended
  call,          \* where the goroutine of each call is
  target,        \* the worker a call is made to
  stopped,       \* calls whose own context was cancelled by the race
  cleaners       \* calls a cleaner goroutine waits for

handlerVars == <<pc, attempt, prev, streams, sent, gone, verdict, winner, response>>
callVars == <<call, target, stopped, cleaners>>
vars == <<ready, handlerVars, callVars, limiterVars, breakerVars>>

RequestOf(c) == c[1]
AttemptOf(c) == c[2]
Primary(r)   == <<r, attempt[r], "primary">>
Secondary(r) == <<r, attempt[r], "secondary">>
Sibling(c)   == <<c[1], c[2], IF c[3] = "primary" THEN "secondary" ELSE "primary">>

\* The calls whose result the handler of r is waiting for.
Awaited(r) ==
  CASE pc[r] = "race"   -> {Primary(r)}
    [] pc[r] = "hedged" -> {Primary(r), Secondary(r)}
    [] OTHER            -> {}

\* The call has put its result in its channel.
Returned(c) == call[c] \in {"ok", "busy", "nohedge", "failed"}

\* The call has taken a limiter slot that nobody has given back.
HoldsSlot(c) == call[c] \in {"dial", "read", "ok", "relayed"}

\* The context a call runs under is cancelled: by the race, by the client, or
\* because the handler has returned.
Cancelled(c) ==
  c \in stopped \/ gone[RequestOf(c)] \/ pc[RequestOf(c)] = "done"

Init ==
  /\ ready = {}
  /\ pc = [r \in Requests |-> "idle"]
  /\ attempt = [r \in Requests |-> 0]
  /\ prev = [r \in Requests |-> NoWorker]
  /\ streams = [r \in Requests |-> FALSE]
  /\ sent = [r \in Requests |-> FALSE]
  /\ gone = [r \in Requests |-> FALSE]
  /\ verdict = [r \in Requests |-> "none"]
  /\ winner = [r \in Requests |-> NoWorker]
  /\ response = [r \in Requests |-> "none"]
  /\ call = [c \in Calls |-> "none"]
  /\ target = [c \in Calls |-> NoWorker]
  /\ stopped = {}
  /\ cleaners = {}
  /\ LimiterInit
  /\ BreakerInit

-----------------------------------------------------------------------------
(* The handler, up to the race.                                            *)

\* The pool's answers: PickForKey returns a ready worker, PickExcept one other
\* than the excluded; both return nil when there is none.
PickForKey == IF ready = {} THEN {NoWorker} ELSE ready
PickExcept(w) == IF ready \subseteq {w} THEN {NoWorker} ELSE ready \ {w}

Finish(r, answer) ==
  /\ pc' = [pc EXCEPT ![r] = "done"]
  /\ response' = [response EXCEPT ![r] = answer]

\* The body is decoded; one that does not parse is answered 400.
Begin(r) ==
  /\ pc[r] = "idle"
  /\ \/ /\ pc' = [pc EXCEPT ![r] = "pick"]
        /\ \E s \in BOOLEAN : streams' = [streams EXCEPT ![r] = s]
        /\ UNCHANGED response
     \/ /\ Finish(r, "400")
        /\ UNCHANGED streams
  /\ UNCHANGED <<ready, attempt, prev, sent, gone, verdict, winner,
                 callVars, limiterVars, breakerVars>>

\* Bugs of NextAttempt: the loop bound off by one; the counter not advanced.
NextAttemptOnceMore(r) ==
  IF attempt[r] + 1 <= MaxAttempts
    THEN /\ attempt' = [attempt EXCEPT ![r] = @ + 1]
         /\ pc' = [pc EXCEPT ![r] = "pick"]
         /\ UNCHANGED response
    ELSE /\ Finish(r, "502")
         /\ UNCHANGED attempt
NextAttemptForever(r) ==
  /\ pc' = [pc EXCEPT ![r] = "pick"]
  /\ UNCHANGED <<attempt, response>>

\* The end of the loop body: the next attempt, or the 502 after the loop.
NextAttempt(r) ==
  IF attempt[r] + 1 < MaxAttempts
    THEN /\ attempt' = [attempt EXCEPT ![r] = @ + 1]
         /\ pc' = [pc EXCEPT ![r] = "pick"]
         /\ UNCHANGED response
    ELSE /\ Finish(r, "502")
         /\ UNCHANGED attempt

\* A retry looks for a worker other than the last primary, and for any worker
\* only after that: the pool may have changed in between.
NoOther(r) ==
  /\ pc[r] = "pick"
  /\ attempt[r] > 0
  /\ PickExcept(prev[r]) = {NoWorker}
  /\ pc' = [pc EXCEPT ![r] = "repick"]
  /\ UNCHANGED <<ready, attempt, prev, streams, sent, gone, verdict, winner, response,
                 callVars, limiterVars, breakerVars>>

\* The workers Serve may now choose as primary.
Candidates(r) ==
  IF attempt[r] = 0 \/ pc[r] = "repick"
    THEN PickForKey ELSE PickExcept(prev[r]) \ {NoWorker}

Pick(r) ==
  /\ pc[r] \in {"pick", "repick"}
  /\ \E w \in Candidates(r) :
       IF w = NoWorker
         THEN /\ Finish(r, "503")
              /\ UNCHANGED prev
         ELSE /\ prev' = [prev EXCEPT ![r] = w]
              /\ pc' = [pc EXCEPT ![r] = "allow"]
              /\ UNCHANGED response
  /\ UNCHANGED <<ready, attempt, streams, sent, gone, verdict, winner,
                 callVars, limiterVars, breakerVars>>

\* The breaker refuses the worker: the attempt is spent.
Refused(r) ==
  /\ pc[r] = "allow"
  /\ ~Permits(prev[r])
  /\ NextAttempt(r)
  /\ UNCHANGED <<ready, prev, streams, sent, gone, verdict, winner,
                 callVars, limiterVars, breakerVars>>

\* The breaker lets the worker be called; the race starts the primary call.
StartRace(r) ==
  /\ pc[r] = "allow"
  /\ Allow(prev[r])
  /\ pc' = [pc EXCEPT ![r] = "race"]
  /\ call' = [call EXCEPT ![Primary(r)] = "start"]
  /\ target' = [target EXCEPT ![Primary(r)] = prev[r]]
  /\ UNCHANGED <<ready, attempt, prev, streams, sent, gone, verdict, winner, response,
                 stopped, cleaners, limiterVars>>

\* The hedge budget expires first.
TimerFires(r) ==
  /\ pc[r] = "race"
  /\ pc' = [pc EXCEPT ![r] = "hedged"]
  /\ call' = [call EXCEPT ![Secondary(r)] = "hedge"]
  /\ UNCHANGED <<ready, attempt, prev, streams, sent, gone, verdict, winner, response,
                 target, stopped, cleaners, limiterVars, breakerVars>>

-----------------------------------------------------------------------------
(* A call.                                                                 *)

\* The secondary call looks for a worker other than its attempt's primary.
HedgePick(c) ==
  /\ call[c] = "hedge"
  /\ \E w \in PickExcept(target[Sibling(c)]) :
       IF w = NoWorker
         THEN /\ call' = [call EXCEPT ![c] = "nohedge"]
              /\ UNCHANGED target
         ELSE /\ call' = [call EXCEPT ![c] = "gate"]
              /\ target' = [target EXCEPT ![c] = w]
  /\ UNCHANGED <<ready, handlerVars, stopped, cleaners, limiterVars, breakerVars>>

\* It asks that worker's breaker.
HedgeAllow(c) ==
  /\ call[c] = "gate"
  /\ IF Permits(target[c])
       THEN /\ Allow(target[c])
            /\ call' = [call EXCEPT ![c] = "start"]
       ELSE /\ call' = [call EXCEPT ![c] = "nohedge"]
            /\ UNCHANGED breakerVars
  /\ UNCHANGED <<ready, handlerVars, target, stopped, cleaners, limiterVars>>

\* TryAcquire.
TakeSlot(c) ==
  /\ call[c] = "start"
  /\ IF HasSlot(target[c])
       THEN /\ Acquire(target[c])
            /\ call' = [call EXCEPT ![c] = "dial"]
       ELSE /\ call' = [call EXCEPT ![c] = "busy"]
            /\ UNCHANGED limiterVars
  /\ UNCHANGED <<ready, handlerVars, target, stopped, cleaners, breakerVars>>

\* DialContext connects: impossible once the context is cancelled.
Dial(c) ==
  /\ call[c] = "dial"
  /\ ~Cancelled(c)
  /\ call' = [call EXCEPT ![c] = "read"]
  /\ UNCHANGED <<ready, handlerVars, target, stopped, cleaners, limiterVars, breakerVars>>

\* The first data line is read.  The connection of a cancelled call is closed
\* by another goroutine, so the line may still arrive.
FirstToken(c) ==
  /\ call[c] = "read"
  /\ call' = [call EXCEPT ![c] = "ok"]
  /\ UNCHANGED <<ready, handlerVars, target, stopped, cleaners, limiterVars, breakerVars>>

\* dialFirstToken fails: the slot is released, and a timeout is still to be
\* told to the limiter.
CallFails(c) ==
  /\ call[c] \in {"dial", "read"}
  /\ Release(target[c])
  /\ \E how \in {"timeout", "failed"} : call' = [call EXCEPT ![c] = how]
  /\ UNCHANGED <<ready, handlerVars, target, stopped, cleaners, breakerVars>>

CallTimedOut(c) ==
  /\ call[c] = "timeout"
  /\ OnTimeout(target[c])
  /\ call' = [call EXCEPT ![c] = "failed"]
  /\ UNCHANGED <<ready, handlerVars, target, stopped, cleaners, breakerVars>>

-----------------------------------------------------------------------------
(* The race.                                                               *)

\* Bugs of EndRace: nobody waits for the other call; the winner is cancelled.
EndRaceWithoutCleaner(r, c) ==
  IF pc[r] = "hedged"
    THEN /\ stopped' = stopped \cup {Sibling(c)}
         /\ UNCHANGED cleaners
    ELSE UNCHANGED <<stopped, cleaners>>
EndRaceStopsWinner(r, c) ==
  IF pc[r] = "hedged"
    THEN /\ stopped' = stopped \cup {c}
         /\ cleaners' = cleaners \cup {Sibling(c)}
    ELSE UNCHANGED <<stopped, cleaners>>

\* The race returns the result of c: if there is a second call, its context
\* is cancelled and a cleaner waits for it.
EndRace(r, c) ==
  IF pc[r] = "hedged"
    THEN /\ stopped' = stopped \cup {Sibling(c)}
         /\ cleaners' = cleaners \cup {Sibling(c)}
    ELSE UNCHANGED <<stopped, cleaners>>

\* The first result is a first token: Serve relays that call's stream.
Win(r, c) ==
  /\ c \in Awaited(r)
  /\ call[c] = "ok"
  /\ EndRace(r, c)
  /\ call' = [call EXCEPT ![c] = "relayed"]
  /\ winner' = [winner EXCEPT ![r] = target[c]]
  /\ pc' = [pc EXCEPT ![r] = "stream"]
  /\ UNCHANGED <<ready, attempt, prev, streams, sent, gone, verdict, response,
                 target, limiterVars, breakerVars>>

\* The first result is errBusy: 429, and no breaker hears of it.
Overloaded(r, c) ==
  /\ c \in Awaited(r)
  /\ call[c] = "busy"
  /\ EndRace(r, c)
  /\ Finish(r, "429")
  /\ UNCHANGED <<ready, attempt, prev, streams, sent, gone, verdict, winner,
                 call, target, limiterVars, breakerVars>>

\* The first result is another error, of either call: the primary's breaker
\* records a failure, and Serve tries again unless the client has gone.
Lose(r, c) ==
  /\ c \in Awaited(r)
  /\ call[c] \in {"failed", "nohedge"}
  /\ EndRace(r, c)
  /\ RecordFailure(prev[r])
  /\ IF gone[r] THEN Finish(r, "gone") /\ UNCHANGED attempt ELSE NextAttempt(r)
  /\ UNCHANGED <<ready, prev, streams, sent, gone, verdict, winner,
                 call, target, limiterVars>>

\* The race sees the client go first: both calls are cancelled, and nobody
\* waits for them.
Abandon(r) ==
  /\ pc[r] \in {"race", "hedged"}
  /\ gone[r]
  /\ stopped' = stopped \cup Awaited(r)
  /\ RecordFailure(prev[r])
  /\ Finish(r, "gone")
  /\ UNCHANGED <<ready, attempt, prev, streams, sent, gone, verdict, winner,
                 call, target, cleaners, limiterVars>>

\* Bugs of Reap: a slot released for a call that has already released its own;
\* a slot never released.
ReapReleasesAll(c) ==
  /\ c \in cleaners
  /\ Returned(c)
  /\ cleaners' = cleaners \ {c}
  /\ IF target[c] # NoWorker
       THEN /\ Release(target[c])
            /\ call' = [call EXCEPT ![c] = "closed"]
       ELSE UNCHANGED <<call, limiterVars>>
  /\ UNCHANGED <<ready, handlerVars, target, stopped, breakerVars>>
ReapReleasesNone(c) ==
  /\ c \in cleaners
  /\ Returned(c)
  /\ cleaners' = cleaners \ {c}
  /\ UNCHANGED <<ready, handlerVars, call, target, stopped, limiterVars, breakerVars>>

\* A cleaner receives the result it waits for; it closes the connection of a
\* call that succeeded and releases its slot.
Reap(c) ==
  /\ c \in cleaners
  /\ Returned(c)
  /\ cleaners' = cleaners \ {c}
  /\ IF call[c] = "ok"
       THEN /\ Release(target[c])
            /\ call' = [call EXCEPT ![c] = "closed"]
       ELSE UNCHANGED <<call, limiterVars>>
  /\ UNCHANGED <<ready, handlerVars, target, stopped, breakerVars>>

-----------------------------------------------------------------------------
(* The handler, once the first token has arrived.                          *)

\* The first chunk of a streaming response: from here the status is 200.
SendChunk(r) ==
  /\ pc[r] = "stream"
  /\ streams[r]
  /\ ~sent[r]
  /\ sent' = [sent EXCEPT ![r] = TRUE]
  /\ UNCHANGED <<ready, pc, attempt, prev, streams, gone, verdict, winner, response,
                 callVars, limiterVars, breakerVars>>

\* streamFromFirstToken returns: "ok" when [DONE] was relayed (a response that
\* is not streamed begins only then), an error when the worker's connection
\* broke or the client has gone, a timeout at the connection's deadline.  The
\* connection is closed and the slot released.
EndStream(r) ==
  /\ pc[r] = "stream"
  /\ \E c \in Calls, v \in {"ok", "timeout", "error"} :
       /\ RequestOf(c) = r
       /\ call[c] = "relayed"
       /\ call' = [call EXCEPT ![c] = IF v = "ok" THEN "closed" ELSE "broken"]
       /\ verdict' = [verdict EXCEPT ![r] = v]
       /\ sent' = [sent EXCEPT ![r] = @ \/ v = "ok"]
  /\ Release(winner[r])
  /\ pc' = [pc EXCEPT ![r] = "adjust"]
  /\ UNCHANGED <<ready, attempt, prev, streams, gone, winner, response,
                 target, stopped, cleaners, breakerVars>>

AdjustCap(r) ==
  /\ pc[r] = "adjust"
  /\ CASE verdict[r] = "ok"      -> OnSuccess(winner[r])
       [] verdict[r] = "timeout" -> OnTimeout(winner[r])
       [] OTHER                  -> UNCHANGED limiterVars
  /\ pc' = [pc EXCEPT ![r] = "record"]
  /\ UNCHANGED <<ready, attempt, prev, streams, sent, gone, verdict, winner, response,
                 callVars, breakerVars>>

\* A bug of Conclude: whatever was sent, a failed stream is tried again.
ConcludeIgnoresSent(r) ==
  /\ pc[r] = "record"
  /\ IF verdict[r] = "ok" THEN RecordSuccess(winner[r]) ELSE RecordFailure(winner[r])
  /\ IF verdict[r] = "ok"
       THEN Finish(r, "200") /\ UNCHANGED attempt
       ELSE NextAttempt(r)
  /\ verdict' = [verdict EXCEPT ![r] = "none"]
  /\ winner' = [winner EXCEPT ![r] = NoWorker]
  /\ UNCHANGED <<ready, prev, streams, sent, gone, callVars, limiterVars>>

\* The winner's breaker hears the outcome; Serve tries again only if nothing
\* was sent, whether or not the client is still there.
Conclude(r) ==
  /\ pc[r] = "record"
  /\ IF verdict[r] = "ok" THEN RecordSuccess(winner[r]) ELSE RecordFailure(winner[r])
  /\ \/ /\ sent[r]
        /\ Finish(r, IF verdict[r] = "ok" THEN "200" ELSE "truncated")
        /\ UNCHANGED attempt
     \/ /\ ~sent[r]
        /\ NextAttempt(r)
  /\ verdict' = [verdict EXCEPT ![r] = "none"]
  /\ winner' = [winner EXCEPT ![r] = NoWorker]
  /\ UNCHANGED <<ready, prev, streams, sent, gone, callVars, limiterVars>>

-----------------------------------------------------------------------------
(* The environment.                                                        *)

ClientLeaves(r) ==
  /\ pc[r] \notin {"idle", "done"}
  /\ ~gone[r]
  /\ gone' = [gone EXCEPT ![r] = TRUE]
  /\ UNCHANGED <<ready, pc, attempt, prev, streams, sent, verdict, winner, response,
                 callVars, limiterVars, breakerVars>>

\* The poller installs the registry's latest snapshot.
PoolUpdate ==
  /\ ready' \in ReadySets \ {ready}
  /\ UNCHANGED <<handlerVars, callVars, limiterVars, breakerVars>>

Cooldown(w) ==
  /\ CooldownElapses(w)
  /\ UNCHANGED <<ready, handlerVars, callVars, limiterVars>>

-----------------------------------------------------------------------------
\* What the goroutine of a request does of its own accord.
ServeStep(r) ==
  \/ NoOther(r) \/ Pick(r) \/ Refused(r) \/ StartRace(r)
  \/ TimerFires(r) \/ Abandon(r)
  \/ \E c \in Calls : Win(r, c) \/ Overloaded(r, c) \/ Lose(r, c)
  \/ SendChunk(r) \/ EndStream(r) \/ AdjustCap(r) \/ Conclude(r)

CallStep(c) ==
  \/ HedgePick(c) \/ HedgeAllow(c) \/ TakeSlot(c)
  \/ Dial(c) \/ FirstToken(c) \/ CallFails(c) \/ CallTimedOut(c)

Next ==
  \/ \E r \in Requests : Begin(r) \/ ServeStep(r) \/ ClientLeaves(r)
  \/ \E c \in Calls : CallStep(c) \/ Reap(c)
  \/ \E w \in Workers : Cooldown(w)
  \/ PoolUpdate

\* Goroutines are scheduled; a dial ends by its timeout and a read by the
\* connection's deadline, so no call and no stream lasts for ever.
Fairness ==
  /\ \A r \in Requests : WF_vars(ServeStep(r))
  /\ \A c \in Calls : WF_vars(CallStep(c)) /\ WF_vars(Reap(c))

Spec == Init /\ [][Next]_vars
FairSpec == Spec /\ Fairness
-----------------------------------------------------------------------------
HandlerTypeOK ==
  /\ pc \in [Requests -> {"idle", "pick", "repick", "allow", "race", "hedged",
                          "stream", "adjust", "record", "done"}]
  /\ attempt \in [Requests -> 0 .. MaxAttempts - 1]
  /\ prev \in [Requests -> Workers \cup {NoWorker}]
  /\ streams \in [Requests -> BOOLEAN]
  /\ sent \in [Requests -> BOOLEAN]
  /\ gone \in [Requests -> BOOLEAN]
  /\ verdict \in [Requests -> {"none", "ok", "timeout", "error"}]
  /\ winner \in [Requests -> Workers \cup {NoWorker}]
  /\ response \in [Requests -> {"none", "200", "truncated", "400", "429", "502",
                                "503", "gone"}]

CallTypeOK ==
  /\ call \in [Calls -> {"none", "hedge", "gate", "start", "dial", "read", "timeout",
                         "ok", "busy", "nohedge", "failed", "relayed", "closed",
                         "broken"}]
  /\ target \in [Calls -> Workers \cup {NoWorker}]
  /\ stopped \subseteq Calls
  /\ cleaners \subseteq Calls

\* Type invariant: every variable holds a value the code can put there, and
\* Serve never uses the nil worker: it has one whenever it reads its ID, its
\* breaker or its slots.
TypeOK ==
  /\ ready \in SUBSET Workers
  /\ HandlerTypeOK /\ CallTypeOK /\ LimiterTypeOK /\ BreakerTypeOK
  /\ \A r \in Requests :
       /\ pc[r] \in {"allow", "race", "hedged"} => prev[r] \in Workers
       /\ pc[r] \in {"stream", "adjust", "record"} => winner[r] \in Workers
  /\ \A c \in Calls :
       call[c] \in {"gate", "start", "dial", "read", "timeout", "ok", "relayed"}
         => target[c] \in Workers

SlotsOf(w) == {c \in Calls : HoldsSlot(c) /\ target[c] = w}

\* The limiter's count of a worker is the number of calls that hold a slot on
\* it: whatever the order in which calls return, are relayed, lose a race and
\* are cleaned up, no slot is released twice or by a path that did not take it.
SlotAccounting == \A w \in Workers : inflight[w] = Cardinality(SlotsOf(w))

\* A worker never has more connections from the gateway than the limiter's
\* maximum, even while its cap is halved below what it already has in flight.
AdmissionBounded == \A w \in Workers : Cardinality(SlotsOf(w)) <= Ceiling

\* However many timeouts have cut its cap, a worker without a connection can
\* be given one: the limiter never locks a worker out for good.
NoLockout == \A w \in Workers : SlotsOf(w) = {} => HasSlot(w)

\* The call is under way, or has a result that nobody has received.
Outstanding(c) ==
  call[c] \in {"hedge", "gate", "start", "dial", "read", "timeout", "ok"}

\* A call that nobody waits for any more (its race is over and no cleaner has
\* it) belongs to a client that has gone: for every other client each call of
\* each race is received by the handler or by a cleaner.
OrphansOnlyOfGoneClients ==
  \A c \in Calls :
    Outstanding(c) /\ c \notin Awaited(RequestOf(c)) /\ c \notin cleaners
      => gone[RequestOf(c)]

\* While a request relays a stream, exactly one call of it is being relayed,
\* that call is one of the current attempt, and neither the race nor a cleaner
\* has touched its connection.
RelayUndisturbed ==
  \A r \in Requests :
    LET relayed == {c \in Calls : RequestOf(c) = r /\ call[c] = "relayed"}
    IN  IF pc[r] = "stream"
          THEN \E c \in {Primary(r), Secondary(r)} :
                 /\ relayed = {c}
                 /\ winner[r] = target[c]
                 /\ c \notin stopped \cup cleaners
          ELSE relayed = {}

\* A breaker is closed exactly while fewer failures than the threshold have
\* been recorded since the last success, whatever the order in which late
\* results of several requests reach it.
BreakerTracksFailures ==
  \A w \in Workers : circuit[w] = "closed" <=> failures[w] < Threshold

\* A client that asked for a completion and stays is answered, whatever the
\* workers do.
EveryClientAnswered ==
  \A r \in Requests :
    pc[r] = "pick" ~> pc[r] = "done" /\ response[r] # "none"

\* Every slot comes back, unless the client went away during the race.
SlotsComeBack ==
  \A c \in Calls : HoldsSlot(c) ~> ~HoldsSlot(c) \/ gone[RequestOf(c)]

\* Serve keeps what ClientView promises its clients, one retry included.
ClientPhase ==
  [r \in Requests |->
     IF pc[r] = "idle" THEN "idle"
     ELSE IF pc[r] = "done" THEN "closed"
     ELSE IF sent[r] THEN "body" ELSE "waiting"]

ClientTries ==
  [r \in Requests |->
     IF pc[r] = "idle" \/ response[r] = "400" THEN 0 ELSE attempt[r] + 1]

Client == INSTANCE ClientView WITH
  Tries <- MaxAttempts, phase <- ClientPhase, tries <- ClientTries, answer <- response

\* A request is retried at most once and only before its response has begun,
\* and is answered once, by an error status or by a body but never by both.
ClientViewKept == Client!Spec
-----------------------------------------------------------------------------
(* What the documentation says and the code does not keep.                 *)

\* docs/runbook.md, "Gateway saturated": reducing the load frees the gateway.
\* When every request is done and every call has ended, no slot is held.
IdleGatewayHoldsNoSlot ==
  /\ \A r \in Requests : pc[r] \in {"idle", "done"}
  /\ \A c \in Calls : call[c] = "none" \/ Returned(c) \/ call[c] \in {"closed", "broken"}
  /\ cleaners = {}
  => \A w \in Workers : inflight[w] = 0
=============================================================================
