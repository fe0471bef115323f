----------------------------- MODULE WorkerApp -----------------------------
(***************************************************************************)
(* A worker process (worker/app/main.py): requests to /generate pass the   *)
(* drain switch (Drain), wait for a lease (Scheduler), and stream their    *)
(* answer from the cache (PrefixCache) or the engine, while the process    *)
(* may be drained, killed and started again.                               *)
(*                                                                         *)
(* A caller of Scheduler is the handler of one request, in a thread of the *)
(* server; generate gives acquire a timeout, so none is patient.  A body   *)
(* runs in the event loop, from one yield to the next; what it yields      *)
(* changes nothing here, so it only begins, ends or is cut short.  What a  *)
(* request asks for is chosen when its body first reads it.                *)
(***************************************************************************)
EXTENDS Scheduler, PrefixCache, Drain

CONSTANTS
  Limits,          \* max_tokens of requests
  EngineLength     \* tokens the engine has for a prompt

ASSUME AppAssumption ==
  /\ Patient = {}
  /\ Limits \subseteq Nat \ {0}
  /\ EngineLength \in [Prompts -> Nat]

VARIABLES
  phase,        \* where the request of each caller is
  given         \* what its body gives: prompt, limit, hit, source and length

schedulerVars == vars
appVars == <<schedulerVars, cacheVars, drainVars, phase, given>>

Phases == {"idle", "checked", "queued", "leased", "body", "last", "lost"}
NoAnswer == [hit |-> FALSE]
Answers ==
  [prompt : Prompts, limit : Limits, hit : BOOLEAN, source : Prompts, len : Nat]

AppInit ==
  /\ Init
  /\ CacheInit
  /\ DrainInit
  /\ phase = [c \in Callers |-> "idle"]
  /\ given = [c \in Callers |-> NoAnswer]

Moves(c, from, to) == phase[c] = from /\ phase' = [phase EXCEPT ![c] = to]

Shorter(a, b) == IF a < b THEN a ELSE b

-----------------------------------------------------------------------------
(* A request, in generate.                                                 *)

\* A bug of Arrive: the drain switch not looked at.
ArriveAnyway(c) ==
  /\ Moves(c, "idle", "checked")
  /\ UNCHANGED <<schedulerVars, cacheVars, drainVars, given>>

\* The request is not refused for draining.  One that is changes nothing.
Arrive(c) ==
  /\ ~is_draining
  /\ Moves(c, "idle", "checked")
  /\ UNCHANGED <<schedulerVars, cacheVars, drainVars, given>>

\* acquire begins, or refuses because it is full.
EnterQueue(c) ==
  /\ \/ Enqueue(c) /\ Moves(c, "checked", "queued")
     \/ /\ Len(queue) + active >= Capacity
        /\ Moves(c, "checked", "idle")
        /\ UNCHANGED schedulerVars
  /\ UNCHANGED <<cacheVars, drainVars, given>>

GetLease(c) ==
  /\ Grant(c)
  /\ Moves(c, "queued", "leased")
  /\ UNCHANGED <<cacheVars, drainVars, given>>

GiveUp(c) ==
  /\ TimeOut(c)
  /\ Moves(c, "queued", "idle")
  /\ UNCHANGED <<cacheVars, drainVars, given>>

-----------------------------------------------------------------------------
(* Its answer, in _stream.                                                 *)

\* The server starts the body, which asks the cache and else the engine.
StartBody(c) ==
  /\ Moves(c, "leased", "body")
  /\ \E p \in Prompts, n \in Limits :
       LET found == Found(p, n) IN
         given' = [given EXCEPT ![c] =
           [prompt |-> p, limit |-> n, hit |-> found # {},
            source |-> IF found = {} THEN p ELSE (CHOOSE e \in found : TRUE).key,
            len    |-> IF found = {} THEN Shorter(n, EngineLength[p])
                       ELSE Shorter(n, (CHOOSE e \in found : TRUE).len)]]
  /\ Get
  /\ UNCHANGED <<schedulerVars, drainVars>>

\* It never does, when the client has gone before: the lease is dropped with
\* the generator, whose finally clause does not run.
NeverStarts(c) ==
  /\ Moves(c, "leased", "lost")
  /\ UNCHANGED <<schedulerVars, cacheVars, drainVars, given>>

\* A bug of EndBody: what came from the cache stored under its own prompt too.
EndBodyStoresHits(c) ==
  /\ Moves(c, "body", "last")
  /\ Put(given[c].prompt, given[c].len)
  /\ given' = [given EXCEPT ![c] = NoAnswer]
  /\ UNCHANGED <<schedulerVars, drainVars>>

\* All tokens are out.  Those of the engine are stored; then come the last frames.
EndBody(c) ==
  /\ Moves(c, "body", "last")
  /\ IF given[c].hit THEN UNCHANGED cacheVars ELSE Put(given[c].prompt, given[c].len)
  /\ given' = [given EXCEPT ![c] = NoAnswer]
  /\ UNCHANGED <<schedulerVars, drainVars>>

\* A bug of Finish: the lease released by whole answers only.
FinishWithoutFinally(c) ==
  /\ \/ Moves(c, "last", "idle") /\ Release(c)
     \/ Moves(c, "body", "idle") /\ UNCHANGED schedulerVars
  /\ given' = [given EXCEPT ![c] = NoAnswer]
  /\ UNCHANGED <<cacheVars, drainVars>>

\* The body is over, or the client leaves or the engine raises before: the
\* finally clause releases the lease.
Finish(c) ==
  /\ Moves(c, "last", "idle") \/ Moves(c, "body", "idle")
  /\ Release(c)
  /\ given' = [given EXCEPT ![c] = NoAnswer]
  /\ UNCHANGED <<cacheVars, drainVars>>

-----------------------------------------------------------------------------
(* The process and its operators.                                          *)

\* POST /drain, SIGTERM, and what is done to a sibling.
Switch ==
  /\ set_drain \/ clear_drain \/ SiblingSwitches
  /\ UNCHANGED <<schedulerVars, cacheVars, phase, given>>

\* The process dies, by chaos kill or an operator, and is started again.
Die ==
  /\ queue' = <<>> /\ fresh' = {} /\ late' = {} /\ holders' = {} /\ active' = 0
  /\ CacheRestart
  /\ DrainRestart
  /\ phase' = [c \in Callers |-> "idle"]
  /\ given' = [c \in Callers |-> NoAnswer]

\* Time passes for a ticket.
TicketAges(c) ==
  /\ Ripen(c) \/ Deadline(c)
  /\ UNCHANGED <<cacheVars, drainVars, phase, given>>

\* Time passes for the cache.
EntryAges ==
  /\ Expire
  /\ UNCHANGED <<schedulerVars, drainVars, phase, given>>

-----------------------------------------------------------------------------
HandlerStep(c) == EnterQueue(c) \/ GetLease(c) \/ GiveUp(c)
BodyStep(c) == StartBody(c) \/ NeverStarts(c) \/ EndBody(c) \/ Finish(c)

AppNext ==
  \/ \E c \in Callers : Arrive(c) \/ HandlerStep(c) \/ BodyStep(c) \/ TicketAges(c)
  \/ Switch \/ Die \/ EntryAges

\* Threads and the event loop run, the engine ends, and time passes.
AppFairness == \A c \in Callers :
  /\ WF_appVars(HandlerStep(c))
  /\ WF_appVars(BodyStep(c))
  /\ WF_appVars(TicketAges(c))

AppSpec == AppInit /\ [][AppNext]_appVars /\ AppFairness
-----------------------------------------------------------------------------
\* Type invariant.
AppTypeOK ==
  /\ TypeOK
  /\ CacheTypeOK
  /\ DrainTypeOK
  /\ phase \in [Callers -> Phases]
  /\ given \in [Callers -> Answers \cup {NoAnswer}]

\* Every lease the scheduler counts is that of a body that runs, is about to, or
\* never started, and every ticket that of a handler that waits: a lease outlives
\* its request only if the body never started.
LeaseHasOwner ==
  /\ active = Cardinality({c \in Callers : phase[c] \in {"leased", "body", "last", "lost"}})
  /\ Waiting = {c \in Callers : phase[c] = "queued"}

\* An answer has as many tokens as were asked for, or all the engine has: none is
\* cut short because an entry made for a smaller request was found.
AnswersWhole ==
  \A c \in Callers :
    phase[c] = "body" =>
      given[c].len = Shorter(given[c].limit, EngineLength[given[c].source])

\* The cache is bounded and has one entry of a prompt, and an entry has no more
\* tokens than the engine gives for its prompt: what is found for another prompt
\* does not spread.
StoreSound ==
  /\ Len(store) <= MaxEntries
  /\ \A i, j \in DOMAIN store : store[i].key = store[j].key => i = j
  /\ \A e \in ToSet(store) : e.len <= EngineLength[e.key]

\* What a body stores can be found, whatever had to go to make room, until
\* another body stores, time passes or the process dies.
Stores(c) == phase[c] = "body" /\ phase'[c] = "last" /\ ~given[c].hit
LatestKept ==
  [][\A c \in Callers :
       Stores(c) => [key |-> given[c].prompt, len |-> given[c].len] \in ToSet(store')]_appVars

\* No body answers from an entry that has outlived its time.
Starts(c) == phase[c] = "leased" /\ phase'[c] = "body"
AnswersFresh ==
  [][\A c \in Callers :
       Starts(c) /\ given'[c].hit =>
         \E i \in DOMAIN store : i > expired /\ store[i].key = given'[c].source]_appVars

\* Every request ends, with an answer or a refusal, unless its body never starts,
\* also when leases are lost and the process dies.
RequestsEnd ==
  \A c \in Callers : phase[c] = "checked" ~> phase[c] \in {"idle", "lost"}

\* A worker that stays drained comes to rest, although a request may have passed
\* the switch before and waits for a lease long after.
DrainCompletes ==
  <>[]is_draining => <>[](\A c \in Callers : phase[c] \in {"idle", "lost"})
=============================================================================
