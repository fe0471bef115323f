-------------------------- MODULE WorkerAppProofs --------------------------
(***************************************************************************)
(* What a worker process (WorkerApp.tla) guarantees for any set of         *)
(* requests, prompts and limits, any engine and any sizes of the queue,    *)
(* the batch and the cache, with proofs checked by TLAPS.  The scheduler's *)
(* part of every step is taken from SchedulerProofs.                       *)
(***************************************************************************)
EXTENDS WorkerApp, SchedulerProofs

-----------------------------------------------------------------------------
(* The inductive invariant.                                                *)

\* Leases and tickets are those of the requests whose phase says so.
OwnersInv ==
  /\ holders = {c \in Callers : phase[c] \in {"leased", "body", "last", "lost"}}
  /\ Waiting = {c \in Callers : phase[c] = "queued"}

\* Entries that promise no more tokens than the engine gives for their prompt.
Honest == {e \in Entries : e.len <= EngineLength[e.key]}

KeysOnce(s) == Distinct(s) /\ \A e, f \in ToSet(s) : e.key = f.key => e = f

StoreInv ==
  /\ store \in Seq(Honest)
  /\ expired \in 0 .. Len(store)
  /\ Len(store) <= MaxEntries
  /\ KeysOnce(store)

\* A body that runs knows what it gives; one that asked the engine, what to store.
BodyInv ==
  \A c \in Callers :
    phase[c] = "body" =>
      /\ given[c] \in Answers
      /\ given[c].len = Shorter(given[c].limit, EngineLength[given[c].source])
      /\ ~given[c].hit => given[c].source = given[c].prompt

RequestTypeOK ==
  /\ phase \in [Callers -> Phases]
  /\ given \in [Callers -> Answers \cup {NoAnswer}]

AppInv ==
  SchedulerInv /\ DrainTypeOK /\ RequestTypeOK /\ OwnersInv /\ StoreInv /\ BodyInv

\* The engine gives a number of tokens.
LEMMA EngineTyped ==
  /\ MaxEntries \in Nat /\ 0 < MaxEntries
  /\ Limits \subseteq Nat
  /\ \A p \in Prompts : EngineLength[p] \in Nat
BY CacheAssumption, AppAssumption

\* An honest entry is an entry.
LEMMA HonestIsEntry == \A e \in Honest : e \in Entries /\ e.key \in Prompts /\ e.len \in Nat
BY DEF Honest, Entries

-----------------------------------------------------------------------------
(* The cache.                                                              *)

\* The entries from a position on: still in order, each once, and the last of the
\* whole is the last of them.
LEMMA SuffixKeysOnce ==
  ASSUME NEW S, NEW s \in Seq(S), KeysOnce(s), NEW m \in Nat \ {0}
  PROVE  LET t == SubSeq(s, m, Len(s)) IN
           /\ t \in Seq(S)
           /\ Len(t) = IF m <= Len(s) THEN Len(s) - m + 1 ELSE 0
           /\ KeysOnce(t)
           /\ \A e \in ToSet(t) : \E i \in DOMAIN s : i >= m /\ s[i] = e
           /\ m <= Len(s) => s[Len(s)] \in ToSet(t)
<1> DEFINE t == SubSeq(s, m, Len(s))
<1>1. Len(s) \in Nat /\ DOMAIN s = 1 .. Len(s) /\ \A i \in 1 .. Len(s) : s[i] \in S
  BY LenProperties, ElementOfSeq
<1>2. m \in Int /\ Len(s) \in Int /\ \A i \in m .. Len(s) : s[i] \in S
  BY <1>1
<1>3. /\ t \in Seq(S)
      /\ Len(t) = IF m <= Len(s) THEN Len(s) - m + 1 ELSE 0
      /\ \A i \in 1 .. Len(s) - m + 1 : t[i] = s[m + i - 1]
  BY <1>2, SubSeqProperties
<1> HIDE DEF t
<1>4. Len(t) \in Nat /\ DOMAIN t = 1 .. Len(t)
  BY <1>3, LenProperties
<1>5. \A i \in DOMAIN t :
        /\ i \in 1 .. Len(s) - m + 1 /\ m + i - 1 \in DOMAIN s /\ m + i - 1 >= m
        /\ t[i] = s[m + i - 1]
  <2> TAKE i \in DOMAIN t
  <2>1. m <= Len(s) /\ i \in 1 .. Len(s) - m + 1
    BY <1>1, <1>3, <1>4
  <2>2. m + i - 1 \in DOMAIN s /\ m + i - 1 >= m
    BY <1>1, <2>1
  <2> QED
    BY <1>3, <2>1, <2>2
<1>6. \A e \in ToSet(t) : \E i \in DOMAIN s : i >= m /\ s[i] = e
  BY <1>5 DEF ToSet
<1>7. Distinct(t)
  <2> SUFFICES ASSUME NEW i \in DOMAIN t, NEW j \in DOMAIN t, t[i] = t[j] PROVE i = j
    BY DEF Distinct
  <2>1. m + i - 1 = m + j - 1
    BY <1>5 DEF KeysOnce, Distinct
  <2> QED
    BY <1>4, <2>1
<1>8. \A e, f \in ToSet(t) : e.key = f.key => e = f
  <2>1. \A e \in ToSet(t) : e \in ToSet(s)
    BY <1>6 DEF ToSet
  <2> QED
    BY <2>1 DEF KeysOnce
<1>9. ASSUME m <= Len(s) PROVE s[Len(s)] \in ToSet(t)
  <2>1. Len(t) \in DOMAIN t /\ Len(s) - m + 1 = Len(t)
    BY <1>1, <1>3, <1>4, <1>9
  <2>2. t[Len(t)] = s[Len(s)]
    <3>1. m + Len(t) - 1 = Len(s)
      BY <1>1, <1>4, <2>1
    <3> QED
      BY <1>5, <2>1, <3>1
  <2> QED
    BY <2>1, <2>2 DEF ToSet
<1> QED
  BY <1>3, <1>6, <1>7, <1>8, <1>9 DEF KeysOnce, t

\* Purging keeps a sound cache sound.
LEMMA PurgedSound ==
  ASSUME StoreInv
  PROVE  /\ Purged \in Seq(Honest) /\ KeysOnce(Purged) /\ Len(Purged) <= MaxEntries
         /\ \A e \in ToSet(Purged) : \E i \in DOMAIN store : i > expired /\ store[i] = e
<1>1. Len(store) \in Nat /\ expired \in Nat /\ MaxEntries \in Nat /\ Len(store) <= MaxEntries
  BY EngineTyped DEF StoreInv
<1>2. store \in Seq(Honest) /\ KeysOnce(store) /\ expired + 1 \in Nat \ {0}
  BY <1>1 DEF StoreInv
<1>3. /\ Purged \in Seq(Honest) /\ KeysOnce(Purged)
      /\ Len(Purged) = IF expired + 1 <= Len(store) THEN Len(store) - (expired + 1) + 1 ELSE 0
      /\ \A e \in ToSet(Purged) : \E i \in DOMAIN store : i >= expired + 1 /\ store[i] = e
  BY <1>2, SuffixKeysOnce DEF Purged
<1>4. \A i \in DOMAIN store : i >= expired + 1 => i > expired
  BY <1>1, <1>2
<1>5. Len(Purged) <= MaxEntries
  BY <1>1, <1>3
<1> QED
  BY <1>3, <1>4, <1>5

\* A get, which only purges, keeps the cache sound.
LEMMA GetKeeps ==
  ASSUME StoreInv, Get
  PROVE  StoreInv'
<1>1. store' \in Seq(Honest) /\ KeysOnce(store') /\ Len(store') <= MaxEntries /\ expired' = 0
  BY PurgedSound DEF Get
<1>2. Len(store') \in Nat
  BY <1>1, LenProperties
<1> QED
  BY <1>1, <1>2 DEF StoreInv

\* Without forgets the entry of the prompt and no other.
LEMMA WithoutSound ==
  ASSUME NEW s \in Seq(Honest), KeysOnce(s), NEW p
  PROVE  /\ Without(s, p) \in Seq(Honest) /\ KeysOnce(Without(s, p))
         /\ Len(Without(s, p)) <= Len(s)
         /\ \A e \in ToSet(Without(s, p)) : e.key # p
<1>0. Len(s) \in Nat
  BY LenProperties
<1>1. CASE \E i \in DOMAIN s : s[i].key = p
  <2> DEFINE at == CHOOSE i \in DOMAIN s : s[i].key = p
  <2>1. at \in DOMAIN s /\ s[at].key = p /\ Without(s, p) = RemoveAt(s, at)
    BY <1>1 DEF Without
  <2> HIDE DEF at
  <2>2. /\ RemoveAt(s, at) \in Seq(Honest) /\ Len(RemoveAt(s, at)) = Len(s) - 1
        /\ Distinct(RemoveAt(s, at)) /\ ToSet(RemoveAt(s, at)) = ToSet(s) \ {s[at]}
    BY <2>1, RemoveDistinct DEF KeysOnce
  <2>3. s[at] \in ToSet(s)
    BY <2>1 DEF ToSet
  <2>4. KeysOnce(Without(s, p)) /\ \A e \in ToSet(Without(s, p)) : e.key # p
    BY <2>1, <2>2, <2>3 DEF KeysOnce
  <2>5. Len(Without(s, p)) <= Len(s)
    BY <1>0, <2>1, <2>2
  <2> QED
    BY <2>1, <2>2, <2>4, <2>5
<1>2. CASE ~\E i \in DOMAIN s : s[i].key = p
  <2>1. Without(s, p) = s
    BY <1>2 DEF Without
  <2>2. \A e \in ToSet(s) : e.key # p
    BY <1>2 DEF ToSet
  <2> QED
    BY <1>0, <2>1, <2>2
<1> QED
  BY <1>1, <1>2

\* What is put is in the cache afterwards, and the cache stays sound.
LEMMA PutKeeps ==
  ASSUME StoreInv, NEW p \in Prompts, NEW n \in Nat, n <= EngineLength[p], Put(p, n)
  PROVE  StoreInv' /\ [key |-> p, len |-> n] \in ToSet(store')
<1> DEFINE new == [key |-> p, len |-> n]
           kept == Without(Purged, p)
           all == Append(kept, new)
           from == 1 + (IF Len(all) > MaxEntries THEN Len(all) - MaxEntries ELSE 0)
<1>1. store' = SubSeq(all, from, Len(all)) /\ expired' = 0
  BY DEF Put, Evicted
<1>2. new \in Honest /\ new.key = p
  BY DEF Honest, Entries
<1>3. /\ kept \in Seq(Honest) /\ KeysOnce(kept)
      /\ \A e \in ToSet(kept) : e.key # p
  BY PurgedSound, WithoutSound
<1> HIDE DEF new, kept
<1>4. Distinct(kept) /\ new \notin ToSet(kept)
  BY <1>2, <1>3 DEF KeysOnce
<1>5. /\ all \in Seq(Honest) /\ Len(all) = Len(kept) + 1 /\ Distinct(all)
      /\ ToSet(all) = ToSet(kept) \cup {new}
  BY <1>2, <1>3, <1>4, AppendDistinct
<1>6. KeysOnce(all)
  BY <1>2, <1>3, <1>5 DEF KeysOnce
<1>7. Len(kept) \in Nat /\ all[Len(all)] = new
  BY <1>2, <1>3, <1>5, LenProperties, AppendProperties
<1> HIDE DEF all
<1>8. MaxEntries \in Nat /\ 0 < MaxEntries /\ Len(all) \in Nat /\ 0 < Len(all)
  BY <1>5, <1>7, EngineTyped
<1>9. from \in Nat \ {0} /\ from <= Len(all) /\ Len(all) - from + 1 <= MaxEntries
  BY <1>8
<1> HIDE DEF from
<1>10. /\ store' \in Seq(Honest) /\ KeysOnce(store')
       /\ Len(store') = Len(all) - from + 1
       /\ new \in ToSet(store')
  BY <1>1, <1>5, <1>6, <1>7, <1>9, SuffixKeysOnce
<1>11. Len(store') <= MaxEntries /\ Len(store') \in Nat
  BY <1>9, <1>10, LenProperties
<1>12. StoreInv'
  BY <1>1, <1>10, <1>11 DEF StoreInv
<1> QED
  BY <1>10, <1>12 DEF new

\* What the cache finds is an entry of the store that has not outlived its time,
\* long enough for the request.
LEMMA FoundSound ==
  ASSUME StoreInv, NEW p, NEW n, NEW e \in Found(p, n)
  PROVE  /\ e \in Honest /\ e.len >= n
         /\ \E i \in DOMAIN store : i > expired /\ store[i].key = e.key
<1>1. Found(p, n) \subseteq Servable(n)
  BY DEF Found
<1>2. e \in ToSet(Purged) /\ e.len >= n
  BY <1>1 DEF Servable
<1>3. PICK i \in DOMAIN store : i > expired /\ store[i] = e
  BY <1>2, PurgedSound
<1>4. store[i] \in Honest
  BY <1>3, LenProperties, ElementOfSeq DEF StoreInv
<1> QED
  BY <1>2, <1>3, <1>4

-----------------------------------------------------------------------------
(* The steps of a request.                                                 *)

\* A request that moves changes its own phase and no other.
LEMMA PhaseMoves ==
  ASSUME RequestTypeOK, NEW c \in Callers, NEW from, NEW to \in Phases, Moves(c, from, to)
  PROVE  /\ phase[c] = from /\ phase'[c] = to
         /\ \A d \in Callers \ {c} : phase'[d] = phase[d]
         /\ phase' \in [Callers -> Phases]
BY DEF Moves, RequestTypeOK

\* The owners of leases and tickets after one request has moved.
LEMMA OwnersMove ==
  ASSUME OwnersInv, NEW c \in Callers,
         \A d \in Callers \ {c} : phase'[d] = phase[d],
         \A d \in Callers \ {c} : d \in holders' <=> d \in holders,
         \A d \in Callers \ {c} : d \in Waiting' <=> d \in Waiting,
         holders' \subseteq Callers, Waiting' \subseteq Callers,
         c \in holders' <=> phase'[c] \in {"leased", "body", "last", "lost"},
         c \in Waiting' <=> phase'[c] = "queued"
  PROVE  OwnersInv'
<1>1. \A d \in Callers : /\ d \in holders' <=> phase'[d] \in {"leased", "body", "last", "lost"}
                         /\ d \in Waiting' <=> phase'[d] = "queued"
  BY DEF OwnersInv
<1>2. holders' = {d \in Callers : phase'[d] \in {"leased", "body", "last", "lost"}}
  BY <1>1
<1>3. Waiting' = {d \in Callers : phase'[d] = "queued"}
  BY <1>1
<1> QED
  BY <1>2, <1>3 DEF OwnersInv

\* A step that gives nothing and starts no body leaves bodies as they are.
LEMMA BodiesKept ==
  ASSUME BodyInv, UNCHANGED given, \A d \in Callers : phase'[d] = "body" => phase[d] = "body"
  PROVE  BodyInv'
BY DEF BodyInv

\* A step that leaves the cache alone leaves it sound.
LEMMA CacheKept ==
  ASSUME StoreInv, UNCHANGED cacheVars
  PROVE  StoreInv'
BY DEF StoreInv, cacheVars, KeysOnce, Distinct

\* The owners of leases and tickets are requests.
LEMMA HoldersAndWaiting ==
  ASSUME SchedulerInv
  PROVE  holders \subseteq Callers /\ Waiting \subseteq Callers
BY WaitingIsCallers DEF SchedulerInv, TypeOK

\* The same, after the step.
LEMMA HoldersAndWaitingNext ==
  ASSUME SchedulerInv'
  PROVE  holders' \subseteq Callers /\ Waiting' \subseteq Callers
<1>1. (SchedulerInv => holders \subseteq Callers /\ Waiting \subseteq Callers)'
  BY HoldersAndWaiting, PTL
<1> QED
  BY <1>1

\* What every step of a request takes from the invariant.
LEMMA AppParts ==
  ASSUME AppInv
  PROVE  SchedulerInv /\ DrainTypeOK /\ RequestTypeOK /\ OwnersInv /\ StoreInv /\ BodyInv
BY DEF AppInv

\* A request that arrives, or is refused while draining, keeps the invariant.
LEMMA ArriveKeeps ==
  ASSUME AppInv, NEW c \in Callers, Arrive(c)
  PROVE  AppInv'
<1>1. /\ Moves(c, "idle", "checked")
      /\ UNCHANGED <<vars, cacheVars, draining, file, given>>
  BY DEF Arrive, schedulerVars, drainVars
<1>2. /\ phase[c] = "idle" /\ phase'[c] = "checked" /\ phase' \in [Callers -> Phases]
      /\ \A d \in Callers \ {c} : phase'[d] = phase[d]
  BY <1>1, AppParts, PhaseMoves DEF Phases
<1>3. SchedulerInv' /\ Waiting' = Waiting /\ holders' = holders
  BY <1>1, AppParts, SchedulerStutters
<1>4. OwnersInv'
  BY <1>2, <1>3, AppParts, HoldersAndWaiting, OwnersMove DEF OwnersInv
<1>5. StoreInv' /\ BodyInv'
  BY <1>1, <1>2, AppParts, CacheKept, BodiesKept
<1> QED
  BY <1>1, <1>2, <1>3, <1>4, <1>5, AppParts DEF AppInv, DrainTypeOK, RequestTypeOK

\* A step of a handler in the scheduler keeps the invariant.
LEMMA HandlerStepKeeps ==
  ASSUME AppInv, NEW c \in Callers, HandlerStep(c)
  PROVE  AppInv'
<1>1. UNCHANGED <<cacheVars, draining, file, given>>
  BY DEF HandlerStep, EnterQueue, GetLease, GiveUp, drainVars
<1>2. SUFFICES /\ SchedulerInv' /\ OwnersInv' /\ phase' \in [Callers -> Phases]
               /\ \A d \in Callers : phase'[d] = "body" => phase[d] = "body"
  BY <1>1, AppParts, CacheKept, BodiesKept DEF AppInv, DrainTypeOK, RequestTypeOK
<1>3. CASE Enqueue(c) /\ Moves(c, "checked", "queued")
  <2>1. /\ phase[c] = "checked" /\ phase'[c] = "queued" /\ phase' \in [Callers -> Phases]
        /\ \A d \in Callers \ {c} : phase'[d] = phase[d]
    BY <1>3, AppParts, PhaseMoves DEF Phases
  <2>2. SchedulerInv' /\ Waiting' = Waiting \cup {c} /\ holders' = holders
    BY <1>3, AppParts, EnqueueKeeps
  <2>3. OwnersInv'
    BY <2>1, <2>2, AppParts, HoldersAndWaiting, OwnersMove DEF OwnersInv
  <2> QED
    BY <2>1, <2>2, <2>3
<1>4. CASE Moves(c, "checked", "idle") /\ UNCHANGED schedulerVars
  <2>1. /\ phase[c] = "checked" /\ phase'[c] = "idle" /\ phase' \in [Callers -> Phases]
        /\ \A d \in Callers \ {c} : phase'[d] = phase[d]
    BY <1>4, AppParts, PhaseMoves DEF Phases
  <2>2. SchedulerInv' /\ Waiting' = Waiting /\ holders' = holders
    BY <1>4, AppParts, SchedulerStutters DEF schedulerVars
  <2>3. OwnersInv'
    BY <2>1, <2>2, AppParts, HoldersAndWaiting, OwnersMove DEF OwnersInv
  <2> QED
    BY <2>1, <2>2, <2>3
<1>5. CASE Grant(c) /\ Moves(c, "queued", "leased")
  <2>1. /\ phase[c] = "queued" /\ phase'[c] = "leased" /\ phase' \in [Callers -> Phases]
        /\ \A d \in Callers \ {c} : phase'[d] = phase[d]
    BY <1>5, AppParts, PhaseMoves DEF Phases
  <2>2. SchedulerInv' /\ Waiting' = Waiting \ {c} /\ holders' = holders \cup {c}
    BY <1>5, AppParts, GrantKeeps
  <2>3. OwnersInv'
    BY <2>1, <2>2, AppParts, HoldersAndWaiting, OwnersMove DEF OwnersInv
  <2> QED
    BY <2>1, <2>2, <2>3
<1>6. CASE TimeOut(c) /\ Moves(c, "queued", "idle")
  <2>1. /\ phase[c] = "queued" /\ phase'[c] = "idle" /\ phase' \in [Callers -> Phases]
        /\ \A d \in Callers \ {c} : phase'[d] = phase[d]
    BY <1>6, AppParts, PhaseMoves DEF Phases
  <2>2. SchedulerInv' /\ Waiting' = Waiting \ {c} /\ holders' = holders
    BY <1>6, AppParts, TimeOutKeeps
  <2>3. OwnersInv'
    BY <2>1, <2>2, AppParts, HoldersAndWaiting, OwnersMove DEF OwnersInv
  <2> QED
    BY <2>1, <2>2, <2>3
<1> QED
  BY <1>3, <1>4, <1>5, <1>6 DEF HandlerStep, EnterQueue, GetLease, GiveUp

\* The finally of a body, which releases the lease, keeps the invariant.
LEMMA FinishKeeps ==
  ASSUME AppInv, NEW c \in Callers, Finish(c)
  PROVE  AppInv'
<1>1. /\ UNCHANGED <<cacheVars, draining, file>>
      /\ given' = [given EXCEPT ![c] = NoAnswer]
      /\ Release(c)
      /\ Moves(c, "last", "idle") \/ Moves(c, "body", "idle")
  BY DEF Finish, drainVars
<1>2. /\ phase[c] \in {"last", "body"} /\ phase'[c] = "idle" /\ phase' \in [Callers -> Phases]
      /\ \A d \in Callers \ {c} : phase'[d] = phase[d]
  BY <1>1, AppParts, PhaseMoves DEF Phases
<1>3. SchedulerInv' /\ Waiting' = Waiting /\ holders' = holders \ {c}
  BY <1>1, AppParts, ReleaseKeeps
<1>4. OwnersInv'
  BY <1>2, <1>3, AppParts, HoldersAndWaiting, OwnersMove DEF OwnersInv
<1>5. /\ given' \in [Callers -> Answers \cup {NoAnswer}]
      /\ \A d \in Callers \ {c} : given'[d] = given[d]
  BY <1>1, AppParts DEF RequestTypeOK
<1>6. StoreInv' /\ BodyInv'
  BY <1>1, <1>2, <1>5, AppParts, CacheKept DEF BodyInv
<1> QED
  BY <1>1, <1>2, <1>3, <1>4, <1>5, <1>6, AppParts DEF AppInv, DrainTypeOK, RequestTypeOK

\* What a body gives, when it begins.
LEMMA AnswerBegins ==
  ASSUME StoreInv, NEW p \in Prompts, NEW n \in Limits,
         NEW found, found = Found(p, n)
  PROVE  LET a == [prompt |-> p, limit |-> n, hit |-> found # {},
                   source |-> IF found = {} THEN p ELSE (CHOOSE e \in found : TRUE).key,
                   len    |-> IF found = {} THEN Shorter(n, EngineLength[p])
                              ELSE Shorter(n, (CHOOSE e \in found : TRUE).len)]
         IN /\ a \in Answers
            /\ a.len = Shorter(a.limit, EngineLength[a.source])
            /\ ~a.hit => a.source = a.prompt
            /\ a.hit => \E i \in DOMAIN store : i > expired /\ store[i].key = a.source
<1>1. n \in Nat /\ EngineLength[p] \in Nat
  BY EngineTyped
<1>2. CASE found = {}
  <2>1. Shorter(n, EngineLength[p]) \in Nat
    BY <1>1 DEF Shorter
  <2> QED
    BY <1>1, <1>2, <2>1 DEF Answers
<1>3. CASE found # {}
  <2> DEFINE e == CHOOSE e \in found : TRUE
  <2>1. e \in Found(p, n)
    BY <1>3
  <2> HIDE DEF e
  <2>2. /\ e \in Honest /\ e.len >= n
        /\ \E i \in DOMAIN store : i > expired /\ store[i].key = e.key
    BY <2>1, FoundSound
  <2>3. e.key \in Prompts /\ e.len \in Nat /\ e.len <= EngineLength[e.key]
    BY <2>2, HonestIsEntry DEF Honest
  <2>4. Shorter(n, e.len) = n /\ Shorter(n, EngineLength[e.key]) = n
    BY <1>1, <2>2, <2>3, EngineTyped DEF Shorter
  <2>5. n \in Nat /\ n \in Limits
    BY <1>1
  <2> DEFINE a == [prompt |-> p, limit |-> n, hit |-> TRUE, source |-> e.key, len |-> n]
  <2>6. a \in Answers /\ a.len = Shorter(a.limit, EngineLength[a.source])
    BY <2>3, <2>4, <2>5 DEF Answers
  <2> QED
    BY <1>3, <2>2, <2>4, <2>6 DEF e
<1> QED
  BY <1>2, <1>3

\* The answer of a body that starts is whole, and comes from no stale entry.
LEMMA StartBodyGives ==
  ASSUME AppInv, NEW c \in Callers, StartBody(c)
  PROVE  /\ given'[c] \in Answers
         /\ given'[c].len = Shorter(given'[c].limit, EngineLength[given'[c].source])
         /\ ~given'[c].hit => given'[c].source = given'[c].prompt
         /\ given'[c].hit =>
              \E i \in DOMAIN store : i > expired /\ store[i].key = given'[c].source
         /\ given' \in [Callers -> Answers \cup {NoAnswer}]
         /\ \A d \in Callers \ {c} : given'[d] = given[d]
<1>1. PICK p \in Prompts, n \in Limits :
        LET found == Found(p, n) IN
          given' = [given EXCEPT ![c] =
            [prompt |-> p, limit |-> n, hit |-> found # {},
             source |-> IF found = {} THEN p ELSE (CHOOSE e \in found : TRUE).key,
             len    |-> IF found = {} THEN Shorter(n, EngineLength[p])
                        ELSE Shorter(n, (CHOOSE e \in found : TRUE).len)]]
  BY DEF StartBody
<1> DEFINE found == Found(p, n)
           a == [prompt |-> p, limit |-> n, hit |-> found # {},
                 source |-> IF found = {} THEN p ELSE (CHOOSE e \in found : TRUE).key,
                 len    |-> IF found = {} THEN Shorter(n, EngineLength[p])
                            ELSE Shorter(n, (CHOOSE e \in found : TRUE).len)]
<1>2. given' = [given EXCEPT ![c] = a]
  BY <1>1
<1>3. /\ a \in Answers
      /\ a.len = Shorter(a.limit, EngineLength[a.source])
      /\ ~a.hit => a.source = a.prompt
      /\ a.hit => \E i \in DOMAIN store : i > expired /\ store[i].key = a.source
  BY AppParts, AnswerBegins
<1> HIDE DEF a
<1>4. given \in [Callers -> Answers \cup {NoAnswer}]
  BY AppParts DEF RequestTypeOK
<1>5. /\ given'[c] = a /\ given' \in [Callers -> Answers \cup {NoAnswer}]
      /\ \A d \in Callers \ {c} : given'[d] = given[d]
  BY <1>2, <1>3, <1>4
<1> QED
  BY <1>3, <1>5

\* The start of a body keeps the invariant.
LEMMA StartBodyKeeps ==
  ASSUME AppInv, NEW c \in Callers, StartBody(c)
  PROVE  AppInv'
<1>1. Moves(c, "leased", "body") /\ Get /\ UNCHANGED <<vars, draining, file>>
  BY DEF StartBody, schedulerVars, drainVars
<1>2. /\ phase[c] = "leased" /\ phase'[c] = "body" /\ phase' \in [Callers -> Phases]
      /\ \A d \in Callers \ {c} : phase'[d] = phase[d]
  BY <1>1, AppParts, PhaseMoves DEF Phases
<1>3. SchedulerInv' /\ Waiting' = Waiting /\ holders' = holders
  BY <1>1, AppParts, SchedulerStutters
<1>4. OwnersInv'
  BY <1>2, <1>3, AppParts, HoldersAndWaiting, OwnersMove DEF OwnersInv
<1>5. StoreInv'
  BY <1>1, AppParts, GetKeeps
<1>6. BodyInv'
  BY <1>2, StartBodyGives, AppParts DEF BodyInv
<1> QED
  BY <1>1, <1>2, <1>3, <1>4, <1>5, <1>6, StartBodyGives, AppParts
     DEF AppInv, DrainTypeOK, RequestTypeOK

\* A body that never starts keeps the invariant: its lease stays out.
LEMMA NeverStartsKeeps ==
  ASSUME AppInv, NEW c \in Callers, NeverStarts(c)
  PROVE  AppInv'
<1>1. /\ Moves(c, "leased", "lost")
      /\ UNCHANGED <<vars, cacheVars, draining, file, given>>
  BY DEF NeverStarts, schedulerVars, drainVars
<1>2. /\ phase[c] = "leased" /\ phase'[c] = "lost" /\ phase' \in [Callers -> Phases]
      /\ \A d \in Callers \ {c} : phase'[d] = phase[d]
  BY <1>1, AppParts, PhaseMoves DEF Phases
<1>3. SchedulerInv' /\ Waiting' = Waiting /\ holders' = holders
  BY <1>1, AppParts, SchedulerStutters
<1>4. OwnersInv'
  BY <1>2, <1>3, AppParts, HoldersAndWaiting, OwnersMove DEF OwnersInv
<1>5. StoreInv' /\ BodyInv'
  BY <1>1, <1>2, AppParts, CacheKept, BodiesKept
<1> QED
  BY <1>1, <1>2, <1>3, <1>4, <1>5, AppParts DEF AppInv, DrainTypeOK, RequestTypeOK

\* A body stores what the engine gave for its own prompt, and that stays findable.
LEMMA EndBodyStores ==
  ASSUME AppInv, NEW c \in Callers, EndBody(c)
  PROVE  /\ StoreInv'
         /\ ~given[c].hit => [key |-> given[c].prompt, len |-> given[c].len] \in ToSet(store')
<1>1. /\ phase[c] = "body"
      /\ IF given[c].hit THEN UNCHANGED cacheVars ELSE Put(given[c].prompt, given[c].len)
  BY DEF EndBody, Moves
<1>2. CASE given[c].hit
  BY <1>1, <1>2, AppParts, CacheKept
<1>3. CASE ~given[c].hit
  <2>1. /\ given[c] \in Answers /\ given[c].source = given[c].prompt
        /\ given[c].len = Shorter(given[c].limit, EngineLength[given[c].source])
    BY <1>1, <1>3, AppParts DEF BodyInv
  <2>2. /\ given[c].prompt \in Prompts /\ given[c].len \in Nat /\ given[c].limit \in Nat
        /\ EngineLength[given[c].prompt] \in Nat
    BY <2>1, EngineTyped DEF Answers
  <2>3. given[c].len <= EngineLength[given[c].prompt]
    BY <2>1, <2>2 DEF Shorter
  <2> QED
    BY <1>1, <1>3, <2>2, <2>3, AppParts, PutKeeps
<1> QED
  BY <1>2, <1>3

\* The end of a body, with its put, keeps the invariant.
LEMMA EndBodyKeeps ==
  ASSUME AppInv, NEW c \in Callers, EndBody(c)
  PROVE  AppInv'
<1>1. /\ Moves(c, "body", "last") /\ given' = [given EXCEPT ![c] = NoAnswer]
      /\ UNCHANGED <<vars, draining, file>>
  BY DEF EndBody, schedulerVars, drainVars
<1>2. /\ phase[c] = "body" /\ phase'[c] = "last" /\ phase' \in [Callers -> Phases]
      /\ \A d \in Callers \ {c} : phase'[d] = phase[d]
  BY <1>1, AppParts, PhaseMoves DEF Phases
<1>3. SchedulerInv' /\ Waiting' = Waiting /\ holders' = holders
  BY <1>1, AppParts, SchedulerStutters
<1>4. OwnersInv'
  BY <1>2, <1>3, AppParts, HoldersAndWaiting, OwnersMove DEF OwnersInv
<1>5. /\ given' \in [Callers -> Answers \cup {NoAnswer}]
      /\ \A d \in Callers \ {c} : given'[d] = given[d]
  BY <1>1, AppParts DEF RequestTypeOK
<1>6. BodyInv'
  BY <1>2, <1>5, AppParts DEF BodyInv
<1> QED
  BY <1>1, <1>2, <1>3, <1>4, <1>5, <1>6, EndBodyStores, AppParts
     DEF AppInv, DrainTypeOK, RequestTypeOK

\* The passing of a request's time keeps the invariant.
LEMMA TicketAgesKeepsApp ==
  ASSUME AppInv, NEW c \in Callers, TicketAges(c)
  PROVE  AppInv'
<1>1. /\ Ripen(c) \/ Deadline(c)
      /\ UNCHANGED <<cacheVars, draining, file, phase, given>>
  BY DEF TicketAges, drainVars
<1>2. SchedulerInv' /\ Waiting' = Waiting /\ holders' = holders
  BY <1>1, AppParts, TicketAgesKeeps
<1>3. StoreInv' /\ BodyInv' /\ OwnersInv'
  BY <1>1, <1>2, AppParts, CacheKept, BodiesKept DEF OwnersInv
<1> QED
  BY <1>1, <1>2, <1>3, AppParts DEF AppInv, DrainTypeOK, RequestTypeOK

-----------------------------------------------------------------------------
(* The steps of the process.                                               *)

\* Draining, and its end, keep the invariant.
LEMMA SwitchKeeps ==
  ASSUME AppInv, Switch
  PROVE  AppInv'
<1>1. UNCHANGED <<vars, cacheVars, phase, given>>
  BY DEF Switch, schedulerVars
<1>2. SchedulerInv' /\ Waiting' = Waiting /\ holders' = holders
  BY <1>1, AppParts, SchedulerStutters
<1>3. StoreInv' /\ BodyInv' /\ OwnersInv'
  BY <1>1, <1>2, AppParts, CacheKept, BodiesKept DEF OwnersInv
<1>4. DrainTypeOK'
  BY AppParts DEF Switch, set_drain, clear_drain, SiblingSwitches, DrainTypeOK
<1> QED
  BY <1>1, <1>2, <1>3, <1>4, AppParts DEF AppInv, RequestTypeOK

\* The passing of an entry's time keeps the invariant.
LEMMA EntryAgesKeeps ==
  ASSUME AppInv, EntryAges
  PROVE  AppInv'
<1>1. Expire /\ UNCHANGED <<vars, draining, file, phase, given>>
  BY DEF EntryAges, schedulerVars, drainVars
<1>2. SchedulerInv' /\ Waiting' = Waiting /\ holders' = holders
  BY <1>1, AppParts, SchedulerStutters
<1>3. store' = store /\ expired' = expired + 1 /\ expired < Len(store)
  BY <1>1 DEF Expire
<1>4. expired' \in 0 .. Len(store')
  <2>1. Len(store) \in Nat /\ expired \in 0 .. Len(store)
    BY AppParts, LenProperties DEF StoreInv
  <2> QED
    BY <1>3, <2>1
<1>5. StoreInv'
  BY <1>3, <1>4, AppParts DEF StoreInv, KeysOnce, Distinct
<1>6. BodyInv' /\ OwnersInv'
  BY <1>1, <1>2, AppParts, BodiesKept DEF OwnersInv
<1> QED
  BY <1>1, <1>2, <1>5, <1>6, AppParts DEF AppInv, DrainTypeOK, RequestTypeOK

\* What a process that has just started looks like.
LEMMA ProcessBegins ==
  ASSUME Init, CacheInit, DrainTypeOK,
         phase = [c \in Callers |-> "idle"], given = [c \in Callers |-> NoAnswer]
  PROVE  AppInv
<1>1. SchedulerInv
  BY SchedulerBegins
<1>2. holders = {} /\ Waiting = {}
  BY DEF Init, Waiting, ToSet
<1>3. OwnersInv
  BY <1>2 DEF OwnersInv
<1>4. RequestTypeOK /\ BodyInv
  BY DEF RequestTypeOK, BodyInv, Phases
<1>5. store = <<>> /\ expired = 0 /\ Len(store) = 0 /\ DOMAIN store = {} /\ store \in Seq(Honest)
  BY DEF CacheInit
<1>6. KeysOnce(store)
  BY <1>5 DEF KeysOnce, Distinct, ToSet
<1>7. StoreInv
  BY <1>5, <1>6, EngineTyped DEF StoreInv
<1> QED
  BY <1>1, <1>3, <1>4, <1>7 DEF AppInv

\* The death and restart of the process keep the invariant.
LEMMA DieKeeps ==
  ASSUME AppInv, Die
  PROVE  AppInv'
<1>1. (/\ Init /\ CacheInit /\ DrainTypeOK
       /\ phase = [c \in Callers |-> "idle"] /\ given = [c \in Callers |-> NoAnswer]
       => AppInv)'
  BY ProcessBegins, PTL
<1>2. Init' /\ CacheInit' /\ DrainTypeOK'
  BY AppParts DEF Die, Init, CacheRestart, CacheInit, DrainRestart, DrainTypeOK
<1>3. phase' = [c \in Callers |-> "idle"] /\ given' = [c \in Callers |-> NoAnswer]
  BY DEF Die
<1> QED
  BY <1>1, <1>2, <1>3

\* A step of something else keeps the invariant.
LEMMA AppStutters ==
  ASSUME AppInv, UNCHANGED appVars
  PROVE  AppInv'
<1>1. UNCHANGED <<vars, cacheVars, draining, file, phase, given>>
  BY DEF appVars, schedulerVars, drainVars
<1>2. SchedulerInv' /\ Waiting' = Waiting /\ holders' = holders
  BY <1>1, AppParts, SchedulerStutters
<1>3. StoreInv' /\ BodyInv' /\ OwnersInv'
  BY <1>1, <1>2, AppParts, CacheKept, BodiesKept DEF OwnersInv
<1> QED
  BY <1>1, <1>2, <1>3, AppParts DEF AppInv, DrainTypeOK, RequestTypeOK

-----------------------------------------------------------------------------
(* The theorems.                                                           *)

\* The inductive invariant of the worker: that of its scheduler, an owner for each
\* lease and ticket, a sound cache, and bodies that know what they give.
THEOREM AppInvHolds == AppSpec => []AppInv
<1>1. AppInit => AppInv
  BY ProcessBegins DEF AppInit, DrainInit, DrainTypeOK
<1>2. ASSUME AppInv, [AppNext]_appVars PROVE AppInv'
  BY <1>2, ArriveKeeps, HandlerStepKeeps, StartBodyKeeps, NeverStartsKeeps, EndBodyKeeps,
     FinishKeeps, TicketAgesKeepsApp, SwitchKeeps, DieKeeps, EntryAgesKeeps, AppStutters
     DEF AppNext, BodyStep
<1> QED
  BY <1>1, <1>2, PTL DEF AppSpec

\* Every variable of the worker keeps its type: the clock of the cache never runs
\* past its last entry, and the count of leases never below zero.
THEOREM AppTypes == AppSpec => []AppTypeOK
<1>1. AppInv => AppTypeOK
  <2> SUFFICES ASSUME AppInv PROVE AppTypeOK
    OBVIOUS
  <2>1. TypeOK
    BY AppParts DEF SchedulerInv
  <2>2. CacheTypeOK
    <3>1. store \in Seq(Honest) /\ Honest \subseteq Entries
      BY AppParts, HonestIsEntry DEF StoreInv
    <3>2. store \in Seq(Entries)
      BY <3>1, SeqMonotonic
    <3> QED
      BY <3>2, AppParts DEF CacheTypeOK, StoreInv
  <2> QED
    BY <2>1, <2>2, AppParts DEF AppTypeOK, RequestTypeOK
<1> QED
  BY <1>1, AppInvHolds, PTL

\* The scheduler's leases and tickets are those of the requests: whatever ends a
\* request releases its lease, unless its body never started.
THEOREM LeasesAlwaysOwned == AppSpec => []LeaseHasOwner
<1>1. AppInv => LeaseHasOwner
  BY DEF AppInv, SchedulerInv, LeasesInv, LeasesCounted, OwnersInv, LeaseHasOwner
<1> QED
  BY <1>1, AppInvHolds, PTL

\* No answer is cut short by an entry made for a smaller request.
THEOREM AnswersAlwaysWhole == AppSpec => []AnswersWhole
<1>1. AppInv => AnswersWhole
  BY DEF AppInv, BodyInv, AnswersWhole
<1> QED
  BY <1>1, AppInvHolds, PTL

\* The cache is bounded, has one entry of a prompt, and promises no more tokens of a
\* prompt than the engine gives.
THEOREM StoreAlwaysSound == AppSpec => []StoreSound
<1>1. AppInv => StoreSound
  <2> SUFFICES ASSUME AppInv PROVE StoreSound
    OBVIOUS
  <2>1. store \in Seq(Honest) /\ Len(store) <= MaxEntries /\ KeysOnce(store)
    BY AppParts DEF StoreInv
  <2>2. \A i \in DOMAIN store : store[i] \in ToSet(store) /\ store[i] \in Honest
    BY <2>1, LenProperties DEF ToSet
  <2>3. \A i, j \in DOMAIN store : store[i].key = store[j].key => i = j
    BY <2>1, <2>2 DEF KeysOnce, Distinct
  <2>4. \A e \in ToSet(store) : e.len <= EngineLength[e.key]
    BY <2>2 DEF ToSet, Honest
  <2> QED
    BY <2>1, <2>3, <2>4 DEF StoreSound
<1> QED
  BY <1>1, AppInvHolds, PTL

\* A request moves only by its own steps, unless the process dies.
LEMMA WhoMoves ==
  ASSUME AppInv, [AppNext]_appVars, NEW c \in Callers, phase'[c] # phase[c], phase'[c] # "idle"
  PROVE  Arrive(c) \/ HandlerStep(c) \/ BodyStep(c)
<1>1. phase' # phase
  OBVIOUS
<1>2. ~Switch /\ ~EntryAges /\ ~UNCHANGED appVars /\ \A d \in Callers : ~TicketAges(d)
  BY <1>1 DEF Switch, EntryAges, appVars, TicketAges
<1>3. ~Die
  BY DEF Die
<1>4. PICK d \in Callers : Arrive(d) \/ HandlerStep(d) \/ BodyStep(d)
  BY <1>2, <1>3 DEF AppNext
<1>5. \E from, to \in Phases : Moves(d, from, to)
  BY <1>4 DEF Arrive, HandlerStep, EnterQueue, GetLease, GiveUp, BodyStep, StartBody,
     NeverStarts, EndBody, Finish, Phases
<1>6. d = c
  BY <1>5, AppParts, PhaseMoves
<1> QED
  BY <1>4, <1>6

\* What a body stores is in the cache after the step, whatever had to make room.
THEOREM LatestAlwaysKept == AppSpec => LatestKept
<1>1. ASSUME AppInv, [AppNext]_appVars, NEW c \in Callers, Stores(c)
      PROVE  [key |-> given[c].prompt, len |-> given[c].len] \in ToSet(store')
  <2>1. phase[c] = "body" /\ phase'[c] = "last" /\ ~given[c].hit
    BY <1>1 DEF Stores
  <2>2. Arrive(c) \/ HandlerStep(c) \/ BodyStep(c)
    BY <1>1, <2>1, WhoMoves
  <2>3. EndBody(c)
    <3>1. ~Arrive(c) /\ ~HandlerStep(c) /\ ~StartBody(c) /\ ~NeverStarts(c)
      BY <2>1 DEF Arrive, HandlerStep, EnterQueue, GetLease, GiveUp, StartBody, NeverStarts, Moves
    <3>2. ~Finish(c)
      <4>1. ASSUME Finish(c) PROVE FALSE
        <5>1. Moves(c, "last", "idle") \/ Moves(c, "body", "idle")
          BY <4>1 DEF Finish
        <5>2. phase'[c] = "idle"
          BY <1>1, <5>1, AppParts, PhaseMoves DEF Phases
        <5> QED
          BY <2>1, <5>2
      <4> QED
        BY <4>1
    <3> QED
      BY <2>2, <3>1, <3>2 DEF BodyStep
  <2> QED
    BY <1>1, <2>1, <2>3, EndBodyStores
<1>2. AppInv /\ [AppNext]_appVars =>
        [\A c \in Callers :
           Stores(c) => [key |-> given[c].prompt, len |-> given[c].len] \in ToSet(store')]_appVars
  BY <1>1
<1> QED
  BY <1>2, AppInvHolds, PTL DEF AppSpec, LatestKept

\* A body that answers from the cache answers from an entry within its time to live.
THEOREM AnswersAlwaysFresh == AppSpec => AnswersFresh
<1>1. ASSUME AppInv, [AppNext]_appVars, NEW c \in Callers, Starts(c), given'[c].hit
      PROVE  \E i \in DOMAIN store : i > expired /\ store[i].key = given'[c].source
  <2>1. phase[c] = "leased" /\ phase'[c] = "body"
    BY <1>1 DEF Starts
  <2>2. Arrive(c) \/ HandlerStep(c) \/ BodyStep(c)
    BY <1>1, <2>1, WhoMoves
  <2>3. StartBody(c)
    <3>1. ~Arrive(c) /\ ~HandlerStep(c) /\ ~EndBody(c) /\ ~Finish(c)
      BY <2>1 DEF Arrive, HandlerStep, EnterQueue, GetLease, GiveUp, EndBody, Finish, Moves
    <3>2. ~NeverStarts(c)
      <4>1. ASSUME NeverStarts(c) PROVE FALSE
        <5>1. phase'[c] = "lost"
          BY <1>1, <4>1, AppParts, PhaseMoves DEF NeverStarts, Phases
        <5> QED
          BY <2>1, <5>1
      <4> QED
        BY <4>1
    <3> QED
      BY <2>2, <3>1, <3>2 DEF BodyStep
  <2> QED
    BY <1>1, <2>3, StartBodyGives
<1>2. AppInv /\ [AppNext]_appVars =>
        [\A c \in Callers :
           Starts(c) /\ given'[c].hit =>
             \E i \in DOMAIN store : i > expired /\ store[i].key = given'[c].source]_appVars
  BY <1>1
<1> QED
  BY <1>2, AppInvHolds, PTL DEF AppSpec, AnswersFresh
=============================================================================
