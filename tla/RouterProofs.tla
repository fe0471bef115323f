--------------------------- MODULE RouterProofs ----------------------------
(***************************************************************************)
(* What Router.tla guarantees for any set of workers, of session keys and  *)
(* of concurrent picks, with proofs checked by TLAPS.                      *)
(***************************************************************************)
EXTENDS Router, FiniteSetTheorems, TLAPS

USE RouterAssumption, FleetAssumption

-----------------------------------------------------------------------------
(* Types.                                                                  *)

\* The structs of the pool after a snapshot: those it lists have one each, and
\* none that a call has in hand is given to another id.
LEMMA UpdateStructs ==
  ASSUME TypeOK, NEW listed \in SUBSET Workers, NEW ready \in SUBSET listed,
         Update(listed, ready)
  PROVE  /\ workers' \in [Workers -> Structs \cup {NoStruct}]
         /\ \A w, x \in Workers :
              workers'[w] = workers'[x] => w = x \/ workers'[w] = NoStruct
         /\ \A w \in listed : workers'[w] \in Structs
         /\ \A w \in Workers, c \in Callers :
              workers'[w] = held[c] /\ held[c] \in Structs => workers[w] = held[c]
<1> DEFINE New == {w \in listed : workers[w] = NoStruct}
<1>1. PICK fresh \in Injection(New, Unused) :
        workers' = [w \in Workers |->
          IF w \notin listed THEN NoStruct
          ELSE IF workers[w] # NoStruct THEN workers[w] ELSE fresh[w]]
  BY DEF Update
<1>2. /\ fresh \in [New -> Unused]
      /\ \A w, x \in New : fresh[w] = fresh[x] => w = x
  BY <1>1 DEF Injection, IsInjective
<1>3. \A w \in New :
        /\ fresh[w] \in Structs
        /\ \A x \in Workers : fresh[w] # workers[x]
        /\ \A c \in Callers : fresh[w] # held[c]
  <2>1. \A x \in Workers : workers[x] \in Range(workers)
    BY DEF TypeOK, Range
  <2> QED
    BY <1>2, <2>1 DEF Unused
<1>4. \A w \in Workers :
        \/ workers'[w] = NoStruct /\ w \notin listed
        \/ workers'[w] = workers[w] /\ workers[w] # NoStruct
        \/ w \in New /\ workers'[w] = fresh[w]
  BY <1>1
<1>5. DOMAIN workers' = Workers /\ workers' = [w \in Workers |-> workers'[w]]
  BY <1>1
<1>6. \A w \in Workers : workers'[w] \in Structs \cup {NoStruct}
  BY <1>3, <1>4 DEF TypeOK
<1>7. \A w, x \in Workers : workers'[w] = workers'[x] => w = x \/ workers'[w] = NoStruct
  BY <1>2, <1>3, <1>4 DEF TypeOK
<1>8. \A w \in listed : workers'[w] \in Structs
  BY <1>3, <1>4 DEF TypeOK
<1>9. \A w \in Workers, c \in Callers :
        workers'[w] = held[c] /\ held[c] \in Structs => workers[w] = held[c]
  BY <1>3, <1>4
<1> QED
  BY <1>5, <1>6, <1>7, <1>8, <1>9

\* The workers that are ready after a snapshot are those it says are.
LEMMA UpdateReady ==
  ASSUME TypeOK, NEW listed \in SUBSET Workers, NEW ready \in SUBSET listed,
         Update(listed, ready)
  PROVE  /\ up' \subseteq Structs
         /\ Ready' = ready
<1>1. DOMAIN workers' = Workers
  BY UpdateStructs
<1>2. up' = {s \in Structs :
              \/ \E w \in ready : workers'[w] = s
              \/ /\ s \in up \ Range(workers')
                 /\ \E c \in Callers : held[c] = s}
  BY DEF Update
<1>3. \A w \in ready : workers'[w] \in up'
  BY <1>2, UpdateStructs
<1>4. ASSUME NEW w \in Workers, workers'[w] \in up' PROVE w \in ready
  <2>1. workers'[w] \in Range(workers')
    BY <1>1 DEF Range
  <2>2. PICK x \in ready : workers'[x] = workers'[w]
    BY <1>2, <1>4, <2>1
  <2> QED
    BY <1>2, <1>4, <2>2, UpdateStructs
<1> QED
  BY <1>2, <1>3, <1>4 DEF Ready

\* Every step keeps the types.
LEMMA StepTypes ==
  ASSUME TypeOK, [Next]_vars
  PROVE  TypeOK'
<1> USE DEF TypeOK
<1>1. ASSUME NEW listed \in SUBSET Workers, NEW ready \in SUBSET listed,
             Update(listed, ready)
      PROVE  TypeOK'
  <2>1. affinity' \in [Keys -> Workers \cup {NoWorker}]
    BY <1>1 DEF Update
  <2> QED
    BY <1>1, <2>1, UpdateStructs, UpdateReady DEF Update, callVars
<1>2. ASSUME NEW c \in Callers, NEW k \in Keys, Find(c, k) PROVE TypeOK'
  BY <1>2 DEF Find, poolVars
<1>3. ASSUME NEW c \in Callers, Check(c) PROVE TypeOK'
  BY <1>3 DEF Check, Return, poolVars
<1>4. ASSUME NEW c \in Callers, Pick(c) PROVE TypeOK'
  <2>1. PICK w \in Answers :
          IF w = NoWorker
            THEN /\ Return(c, NoWorker)
                 /\ UNCHANGED chosen
            ELSE /\ pc' = [pc EXCEPT ![c] = "settle"]
                 /\ chosen' = [chosen EXCEPT ![c] = w]
                 /\ UNCHANGED <<result, steady, given>>
    BY <1>4 DEF Pick
  <2>2. w \in Workers \cup {NoWorker}
    BY DEF Answers, Ready
  <2> QED
    BY <1>4, <2>1, <2>2 DEF Pick, Return, poolVars
<1>5. ASSUME NEW c \in Callers, Settle(c) PROVE TypeOK'
  BY <1>5 DEF Settle, Return, Ready
<1>6. CASE UNCHANGED vars
  BY <1>6 DEF vars, poolVars, callVars
<1> QED
  BY <1>1, <1>2, <1>3, <1>4, <1>5, <1>6 DEF Next

\* Every variable keeps its type, no two ids share a struct, and a call that goes
\* on with a worker has one: PickForKey dereferences no nil.
THEOREM RouterTypes == Spec => []TypeOK
<1>1. Init => TypeOK
  BY DEF Init, TypeOK
<1> QED
  BY <1>1, StepTypes, PTL DEF Spec

-----------------------------------------------------------------------------
(* Answers in time.                                                        *)

HistoryTypeOK ==
  /\ result \in [Callers -> Workers \cup {NoWorker}]
  /\ seen \in [Callers -> SUBSET (Workers \cup {NoWorker})]
  /\ steady \in SUBSET Callers
  /\ given \in [Keys -> SUBSET (Workers \cup {NoWorker})]

\* What a call may still answer the pool has allowed since the call began: in
\* particular a struct that was dropped while the call had it in hand is ready
\* only if its worker was.
CallInTime(c) ==
  /\ pc[c] # "idle" => Answers \subseteq seen[c]
  /\ pc[c] = "check" =>
       /\ \A w \in Workers : workers[w] = held[c] => w = chosen[c]
       /\ held[c] \in up => chosen[c] \in seen[c]
  /\ pc[c] = "settle" => chosen[c] \in seen[c]
  /\ pc[c] = "idle" => result[c] \in seen[c]

TimeInv == HistoryTypeOK /\ \A c \in Callers : CallInTime(c)

\* The history of what was ready and what was returned keeps its type.
LEMMA HistoryTypes ==
  ASSUME TypeOK, HistoryTypeOK, [Next]_vars
  PROVE  HistoryTypeOK'
<1> USE DEF TypeOK, HistoryTypeOK
<1>1. Answers \subseteq Workers \cup {NoWorker} /\ Answers' \subseteq Workers \cup {NoWorker}
  BY DEF Answers, Ready
<1>2. ASSUME NEW c \in Callers, NEW w \in Workers \cup {NoWorker}, Return(c, w)
      PROVE  /\ result' \in [Callers -> Workers \cup {NoWorker}]
             /\ steady' \in SUBSET Callers
             /\ given' \in [Keys -> SUBSET (Workers \cup {NoWorker})]
  BY <1>2 DEF Return
<1>3. ASSUME NEW listed \in SUBSET Workers, NEW ready \in SUBSET listed,
             Update(listed, ready)
      PROVE  HistoryTypeOK'
  BY <1>1, <1>3 DEF Update, callVars
<1>4. ASSUME NEW c \in Callers, NEW k \in Keys, Find(c, k) PROVE HistoryTypeOK'
  BY <1>1, <1>4 DEF Find
<1>5. ASSUME NEW c \in Callers, Check(c) PROVE HistoryTypeOK'
  BY <1>2, <1>5 DEF Check
<1>6. ASSUME NEW c \in Callers, Pick(c) PROVE HistoryTypeOK'
  BY <1>2, <1>6 DEF Pick
<1>7. ASSUME NEW c \in Callers, Settle(c) PROVE HistoryTypeOK'
  BY <1>2, <1>7 DEF Settle
<1>8. CASE UNCHANGED vars
  BY <1>8 DEF vars, callVars, history
<1> QED
  BY <1>3, <1>4, <1>5, <1>6, <1>7, <1>8 DEF Next

\* An update disturbs no call: what was ready in its time still was.
LEMMA InTimeByUpdate ==
  ASSUME TypeOK, TimeInv, NEW listed \in SUBSET Workers, NEW ready \in SUBSET listed,
         Update(listed, ready), NEW c \in Callers
  PROVE  CallInTime(c)'
<1> USE DEF CallInTime
<1>1. UNCHANGED <<pc, held, chosen, result>>
  BY DEF Update, callVars
<1>2. seen'[c] = IF pc[c] = "idle" THEN seen[c] ELSE seen[c] \cup Answers'
  BY DEF Update
<1>3. CASE pc[c] = "check"
  <2>1. held[c] \in Structs
    BY <1>3 DEF TypeOK
  <2>2. \A w \in Workers : workers'[w] = held[c] => w = chosen[c]
    BY <1>3, <2>1, UpdateStructs DEF TimeInv
  <2>3. ASSUME held[c] \in up' PROVE chosen[c] \in seen'[c]
    <3>1. CASE \E w \in ready : workers'[w] = held[c]
      <4>1. chosen[c] \in Ready'
        BY <2>2, <3>1, UpdateReady
      <4> QED
        BY <1>2, <1>3, <4>1 DEF Answers
    <3>2. CASE held[c] \in up
      BY <1>2, <1>3, <3>2 DEF TimeInv
    <3> QED
      BY <2>3, <3>1, <3>2 DEF Update
  <2> QED
    BY <1>1, <1>2, <1>3, <2>2, <2>3
<1>4. CASE pc[c] # "check"
  BY <1>1, <1>2, <1>4 DEF TimeInv
<1> QED
  BY <1>3, <1>4

\* The steps of one call disturb no other.
LEMMA InTimeByCall ==
  ASSUME TypeOK, TimeInv, NEW d \in Callers, NEW c \in Callers,
         (\E k \in Keys : Find(d, k)) \/ Check(d) \/ Pick(d) \/ Settle(d)
  PROVE  CallInTime(c)'
<1> USE DEF TypeOK, TimeInv, HistoryTypeOK, CallInTime
<1>1. UNCHANGED <<workers, up>> /\ Answers' = Answers
  <2>1. UNCHANGED <<workers, up>>
    BY DEF Find, Check, Pick, Settle, poolVars
  <2> QED
    BY <2>1 DEF Answers, Ready
<1>2. CASE c # d
  BY <1>1, <1>2 DEF Find, Check, Pick, Settle, Return, history
<1>3. CASE c = d
  <2>1. ASSUME NEW k \in Keys, Find(c, k) PROVE CallInTime(c)'
    <3>1. seen'[c] = Answers
      BY <2>1 DEF Find
    <3>2. CASE affinity[k] # NoWorker /\ workers[affinity[k]] # NoStruct
      <4>1. affinity[k] \in Workers /\ workers[affinity[k]] \in Structs
        BY <3>2
      <4>2. pc'[c] = "check" /\ held'[c] = workers[affinity[k]] /\ chosen'[c] = affinity[k]
        BY <2>1, <3>2 DEF Find
      <4>3. held'[c] \in up => chosen'[c] \in Answers
        BY <4>1, <4>2 DEF Answers, Ready
      <4>4. \A w \in Workers : workers[w] = held'[c] => w = chosen'[c]
        BY <4>1, <4>2
      <4> QED
        BY <1>1, <3>1, <4>2, <4>3, <4>4
    <3>3. CASE ~(affinity[k] # NoWorker /\ workers[affinity[k]] # NoStruct)
      BY <1>1, <2>1, <3>1, <3>3 DEF Find
    <3> QED
      BY <3>2, <3>3
  <2>2. CASE Check(c)
    BY <1>1, <2>2 DEF Check, Return
  <2>3. CASE Pick(c)
    <3>1. Answers \subseteq seen[c] /\ seen' = seen
      BY <2>3 DEF Pick
    <3> QED
      BY <1>1, <2>3, <3>1 DEF Pick, Return
  <2>4. CASE Settle(c)
    <3>1. Answers \subseteq seen[c] /\ seen' = seen
      BY <2>4 DEF Settle
    <3>2. affinity[key[c]] \in Ready => affinity[key[c]] \in Answers
      BY DEF Answers
    <3> QED
      BY <1>1, <2>4, <3>1, <3>2 DEF Settle, Return
  <2> QED
    BY <1>3, <2>1, <2>2, <2>3, <2>4
<1> QED
  BY <1>2, <1>3

\* A pick answers with a worker that was ready at some time of the call, or with
\* nil if at some time none was, although it reads the state of a worker with no
\* lock held and Update may run between any two of its steps.
THEOREM PicksAnswerInTime == Spec => []AnswersInTime
<1>1. Init => TimeInv
  BY DEF Init, TimeInv, HistoryTypeOK, CallInTime
<1>2. ASSUME TypeOK, TimeInv, [Next]_vars
      PROVE  TimeInv'
  <2>1. HistoryTypeOK'
    BY <1>2, HistoryTypes DEF TimeInv
  <2>2. ASSUME NEW c \in Callers PROVE CallInTime(c)'
    <3>1. CASE UNCHANGED vars
      BY <1>2, <3>1 DEF vars, poolVars, callVars, history, TimeInv, CallInTime, Answers, Ready
    <3> QED
      BY <1>2, <3>1, InTimeByUpdate, InTimeByCall DEF Next
  <2> QED
    BY <2>1, <2>2 DEF TimeInv
<1>3. TimeInv => AnswersInTime
  BY DEF TimeInv, CallInTime, AnswersInTime
<1> QED
  BY <1>1, <1>2, <1>3, RouterTypes, PTL DEF Spec

-----------------------------------------------------------------------------
(* One worker per session.                                                 *)

\* A call that no snapshot has disturbed has the worker of its session in hand,
\* or one that is ready.
Undisturbed(c) ==
  /\ pc[c] = "check" =>
       /\ workers[chosen[c]] = held[c]
       /\ held[c] \in up => affinity[key[c]] = chosen[c]
  /\ pc[c] = "settle" => chosen[c] \in Ready

\* What such calls were given is the worker the session has now, or nothing if
\* no worker is ready.
GivenAsNow(k) ==
  \A w \in given[k] :
    IF Ready = {} THEN w = NoWorker ELSE w \in Ready /\ w = affinity[k]

SessionInv ==
  /\ \A c \in steady : Undisturbed(c)
  /\ \A k \in Keys : GivenAsNow(k)

\* An update begins a new period, in which nothing has been given yet.
LEMMA SessionByUpdate ==
  ASSUME NEW listed, NEW ready, Update(listed, ready)
  PROVE  SessionInv'
BY DEF Update, SessionInv, GivenAsNow

\* Looking the affinity up gives a call the session's worker or none.
LEMMA SessionByFind ==
  ASSUME TypeOK, HistoryTypeOK, SessionInv, NEW d \in Callers, NEW k \in Keys, Find(d, k)
  PROVE  SessionInv'
<1> USE DEF TypeOK, HistoryTypeOK, SessionInv
<1>1. UNCHANGED <<workers, up, affinity, given>> /\ Ready' = Ready
  BY DEF Find, poolVars, Ready
<1>2. ASSUME NEW c \in steady' PROVE Undisturbed(c)'
  <2>1. CASE c = d
    BY <1>1, <2>1 DEF Find, Undisturbed
  <2>2. CASE c # d
    <3>1. c \in steady /\ c \in Callers
      BY <1>2, <2>2 DEF Find
    <3>2. /\ pc'[c] = pc[c] /\ held'[c] = held[c] /\ chosen'[c] = chosen[c]
          /\ key'[c] = key[c]
      BY <2>2, <3>1 DEF Find
    <3> QED
      BY <1>1, <3>1, <3>2 DEF Undisturbed
  <2> QED
    BY <2>1, <2>2
<1> QED
  BY <1>1, <1>2 DEF GivenAsNow

\* An affinity that is in use stays when another call settles.
LEMMA SettleKeepsReady ==
  ASSUME TypeOK, NEW d \in Callers, Settle(d), NEW k \in Keys, affinity[k] \in Ready
  PROVE  affinity'[k] = affinity[k]
BY DEF Settle, TypeOK

\* The call that returns, and what it adds to what the session was given.
LEMMA SessionByReturn ==
  ASSUME TypeOK, HistoryTypeOK, SessionInv, NEW d \in Callers, NEW w,
         Return(d, w), UNCHANGED <<workers, up, key>>,
         \A c \in Callers \ {d} : held'[c] = held[c] /\ chosen'[c] = chosen[c],
         \A k \in Keys : affinity[k] \in Ready => affinity'[k] = affinity[k],
         d \in steady => IF Ready = {} THEN w = NoWorker
                         ELSE w \in Ready /\ w = affinity'[key[d]]
  PROVE  SessionInv'
<1> USE DEF TypeOK, HistoryTypeOK, SessionInv
<1>1. Ready' = Ready
  BY DEF Ready
<1>2. ASSUME NEW c \in steady' PROVE Undisturbed(c)'
  <2>1. c \in steady /\ c # d /\ c \in Callers
    BY <1>2 DEF Return
  <2>2. pc'[c] = pc[c] /\ held'[c] = held[c] /\ chosen'[c] = chosen[c]
    BY <2>1 DEF Return
  <2>3. Undisturbed(c)
    BY <2>1
  <2>4. ASSUME pc[c] = "check", held[c] \in up PROVE affinity'[key[c]] = chosen[c]
    <3>1. chosen[c] \in Ready
      BY <2>1, <2>3, <2>4 DEF Undisturbed, Ready
    <3> QED
      BY <2>1, <2>3, <2>4, <3>1 DEF Undisturbed
  <2> QED
    BY <1>1, <2>2, <2>3, <2>4 DEF Undisturbed
<1>3. ASSUME NEW k \in Keys PROVE GivenAsNow(k)'
  <2>1. ASSUME NEW x \in given[k]
        PROVE  IF Ready = {} THEN x = NoWorker ELSE x \in Ready /\ x = affinity'[k]
    BY <2>1 DEF GivenAsNow
  <2>2. CASE given'[k] = given[k]
    BY <1>1, <2>1, <2>2 DEF GivenAsNow
  <2>3. CASE given'[k] # given[k]
    <3>1. d \in steady /\ k = key[d] /\ given'[k] = given[k] \cup {w}
      BY <2>3 DEF Return
    <3> QED
      BY <1>1, <2>1, <3>1 DEF GivenAsNow
  <2> QED
    BY <2>2, <2>3
<1> QED
  BY <1>2, <1>3

\* A call that goes on: to pick, or to settle for a worker that is ready.
LEMMA SessionByGoingOn ==
  ASSUME TypeOK, HistoryTypeOK, SessionInv, NEW d \in Callers,
         \/ pc' = [pc EXCEPT ![d] = "pick"]
         \/ pc' = [pc EXCEPT ![d] = "settle"] /\ chosen'[d] \in Ready,
         UNCHANGED <<poolVars, key, steady, given>>,
         \A c \in Callers \ {d} : held'[c] = held[c] /\ chosen'[c] = chosen[c]
  PROVE  SessionInv'
<1> USE DEF TypeOK, HistoryTypeOK, SessionInv
<1>1. Ready' = Ready /\ UNCHANGED <<workers, up, affinity>>
  BY DEF Ready, poolVars
<1>2. ASSUME NEW c \in steady PROVE Undisturbed(c)'
  <2>1. CASE c = d
    BY <1>1, <2>1 DEF Undisturbed
  <2>2. CASE c # d
    <3>1. pc'[c] = pc[c] /\ held'[c] = held[c] /\ chosen'[c] = chosen[c]
      BY <2>2
    <3> QED
      BY <1>1, <3>1 DEF Undisturbed
  <2> QED
    BY <2>1, <2>2
<1> QED
  BY <1>1, <1>2 DEF GivenAsNow

\* Every step of a call keeps the sessions on one worker.
LEMMA SessionByCall ==
  ASSUME TypeOK, HistoryTypeOK, SessionInv, NEW d \in Callers,
         Check(d) \/ Pick(d) \/ Settle(d)
  PROVE  SessionInv'
<1> USE DEF TypeOK, HistoryTypeOK
<1>1. CASE Check(d) /\ held[d] \in up
  <2>1. chosen[d] \in Workers /\ Return(d, chosen[d]) /\ UNCHANGED <<workers, up, key, affinity>>
    BY <1>1 DEF Check, poolVars
  <2>2. d \in steady => chosen[d] \in Ready /\ chosen[d] = affinity[key[d]]
    BY <1>1, <2>1 DEF Check, SessionInv, Undisturbed, Ready
  <2>3. \A c \in Callers \ {d} : held'[c] = held[c] /\ chosen'[c] = chosen[c]
    BY <1>1 DEF Check
  <2> QED
    BY <2>1, <2>2, <2>3, SessionByReturn
<1>2. CASE Check(d) /\ held[d] \notin up
  <2>1. /\ pc' = [pc EXCEPT ![d] = "pick"]
        /\ UNCHANGED <<poolVars, key, steady, given>>
    BY <1>2 DEF Check
  <2>2. \A c \in Callers \ {d} : held'[c] = held[c] /\ chosen'[c] = chosen[c]
    BY <1>2 DEF Check
  <2> QED
    BY <2>1, <2>2, SessionByGoingOn
<1>3. CASE Pick(d)
  <2>1. PICK w \in Answers :
          IF w = NoWorker
            THEN /\ Return(d, NoWorker)
                 /\ UNCHANGED chosen
            ELSE /\ pc' = [pc EXCEPT ![d] = "settle"]
                 /\ chosen' = [chosen EXCEPT ![d] = w]
                 /\ UNCHANGED <<result, steady, given>>
    BY <1>3 DEF Pick
  <2>2. UNCHANGED <<poolVars, key, held>> /\ UNCHANGED <<workers, up, affinity>>
    BY <1>3 DEF Pick, poolVars
  <2>3. \A c \in Callers \ {d} : held'[c] = held[c] /\ chosen'[c] = chosen[c]
    BY <2>1, <2>2
  <2>4. CASE w = NoWorker
    <3>1. Ready = {}
      BY <2>4 DEF Answers, Ready
    <3> QED
      BY <2>1, <2>2, <2>3, <2>4, <3>1, SessionByReturn
  <2>5. CASE w # NoWorker
    <3>1. w \in Ready
      BY <2>5 DEF Answers
    <3> QED
      BY <2>1, <2>2, <2>3, <2>5, <3>1, SessionByGoingOn
  <2> QED
    BY <2>4, <2>5
<1>4. CASE Settle(d)
  <2>1. UNCHANGED <<workers, up, key, held>>
    BY <1>4 DEF Settle
  <2>2. \A c \in Callers \ {d} : held'[c] = held[c] /\ chosen'[c] = chosen[c]
    BY <1>4 DEF Settle
  <2>3. \A k \in Keys : affinity[k] \in Ready => affinity'[k] = affinity[k]
    BY <1>4, SettleKeepsReady
  <2>4. d \in steady => chosen[d] \in Ready
    BY <1>4 DEF Settle, SessionInv, Undisturbed
  <2>5. CASE affinity[key[d]] \in Ready
    <3>1. Return(d, affinity[key[d]]) /\ UNCHANGED affinity
      BY <1>4, <2>5 DEF Settle
    <3> QED
      BY <2>1, <2>2, <2>3, <2>5, <3>1, SessionByReturn
  <2>6. CASE affinity[key[d]] \notin Ready
    <3>1. Return(d, chosen[d]) /\ affinity'[key[d]] = chosen[d]
      BY <1>4, <2>6 DEF Settle
    <3> QED
      BY <2>1, <2>2, <2>3, <2>4, <3>1, SessionByReturn
  <2> QED
    BY <2>5, <2>6
<1> QED
  BY <1>1, <1>2, <1>3, <1>4

\* While no snapshot changes the pool, all picks of a session that begin and end
\* get the same answer, however many race to settle it.
THEOREM SessionsAlwaysOnOneWorker == Spec => []OneWorkerPerSession
<1>1. Init => HistoryTypeOK /\ SessionInv
  BY DEF Init, HistoryTypeOK, SessionInv, GivenAsNow
<1>2. ASSUME TypeOK, HistoryTypeOK, SessionInv, [Next]_vars
      PROVE  HistoryTypeOK' /\ SessionInv'
  <2>1. CASE UNCHANGED vars
    BY <1>2, <2>1 DEF vars, poolVars, callVars, history, HistoryTypeOK, SessionInv,
         Undisturbed, GivenAsNow, Ready
  <2> QED
    BY <1>2, <2>1, HistoryTypes, SessionByUpdate, SessionByFind, SessionByCall DEF Next
<1>3. SessionInv => OneWorkerPerSession
  <2> SUFFICES ASSUME SessionInv, NEW k \in Keys
               PROVE  Cardinality(given[k]) <= 1
    BY DEF OneWorkerPerSession
  <2>1. \A x, y \in given[k] : x = y
    BY DEF SessionInv, GivenAsNow
  <2>2. CASE given[k] = {}
    BY <2>2, FS_EmptySet
  <2>3. CASE given[k] # {}
    <3>1. PICK x \in given[k] : TRUE
      BY <2>3
    <3>2. given[k] = {x}
      BY <2>1, <3>1
    <3>3. Cardinality({x}) = 1
      BY FS_Singleton
    <3> QED
      BY <3>2, <3>3
  <2> QED
    BY <2>2, <2>3
<1> QED
  BY <1>1, <1>2, <1>3, RouterTypes, PTL DEF Spec

\* No pick and no snapshot takes a session away from a worker that is ready before
\* and after it.
THEOREM SessionsStick == Spec => StickySessions
<1>1. ASSUME TypeOK, [Next]_vars
      PROVE  [\A k \in Keys : affinity[k] \in Ready /\ affinity[k] \in Ready'
                => affinity'[k] = affinity[k]]_vars
  <2> SUFFICES ASSUME NEW k \in Keys, Next, affinity[k] \in Ready, affinity[k] \in Ready'
               PROVE  affinity'[k] = affinity[k]
    BY <1>1
  <2>1. ASSUME NEW listed \in SUBSET Workers, NEW ready \in SUBSET listed,
               Update(listed, ready)
        PROVE  affinity'[k] = affinity[k]
    BY <1>1, <2>1, UpdateReady DEF Update
  <2>2. ASSUME NEW c \in Callers, NEW j \in Keys, Find(c, j)
        PROVE  affinity'[k] = affinity[k]
    BY <2>2 DEF Find, poolVars
  <2>3. ASSUME NEW c \in Callers, Check(c) \/ Pick(c)
        PROVE  affinity'[k] = affinity[k]
    BY <2>3 DEF Check, Pick, poolVars
  <2>4. ASSUME NEW c \in Callers, Settle(c)
        PROVE  affinity'[k] = affinity[k]
    BY <1>1, <2>4, SettleKeepsReady
  <2> QED
    BY <2>1, <2>2, <2>3, <2>4 DEF Next
<1> QED
  BY <1>1, RouterTypes, PTL DEF Spec, StickySessions
=============================================================================
