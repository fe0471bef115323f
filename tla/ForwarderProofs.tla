-------------------------- MODULE ForwarderProofs --------------------------
(***************************************************************************)
(* What Forwarder.tla guarantees for any set of workers, any finite set of *)
(* requests and any limits, with proofs checked by TLAPS.                  *)
(***************************************************************************)
EXTENDS Forwarder, FiniteSetTheorems, TLAPS

USE ForwarderAssumption, FleetAssumption, LimiterAssumption, BreakerAssumption

-----------------------------------------------------------------------------
(* Facts about the constants and the operators.                            *)

\* limiter.New clamps: one slot at least, and the first cap within the limits.
LEMMA LimitsOrdered ==
  /\ Floor \in Int /\ Ceiling \in Int /\ Start \in Int
  /\ 1 <= Floor /\ Floor <= Start /\ Start <= Ceiling
<1>1. InitialCap \in Int /\ MinCap \in Int /\ MaxCap \in Int
  OBVIOUS
<1> QED
  BY <1>1 DEF Floor, Ceiling, Start

\* The calls of a request's current attempt are calls.
LEMMA CurrentCalls ==
  ASSUME TypeOK, NEW r \in Requests
  PROVE  /\ Primary(r) \in Calls
         /\ Secondary(r) \in Calls
         /\ Awaited(r) \subseteq Calls
<1>1. attempt[r] \in 0 .. MaxAttempts - 1
  BY DEF TypeOK, HandlerTypeOK
<1>2. Primary(r) \in Calls /\ Secondary(r) \in Calls
  BY <1>1 DEF Primary, Secondary, Calls, Sides
<1> QED
  BY <1>2 DEF Awaited

\* The other side of a race is a call of the same attempt.
LEMMA SiblingIsCall ==
  ASSUME NEW c \in Calls
  PROVE  Sibling(c) \in Calls /\ Sibling(c) # c
BY DEF Sibling, Calls, Sides

\* The request of a call is a request.
LEMMA RequestOfCall ==
  ASSUME NEW c \in Calls
  PROVE  RequestOf(c) \in Requests
BY DEF RequestOf, Calls

-----------------------------------------------------------------------------
(* The operations of the limiter and of a breaker keep their types.        *)

\* The limiter's operations keep its counts and caps integers within their limits.
LEMMA LimiterTypes ==
  ASSUME LimiterTypeOK
  PROVE  /\ UNCHANGED limiterVars => LimiterTypeOK'
         /\ \A w \in Workers :
              Acquire(w) \/ Release(w) \/ OnSuccess(w) \/ OnTimeout(w) => LimiterTypeOK'
<1> USE LimitsOrdered DEF LimiterTypeOK
<1>1. UNCHANGED limiterVars => LimiterTypeOK'
  BY DEF limiterVars
<1>2. ASSUME NEW w \in Workers, Acquire(w) PROVE LimiterTypeOK'
  BY <1>2 DEF Acquire
<1>3. ASSUME NEW w \in Workers, Release(w) PROVE LimiterTypeOK'
  BY <1>3 DEF Release
<1>4. ASSUME NEW w \in Workers, OnSuccess(w) PROVE LimiterTypeOK'
  BY <1>4 DEF OnSuccess
<1>5. ASSUME NEW w \in Workers, OnTimeout(w) PROVE LimiterTypeOK'
  BY <1>5 DEF OnTimeout
<1> QED
  BY <1>1, <1>2, <1>3, <1>4, <1>5

\* The breaker's operations keep its state and failures within their types.
LEMMA BreakerTypes ==
  ASSUME BreakerTypeOK
  PROVE  /\ UNCHANGED breakerVars => BreakerTypeOK'
         /\ \A w \in Workers :
              Allow(w) \/ RecordSuccess(w) \/ RecordFailure(w) \/ CooldownElapses(w)
                => BreakerTypeOK'
<1> USE DEF BreakerTypeOK
<1>1. UNCHANGED breakerVars => BreakerTypeOK'
  BY DEF breakerVars
<1>2. ASSUME NEW w \in Workers, Allow(w) PROVE BreakerTypeOK'
  BY <1>2 DEF Allow
<1>3. ASSUME NEW w \in Workers, RecordSuccess(w) PROVE BreakerTypeOK'
  BY <1>3 DEF RecordSuccess
<1>4. ASSUME NEW w \in Workers, RecordFailure(w) PROVE BreakerTypeOK'
  BY <1>4 DEF RecordFailure
<1>5. ASSUME NEW w \in Workers, CooldownElapses(w) PROVE BreakerTypeOK'
  BY <1>5 DEF CooldownElapses
<1> QED
  BY <1>1, <1>2, <1>3, <1>4, <1>5

-----------------------------------------------------------------------------
(* Types.                                                                  *)

\* The steps of a call's goroutine and of a cleaner keep the types.
LEMMA CallStepTypes ==
  ASSUME TypeOK, NEW c \in Calls, CallStep(c) \/ Reap(c)
  PROVE  TypeOK'
<1> USE LimiterTypes, BreakerTypes DEF TypeOK, HandlerTypeOK, CallTypeOK, handlerVars, callVars
<1>1. CASE HedgePick(c)
  <2>1. PICK w \in PickExcept(target[Sibling(c)]) :
          IF w = NoWorker
            THEN call' = [call EXCEPT ![c] = "nohedge"] /\ target' = target
            ELSE call' = [call EXCEPT ![c] = "gate"] /\ target' = [target EXCEPT ![c] = w]
    BY <1>1 DEF HedgePick
  <2>2. w \in Workers \cup {NoWorker}
    BY DEF PickExcept
  <2> QED
    BY <1>1, <2>1, <2>2 DEF HedgePick
<1>2. CASE HedgeAllow(c)
  BY <1>2 DEF HedgeAllow
<1>3. CASE TakeSlot(c)
  BY <1>3 DEF TakeSlot
<1>4. CASE Dial(c)
  BY <1>4 DEF Dial
<1>5. CASE FirstToken(c)
  BY <1>5 DEF FirstToken
<1>6. CASE CallFails(c)
  BY <1>6 DEF CallFails
<1>7. CASE CallTimedOut(c)
  BY <1>7 DEF CallTimedOut
<1>8. CASE Reap(c)
  BY <1>8 DEF Reap
<1> QED
  BY <1>1, <1>2, <1>3, <1>4, <1>5, <1>6, <1>7, <1>8 DEF CallStep

\* Going on to another attempt, or answering after the last, keeps the types.
LEMMA NextAttemptTypes ==
  ASSUME TypeOK, NEW r \in Requests, NextAttempt(r)
  PROVE  /\ attempt' \in [Requests -> 0 .. MaxAttempts - 1]
         /\ pc' = [pc EXCEPT ![r] = "pick"] \/ pc' = [pc EXCEPT ![r] = "done"]
         /\ response' = response \/ response' = [response EXCEPT ![r] = "502"]
<1>1. attempt \in [Requests -> 0 .. MaxAttempts - 1]
  BY DEF TypeOK, HandlerTypeOK
<1> QED
  BY <1>1 DEF NextAttempt, Finish, MaxAttempts

\* The steps of a request's handler keep the types.
LEMMA HandlerStepTypes ==
  ASSUME TypeOK, NEW r \in Requests, Begin(r) \/ ServeStep(r) \/ ClientLeaves(r)
  PROVE  TypeOK'
<1> USE LimiterTypes, BreakerTypes, CurrentCalls, NextAttemptTypes
      DEF TypeOK, HandlerTypeOK, CallTypeOK, callVars, Finish
<1>1. CASE Begin(r)
  BY <1>1 DEF Begin
<1>2. CASE Pick(r)
  <2>1. PICK w \in Candidates(r) :
          IF w = NoWorker
            THEN Finish(r, "503") /\ prev' = prev
            ELSE /\ prev' = [prev EXCEPT ![r] = w]
                 /\ pc' = [pc EXCEPT ![r] = "allow"]
                 /\ response' = response
    BY <1>2 DEF Pick
  <2>2. w \in Workers \cup {NoWorker}
    BY DEF Candidates, PickForKey, PickExcept
  <2> QED
    BY <1>2, <2>1, <2>2 DEF Pick
<1>15. CASE NoOther(r)
  BY <1>15 DEF NoOther
<1>3. CASE Refused(r)
  BY <1>3 DEF Refused
<1>4. CASE StartRace(r)
  BY <1>4 DEF StartRace
<1>5. CASE TimerFires(r)
  BY <1>5 DEF TimerFires
<1>6. CASE Abandon(r)
  BY <1>6 DEF Abandon
<1>7. ASSUME NEW c \in Calls, Win(r, c) PROVE TypeOK'
  BY <1>7, SiblingIsCall DEF Win, EndRace
<1>8. ASSUME NEW c \in Calls, Overloaded(r, c) PROVE TypeOK'
  BY <1>8, SiblingIsCall DEF Overloaded, EndRace
<1>9. ASSUME NEW c \in Calls, Lose(r, c) PROVE TypeOK'
  <2>1. pc[r] \in {"race", "hedged"}
    BY <1>9 DEF Lose, Awaited
  <2>2. BreakerTypeOK'
    BY <1>9, <2>1 DEF Lose
  <2>3. stopped' \subseteq Calls /\ cleaners' \subseteq Calls
    BY <1>9, SiblingIsCall DEF Lose, EndRace
  <2>4. /\ attempt' \in [Requests -> 0 .. MaxAttempts - 1]
        /\ pc' = [pc EXCEPT ![r] = "pick"] \/ pc' = [pc EXCEPT ![r] = "done"]
        /\ \/ response' = response
           \/ response' = [response EXCEPT ![r] = "502"]
           \/ response' = [response EXCEPT ![r] = "gone"]
    BY <1>9 DEF Lose
  <2> QED
    BY <1>9, <2>2, <2>3, <2>4 DEF Lose
<1>10. CASE SendChunk(r)
  BY <1>10 DEF SendChunk
<1>11. CASE EndStream(r)
  BY <1>11 DEF EndStream
<1>12. CASE AdjustCap(r)
  BY <1>12 DEF AdjustCap
<1>13. CASE Conclude(r)
  BY <1>13 DEF Conclude
<1>14. CASE ClientLeaves(r)
  BY <1>14 DEF ClientLeaves
<1> QED
  BY <1>1, <1>2, <1>3, <1>4, <1>5, <1>6, <1>7, <1>8, <1>9, <1>10, <1>11,
     <1>12, <1>13, <1>14, <1>15 DEF ServeStep

\* Every variable keeps its type, and the nil worker is never used: whatever
\* the pool returns, Serve and its calls look up a breaker, a slot or an
\* address only of a worker they hold.
THEOREM TypesCorrect == Spec => []TypeOK
<1>1. Init => TypeOK
  BY LimitsOrdered
  DEF Init, LimiterInit, BreakerInit, TypeOK, HandlerTypeOK, CallTypeOK,
      LimiterTypeOK, BreakerTypeOK, MaxAttempts
<1>2. TypeOK /\ [Next]_vars => TypeOK'
  <2> SUFFICES ASSUME TypeOK, [Next]_vars PROVE TypeOK'
    OBVIOUS
  <2>1. ASSUME NEW r \in Requests, Begin(r) \/ ServeStep(r) \/ ClientLeaves(r)
        PROVE  TypeOK'
    BY <2>1, HandlerStepTypes
  <2>2. ASSUME NEW c \in Calls, CallStep(c) \/ Reap(c) PROVE TypeOK'
    BY <2>2, CallStepTypes
  <2>3. ASSUME NEW w \in Workers, Cooldown(w) PROVE TypeOK'
    BY <2>3, LimiterTypes, BreakerTypes
    DEF Cooldown, TypeOK, HandlerTypeOK, CallTypeOK, handlerVars, callVars
  <2>4. CASE PoolUpdate
    BY <2>4, LimiterTypes, BreakerTypes
    DEF PoolUpdate, TypeOK, HandlerTypeOK, CallTypeOK, handlerVars, callVars
  <2>5. CASE UNCHANGED vars
    BY <2>5, LimiterTypes, BreakerTypes
    DEF vars, TypeOK, HandlerTypeOK, CallTypeOK, handlerVars, callVars
  <2> QED
    BY <2>1, <2>2, <2>3, <2>4, <2>5 DEF Next
<1> QED
  BY <1>1, <1>2, PTL DEF Spec
-----------------------------------------------------------------------------
(* Breakers.                                                               *)

\* Late and concurrent results never leave a breaker closed with its threshold
\* reached, nor open or half-open below it.
THEOREM BreakersTrackFailures == Spec => []BreakerTracksFailures
<1>1. Init => BreakerTracksFailures
  <2>1. 0 < Threshold
    BY DEF BreakerAssumption
  <2> QED
    BY <2>1 DEF Init, BreakerInit, BreakerTracksFailures
<1>2. TypeOK /\ BreakerTracksFailures /\ [Next]_vars => BreakerTracksFailures'
  <2> SUFFICES ASSUME TypeOK, BreakerTracksFailures, [Next]_vars
               PROVE  BreakerTracksFailures'
    OBVIOUS
  <2> USE DEF BreakerTracksFailures
  <2>1. BreakerTypeOK
    BY DEF TypeOK
  <2>2. UNCHANGED breakerVars => BreakerTracksFailures'
    BY DEF breakerVars
  <2>3. ASSUME NEW w \in Workers, Allow(w) PROVE BreakerTracksFailures'
    BY <2>1, <2>3 DEF Allow, BreakerTypeOK
  <2>4. ASSUME NEW w \in Workers, RecordSuccess(w) PROVE BreakerTracksFailures'
    BY <2>1, <2>4 DEF RecordSuccess, BreakerTypeOK
  <2>5. ASSUME NEW w \in Workers, RecordFailure(w) PROVE BreakerTracksFailures'
    BY <2>1, <2>5 DEF RecordFailure, BreakerTypeOK
  <2>6. ASSUME NEW w \in Workers, CooldownElapses(w) PROVE BreakerTracksFailures'
    BY <2>1, <2>6 DEF CooldownElapses, BreakerTypeOK
  <2>7. ASSUME NEW r \in Requests, ServeStep(r) PROVE BreakerTracksFailures'
    <3>1. CASE StartRace(r)
      BY <2>3, <3>1 DEF StartRace, TypeOK
    <3>2. CASE Abandon(r)
      BY <2>5, <3>2 DEF Abandon, TypeOK
    <3>3. ASSUME NEW c \in Calls, Lose(r, c) PROVE BreakerTracksFailures'
      <4>1. prev[r] \in Workers
        BY <3>3 DEF Lose, Awaited, TypeOK
      <4> QED
        BY <2>5, <3>3, <4>1 DEF Lose
    <3>4. CASE Conclude(r)
      BY <2>4, <2>5, <3>4 DEF Conclude, TypeOK
    <3> QED
      BY <2>2, <2>7, <3>1, <3>2, <3>3, <3>4
      DEF ServeStep, NoOther, Pick, Refused, TimerFires, Win, Overloaded, SendChunk, EndStream,
          AdjustCap
  <2>8. ASSUME NEW c \in Calls, CallStep(c) \/ Reap(c) PROVE BreakerTracksFailures'
    <3>1. CASE HedgeAllow(c)
      BY <2>2, <2>3, <3>1 DEF HedgeAllow, TypeOK
    <3> QED
      BY <2>2, <2>8, <3>1
      DEF CallStep, HedgePick, TakeSlot, Dial, FirstToken, CallFails, CallTimedOut, Reap
  <2> QED
    BY <2>2, <2>6, <2>7, <2>8
    DEF Next, Begin, ClientLeaves, Cooldown, PoolUpdate, vars
<1> QED
  BY <1>1, <1>2, TypesCorrect, PTL DEF Spec

-----------------------------------------------------------------------------
(* Who owns a call.                                                        *)

SideOf(c) == c[3]

\* The tuples that name calls, so that the steps below need not look inside.
LEMMA CallParts ==
  /\ \A c \in Calls :
       /\ RequestOf(c) \in Requests
       /\ AttemptOf(c) \in 0 .. MaxAttempts - 1
       /\ SideOf(c) \in Sides
       /\ Sibling(c) \in Calls /\ Sibling(c) # c
       /\ RequestOf(Sibling(c)) = RequestOf(c)
       /\ AttemptOf(Sibling(c)) = AttemptOf(c)
  /\ \A c, d \in Calls :
       RequestOf(c) = RequestOf(d) /\ AttemptOf(c) = AttemptOf(d)
         => /\ SideOf(c) = SideOf(d) => c = d
            /\ c # d => d = Sibling(c)
BY DEF Calls, RequestOf, AttemptOf, SideOf, Sibling, Sides

Current(c) == AttemptOf(c) = attempt[RequestOf(c)]
PcOf(c) == pc[RequestOf(c)]

\* The attempt, or the race of the attempt, has not reached the call yet.
Fresh(c) ==
  \/ attempt[RequestOf(c)] < AttemptOf(c)
  \/ Current(c) /\ PcOf(c) \in {"idle", "pick", "repick", "allow"}
  \/ Current(c) /\ PcOf(c) = "race" /\ SideOf(c) = "secondary"

\* The handler waits for the call.
Awaits(c) ==
  /\ Current(c)
  /\ PcOf(c) = "hedged" \/ (PcOf(c) = "race" /\ SideOf(c) = "primary")

\* Awaited and Awaits say the same, as do the names of a request's calls.
CallNames ==
  \A c \in Calls, r \in Requests :
    /\ c \in Awaited(r) <=> RequestOf(c) = r /\ Awaits(c)
    /\ c = Primary(r) <=> RequestOf(c) = r /\ Current(c) /\ SideOf(c) = "primary"
    /\ c = Secondary(r) <=> RequestOf(c) = r /\ Current(c) /\ SideOf(c) = "secondary"

\* Every call is named by one tuple of request, attempt and side.
LEMMA CallNamesHold == CallNames
<1> SUFFICES ASSUME NEW c \in Calls, NEW r \in Requests
    PROVE  /\ c \in Awaited(r) <=> RequestOf(c) = r /\ Awaits(c)
           /\ c = Primary(r) <=> RequestOf(c) = r /\ Current(c) /\ SideOf(c) = "primary"
           /\ c = Secondary(r) <=> RequestOf(c) = r /\ Current(c) /\ SideOf(c) = "secondary"
  BY DEF CallNames
<1>1. /\ c = Primary(r) <=> RequestOf(c) = r /\ Current(c) /\ SideOf(c) = "primary"
      /\ c = Secondary(r) <=> RequestOf(c) = r /\ Current(c) /\ SideOf(c) = "secondary"
  BY DEF Calls, Sides, Primary, Secondary, RequestOf, AttemptOf, SideOf, Current
<1>2. SideOf(c) = "primary" \/ SideOf(c) = "secondary"
  BY CallParts DEF Sides
<1>3. CASE pc[r] = "race"
  BY <1>1, <1>3 DEF Awaited, Awaits, Current, PcOf
<1>4. CASE pc[r] = "hedged"
  BY <1>1, <1>2, <1>4 DEF Awaited, Awaits, Current, PcOf
<1>5. CASE pc[r] \notin {"race", "hedged"}
  <2>1. Awaited(r) = {}
    BY <1>5 DEF Awaited
  <2> QED
    BY <1>1, <1>5, <2>1 DEF Awaits, Current, PcOf
<1> QED
  BY <1>1, <1>3, <1>4, <1>5

\* The inductive invariant: a call the attempt has not reached does not exist;
\* one the handler waits for is untouched; one that is relayed is the winner of
\* the current attempt, untouched and the only one; any other that is under way
\* has a cleaner or a client that has gone.
OwnedCall(c) ==
  /\ Fresh(c) => call[c] = "none"
  /\ call[c] = "none" => c \notin stopped \cup cleaners
  /\ Awaits(c) => /\ call[c] \notin {"none", "relayed", "closed", "broken"}
                  /\ c \notin stopped \cup cleaners
  /\ call[c] = "relayed" => /\ Current(c)
                            /\ PcOf(c) = "stream"
                            /\ winner[RequestOf(c)] = target[c]
                            /\ call[Sibling(c)] # "relayed"
                            /\ c \notin stopped \cup cleaners
  /\ Outstanding(c) /\ ~Awaits(c) /\ c \notin cleaners => gone[RequestOf(c)]

CallsOwned == \A c \in Calls : OwnedCall(c)

StreamOwned ==
  \A r \in Requests :
    pc[r] = "stream" => \E c \in Calls : RequestOf(c) = r /\ call[c] = "relayed"

\* A step of one call's goroutine or cleaner keeps the invariant of all calls.
LEMMA CallStepOwned ==
  ASSUME TypeOK, CallsOwned, NEW c \in Calls, CallStep(c) \/ Reap(c)
  PROVE  CallsOwned'
<1> SUFFICES ASSUME NEW d \in Calls PROVE OwnedCall(d)'
  BY DEF CallsOwned
<1>1. /\ UNCHANGED handlerVars
      /\ stopped' = stopped
      /\ Fresh(d)' <=> Fresh(d)
      /\ Awaits(d)' <=> Awaits(d)
      /\ Current(d)' <=> Current(d)
      /\ PcOf(d)' = PcOf(d)
  BY DEF CallStep, HedgePick, HedgeAllow, TakeSlot, Dial, FirstToken, CallFails, CallTimedOut,
         Reap, handlerVars, Fresh, Awaits, Current, PcOf
<1>2. CASE CallStep(c)
  <2>1. /\ cleaners' = cleaners
        /\ Outstanding(c)
        /\ call[c] \notin {"none", "relayed", "closed", "broken"}
        /\ call'[c] \notin {"none", "relayed", "closed", "broken"}
        /\ \A e \in Calls \ {c} : call'[e] = call[e] /\ target'[e] = target[e]
    BY <1>2 DEF CallStep, HedgePick, HedgeAllow, TakeSlot, Dial, FirstToken, CallFails,
       CallTimedOut, Outstanding, TypeOK, CallTypeOK
  <2> QED
    BY <1>1, <2>1, CallParts DEF CallsOwned, OwnedCall, Outstanding, handlerVars
<1>3. CASE Reap(c)
  <2>1. /\ c \in cleaners
        /\ cleaners' = cleaners \ {c}
        /\ call[c] \in {"ok", "busy", "nohedge", "failed"}
        /\ call'[c] \in {"closed", "busy", "nohedge", "failed"}
        /\ target' = target
        /\ \A e \in Calls \ {c} : call'[e] = call[e]
    BY <1>3 DEF Reap, Returned, TypeOK, CallTypeOK
  <2> QED
    BY <1>1, <2>1, CallParts DEF CallsOwned, OwnedCall, Outstanding, handlerVars
<1> QED
  BY <1>2, <1>3

\* How the handler of r leaves an attempt: for the next one, or for good.
LeavesAttempt(r) ==
  \/ /\ attempt' = [attempt EXCEPT ![r] = @ + 1]
     /\ pc' = [pc EXCEPT ![r] = "pick"]
  \/ /\ attempt' = attempt
     /\ pc' = [pc EXCEPT ![r] = "done"]

\* A handler that leaves its attempt awaits no call afterwards, and no call is
\* fresh then that was not.
LEMMA LeavingAttempt ==
  ASSUME TypeOK, NEW r \in Requests, LeavesAttempt(r), NEW c \in Calls
  PROVE  /\ Fresh(c)' => Fresh(c)
         /\ RequestOf(c) = r => ~Awaits(c)' /\ PcOf(c)' \in {"pick", "done"}
         /\ RequestOf(c) # r => /\ Awaits(c)' <=> Awaits(c)
                                /\ Current(c)' <=> Current(c)
                                /\ PcOf(c)' = PcOf(c)
<1>1. /\ attempt \in [Requests -> 0 .. 1] /\ AttemptOf(c) \in 0 .. 1
      /\ RequestOf(c) \in Requests
      /\ pc \in [Requests -> {"idle", "pick", "repick", "allow", "race", "hedged",
                              "stream", "adjust", "record", "done"}]
  BY CallParts DEF TypeOK, HandlerTypeOK, MaxAttempts
<1>2. CASE attempt' = [attempt EXCEPT ![r] = @ + 1] /\ pc' = [pc EXCEPT ![r] = "pick"]
  BY <1>1, <1>2 DEF Fresh, Awaits, Current, PcOf
<1>3. CASE attempt' = attempt /\ pc' = [pc EXCEPT ![r] = "done"]
  BY <1>1, <1>3 DEF Fresh, Awaits, Current, PcOf
<1> QED
  BY <1>2, <1>3 DEF LeavesAttempt

\* The race ends on the result of c, which is not relayed.
LEMMA RaceLostOwned ==
  ASSUME TypeOK, CallsOwned, NEW r \in Requests, NEW c \in Calls, c \in Awaited(r),
         call[c] \in {"busy", "failed", "nohedge"},
         EndRace(r, c), LeavesAttempt(r), UNCHANGED <<gone, winner, call, target>>
  PROVE  CallsOwned'
<1> SUFFICES ASSUME NEW d \in Calls PROVE OwnedCall(d)'
  BY DEF CallsOwned
<1>1. RequestOf(c) = r /\ Awaits(c)
  BY CallNamesHold DEF CallNames
<1>2. /\ Fresh(d)' => Fresh(d)
      /\ RequestOf(d) = r => ~Awaits(d)'
      /\ RequestOf(d) # r => /\ Awaits(d)' <=> Awaits(d)
                             /\ Current(d)' <=> Current(d)
                             /\ PcOf(d)' = PcOf(d)
  BY LeavingAttempt
<1>3. RequestOf(d) = r => call[d] # "relayed"
  BY <1>1 DEF CallsOwned, OwnedCall, Awaits, PcOf
<1>4. RequestOf(d) # r => (d \in stopped' <=> d \in stopped) /\ (d \in cleaners' <=> d \in cleaners)
  BY <1>1, CallParts DEF EndRace
<1>5. call[d] = "none" => d \notin stopped' \cup cleaners'
  <2>1. CASE d = Sibling(c) /\ pc[r] = "hedged"
    <3>1. Awaits(d)
      BY <1>1, <2>1, CallParts DEF Awaits, Current, PcOf
    <3> QED
      BY <3>1 DEF CallsOwned, OwnedCall
  <2>2. CASE ~(d = Sibling(c) /\ pc[r] = "hedged")
    BY <2>2 DEF EndRace, CallsOwned, OwnedCall
  <2> QED
    BY <2>1, <2>2
<1>6. RequestOf(d) = r /\ Outstanding(d) /\ d \notin cleaners' => gone[r]
  <2> SUFFICES ASSUME RequestOf(d) = r, Outstanding(d), d \notin cleaners' PROVE gone[r]
    OBVIOUS
  <2>1. d # c
    BY DEF Outstanding
  <2>2. CASE Awaits(d)
    <3>1. d = Sibling(c)
      BY <1>1, <2>1, <2>2, CallParts DEF Awaits, Current
    <3>2. pc[r] # "hedged"
      BY <3>1 DEF EndRace
    <3>3. SideOf(c) = "primary" /\ SideOf(d) = "primary"
      BY <1>1, <2>2, <3>2 DEF Awaits, PcOf
    <3> QED
      BY <1>1, <2>1, <2>2, <3>3, CallParts DEF Awaits, Current
  <2>3. CASE ~Awaits(d)
    BY <2>3 DEF CallsOwned, OwnedCall, EndRace
  <2> QED
    BY <2>2, <2>3
<1> QED
  BY <1>2, <1>3, <1>4, <1>5, <1>6 DEF CallsOwned, OwnedCall, Outstanding

\* The race ends on the first token of c.
LEMMA WinOwned ==
  ASSUME TypeOK, CallsOwned, NEW r \in Requests, NEW c \in Calls, Win(r, c)
  PROVE  CallsOwned'
<1> SUFFICES ASSUME NEW d \in Calls PROVE OwnedCall(d)'
  BY DEF CallsOwned
<1>1. RequestOf(c) = r /\ Awaits(c)
  BY CallNamesHold DEF CallNames, Win
<1>2. /\ attempt' = attempt /\ gone' = gone /\ target' = target
      /\ pc' = [pc EXCEPT ![r] = "stream"] /\ DOMAIN pc = Requests
      /\ winner' = [winner EXCEPT ![r] = target[c]] /\ DOMAIN winner = Requests
      /\ call' = [call EXCEPT ![c] = "relayed"] /\ DOMAIN call = Calls
  BY DEF Win, TypeOK, HandlerTypeOK, CallTypeOK
<1>3. /\ RequestOf(d) = r => PcOf(d)' = "stream" /\ ~Awaits(d)' /\ (Fresh(d)' => Fresh(d))
      /\ Current(d)' <=> Current(d)
      /\ RequestOf(d) # r => /\ Awaits(d)' <=> Awaits(d)
                             /\ Fresh(d)' <=> Fresh(d)
                             /\ PcOf(d)' = PcOf(d)
                             /\ winner'[RequestOf(d)] = winner[RequestOf(d)]
  BY <1>2, CallParts DEF Fresh, Awaits, Current, PcOf
<1>4. RequestOf(d) = r => call[d] # "relayed" /\ call[Sibling(d)] # "relayed"
  BY <1>1, CallParts DEF CallsOwned, OwnedCall, Awaits, PcOf
<1>5. CASE d = c
  <2>1. d \notin stopped' \cup cleaners'
    BY <1>1, <1>5, CallParts DEF Win, EndRace, CallsOwned, OwnedCall
  <2>2. ~Fresh(c)
    BY <1>1 DEF CallsOwned, OwnedCall, Win
  <2>3. call'[d] = "relayed" /\ call'[Sibling(d)] # "relayed" /\ winner'[r] = target[d]
    BY <1>2, <1>4, <1>5, <1>1, CallParts
  <2>4. Current(d)
    BY <1>1, <1>5 DEF Awaits
  <2> QED
    BY <1>1, <1>2, <1>3, <1>5, <2>1, <2>2, <2>3, <2>4 DEF OwnedCall, Outstanding
<1>6. CASE d # c /\ RequestOf(d) = r
  <2>1. call'[d] = call[d]
    BY <1>2, <1>6
  <2>2. call[d] = "none" => d \notin stopped' \cup cleaners'
    <3>1. CASE pc[r] = "hedged" /\ d = Sibling(c)
      <4>1. Awaits(d)
        BY <1>1, <3>1, CallParts DEF Awaits, Current, PcOf
      <4> QED
        BY <4>1 DEF CallsOwned, OwnedCall
    <3>2. CASE ~(pc[r] = "hedged" /\ d = Sibling(c))
      BY <3>2 DEF Win, EndRace, CallsOwned, OwnedCall
    <3> QED
      BY <3>1, <3>2
  <2>3. Outstanding(d) /\ d \notin cleaners' => gone[r]
    <3> SUFFICES ASSUME Outstanding(d), d \notin cleaners' PROVE gone[r]
      OBVIOUS
    <3>1. CASE Awaits(d)
      <4>1. d = Sibling(c)
        BY <1>1, <1>6, <3>1, CallParts DEF Awaits, Current
      <4>2. pc[r] # "hedged"
        BY <4>1 DEF Win, EndRace
      <4>3. SideOf(c) = SideOf(d)
        BY <1>1, <1>6, <3>1, <4>2 DEF Awaits, PcOf
      <4> QED
        BY <1>1, <1>6, <3>1, <4>3, CallParts DEF Awaits, Current
    <3>2. CASE ~Awaits(d)
      BY <1>6, <3>2 DEF Win, EndRace, CallsOwned, OwnedCall
    <3> QED
      BY <3>1, <3>2
  <2> QED
    BY <1>2, <1>3, <1>4, <1>6, <2>1, <2>2, <2>3 DEF CallsOwned, OwnedCall, Outstanding
<1>7. CASE RequestOf(d) # r
  <2>1. call'[d] = call[d] /\ call'[Sibling(d)] = call[Sibling(d)]
    BY <1>1, <1>2, <1>7, CallParts
  <2>2. (d \in stopped' <=> d \in stopped) /\ (d \in cleaners' <=> d \in cleaners)
    BY <1>1, <1>7, CallParts DEF Win, EndRace
  <2> QED
    BY <1>2, <1>3, <1>7, <2>1, <2>2 DEF CallsOwned, OwnedCall, Outstanding
<1> QED
  BY <1>5, <1>6, <1>7

\* Every step of a handler keeps the invariant.
LEMMA HandlerStepOwned ==
  ASSUME TypeOK, CallsOwned, NEW r \in Requests,
         Begin(r) \/ ServeStep(r) \/ ClientLeaves(r)
  PROVE  CallsOwned'
<1>1. CASE Begin(r) \/ NoOther(r) \/ Pick(r)
  <2> SUFFICES ASSUME NEW d \in Calls PROVE OwnedCall(d)'
    BY DEF CallsOwned
  <2>1. /\ UNCHANGED <<attempt, gone, winner, call, target, stopped, cleaners>>
        /\ pc[r] \in {"idle", "pick", "repick"}
        /\ \E p \in {"pick", "repick", "allow", "done"} : pc' = [pc EXCEPT ![r] = p]
    BY <1>1 DEF Begin, NoOther, Pick, Finish, callVars
  <2>2. /\ Fresh(d)' => Fresh(d)
        /\ Awaits(d)' <=> Awaits(d)
        /\ Current(d)' <=> Current(d)
        /\ PcOf(d) = "stream" => PcOf(d)' = "stream"
    BY <2>1, CallParts DEF Fresh, Awaits, Current, PcOf, TypeOK, HandlerTypeOK
  <2> QED
    BY <2>1, <2>2 DEF CallsOwned, OwnedCall, Outstanding
<1>2. CASE Refused(r)
  <2> SUFFICES ASSUME NEW d \in Calls PROVE OwnedCall(d)'
    BY DEF CallsOwned
  <2>1. LeavesAttempt(r) /\ UNCHANGED <<gone, winner, call, target, stopped, cleaners>>
    BY <1>2 DEF Refused, NextAttempt, Finish, LeavesAttempt, callVars
  <2>2. RequestOf(d) = r => ~Awaits(d) /\ PcOf(d) # "stream"
    BY <1>2 DEF Refused, Awaits, PcOf
  <2> QED
    BY <2>1, <2>2, LeavingAttempt DEF CallsOwned, OwnedCall, Outstanding
<1>3. CASE StartRace(r) \/ TimerFires(r)
  <2> SUFFICES ASSUME NEW d \in Calls PROVE OwnedCall(d)'
    BY DEF CallsOwned
  <2>1. PICK c \in {Primary(r), Secondary(r)} :
          /\ UNCHANGED <<attempt, gone, winner, stopped, cleaners>>
          /\ pc' = [pc EXCEPT ![r] = IF c = Primary(r) THEN "race" ELSE "hedged"]
          /\ pc[r] = IF c = Primary(r) THEN "allow" ELSE "race"
          /\ call' = [call EXCEPT ![c] = IF c = Primary(r) THEN "start" ELSE "hedge"]
          /\ \A e \in Calls \ {c} : target'[e] = target[e]
    BY <1>3, CurrentCalls
    DEF StartRace, TimerFires, TypeOK, CallTypeOK, Primary, Secondary
  <2>2. /\ c \in Calls /\ RequestOf(c) = r /\ Current(c)
        /\ c = Primary(r) <=> SideOf(c) = "primary"
    BY <2>1, CurrentCalls, CallNamesHold DEF CallNames
  <2>3. call[c] = "none" /\ c \notin stopped \cup cleaners
    BY <2>1, <2>2, CallParts DEF CallsOwned, OwnedCall, Fresh, PcOf, Sides
  <2>4. /\ Current(d)' <=> Current(d)
        /\ PcOf(d)' = "stream" <=> PcOf(d) = "stream"
        /\ d # c => (Fresh(d)' => Fresh(d)) /\ (Awaits(d)' <=> Awaits(d))
        /\ d = c => ~Fresh(d)' /\ Awaits(d)'
    BY <2>1, <2>2, CallParts
    DEF Fresh, Awaits, Current, PcOf, TypeOK, HandlerTypeOK, MaxAttempts, Sides
  <2>5. /\ d # c => call'[d] = call[d]
        /\ call'[c] \in {"start", "hedge"}
        /\ call'[Sibling(d)] = "relayed" => call[Sibling(d)] = "relayed"
    BY <2>1, <2>2, CallParts DEF TypeOK, CallTypeOK
  <2> QED
    BY <2>1, <2>2, <2>3, <2>4, <2>5 DEF CallsOwned, OwnedCall, Outstanding
<1>4. CASE Abandon(r)
  <2> SUFFICES ASSUME NEW d \in Calls PROVE OwnedCall(d)'
    BY DEF CallsOwned
  <2>1. /\ LeavesAttempt(r) /\ UNCHANGED <<gone, winner, call, target, cleaners>>
        /\ stopped' = stopped \cup Awaited(r)
        /\ gone[r] /\ pc[r] \in {"race", "hedged"}
    BY <1>4 DEF Abandon, Finish, LeavesAttempt
  <2>2. d \in Awaited(r) <=> RequestOf(d) = r /\ Awaits(d)
    BY CallNamesHold DEF CallNames
  <2> QED
    BY <2>1, <2>2, LeavingAttempt DEF CallsOwned, OwnedCall, Outstanding, PcOf
<1>5. ASSUME NEW c \in Calls, Win(r, c) PROVE CallsOwned'
  BY <1>5, WinOwned
<1>6. ASSUME NEW c \in Calls, Overloaded(r, c) \/ Lose(r, c) PROVE CallsOwned'
  <2>1. /\ c \in Awaited(r) /\ call[c] \in {"busy", "failed", "nohedge"}
        /\ EndRace(r, c) /\ UNCHANGED <<gone, winner, call, target>>
    BY <1>6 DEF Overloaded, Lose
  <2>2. LeavesAttempt(r)
    BY <1>6 DEF Overloaded, Lose, NextAttempt, Finish, LeavesAttempt
  <2> QED
    BY <2>1, <2>2, RaceLostOwned
<1>7. CASE SendChunk(r) \/ AdjustCap(r) \/ ClientLeaves(r)
  <2> SUFFICES ASSUME NEW d \in Calls PROVE OwnedCall(d)'
    BY DEF CallsOwned
  <2>1. /\ UNCHANGED <<attempt, winner, call, target, stopped, cleaners>>
        /\ pc' = pc \/ (pc[r] = "adjust" /\ pc' = [pc EXCEPT ![r] = "record"])
        /\ gone' = gone \/ gone' = [gone EXCEPT ![r] = TRUE]
    BY <1>7 DEF SendChunk, AdjustCap, ClientLeaves, callVars
  <2>2. /\ Fresh(d)' <=> Fresh(d)
        /\ Awaits(d)' <=> Awaits(d)
        /\ Current(d)' <=> Current(d)
        /\ PcOf(d) = "stream" <=> PcOf(d)' = "stream"
        /\ gone[RequestOf(d)] => gone'[RequestOf(d)]
    BY <2>1, CallParts DEF Fresh, Awaits, Current, PcOf, TypeOK, HandlerTypeOK
  <2> QED
    BY <2>1, <2>2 DEF CallsOwned, OwnedCall, Outstanding
<1>8. CASE EndStream(r)
  <2> SUFFICES ASSUME NEW d \in Calls PROVE OwnedCall(d)'
    BY DEF CallsOwned
  <2>1. PICK c \in Calls :
          /\ RequestOf(c) = r /\ call[c] = "relayed"
          /\ \E v \in {"closed", "broken"} : call' = [call EXCEPT ![c] = v]
    BY <1>8 DEF EndStream
  <2>2. /\ UNCHANGED <<attempt, gone, winner, target, stopped, cleaners>>
        /\ pc[r] = "stream" /\ pc' = [pc EXCEPT ![r] = "adjust"]
    BY <1>8 DEF EndStream
  <2>3. /\ Fresh(d)' <=> Fresh(d)
        /\ Awaits(d)' <=> Awaits(d)
        /\ Current(d)' <=> Current(d)
        /\ RequestOf(d) # r => PcOf(d)' = PcOf(d)
    BY <2>2, CallParts DEF Fresh, Awaits, Current, PcOf, TypeOK, HandlerTypeOK
  <2>4. d # c => call'[d] = call[d]
    BY <2>1 DEF TypeOK, CallTypeOK
  <2>5. call'[c] \in {"closed", "broken"}
    BY <2>1 DEF TypeOK, CallTypeOK
  <2>6. d # c /\ RequestOf(d) = r => call[d] # "relayed"
    BY <2>1, CallParts DEF CallsOwned, OwnedCall, Current
  <2>7. call'[Sibling(d)] = "relayed" => call[Sibling(d)] = "relayed"
    BY <2>1, <2>5, CallParts DEF TypeOK, CallTypeOK
  <2>8. CASE d = c
    BY <2>1, <2>2, <2>3, <2>5, <2>8 DEF CallsOwned, OwnedCall, Outstanding, PcOf, Awaits
  <2>9. CASE d # c
    BY <2>2, <2>3, <2>4, <2>6, <2>7, <2>9 DEF CallsOwned, OwnedCall, Outstanding
  <2> QED
    BY <2>8, <2>9
<1>9. CASE Conclude(r)
  <2> SUFFICES ASSUME NEW d \in Calls PROVE OwnedCall(d)'
    BY DEF CallsOwned
  <2>1. /\ LeavesAttempt(r) /\ UNCHANGED <<gone, call, target, stopped, cleaners>>
        /\ winner' = [winner EXCEPT ![r] = NoWorker]
        /\ pc[r] = "record"
    BY <1>9 DEF Conclude, NextAttempt, Finish, LeavesAttempt, callVars
  <2>2. RequestOf(d) = r => ~Awaits(d) /\ PcOf(d) # "stream"
    BY <2>1 DEF Awaits, PcOf
  <2>3. RequestOf(d) # r => winner'[RequestOf(d)] = winner[RequestOf(d)]
    BY <2>1, CallParts DEF TypeOK, HandlerTypeOK
  <2> QED
    BY <2>1, <2>2, <2>3, LeavingAttempt DEF CallsOwned, OwnedCall, Outstanding
<1> QED
  BY <1>1, <1>2, <1>3, <1>4, <1>5, <1>6, <1>7, <1>8, <1>9 DEF ServeStep

\* A chunk, and the end of a stream, leave every call with its owner.
LEMMA StreamStepOwned ==
  ASSUME TypeOK, StreamOwned, [Next]_vars
  PROVE  StreamOwned'
<1> SUFFICES ASSUME NEW r \in Requests, pc'[r] = "stream"
             PROVE  \E c \in Calls : RequestOf(c) = r /\ call'[c] = "relayed"
  BY DEF StreamOwned
<1> DEFINE Kept == \A c \in Calls :
             RequestOf(c) = r /\ call[c] = "relayed" => call'[c] = "relayed"
<1>1. pc[r] = "stream" /\ Kept => \E c \in Calls : RequestOf(c) = r /\ call'[c] = "relayed"
  BY DEF StreamOwned
<1>2. ASSUME NEW q \in Requests, Begin(q) \/ ServeStep(q) \/ ClientLeaves(q)
      PROVE  \E c \in Calls : RequestOf(c) = r /\ call'[c] = "relayed"
  <2>1. ASSUME NEW c \in Calls, Win(q, c), q = r
        PROVE  \E d \in Calls : RequestOf(d) = r /\ call'[d] = "relayed"
    <3>1. RequestOf(c) = r
      BY <2>1, CallNamesHold DEF Win, CallNames
    <3> QED
      BY <2>1, <3>1 DEF Win, TypeOK, CallTypeOK
  <2>2. ASSUME NEW c \in Calls, Win(q, c), q # r
        PROVE  pc[r] = "stream" /\ Kept
    BY <2>2 DEF Win, TypeOK, HandlerTypeOK, CallTypeOK
  <2>3. CASE EndStream(q)
    <3>1. q # r /\ pc[r] = "stream"
      BY <2>3 DEF EndStream, TypeOK, HandlerTypeOK
    <3>2. PICK c \in Calls, v \in {"ok", "timeout", "error"} :
            /\ RequestOf(c) = q
            /\ call' = [call EXCEPT ![c] = IF v = "ok" THEN "closed" ELSE "broken"]
      BY <2>3 DEF EndStream
    <3>3. Kept
      BY <3>1, <3>2 DEF TypeOK, CallTypeOK
    <3> QED
      BY <3>1, <3>3, <1>1
  <2>4. CASE StartRace(q)
    <3>1. q # r /\ pc[r] = "stream"
      BY <2>4 DEF StartRace, TypeOK, HandlerTypeOK
    <3>2. RequestOf(Primary(q)) = q
      BY DEF RequestOf, Primary
    <3> QED
      BY <2>4, <3>1, <3>2, <1>1 DEF StartRace, TypeOK, CallTypeOK, StreamOwned
  <2>5. CASE TimerFires(q)
    <3>1. q # r /\ pc[r] = "stream"
      BY <2>5 DEF TimerFires, TypeOK, HandlerTypeOK
    <3>2. RequestOf(Secondary(q)) = q
      BY DEF RequestOf, Secondary
    <3> QED
      BY <2>5, <3>1, <3>2, <1>1 DEF TimerFires, TypeOK, CallTypeOK, StreamOwned
  <2>6. CASE Begin(q) \/ NoOther(q) \/ Pick(q) \/ Refused(q) \/ Abandon(q) \/ SendChunk(q)
             \/ AdjustCap(q) \/ Conclude(q) \/ ClientLeaves(q)
    <3>1. call' = call /\ pc[r] = "stream"
      BY <2>6
      DEF Begin, NoOther, Pick, Refused, Abandon, SendChunk, AdjustCap, Conclude, ClientLeaves,
          NextAttempt, Finish, callVars, TypeOK, HandlerTypeOK
    <3> QED
      BY <3>1 DEF StreamOwned
  <2>7. ASSUME NEW c \in Calls, Overloaded(q, c) \/ Lose(q, c)
        PROVE  call' = call /\ pc[r] = "stream"
    BY <2>7 DEF Overloaded, Lose, NextAttempt, Finish, TypeOK, HandlerTypeOK
  <2> QED
    BY <1>2, <1>1, <2>1, <2>2, <2>3, <2>4, <2>5, <2>6, <2>7 DEF ServeStep, StreamOwned
<1>3. ASSUME NEW c \in Calls, CallStep(c) \/ Reap(c)
      PROVE  pc[r] = "stream" /\ Kept
  BY <1>3 DEF CallStep, HedgePick, HedgeAllow, TakeSlot, Dial, FirstToken, CallFails,
     CallTimedOut, Reap, Returned, handlerVars, TypeOK, CallTypeOK
<1>4. ASSUME UNCHANGED <<handlerVars, callVars>>
      PROVE  pc[r] = "stream" /\ Kept
  BY <1>4 DEF handlerVars, callVars
<1> QED
  BY <1>1, <1>2, <1>3, <1>4 DEF Next, Cooldown, PoolUpdate, vars

\* The invariant of the calls, and the two properties it was made for.
THEOREM CallsAlwaysOwned == Spec => [](CallsOwned /\ StreamOwned)
<1>1. Init => CallsOwned /\ StreamOwned
  BY CallParts DEF Init, CallsOwned, OwnedCall, Outstanding, Awaits, PcOf, StreamOwned
<1>2. TypeOK /\ CallsOwned /\ [Next]_vars => CallsOwned'
  <2> SUFFICES ASSUME TypeOK, CallsOwned, [Next]_vars PROVE CallsOwned'
    OBVIOUS
  <2>1. ASSUME UNCHANGED <<handlerVars, callVars>> PROVE CallsOwned'
    BY <2>1 DEF handlerVars, callVars, CallsOwned, OwnedCall, Outstanding, Fresh, Awaits,
       Current, PcOf
  <2> QED
    BY <2>1, HandlerStepOwned, CallStepOwned DEF Next, Cooldown, PoolUpdate, vars
<1>3. TypeOK /\ StreamOwned /\ [Next]_vars => StreamOwned'
  BY StreamStepOwned
<1> QED
  BY <1>1, <1>2, <1>3, TypesCorrect, PTL DEF Spec

\* However calls return, race, get cancelled and are cleaned up, one that nobody
\* will receive belongs to a client that has gone.
THEOREM OrphansNeedDeparture == Spec => []OrphansOnlyOfGoneClients
<1>1. TypeOK /\ CallsOwned => OrphansOnlyOfGoneClients
  BY CallNamesHold, CallParts
  DEF CallNames, CallsOwned, OwnedCall, OrphansOnlyOfGoneClients
<1> QED
  BY <1>1, TypesCorrect, CallsAlwaysOwned, PTL

\* The stream a client is reading is never the one the race cancels or the
\* cleaner closes, and it is the only one of its request.
THEOREM RelaysUndisturbed == Spec => []RelayUndisturbed
<1>1. TypeOK /\ CallsOwned /\ StreamOwned => RelayUndisturbed
  <2> SUFFICES ASSUME TypeOK, CallsOwned, StreamOwned, NEW r \in Requests
               PROVE  LET relayed == {c \in Calls : RequestOf(c) = r /\ call[c] = "relayed"}
                      IN  IF pc[r] = "stream"
                            THEN \E c \in {Primary(r), Secondary(r)} :
                                   /\ relayed = {c}
                                   /\ winner[r] = target[c]
                                   /\ c \notin stopped \cup cleaners
                            ELSE relayed = {}
    BY DEF RelayUndisturbed
  <2> DEFINE relayed == {c \in Calls : RequestOf(c) = r /\ call[c] = "relayed"}
  <2>1. CASE pc[r] = "stream"
    <3>1. PICK c \in Calls : RequestOf(c) = r /\ call[c] = "relayed"
      BY <2>1 DEF StreamOwned
    <3>2. /\ Current(c) /\ winner[r] = target[c] /\ c \notin stopped \cup cleaners
          /\ call[Sibling(c)] # "relayed"
      BY <3>1 DEF CallsOwned, OwnedCall
    <3>3. c \in {Primary(r), Secondary(r)}
      BY <3>1, <3>2, CallNamesHold, CallParts DEF CallNames, Sides
    <3>4. ASSUME NEW d \in relayed PROVE d = c
      <4>1. Current(d)
        BY <3>4 DEF CallsOwned, OwnedCall
      <4> QED
        BY <3>1, <3>2, <3>4, <4>1, CallParts DEF Current
    <3>5. relayed = {c}
      BY <3>1, <3>4
    <3> QED
      BY <2>1, <3>2, <3>3, <3>5
  <2>2. CASE pc[r] # "stream"
    BY <2>2 DEF CallsOwned, OwnedCall, PcOf
  <2> QED
    BY <2>1, <2>2
<1> QED
  BY <1>1, TypesCorrect, CallsAlwaysOwned, PTL

-----------------------------------------------------------------------------
(* The limiter's slots.                                                    *)

\* There are finitely many calls.
LEMMA CallsFinite == IsFiniteSet(Calls)
<1> DEFINE S == (Requests \X (0 .. MaxAttempts - 1)) \X Sides
           f == [p \in S |-> <<p[1][1], p[1][2], p[2]>>]
<1>1. IsFiniteSet(Requests) /\ IsFiniteSet(0 .. MaxAttempts - 1) /\ IsFiniteSet(Sides)
  <2>1. IsFiniteSet(0 .. MaxAttempts - 1)
    <3>1. 0 \in Int /\ MaxAttempts - 1 \in Int
      BY DEF MaxAttempts
    <3> QED
      BY <3>1, FS_Interval
  <2>2. IsFiniteSet(Sides)
    <3>1. Sides = {"primary"} \cup {"secondary"}
      BY DEF Sides
    <3> QED
      BY <3>1, FS_Singleton, FS_AddElement
  <2> QED
    BY <2>1, <2>2
<1>2. IsFiniteSet(S)
  BY <1>1, FS_Product
<1>3. f \in Surjection(S, Calls)
  <2>1. f \in [S -> Calls]
    BY DEF Calls
  <2>2. ASSUME NEW c \in Calls PROVE \E p \in S : f[p] = c
    <3>1. << <<c[1], c[2]>>, c[3] >> \in S /\ f[<< <<c[1], c[2]>>, c[3] >>] = c
      BY DEF Calls
    <3> QED
      BY <3>1
  <2> QED
    BY <2>1, <2>2 DEF Surjection
<1> QED
  BY <1>2, <1>3, FS_Surjection

\* Finitely many calls hold slots of a worker.
LEMMA SlotsFinite ==
  ASSUME NEW w
  PROVE  /\ IsFiniteSet(SlotsOf(w)) /\ Cardinality(SlotsOf(w)) \in Nat
         /\ SlotsOf(w) = {} <=> Cardinality(SlotsOf(w)) = 0
<1>1. SlotsOf(w) \subseteq Calls
  BY DEF SlotsOf
<1> QED
  BY <1>1, CallsFinite, FS_Subset, FS_CardinalityType, FS_EmptySet

\* The limiter's counts agree with the calls, and stay within the maximum.
SlotInv == \A w \in Workers : inflight[w] = Cardinality(SlotsOf(w)) /\ inflight[w] <= Ceiling

\* A step that neither takes nor gives back a slot.
LEMMA SlotsKept ==
  ASSUME SlotInv, inflight' = inflight,
         \A c \in Calls : /\ HoldsSlot(c)' <=> HoldsSlot(c)
                          /\ HoldsSlot(c) => target'[c] = target[c]
  PROVE  SlotInv'
<1>1. \A w : SlotsOf(w)' = SlotsOf(w)
  BY DEF SlotsOf
<1> QED
  BY <1>1 DEF SlotInv

\* A step in which one call takes a slot of its target.
LEMMA SlotTaken ==
  ASSUME TypeOK, SlotInv, NEW c \in Calls, target[c] \in Workers,
         ~HoldsSlot(c), HoldsSlot(c)', target' = target, Acquire(target[c]),
         \A d \in Calls \ {c} : HoldsSlot(d)' <=> HoldsSlot(d)
  PROVE  SlotInv'
<1> SUFFICES ASSUME NEW w \in Workers
             PROVE  inflight'[w] = Cardinality(SlotsOf(w)') /\ inflight'[w] <= Ceiling
  BY DEF SlotInv
<1>1. /\ inflight[w] \in Nat /\ caps[w] \in Floor .. Ceiling
      /\ inflight'[w] = IF w = target[c] THEN inflight[w] + 1 ELSE inflight[w]
      /\ w = target[c] => inflight[w] < caps[w]
  BY DEF Acquire, HasSlot, TypeOK, LimiterTypeOK
<1>2. CASE w = target[c]
  <2>1. SlotsOf(w)' = SlotsOf(w) \cup {c} /\ c \notin SlotsOf(w)
    BY <1>2 DEF SlotsOf
  <2>2. Cardinality(SlotsOf(w)') = Cardinality(SlotsOf(w)) + 1
    BY <2>1, SlotsFinite, FS_AddElement
  <2> QED
    BY <1>1, <1>2, <2>2, LimitsOrdered DEF SlotInv
<1>3. CASE w # target[c]
  <2>1. SlotsOf(w)' = SlotsOf(w)
    BY <1>3 DEF SlotsOf
  <2> QED
    BY <1>1, <1>3, <2>1 DEF SlotInv
<1> QED
  BY <1>2, <1>3

\* A step in which one call's slot is given back.
LEMMA SlotGiven ==
  ASSUME TypeOK, SlotInv, NEW c \in Calls, target[c] \in Workers,
         HoldsSlot(c), ~HoldsSlot(c)', target' = target, Release(target[c]),
         \A d \in Calls \ {c} : HoldsSlot(d)' <=> HoldsSlot(d)
  PROVE  SlotInv'
<1> SUFFICES ASSUME NEW w \in Workers
             PROVE  inflight'[w] = Cardinality(SlotsOf(w)') /\ inflight'[w] <= Ceiling
  BY DEF SlotInv
<1>1. inflight \in [Workers -> Nat]
  BY DEF TypeOK, LimiterTypeOK
<1>2. CASE w = target[c]
  <2>1. SlotsOf(w)' = SlotsOf(w) \ {c} /\ c \in SlotsOf(w)
    BY <1>2 DEF SlotsOf
  <2>2. Cardinality(SlotsOf(w)') = Cardinality(SlotsOf(w)) - 1
    BY <2>1, SlotsFinite, FS_RemoveElement
  <2>3. inflight[w] > 0
    BY <1>1, <2>1, SlotsFinite DEF SlotInv
  <2>4. inflight'[w] = inflight[w] - 1
    BY <1>1, <1>2, <2>3 DEF Release
  <2> QED
    BY <1>1, <2>2, <2>4, LimitsOrdered DEF SlotInv
<1>3. CASE w # target[c]
  <2>1. SlotsOf(w)' = SlotsOf(w)
    BY <1>3 DEF SlotsOf
  <2> QED
    BY <1>1, <1>3, <2>1 DEF SlotInv, Release
<1> QED
  BY <1>2, <1>3

\* A step of a call or a cleaner keeps the count equal to the slots held.
LEMMA CallStepSlots ==
  ASSUME TypeOK, SlotInv, NEW c \in Calls, CallStep(c) \/ Reap(c)
  PROVE  SlotInv'
<1> USE DEF TypeOK, CallTypeOK
<1>1. CASE HedgePick(c) \/ HedgeAllow(c) \/ Dial(c) \/ FirstToken(c) \/ CallTimedOut(c)
  <2>1. /\ inflight' = inflight
        /\ \A d \in Calls : /\ HoldsSlot(d)' <=> HoldsSlot(d)
                            /\ HoldsSlot(d) => target'[d] = target[d]
    BY <1>1 DEF HedgePick, HedgeAllow, Dial, FirstToken, CallTimedOut, OnTimeout, HoldsSlot,
       limiterVars
  <2> QED
    BY <2>1, SlotsKept
<1>2. CASE TakeSlot(c)
  <2>1. CASE HasSlot(target[c])
    BY <1>2, <2>1, SlotTaken DEF TakeSlot, HoldsSlot
  <2>2. CASE ~HasSlot(target[c])
    BY <1>2, <2>2, SlotsKept DEF TakeSlot, HoldsSlot, limiterVars
  <2> QED
    BY <2>1, <2>2
<1>3. CASE CallFails(c)
  BY <1>3, SlotGiven DEF CallFails, HoldsSlot
<1>4. CASE Reap(c)
  <2>1. CASE call[c] = "ok"
    BY <1>4, <2>1, SlotGiven DEF Reap, HoldsSlot
  <2>2. CASE call[c] # "ok"
    BY <1>4, <2>2, SlotsKept DEF Reap, HoldsSlot, limiterVars
  <2> QED
    BY <2>1, <2>2
<1> QED
  BY <1>1, <1>2, <1>3, <1>4 DEF CallStep

\* So does a step of a handler.
LEMMA HandlerStepSlots ==
  ASSUME TypeOK, CallsOwned, SlotInv, NEW r \in Requests,
         Begin(r) \/ ServeStep(r) \/ ClientLeaves(r)
  PROVE  SlotInv'
<1> USE DEF TypeOK, CallTypeOK
<1>1. CASE StartRace(r) \/ TimerFires(r)
  <2>1. PICK c \in Calls :
          /\ Fresh(c) /\ inflight' = inflight
          /\ \E p \in {"start", "hedge"} : call' = [call EXCEPT ![c] = p]
          /\ \A d \in Calls \ {c} : target'[d] = target[d]
    <3>1. CASE StartRace(r)
      <4>1. /\ Primary(r) \in Calls /\ RequestOf(Primary(r)) = r /\ Current(Primary(r))
            /\ SideOf(Primary(r)) = "primary"
        BY CurrentCalls, CallNamesHold DEF CallNames
      <4>2. Fresh(Primary(r))
        BY <3>1, <4>1 DEF StartRace, Fresh, PcOf
      <4> QED
        BY <3>1, <4>1, <4>2 DEF StartRace, limiterVars
    <3>2. CASE TimerFires(r)
      <4>1. /\ Secondary(r) \in Calls /\ RequestOf(Secondary(r)) = r /\ Current(Secondary(r))
            /\ SideOf(Secondary(r)) = "secondary"
        BY CurrentCalls, CallNamesHold DEF CallNames
      <4>2. Fresh(Secondary(r))
        BY <3>2, <4>1 DEF TimerFires, Fresh, PcOf
      <4> QED
        BY <3>2, <4>1, <4>2 DEF TimerFires, limiterVars
    <3> QED
      BY <1>1, <3>1, <3>2
  <2>2. call[c] = "none"
    BY <2>1 DEF CallsOwned, OwnedCall
  <2> QED
    BY <2>1, <2>2, SlotsKept DEF HoldsSlot
<1>2. ASSUME NEW c \in Calls, Win(r, c) PROVE SlotInv'
  BY <1>2, SlotsKept DEF Win, HoldsSlot, limiterVars
<1>3. CASE EndStream(r)
  <2>1. PICK c \in Calls, v \in {"ok", "timeout", "error"} :
          /\ RequestOf(c) = r /\ call[c] = "relayed"
          /\ call' = [call EXCEPT ![c] = IF v = "ok" THEN "closed" ELSE "broken"]
    BY <1>3 DEF EndStream
  <2>2. target[c] = winner[r]
    BY <2>1 DEF CallsOwned, OwnedCall
  <2> QED
    BY <1>3, <2>1, <2>2, SlotGiven DEF EndStream, HoldsSlot
<1>4. ASSUME UNCHANGED <<call, target, inflight>> PROVE SlotInv'
  BY <1>4, SlotsKept DEF HoldsSlot
<1>5. CASE AdjustCap(r)
  BY <1>4, <1>5 DEF AdjustCap, OnSuccess, OnTimeout, limiterVars, callVars
<1>6. CASE Begin(r) \/ NoOther(r) \/ Pick(r) \/ Refused(r) \/ Abandon(r) \/ SendChunk(r)
           \/ Conclude(r) \/ ClientLeaves(r)
  BY <1>4, <1>6
  DEF Begin, NoOther, Pick, Refused, Abandon, SendChunk, Conclude, ClientLeaves, limiterVars, callVars
<1>7. ASSUME NEW c \in Calls, Overloaded(r, c) \/ Lose(r, c) PROVE SlotInv'
  BY <1>4, <1>7 DEF Overloaded, Lose, limiterVars
<1> QED
  BY <1>1, <1>2, <1>3, <1>5, <1>6, <1>7 DEF ServeStep

\* The limiter's counts agree with the calls that hold slots, in every state.
THEOREM SlotInvHolds == Spec => []SlotInv
<1>1. Init => SlotInv
  <2> SUFFICES ASSUME Init, NEW w \in Workers
               PROVE  inflight[w] = Cardinality(SlotsOf(w)) /\ inflight[w] <= Ceiling
    BY DEF SlotInv
  <2>1. SlotsOf(w) = {}
    BY DEF Init, SlotsOf, HoldsSlot
  <2> QED
    <3>1. Cardinality(SlotsOf(w)) = 0
      BY <2>1, SlotsFinite
    <3>2. inflight[w] = 0
      BY DEF Init, LimiterInit
    <3> QED
      BY <3>1, <3>2, LimitsOrdered
<1>2. TypeOK /\ CallsOwned /\ SlotInv /\ [Next]_vars => SlotInv'
  <2> SUFFICES ASSUME TypeOK, CallsOwned, SlotInv, [Next]_vars PROVE SlotInv'
    OBVIOUS
  <2>1. ASSUME UNCHANGED <<callVars, limiterVars>> PROVE SlotInv'
    BY <2>1, SlotsKept DEF callVars, limiterVars, HoldsSlot
  <2> QED
    BY <2>1, CallStepSlots, HandlerStepSlots DEF Next, Cooldown, PoolUpdate, vars
<1> QED
  BY <1>1, <1>2, TypesCorrect, CallsAlwaysOwned, PTL DEF Spec

\* The limiter's count of a worker is the number of calls holding a slot on it.
THEOREM SlotsAccountedFor == Spec => []SlotAccounting
<1>1. SlotInv => SlotAccounting
  BY DEF SlotInv, SlotAccounting
<1> QED
  BY <1>1, SlotInvHolds, PTL

\* No worker ever has more connections than the limiter's maximum, whatever the
\* limits limiter.New is given.
THEOREM WorkersAdmitted == Spec => []AdmissionBounded
<1>1. SlotInv => AdmissionBounded
  <2> SUFFICES ASSUME SlotInv, NEW w \in Workers PROVE Cardinality(SlotsOf(w)) <= Ceiling
    BY DEF AdmissionBounded
  <2> QED
    BY DEF SlotInv
<1> QED
  BY <1>1, SlotInvHolds, PTL

\* The limiter never locks a worker out for good: one without connections is given
\* one, however far its cap has fallen.
THEOREM NoWorkerLockedOut == Spec => []NoLockout
<1>1. TypeOK /\ SlotInv => NoLockout
  <2> SUFFICES ASSUME TypeOK, SlotInv, NEW w \in Workers, SlotsOf(w) = {}
               PROVE  HasSlot(w)
    BY DEF NoLockout
  <2>1. caps[w] \in Floor .. Ceiling
    BY DEF TypeOK, LimiterTypeOK
  <2>2. inflight[w] = 0
    BY SlotsFinite DEF SlotInv
  <2> QED
    BY <2>1, <2>2, LimitsOrdered DEF HasSlot
<1> QED
  BY <1>1, TypesCorrect, SlotInvHolds, PTL

-----------------------------------------------------------------------------
(* The client's view.                                                      *)

\* Nothing is sent before a stream is relayed, and nothing answered before the
\* handler is done.
AnswerInv ==
  \A r \in Requests :
    /\ pc[r] \in {"idle", "pick", "repick", "allow", "race", "hedged"} => ~sent[r]
    /\ pc[r] # "done" => response[r] = "none"
    /\ pc[r] = "idle" => attempt[r] = 0

\* A step of one handler changes the view of its own client only.
LEMMA ViewOfOne ==
  ASSUME NEW r \in Requests,
         \A q \in Requests \ {r} : /\ pc'[q] = pc[q] /\ sent'[q] = sent[q]
                                  /\ response'[q] = response[q]
                                  /\ attempt'[q] = attempt[q]
  PROVE  /\ ClientPhase' = [ClientPhase EXCEPT ![r] = ClientPhase'[r]]
         /\ ClientTries' = [ClientTries EXCEPT ![r] = ClientTries'[r]]
<1>1. \A q \in Requests \ {r} : ClientPhase'[q] = ClientPhase[q] /\ ClientTries'[q] = ClientTries[q]
  BY DEF ClientPhase, ClientTries
<1>2. /\ DOMAIN ClientPhase = Requests /\ DOMAIN ClientPhase' = Requests
      /\ DOMAIN ClientTries = Requests /\ DOMAIN ClientTries' = Requests
      /\ ClientPhase = [q \in Requests |-> ClientPhase[q]]
      /\ ClientPhase' = [q \in Requests |-> ClientPhase'[q]]
      /\ ClientTries = [q \in Requests |-> ClientTries[q]]
      /\ ClientTries' = [q \in Requests |-> ClientTries'[q]]
  BY DEF ClientPhase, ClientTries
<1> QED
  BY <1>1, <1>2

\* What one handler does to what its client sees.
LEMMA HandlerStepView ==
  ASSUME TypeOK, AnswerInv, NEW r \in Requests,
         Begin(r) \/ ServeStep(r) \/ ClientLeaves(r)
  PROVE  AnswerInv' /\ [Client!Next]_Client!vars
<1> USE DEF AnswerInv, TypeOK, HandlerTypeOK, Finish
<1>1. CASE Begin(r)
  <2>1. AnswerInv'
    BY <1>1 DEF Begin
  <2>2. /\ ClientPhase' = [ClientPhase EXCEPT ![r] = ClientPhase'[r]]
        /\ ClientTries' = [ClientTries EXCEPT ![r] = ClientTries'[r]]
    BY <1>1, ViewOfOne DEF Begin
  <2>3. ClientPhase[r] = "idle" /\ ClientTries[r] = 0
    BY <1>1 DEF Begin, ClientPhase, ClientTries
  <2>4. CASE pc' = [pc EXCEPT ![r] = "pick"] /\ response' = response
    <3>1. ClientPhase'[r] = "waiting" /\ ClientTries'[r] = 1
      BY <1>1, <2>4 DEF Begin, ClientPhase, ClientTries
    <3> QED
      BY <2>1, <2>2, <2>3, <2>4, <3>1 DEF Client!Next, Client!Accept
  <2>5. CASE Finish(r, "400")
    <3>1. ClientPhase'[r] = "closed" /\ ClientTries'[r] = 0
      BY <1>1, <2>5 DEF Begin, ClientPhase, ClientTries
    <3>2. ClientTries' = ClientTries
      BY <2>2, <2>3, <3>1 DEF ClientTries
    <3> QED
      BY <2>1, <2>2, <2>3, <2>5, <3>1, <3>2 DEF Client!Next, Client!Reject, Client!Close
  <2> QED
    BY <1>1, <2>4, <2>5 DEF Begin
<1>14. CASE NoOther(r)
  <2>1. AnswerInv'
    BY <1>14 DEF NoOther
  <2>2. UNCHANGED Client!vars
    BY <1>14 DEF NoOther, Client!vars, ClientPhase, ClientTries
  <2> QED
    BY <2>1, <2>2
<1>2. CASE Pick(r)
  <2>1. PICK w \in Candidates(r) :
          IF w = NoWorker
            THEN Finish(r, "503")
            ELSE /\ pc' = [pc EXCEPT ![r] = "allow"]
                 /\ response' = response
    BY <1>2 DEF Pick
  <2>2. AnswerInv'
    BY <1>2, <2>1 DEF Pick
  <2>3. CASE w = NoWorker
    <3>1. Client!Close(r, "503") /\ ClientPhase[r] = "waiting"
      <4>1. ClientPhase[r] = "waiting"
        BY <1>2 DEF Pick, ClientPhase
      <4>2. ClientPhase' = [ClientPhase EXCEPT ![r] = "closed"]
        BY <1>2, <2>1, <2>3 DEF Pick, ClientPhase
      <4>3. ClientTries' = ClientTries
        BY <1>2, <2>1, <2>3 DEF Pick, ClientTries
      <4> QED
        BY <2>1, <2>3, <4>1, <4>2, <4>3 DEF Client!Close
    <3> QED
      BY <2>2, <3>1 DEF Client!Next, Client!Fail, Client!Errors
  <2>4. CASE w # NoWorker
    <3>1. UNCHANGED Client!vars
      BY <1>2, <2>1, <2>4 DEF Pick, Client!vars, ClientPhase, ClientTries
    <3> QED
      BY <2>2, <3>1
  <2> QED
    BY <2>3, <2>4
\* An attempt that fails with nothing sent is tried again or answered.
<1>3. ASSUME NextAttempt(r) \/ (attempt' = attempt /\ \E a \in {"429", "gone"} : Finish(r, a)),
             pc[r] \notin {"idle", "done"}, ~sent[r], sent' = sent
      PROVE  AnswerInv' /\ [Client!Next]_Client!vars
  <2>1. AnswerInv'
    BY <1>3 DEF NextAttempt, MaxAttempts
  <2>2. ClientPhase[r] = "waiting" /\ ClientTries[r] = attempt[r] + 1
    BY <1>3 DEF ClientPhase, ClientTries
  <2>3. ASSUME NEW a \in {"429", "502", "gone"}, attempt' = attempt, Finish(r, a)
        PROVE  [Client!Next]_Client!vars
    <3>1. Client!Close(r, a)
      BY <1>3, <2>3 DEF Client!Close, ClientPhase, ClientTries
    <3> QED
      BY <2>2, <3>1 DEF Client!Next, Client!Fail, Client!Errors
  <2>4. ASSUME attempt[r] + 1 < MaxAttempts, NextAttempt(r)
        PROVE  [Client!Next]_Client!vars
    <3>1. Client!TryAgain(r)
      <4>1. ClientPhase' = ClientPhase
        BY <1>3, <2>4 DEF NextAttempt, ClientPhase
      <4>2. ClientTries' = [ClientTries EXCEPT ![r] = ClientTries'[r]]
        BY <1>3, <2>4, ViewOfOne DEF NextAttempt
      <4>3. ClientTries'[r] = attempt[r] + 2
        BY <1>3, <2>4 DEF NextAttempt, ClientTries
      <4>4. ClientTries' = [ClientTries EXCEPT ![r] = @ + 1]
        BY <2>2, <4>2, <4>3
      <4> QED
        BY <1>3, <2>2, <2>4, <4>1, <4>4 DEF NextAttempt, Client!TryAgain
    <3> QED
      BY <3>1 DEF Client!Next
  <2> QED
    BY <1>3, <2>1, <2>3, <2>4 DEF NextAttempt
<1>4. CASE Refused(r)
  BY <1>3, <1>4 DEF Refused
<1>5. CASE Abandon(r)
  BY <1>3, <1>5 DEF Abandon
<1>6. ASSUME NEW c \in Calls, Overloaded(r, c) \/ Lose(r, c)
      PROVE  AnswerInv' /\ [Client!Next]_Client!vars
  <2>1. pc[r] \in {"race", "hedged"}
    BY <1>6 DEF Overloaded, Lose, Awaited
  <2> QED
    BY <1>3, <1>6, <2>1 DEF Overloaded, Lose
\* Steps the client does not see.
<1>7. ASSUME UNCHANGED <<attempt, sent, response>>, pc[r] \notin {"idle", "done"},
             \E p \in {"race", "hedged", "stream", "adjust", "record"} :
               /\ pc' = [pc EXCEPT ![r] = p]
               /\ p \in {"race", "hedged"} => ~sent[r]
      PROVE  AnswerInv' /\ [Client!Next]_Client!vars
  BY <1>7 DEF Client!vars, ClientPhase, ClientTries
<1>8. CASE StartRace(r) \/ TimerFires(r) \/ AdjustCap(r)
  BY <1>7, <1>8 DEF StartRace, TimerFires, AdjustCap
<1>9. ASSUME NEW c \in Calls, Win(r, c)
      PROVE  AnswerInv' /\ [Client!Next]_Client!vars
  <2>1. pc[r] \in {"race", "hedged"}
    BY <1>9 DEF Win, Awaited
  <2> QED
    BY <1>7, <1>9, <2>1 DEF Win
<1>10. CASE ClientLeaves(r)
  BY <1>10 DEF ClientLeaves, Client!vars, ClientPhase, ClientTries
<1>11. CASE SendChunk(r) \/ EndStream(r)
  <2>1. /\ UNCHANGED <<attempt, response>> /\ pc[r] = "stream"
        /\ \E p \in {"stream", "adjust"} : pc' = [pc EXCEPT ![r] = p]
        /\ sent' = sent \/ sent' = [sent EXCEPT ![r] = TRUE]
    <3>1. CASE SendChunk(r)
      BY <3>1 DEF SendChunk
    <3>2. CASE EndStream(r)
      <4>1. PICK v \in {"ok", "timeout", "error"} :
              sent' = [sent EXCEPT ![r] = sent[r] \/ v = "ok"]
        BY <3>2 DEF EndStream
      <4>2. sent' = sent \/ sent' = [sent EXCEPT ![r] = TRUE]
        BY <4>1
      <4> QED
        BY <3>2, <4>2 DEF EndStream
    <3> QED
      BY <1>11, <3>1, <3>2
  <2>2. AnswerInv'
    BY <2>1
  <2>3. CASE sent'[r] = sent[r]
    <3>1. sent' = sent
      BY <2>1, <2>3
    <3> QED
      BY <2>1, <2>2, <3>1 DEF Client!vars, ClientPhase, ClientTries
  <2>4. CASE sent'[r] # sent[r]
    <3>1. Client!Respond(r)
      <4>1. sent' = [sent EXCEPT ![r] = TRUE] /\ ~sent[r]
        BY <2>1, <2>4
      <4>2. ClientPhase' = [ClientPhase EXCEPT ![r] = "body"] /\ ClientPhase[r] = "waiting"
        BY <2>1, <4>1 DEF ClientPhase
      <4>3. ClientTries' = ClientTries
        BY <2>1 DEF ClientTries
      <4> QED
        BY <2>1, <4>2, <4>3 DEF Client!Respond
    <3> QED
      BY <2>2, <3>1 DEF Client!Next
  <2> QED
    BY <2>3, <2>4
<1>12. CASE Conclude(r)
  <2>1. CASE ~sent[r]
    BY <1>3, <1>12, <2>1 DEF Conclude
  <2>2. CASE sent[r]
    <3>1. PICK a \in {"200", "truncated"} : Finish(r, a)
      BY <1>12, <2>2 DEF Conclude
    <3>2. AnswerInv'
      BY <1>12, <2>2, <3>1 DEF Conclude
    <3>3. Client!EndBody(r)
      BY <1>12, <2>2, <3>1
      DEF Conclude, Client!EndBody, Client!Close, ClientPhase, ClientTries
    <3> QED
      BY <3>2, <3>3 DEF Client!Next
  <2> QED
    BY <2>1, <2>2
<1> QED
  BY <1>1, <1>2, <1>4, <1>5, <1>6, <1>8, <1>9, <1>10, <1>11, <1>12, <1>14 DEF ServeStep

\* Serve implements what ClientView promises: at most one retry, only before
\* the response has begun, and one answer, which is an error or a body.
THEOREM ClientViewImplemented == Spec => ClientViewKept
<1>1. Init => AnswerInv /\ Client!Init
  BY DEF Init, AnswerInv, Client!Init, ClientPhase, ClientTries
<1>2. TypeOK /\ AnswerInv /\ [Next]_vars => AnswerInv' /\ [Client!Next]_Client!vars
  <2> SUFFICES ASSUME TypeOK, AnswerInv, [Next]_vars
               PROVE  AnswerInv' /\ [Client!Next]_Client!vars
    OBVIOUS
  <2>1. ASSUME UNCHANGED handlerVars
        PROVE  AnswerInv' /\ [Client!Next]_Client!vars
    BY <2>1 DEF handlerVars, AnswerInv, Client!vars, ClientPhase, ClientTries
  <2> QED
    BY <2>1, HandlerStepView
    DEF Next, CallStep, HedgePick, HedgeAllow, TakeSlot, Dial, FirstToken, CallFails,
        CallTimedOut, Reap, Cooldown, PoolUpdate, vars
<1> QED
  BY <1>1, <1>2, TypesCorrect, PTL DEF Spec, Client!Spec, ClientViewKept
=============================================================================
