---------------------------- MODULE ChaosProofs ----------------------------
(***************************************************************************)
(* What Chaos.tla guarantees for any set of workers, any experiments and   *)
(* game days and any number of lost requests, with proofs checked by TLAPS.*)
(***************************************************************************)
EXTENDS Chaos, SequenceTheorems, TLAPS

-----------------------------------------------------------------------------
(* Facts about the constants and the operators.                            *)

\* Losing a request keeps the count of lost requests within its bound.
LEMMA LossesBounded ==
  /\ 0 \in 0 .. MaxLost
  /\ lost \in 0 .. MaxLost /\ (Lose \/ UNCHANGED lost) => lost' \in 0 .. MaxLost
<1>1. MaxLost \in Nat
  BY ChaosAssumption
<1> QED
  BY <1>1 DEF Lose

\* A plan has a first step.
LEMMA PlansAreSequences ==
  ASSUME NEW p \in Experiments \cup GameDays
  PROVE  p \in Seq((Kinds \cup {"other"}) \X Workers) /\ p # <<>>
<1>1. CASE p \in Experiments
  BY <1>1, ChaosAssumption
<1>2. CASE p \in GameDays
  <2>1. p \in Seq(Kinds \X Workers) /\ p # <<>>
    BY <1>2, ChaosAssumption
  <2> QED
    BY <2>1, SeqMonotonic
<1> QED
  BY <1>1, <1>2

\* A run that has not ended is at a step of its plan.
LEMMA StepOfPlan ==
  ASSUME TypeOK, pc # "idle"
  PROVE  /\ Len(plan) \in Nat
         /\ DOMAIN plan = 1 .. Len(plan)
         /\ step \in DOMAIN plan
         /\ Target \in Workers
         /\ Fault \in Kinds \cup {"other"}
<1>1. step \in DOMAIN plan /\ plan \in Experiments \cup GameDays \cup {<<>>}
  BY DEF TypeOK, StepInPlan
<1>2. plan \in Experiments \cup GameDays
  BY <1>1
<1>3. plan \in Seq((Kinds \cup {"other"}) \X Workers)
  BY <1>2, PlansAreSequences
<1>4. Len(plan) \in Nat /\ DOMAIN plan = 1 .. Len(plan)
  BY <1>3
<1>5. plan[step] \in (Kinds \cup {"other"}) \X Workers
  BY <1>1, <1>3
<1> QED
  BY <1>1, <1>4, <1>5 DEF Target, Fault

\* A fault that takes effect is that of one worker.
LEMMA EffectTypes ==
  ASSUME TypeOK, NEW fault, NEW w \in Workers, TakesEffect(fault, w)
  PROVE  toxics' \subseteq Workers /\ disabled' \subseteq Workers
BY DEF TypeOK, TakesEffect

\* A reset keeps the types of what Toxiproxy has.
LEMMA ResetTypes ==
  ASSUME TypeOK, Reset
  PROVE  /\ toxics' \subseteq Workers /\ disabled' \subseteq Workers
         /\ lost' \in 0 .. MaxLost
         /\ unreset' \in BOOLEAN
         /\ ~unreset' => Healthy'
         /\ Active' \subseteq Active
<1>1. Clear \/ UNCHANGED proxyVars
  BY DEF Reset
<1>2. toxics' \subseteq toxics /\ disabled' \subseteq disabled /\ (Clear => Healthy')
  BY <1>1 DEF Clear, proxyVars, Healthy, Active
<1>3. unreset' \in BOOLEAN /\ (~unreset' => Clear) /\ (Lose \/ UNCHANGED lost)
  BY DEF Reset
<1>4. lost' \in 0 .. MaxLost
  BY <1>3, LossesBounded DEF TypeOK
<1> QED
  BY <1>2, <1>3, <1>4 DEF TypeOK, Active

-----------------------------------------------------------------------------
(* Types.                                                                  *)

\* Every step keeps the types.
LEMMA StepTypes ==
  ASSUME TypeOK, [Next]_vars
  PROVE  TypeOK'
<1> USE LossesBounded DEF TypeOK, Goto, Stop
<1>1. ASSUME NEW k \in {"experiment", "gameday"}, NEW p \in Experiments \cup GameDays,
             Begin(k, p)
      PROVE  TypeOK'
  <2>1. StepInPlan'
    BY <1>1, PlansAreSequences DEF Begin, StepInPlan
  <2>2. Active \subseteq Kinds \X Workers
    BY DEF Active, Kinds
  <2> QED
    BY <1>1, <2>1, <2>2 DEF Begin, proxyVars
<1>2. CASE Inject
  <2>1. Fault \in Kinds /\ Target \in Workers
    BY <1>2, StepOfPlan DEF Inject, Accepts
  <2>2. StepInPlan'
    BY <1>2 DEF Inject, StepInPlan, runVars
  <2> QED
    BY <1>2, <2>1, <2>2, EffectTypes DEF Inject, runVars
<1>3. CASE InjectFails
  <2>1. Target \in Workers
    BY <1>3, StepOfPlan DEF InjectFails
  <2>2. toxics' \subseteq Workers /\ disabled' \subseteq Workers
    BY <1>3, <2>1, EffectTypes DEF InjectFails, proxyVars
  <2>3. lost' \in 0 .. MaxLost
    BY <1>3 DEF InjectFails
  <2>4. StepInPlan'
    BY <1>3 DEF InjectFails, StepInPlan, runVars
  <2> QED
    BY <1>3, <2>2, <2>3, <2>4 DEF InjectFails, runVars
<1>4. CASE Check
  <2>1. StepInPlan'
    BY <1>4, StepOfPlan DEF Check, StepInPlan, runVars
  <2> QED
    BY <1>4, <2>1 DEF Check, runVars, proxyVars
<1>5. CASE Heal
  <2>1. lost' \in 0 .. MaxLost
    BY <1>5 DEF Heal
  <2>2. StepInPlan'
    BY <1>5 DEF Heal, StepInPlan, runVars
  <2> QED
    BY <1>5, <2>1, <2>2 DEF Heal, runVars
<1>6. CASE EndRound
  <2>1. StepInPlan'
    BY <1>6, StepOfPlan DEF EndRound, StepInPlan, runVars
  <2> QED
    BY <1>6, <2>1, ResetTypes DEF EndRound, runVars
<1>7. CASE LastReset
  <2>1. StepInPlan'
    BY <1>7 DEF LastReset, StepInPlan, runVars
  <2> QED
    BY <1>7, <2>1, ResetTypes DEF LastReset, runVars
<1>8. CASE OperatorInjects
  <2>1. StepInPlan'
    BY <1>8 DEF OperatorInjects, StepInPlan, runVars
  <2> QED
    BY <1>8, <2>1, EffectTypes DEF OperatorInjects, runVars
<1>9. CASE OperatorHeals
  BY <1>9 DEF OperatorHeals, StepInPlan, runVars
<1>10. CASE OperatorResets
  BY <1>10 DEF OperatorResets, Clear, StepInPlan, runVars
<1>11. CASE UNCHANGED vars
  BY <1>11 DEF vars, proxyVars, runVars, StepInPlan
<1> QED
  BY <1>1, <1>2, <1>3, <1>4, <1>5, <1>6, <1>7, <1>8, <1>9, <1>10, <1>11 DEF Next

\* Every variable keeps its type, and a run that has not ended is at a step of its
\* plan: neither loop of experiment.Run and gameday.Run runs off its end.
THEOREM ChaosTypes == Spec => []TypeOK
<1>1. Init => TypeOK
  <2>1. Init => StepInPlan
    BY DEF Init, StepInPlan
  <2> QED
    BY <2>1, LossesBounded DEF Init, TypeOK
<1> QED
  BY <1>1, StepTypes, PTL DEF Spec

-----------------------------------------------------------------------------
(* What a run leaves behind.                                               *)

\* A run ends well only by a reset that took effect, and nobody injects after it
\* in its name: what is in Toxiproxy once a run has ended is not its doing, but
\* for an experiment that could not inject and a last reset that was lost.
THEOREM RunsAlwaysLeaveNothing == Spec => []RunsLeaveNothing
<1> USE DEF RunsLeaveNothing, Goto, Stop
<1>1. Init => RunsLeaveNothing
  BY DEF Init
<1>2. ASSUME TypeOK, RunsLeaveNothing, [Next]_vars
      PROVE  RunsLeaveNothing'
  <2>1. ASSUME NEW k, NEW p, Begin(k, p) PROVE RunsLeaveNothing'
    BY <2>1 DEF Begin
  <2>2. CASE Inject
    BY <2>2 DEF Inject
  <2>3. CASE InjectFails
    BY <2>3 DEF InjectFails, runVars, TypeOK
  <2>4. CASE Check
    BY <2>4 DEF Check
  <2>5. CASE Heal
    BY <2>5 DEF Heal
  <2>6. CASE EndRound
    BY <1>2, <2>6, ResetTypes DEF EndRound
  <2>7. CASE LastReset
    BY <1>2, <2>7, ResetTypes DEF LastReset
  <2>8. CASE OperatorInjects
    BY <2>8 DEF OperatorInjects
  <2>9. CASE OperatorHeals
    BY <1>2, <2>9 DEF OperatorHeals, runVars, Healthy, Active
  <2>10. CASE OperatorResets
    BY <2>10 DEF OperatorResets, Clear, Healthy, Active
  <2>11. CASE UNCHANGED vars
    BY <1>2, <2>11 DEF vars, runVars, proxyVars, Healthy, Active
  <2> QED
    BY <1>2, <2>1, <2>2, <2>3, <2>4, <2>5, <2>6, <2>7, <2>8, <2>9, <2>10, <2>11 DEF Next
<1> QED
  BY <1>1, <1>2, ChaosTypes, PTL DEF Spec

\* The reset at the end of a round is what the next one starts from: a fault of a
\* game day meets no other, unless that reset was lost.
THEOREM RoundsAlwaysIndependent == Spec => []RoundsIndependent
<1> USE DEF RoundsIndependent, Goto, Stop
<1>1. Init => RoundsIndependent
  BY DEF Init
<1>2. ASSUME TypeOK, RoundsIndependent, [Next]_vars
      PROVE  RoundsIndependent'
  <2>1. ASSUME NEW k, NEW p, Begin(k, p) PROVE RoundsIndependent'
    BY <2>1 DEF Begin
  <2>2. CASE Inject
    BY <2>2 DEF Inject
  <2>3. CASE InjectFails
    BY <2>3 DEF InjectFails
  <2>4. CASE Check
    BY <2>4 DEF Check, runVars
  <2>5. CASE Heal
    BY <2>5 DEF Heal
  <2>6. CASE EndRound
    BY <1>2, <2>6, ResetTypes DEF EndRound
  <2>7. CASE LastReset
    BY <2>7 DEF LastReset
  <2>8. CASE OperatorInjects
    BY <2>8 DEF OperatorInjects
  <2>9. CASE OperatorHeals
    BY <1>2, <2>9 DEF OperatorHeals, runVars, Healthy, Active
  <2>10. CASE OperatorResets
    BY <2>10 DEF OperatorResets, Clear, Healthy, Active
  <2>11. CASE UNCHANGED vars
    BY <1>2, <2>11 DEF vars, runVars, proxyVars, Healthy, Active
  <2> QED
    BY <1>2, <2>1, <2>2, <2>3, <2>4, <2>5, <2>6, <2>7, <2>8, <2>9, <2>10, <2>11 DEF Next
<1> QED
  BY <1>1, <1>2, ChaosTypes, PTL DEF Spec

\* What the store of a run lists misses none of the faults the run has brought
\* about, until an injection that failed, which may have taken effect, ends the run.
THEOREM StoreAlwaysNamesFaults == Spec => []StoreNamesFaults
<1> USE DEF StoreNamesFaults, Goto, Stop
<1>1. Init => StoreNamesFaults
  BY DEF Init
<1>2. ASSUME TypeOK, StoreNamesFaults, [Next]_vars
      PROVE  StoreNamesFaults'
  <2>1. ASSUME NEW k, NEW p, Begin(k, p) PROVE StoreNamesFaults'
    BY <2>1 DEF Begin, proxyVars, Active
  <2>2. CASE Inject
    <3>1. Active' \subseteq Active \cup {<<Fault, Target>>}
      BY <2>2 DEF Inject, TakesEffect, Active
    <3> QED
      BY <1>2, <2>2, <3>1 DEF Inject, runVars
  <2>3. CASE InjectFails
    BY <2>3 DEF InjectFails
  <2>4. CASE Check
    BY <1>2, <2>4 DEF Check, runVars, proxyVars, Active
  <2>5. CASE Heal
    <3>1. Active' \subseteq Active
      BY <2>5 DEF Heal, Active
    <3> QED
      BY <1>2, <2>5, <3>1 DEF Heal, runVars
  <2>6. CASE EndRound
    BY <1>2, <2>6, ResetTypes DEF EndRound, runVars
  <2>7. CASE LastReset
    BY <2>7 DEF LastReset
  <2>8. CASE OperatorInjects
    BY <2>8 DEF OperatorInjects
  <2>9. CASE OperatorHeals
    <3>1. Active' \subseteq Active
      BY <2>9 DEF OperatorHeals, Active
    <3> QED
      BY <1>2, <2>9, <3>1 DEF OperatorHeals, runVars
  <2>10. CASE OperatorResets
    <3>1. Active' = {}
      BY <2>10 DEF OperatorResets, Clear, Active
    <3> QED
      BY <3>1
  <2>11. CASE UNCHANGED vars
    BY <1>2, <2>11 DEF vars, runVars, proxyVars, Active
  <2> QED
    BY <1>2, <2>1, <2>2, <2>3, <2>4, <2>5, <2>6, <2>7, <2>8, <2>9, <2>10, <2>11 DEF Next
<1> QED
  BY <1>1, <1>2, ChaosTypes, PTL DEF Spec
=============================================================================
