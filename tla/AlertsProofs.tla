---------------------------- MODULE AlertsProofs ----------------------------
(***************************************************************************)
(* Proofs about Alerts, for every set of policies: the types, that nothing *)
(* is marked as notified that was not queued, that alerts keep their       *)
(* cooldown, and that each crossing is alerted once.                       *)
(***************************************************************************)
EXTENDS Alerts, FiniteSetTheorems, TLAPS

(* The bit of a threshold is one of the seven below the predictive one     *)
(* (notification_levels, NotificationConfig::validate).                    *)
LEMMA BitIsAPosition ==
  ASSUME NEW p \in Policies, NEW t \in p.thresholds
  PROVE  Bit(t, p.thresholds) \in Positions
<1> DEFINE S == p.thresholds
           Above == {u \in S : u > t}
<1>1. /\ S \in SUBSET (0 .. MaxPercent)
      /\ Cardinality(S) \in Positions
      /\ MaxPercent \in Nat
  BY AlertsAssumption DEF Policy
<1>2. IsFiniteSet(S)
  <2>1. 0 \in Int /\ MaxPercent \in Int
    BY <1>1
  <2>2. IsFiniteSet(0 .. MaxPercent)
    BY <2>1, FS_Interval
  <2> QED BY <1>1, <2>2, FS_Subset
<1>3. t \in S /\ t \in Int
  BY <1>1
<1>4. IsFiniteSet(S \ {t}) /\ Cardinality(S \ {t}) = Cardinality(S) - 1
  BY <1>2, <1>3, FS_RemoveElement
<1>5. Above \subseteq S \ {t}
  BY <1>1, <1>3
<1>6. IsFiniteSet(Above) /\ Cardinality(Above) <= Cardinality(S \ {t})
  BY <1>4, <1>5, FS_Subset
<1>7. Cardinality(Above) \in Nat
  BY <1>6, FS_CardinalityType
<1> HIDE DEF Above
<1>8. Cardinality(Above) + 1 \in Positions
  BY <1>1, <1>4, <1>6, <1>7 DEF Positions
<1> QED
  BY <1>8 DEF Bit, Above

LEMMA CrossedIsPositions ==
  ASSUME policy \in Policies
  PROVE  Crossed \subseteq Positions
BY BitIsAPosition DEF Crossed

LEMMA DecidedTyped ==
  ASSUME TypeOK
  PROVE  /\ Decided \in WindowState /\ Decided # NoRow
         /\ Decided.mask = state.mask /\ Decided.age = state.age /\ Decided.left = seen.left
BY AlertsAssumption DEF TypeOK, Decided, WindowState, Observation

(* The inductive invariant: what an evaluation works on was queued too.    *)
IInv == TypeOK /\ MarkedWasQueued /\ state.mask \subseteq queued

LEMMA InitHolds == Init => IInv
<1> SUFFICES ASSUME Init PROVE IInv
  OBVIOUS
<1> USE AlertsAssumption
<1>1. NewState \in WindowState /\ NewState.mask = {}
  BY DEF NewState, WindowState
<1>2. Ended \in Observation
  BY DEF Ended, Observation
<1> QED BY <1>1, <1>2 DEF Init, IInv, TypeOK, MarkedWasQueued

(* What a failed evaluation leaves: the stored row.                        *)
LEMMA ForgetTyped ==
  ASSUME TypeOK, Forget
  PROVE  /\ told' \subseteq 1 .. 8
         /\ quiet' \in (0 .. MaxAge) \union {None}
         /\ queued' = queued
<1>1. CASE row = NoRow
  BY <1>1 DEF Forget
<1>2. CASE row # NoRow
  <2>1. row \in WindowState
    BY <1>2 DEF TypeOK
  <2> QED BY <1>2, <2>1 DEF Forget, WindowState
<1> QED BY <1>1, <1>2

LEMMA EvaluationKeeps ==
  ASSUME IInv, EvaluationStep \/ FailEvaluation \/ \E observed \in Observation : BeginEvaluation(observed)
  PROVE  IInv'
<1> USE AlertsAssumption
<1>1. TypeOK /\ MarkedWasQueued /\ state.mask \subseteq queued
  BY DEF IInv
<1>2. Crossed \subseteq 1 .. 8
  BY <1>1, CrossedIsPositions DEF TypeOK, Positions
<1>3. 0 \in 0 .. MaxAge
  OBVIOUS
<1>4. ASSUME NEW observed \in Observation, BeginEvaluation(observed) PROVE IInv'
  BY <1>1, <1>4 DEF BeginEvaluation, IInv, TypeOK, MarkedWasQueued, policyVars, historyVars
<1>5. CASE ReadState
  <2>1. row \in WindowState => row.mask \subseteq queued
    BY <1>1 DEF MarkedWasQueued
  <2>2. state' \in WindowState /\ state'.mask \subseteq queued
    BY <1>1, <1>5, <2>1 DEF ReadState, TypeOK, WindowState, NewState, Observation
  <2> QED BY <1>1, <1>5, <2>2 DEF ReadState, IInv, TypeOK, MarkedWasQueued, policyVars, historyVars
<1>6. CASE AlertReset
  <2>1. state' \in WindowState /\ state'.mask = state.mask
    BY <1>1, <1>3, <1>6 DEF AlertReset, Enqueue, TypeOK, WindowState
  <2> QED BY <1>1, <1>3, <1>6, <2>1
    DEF AlertReset, Enqueue, IInv, TypeOK, MarkedWasQueued, policyVars
<1>7. CASE Rearm
  <2>1. state' \in WindowState /\ state'.mask \subseteq state.mask
    BY <1>1, <1>7 DEF Rearm, TypeOK, WindowState
  <2>2. told' \subseteq told
    BY <1>7 DEF Rearm
  <2> QED BY <1>1, <1>7, <2>1, <2>2 DEF Rearm, IInv, TypeOK, MarkedWasQueued, policyVars
<1>8. CASE AlertCrossing
  <2>1. CASE CrossingDue
    <3>1. Enqueue(Crossed)
      BY <1>8, <2>1 DEF AlertCrossing
    <3>2. state' \in WindowState /\ state'.mask = state.mask \union Crossed
      BY <1>1, <1>2, <1>3, <3>1 DEF Enqueue, TypeOK, WindowState
    <3> QED BY <1>1, <1>2, <1>3, <1>8, <3>1, <3>2
      DEF AlertCrossing, Enqueue, IInv, TypeOK, MarkedWasQueued, policyVars
  <2>2. CASE ~CrossingDue
    BY <1>1, <1>8, <2>2 DEF AlertCrossing, IInv, TypeOK, MarkedWasQueued, policyVars, historyVars
  <2> QED BY <2>1, <2>2
<1>9. CASE AlertPredicted
  <2> DEFINE due == policy.predictive /\ Predictive \notin state.mask /\ seen.atRisk /\ ~CoolingDown(state)
  <2>1. CASE due
    <3>1. Enqueue({Predictive}) /\ {Predictive} \subseteq 1 .. 8
      BY <1>9, <2>1 DEF AlertPredicted, Predictive
    <3>2. state' \in WindowState /\ state'.mask = state.mask \union {Predictive}
      BY <1>1, <1>3, <3>1 DEF Enqueue, TypeOK, WindowState
    <3> QED BY <1>1, <1>3, <1>9, <3>1, <3>2
      DEF AlertPredicted, Enqueue, IInv, TypeOK, MarkedWasQueued, policyVars
  <2>2. CASE ~due
    BY <1>1, <1>9, <2>2 DEF AlertPredicted, IInv, TypeOK, MarkedWasQueued, policyVars, historyVars
  <2> QED BY <2>1, <2>2
<1>10. CASE StoreState
  <2>1. row' = row \/ (row' \in WindowState /\ row'.mask = state.mask)
    BY <1>1, <1>10, DecidedTyped DEF StoreState
  <2>2. state' = NewState /\ NewState \in WindowState /\ NewState.mask = {}
    BY <1>10 DEF StoreState, EndEvaluation, NewState, WindowState
  <2>3. told' \subseteq 1 .. 8 /\ quiet' \in (0 .. MaxAge) \union {None} /\ queued' = queued
    BY <1>1, <1>10, ForgetTyped DEF StoreState, TypeOK, historyVars
  <2> QED BY <1>1, <1>10, <2>1, <2>2, <2>3
    DEF StoreState, EndEvaluation, IInv, TypeOK, MarkedWasQueued, policyVars
<1>11. CASE FailEvaluation
  <2>1. state' = NewState /\ NewState \in WindowState /\ NewState.mask = {}
    BY <1>11 DEF FailEvaluation, EndEvaluation, NewState, WindowState
  <2>2. told' \subseteq 1 .. 8 /\ quiet' \in (0 .. MaxAge) \union {None} /\ queued' = queued
    BY <1>1, <1>11, ForgetTyped DEF FailEvaluation
  <2> QED BY <1>1, <1>11, <2>1, <2>2
    DEF FailEvaluation, EndEvaluation, IInv, TypeOK, MarkedWasQueued, policyVars
<1> QED BY <1>4, <1>5, <1>6, <1>7, <1>8, <1>9, <1>10, <1>11 DEF EvaluationStep

LEMMA PolicyChangeKeeps ==
  ASSUME IInv, PolicyStep \/ \E new \in Policies : InstallPolicy(new)
  PROVE  IInv'
<1> USE DEF IInv, TypeOK, MarkedWasQueued, evalVars, historyVars
<1>1. ASSUME NEW new \in Policies, InstallPolicy(new) PROVE IInv'
  BY <1>1 DEF InstallPolicy
<1>2. CASE ClearWindowState
  BY <1>2 DEF ClearWindowState
<1>3. CASE SetConfig
  BY <1>3 DEF SetConfig
<1>4. CASE RollBackPolicy
  BY <1>4 DEF RollBackPolicy
<1> QED BY <1>1, <1>2, <1>3, <1>4 DEF PolicyStep

LEMMA OthersKeep ==
  ASSUME IInv, Tick \/ Crash \/ UNCHANGED vars
  PROVE  IInv'
<1> USE AlertsAssumption
<1>1. TypeOK /\ MarkedWasQueued /\ state.mask \subseteq queued
  BY DEF IInv
<1>2. CASE Tick
  <2>1. ASSUME NEW age \in (0 .. MaxAge) \union {None} PROVE Older(age) \in (0 .. MaxAge) \union {None}
    BY <2>1 DEF Older
  <2>2. ASSUME NEW left \in (0 .. MaxLeft) \union {None} PROVE Sooner(left) \in (0 .. MaxLeft) \union {None}
    BY <2>2 DEF Sooner
  <2>3. quiet' \in (0 .. MaxAge) \union {None}
    BY <1>1, <1>2, <2>1 DEF Tick, TypeOK
  <2>4. CASE row = NoRow
    BY <1>1, <1>2, <2>3, <2>4 DEF Tick, IInv, TypeOK, MarkedWasQueued, policyVars, evalVars
  <2>5. CASE row # NoRow
    <3>1. row \in WindowState
      BY <1>1, <2>5 DEF TypeOK
    <3>2. row.age \in (0 .. MaxAge) \union {None} /\ row.left \in (0 .. MaxLeft) \union {None}
      BY <3>1 DEF WindowState
    <3>3. Older(row.age) \in (0 .. MaxAge) \union {None} /\ Sooner(row.left) \in (0 .. MaxLeft) \union {None}
      BY <2>1, <2>2, <3>2
    <3>4. row' \in WindowState /\ row'.mask = row.mask
      BY <1>2, <2>5, <3>1, <3>3 DEF Tick, WindowState
    <3> QED BY <1>1, <1>2, <2>3, <2>5, <3>4
      DEF Tick, IInv, TypeOK, MarkedWasQueued, policyVars, evalVars
  <2> QED BY <2>4, <2>5
<1>3. CASE Crash
  <2>1. state' = NewState /\ NewState \in WindowState /\ NewState.mask = {}
    BY <1>3 DEF Crash, EndEvaluation, NewState, WindowState
  <2>2. told' \subseteq 1 .. 8 /\ quiet' \in (0 .. MaxAge) \union {None} /\ queued' = queued
    BY <1>1, <1>3, ForgetTyped DEF Crash
  <2> QED BY <1>1, <1>3, <2>1, <2>2 DEF Crash, EndEvaluation, IInv, TypeOK, MarkedWasQueued
<1>4. CASE UNCHANGED vars
  BY <1>1, <1>4 DEF vars, IInv, TypeOK, MarkedWasQueued, policyVars, evalVars, historyVars
<1> QED BY <1>2, <1>3, <1>4

LEMMA IInvHolds == Spec => []IInv
<1>1. IInv /\ [Next]_vars => IInv'
  BY EvaluationKeeps, PolicyChangeKeeps, OthersKeep DEF Next
<1> QED BY InitHolds, <1>1, PTL DEF Spec

(* The values every variable may take, for every set of valid policies.    *)
THEOREM TypeCorrect == Spec => []TypeOK
<1>1. IInv => TypeOK
  BY DEF IInv
<1> QED BY IInvHolds, <1>1, PTL

(* What a window's row marks as notified was put into the pending queue    *)
(* before, through crashes, storage errors and changes of policy           *)
(* (process_window marks a bit only after enqueue_notification succeeds).  *)
THEOREM MarksFollowAlerts == Spec => []MarkedWasQueued
<1>1. IInv => MarkedWasQueued
  BY DEF IInv
<1> QED BY IInvHolds, <1>1, PTL
-----------------------------------------------------------------------------
(* When a window is alerted again.                                         *)

StoredMask == IF row = NoRow THEN {} ELSE row.mask
StoredAge  == IF row = NoRow THEN None ELSE row.age
Evaluating == stage \notin {"none", "reading"}

(* What was told, and when, is what the evaluation works on, and what the  *)
(* row says while no evaluation holds a copy of it.                        *)
HistoryIsKept ==
  /\ Evaluating => told = state.mask /\ quiet = state.age
  /\ ~Evaluating => told = StoredMask /\ quiet = StoredAge

(* A record that gets a new age or reset time keeps the rest.              *)
LEMMA StateUpdates ==
  ASSUME NEW s \in WindowState, NEW age, NEW left, NEW bits
  PROVE  /\ [s EXCEPT !.left = left].mask = s.mask
         /\ [s EXCEPT !.left = left].age = s.age
         /\ [s EXCEPT !.mask = s.mask \union bits, !.age = age].mask = s.mask \union bits
         /\ [s EXCEPT !.mask = s.mask \union bits, !.age = age].age = age
         /\ [s EXCEPT !.mask = s.mask \ bits].mask = s.mask \ bits
         /\ [s EXCEPT !.mask = s.mask \ bits].age = s.age
         /\ [s EXCEPT !.age = age, !.left = left].mask = s.mask
         /\ [s EXCEPT !.age = age, !.left = left].age = age
BY DEF WindowState

(* An alert is stored and remembered alike.                                *)
LEMMA EnqueueRemembers ==
  ASSUME TypeOK, NEW bits, Enqueue(bits), told = state.mask
  PROVE  told' = state'.mask /\ quiet' = state'.age
<1>1. state \in WindowState
  BY DEF TypeOK
<1>2. state' = [state EXCEPT !.mask = state.mask \union bits, !.age = 0]
  BY DEF Enqueue
<1>3. state'.mask = state.mask \union bits /\ state'.age = 0
  BY <1>1, <1>2, StateUpdates
<1> QED
  BY <1>3 DEF Enqueue

(* What is remembered follows every step.                                  *)
LEMMA HistoryIsKeptStep ==
  ASSUME TypeOK, HistoryIsKept, [Next]_vars
  PROVE  HistoryIsKept'
<1> USE DEF Evaluating
<1>0. /\ row # NoRow => row \in WindowState
      /\ state \in WindowState
  BY DEF TypeOK
<1>1. ASSUME UNCHANGED <<row, state, told, quiet>>, Evaluating' <=> Evaluating PROVE HistoryIsKept'
  BY <1>1 DEF HistoryIsKept, StoredMask, StoredAge
<1>2. ASSUME NEW observed \in Observation, BeginEvaluation(observed) PROVE HistoryIsKept'
  BY <1>1, <1>2 DEF BeginEvaluation, historyVars
<1>3. CASE ReadState
  <2>1. told = StoredMask /\ quiet = StoredAge /\ stage' = "resetting" /\ UNCHANGED <<told, quiet>>
    BY <1>3 DEF ReadState, HistoryIsKept, historyVars
  <2>2. CASE row = NoRow
    <3>1. state' = [NewState EXCEPT !.left = seen.left]
      BY <1>3, <2>2 DEF ReadState
    <3>2. state'.mask = {} /\ state'.age = None
      BY <3>1 DEF NewState
    <3> QED
      BY <2>1, <2>2, <3>2 DEF HistoryIsKept, StoredMask, StoredAge
  <2>3. CASE row # NoRow
    BY <1>3, <2>1, <2>3 DEF ReadState, HistoryIsKept, StoredMask, StoredAge
  <2> QED
    BY <2>2, <2>3
<1>4. CASE AlertReset
  BY <1>4, EnqueueRemembers DEF AlertReset, HistoryIsKept
<1>5. CASE Rearm
  <2> DEFINE gone == IF Completed THEN {Predictive} ELSE {}
  <2>1. told = state.mask /\ quiet = state.age /\ stage' = "crossing" /\ UNCHANGED quiet
    BY <1>5 DEF Rearm, HistoryIsKept
  <2>2. state' = [state EXCEPT !.mask = state.mask \ (Rearmed \union gone)]
    BY <1>5 DEF Rearm
  <2>3. told' = told \ (Rearmed \union gone)
    BY <1>5 DEF Rearm, Rearmed, Recovered
  <2> HIDE DEF gone
  <2>4. state'.mask = state.mask \ (Rearmed \union gone) /\ state'.age = state.age
    BY <1>0, <2>2, StateUpdates
  <2> QED
    BY <2>1, <2>3, <2>4 DEF HistoryIsKept
<1>6. CASE AlertCrossing
  <2>1. CASE CrossingDue
    BY <1>6, <2>1, EnqueueRemembers DEF AlertCrossing, HistoryIsKept
  <2>2. CASE ~CrossingDue
    BY <1>6, <2>2 DEF AlertCrossing, HistoryIsKept, historyVars
  <2> QED
    BY <2>1, <2>2
<1>7. CASE AlertPredicted
  <2>1. CASE Enqueue({Predictive})
    BY <1>7, <2>1, EnqueueRemembers DEF AlertPredicted, HistoryIsKept
  <2>2. CASE UNCHANGED <<state, historyVars>>
    BY <1>7, <2>2 DEF AlertPredicted, HistoryIsKept, historyVars
  <2> QED
    BY <1>7, <2>1, <2>2 DEF AlertPredicted
<1>8. CASE StoreState
  <2>1. told = state.mask /\ quiet = state.age /\ stage' = "none"
    BY <1>8 DEF StoreState, EndEvaluation, HistoryIsKept
  <2>2. CASE row' = Decided
    BY <1>8, <2>1, <2>2, DecidedTyped DEF StoreState, HistoryIsKept, StoredMask, StoredAge, historyVars
  <2>3. CASE row' # Decided
    BY <1>8, <2>1, <2>3 DEF StoreState, Forget, HistoryIsKept, StoredMask, StoredAge
  <2> QED
    BY <2>2, <2>3
<1>9. CASE FailEvaluation \/ Crash
  <2>1. UNCHANGED row /\ stage' = "none" /\ Forget
    BY <1>9 DEF FailEvaluation, Crash, EndEvaluation
  <2> QED
    BY <2>1 DEF Forget, HistoryIsKept, StoredMask, StoredAge
<1>10. ASSUME NEW new \in Policies, InstallPolicy(new) PROVE HistoryIsKept'
  BY <1>1, <1>10 DEF InstallPolicy, evalVars, historyVars
<1>11. CASE ClearWindowState
  <2>1. row' = NoRow /\ UNCHANGED <<stage, state>>
    BY <1>11 DEF ClearWindowState, evalVars
  <2>2. CASE Evaluating
    BY <1>11, <2>1, <2>2 DEF ClearWindowState, HistoryIsKept
  <2>3. CASE ~Evaluating
    BY <1>11, <2>1, <2>3 DEF ClearWindowState, HistoryIsKept, StoredMask, StoredAge
  <2> QED
    BY <2>2, <2>3
<1>12. CASE SetConfig \/ RollBackPolicy
  BY <1>1, <1>12 DEF SetConfig, RollBackPolicy, evalVars, historyVars
<1>13. CASE Tick
  <2>1. stage = "none" /\ stage' = "none" /\ UNCHANGED told /\ quiet' = Older(quiet)
    BY <1>13 DEF Tick, evalVars
  <2>2. told = StoredMask /\ quiet = StoredAge
    BY <2>1 DEF HistoryIsKept
  <2>3. CASE row = NoRow
    BY <1>13, <2>1, <2>2, <2>3 DEF Tick, HistoryIsKept, StoredMask, StoredAge, Older
  <2>4. CASE row # NoRow
    <3>1. row' = [row EXCEPT !.age = Older(row.age), !.left = Sooner(row.left)]
      BY <1>13, <2>4 DEF Tick
    <3>2. row'.mask = row.mask /\ row'.age = Older(row.age)
      BY <1>0, <2>4, <3>1, StateUpdates
    <3>3. row' # NoRow
      <4>1. row.age \in (0 .. MaxAge) \union {None} /\ row.left \in (0 .. MaxLeft) \union {None}
        BY <1>0, <2>4 DEF WindowState
      <4>2. Older(row.age) \in (0 .. MaxAge) \union {None} /\ Sooner(row.left) \in (0 .. MaxLeft) \union {None}
        BY <4>1, AlertsAssumption DEF Older, Sooner
      <4>3. row' \in WindowState
        BY <1>0, <2>4, <3>1, <4>2 DEF WindowState
      <4> QED
        BY <4>3, AlertsAssumption
    <3> QED
      BY <2>1, <2>2, <2>4, <3>2, <3>3 DEF HistoryIsKept, StoredMask, StoredAge
  <2> QED
    BY <2>3, <2>4
<1>14. CASE UNCHANGED vars
  BY <1>1, <1>14 DEF vars, evalVars, historyVars
<1> QED
  BY <1>2, <1>3, <1>4, <1>5, <1>6, <1>7, <1>8, <1>9, <1>10, <1>11, <1>12, <1>13, <1>14
  DEF Next, EvaluationStep, PolicyStep

(* Both, through every step.                                               *)
LEMMA AlertsInvariant == Spec => [](TypeOK /\ HistoryIsKept)
<1>1. Init => HistoryIsKept
  BY DEF Init, HistoryIsKept, Evaluating, StoredMask, StoredAge
<1>2. TypeOK /\ HistoryIsKept /\ [Next]_vars => HistoryIsKept'
  BY HistoryIsKeptStep
<1> QED
  BY <1>1, <1>2, TypeCorrect, PTL DEF Spec

(* The steps that alert.                                                   *)
LEMMA AlertSteps ==
  ASSUME TypeOK, [Next]_vars
  PROVE  /\ queued' # queued => AlertReset \/ AlertCrossing \/ AlertPredicted
         /\ stage = "resetting" /\ stage' = "rearming" => AlertReset
         /\ stage' = "predicting" /\ state' # state => AlertCrossing
         /\ stage' = "storing" /\ state' # state => AlertPredicted
<1> USE DEF policyVars, evalVars, historyVars, EndEvaluation
<1>1. CASE AlertReset \/ AlertCrossing \/ AlertPredicted
  BY <1>1 DEF AlertReset, AlertCrossing, AlertPredicted
<1>2. ASSUME NEW observed \in Observation, BeginEvaluation(observed)
      PROVE  UNCHANGED <<queued, state>> /\ stage' = "reading"
  BY <1>2 DEF BeginEvaluation
<1>3. CASE ReadState \/ Rearm \/ StoreState \/ FailEvaluation \/ Crash
  BY <1>3 DEF ReadState, Rearm, StoreState, FailEvaluation, Crash, Forget
<1>4. ASSUME NEW new \in Policies, InstallPolicy(new) PROVE UNCHANGED <<queued, state, stage>>
  BY <1>4 DEF InstallPolicy
<1>5. CASE PolicyStep \/ Tick
  BY <1>5 DEF PolicyStep, ClearWindowState, SetConfig, RollBackPolicy, Tick
<1>6. CASE UNCHANGED vars
  BY <1>6 DEF vars
<1> QED
  BY <1>1, <1>2, <1>3, <1>4, <1>5, <1>6 DEF Next, EvaluationStep

(* No alert of the window follows, within the cooldown, another that the   *)
(* row or the evaluation still tells of, for any policies: only what is    *)
(* cleared, fails or dies before it is stored is forgotten (process_window *)
(* stores nothing when nothing changed).                                   *)
THEOREM CooldownsAreKept == Spec => CooldownKept
<1>1. TypeOK /\ HistoryIsKept /\ [Next]_vars =>
        [queued' # queued \/ (stage = "resetting" /\ stage' = "rearming")
           => ~Younger(quiet, policy.cooldown)]_vars
  <2> SUFFICES ASSUME TypeOK, HistoryIsKept, [Next]_vars,
                      queued' # queued \/ (stage = "resetting" /\ stage' = "rearming")
               PROVE  ~Younger(quiet, policy.cooldown)
    OBVIOUS
  <2>1. ASSUME Evaluating, ~CoolingDown(state) PROVE ~Younger(quiet, policy.cooldown)
    BY <2>1 DEF HistoryIsKept, CoolingDown
  <2>2. CASE AlertReset
    BY <2>1, <2>2 DEF AlertReset, ResetDue, Evaluating
  <2>3. ASSUME AlertCrossing, queued' # queued PROVE ~Younger(quiet, policy.cooldown)
    BY <2>1, <2>3 DEF AlertCrossing, CrossingDue, Evaluating, historyVars
  <2>4. ASSUME AlertPredicted, queued' # queued PROVE ~Younger(quiet, policy.cooldown)
    BY <2>1, <2>4 DEF AlertPredicted, Evaluating, historyVars
  <2>5. queued' # queued \/ AlertReset
    BY AlertSteps
  <2> QED
    BY <2>2, <2>3, <2>4, <2>5, AlertSteps
<1> QED
  BY <1>1, AlertsInvariant, PTL DEF Spec, CooldownKept

(* A threshold or a forecast is alerted once until it is re-armed, or      *)
(* until a clearing, a failure or a crash takes what was told of it, for   *)
(* any thresholds: what was told is what the stored mask says.             *)
THEOREM AlertedOncePerCrossing == Spec => OncePerCrossing
<1> DEFINE Once == /\ stage' = "predicting" /\ quiet' = 0 /\ state' # state => \E b \in Crossed : b \notin told
                   /\ stage' = "storing" /\ state' # state => Predictive \notin told
<1>1. TypeOK /\ HistoryIsKept /\ [Next]_vars => [Once]_vars
  <2> SUFFICES ASSUME TypeOK, HistoryIsKept, [Next]_vars PROVE Once
    OBVIOUS
  <2>1. ASSUME stage' = "predicting", state' # state PROVE \E b \in Crossed : b \notin told
    <3>1. AlertCrossing
      BY <2>1, AlertSteps
    <3>2. CrossingDue /\ Evaluating
      BY <2>1, <3>1 DEF AlertCrossing, Evaluating
    <3> QED
      BY <3>2 DEF HistoryIsKept, CrossingDue
  <2>2. ASSUME stage' = "storing", state' # state PROVE Predictive \notin told
    <3>1. AlertPredicted
      BY <2>2, AlertSteps
    <3>2. Predictive \notin state.mask /\ Evaluating
      BY <2>2, <3>1 DEF AlertPredicted, Evaluating
    <3> QED
      BY <3>2 DEF HistoryIsKept
  <2> QED
    BY <2>1, <2>2
<1> QED
  BY <1>1, AlertsInvariant, PTL DEF Spec, OncePerCrossing
=============================================================================
