------------------------------- MODULE Alerts -------------------------------
(***************************************************************************)
(* The alerts of one usage window (usage-daemon/src/notifications.rs), and *)
(* the changes of the notification policy they may race                    *)
(* (commit_config_change and apply_notification_effects in daemon.rs).     *)
(*                                                                         *)
(* Each snapshot of the account is evaluated with a copy of the policy: at *)
(* most one alert for a completed reset, one for the thresholds crossed    *)
(* and one for a forecast, each subject to the window's cooldown.  Every   *)
(* storage call is a step.  An account is collected by one future of one   *)
(* flight (RefreshJobs), so evaluations of a window do not overlap.        *)
(*                                                                         *)
(* Time is counted in ticks from now: the stored reset time as the ticks   *)
(* left to it, 0 once it has passed, the last alert as its age.  No tick   *)
(* falls into an evaluation, which takes milliseconds.                     *)
(***************************************************************************)
EXTENDS Integers, FiniteSets

CONSTANTS
  Policies,    \* the policies that resolve for the window
  MaxPercent,  \* bound of percent_remaining
  MaxLeft,     \* bound on the ticks to a reset
  MaxAge,      \* age from which no cooldown is active
  NoRow,
  None,        \* no reset time, or no alert yet
  StorageFaults,
  Crashes

Positions  == 1 .. 7   \* bits of the thresholds, from the highest down
Predictive == 8        \* PREDICTIVE_NOTIFICATION_BIT
Policy == [enabled : BOOLEAN, thresholds : SUBSET (0 .. MaxPercent), resets : BOOLEAN,
           predictive : BOOLEAN, cooldown : 0 .. MaxAge]
WindowState == [mask : SUBSET (1 .. 8), left : (0 .. MaxLeft) \union {None},
                age : (0 .. MaxAge) \union {None}]
Observation == [percent : 0 .. MaxPercent, left : (1 .. MaxLeft) \union {None}, atRisk : BOOLEAN]

(* NotificationConfig::validate                                            *)
ASSUME AlertsAssumption ==
  /\ MaxPercent \in Nat /\ MaxLeft \in Nat \ {0} /\ MaxAge \in Nat
  /\ None \notin Nat /\ NoRow \notin WindowState
  /\ Policies \subseteq Policy /\ Policies # {}
  /\ \A policy \in Policies : Cardinality(policy.thresholds) \in Positions

VARIABLES
  file,      \* the policy in config.json
  live,      \* the policy in the daemon's configuration
  manager,   \* the policy NotificationManager evaluates with
  commit,    \* where the change of policy is
  previous,  \* the policy it would roll back to
  row,       \* notification_window_state of the window
  stage,     \* where the evaluation is
  policy,    \* its copy of the policy
  seen,      \* the window it evaluates
  existing,  \* the row as it loaded it
  state,     \* the window state it works on
  told,      \* history: bits alerted and stored since the observation that re-armed them
  queued,    \* history: bits alerted ever
  quiet      \* history: ticks since the last alert that was stored

policyVars  == <<file, live, manager, commit, previous>>
evalVars    == <<stage, policy, seen, existing, state>>
historyVars == <<told, queued, quiet>>
vars == <<policyVars, row, evalVars, historyVars>>

NewState == [mask |-> {}, left |-> None, age |-> None]
Ended    == [percent |-> MaxPercent, left |-> None, atRisk |-> FALSE]

Init ==
  /\ file \in Policies
  /\ live = file /\ manager = file /\ policy = file /\ previous = file
  /\ commit = "none"
  /\ row = NoRow
  /\ stage = "none"
  /\ seen = Ended
  /\ existing = NoRow /\ state = NewState
  /\ told = {} /\ queued = {}
  /\ quiet = None
-----------------------------------------------------------------------------
(* notification_levels: the bit of a threshold is its place in the ladder. *)
Bit(t, thresholds) == Cardinality({u \in thresholds : u > t}) + 1

(* crossed_mask                                                            *)
Crossed == {Bit(t, policy.thresholds) : t \in {u \in policy.thresholds : seen.percent <= u}}

(* Mutant: re-armed as soon as the threshold is left.                      *)
RearmedAtOnce == {Bit(t, policy.thresholds) : t \in {u \in policy.thresholds : seen.percent > u}}

(* REARM_HYSTERESIS: a threshold is re-armed one point above itself.       *)
Rearmed == {Bit(t, policy.thresholds) : t \in {u \in policy.thresholds : seen.percent > u + 1}}

Recovered == {Bit(t, policy.thresholds) : t \in {u \in policy.thresholds : seen.percent > u + 1}}

Younger(age, ticks) == age # None /\ age < ticks
CoolingDown(s) == Younger(s.age, policy.cooldown)

(* process_snapshot_with_forecasts: nothing happens unless notifications   *)
(* are on; the forecast only matters if it is at risk with confidence.     *)
(* Snoozed and quiet windows, and those without authority or a percentage, *)
(* are not evaluated.                                                      *)
BeginEvaluation(observed) ==
  /\ stage = "none" /\ manager.enabled
  /\ stage' = "reading"
  /\ policy' = manager
  /\ seen' = observed
  /\ UNCHANGED <<policyVars, row, existing, state, historyVars>>

EndEvaluation ==
  /\ stage' = "none"
  /\ existing' = NoRow
  /\ state' = NewState

(* The daemon knows no more than the row says: an alert that was not       *)
(* stored, or that a clearing took away, is as good as never given.        *)
Forget ==
  /\ told' = IF row = NoRow THEN {} ELSE row.mask
  /\ quiet' = IF row = NoRow THEN None ELSE row.age
  /\ UNCHANGED queued

(* A storage error ends the evaluation of the window.                      *)
FailEvaluation ==
  /\ stage # "none" /\ StorageFaults
  /\ EndEvaluation
  /\ Forget
  /\ UNCHANGED <<policyVars, row, policy, seen>>

ReadState ==
  /\ stage = "reading"
  /\ existing' = row
  /\ state' = IF row = NoRow THEN [NewState EXCEPT !.left = seen.left] ELSE row
  /\ stage' = "resetting"
  /\ UNCHANGED <<policyVars, row, policy, seen, historyVars>>

(* enqueue_notification, and last_attempt_at of the state                  *)
Enqueue(bits) ==
  /\ state' = [state EXCEPT !.mask = @ \union bits, !.age = 0]
  /\ told' = told \union bits
  /\ queued' = queued \union bits
  /\ quiet' = 0

(* reset_completed: the stored reset time has passed and a later one is    *)
(* announced.                                                              *)
Completed == existing # NoRow /\ existing.left = 0 /\ seen.left # None

ResetDue == Completed /\ policy.resets /\ ~CoolingDown(state)

AlertReset ==
  /\ stage = "resetting" /\ ResetDue
  /\ Enqueue({})
  /\ stage' = "rearming"
  /\ UNCHANGED <<policyVars, row, policy, seen, existing>>

(* A reset re-arms the forecast, a recovery its threshold.                 *)
Rearm ==
  /\ stage = "rearming" \/ (stage = "resetting" /\ ~ResetDue)
  /\ LET gone == IF Completed THEN {Predictive} ELSE {} IN
       /\ state' = [state EXCEPT !.mask = @ \ (Rearmed \union gone)]
       /\ told' = told \ (Recovered \union gone)
  /\ stage' = "crossing"
  /\ UNCHANGED <<policyVars, row, policy, seen, existing, queued, quiet>>

(* Mutant: the cooldown that the reset's alert began is not looked at.     *)
CrossingAfterReset == Crossed \ state.mask # {} /\ (Completed \/ ~CoolingDown(state))

CrossingDue == Crossed \ state.mask # {} /\ ~CoolingDown(state)

(* Mutant: what is crossed is marked, the cooldown only keeps it silent.   *)
MarkCrossing ==
  /\ stage = "crossing"
  /\ IF CrossingDue THEN Enqueue(Crossed)
                    ELSE state' = [state EXCEPT !.mask = @ \union Crossed] /\ UNCHANGED historyVars
  /\ stage' = "predicting"
  /\ UNCHANGED <<policyVars, row, policy, seen, existing>>

AlertCrossing ==
  /\ stage = "crossing"
  /\ IF CrossingDue THEN Enqueue(Crossed) ELSE UNCHANGED <<state, historyVars>>
  /\ stage' = "predicting"
  /\ UNCHANGED <<policyVars, row, policy, seen, existing>>

AlertPredicted ==
  /\ stage = "predicting"
  /\ IF policy.predictive /\ Predictive \notin state.mask /\ seen.atRisk /\ ~CoolingDown(state)
     THEN Enqueue({Predictive}) ELSE UNCHANGED <<state, historyVars>>
  /\ stage' = "storing"
  /\ UNCHANGED <<policyVars, row, policy, seen, existing>>

Decided == [state EXCEPT !.left = seen.left]

(* notification_decision_state_changed: a reset time may also be revised   *)
(* by less than a tick.                                                    *)
Unchanged == Decided = existing
MayDiffer == Decided # existing \/ seen.left # None

(* upsert_notification_window_state, unless the decision is what was       *)
(* loaded.  A row that was cleared since then stays away in that case, and *)
(* with it what it said.                                                   *)
StoreState ==
  /\ stage = "storing"
  /\ \/ Unchanged /\ row' = row
     \/ MayDiffer /\ row' = Decided
  /\ IF row' = Decided THEN UNCHANGED historyVars ELSE Forget
  /\ EndEvaluation
  /\ UNCHANGED <<policyVars, policy, seen>>
-----------------------------------------------------------------------------
(* A change of policy: commit_config_change.                               *)

LadderChanged(old, new) == old.thresholds # new.thresholds
Reenabled(old, new) == ~old.enabled /\ new.enabled

(* The new policy is in the file and in the live configuration.            *)
InstallPolicy(new) ==
  /\ commit = "none" /\ new # live
  /\ previous' = live
  /\ file' = new /\ live' = new
  /\ commit' = IF Reenabled(live, new) \/ LadderChanged(live, new) THEN "clearing" ELSE "setting"
  /\ UNCHANGED <<manager, row, evalVars, historyVars>>

(* clear_notification_window_state                                         *)
ClearWindowState ==
  /\ commit = "clearing"
  /\ row' = NoRow
  /\ commit' = "setting"
  /\ IF stage \in {"none", "reading"} THEN told' = {} /\ quiet' = None ELSE UNCHANGED <<told, quiet>>
  /\ UNCHANGED <<file, live, manager, previous, evalVars, queued>>

(* NotificationManager::set_config, after clear_pending_notifications if   *)
(* notifications were turned off.                                          *)
SetConfig ==
  /\ commit = "setting"
  /\ manager' = live
  /\ commit' = "none"
  /\ UNCHANGED <<file, live, previous, row, evalVars, historyVars>>

(* A clearing of the window states, or of the queue when notifications     *)
(* were turned off, failed: rollback_config_change, if the file can be     *)
(* written.                                                                *)
RollBackPolicy ==
  /\ commit = "clearing" \/ (commit = "setting" /\ previous.enabled /\ ~live.enabled)
  /\ StorageFaults
  /\ \/ file' = previous /\ live' = previous /\ manager' = previous
     \/ UNCHANGED <<file, live, manager>>
  /\ commit' = "none"
  /\ UNCHANGED <<previous, row, evalVars, historyVars>>
-----------------------------------------------------------------------------
Older(age) == IF age = None \/ age = MaxAge THEN age ELSE age + 1
Sooner(left) == IF left = None \/ left = 0 THEN left ELSE left - 1

Tick ==
  /\ stage = "none"
  /\ row' = IF row = NoRow THEN NoRow ELSE [row EXCEPT !.age = Older(@), !.left = Sooner(@)]
  /\ quiet' = Older(quiet)
  /\ UNCHANGED <<policyVars, evalVars, told, queued>>

Crash ==
  /\ Crashes
  /\ live' = file /\ manager' = file
  /\ commit' = "none"
  /\ EndEvaluation
  /\ Forget
  /\ UNCHANGED <<file, previous, row, policy, seen>>

EvaluationStep == ReadState \/ AlertReset \/ Rearm \/ AlertCrossing \/ AlertPredicted \/ StoreState
PolicyStep == ClearWindowState \/ SetConfig \/ RollBackPolicy

Next ==
  \/ \E observed \in Observation : BeginEvaluation(observed)
  \/ EvaluationStep
  \/ FailEvaluation
  \/ \E new \in Policies : InstallPolicy(new)
  \/ PolicyStep
  \/ Tick
  \/ Crash

Spec == Init /\ [][Next]_vars

(* The runtime polls an evaluation until it ends, and time passes between  *)
(* evaluations, however many there are.                                    *)
FairSpec == Spec /\ WF_vars(EvaluationStep) /\ SF_vars(Tick)
-----------------------------------------------------------------------------
TypeOK ==
  /\ file \in Policies /\ live \in Policies /\ manager \in Policies
  /\ policy \in Policies /\ previous \in Policies
  /\ commit \in {"none", "clearing", "setting"}
  /\ row \in WindowState \union {NoRow}
  /\ stage \in {"none", "reading", "resetting", "rearming", "crossing", "predicting", "storing"}
  /\ seen \in Observation
  /\ existing \in WindowState \union {NoRow}
  /\ state \in WindowState
  /\ told \subseteq 1 .. 8 /\ queued \subseteq 1 .. 8
  /\ quiet \in (0 .. MaxAge) \union {None}

(* An alert is queued only for something new: a threshold that was not     *)
(* alerted since usage was last seen to have recovered above it, a         *)
(* forecast that was not since the last reset (process_window).  An alert  *)
(* whose evaluation fails or dies before it is stored may be repeated, and *)
(* so may one whose row a change of policy clears: one that was cleared    *)
(* before an evaluation, or during one that stores nothing.                *)
OncePerCrossing ==
  [][/\ stage' = "predicting" /\ quiet' = 0 /\ state' # state => \E b \in Crossed : b \notin told
     /\ stage' = "storing" /\ state' # state => Predictive \notin told]_vars

(* Alerts of a window keep the cooldown's distance, whichever of the three *)
(* kinds they are and whatever evaluations are between them, but from an   *)
(* alert that was forgotten in one of the same two ways (Forget).          *)
CooldownKept ==
  [][queued' # queued \/ (stage = "resetting" /\ stage' = "rearming")
       => ~Younger(quiet, policy.cooldown)]_vars

(* What is marked as notified was queued, wherever the daemon dies and     *)
(* whichever storage call fails: alerts may be repeated, not forgotten.    *)
MarkedWasQueued == row # NoRow => row.mask \subseteq queued

(* Usage that stays at or below a threshold is alerted in the end: the     *)
(* cooldown delays the alert and does not swallow it, as long as windows   *)
(* are evaluated, and once resets, faults, crashes and clearings are over. *)
CrossingAlerted ==
  \A t \in 0 .. MaxPercent :
    /\ <>[](t \in manager.thresholds /\ seen.percent <= t /\ ~Completed)
    /\ []<>(stage = "storing")
    /\ <>[][~FailEvaluation /\ ~Crash /\ ~ClearWindowState]_vars
    => <>[](Bit(t, manager.thresholds) \in told)
=============================================================================
