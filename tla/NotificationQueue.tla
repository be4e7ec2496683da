------------------------- MODULE NotificationQueue --------------------------
(***************************************************************************)
(* The way of an alert from the daemon to the desktop: the table           *)
(* pending_notifications (usage-daemon/src/storage/notifications.rs), the  *)
(* switch that turns notifications on and off (apply_notification_effects  *)
(* in daemon.rs) and the calls of the menu bar app that show alerts and    *)
(* acknowledge them (deliverPendingNotifications in AppState.swift and     *)
(* NotificationDelivery.swift).                                            *)
(*                                                                         *)
(* What decides about an alert is the module Alerts; here an evaluation    *)
(* may queue one.  An alert is known by its number, besides the id of its  *)
(* row.  The one writer connection runs a call at a time, readers see each *)
(* statement of it.                                                        *)
(***************************************************************************)
EXTENDS Naturals, FiniteSetsExt

CONSTANTS
  Deliveries,  \* calls of deliverPendingNotifications
  MaxAlerts,   \* bound on the alerts
  Capacity,    \* 1000: rows kept
  Page,        \* 100: rows handed out at a time
  Faults,      \* storage calls, requests and the notification center may fail
  Crashes      \* the daemon and the app may crash

ASSUME QueueAssumption ==
  /\ MaxAlerts \in Nat \ {0} /\ Capacity \in Nat \ {0} /\ Page \in Nat \ {0}
  /\ Faults \in BOOLEAN /\ Crashes \in BOOLEAN

VARIABLES
  configured, \* enabled, in config.json and the live configuration
  on,         \* enabled, in NotificationManager
  change,     \* where commit_config_change is
  evaluating, \* an evaluation that found notifications on
  trimming,   \* the writer is between the statements of enqueue_notification
  queue,      \* pending_notifications
  lastId,     \* the AUTOINCREMENT sequence of the table
  alerts,     \* the number of the last alert
  appOn,      \* enabled, in the app's copy of the configuration
  authorized, \* notificationAuthorization of the app
  phase, page, delivered, \* of each call: where it is, its rows left, its ids
  shown,      \* history: alerts handed to the notification center
  cleared     \* history: alerts cleared when notifications were turned off

daemonVars == <<configured, on, change, evaluating, trimming>>
tableVars  == <<queue, lastId, alerts>>
appVars    == <<appOn, authorized>>
callVars   == <<phase, page, delivered>>
vars == <<daemonVars, tableVars, appVars, callVars, shown, cleared>>

Row == [id : 1 .. MaxAlerts, alert : 1 .. MaxAlerts]

Init ==
  /\ configured \in BOOLEAN /\ on = configured /\ appOn = configured
  /\ change = "none"
  /\ evaluating = FALSE /\ trimming = FALSE
  /\ queue = {} /\ lastId = 0 /\ alerts = 0
  /\ authorized = TRUE
  /\ phase = [d \in Deliveries |-> "idle"]
  /\ page = [d \in Deliveries |-> {}]
  /\ delivered = [d \in Deliveries |-> {}]
  /\ shown = {} /\ cleared = {}
-----------------------------------------------------------------------------
Alerted(rows) == {row.alert : row \in rows}

Oldest(rows, n) ==
  {row \in rows : Cardinality({other \in rows : other.id < row.id}) < n}

BeginEvaluation ==
  /\ on /\ ~evaluating
  /\ evaluating' = TRUE
  /\ UNCHANGED <<configured, on, change, trimming, tableVars, appVars, callVars, shown, cleared>>

EndEvaluation ==
  /\ evaluating /\ ~trimming
  /\ evaluating' = FALSE
  /\ UNCHANGED <<configured, on, change, trimming, tableVars, appVars, callVars, shown, cleared>>

(* Mutant: a table without AUTOINCREMENT takes the highest id and one.     *)
ReusedId == IF queue = {} THEN 1 ELSE Max({row.id : row \in queue}) + 1

NextId == lastId + 1

(* The INSERT of enqueue_notification                                      *)
InsertAlert ==
  /\ evaluating /\ ~trimming /\ alerts < MaxAlerts
  /\ alerts' = alerts + 1
  /\ queue' = queue \union {[id |-> NextId, alert |-> alerts']}
  /\ lastId' = NextId
  /\ trimming' = TRUE
  /\ UNCHANGED <<configured, on, change, evaluating, appVars, callVars, shown, cleared>>

(* Mutant: the oldest rows are kept.                                       *)
KeptOldest == Oldest(queue, Capacity)

Kept == queue \ Oldest(queue, Max({Cardinality(queue) - Capacity, 0}))

(* Its DELETE, which may fail by itself                                    *)
TrimQueue ==
  /\ trimming
  /\ trimming' = FALSE
  /\ \/ queue' = Kept
     \/ Faults /\ queue' = queue
  /\ UNCHANGED <<configured, on, change, evaluating, lastId, alerts, appVars, callVars, shown, cleared>>
-----------------------------------------------------------------------------
(* A change of the switch: the new configuration is installed, the table   *)
(* cleared when it turns notifications off, and NotificationManager told.  *)
SwitchConfig ==
  /\ change = "none"
  /\ configured' = ~configured
  /\ change' = IF configured THEN "clearing" ELSE "setting"
  /\ UNCHANGED <<on, evaluating, trimming, tableVars, appVars, callVars, shown, cleared>>

ClearPending ==
  /\ change = "clearing" /\ ~trimming
  /\ queue' = {}
  /\ cleared' = cleared \union Alerted(queue)
  /\ change' = "setting"
  /\ UNCHANGED <<configured, on, evaluating, trimming, lastId, alerts, appVars, callVars, shown>>

SetConfig ==
  /\ change = "setting"
  /\ on' = configured
  /\ change' = "none"
  /\ UNCHANGED <<configured, evaluating, trimming, tableVars, appVars, callVars, shown, cleared>>

(* Clearing failed: rolled back, or left if the file cannot be written.    *)
RollBack ==
  /\ change = "clearing" /\ Faults
  /\ configured' \in BOOLEAN /\ (configured' # configured => configured' = on)
  /\ change' = "none"
  /\ UNCHANGED <<on, evaluating, trimming, tableVars, appVars, callVars, shown, cleared>>

DaemonCrash ==
  /\ Crashes
  /\ on' = configured
  /\ change' = "none" /\ evaluating' = FALSE /\ trimming' = FALSE
  /\ UNCHANGED <<configured, tableVars, appVars, callVars, shown, cleared>>
-----------------------------------------------------------------------------
(* The app loads the state, the user changes what macOS lets it show.      *)
Load ==
  /\ appOn' = configured
  /\ UNCHANGED <<daemonVars, tableVars, authorized, callVars, shown, cleared>>

Authorize ==
  /\ authorized' = ~authorized
  /\ UNCHANGED <<daemonVars, tableVars, appOn, callVars, shown, cleared>>

Listed == Oldest(queue, Page)

(* pendingNotifications: the oldest rows                                   *)
ListPending(d) ==
  /\ phase[d] = "idle" /\ appOn /\ authorized
  /\ queue # {}
  /\ page' = [page EXCEPT ![d] = Listed]
  /\ phase' = [phase EXCEPT ![d] = "showing"]
  /\ UNCHANGED <<daemonVars, tableVars, appVars, delivered, shown, cleared>>

(* NotificationDelivery.deliver, in the order of the page: an alert that   *)
(* the center rejects is left.                                             *)
Upcoming(d, row) ==
  /\ phase[d] = "showing" /\ row \in page[d]
  /\ \A other \in page[d] : row.id <= other.id

Show(d, row) ==
  /\ Upcoming(d, row)
  /\ shown' = shown \union {row.alert}
  /\ delivered' = [delivered EXCEPT ![d] = @ \union {row.id}]
  /\ page' = [page EXCEPT ![d] = @ \ {row}]
  /\ UNCHANGED <<daemonVars, tableVars, appVars, phase, cleared>>

FailToShow(d, row) ==
  /\ Upcoming(d, row) /\ Faults
  /\ page' = [page EXCEPT ![d] = @ \ {row}]
  /\ UNCHANGED <<daemonVars, tableVars, appVars, phase, delivered, shown, cleared>>

(* Mutant: a call that has been answered keeps the app busy.               *)
StuckCall(d) ==
  /\ phase' = phase
  /\ page' = [page EXCEPT ![d] = {}]
  /\ delivered' = [delivered EXCEPT ![d] = {}]

EndCall(d) ==
  /\ phase' = [phase EXCEPT ![d] = "idle"]
  /\ page' = [page EXCEPT ![d] = {}]
  /\ delivered' = [delivered EXCEPT ![d] = {}]

(* acknowledge_notifications of the delivered ids, in one transaction      *)
Acknowledge(d) ==
  /\ phase[d] = "showing" /\ page[d] = {} /\ ~trimming
  /\ queue' = {row \in queue : row.id \notin delivered[d]}
  /\ EndCall(d)
  /\ UNCHANGED <<daemonVars, lastId, alerts, appVars, shown, cleared>>

(* The request fails, or the app crashes.                                  *)
LoseCall(d) ==
  /\ phase[d] # "idle"
  /\ Crashes \/ (Faults /\ page[d] = {})
  /\ EndCall(d)
  /\ UNCHANGED <<daemonVars, tableVars, appVars, shown, cleared>>

EvaluationStep == BeginEvaluation \/ EndEvaluation \/ InsertAlert \/ TrimQueue
SwitchStep == SwitchConfig \/ ClearPending \/ SetConfig \/ RollBack
AppStep == Load \/ Authorize
DeliveryStep(d) ==
  \/ ListPending(d)
  \/ \E row \in page[d] : Show(d, row) \/ FailToShow(d, row)
  \/ Acknowledge(d)
  \/ LoseCall(d)

Next ==
  \/ EvaluationStep
  \/ SwitchStep
  \/ DaemonCrash
  \/ AppStep
  \/ \E d \in Deliveries : DeliveryStep(d)

Spec == Init /\ [][Next]_vars

(* The daemon's tasks go on, the app loads the state from time to time and *)
(* one of its calls then asks for alerts.  What is tried again and again   *)
(* with an alert succeeds once: showing it, acknowledging it once shown.   *)
FairSpec ==
  /\ Spec
  /\ WF_vars(TrimQueue) /\ WF_vars(ClearPending) /\ WF_vars(SetConfig) /\ WF_vars(Load)
  /\ LET d == CHOOSE one \in Deliveries : TRUE IN
       /\ SF_vars(ListPending(d)) /\ SF_vars(Acknowledge(d))
       /\ \A a \in 1 .. MaxAlerts :
            /\ SF_vars(\E row \in page[d] : row.alert = a /\ Show(d, row))
            /\ SF_vars(Acknowledge(d) /\ a \in delivered[d])
-----------------------------------------------------------------------------
TypeOK ==
  /\ configured \in BOOLEAN /\ on \in BOOLEAN /\ appOn \in BOOLEAN /\ authorized \in BOOLEAN
  /\ change \in {"none", "clearing", "setting"}
  /\ evaluating \in BOOLEAN /\ trimming \in BOOLEAN
  /\ queue \subseteq Row
  /\ lastId \in 0 .. MaxAlerts /\ alerts \in 0 .. MaxAlerts
  /\ phase \in [Deliveries -> {"idle", "showing"}]
  /\ page \in [Deliveries -> SUBSET Row]
  /\ delivered \in [Deliveries -> SUBSET (1 .. MaxAlerts)]
  /\ \A d \in Deliveries :
       /\ Cardinality(page[d]) <= Page
       /\ phase[d] = "idle" => page[d] = {} /\ delivered[d] = {}
  /\ shown \subseteq 1 .. MaxAlerts /\ cleared \subseteq 1 .. MaxAlerts

(* An acknowledgement takes away what was shown and nothing else: neither  *)
(* an alert that was rejected, nor a newer one that took the place of one  *)
(* shown before (acknowledge_notifications).                               *)
AcknowledgedWasShown ==
  [][\A d \in Deliveries : phase[d] = "showing" /\ phase'[d] = "idle"
       => Alerted(queue \ queue') \subseteq shown]_vars

(* Every alert that was queued was shown, waits in the queue, was cleared  *)
(* with the queue, or made room for as many newer ones as the queue holds. *)
NothingForgotten ==
  \A a \in 1 .. alerts :
    \/ a \in shown \union cleared \union Alerted(queue)
    \/ a + Capacity <= alerts

(* A queued alert leaves the queue while notifications stay on and macOS   *)
(* lets the app show them: the head of the queue does not block it, nor do *)
(* concurrent deliveries.                                                  *)
QueueDrains ==
  <>[](configured /\ authorized)
    => \A a \in 1 .. MaxAlerts : a \in Alerted(queue) ~> a \notin Alerted(queue)
=============================================================================
