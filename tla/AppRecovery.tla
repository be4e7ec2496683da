----------------------------- MODULE AppRecovery -----------------------------
(***************************************************************************)
(* How the menu bar app keeps what it shows up to date (App/AppState.swift,*)
(* State/StaleUsagePolicy.swift): everything runs on the main actor and    *)
(* interleaves where it awaits.  Loads of the daemon's state are shared,   *)
(* and so is the recovery that refreshes what became stale, or everything  *)
(* after the machine slept or was offline.  The setup is done.             *)
(***************************************************************************)
EXTENDS Integers, FiniteSets

CONSTANTS
  Readers,       \* who reads again: "poll", and "popover" whenever it is opened
  AppProviders,      \* the providers of config.providers
  MaxTurns    \* bound on how often switches, the network, sleep and the user intervene

ASSUME RecoveryAssumption ==
  "poll" \in Readers /\ Readers \subseteq {"poll", "popover"} /\ IsFiniteSet(AppProviders) /\ MaxTurns \in Nat

VARIABLES
  switchedOn,       \* the providers enabled, as the app was told
  fresh,            \* those whose usage in the daemon is not stale
  current,          \* those whose usage in the app is not (staleProviderIDs)
  daemon,           \* AppState.daemon
  networkStatus,    \* AppState.networkStatus, "none" before the first report
  connectivity,     \* AppState.connectivity.status
  recoveryPending,
  cooling,          \* lastAutomaticRecoveryAt is within automaticRecoveryCooldown
  load,             \* loadTask: none, or how far it is and what was answered
  recovery,         \* automaticRecoveryTask: none, or how far it is and of which providers
  owner,            \* who created that task and has yet to forget it
  caller,           \* where each caller is
  userAsked,        \* the providers the user had refreshed
  counts,           \* refreshingProviderCounts
  turns,
  owed              \* history, see NoRecoveryForgotten

recoveryVars == <<switchedOn, fresh, current, daemon, networkStatus, connectivity, recoveryPending, cooling,
             load, recovery, owner, caller, userAsked, counts, turns, owed>>
worldVars  == <<switchedOn, fresh, networkStatus, turns>>
shownVars  == <<current, daemon, connectivity>>
wantedVars == <<recoveryPending, cooling, owed>>

(* pollLoop, refreshForPopoverOpen, refreshAfterWake, connectivityChanged, *)
(* refreshProvider and refreshAll.                                         *)
AppCallers == Readers \union {"wake", "network", "user"}
Statuses == {"none", "online", "offline"}
NoLoad == [at |-> "none"]
NoRecovery == [at |-> "none", of |-> {}]

RecoveryTypeOK ==
  /\ switchedOn \subseteq AppProviders /\ fresh \subseteq AppProviders /\ current \subseteq fresh
  /\ daemon \in {"loading", "online", "offline"}
  /\ networkStatus \in Statuses /\ connectivity \in {"online", "offline"}
  /\ {recoveryPending, cooling, owed} \subseteq BOOLEAN
  /\ load.at \in {"none", "asked", "retried", "answered", "applied"}
  /\ recovery.at \in {"none", "started", "loading", "ready", "refreshing", "reloading", "reloaded",
                     "finished"}
  /\ recovery.of \subseteq AppProviders
  /\ owner \in AppCallers \union {"nobody"}
  /\ caller \in [AppCallers -> {"idle", "refreshing", "loading", "loaded", "waiting", "owner"}]
  /\ counts \in [AppProviders -> 0..2] /\ userAsked \subseteq AppProviders /\ turns \in 0..MaxTurns

RecoveryInit ==
  /\ switchedOn \in SUBSET AppProviders /\ fresh = AppProviders /\ current = {} /\ daemon = "loading"
  /\ networkStatus = "none" /\ connectivity = "online"
  /\ recoveryPending = FALSE /\ cooling = FALSE /\ owed = FALSE
  /\ load = NoLoad /\ recovery = NoRecovery /\ owner = "nobody"
  /\ caller = [c \in AppCallers |-> "idle"] /\ userAsked = {}
  /\ counts = [p \in AppProviders |-> 0] /\ turns = 0
-----------------------------------------------------------------------------
(* load: who asks while one is under way waits for that one.               *)
AskLoad == load' = IF load = NoLoad THEN [at |-> "asked"] ELSE load

(* performLoad: the daemon answers with what it has now, and the answer is *)
(* applied later; if it does not, it is made to run, once.                 *)
DaemonAnswers ==
  /\ load.at \in {"asked", "retried"}
  /\ \E network \in {"online", "offline"} : load' = [at |-> "answered", fresh |-> fresh, network |-> network]
  /\ UNCHANGED <<worldVars, shownVars, wantedVars, recovery, owner, caller, userAsked, counts>>

ApplyState ==
  /\ load.at = "answered"
  /\ load' = [at |-> "applied"]
  /\ current' = load.fresh \intersect fresh /\ daemon' = "online"
  /\ connectivity' = IF networkStatus = "none" THEN load.network ELSE connectivity
  /\ UNCHANGED <<worldVars, wantedVars, recovery, owner, caller, userAsked, counts>>

(* ensureRunning.                                                          *)
DaemonMissing ==
  /\ load.at = "asked" /\ load' = [at |-> "retried"]
  /\ UNCHANGED <<worldVars, shownVars, wantedVars, recovery, owner, caller, userAsked, counts>>

LoadFails ==
  /\ load.at \in {"asked", "retried"}
  /\ load' = [at |-> "applied"] /\ daemon' = "offline"
  /\ UNCHANGED <<worldVars, current, connectivity, wantedVars, recovery, owner, caller, userAsked, counts>>

(* Alerts were delivered (NotificationQueue); everybody who waited goes on.*)
LoadEnds ==
  /\ load.at = "applied" /\ load' = NoLoad
  /\ caller' = [c \in AppCallers |-> IF caller[c] = "loading" THEN "loaded" ELSE caller[c]]
  /\ recovery' = CASE recovery.at = "loading"   -> [recovery EXCEPT !.at = "ready"]
                   [] recovery.at = "reloading" -> [recovery EXCEPT !.at = "reloaded"]
                   [] OTHER -> recovery
  /\ UNCHANGED <<worldVars, shownVars, wantedVars, owner, userAsked, counts>>
-----------------------------------------------------------------------------
(* beginRefreshing.                                                        *)
Begun(of) == [p \in AppProviders |-> counts[p] + (IF p \in of THEN 1 ELSE 0)]
(* Mutant: whoever ends first ends it for all.                             *)
Forgotten(of) == [p \in AppProviders |-> IF p \in of THEN 0 ELSE counts[p]]
(* endRefreshing.                                                          *)
TaskEnded(of) == [p \in AppProviders |-> counts[p] - (IF p \in of THEN 1 ELSE 0)]

(* requestStaleDataRecovery: the one that runs is shared, and one that is  *)
(* over but not forgotten by its owner lets the caller go at once.         *)
RequestRecovery(c, reload) ==
  \/ /\ recovery.at = "none"
     /\ recovery' = [at |-> IF reload THEN "started" ELSE "ready", of |-> {}]
     /\ owner' = c /\ caller' = [caller EXCEPT ![c] = "owner"]
  \/ /\ recovery.at \notin {"none", "finished"}
     /\ caller' = [caller EXCEPT ![c] = "waiting"] /\ UNCHANGED <<recovery, owner>>
  \/ /\ recovery.at = "finished"
     /\ caller' = [caller EXCEPT ![c] = "idle"] /\ UNCHANGED <<recovery, owner>>

Finish ==
  /\ recovery' = [recovery EXCEPT !.at = "finished"]
  /\ caller' = [c \in AppCallers |-> IF caller[c] = "waiting" THEN "idle" ELSE caller[c]]

RecoveryLoads ==
  /\ recovery.at = "started"
  /\ recovery' = [recovery EXCEPT !.at = "loading"] /\ AskLoad
  /\ UNCHANGED <<worldVars, shownVars, wantedVars, owner, caller, userAsked, counts>>

Stale == switchedOn \ current
DueNow == IF recoveryPending THEN switchedOn ELSE IF cooling THEN {} ELSE Stale
Reachable == daemon = "online" /\ connectivity # "offline"

(* What is wanted is forgotten before it is done.                          *)
RefreshDue ==
  /\ recovery.at = "ready" /\ Reachable /\ DueNow # {}
  /\ recoveryPending' = FALSE /\ cooling' = TRUE /\ owed' = FALSE
  /\ recovery' = [at |-> "refreshing", of |-> DueNow] /\ counts' = Begun(DueNow)
  /\ UNCHANGED <<worldVars, shownVars, load, owner, caller, userAsked>>

NothingDue ==
  /\ recovery.at = "ready" /\ ~(Reachable /\ DueNow # {})
  /\ Finish /\ UNCHANGED <<worldVars, shownVars, wantedVars, load, owner, userAsked, counts>>

(* Mutant: what is wanted is forgotten when the refresh is done.           *)
NoLongerPending == FALSE
(* What was wanted meanwhile stays wanted.                                 *)
StillPending == recoveryPending

(* client.refresh: some are collected, or the daemon skipped it offline.   *)
RefreshAnswers ==
  /\ recovery.at = "refreshing"
  /\ recovery' = [recovery EXCEPT !.at = "reloading"] /\ AskLoad
  /\ \/ \E done \in SUBSET recovery.of : fresh' = fresh \union done /\ recoveryPending' = StillPending
     \/ recoveryPending' = TRUE /\ UNCHANGED fresh
  /\ UNCHANGED <<switchedOn, networkStatus, turns, shownVars, cooling, owed, owner, caller, userAsked, counts>>

(* ... or it fails: what was wanted is not wanted again.                   *)
RefreshThrows ==
  /\ recovery.at = "refreshing"
  /\ Finish /\ counts' = TaskEnded(recovery.of)
  /\ UNCHANGED <<worldVars, shownVars, wantedVars, load, owner, userAsked>>

RecoveryEnds ==
  /\ recovery.at = "reloaded"
  /\ Finish /\ counts' = TaskEnded(recovery.of)
  /\ UNCHANGED <<worldVars, shownVars, wantedVars, load, owner, userAsked>>

(* Mutant: the owner leaves without forgetting the task.                   *)
Remember == recovery
Forget == NoRecovery
OwnerResumes ==
  /\ recovery.at = "finished"
  /\ recovery' = Forget /\ owner' = "nobody" /\ caller' = [caller EXCEPT ![owner] = "idle"]
  /\ UNCHANGED <<worldVars, shownVars, wantedVars, load, userAsked, counts>>
-----------------------------------------------------------------------------
(* pollLoop, after its sleep; refreshForPopoverOpen.                       *)
PollLoads(c) ==
  /\ caller[c] = "idle"
  /\ AskLoad /\ caller' = [caller EXCEPT ![c] = "loading"]
  /\ UNCHANGED <<worldVars, shownVars, wantedVars, recovery, owner, userAsked, counts>>
PollRecovers(c) ==
  /\ caller[c] = "loaded"
  /\ RequestRecovery(c, FALSE)
  /\ UNCHANGED <<worldVars, shownVars, wantedVars, load, userAsked, counts>>

Turn == turns < MaxTurns /\ turns' = turns + 1
WantRecovery == recoveryPending' = TRUE /\ cooling' = FALSE /\ owed' = TRUE

(* A second call of the same kind, while the first waits, only waits too.  *)
JoinRecovery(c) ==
  IF caller[c] = "idle" THEN RequestRecovery(c, TRUE) ELSE UNCHANGED <<recovery, owner, caller>>

Wake ==
  /\ Turn /\ WantRecovery /\ JoinRecovery("wake")
  /\ UNCHANGED <<switchedOn, fresh, networkStatus, shownVars, load, userAsked, counts>>

(* connectivityChanged.                                                    *)
WentOffline ==
  /\ Turn /\ networkStatus # "offline"
  /\ networkStatus' = "offline" /\ connectivity' = "offline" /\ recoveryPending' = TRUE
  /\ UNCHANGED <<switchedOn, fresh, current, daemon, cooling, owed, load, recovery, owner, caller, userAsked, counts>>
CameOnline ==
  /\ Turn /\ networkStatus # "online"
  /\ networkStatus' = "online" /\ connectivity' = "online"
  /\ IF connectivity = "offline" \/ recoveryPending
     THEN WantRecovery /\ JoinRecovery("network")
     ELSE UNCHANGED <<wantedVars, recovery, owner, caller>>
  /\ UNCHANGED <<switchedOn, fresh, current, daemon, load, userAsked, counts>>

(* refreshProvider, refreshAll.                                            *)
UserRefreshes(of) ==
  /\ Turn /\ caller["user"] = "idle" /\ of # {}
  /\ caller' = [caller EXCEPT !["user"] = "refreshing"] /\ userAsked' = of /\ counts' = Begun(of)
  /\ UNCHANGED <<switchedOn, fresh, networkStatus, shownVars, wantedVars, load, recovery, owner>>
UserAnswered ==
  /\ caller["user"] = "refreshing"
  /\ fresh' = fresh \union userAsked /\ AskLoad
  /\ caller' = [caller EXCEPT !["user"] = "loading"]
  /\ UNCHANGED <<switchedOn, networkStatus, turns, shownVars, wantedVars, recovery, owner, userAsked, counts>>
UserDone ==
  /\ caller["user"] \in {"refreshing", "loaded"}
  /\ caller' = [caller EXCEPT !["user"] = "idle"] /\ counts' = TaskEnded(userAsked)
  /\ UNCHANGED <<worldVars, shownVars, wantedVars, load, recovery, owner, userAsked>>

(* setProviderEnabled, as far as config is concerned.                      *)
SwitchProvider(p) ==
  /\ Turn /\ switchedOn' = (switchedOn \ {p}) \union ({p} \ switchedOn)
  /\ UNCHANGED <<fresh, networkStatus, shownVars, wantedVars, load, recovery, owner, caller, userAsked, counts>>
-----------------------------------------------------------------------------
(* Usage becomes too old, in the daemon or only in the app; the daemon     *)
(* polls; the cooldown passes.                                             *)
UsageAges(p) ==
  /\ p \in current /\ current' = current \ {p} /\ fresh' \in {fresh, fresh \ {p}}
  /\ UNCHANGED <<switchedOn, networkStatus, turns, daemon, connectivity, wantedVars, load, recovery, owner, caller, userAsked, counts>>
DaemonPolls(p) ==
  /\ p \notin fresh /\ fresh' = fresh \union {p}
  /\ UNCHANGED <<switchedOn, networkStatus, turns, shownVars, wantedVars, load, recovery, owner, caller, userAsked, counts>>
CoolsDown ==
  /\ cooling /\ cooling' = FALSE
  /\ UNCHANGED <<worldVars, shownVars, recoveryPending, owed, load, recovery, owner, caller, userAsked, counts>>

LoadStep == DaemonAnswers \/ LoadFails \/ ApplyState \/ LoadEnds
RecoveryStep ==
  RecoveryLoads \/ RefreshDue \/ NothingDue \/ RefreshAnswers \/ RefreshThrows \/ RecoveryEnds \/ OwnerResumes
UserEnds == UserAnswered \/ UserDone
RecoveryNext ==
  \/ LoadStep \/ DaemonMissing
  \/ RecoveryStep \/ UserEnds \/ CoolsDown
  \/ \E c \in Readers : PollLoads(c) \/ PollRecovers(c)
  \/ Wake \/ WentOffline \/ CameOnline
  \/ UserRefreshes(switchedOn)
  \/ \E p \in AppProviders : UserRefreshes({p}) \/ SwitchProvider(p) \/ UsageAges(p) \/ DaemonPolls(p)

(* Requests to the daemon time out, sleeps end, and the main actor goes on.*)
RecoveryFairness ==
  /\ WF_recoveryVars(LoadStep) /\ WF_recoveryVars(RecoveryStep) /\ WF_recoveryVars(PollLoads("poll"))
  /\ (\A c \in Readers : WF_recoveryVars(PollRecovers(c))) /\ WF_recoveryVars(CoolsDown)
RecoverySpec == RecoveryInit /\ [][RecoveryNext]_recoveryVars /\ RecoveryFairness
-----------------------------------------------------------------------------
(* A wake-up or a return of the network is followed by a refresh of all    *)
(* providers that begins after it: whenever it comes, even while an        *)
(* earlier recovery is refreshing, it is remembered until then             *)
(* (refreshAfterWake, connectivityChanged).                                *)
NoRecoveryForgotten == owed => recoveryPending

(* The activity shown is that of the refreshes under way, which overlap    *)
(* (beginRefreshing, endRefreshing).                                       *)
Under(p) ==
  (IF p \in recovery.of /\ recovery.at \in {"refreshing", "reloading", "reloaded"} THEN 1 ELSE 0)
  + (IF p \in userAsked /\ caller["user"] # "idle" THEN 1 ELSE 0)
ActivityShown == \A p \in AppProviders : counts[p] = Under(p)

AppSound == RecoveryTypeOK /\ NoRecoveryForgotten /\ ActivityShown

(* What is wanted, or became stale, is refreshed while the daemon answers  *)
(* and the network is there (requestStaleDataRecovery).                    *)
RecoveryComes ==
  /\ owed ~> (~owed \/ ~Reachable \/ switchedOn = {})
  /\ \A p \in AppProviders : p \in Stale ~> (p \notin Stale \/ p \in recovery.of \/ ~Reachable)
=============================================================================
