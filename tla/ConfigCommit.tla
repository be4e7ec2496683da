---------------------------- MODULE ConfigCommit ----------------------------
(***************************************************************************)
(* The one write path of the configuration (commit_config_change in        *)
(* usage-daemon/src/daemon.rs, persist in config.rs): the file, the live   *)
(* copy and what is derived from it change one after the other, under one  *)
(* lock, and are rolled back when a later step fails.  The daemon may die  *)
(* between any two steps and starts again with the file.  One account,     *)
(* with a managed profile.                                                 *)
(***************************************************************************)
EXTENDS Integers

CONSTANT Edits  \* what callers ask for, a subset of AllEdits

AllEdits == {"interval", "toggle", "silence", "ladder", "delete"}
ASSUME ConfigCommitAssumption == Edits \subseteq AllEdits

VARIABLES
  file,      \* config.json
  runtime,   \* the live copy and its subscribers, each with what it sees of it
  change,    \* the change under way, which holds config_mutation
  row,       \* the account is in the database
  folder,    \* its profile's directory
  acked,     \* history: the configuration that callers were told of
  discarded,   \* history: pending alerts were deleted by the change under way, or one rolled back
  torn       \* history: a rollback failed, or the file was written and still reported as an error

configVars == <<file, runtime, change, row, folder, acked, discarded, torn>>

Configs ==
  [interval : {60, 300}, enabled : BOOLEAN, profile : {"kept", "deleted"}, alerts : BOOLEAN, ladder : {1, 2}]

(* install_config, in its order; the notification manager comes later.     *)
Subscribers == <<"logs", "live", "collectors", "schedule">>

View(s, c) ==
  CASE s = "live"                   -> c
    [] s \in {"logs", "collectors"} -> <<c.enabled, c.profile>>
    [] s = "schedule"               -> <<c.interval, c.enabled>>
    [] s = "manager"                -> <<c.alerts, c.ladder>>

Everyone == {"logs", "live", "collectors", "schedule", "manager"}
Started(c) == [s \in Everyone |-> View(s, c)]

Edited(e, c) ==
  CASE e = "interval" -> {[c EXCEPT !.interval = 360 - @]}
    [] e = "toggle"   -> {[c EXCEPT !.enabled = ~@]}
    [] e = "silence"  -> {[c EXCEPT !.alerts = ~@]}
    [] e = "ladder"   -> {[c EXCEPT !.ladder = 3 - @, !.alerts = a] : a \in BOOLEAN}
    [] e = "delete"   -> {[c EXCEPT !.profile = "deleted"]}

NoChange == [stage |-> "none"]

ConfigInit ==
  /\ file \in {c \in Configs : c.interval = 60 /\ c.enabled /\ c.profile = "kept" /\ c.ladder = 1}
  /\ runtime = Started(file) /\ acked = file
  /\ change = NoChange
  /\ row = TRUE /\ folder = TRUE /\ discarded = FALSE /\ torn = FALSE
-----------------------------------------------------------------------------
At(stage) == change.stage = stage
GoTo(stage) == change' = [change EXCEPT !.stage = stage]

(* The lock is taken and the live copy cloned; collectors that cannot be   *)
(* built end the change here.  After a torn change only a restart is       *)
(* followed: nothing is claimed of what comes next.                        *)
BeginChange ==
  /\ At("none") /\ ~torn
  /\ \E e \in Edits : \E updated \in Edited(e, runtime["live"]) :
       /\ e = "delete" => row
       /\ change' = [stage |-> "persist", edit |-> e, previous |-> runtime["live"], updated |-> updated, next |-> 1]
  /\ UNCHANGED <<file, runtime, row, folder, acked, discarded, torn>>

(* write_config_atomically: an error before the rename leaves the file as  *)
(* it was, one of the directory's sync does not.                           *)
Written(c) ==
  \/ file' = c /\ UNCHANGED torn /\ GoTo("install")
  \/ UNCHANGED <<file, torn>> /\ change' = NoChange
  \/ file' = c /\ torn' = TRUE /\ change' = NoChange

Persist ==
  /\ At("persist")
  /\ Written(change.updated)
  /\ UNCHANGED <<runtime, row, folder, acked, discarded>>

(* A deletion that changed nothing in the configuration only commits.      *)
Unchanged ==
  /\ At("persist") /\ change.previous = change.updated
  /\ GoTo("commit")
  /\ UNCHANGED <<file, runtime, row, folder, acked, discarded, torn>>

Published(c, then) ==
  /\ runtime' = [runtime EXCEPT ![Subscribers[change.next]] = View(Subscribers[change.next], c)]
  /\ change' = IF change.next = 4 THEN [change EXCEPT !.stage = then, !.next = 1] ELSE [change EXCEPT !.next = @ + 1]

Install ==
  /\ At("install")
  /\ Published(change.updated, "effects")
  /\ UNCHANGED <<file, row, folder, acked, discarded, torn>>

Disabled == change.previous.alerts /\ ~change.updated.alerts
PolicyChanged == change.previous.ladder # change.updated.ladder \/ (~change.previous.alerts /\ change.updated.alerts)

(* Mutant: pending alerts are deleted first.                               *)
DeletePendingFirst ==
  /\ At("effects")
  /\ \/ /\ discarded' = Disabled /\ runtime' = [runtime EXCEPT !["manager"] = View("manager", change.updated)]
        /\ GoTo("commit")
     \/ PolicyChanged /\ GoTo("restore") /\ discarded' = Disabled /\ UNCHANGED runtime
  /\ UNCHANGED <<file, row, folder, acked, torn>>

(* apply_notification_effects: windows, then pending alerts, then the      *)
(* manager; either of the storage calls may fail.                          *)
NotificationEffects ==
  /\ At("effects")
  /\ \/ /\ discarded' = Disabled /\ runtime' = [runtime EXCEPT !["manager"] = View("manager", change.updated)]
        /\ GoTo("commit")
     \/ (PolicyChanged \/ Disabled) /\ GoTo("restore") /\ UNCHANGED <<runtime, discarded>>
  /\ UNCHANGED <<file, row, folder, acked, torn>>

(* The caller's commit: the account's row goes with its tombstone.         *)
Commit ==
  /\ At("commit")
  /\ \/ /\ row' = (row /\ change.edit # "delete")
        /\ acked' = change.updated /\ discarded' = FALSE
        /\ change' = NoChange
     \/ /\ change.edit = "delete" /\ UNCHANGED <<row, acked, discarded>>
        /\ IF change.previous = change.updated THEN change' = NoChange ELSE GoTo("restore")
  /\ UNCHANGED <<file, runtime, folder, torn>>

(* rollback_config_change: what cannot be written is not installed either. *)
RestoreFile ==
  /\ At("restore")
  /\ \/ file' = change.previous /\ UNCHANGED torn /\ GoTo("reinstall")
     \/ file' \in {file, change.previous} /\ torn' = TRUE /\ change' = NoChange
  /\ UNCHANGED <<runtime, row, folder, acked, discarded>>

Reinstall ==
  /\ At("reinstall")
  /\ Published(change.previous, "remanage")
  /\ UNCHANGED <<file, row, folder, acked, discarded, torn>>

RestoreManager ==
  /\ At("remanage")
  /\ runtime' = [runtime EXCEPT !["manager"] = View("manager", change.previous)]
  /\ change' = NoChange
  /\ UNCHANGED <<file, row, folder, acked, discarded, torn>>

(* quarantine_and_remove, after the lock is released: it may fail.         *)
RemoveFolder ==
  /\ ~row /\ folder
  /\ folder' = FALSE
  /\ UNCHANGED <<file, runtime, change, row, acked, discarded, torn>>

(* Config::load: a change that was under way has happened or has not.      *)
RestartDaemon ==
  /\ runtime' = Started(file) /\ acked' = file
  /\ change' = NoChange /\ discarded' = FALSE
  /\ UNCHANGED <<file, row, folder, torn>>

ConfigNext ==
  \/ BeginChange \/ Persist \/ Unchanged \/ Install \/ NotificationEffects \/ Commit
  \/ RestoreFile \/ Reinstall \/ RestoreManager
  \/ RemoveFolder \/ RestartDaemon

ConfigSpec == ConfigInit /\ [][ConfigNext]_configVars
-----------------------------------------------------------------------------
ConfigTypeOK ==
  /\ {file, acked, runtime["live"]} \subseteq Configs
  /\ DOMAIN runtime = Everyone
  /\ {row, folder, discarded, torn} \subseteq BOOLEAN

(* Between changes everybody works with what callers were told, which is   *)
(* what the next start will find: no failure half way, and no change that  *)
(* another one overlapped, is left behind ("persistence and derived        *)
(* runtime state cannot drift"), unless the file system fails the rollback.*)
ConfigSettles == At("none") /\ ~torn => file = acked /\ runtime = Started(acked)

(* What a crash finds is what callers were told, or the change under way.  *)
FileIsOldOrNew == ~torn => file \in {acked} \union (IF At("none") THEN {} ELSE {change.updated})

(* An account that is gone is not configured any more, so that the next    *)
(* poll does not bring it back, and only then its directory goes.          *)
DeletionIsOrdered == ~torn => (~row => file.profile = "deleted") /\ (~folder => ~row)

(* Alerts that wait for the user are discarded only by a change that takes   *)
(* effect, though other notification rows may not survive a rollback.      *)
RollbackKeepsAlerts == At("none") /\ ~torn => ~discarded

ConfigConsistent == ConfigSettles /\ FileIsOldOrNew /\ DeletionIsOrdered /\ RollbackKeepsAlerts
=============================================================================
