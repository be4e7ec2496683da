----------------------------- MODULE LocalUsage -----------------------------
(***************************************************************************)
(* The logs that a tool writes on this machine, from the file to the       *)
(* overlays stored for its account (usage-daemon/src/local_logs.rs,        *)
(* refresh_local in polling.rs, reconcile_local_usage_overlays in          *)
(* storage/usage.rs): the watcher's queue and what happens when it is      *)
(* full, the debounce, and the readings that a lock of the provider keeps  *)
(* apart.  One provider, one root, one account.                            *)
(*                                                                         *)
(* Times are ticks from now.  A log is the number of the last write to it, *)
(* 0 if it does not exist.  Readings of a provider exclude each other and  *)
(* their version is the time they begin at: unless the wall clock is set   *)
(* back, no row is of a later version than the reading that is stored, so  *)
(* that versions are left out.                                             *)
(***************************************************************************)
EXTENDS Integers, SequencesExt

CONSTANTS
  Sources,     \* logs under the root, each the source of one overlay
  MaxWrites,   \* bound on the writes
  Capacity,    \* 256: WATCH_EVENT_QUEUE_CAPACITY
  Debounce, MaxLatency, MinInterval, \* of the provider's watch
  MaxTasks     \* bound on the refreshes that wait for the provider

ASSUME LocalUsageAssumption ==
  /\ MaxWrites \in Nat /\ Capacity \in Nat \ {0} /\ MaxTasks \in Nat \ {0}
  /\ Debounce \in Nat /\ MaxLatency \in Nat /\ MinInterval \in Nat

VARIABLES
  log, writes, root,            \* the files: the logs, the writes so far, is the root there
  watching, targeted,           \* the loop: path it watches, provider it watches for
  active, changed,              \* the configuration: provider enabled, change not yet seen
  changes, overflowed, signalling, wakeup, \* the queue, its flag, the notify_one to come, the permit
  pending, last,                \* the refresh to come, the ticks since the last one
  waiting, reading, overlays,   \* refreshes that wait for the lock, the one that holds it, the rows
  broken                        \* history: a reading failed since the last change of the logs

fileVars  == <<log, writes, root>>
loopVars  == <<watching, targeted, pending, last>>
queueVars == <<changes, overflowed, signalling, wakeup>>
readVars  == <<waiting, reading, overlays, broken>>
localVars == <<fileVars, loopVars, active, changed, queueVars, readVars>>

Never == -1
Idle == {}   \* otherwise reading holds what was read

(* schedule_providers: debounced, but neither later than the latency after *)
(* the first change nor sooner than the interval after the last refresh.   *)
Scheduled(first, since) ==
  [first |-> first,
   left |-> Max({Min({Debounce, MaxLatency - first}), IF since = Never THEN 0 ELSE MinInterval - since})]

Schedule(p, since) == {Scheduled(IF p = {} THEN 0 ELSE (CHOOSE one \in p : TRUE).first, since)}

LocalInit ==
  /\ log = [s \in Sources |-> 0] /\ writes = 0 /\ root \in BOOLEAN
  /\ active \in BOOLEAN /\ targeted = active /\ changed = FALSE
  /\ watching = (IF ~active THEN "none" ELSE IF root THEN "root" ELSE "parent")
  /\ changes = <<>> /\ overflowed = FALSE /\ signalling = FALSE /\ wakeup = FALSE
  /\ pending = (IF active THEN Schedule({}, Never) ELSE {}) /\ last = Never
  /\ waiting = 0 /\ reading = Idle /\ overlays = [s \in Sources |-> 0]
  /\ broken = FALSE
-----------------------------------------------------------------------------
(* The watcher's callback: try_send, or signal_queue_overflow              *)
Emit(event) ==
  IF Len(changes) < Capacity
  THEN changes' = Append(changes, event) /\ UNCHANGED <<overflowed, signalling, wakeup>>
  ELSE overflowed' = TRUE /\ signalling' = TRUE /\ UNCHANGED <<changes, wakeup>>

SignalOverflow ==
  /\ signalling
  /\ signalling' = FALSE /\ wakeup' = TRUE
  /\ UNCHANGED <<fileVars, loopVars, active, changed, changes, overflowed, readVars>>

(* A tool writes a log or removes it.                                      *)
ChangeLog(s, content) ==
  /\ log' = [log EXCEPT ![s] = content]
  /\ broken' = FALSE
  /\ IF watching = "root" THEN Emit("log") ELSE UNCHANGED queueVars
  /\ UNCHANGED <<root, loopVars, active, changed, waiting, reading, overlays>>

WriteLog(s) ==
  /\ root /\ writes < MaxWrites
  /\ writes' = writes + 1
  /\ ChangeLog(s, writes')

RemoveLog(s) ==
  /\ log[s] # 0
  /\ ChangeLog(s, 0)
  /\ UNCHANGED writes

CreateRoot ==
  /\ ~root
  /\ root' = TRUE
  /\ IF watching = "parent" THEN Emit("other") ELSE UNCHANGED queueVars
  /\ UNCHANGED <<log, writes, loopVars, active, changed, readVars>>

OtherFile ==
  /\ watching = "root"
  /\ Emit("other")
  /\ UNCHANGED <<fileVars, loopVars, active, changed, readVars>>
-----------------------------------------------------------------------------
(* LocalLogWatchState::sync: the root is watched as soon as it exists,     *)
(* until then its parent.  A watch that cannot be set is tried again with  *)
(* the next event.                                                         *)
Sync(from) ==
  \/ watching' = IF root THEN "root" ELSE "parent"
  \/ watching' = from

NewlyAvailable(from) == from # "root" /\ watching' = "root"

HandleEvent ==
  /\ changes # <<>>
  /\ changes' = Tail(changes)
  /\ IF targeted THEN Sync(watching) ELSE UNCHANGED watching
  /\ pending' = IF targeted /\ (Head(changes) = "log" \/ NewlyAvailable(watching))
                THEN Schedule(pending, last) ELSE pending
  /\ UNCHANGED <<fileVars, targeted, last, active, changed, overflowed, signalling, wakeup, readVars>>

(* Mutant: only the wake-up is taken, for a change of the flag to come.    *)
IgnoreOverflow ==
  /\ wakeup
  /\ wakeup' = FALSE /\ overflowed' = FALSE
  /\ UNCHANGED <<fileVars, loopVars, active, changed, changes, signalling, readVars>>

HandleOverflow ==
  /\ wakeup
  /\ wakeup' = FALSE /\ overflowed' = FALSE
  /\ pending' = IF overflowed /\ targeted THEN Schedule(pending, last) ELSE pending
  /\ UNCHANGED <<fileVars, watching, targeted, last, active, changed, changes, signalling, readVars>>

(* configs.changed(): every watch is taken off and set again.              *)
HandleConfig ==
  /\ changed
  /\ changed' = FALSE
  /\ targeted' = active
  /\ IF active THEN Sync("none") ELSE watching' = "none"
  /\ last' = IF active THEN last ELSE Never
  /\ pending' = IF ~active THEN {} ELSE IF NewlyAvailable("none") THEN Schedule(pending, last) ELSE pending
  /\ UNCHANGED <<fileVars, active, queueVars, readVars>>

Reconfigure ==
  /\ active' = ~active /\ changed' = TRUE
  /\ UNCHANGED <<fileVars, loopVars, queueVars, readVars>>

Due == \E p \in pending : p.left = 0

FireDeadline ==
  /\ Due /\ waiting < MaxTasks
  /\ pending' = {} /\ last' = 0
  /\ waiting' = waiting + 1
  /\ UNCHANGED <<fileVars, watching, targeted, active, changed, queueVars, reading, overlays, broken>>

(* The loop does not let a deadline pass.                                  *)
LocalTick ==
  /\ ~Due
  /\ pending # {} \/ last \in 0 .. MinInterval - 1
  /\ pending' = {[first |-> p.first + 1, left |-> p.left - 1] : p \in pending}
  /\ last' = IF last = Never THEN Never ELSE Min({last + 1, MinInterval})
  /\ UNCHANGED <<fileVars, watching, targeted, active, changed, queueVars, readVars>>
-----------------------------------------------------------------------------
(* An offline refresh reads the logs as well (execute_refresh).            *)
RefreshOffline ==
  /\ active /\ waiting < MaxTasks
  /\ waiting' = waiting + 1
  /\ UNCHANGED <<fileVars, loopVars, active, changed, queueVars, reading, overlays, broken>>

(* refresh_local_provider: one reading of the provider at a time.          *)
BeginReading ==
  /\ waiting > 0 /\ reading = Idle
  /\ waiting' = waiting - 1
  /\ reading' = {log}
  /\ UNCHANGED <<fileVars, loopVars, active, changed, queueVars, overlays, broken>>

(* reconcile_local_usage_overlays: rows whose source was not read go.      *)
StoreReading ==
  /\ \E content \in reading : overlays' = content
  /\ reading' = Idle
  /\ UNCHANGED <<fileVars, loopVars, active, changed, queueVars, waiting, broken>>

(* An error, the collection timeout or an invalid dataset: nothing stored. *)
FailReading ==
  /\ reading # Idle
  /\ reading' = Idle
  /\ broken' = TRUE
  /\ UNCHANGED <<fileVars, loopVars, active, changed, queueVars, waiting, overlays>>

WatchStep == HandleEvent \/ HandleOverflow \/ HandleConfig \/ FireDeadline
ReadStep  == BeginReading \/ StoreReading

LocalNext ==
  \/ \E s \in Sources : WriteLog(s) \/ RemoveLog(s)
  \/ CreateRoot \/ OtherFile \/ Reconfigure \/ RefreshOffline
  \/ SignalOverflow \/ WatchStep \/ LocalTick
  \/ ReadStep
  \/ FailReading

(* The select of the loop polls its branches in random order, so that each *)
(* is taken in the end; tasks run and time passes.                         *)
LocalFairness ==
  /\ WF_localVars(SignalOverflow) /\ WF_localVars(LocalTick) /\ WF_localVars(ReadStep)
  /\ SF_localVars(HandleEvent) /\ SF_localVars(HandleOverflow)
  /\ SF_localVars(HandleConfig) /\ SF_localVars(FireDeadline)

LocalSpec == LocalInit /\ [][LocalNext]_localVars /\ LocalFairness
-----------------------------------------------------------------------------
Contents == [Sources -> 0 .. MaxWrites]

LocalTypeOK ==
  /\ log \in Contents /\ writes \in 0 .. MaxWrites
  /\ watching \in {"none", "parent", "root"}
  /\ {root, targeted, active, changed, overflowed, signalling, wakeup, broken} \subseteq BOOLEAN
  /\ changes \in Seq({"log", "other"}) /\ Len(changes) <= Capacity
  /\ pending \subseteq [first : 0 .. Max({MaxLatency, MinInterval}), left : 0 .. Max({Debounce, MinInterval})]
  /\ last \in {Never} \union (0 .. MinInterval)
  /\ waiting \in 0 .. MaxTasks
  /\ reading \subseteq Contents
  /\ overlays \in Contents

(* A change of the logs is never lost between the file and the store: as   *)
(* long as the root is watched and no reading has failed, a stale overlay  *)
(* has its event in the queue, a full queue is known to be, a refresh is   *)
(* scheduled, or a reading under way will store what the logs hold now     *)
(* (spawn_change_log_loop, signal_queue_overflow, local_provider_locks).   *)
ChangeCovered ==
  overlays # log /\ root /\ watching = "root" /\ active /\ targeted /\ ~changed /\ ~broken =>
    \/ Contains(changes, "log")
    \/ overflowed /\ (signalling \/ wakeup)
    \/ pending # {}
    \/ waiting > 0
    \/ reading = {log}

(* However many changes follow each other, a scheduled refresh begins: the *)
(* debounce cannot put it off for ever (schedule_providers).               *)
RefreshNotPutOff == pending # {} ~> pending = {}

(* Once the logs rest, what is stored for the account is what they hold:   *)
(* no older reading, and no event lost in an overflow, keeps it stale.     *)
OverlaysConverge ==
  <>[](root /\ watching = "root" /\ active /\ targeted /\ ~changed /\ ~broken)
    => \A content \in Contents : <>[](log = content) => <>[](overlays = content)

(* Both: the loop neither puts a refresh off for ever nor leaves what is   *)
(* stored behind the logs (spawn_change_log_loop, refresh_local).          *)
LocalLogsSettle == RefreshNotPutOff /\ OverlaysConverge
=============================================================================
