------------------------------- MODULE Logins -------------------------------
(***************************************************************************)
(* Sign-ins of one provider (usage-daemon/src/providers/launchers.rs and   *)
(* the handlers of the adapters that launch them): the process of the      *)
(* tool, the thread that waits for it, the registry with at most one login *)
(* per provider, codes that are typed for it, and the shutdown.            *)
(***************************************************************************)
EXTENDS Integers, Sequences, FiniteSets

CONSTANTS
  Attempts,  \* sign-ins, each its own generation
  MaxCodes   \* bound on the codes typed for one of them

ASSUME LoginsAssumption == IsFiniteSet(Attempts) /\ MaxCodes \in Nat

VARIABLES
  attempt,      \* where its request and then its thread is
  process,      \* its process: none, running, or how it ended
  activeLogin,  \* ACTIVE_LOGINS: at most one, of the latest generation
  typed,        \* what was written to its standard input
  verified,     \* the refresh that follows a sign-in has begun
  shutdown,     \* no, stopping, cancelled (cancel_all_logins) or down
  ousted        \* history: logins replaced or cancelled

loginVars == <<attempt, process, activeLogin, typed, verified, shutdown, ousted>>

LoginInit ==
  /\ attempt = [a \in Attempts |-> "none"]
  /\ process = [a \in Attempts |-> "none"]
  /\ activeLogin = {} /\ verified = {} /\ ousted = {}
  /\ typed = [a \in Attempts |-> <<>>]
  /\ shutdown = "no"

(* kill_process_group                                                      *)
KilledGroups(logins) ==
  [a \in Attempts |-> IF a \in logins /\ process[a] = "running" THEN "failed" ELSE process[a]]

(* Everybody leaves the registry and is killed.                            *)
OustLogins ==
  /\ activeLogin' = {}
  /\ process' = KilledGroups(activeLogin)
  /\ ousted' = ousted \union activeLogin
-----------------------------------------------------------------------------
(* A request spawns the tool and waits for the address it prints.          *)
LaunchLogin(a) ==
  /\ attempt[a] = "none" /\ shutdown # "down"
  /\ attempt' = [attempt EXCEPT ![a] = "launching"]
  /\ process' = [process EXCEPT ![a] = "running"]
  /\ UNCHANGED <<activeLogin, typed, verified, shutdown, ousted>>

(* It printed none, and the user wants to copy it.                         *)
LaunchFails(a) ==
  /\ attempt[a] = "launching"
  /\ attempt' = [attempt EXCEPT ![a] = "refused"]
  /\ process' = KilledGroups({a})
  /\ UNCHANGED <<activeLogin, typed, verified, shutdown, ousted>>

(* monitor_login: the process may have ended before.                       *)
RegisterLogin(a) ==
  /\ attempt[a] = "launching"
  /\ attempt' = [attempt EXCEPT ![a] = "waiting"]
  /\ activeLogin' = {a}
  /\ process' = KilledGroups(activeLogin)
  /\ ousted' = ousted \union activeLogin
  /\ UNCHANGED <<typed, verified, shutdown>>

LoginExits(a) ==
  /\ process[a] = "running"
  /\ \E how \in {"succeeded", "failed"} : process' = [process EXCEPT ![a] = how]
  /\ UNCHANGED <<attempt, activeLogin, typed, verified, shutdown, ousted>>

(* wait_for_login: a process that has ended, or one at its deadline.       *)
ReapLogin(a) ==
  /\ attempt[a] = "waiting" /\ process[a] # "running"
  /\ attempt' = [attempt EXCEPT ![a] = "reaped"]
  /\ UNCHANGED <<process, activeLogin, typed, verified, shutdown, ousted>>

(* LOGIN_TIMEOUT                                                           *)
LoginTimesOut(a) ==
  /\ attempt[a] = "waiting" /\ process[a] = "running"
  /\ attempt' = [attempt EXCEPT ![a] = "reaped"]
  /\ process' = KilledGroups({a})
  /\ UNCHANGED <<activeLogin, typed, verified, shutdown, ousted>>

(* Mutant: whatever is registered is taken for this login.                 *)
UnregisterAny(a) ==
  /\ attempt[a] = "reaped"
  /\ activeLogin' = {}
  /\ attempt' = [attempt EXCEPT ![a] = IF process[a] = "succeeded" THEN "verifying" ELSE "done"]
  /\ UNCHANGED <<process, typed, verified, shutdown, ousted>>

(* unregister_active_login: only one of its own generation.                *)
UnregisterLogin(a) ==
  /\ attempt[a] = "reaped"
  /\ activeLogin' = activeLogin \ {a}
  /\ attempt' = [attempt EXCEPT ![a] = IF a \in activeLogin /\ process[a] = "succeeded" THEN "verifying" ELSE "done"]
  /\ UNCHANGED <<process, typed, verified, shutdown, ousted>>

(* Credentials that are cached are dropped and the provider refreshed.     *)
VerifyLogin(a) ==
  /\ attempt[a] = "verifying"
  /\ attempt' = [attempt EXCEPT ![a] = "done"]
  /\ verified' = verified \union {a}
  /\ UNCHANGED <<process, activeLogin, typed, shutdown, ousted>>
-----------------------------------------------------------------------------
(* submit_provider_sign_in_code: the write does not block.                 *)
SubmitCode ==
  /\ shutdown # "down"
  /\ \E a \in activeLogin, line \in {"whole", "partial"} :
       /\ Len(typed[a]) < MaxCodes
       /\ typed' = [typed EXCEPT ![a] = Append(@, line)]
       /\ IF line = "partial" THEN OustLogins ELSE UNCHANGED <<process, activeLogin, ousted>>
  /\ UNCHANGED <<attempt, verified, shutdown>>

CancelLogin ==
  /\ activeLogin # {} /\ shutdown # "down"
  /\ OustLogins
  /\ UNCHANGED <<attempt, typed, verified, shutdown>>
-----------------------------------------------------------------------------
(* Daemon::run: a signal, or a task that ended; requests under way go on   *)
(* until the process exits.                                                *)
BeginShutdown ==
  /\ shutdown = "no"
  /\ shutdown' = "stopping"
  /\ UNCHANGED <<attempt, process, activeLogin, typed, verified, ousted>>

CancelAllLogins ==
  /\ shutdown = "stopping"
  /\ shutdown' = "cancelled"
  /\ OustLogins
  /\ UNCHANGED <<attempt, typed, verified>>

ExitDaemon ==
  /\ shutdown = "cancelled" /\ \A a \in Attempts : attempt[a] # "launching"
  /\ shutdown' = "down"
  /\ attempt' = [a \in Attempts |-> "done"]
  /\ UNCHANGED <<process, activeLogin, typed, verified, ousted>>

LoginNext ==
  \/ \E a \in Attempts :
       \/ LaunchLogin(a) \/ LaunchFails(a) \/ RegisterLogin(a) \/ LoginExits(a)
       \/ ReapLogin(a) \/ LoginTimesOut(a) \/ UnregisterLogin(a) \/ VerifyLogin(a)
  \/ SubmitCode \/ CancelLogin
  \/ BeginShutdown \/ CancelAllLogins \/ ExitDaemon

LoginSpec == LoginInit /\ [][LoginNext]_loginVars
-----------------------------------------------------------------------------
LoginTypeOK ==
  /\ attempt \in [Attempts -> {"none", "launching", "refused", "waiting", "reaped", "verifying", "done"}]
  /\ process \in [Attempts -> {"none", "running", "succeeded", "failed"}]
  /\ activeLogin \subseteq Attempts /\ Cardinality(activeLogin) <= 1
  /\ typed \in [Attempts -> Seq({"whole", "partial"})]
  /\ {verified, ousted} \subseteq SUBSET Attempts
  /\ shutdown \in {"no", "stopping", "cancelled", "down"}

(* Of the processes that threads wait for only the registered one runs: a  *)
(* login that ends late takes nobody else's place, and one that loses its  *)
(* place is killed (register_active_login, unregister_active_login).       *)
OnlyOneLogin ==
  \A a \in Attempts : attempt[a] = "waiting" /\ process[a] = "running" => activeLogin = {a}

(* "a retry cannot append a second code to an incomplete first line"       *)
CodesAreWhole ==
  \A a \in Attempts : \A i \in 1 .. Len(typed[a]) : typed[a][i] = "partial" => i = Len(typed[a])

(* A login that succeeds is followed by a refresh that verifies it, unless *)
(* it was replaced or cancelled before its thread noticed (monitor_login). *)
SuccessIsVerified ==
  \A a \in Attempts :
    attempt[a] = "done" /\ process[a] = "succeeded" => a \in verified \union ousted \/ shutdown = "down"

(* No login that was registered when the daemon cancelled them all         *)
(* outlives it (cancel_all_logins); one launched later can.                *)
ShutdownEndsLogins == \A a \in ousted : process[a] # "running"

(* Sign-ins that are retried, replaced, cancelled and late neither take    *)
(* each other's place nor its code, outlive a shutdown that knew them, or  *)
(* succeed unnoticed.                                                      *)
LoginsSafe == OnlyOneLogin /\ CodesAreWhole /\ SuccessIsVerified /\ ShutdownEndsLogins
=============================================================================
