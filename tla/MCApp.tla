-------------------------------- MODULE MCApp ---------------------------------
(***************************************************************************)
(* One TLC instance of the menu bar app: of how it keeps a daemon running, *)
(* or of how it keeps what it shows up to date.  The other one rests.  Of  *)
(* processes that only differ in their names, p2 is not the earlier one.   *)
(***************************************************************************)
EXTENDS DaemonSupervisor, AppRecovery

CONSTANTS p2

VARIABLE part

Chosen(name) == part = name

AppInit ==
  /\ part \in {"supervisor", "recovery"}
  /\ Init /\ proc[p2] = NoProcess /\ (Chosen("supervisor") \/ (agent = "unavailable" /\ proc = [p \in Daemons |-> NoProcess]))
  /\ RecoveryInit /\ (Chosen("recovery") \/ (switchedOn = {}))

OthersRest(name) ==
  /\ name # "supervisor" => UNCHANGED vars
  /\ name # "recovery" => UNCHANGED recoveryVars
  /\ UNCHANGED part

AppNext ==
  \/ Chosen("supervisor") /\ Next /\ OthersRest("supervisor")
  \/ Chosen("recovery") /\ RecoveryNext /\ OthersRest("recovery")

allAppVars == <<part, vars, recoveryVars>>

AppSpec == AppInit /\ [][AppNext]_allAppVars
  /\ (Chosen("supervisor") => Fairness)
  /\ (Chosen("recovery") => RecoveryFairness)

(* The app neither restarts its daemon for ever nor forgets a recovery     *)
(* that is due (scheduleAutomaticRecovery, requestStaleDataRecovery).      *)
RecoverySound == TypeOK /\ RecoveryBounded /\ AppSound

(* It is served in the end, and what it shows is refreshed in the end.     *)
AppRecovers ==
  /\ Chosen("supervisor") => ServedInTheEnd
  /\ Chosen("recovery") => RecoveryComes
===============================================================================
