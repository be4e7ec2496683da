---------------------------- MODULE SessionLaunch ----------------------------
(***************************************************************************)
(* Opening a Claude session in a Terminal for one account                  *)
(* (launch_provider_account, ClaudeAdapter::launch).  A launch reads the   *)
(* profile's preferences, brings its sign-in up to date, writes the one    *)
(* launcher script of the account, opens it, and saves what is to be       *)
(* remembered: all of it while other launches, the collector and changes   *)
(* of the configuration go on.  Of the flags only one is told apart from   *)
(* the others: whether Claude may act without asking for permission.       *)
(***************************************************************************)
EXTENDS Integers, FiniteSets, TLC

CONSTANTS Launches,    \* the launches that are asked for
          MaxRotations \* bound on the tokens that synchronising sign-ins brings

ASSUME LaunchAssumption == MaxRotations \in Nat /\ IsFiniteSet(Launches)

VARIABLES
  prefs,         \* saved with the profile: its directory and its flags
  tracked,       \* whether the profile is active, not disabled or deleted
  session,       \* of each launch: how far it is, what it asks, what it read
  launcher,      \* the launches whose plan is in the launcher script: at most one
  signInToken,   \* of the profile's sign-in, as it is stored
  collectorHas   \* the token that the collector has cached, or 0

sessionVars == <<prefs, tracked, session, launcher, signInToken, collectorHas>>

(* The directory and the flags, of which a request may say nothing.        *)
LaunchRequests == [folder : {{}, {"work"}}, dangerous : {{}, {TRUE}, {FALSE}}, remember : BOOLEAN]
NoLaunch == [stage |-> "asked", asks |-> [folder |-> {}, dangerous |-> {}, remember |-> FALSE],
             saved |-> [folder |-> "none", dangerous |-> FALSE], failed |-> FALSE]

SessionsInit ==
  /\ prefs \in [folder : {"none"}, dangerous : BOOLEAN] /\ tracked = TRUE /\ launcher = {}
  /\ signInToken = 1 /\ collectorHas = 0
  /\ session = [l \in Launches |-> NoLaunch]

Stage(l) == session[l].stage
Advances(l, from, to) == Stage(l) = from /\ session' = [session EXCEPT ![l].stage = to]
Stops(l, from) == Stage(l) = from /\ session' = [session EXCEPT ![l].stage = "done", ![l].failed = TRUE]
-----------------------------------------------------------------------------
(* resolve_launch_plan: what is not asked is as it was saved.              *)
Either(asked, kept) == IF asked = {} THEN kept ELSE CHOOSE x \in asked : TRUE
Plan(l) == [folder |-> Either(session[l].asks.folder, session[l].saved.folder),
            dangerous |-> Either(session[l].asks.dangerous, session[l].saved.dangerous)]

(* PersistedLaunchPrefs: leave to act without permission is kept as it was *)
(* saved, unless the request says that it shall be remembered.             *)
RemembersAnyway(l) == Plan(l)
Persisted(l) ==
  IF session[l].asks.remember THEN Plan(l) ELSE [Plan(l) EXCEPT !.dangerous = session[l].saved.dangerous]

AsksNothing(l) == session[l].asks.folder = {} /\ session[l].asks.dangerous = {}
-----------------------------------------------------------------------------
(* launch: the account is tracked, its profile configured, and the         *)
(* directory there, if one is wanted.                                      *)
BeginLaunch(l, asks, there) ==
  /\ Stage(l) = "asked" /\ tracked
  /\ LET begun == [session EXCEPT ![l] = [@ EXCEPT !.stage = "syncing", !.asks = asks, !.saved = prefs]]
     IN session' = IF there \/ Either(asks.folder, prefs.folder) = "none" THEN begun
                  ELSE [begun EXCEPT ![l].stage = "done", ![l].failed = TRUE]
  /\ UNCHANGED <<prefs, tracked, launcher, signInToken, collectorHas>>

(* sync_for_launch, under the lock of the sign-in: what has expired is     *)
(* refreshed, which may fail before or after the new token is stored.      *)
SyncSignIn(l, rotates, failed) ==
  /\ Stage(l) = "syncing" /\ (rotates => signInToken <= MaxRotations)
  /\ signInToken' = IF rotates THEN signInToken + 1 ELSE signInToken
  /\ session' = [session EXCEPT ![l].stage = "clearing", ![l].failed = failed]
  /\ UNCHANGED <<prefs, tracked, launcher, collectorHas>>

(* invalidate_cached_credentials, even when synchronising failed.          *)
ClearsIfSynced(l) == ~session[l].failed
Clears(l) == TRUE
ClearCollector(l) ==
  /\ Stage(l) = "clearing" /\ collectorHas' = IF Clears(l) THEN 0 ELSE collectorHas
  /\ session' = [session EXCEPT ![l].stage = IF session[l].failed THEN "done" ELSE "preparing"]
  /\ UNCHANGED <<prefs, tracked, launcher, signInToken>>

(* prepare_usage_workspace of a managed profile (ClaudeScreen).            *)
PrepareWorkspace(l) ==
  /\ Advances(l, "preparing", "writing") \/ Stops(l, "preparing")
  /\ UNCHANGED <<prefs, tracked, launcher, signInToken, collectorHas>>

(* write_claude_profile_launcher, claude_launcher_contents: one file of    *)
(* the account, replaced at once.                                          *)
WriteLauncher(l) ==
  /\ \/ Advances(l, "writing", "opening") /\ launcher' = {l}
     \/ Stops(l, "writing") /\ UNCHANGED launcher
  /\ UNCHANGED <<prefs, tracked, signInToken, collectorHas>>

(* open_terminal: it returns before the Terminal has read the script, in   *)
(* which another launch may have written its own plan by then.             *)
OpenTerminal(l) ==
  /\ Advances(l, "opening", "saving") \/ Stops(l, "opening")
  /\ UNCHANGED <<prefs, tracked, launcher, signInToken, collectorHas>>

(* mutate_config: only of a profile that is still active, and only if the  *)
(* preferences differ from what this launch read.  A change of the         *)
(* configuration makes new collectors, which have loaded nothing yet.      *)
SavePrefs(l) ==
  /\ Advances(l, "saving", "done")
  /\ prefs' = IF tracked /\ ~AsksNothing(l) /\ Persisted(l) # session[l].saved THEN Persisted(l) ELSE prefs
  /\ collectorHas' = IF prefs' = prefs THEN collectorHas ELSE 0
  /\ UNCHANGED <<tracked, launcher, signInToken>>

(* The collector loads the sign-in, under the lock of its cache that       *)
(* clearing takes too; its own refreshes are in ClaudeAccess.              *)
CollectorLoads ==
  /\ tracked /\ collectorHas = 0 /\ collectorHas' = signInToken
  /\ UNCHANGED <<prefs, tracked, session, launcher, signInToken>>

(* The account is disabled, deleted, or enabled again.                     *)
ProfileChanges ==
  /\ tracked' = ~tracked /\ collectorHas' = 0
  /\ UNCHANGED <<prefs, session, launcher, signInToken>>

SessionsNext ==
  \/ \E l \in Launches :
       \/ \E asks \in LaunchRequests, there \in BOOLEAN : BeginLaunch(l, asks, there)
       \/ \E rotates, failed \in BOOLEAN : SyncSignIn(l, rotates, failed)
       \/ ClearCollector(l) \/ PrepareWorkspace(l) \/ WriteLauncher(l) \/ OpenTerminal(l)
       \/ SavePrefs(l)
  \/ CollectorLoads \/ ProfileChanges

SessionsSpec == SessionsInit /\ [][SessionsNext]_sessionVars
-----------------------------------------------------------------------------
(* The collector never goes on with a token that a launch has replaced,    *)
(* not even if the launch failed afterwards; while the launch is about to  *)
(* say so it may (invalidate_cached_credentials).                          *)
CollectorNotStale == (\A l \in Launches : Stage(l) # "clearing") => collectorHas \in {0, signInToken}

(* Claude acts without asking for permission in later sessions only if a   *)
(* launch that opened its session asked that this be remembered, or if it  *)
(* was saved when a launch began, however the launches interleave.         *)
Grants(l) == TRUE \in session[l].asks.dangerous /\ session[l].asks.remember /\ Stage(l) = "done" /\ ~session[l].failed
LeaveIsGiven ==
  prefs.dangerous =>
    \/ \A l \in Launches : Stage(l) = "asked"
    \/ \E l \in Launches : Stage(l) # "asked" /\ session[l].saved.dangerous
    \/ \E l \in Launches : Grants(l)

(* The script in the launcher is of a launch whose sign-in is up to date.  *)
ScriptIsSignedIn == \A l \in launcher : Stage(l) \in {"opening", "saving", "done"}

LaunchesSafe == CollectorNotStale /\ LeaveIsGiven /\ ScriptIsSignedIn
==============================================================================
