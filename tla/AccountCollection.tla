-------------------------- MODULE AccountCollection --------------------------
(***************************************************************************)
(* What one provider's flight does to the database, account by account     *)
(* (usage-daemon/src/polling.rs from refresh_provider down, storage.rs and *)
(* storage/*.rs), while accounts are paused, deleted, signed in anew and   *)
(* added again (daemon.rs, provider_adapter.rs).                           *)
(*                                                                         *)
(* A flight works on copies: the profiles that were configured when it     *)
(* began, the identity it discovered, the account row as it was stored.    *)
(* Every storage call is one step, since there is one writer connection    *)
(* and each call is one statement or one transaction; between two calls    *)
(* anything may happen to the rows.                                        *)
(***************************************************************************)
EXTENDS Integers, Sequences, FiniteSets

CONSTANTS
  Profiles,       \* configured profiles of the provider, by id
  Ids,            \* the supply of account ids (Uuid::new_v4): bounds the rows
  Externals,      \* identities at the provider (external_account_id)
  Legacy,         \* those a canonical identity may take over
  UniqueExternal, \* provider_requires_unique_external_account
  Ladder,         \* RATE_LIMIT_BACKOFF_SECONDS, in ticks
  MaxRetryAfter,  \* bound on the provider's own retry_at, in ticks
  Deleters,       \* concurrent calls of delete_account
  NoAccount,
  StorageFaults   \* whether a storage call may fail

ASSUME ConstantsAssumption ==
  /\ Legacy \subseteq Externals
  /\ UniqueExternal \in BOOLEAN
  /\ Ladder \in Seq(Nat) /\ Ladder # <<>>
  /\ MaxRetryAfter \in Nat
  /\ StorageFaults \in BOOLEAN

Account == [id : Ids, external : Externals, enabled : BOOLEAN]
Target  == [profile : Profiles, id : Ids]
ASSUME NoAccountAssumption == NoAccount \notin Account \union Target

VARIABLES
  config,    \* ProviderProfileConfig of each profile, on disk and live
  login,     \* the identity signed in to each profile
  accounts,  \* accounts table: UNIQUE(provider_id, profile_id)
  used,      \* account ids handed out so far
  usage,     \* ids with rows in usage_snapshots
  health,    \* provider_health.status of each id
  failures,  \* provider_backoff.consecutive_failures, 0 without a row
  wait,      \* provider_backoff.retry_at, in ticks from now
  flight,    \* where the provider's flight is
  at,        \* where the future of each profile's account is
  seen,      \* DiscoveredAccount.external_account_id
  copy,      \* the account row a future carries across its awaits
  failed,    \* profiles whose discovery failed
  listed,    \* the account list record_account_discovery_failures loaded
  deletion,  \* where each call of delete_account is
  target,    \* the profile and id it deletes
  previous   \* what the profile was in the configuration it would roll back to

dbVars     == <<accounts, used, usage, health, failures, wait>>
flightVars == <<flight, at, seen, copy, failed, listed>>
adminVars  == <<config, deletion, target, previous>>
vars == <<login, dbVars, flightVars, adminVars>>

Rows == {p \in Profiles : accounts[p] # NoAccount}
Stored(i) == \E p \in Rows : accounts[p].id = i
Configured == {p \in Profiles : config[p] = "enabled"}

Init ==
  /\ config   \in [Profiles -> {"absent", "enabled"}]
  /\ login    \in [Profiles -> Externals]
  /\ accounts = [p \in Profiles |-> NoAccount]
  /\ used     = {}
  /\ usage    = {}
  /\ health   = [i \in Ids |-> "none"]
  /\ failures = [i \in Ids |-> 0]
  /\ wait     = [i \in Ids |-> 0]
  /\ flight   = "none"
  /\ at       = [p \in Profiles |-> "none"]
  /\ seen     = login
  /\ copy     = [p \in Profiles |-> NoAccount]
  /\ failed   = {}
  /\ listed   = [p \in Profiles |-> NoAccount]
  /\ deletion = [d \in Deleters |-> "none"]
  /\ target   = [d \in Deleters |-> NoAccount]
  /\ previous = [d \in Deleters |-> "absent"]
-----------------------------------------------------------------------------
(* The flight: refresh_provider.                                           *)

BeginFlight ==
  /\ flight = "none"
  /\ Configured # {}
  /\ flight' = "discovering"
  /\ at' = [p \in Profiles |-> IF p \in Configured THEN "configured" ELSE "none"]
  /\ UNCHANGED <<login, dbVars, adminVars, seen, copy, failed, listed>>

(* discover_accounts answered with one outcome per configured profile      *)
(* (validate_discovery): an identity, or a failure of that profile.        *)
Discover(bad) ==
  /\ flight = "discovering"
  /\ bad \subseteq {p \in Profiles : at[p] = "configured"}
  /\ flight' = "collecting"
  /\ failed' = bad
  /\ at' = [p \in Profiles |-> IF at[p] = "configured" /\ p \notin bad THEN "discovered" ELSE "none"]
  /\ seen' = login
  /\ UNCHANGED <<login, dbVars, adminVars, copy, listed>>

(* Discovery failed as a whole or timed out, or the flight panicked: its   *)
(* futures are dropped wherever they are.  What is left is a health record *)
(* of the provider, not of an account.                                     *)
AbortFlight ==
  /\ flight # "none"
  /\ flight' = "none"
  /\ at' = [p \in Profiles |-> "none"]
  /\ copy' = [p \in Profiles |-> NoAccount]
  /\ failed' = {}
  /\ listed' = [p \in Profiles |-> NoAccount]
  /\ UNCHANGED <<login, dbVars, adminVars, seen>>
-----------------------------------------------------------------------------
(* One account: refresh_account_with_budget.                               *)

(* Mutant: the other profiles' rows are not looked at.                     *)
TakenNowhere(p, external) == FALSE

(* Another profile's row has the identity.                                 *)
Taken(p, external) == \E q \in Rows \ {p} : accounts[q].external = external

(* can_adopt_legacy_external_identity                                      *)
Adopts(stored, external) == stored \in Legacy /\ external \notin Legacy

(* AccountIdentityConflict::ProfileChanged, ::DuplicateExternalAccount     *)
ProfileChanged(p) ==
  p \in Rows /\ accounts[p].external # seen[p] /\ ~Adopts(accounts[p].external, seen[p])
DuplicateExternal(p) ==
  /\ UniqueExternal
  /\ p \in Rows => Adopts(accounts[p].external, seen[p])
  /\ Taken(p, seen[p])
Conflict(p) == ProfileChanged(p) \/ DuplicateExternal(p)

(* Mutant: an id is free again once its row is gone.                       *)
FreeId(i) == ~Stored(i)

(* Uuid::new_v4 returns an id that was never used.                         *)
NewId(i) == i \notin used

(* upsert_account: a row is kept but for its identity; a new one gets a    *)
(* new id and is enabled.                                                  *)
UpsertAccount(p) ==
  /\ flight = "collecting" /\ at[p] = "discovered"
  /\ ~Conflict(p)
  /\ \E row \in Account :
       /\ row.external = seen[p]
       /\ IF p \in Rows THEN row.id = accounts[p].id /\ row.enabled = accounts[p].enabled
                        ELSE NewId(row.id) /\ row.enabled
       /\ accounts' = [accounts EXCEPT ![p] = row]
       /\ used' = used \union {row.id}
       /\ copy' = [copy EXCEPT ![p] = row]
  /\ at' = [at EXCEPT ![p] = "stored"]
  /\ UNCHANGED <<login, usage, health, failures, wait, adminVars, flight, seen, failed, listed>>

(* ... or it reports a conflict, or storage fails: the account is skipped. *)
RejectAccount(p) ==
  /\ flight = "collecting" /\ at[p] = "discovered"
  /\ Conflict(p) \/ StorageFaults
  /\ at' = [at EXCEPT ![p] = "done"]
  /\ UNCHANGED <<login, dbVars, adminVars, flight, seen, copy, failed, listed>>

Paused(account) == ~account.enabled

(* A paused account: clear_rate_limit_backoff ...                          *)
ClearPaused(p) ==
  /\ flight = "collecting" /\ at[p] = "stored" /\ Paused(copy[p])
  /\ LET i == copy[p].id IN
       \/ /\ failures' = [failures EXCEPT ![i] = 0]
          /\ wait' = [wait EXCEPT ![i] = 0]
       \/ StorageFaults /\ UNCHANGED <<failures, wait>>
  /\ at' = [at EXCEPT ![p] = "paused"]
  /\ UNCHANGED <<login, accounts, used, usage, health, adminVars, flight, seen, copy, failed, listed>>

(* upsert_health(id, status): provider_health refers to no account row, so *)
(* the write succeeds whether the account still exists or not.             *)
UpsertHealth(i, status) ==
  \/ health' = [health EXCEPT ![i] = status]
  \/ StorageFaults /\ UNCHANGED health

(* ... and its disabled health.                                            *)
RecordDisabled(p) ==
  /\ flight = "collecting" /\ at[p] = "paused"
  /\ UpsertHealth(copy[p].id, "disabled")
  /\ at' = [at EXCEPT ![p] = "done"]
  /\ UNCHANGED <<login, accounts, used, usage, failures, wait, adminVars, flight, seen, copy, failed, listed>>

(* active_rate_limit_backoff: before retry_at the provider is not called.  *)
CheckBackoff(p) ==
  /\ flight = "collecting" /\ at[p] = "stored" /\ ~Paused(copy[p])
  /\ \/ at' = [at EXCEPT ![p] = IF wait[copy[p].id] > 0 THEN "limited" ELSE "calling"]
     \/ StorageFaults /\ at' = [at EXCEPT ![p] = "calling"]
  /\ UNCHANGED <<login, dbVars, adminVars, flight, seen, copy, failed, listed>>

(* Mutant: skipping an account starts its wait again.                      *)
RenewBackingOff(p) ==
  /\ flight = "collecting" /\ at[p] = "limited"
  /\ UpsertHealth(copy[p].id, "backing_off")
  /\ wait' = [wait EXCEPT ![copy[p].id] = IF Stored(copy[p].id) THEN Ladder[1] ELSE @]
  /\ at' = [at EXCEPT ![p] = "done"]
  /\ UNCHANGED <<login, accounts, used, usage, failures, adminVars, flight, seen, copy, failed, listed>>

RecordBackingOff(p) ==
  /\ flight = "collecting" /\ at[p] = "limited"
  /\ UpsertHealth(copy[p].id, "backing_off")
  /\ at' = [at EXCEPT ![p] = "done"]
  /\ UNCHANGED <<login, accounts, used, usage, failures, wait, adminVars, flight, seen, copy, failed, listed>>
-----------------------------------------------------------------------------
(* The provider answered.                                                  *)

(* Mutant: the tables do not refer to accounts.                            *)
Referable(i) == TRUE

(* provider_backoff and usage_snapshots refer to accounts(id), and         *)
(* foreign_keys is on.                                                     *)
References(i) == Stored(i)

(* next_rate_limit_backoff: one failure more than the row says, which it   *)
(* reads in a call of its own, or the first one if that read fails; only   *)
(* this future writes the row, and a deletion in between makes the write   *)
(* fail.  The wait of its rung, or later if the provider says so.  Counts  *)
(* past the ladder are one value.                                          *)
LastRung(n) == IF n < Len(Ladder) THEN n ELSE Len(Ladder)
NextFailures(i) == {LastRung(failures[i] + 1)} \union (IF StorageFaults THEN {1} ELSE {})

LimitRate(i) ==
  \E n \in NextFailures(i) :
    /\ failures' = [failures EXCEPT ![i] = n]
    /\ \E ticks \in {Ladder[n]} \union (Ladder[n] .. MaxRetryAfter) :
         wait' = [wait EXCEPT ![i] = ticks]

(* record_collection, one transaction: the usage, the account's health and *)
(* what becomes of its backoff.                                            *)
Collect(p, outcome) ==
  LET i == copy[p].id IN
  /\ flight = "collecting" /\ at[p] = "calling"
  /\ References(i)
  /\ usage' = usage \union {i}
  /\ health' = [health EXCEPT ![i] = IF outcome = "clear" THEN "ok" ELSE "error"]
  /\ CASE outcome = "clear" -> /\ failures' = [failures EXCEPT ![i] = 0]
                               /\ wait' = [wait EXCEPT ![i] = 0]
       [] outcome = "set" -> LimitRate(i)
       [] outcome = "preserve" -> UNCHANGED <<failures, wait>>
  /\ at' = [at EXCEPT ![p] = "done"]
  /\ UNCHANGED <<login, accounts, used, adminVars, flight, seen, copy, failed, listed>>

(* ... which stores nothing when the account is gone or storage fails.     *)
LoseCollection(p) ==
  /\ flight = "collecting" /\ at[p] = "calling"
  /\ ~References(copy[p].id) \/ StorageFaults
  /\ at' = [at EXCEPT ![p] = "done"]
  /\ UNCHANGED <<login, dbVars, adminVars, flight, seen, copy, failed, listed>>

(* note_rate_limit, before the failure itself is recorded.                 *)
NoteRateLimit(p) ==
  /\ flight = "collecting" /\ at[p] = "calling"
  /\ \/ References(copy[p].id) /\ LimitRate(copy[p].id)
     \/ (~References(copy[p].id) \/ StorageFaults) /\ UNCHANGED <<failures, wait>>
  /\ at' = [at EXCEPT ![p] = "rejected"]
  /\ UNCHANGED <<login, accounts, used, usage, health, adminVars, flight, seen, copy, failed, listed>>

(* record_failure: after any error or the collection timeout.  The health  *)
(* is left alone when the machine is offline.                              *)
RecordFailure(p) ==
  /\ flight = "collecting" /\ at[p] \in {"calling", "rejected"}
  /\ \/ UpsertHealth(copy[p].id, "error")
     \/ at[p] = "calling" /\ UNCHANGED health
  /\ at' = [at EXCEPT ![p] = "done"]
  /\ UNCHANGED <<login, accounts, used, usage, failures, wait, adminVars, flight, seen, copy, failed, listed>>

(* All futures are done; the account list for the profiles whose discovery *)
(* failed is loaded once.  Without it the flight is over.                  *)
FinishCollecting ==
  /\ flight = "collecting"
  /\ \A p \in Profiles : at[p] \in {"none", "done"}
  /\ \/ /\ failed # {}
        /\ flight' = "failing"
        /\ listed' = accounts
        /\ UNCHANGED failed
     \/ /\ failed = {} \/ StorageFaults
        /\ flight' = "none"
        /\ failed' = {}
        /\ UNCHANGED listed
  /\ at' = [p \in Profiles |-> "none"]
  /\ copy' = [p \in Profiles |-> NoAccount]
  /\ UNCHANGED <<login, dbVars, adminVars, seen>>

(* record_account_discovery_failures, one failed profile: the failure goes *)
(* to its account, if there is one that is not paused.                     *)
RecordDiscoveryFailure(p) ==
  /\ flight = "failing" /\ p \in failed
  /\ failed' = failed \ {p}
  /\ IF listed[p] # NoAccount /\ ~Paused(listed[p])
     THEN UpsertHealth(listed[p].id, "error") \/ UNCHANGED health
     ELSE UNCHANGED health
  /\ UNCHANGED <<login, accounts, used, usage, failures, wait, adminVars, flight, at, seen, copy, listed>>

EndFlight ==
  /\ flight = "failing" /\ failed = {}
  /\ flight' = "none"
  /\ listed' = [p \in Profiles |-> NoAccount]
  /\ UNCHANGED <<login, dbVars, adminVars, at, seen, copy, failed>>
-----------------------------------------------------------------------------
(* Account administration.                                                 *)

(* config_mutation is held from the new configuration to its commit.       *)
Unlocked == \A d \in Deleters : deletion[d] # "tombstoned"

(* update_account (pause, resume)                                          *)
SetEnabled(p, enabled) ==
  /\ p \in Rows /\ accounts[p].enabled # enabled
  /\ accounts' = [accounts EXCEPT ![p].enabled = enabled]
  /\ UNCHANGED <<login, used, usage, health, failures, wait, flightVars, adminVars>>

(* delete_account reads the account before it takes config_mutation.       *)
LookUpAccount(d, p) ==
  /\ deletion[d] = "none" /\ p \in Rows
  /\ deletion' = [deletion EXCEPT ![d] = "found"]
  /\ target' = [target EXCEPT ![d] = [profile |-> p, id |-> accounts[p].id]]
  /\ UNCHANGED <<login, dbVars, flightVars, config, previous>>

(* plan_profile_deletion, persisted and installed.  While config_mutation  *)
(* is held no other profile changes, so the profile's own state is all     *)
(* there is to roll back.                                                  *)
TombstoneProfile(d) ==
  /\ deletion[d] = "found" /\ Unlocked
  /\ previous' = [previous EXCEPT ![d] = config[target[d].profile]]
  /\ config' = [config EXCEPT ![target[d].profile] = "tombstoned"]
  /\ deletion' = [deletion EXCEPT ![d] = "tombstoned"]
  /\ UNCHANGED <<login, dbVars, flightVars, target>>

EndDeletion(d) ==
  /\ deletion' = [deletion EXCEPT ![d] = "none"]
  /\ target' = [target EXCEPT ![d] = NoAccount]
  /\ previous' = [previous EXCEPT ![d] = "absent"]

(* The configuration cannot be planned or written: the call fails.         *)
AbandonDeletion(d) ==
  /\ deletion[d] = "found" /\ StorageFaults
  /\ EndDeletion(d)
  /\ UNCHANGED <<login, dbVars, flightVars, config>>

(* Storage::delete_account, one transaction: the row, its usage and its    *)
(* health; ON DELETE CASCADE takes its backoff.                            *)
DeleteRow(d) ==
  LET i == target[d].id IN
  /\ deletion[d] = "tombstoned" /\ Stored(i)
  /\ accounts' = [p \in Profiles |->
       IF accounts[p] # NoAccount /\ accounts[p].id = i THEN NoAccount ELSE accounts[p]]
  /\ usage' = usage \ {i}
  /\ health' = [health EXCEPT ![i] = "none"]
  /\ failures' = [failures EXCEPT ![i] = 0]
  /\ wait' = [wait EXCEPT ![i] = 0]
  /\ EndDeletion(d)
  /\ UNCHANGED <<login, used, flightVars, config>>

(* The row is gone already, or storage fails: rollback_config_change, if   *)
(* the previous configuration can be written.                              *)
RollBackDeletion(d) ==
  /\ deletion[d] = "tombstoned"
  /\ ~Stored(target[d].id) \/ StorageFaults
  /\ \/ config' = [config EXCEPT ![target[d].profile] = previous[d]]
     \/ StorageFaults /\ UNCHANGED config
  /\ EndDeletion(d)
  /\ UNCHANGED <<login, dbVars, flightVars>>

(* A profile is added, or a deleted one is connected again.                *)
AddProfile(p) ==
  /\ Unlocked
  /\ config[p] # "enabled"
  /\ config' = [config EXCEPT ![p] = "enabled"]
  /\ UNCHANGED <<login, dbVars, flightVars, deletion, target, previous>>

(* Somebody signs in to a profile with another identity.                   *)
SignIn(p, external) ==
  /\ login[p] # external
  /\ login' = [login EXCEPT ![p] = external]
  /\ UNCHANGED <<dbVars, flightVars, adminVars>>

Tick ==
  /\ \E i \in Ids : wait[i] > 0
  /\ wait' = [i \in Ids |-> IF wait[i] > 0 THEN wait[i] - 1 ELSE 0]
  /\ UNCHANGED <<login, accounts, used, usage, health, failures, flightVars, adminVars>>

(* The daemon stops anywhere and starts again: the configuration file and  *)
(* the database are what is left.                                          *)
Crash ==
  /\ flight' = "none"
  /\ at' = [p \in Profiles |-> "none"]
  /\ copy' = [p \in Profiles |-> NoAccount]
  /\ failed' = {}
  /\ listed' = [p \in Profiles |-> NoAccount]
  /\ deletion' = [d \in Deleters |-> "none"]
  /\ target' = [d \in Deleters |-> NoAccount]
  /\ previous' = [d \in Deleters |-> "absent"]
  /\ UNCHANGED <<login, dbVars, seen, config>>

AccountStep(p) ==
  \/ UpsertAccount(p)
  \/ RejectAccount(p)
  \/ ClearPaused(p)
  \/ RecordDisabled(p)
  \/ CheckBackoff(p)
  \/ RecordBackingOff(p)
  \/ \E outcome \in {"clear", "preserve", "set"} : Collect(p, outcome)
  \/ LoseCollection(p)
  \/ NoteRateLimit(p)
  \/ RecordFailure(p)

FlightStep ==
  \/ \E bad \in SUBSET Profiles : Discover(bad)
  \/ \E p \in Profiles : AccountStep(p)
  \/ FinishCollecting
  \/ \E p \in Profiles : RecordDiscoveryFailure(p)
  \/ EndFlight

DeletionStep(d) == TombstoneProfile(d) \/ AbandonDeletion(d) \/ DeleteRow(d) \/ RollBackDeletion(d)

Administration ==
  \/ \E p \in Profiles, enabled \in BOOLEAN : SetEnabled(p, enabled)
  \/ \E d \in Deleters : DeletionStep(d) \/ \E p \in Profiles : LookUpAccount(d, p)
  \/ \E p \in Profiles : AddProfile(p)

Next ==
  \/ BeginFlight
  \/ FlightStep
  \/ AbortFlight
  \/ Administration
  \/ \E p \in Profiles, external \in Externals : SignIn(p, external)
  \/ Tick
  \/ Crash

Spec == Init /\ [][Next]_vars

(* The runtime polls the flight's futures until it ends, and time passes.  *)
Fairness == WF_vars(FlightStep) /\ WF_vars(Tick)
FairSpec == Spec /\ Fairness
-----------------------------------------------------------------------------
(* Properties.                                                             *)

TypeOK ==
  /\ config \in [Profiles -> {"absent", "enabled", "tombstoned"}]
  /\ login \in [Profiles -> Externals]
  /\ accounts \in [Profiles -> Account \union {NoAccount}]
  /\ used \in SUBSET Ids
  /\ usage \in SUBSET Ids
  /\ health \in [Ids -> {"none", "ok", "disabled", "backing_off", "error"}]
  /\ failures \in [Ids -> 0 .. Len(Ladder)]
  /\ wait \in [Ids -> Nat]
  /\ flight \in {"none", "discovering", "collecting", "failing"}
  /\ at \in [Profiles -> {"none", "configured", "discovered", "stored", "paused",
                          "limited", "calling", "rejected", "done"}]
  /\ seen \in [Profiles -> Externals]
  /\ copy \in [Profiles -> Account \union {NoAccount}]
  /\ failed \in SUBSET Profiles
  /\ listed \in [Profiles -> Account \union {NoAccount}]
  /\ deletion \in [Deleters -> {"none", "found", "tombstoned"}]
  /\ target \in [Deleters -> Target \union {NoAccount}]
  /\ previous \in [Deleters -> {"absent", "enabled", "tombstoned"}]

(* Two profiles never carry the same identity at the provider, whatever    *)
(* they are signed in to while a flight stores what it discovered before,  *)
(* and although a legacy identity may be replaced (upsert_account).        *)
NoSharedIdentity ==
  UniqueExternal => \A p, q \in Rows : accounts[p].external = accounts[q].external => p = q

(* A stored account's health says ok only on top of stored usage: the two  *)
(* are written together and deleted together, while refreshes that hold an *)
(* older copy of the account write health on their own.                    *)
UsageBacksHealth ==
  \A i \in Ids : health[i] = "ok" => i \in usage /\ Stored(i)

(* Deleted accounts leave no history behind and stay closed; stored ones   *)
(* never lose it.                                                          *)
Ledger == INSTANCE AccountLedger WITH
  life    <- [i \in Ids |-> IF Stored(i) THEN "open" ELSE IF i \in used THEN "closed" ELSE "unborn"],
  limited <- {i \in Ids : failures[i] > 0}

KeepsLedger == Ledger!Spec

(* The inductive strengthening of UsageBacksHealth and KeepsLedger.        *)

(* A future that is past upsert_account holds an account, and so does a    *)
(* deletion that is under way.                                             *)
CopiesHeld ==
  /\ \A p \in Profiles :
       at[p] \in {"stored", "paused", "limited", "calling", "rejected"} => copy[p] # NoAccount
  /\ \A d \in Deleters : deletion[d] # "none" => target[d] # NoAccount

(* Rows have ids of their own, all of them used.                           *)
RowsDistinct ==
  /\ \A p, q \in Rows : accounts[p].id = accounts[q].id => p = q
  /\ \A p \in Rows : accounts[p].id \in used

(* What refers to an account's row is there only while the row is.         *)
HistoryStored ==
  \A i \in Ids : i \in usage \/ failures[i] > 0 => Stored(i)

AccountInv ==
  /\ TypeOK
  /\ CopiesHeld
  /\ RowsDistinct
  /\ HistoryStored
  /\ UsageBacksHealth

(* A pause is honoured in the end: if an account stays paused and flights  *)
(* keep getting done with it, its health settles on disabled, whatever     *)
(* calls and discoveries in the air at the pause write after it.           *)
PausedSettles ==
  \A p \in Profiles :
    <>[](p \in Rows /\ ~accounts[p].enabled) /\ []<>(at[p] = "done" /\ copy[p] # NoAccount)
      => <>[](p \in Rows /\ health[accounts[p].id] = "disabled")

(* A rate limit delays an account and never starves it: as long as flights *)
(* get done with the account, its provider is called again.                *)
LimitedIsRetried ==
  \A p \in Profiles :
    []<>(at[p] = "done" /\ copy[p] # NoAccount /\ ~Paused(copy[p])) => []<>(at[p] = "calling")

(* Both: neither a pause nor a rate limit is forgotten or lasts for ever   *)
(* (refresh_account_with_budget, record_backing_off).                      *)
LimitsSettle == PausedSettles /\ LimitedIsRetried

(* docs/data-and-privacy.md, on permanent deletion: "leaves a tombstone so *)
(* the profile isn't silently recreated".                                  *)
ProfileNotRecreated ==
  [][\A p \in Profiles :
       config[p] = "tombstoned" /\ accounts[p] = NoAccount => accounts'[p] = NoAccount]_vars
=============================================================================
