---------------------------- MODULE ClaudeAccess ----------------------------
(***************************************************************************)
(* How the daemon uses the sign-in of one Claude profile                   *)
(* (providers/claude/{mod,credentials,client}.rs).  A sign-in is a pair of *)
(* tokens, here one number: it is kept in the Keychain or, for want of     *)
(* that, in a file; it expires, and refreshing it at the provider replaces *)
(* it and makes the former worthless.  Discovery, collection and launches  *)
(* of Claude Code use it at the same time, as does Claude Code itself.     *)
(***************************************************************************)
EXTENDS Integers, FiniteSets

CONSTANTS
  Tasks,          \* discoveries, collections and launches under way
  MaxTokens,      \* bound on the sign-ins
  MaxTrouble,     \* bound on the failures of the network
  MaxOthers,      \* bound on what Claude Code and the user do
  MaxEvents,      \* bound on both together
  LaunchAttempts  \* the attempts of sync_for_launch_with

Free == "free"
ASSUME ClaudeAssumption ==
  /\ Free \notin Tasks
  /\ MaxTokens \in Nat \ {0} /\ LaunchAttempts \in Nat \ {0}
  /\ MaxTrouble \in Nat /\ MaxOthers \in Nat /\ MaxEvents \in Nat

VARIABLES
  keychain,   \* the token in the Keychain item, 0 while there is none
  blocked,    \* the helper may not read or write it without asking
  disk,       \* the token in the credentials file
  known,      \* what the Keychain's broker has read
  cached,     \* credentials_cache of the profile
  newest, expired,  \* tokens issued so far; those past their time
  live,       \* the tokens the provider would still refresh
  home,       \* whom .claude.json names
  tries,      \* what each task does
  lock,       \* lock_credentials
  trouble, others, \* how often the network failed; what others did
  spent,      \* history: tokens exchanged for another that was then saved, and where they were
  harmed,     \* history: a token was lost by a failure, or deleted
  switches    \* history: how often home has changed

claudeVars == <<keychain, blocked, disk, known, cached, newest, expired, live, home,
                tries, lock, trouble, others, spent, harmed, switches>>
stores == <<keychain, blocked, disk>>
provider == <<newest, live>>
world == <<expired, home, others, switches>>
losses == <<spent, harmed>>

Unset == [is |-> "none"]
Of(t, from) == [is |-> "token", t |-> t, from |-> from]
Successor(cred, t) == Of(t, cred.from)
Error(why) == [is |-> why]
Resting == [at |-> "idle"]

ClaudeInit ==
  /\ keychain \in {0, 1} /\ disk \in {0, 1} /\ blocked \in BOOLEAN
  /\ known = 0 /\ cached = Unset /\ newest = 1 /\ expired \in {{}, {1}} /\ live = {1}
  /\ home = "a" /\ others = 0
  /\ tries = [f \in Tasks |-> Resting] /\ lock = Free
  /\ trouble = 0 /\ spent = {} /\ harmed = FALSE /\ switches = 0
-----------------------------------------------------------------------------
(* What the broker answers: what it knows, if that is recent or the item   *)
(* may not be read, or else what the item holds.                           *)
KeychainReads(again) ==
  (IF known # 0 /\ ~again THEN {Of(known, "keychain")} ELSE {}) \union
  (IF keychain = 0 THEN {Error("missing")}
   ELSE IF ~blocked THEN {Of(keychain, "keychain")}
   ELSE IF known # 0 THEN {Of(known, "keychain")} ELSE {Error("denied")})

(* credentials_with_file_fallback.                                         *)
WithFile(found) ==
  IF found.is \in {"missing", "denied"} /\ disk # 0 THEN Of(disk, "file") ELSE found

Knowing(found) ==
  known' = IF found.is = "token" THEN found.t ELSE IF found.is = "missing" THEN 0 ELSE known

(* The network fails, as often as is allowed.                              *)
MayFail == trouble < MaxTrouble /\ others + trouble < MaxEvents

Go(f, task) == tries' = [tries EXCEPT ![f] = task]
Step(f, at) == Go(f, [tries[f] EXCEPT !.at = at])
Expired(cred) == cred.t \in expired
HomeIs(who) == home = who
-----------------------------------------------------------------------------
Start(f) ==
  /\ tries[f].at = "idle"
  /\ \E kind \in {"discover", "collect"} : Go(f, [at |-> "load", kind |-> kind, cred |-> Unset, again |-> FALSE])
  /\ UNCHANGED <<stores, known, cached, provider, world, lock, trouble, losses>>

Ends(f) == Go(f, [at |-> "ended"])

(* What a failure leads to: Claude Code itself is asked (by a collection), *)
(* or the identity it left on disk is taken (by a discovery).              *)
Fails(f, why) ==
  CASE tries[f].kind = "collect" /\ why \in {"network", "denied"} -> Step(f, "cli")
    [] tries[f].kind = "discover" /\ (IF tries[f].again THEN why = "network" /\ tries[f].at = "call"
                                                     ELSE why = "denied" \/ tries[f].at = "call") -> Step(f, "identity")
    [] OTHER -> Ends(f)

(* load_credentials, which holds the cache, or reload_credentials; then    *)
(* load_with_auto_refresh.                                                 *)
Uses(f, cred) ==
  Go(f, [tries[f] EXCEPT !.at = IF Expired(cred) THEN "refresh" ELSE "call", !.cred = cred])
Load(f) ==
  /\ tries[f].at = "load"
  /\ \/ /\ cached # Unset /\ tries[f].kind = "collect"
        /\ Uses(f, cached) /\ UNCHANGED <<known, cached>>
     \/ \E found \in KeychainReads(FALSE) :
          LET cred == WithFile(found) IN
          /\ Knowing(found)
          /\ IF cred.is = "token" THEN Uses(f, cred) /\ cached' = cred
                                  ELSE Fails(f, cred.is) /\ UNCHANGED cached
  /\ UNCHANGED <<stores, provider, world, lock, trouble, losses>>

(* fetch_usage or fetch_profile, once more after a 401.                    *)
Call(f) ==
  /\ tries[f].at = "call"
  /\ \/ ~Expired(tries[f].cred) /\ Ends(f) /\ UNCHANGED trouble
     \/ /\ Expired(tries[f].cred) \/ MayFail
        /\ trouble' = IF Expired(tries[f].cred) THEN trouble ELSE trouble + 1
        /\ IF tries[f].again THEN Step(f, "rejected") ELSE Go(f, [tries[f] EXCEPT !.at = "refresh", !.again = TRUE])
     \/ MayFail /\ trouble' = trouble + 1 /\ Fails(f, "network")
  /\ UNCHANGED <<stores, known, cached, provider, world, lock, losses>>

(* recover_rejected_credentials forgets what was rejected and looks again. *)
Recover(f) ==
  /\ tries[f].at = "rejected"
  /\ LET denied == keychain # 0 /\ blocked
         cred == WithFile(IF denied THEN Error("denied") ELSE IF keychain = 0 THEN Error("missing") ELSE Of(keychain, "keychain"))
     IN /\ known' = IF denied THEN 0 ELSE keychain
        /\ cached' = IF cred.is = "token" THEN cred ELSE Unset
        /\ IF cred.is = "denied" THEN Fails(f, "denied") ELSE Ends(f)
  /\ UNCHANGED <<stores, provider, world, lock, trouble, losses>>
-----------------------------------------------------------------------------
(* ClaudeApiClient::refresh_credentials: one at a time for the item.       *)
Lock(f) ==
  /\ tries[f].at = "refresh" /\ lock = Free
  /\ lock' = f /\ Step(f, "reload")
  /\ UNCHANGED <<stores, known, cached, provider, world, trouble, losses>>

(* The lock is left; a failed refresh empties the cache.                   *)
Refreshed(f, cred) ==
  /\ lock' = Free /\ cached' = cred
  /\ Go(f, [tries[f] EXCEPT !.at = "call", !.cred = cred])
RefreshFails(f, why) ==
  /\ lock' = Free /\ cached' = Unset
  /\ IF why = "rejected" THEN Step(f, "rejected") ELSE Fails(f, why)
SyncFails(f, why) ==
  IF why = "conflict" /\ tries[f].attempt + 1 < LaunchAttempts
  THEN Go(f, [tries[f] EXCEPT !.at = "sync", !.attempt = @ + 1]) /\ UNCHANGED <<lock, cached>>
  ELSE lock' = Free /\ Ends(f) /\ UNCHANGED cached
Refused(f, why) == IF tries[f].kind = "launch" THEN SyncFails(f, why) ELSE RefreshFails(f, why)

(* Mutant: the credentials that were found expired are refreshed as they   *)
(* are.                                                                    *)
ReloadNothing(f) ==
  /\ tries[f].at = "reload" /\ Step(f, "post")
  /\ UNCHANGED <<stores, known, lock, cached, provider, world, trouble, losses>>

(* reload_for_refresh: somebody else may have refreshed meanwhile, and a   *)
(* file gives way to an item that was seeded since.                        *)
Posting(f, current) == Go(f, [tries[f] EXCEPT !.at = "post", !.cred = current])
Reload(f) ==
  /\ tries[f].at = "reload"
  /\ \E found \in KeychainReads(TRUE) :
       LET current == IF tries[f].cred.from = "file" THEN WithFile(found) ELSE found IN
       /\ Knowing(found)
       /\ IF current.is # "token" THEN RefreshFails(f, current.is)
          ELSE IF current.t # tries[f].cred.t /\ ~Expired(current) THEN Refreshed(f, current)
          ELSE Posting(f, current) /\ UNCHANGED <<lock, cached>>
  /\ UNCHANGED <<stores, provider, world, trouble, losses>>

(* refresh_credentials_locked: the provider replaces the token.  Its       *)
(* answer may be lost on the way.                                          *)
Post(f) ==
  /\ tries[f].at = "post"
  /\ \/ /\ tries[f].cred.t \in live /\ newest < MaxTokens
        /\ newest' = newest + 1 /\ live' = (live \ {tries[f].cred.t}) \union {newest'}
        /\ \/ /\ Go(f, [at |-> "compare", kind |-> tries[f].kind, cred |-> tries[f].cred, new |-> newest',
                        again |-> tries[f].again, attempt |-> IF tries[f].kind = "launch" THEN tries[f].attempt ELSE 0])
              /\ UNCHANGED <<lock, cached, trouble, harmed>>
           \/ /\ MayFail /\ trouble' = trouble + 1 /\ harmed' = TRUE
              /\ Refused(f, "network")
     \/ tries[f].cred.t \notin live /\ Refused(f, "rejected") /\ UNCHANGED <<provider, trouble, harmed>>
     \/ /\ MayFail /\ trouble' = trouble + 1
        /\ Refused(f, "network") /\ UNCHANGED <<provider, harmed>>
  /\ UNCHANGED <<stores, known, world, spent>>

(* A launch has its credentials: what is in the Keychain is left there.    *)
Launched(f, found) == lock' = Free /\ Go(f, [at |-> "launched", found |-> found]) /\ UNCHANGED cached
Synced(f, cred, found) ==
  IF cred.from = "keychain" THEN Launched(f, found)
  ELSE Go(f, [tries[f] EXCEPT !.at = "seed", !.cred = cred]) /\ UNCHANGED <<lock, cached>>

(* save_credentials compares first: what another has written since stays.  *)
InStore(cred) == IF cred.from = "keychain" THEN keychain ELSE disk
Compare(f) ==
  /\ tries[f].at = "compare"
  /\ LET cred == tries[f].cred
         refused == cred.from = "keychain" /\ (blocked \/ keychain = 0)
     IN IF ~refused /\ InStore(cred) = cred.t
        THEN Step(f, "save") /\ UNCHANGED <<lock, cached, known, harmed>>
        ELSE /\ Refused(f, IF refused THEN "denied" ELSE "conflict")
             /\ known' = IF cred.from = "keychain" THEN 0 ELSE known
             /\ harmed' = (harmed \/ refused)
  /\ UNCHANGED <<stores, provider, world, trouble, spent>>

Save(f) ==
  /\ tries[f].at = "save"
  /\ LET new == tries[f].new
         cred == Successor(tries[f].cred, new)
     IN /\ IF cred.from = "keychain" THEN keychain' = new /\ known' = new /\ UNCHANGED disk
                                     ELSE disk' = new /\ UNCHANGED <<keychain, known>>
        /\ spent' = spent \union {<<tries[f].cred.t, cred.from>>}
        /\ IF tries[f].kind # "launch" THEN Refreshed(f, cred)
           ELSE Synced(f, cred, TRUE)
  /\ UNCHANGED <<blocked, provider, world, trouble, harmed>>
-----------------------------------------------------------------------------
(* sync_for_launch: Claude Code is about to be started for the profile.    *)
StartLaunch(f) ==
  /\ tries[f].at = "idle" /\ lock = Free /\ lock' = f
  /\ Go(f, [at |-> "sync", kind |-> "launch", attempt |-> 0, cred |-> Unset, again |-> FALSE])
  /\ UNCHANGED <<stores, known, cached, provider, world, trouble, losses>>

Sync(f) ==
  /\ tries[f].at = "sync"
  /\ \E found \in KeychainReads(TRUE) :
       LET cred == WithFile(found) IN
       /\ Knowing(found)
       /\ IF cred.is # "token" THEN SyncFails(f, cred.is)
          ELSE IF Expired(cred) THEN Posting(f, cred) /\ UNCHANGED <<lock, cached>>
          ELSE Synced(f, cred, keychain # 0)
  /\ UNCHANGED <<stores, provider, world, trouble, losses>>

(* A token of the file is put there only where there is none.              *)
Seed(f) ==
  /\ tries[f].at = "seed"
  /\ \/ /\ keychain = 0 /\ ~blocked
        /\ keychain' = tries[f].cred.t /\ known' = keychain'
        /\ Launched(f, TRUE)
     \/ /\ keychain # 0 \/ blocked
        /\ SyncFails(f, IF blocked THEN "denied" ELSE "conflict") /\ known' = 0 /\ UNCHANGED keychain
  /\ UNCHANGED <<blocked, disk, provider, world, trouble, losses>>
-----------------------------------------------------------------------------
(* collect_usage_with_cli: Claude Code measures with the selected token,   *)
(* or with its own sign-in if that is expired or out of reach.  Whose that *)
(* is, is then compared with the account before and after.                 *)
MeasuresWith(f, cred) ==
  IF cred.is = "missing" \/ (cred.is = "token" /\ ~Expired(cred)) \/ ~HomeIs("a")
  THEN Ends(f) ELSE Go(f, [at |-> "native", since |-> switches])
Measure(f) ==
  /\ tries[f].at = "cli"
  /\ \/ cached # Unset /\ MeasuresWith(f, cached) /\ UNCHANGED <<known, cached>>
     \/ \E found \in KeychainReads(FALSE) :
          LET cred == WithFile(found) IN
          /\ Knowing(found) /\ MeasuresWith(f, cred)
          /\ cached' = IF cred.is = "token" THEN cred ELSE cached
  /\ UNCHANGED <<stores, provider, world, lock, trouble, losses>>

Native(f) ==
  /\ tries[f].at = "native"
  /\ Go(f, [at |-> "validate", since |-> tries[f].since, whose |-> home])
  /\ UNCHANGED <<stores, known, cached, provider, world, lock, trouble, losses>>

Validate(f) ==
  /\ tries[f].at = "validate"
  /\ IF HomeIs("a") THEN Go(f, [at |-> "measured", whose |-> tries[f].whose, switched |-> switches - tries[f].since])
                   ELSE Ends(f)
  /\ UNCHANGED <<stores, known, cached, provider, world, lock, trouble, losses>>

(* fetch_profile_identity falls back on what Claude Code says of itself.   *)
Identify(f) ==
  /\ tries[f].at = "identity" /\ Ends(f)
  /\ UNCHANGED <<stores, known, cached, provider, world, lock, trouble, losses>>
-----------------------------------------------------------------------------
(* Claude Code refreshes its token; the user signs in as somebody, or out; *)
(* access to the item changes.                                             *)
Issued(replaced) ==
  /\ newest < MaxTokens /\ newest' = newest + 1 /\ live' = (live \ replaced) \union {newest'}
  /\ \/ keychain' = newest' /\ UNCHANGED disk
     \/ keychain = 0 /\ disk' = newest' /\ UNCHANGED keychain
  /\ UNCHANGED <<blocked, harmed>>
Others ==
  /\ others < MaxOthers /\ others + trouble < MaxEvents
  /\ others' = others + 1
  /\ \/ /\ keychain \in live
        /\ Issued({keychain}) /\ UNCHANGED <<home, switches>>
     \/ \E who \in {"a", "b"} :
          /\ Issued({}) /\ home' = who
          /\ switches' = IF who = home THEN switches ELSE switches + 1
     \/ /\ keychain # 0 /\ keychain' = 0 /\ harmed' = TRUE
        /\ UNCHANGED <<blocked, disk, provider, home, switches>>
     \/ blocked' = ~blocked /\ UNCHANGED <<keychain, disk, provider, home, switches, harmed>>
  /\ UNCHANGED <<known, cached, expired, tries, lock, trouble, spent>>

(* The tokens pass their time, less TOKEN_REFRESH_SKEW_MS.                 *)
Expire ==
  /\ expired' = 1 .. newest /\ expired' # expired
  /\ UNCHANGED <<stores, known, cached, provider, home, others, switches, tries, lock, trouble, losses>>

ClaudeNext ==
  \/ \E f \in Tasks :
       \/ Start(f) \/ Load(f) \/ Call(f) \/ Recover(f) \/ Identify(f)
       \/ Lock(f) \/ Reload(f) \/ Post(f) \/ Compare(f) \/ Save(f)
       \/ StartLaunch(f) \/ Sync(f) \/ Seed(f)
       \/ Measure(f) \/ Native(f) \/ Validate(f)
  \/ Others \/ Expire

ClaudeSpec == ClaudeInit /\ [][ClaudeNext]_claudeVars
-----------------------------------------------------------------------------
(* Refreshing loses no sign-in: while nothing has failed, some store holds *)
(* a token that the provider still takes (save_credentials).               *)
SignInKept == lock = Free /\ ~harmed /\ {keychain, disk} # {0} => {keychain, disk} \intersect live # {}

(* A token that was exchanged is not presented again from where its        *)
(* successor was saved, as the provider might then end the whole sign-in   *)
(* (lock_credentials, reload_for_refresh).                                 *)
SpentOnce ==
  ~harmed => \A f \in Tasks : tries[f].at = "post" => <<tries[f].cred.t, tries[f].cred.from>> \notin spent

(* What Claude Code measures with its own sign-in is the account's for     *)
(* which it was asked, if the user changed that at most once meanwhile     *)
(* (validate_cli_identity).                                                *)
RightAccount == \A f \in Tasks : tries[f].at = "measured" /\ tries[f].switched <= 1 => tries[f].whose = "a"

(* Claude Code is started only on credentials that are in its Keychain     *)
(* item (sync_for_launch).                                                 *)
LaunchReady == \A f \in Tasks : tries[f].at = "launched" => tries[f].found

CredentialsSafe == SignInKept /\ SpentOnce /\ RightAccount /\ LaunchReady

ClaudeTypeOK ==
  /\ keychain \in 0 .. newest /\ disk \in 0 .. newest /\ known \in 0 .. newest
  /\ live \subseteq 1 .. newest /\ lock \in Tasks \union {Free}
  /\ cached.is \in {"none", "token"} /\ trouble \in 0 .. MaxTrouble
=============================================================================
