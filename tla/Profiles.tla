------------------------------ MODULE Profiles ------------------------------
(***************************************************************************)
(* The profiles of one provider with several accounts: how adding,         *)
(* repairing and deleting an account choose, create, revive and bury a     *)
(* profile and its directory (usage-daemon/src/providers/                  *)
(* profile_service.rs, grok/profile_service.rs, the handlers of the        *)
(* adapters, runtime/managed_profiles.rs).  What a handler read before it  *)
(* took the lock of the configuration may be stale when it uses it.        *)
(***************************************************************************)
EXTENDS Integers, Sequences, FiniteSets, SequencesExt

CONSTANTS
  Kinds,       \* providers: a subset of {"codex", "claude", "grok"}
  Askers,      \* requests
  Bases,       \* what display names slugify to
  MaxProfiles  \* bound on the profiles of the provider

ASSUME ProfilesAssumption ==
  /\ Kinds \subseteq {"codex", "claude", "grok"} /\ MaxProfiles \in Nat
  /\ "account" \in Bases   \* what a name without letters becomes (unique_profile_id)

VARIABLES
  kind,        \* the provider
  on,          \* it is enabled
  profiles,    \* its profiles in the configuration, tombstones included
  homes,       \* managed directories on disk, by the id of their profile
  signed,      \* homes with credentials
  rows,        \* profiles whose account is in the database
  asks         \* what each request does

profileVars == <<kind, on, profiles, homes, signed, rows, asks>>

ProfileIds == Bases \X (1 .. MaxProfiles + 1)
Default == <<"default", 1>>
Local == <<"local", 0>>     \* the home that the provider's tool uses by itself
NoHome == <<"none", 0>>

Profile(id, home, owns) == [id |-> id, home |-> home, owns |-> owns, live |-> TRUE, deleted |-> FALSE]
Tombstone(id) == [id |-> id, home |-> NoHome, owns |-> FALSE, live |-> FALSE, deleted |-> TRUE]

Live(ps) == {i \in DOMAIN ps : ps[i].live}
IdsOf(ps) == {ps[i].id : i \in DOMAIN ps}
Managed(p) == p.home = p.id

(* Without explicit profiles there is an implicit one.                     *)
InEffect == IF profiles = <<>> THEN {Profile(Default, Local, FALSE)} ELSE {profiles[i] : i \in Live(profiles)}

ProfilesInit ==
  /\ kind \in Kinds
  /\ profiles = <<>> /\ homes = {}
  /\ signed \in {{}, {Local}} /\ rows \in {{}, {Default}} /\ (rows # {} => signed # {})
  /\ on = (rows # {})
  /\ asks = [k \in Askers |-> [at |-> "idle"]]
-----------------------------------------------------------------------------
(* Mutant: the ids of deleted profiles are given away again.               *)
ReusedId(ps, base) ==
  <<base, CHOOSE n \in 1 .. MaxProfiles + 1 :
            /\ \A i \in Live(ps) : ps[i].id # <<base, n>>
            /\ \A m \in 1 .. n - 1 : \E i \in Live(ps) : ps[i].id = <<base, m>> >>

(* unique_profile_id, for which a tombstone's id is taken.                 *)
UniqueId(ps, base) ==
  <<base, CHOOSE n \in 1 .. MaxProfiles + 1 :
            <<base, n>> \notin IdsOf(ps) /\ \A m \in 1 .. n - 1 : <<base, m>> \in IdsOf(ps)>>

(* create_managed_profile of each provider                                 *)
WithManaged(ps, base) ==
  LET id == UniqueId(ps, base)
  IN  Append(ps, Profile(id, id, kind = "claude" /\ Live(ps) = {}))

(* pending_profile: those that wait for their first sign-in.               *)
PendingCodex(ps) == {i \in Live(ps) : Managed(ps[i]) /\ ps[i].home \notin signed}
PendingClaude(ps, seen) == {i \in Live(ps) : Managed(ps[i]) /\ ps[i].id \notin seen}
PendingGrok(ps, seen) == {i \in Live(ps) : ps[i].id \notin seen}

Newest(S) == CHOOSE i \in S : \A j \in S : j <= i
First(S) == CHOOSE i \in S : \A j \in S : i <= j
Named(ps, id) == {i \in DOMAIN ps : ps[i].id = id}

To(ps, i) == [profiles |-> ps, target |-> ps[i]]
LatestOrManaged(ps, pending, base) ==
  IF pending # {} THEN To(ps, Newest(pending)) ELSE To(WithManaged(ps, base), Len(ps) + 1)

(* add_account of Codex, whose implicit profile is made explicit first.    *)
AddCodex(base) ==
  LET ps == IF profiles = <<>> THEN <<Profile(Default, Local, FALSE)>> ELSE profiles
  IN  {LatestOrManaged(ps, PendingCodex(ps), base)}

(* add_account of Claude: its implicit profile is not made explicit.       *)
AddClaude(seen, base) == {LatestOrManaged(profiles, PendingClaude(profiles, seen), base)}

(* ensure_login_profile of Grok, for the default profile.                  *)
Revived(ps) ==
  IF ps = <<>> THEN <<Profile(Default, Local, FALSE)>>
  ELSE LET i == First(Named(ps, Default))
       IN  [ps EXCEPT ![i] = Profile(Default, IF ps[i].home = NoHome THEN Local ELSE ps[i].home, ps[i].owns)]
ToDefault(ps) == To(Revived(ps), First(Named(Revived(ps), Default)))

(* materialize_connected_legacy_profile                                    *)
Materialized(ps, seen) ==
  IF ps = <<>> /\ Default \in seen THEN <<Profile(Default, Local, FALSE)>> ELSE ps

(* select_login_target: the default profile is the first to be connected.  *)
AddGrok(seen, base) ==
  LET ps == Materialized(profiles, seen)
  IN  IF PendingGrok(ps, seen) = {} /\ seen = {} /\ (ps = <<>> \/ Named(ps, Default) # {}) THEN {ToDefault(ps)}
      ELSE {LatestOrManaged(ps, PendingGrok(ps, seen), base)}

(* select_browser_login_target: without its tool, only the local home.     *)
AddGrokInBrowser(seen) ==
  {to \in IF seen = {} /\ (profiles = <<>> \/ Named(profiles, Default) # {}) THEN {ToDefault(profiles)} ELSE {} :
     to.target.home = Local}

AddTargets(seen, base) ==
  CASE kind = "codex"  -> AddCodex(base)
    [] kind = "claude" -> AddClaude(seen, base)
    [] kind = "grok"   -> AddGrok(seen, base) \union AddGrokInBrowser(seen)

(* repair of Codex changes nothing, and takes a profile that was deleted.  *)
RepairCodex(id) ==
  {[profiles |-> profiles, target |->
      IF Named(profiles, id) # {} THEN profiles[First(Named(profiles, id))]
      ELSE IF profiles # <<>> THEN profiles[1] ELSE Profile(Default, Local, FALSE)]}

(* ensure_login_profile: the profile of the account, while it is           *)
(* configured, or the first one, or a new one.                             *)
RepairManaged(ps, id) ==
  IF id # NoHome THEN {To([ps EXCEPT ![i].live = TRUE], i) : i \in {j \in Named(ps, id) : ~ps[j].deleted}}
  ELSE IF Live(ps) # {} THEN {To(ps, First(Live(ps)))}
  ELSE {To(WithManaged(ps, "account"), Len(ps) + 1)}

RepairClaude(id) ==
  IF profiles = <<>> /\ id = Default THEN {[profiles |-> profiles, target |-> Profile(Default, Local, FALSE)]}
  ELSE RepairManaged(profiles, id)

RepairGrok(id) ==
  IF id = Default /\ (profiles = <<>> \/ Named(profiles, id) # {}) THEN {ToDefault(profiles)}
  ELSE RepairManaged(IF profiles = <<>> THEN Revived(profiles) ELSE profiles, id)

RepairTargets(id) ==
  CASE kind = "codex" -> RepairCodex(id) [] kind = "claude" -> RepairClaude(id) [] kind = "grok" -> RepairGrok(id)

(* plan_profile_deletion                                                   *)
Buried(id) ==
  IF Named(profiles, id) = {} THEN Append(profiles, Tombstone(id))
  ELSE [profiles EXCEPT ![First(Named(profiles, id))] = Tombstone(id)]

(* deletion_candidate: only the directory that the id itself leads to.     *)
Candidate(id) == {profiles[i].home : i \in {j \in Named(profiles, id) : Managed(profiles[j])}}
-----------------------------------------------------------------------------
Now(k, step) == asks' = [asks EXCEPT ![k] = step]
Finish(k) == Now(k, [at |-> "idle"])

(* A request reads the accounts, outside of the lock.                      *)
ReadAccounts(k) ==
  /\ asks[k].at = "idle"
  /\ \/ Now(k, [at |-> "add", seen |-> rows])
     \/ \E id \in rows : Now(k, [at |-> "delete", id |-> id])
     \/ \E id \in rows \union {NoHome} : Now(k, [at |-> "repair", id |-> id])
  /\ UNCHANGED <<kind, on, profiles, homes, signed, rows>>

(* mutate_config: directories are created before the file is written, and  *)
(* stay when it cannot be; the login is launched after the lock.           *)
ChooseTarget(k) ==
  /\ asks[k].at \in {"add", "repair"}
  /\ \E base \in Bases :
     \E to \in IF asks[k].at = "add" THEN AddTargets(asks[k].seen, base) ELSE RepairTargets(asks[k].id) :
       /\ Len(to.profiles) <= MaxProfiles
       /\ homes' = homes \union (IF Len(to.profiles) > Len(profiles) /\ Managed(to.target) THEN {to.target.home} ELSE {})
       /\ \/ /\ profiles' = to.profiles /\ on' = (on \/ kind # "codex" \/ asks[k].at = "add")
             /\ Now(k, [at |-> "login", home |-> IF to.target.home = NoHome THEN Local ELSE to.target.home])
          \/ UNCHANGED <<profiles, on>> /\ Finish(k)
  /\ UNCHANGED <<kind, signed, rows>>

(* The account's profile is no longer configured, or Grok's tool is not    *)
(* there: an account that is connected stays, and nothing is added to it.  *)
NoTarget(k) ==
  /\ \/ asks[k].at = "repair" /\ (kind = "grok" \/ RepairTargets(asks[k].id) = {})
     \/ asks[k].at = "add" /\ kind = "grok" /\ AddGrokInBrowser(asks[k].seen) = {}
  /\ Finish(k)
  /\ UNCHANGED <<kind, on, profiles, homes, signed, rows>>

(* The user signs in, or does not; the tool writes into its home.          *)
EndLogin(k) ==
  /\ asks[k].at = "login"
  /\ \/ /\ signed' = signed \union {asks[k].home}
        /\ homes' = homes \union ({asks[k].home} \ {Local})
     \/ UNCHANGED <<signed, homes>>
  /\ Finish(k)
  /\ UNCHANGED <<kind, on, profiles, rows>>

(* A flight stores the account of a profile with credentials.              *)
Connect ==
  /\ on
  /\ \E p \in InEffect : p.home \in signed /\ rows' = rows \union {p.id}
  /\ UNCHANGED <<kind, on, profiles, homes, signed, asks>>

(* delete_account: the configuration and the row change together or not;   *)
(* the directory goes after the lock was released.                         *)
BuryProfile(k) ==
  /\ asks[k].at = "delete"
  /\ \/ /\ asks[k].id \in rows /\ Len(Buried(asks[k].id)) <= MaxProfiles
        /\ profiles' = Buried(asks[k].id) /\ rows' = rows \ {asks[k].id}
        /\ on' = (on /\ Live(profiles') # {})
        /\ Now(k, [at |-> "remove", homes |-> Candidate(asks[k].id)])
     \/ UNCHANGED <<profiles, rows, on>> /\ Finish(k)
  /\ UNCHANGED <<kind, homes, signed>>

(* quarantine_and_remove, which an error or an exit can prevent.           *)
RemoveHome(k) ==
  /\ asks[k].at = "remove"
  /\ \/ homes' = homes \ asks[k].homes /\ signed' = signed \ asks[k].homes
     \/ UNCHANGED <<homes, signed>>
  /\ Finish(k)
  /\ UNCHANGED <<kind, on, profiles, rows>>

(* assign_default_activity_owner, at the start: Claude's only profile ...  *)
ClaudeOwner == {i \in Live(profiles) : kind = "claude" /\ Live(profiles) = {i} /\ Managed(profiles[i])}

(* ... and Codex's only one with the account of the local home, of which   *)
(* any that is signed in may be the one.                                   *)
CodexOwners ==
  {i \in Live(profiles) :
     /\ kind = "codex" /\ Local \in signed /\ profiles[i].home \in signed
     /\ \A j \in Live(profiles) : ~profiles[j].owns /\ profiles[j].home # Local}

RestartProvider ==
  /\ asks' = [k \in Askers |-> [at |-> "idle"]]
  /\ \/ \E i \in ClaudeOwner \union CodexOwners : profiles' = [profiles EXCEPT ![i].owns = TRUE]
     \/ ClaudeOwner = {} /\ UNCHANGED profiles
  /\ UNCHANGED <<kind, on, homes, signed, rows>>

ProfilesNext ==
  \/ \E k \in Askers :
       ReadAccounts(k) \/ ChooseTarget(k) \/ NoTarget(k) \/ EndLogin(k) \/ BuryProfile(k) \/ RemoveHome(k)
  \/ Connect \/ RestartProvider

ProfilesSpec == ProfilesInit /\ [][ProfilesNext]_profileVars
-----------------------------------------------------------------------------
ProfilesTypeOK ==
  /\ kind \in Kinds /\ on \in BOOLEAN
  /\ Len(profiles) <= MaxProfiles
  /\ homes \subseteq ProfileIds /\ signed \subseteq ProfileIds \union {Local} /\ rows \subseteq ProfileIds \union {Default}
  /\ \A k \in Askers : asks[k].at \in {"idle", "add", "repair", "delete", "login", "remove"}

(* A directory that is to be removed belongs to no profile, so that every  *)
(* profile that is collected keeps its own: no id is ever given away twice *)
(* (unique_profile_id), however late the removal comes.                    *)
HomesKept ==
  /\ \A i \in Live(profiles) : Managed(profiles[i]) => profiles[i].home \in homes
  /\ \A k \in Askers : asks[k].at = "remove" => \A i \in Live(profiles) : profiles[i].home \notin asks[k].homes
  /\ \A i, j \in DOMAIN profiles : profiles[i].id = profiles[j].id => i = j
  /\ \A i, j \in Live(profiles) : profiles[i].home = profiles[j].home => i = j

(* An account of Claude that is named "default" takes the id of the        *)
(* implicit profile, and with it the account that was stored under it: it  *)
(* is seen as signed in, although its own home is not.                     *)
TakenOver(p) == kind = "claude" /\ p.id = Default /\ Default \in rows

Waiting == {i \in Live(profiles) :
  Managed(profiles[i]) /\ profiles[i].home \notin signed /\ ~TakenOver(profiles[i])}

(* Requests that are repeated or concurrent share the profile that waits   *)
(* for its sign-in (pending_profile), except one that TakenOver hides from *)
(* them.                                                                   *)
OnePending == Cardinality(Waiting) <= 1

(* "shared roots ... can only belong to one profile"                       *)
OneOwner == Cardinality({i \in Live(profiles) : profiles[i].owns}) <= 1

(* Adding one account leaves the others configured, the implicit one too.  *)
(* Claude's implicit one is not made explicit, and not claimed.            *)
AccountsKept ==
  kind # "claude" => \A id \in rows : on /\ \E p \in InEffect : p.id = id

ProfilesSound == HomesKept /\ OnePending /\ OneOwner /\ AccountsKept
=============================================================================
