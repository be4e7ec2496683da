--------------------------- MODULE CodexCollection ---------------------------
(***************************************************************************)
(* How the usage of Codex is collected (providers/codex/{mod,app_server,   *)
(* rate_limits}.rs).  The daemon asks the app-server of Codex, a child     *)
(* process that signs in with what it finds in the profile's home, or else *)
(* the web service, with the credentials of the profile; it adds what the  *)
(* logs of the home say.  The user may sign in as another at any moment,   *)
(* and the flight that collects may be given up.                           *)
(***************************************************************************)
EXTENDS Integers, Sequences, FiniteSets

CONSTANTS
  People,     \* who may be signed in
  Nobody,     \* no credentials, or invalid ones
  NProfiles,  \* the enabled profiles are 1..NProfiles, in their order
  Deadline,   \* CODEX_APP_SERVER_TIMEOUT
  Grace,      \* CODEX_ACCOUNT_USAGE_GRACE_TIMEOUT
  MaxTurns    \* bound on the changes of sign-ins during a flight

ASSUME CodexAssumption ==
  /\ Nobody \notin People
  /\ Deadline \in Nat /\ Grace \in Nat /\ MaxTurns \in Nat /\ NProfiles \in Nat \ {0}

VARIABLES
  homeOf, apart, flagged, \* codex_home, auth_path elsewhere, owns_default_codex_activity
  signedIn,   \* whom the credentials of each home, and the one elsewhere, name
  turns,      \* how often that has changed since the flight began
  c,          \* the collection that is under way
  x           \* its exchange with the app-server, a child process

settings == <<homeOf, apart, flagged>>
codexVars == <<settings, signedIn, turns, c, x>>

LocalHome == "local_codex_home"
Elsewhere == "auth_path"
Homes == {LocalHome, "codex_home"}
CodexRange == 1..NProfiles
NoFlight == [at |-> "idle"]
Never == -1

CodexInit ==
  /\ homeOf \in [CodexRange -> Homes] /\ flagged \in SUBSET CodexRange
  /\ apart \in {{}, {NProfiles}}
  /\ signedIn \in [Homes \union {Elsewhere} -> People \union {Nobody}]
  /\ apart = {} => signedIn[Elsewhere] = Nobody
  /\ turns = 0 /\ c = NoFlight /\ x = [at |-> "none"]
-----------------------------------------------------------------------------
(* load_credentials of a profile, and whom its home belongs to.            *)
AccountIn(file) == signedIn[file]
AuthFile(p) == IF p \in apart THEN Elsewhere ELSE homeOf[p]
Credentials(p) == AccountIn(AuthFile(p))
AnyHome(p, who) == who # Nobody
HomeIs(p, who) == who # Nobody /\ AccountIn(homeOf[p]) = who

(* The profile that reads the logs of the default home besides its own.    *)
OwnsDefaultActivity(p) ==
  /\ \A q \in CodexRange : homeOf[q] # LocalHome
  /\ p \in flagged /\ \A q \in flagged : p <= q
LogRoots(p) == {homeOf[p]} \union (IF OwnsDefaultActivity(p) THEN {LocalHome} ELSE {})

Becomes(step) == c' = step /\ UNCHANGED <<settings, signedIn, turns>>
Enters(where) == Becomes([c EXCEPT !.at = where])

(* A collection of an account, as it was discovered or is stored; given is *)
(* a history of the logs that were counted, and for whom.                  *)
Collection(who, p, kind, left, given) ==
  [at |-> IF p = 0 THEN "search" ELSE "own", who |-> who, p |-> p, kind |-> kind,
   left |-> left, next |-> 1, since |-> turns, given |-> given,
   mode |-> "none", from |-> Nobody, now |-> Nobody,
   why |-> "none", dropped |-> FALSE]
Following(left, given) ==
  IF left = <<>> THEN NoFlight
  ELSE Collection(Head(left).who, Head(left).p, "usage", Tail(left), given)
Fails == Becomes(Following(c.left, c.given))

(* collect_local_usage of a stored account, whose profile may be unknown,  *)
(* or discover_accounts, of which each account is collected in turn.       *)
Starts(flight) ==
  c.at = "idle" /\ c' = flight /\ turns' = 0 /\ UNCHANGED <<settings, signedIn>>
CollectLocal ==
  \E who \in People, p \in 0..NProfiles :
    Starts([Collection(who, p, "local", <<>>, {}) EXCEPT !.since = 0])
DiscoverHomes == Starts([at |-> "discover", next |-> 1, found |-> <<>>])
DiscoverProfile ==
  LET who == Credentials(c.next)
      duplicate == \E i \in DOMAIN c.found : c.found[i].who = who
      found == IF who = Nobody \/ duplicate THEN c.found
               ELSE Append(c.found, [who |-> who, p |-> c.next])
  IN /\ c.at = "discover"
     /\ Becomes(IF c.next < NProfiles THEN [c EXCEPT !.next = @ + 1, !.found = found]
                ELSE Following(found, {}))

(* profile_for_account: the account must still be the profile's, and no    *)
(* earlier profile's; without a profile, all are searched.                 *)
OwnProfile ==
  /\ c.at = "own"
  /\ IF Credentials(c.p) = c.who THEN Enters("earlier") ELSE Fails
EarlierProfiles ==
  /\ c.at = "earlier"
  /\ IF c.next = c.p THEN Enters(IF c.kind = "local" THEN "again" ELSE "home")
     ELSE IF Credentials(c.next) = c.who THEN Fails
     ELSE Becomes([c EXCEPT !.next = @ + 1])
SearchProfiles ==
  /\ c.at = "search"
  /\ IF Credentials(c.next) = c.who THEN Becomes([c EXCEPT !.p = c.next, !.at = "again"])
     ELSE IF Credentials(c.next) = Nobody \/ c.next = NProfiles THEN Fails
     ELSE Becomes([c EXCEPT !.next = @ + 1])
-----------------------------------------------------------------------------
(* collect_usage_from_app_server: a blocking task, which goes on when the  *)
(* flight is given up.  It is made up for by wham when it fails, unless    *)
(* the account is rate limited.                                            *)
NoExchange == [at |-> "none"]
Running == x.at # "none"
Unless(step) == Becomes(IF c.dropped THEN NoFlight ELSE step)
Falls(why) ==
  Unless([c EXCEPT !.at = "wham", !.why = IF Running /\ x.limitsAt # Never THEN why ELSE "none"])

CheckHome ==
  /\ c.at = "home"
  /\ \/ /\ HomeIs(c.p, c.who) /\ Enters("asking")
        /\ x' = [at |-> "initialize", elapsed |-> 0, limitsAt |-> Never, optional |-> 0,
                 seen |-> {c.who}]
     \/ Falls("not started") /\ UNCHANGED x

(* The replies other than the limits are optional: once these have come    *)
(* the loop waits for them only a while longer, and never past the deadline*)
Optional == 2
ResponseDeadline(at) == IF at + Grace < Deadline THEN at + Grace ELSE Deadline
Until == IF x.limitsAt = Never THEN Deadline ELSE ResponseDeadline(x.limitsAt)

Wait ==
  /\ Running /\ x.elapsed < Until
  /\ x' = [x EXCEPT !.elapsed = @ + 1] /\ UNCHANGED <<settings, signedIn, turns, c>>
Initialized ==
  x.at = "initialize" /\ x' = [x EXCEPT !.at = "replies"] /\ UNCHANGED <<settings, signedIn, turns, c>>

(* The child is killed however the exchange ends (ChildGuard).             *)
Killed == x' = NoExchange
Malformed == Running /\ Falls("malformed") /\ Killed
Refused ==
  /\ x.at = "replies" /\ x.limitsAt = Never
  /\ Falls("refused") \/ Unless(Following(c.left, c.given))
  /\ Killed

(* record, until all is there: the limits are those of someone as whom the *)
(* app-server may have signed in.                                          *)
Ends(from) == Becomes([c EXCEPT !.at = "ended", !.from = from]) /\ Killed
Records(reply, from) ==
  IF reply.limitsAt # Never /\ reply.optional = Optional THEN Ends(from)
  ELSE x' = reply /\ Becomes([c EXCEPT !.from = from])
LimitsCome ==
  /\ x.at = "replies" /\ x.limitsAt = Never
  /\ \E who \in x.seen : Records([x EXCEPT !.limitsAt = x.elapsed], who)
OptionalComes ==
  /\ x.at = "replies" /\ x.optional < Optional
  /\ Records([x EXCEPT !.optional = @ + 1], c.from)

(* It closes its output or does not answer in time: limits that have come  *)
(* are kept.                                                               *)
StopsWaiting == IF x.limitsAt = Never THEN Falls("no answer") /\ Killed ELSE Ends(c.from)
Closed == Running /\ StopsWaiting
Expired == Running /\ x.elapsed = Until /\ StopsWaiting

(* The login may have changed while the process was collecting; and what   *)
(* has come may not be understood (normalize_app_server_usage).            *)
Answered(mode) == Unless([c EXCEPT !.at = "again", !.mode = mode])
Normalize ==
  /\ c.at = "ended" /\ UNCHANGED x
  /\ \/ ~HomeIs(c.p, c.who) /\ Falls("not at home")
     \/ HomeIs(c.p, c.who) /\ (Falls("not understood") \/ Answered("app-server"))

(* collect_usage_from_wham, with the credentials that were loaded first.   *)
Wham ==
  /\ c.at = "wham" /\ UNCHANGED x
  /\ Becomes([c EXCEPT !.at = "again", !.mode = "wham", !.from = c.who]) \/ Fails
-----------------------------------------------------------------------------
(* collect_local_usage_dataset loads the credentials again, and reads the  *)
(* logs only if the home is theirs; if it cannot, that is but a warning.   *)
LoadAgain ==
  c.at = "again" /\ Becomes([c EXCEPT !.at = "logs", !.now = Credentials(c.p)]) /\ UNCHANGED x
ReadLogs ==
  /\ c.at = "logs" /\ UNCHANGED x
  /\ Becomes([c EXCEPT !.at = "answered",
                       !.given = IF HomeIs(c.p, c.now) THEN @ \union (LogRoots(c.p) \X {c.who}) ELSE @])
Return == c.at = "answered" /\ Fails /\ UNCHANGED x

GivenUp ==
  /\ c.at # "idle" /\ UNCHANGED x
  /\ IF c.at \in {"asking", "ended"} THEN ~c.dropped /\ Becomes([c EXCEPT !.dropped = TRUE])
     ELSE Becomes(NoFlight)

(* The user signs in as another, or out.                                   *)
SignInWithCodex(file, who) ==
  /\ c.at # "idle" /\ turns < MaxTurns /\ signedIn[file] # who
  /\ signedIn' = [signedIn EXCEPT ![file] = who] /\ turns' = turns + 1
  /\ x' = IF Running /\ who # Nobody /\ file = homeOf[c.p]
          THEN [x EXCEPT !.seen = @ \union {who}] ELSE x
  /\ UNCHANGED <<settings, c>>

CodexNext ==
  \/ (CollectLocal \/ DiscoverHomes \/ DiscoverProfile \/ OwnProfile \/ EarlierProfiles
      \/ SearchProfiles) /\ UNCHANGED x
  \/ CheckHome \/ Wait \/ Initialized \/ Malformed \/ Refused \/ LimitsCome \/ OptionalComes
  \/ Closed \/ Expired \/ Normalize \/ Wham \/ LoadAgain \/ ReadLogs \/ Return \/ GivenUp
  \/ \E file \in DOMAIN signedIn, who \in People \union {Nobody} : SignInWithCodex(file, who)
-----------------------------------------------------------------------------
(* Usage is stored for the account that it was served for, unless the user *)
(* signed in as another and back meanwhile.                                *)
UsageOfItsAccount ==
  c.at = "answered" /\ c.mode # "none" /\ turns - c.since < 2 => c.from = c.who

(* Limits that have come are not given up for want of an optional reply,   *)
(* nor is the answer delayed for one beyond its grace.                     *)
LimitsKept ==
  /\ c.at = "wham" => c.why \in {"none", "malformed", "not at home", "not understood"}
  /\ Running /\ x.limitsAt # Never => x.elapsed <= x.limitsAt + Grace /\ x.elapsed <= Deadline

(* While no sign-in changes an account is collected by the first of its    *)
(* profiles, and the logs of a home count for one account, who is signed   *)
(* in there if the home is the profile's own.                              *)
LogsOfOne ==
  turns = 0 /\ c.at = "answered" =>
    /\ \A q \in CodexRange : q < c.p => Credentials(q) # c.who
    /\ \A g, h \in c.given : g[1] = h[1] => g[2] = h[2]
    /\ \A g \in c.given : g = <<homeOf[c.p], c.who>> => HomeIs(c.p, c.who)

CodexTypeOK ==
  /\ homeOf \in [CodexRange -> Homes] /\ turns \in 0..MaxTurns
  /\ signedIn \in [Homes \union {Elsewhere} -> People \union {Nobody}]
  /\ Running => x.elapsed \in 0..Deadline /\ x.optional \in 0..Optional /\ x.seen \subseteq People

CodexSound == UsageOfItsAccount /\ LimitsKept /\ LogsOfOne
=============================================================================
