--------------------------- MODULE GrokCollection ---------------------------
(***************************************************************************)
(* How the usage of Grok is collected (providers/grok/{mod,rpc,web,auth,   *)
(* cookies,profile,strategy}.rs): the agent of the CLI is asked over its   *)
(* stdio, signed in with the home of the profile, and else grok.com, with  *)
(* the token of that home.  Only the default profile may use the cookies   *)
(* of the browser as well, of which one is cached in the Keychain.         *)
(*                                                                         *)
(* What the daemon makes of what Grok says of an account: the billing of   *)
(* the CLI (providers/grok/billing.rs), the fields found in the protobuf   *)
(* of grok.com (web.rs), whose schema is not known, and the sessions on    *)
(* this disk (local_sessions.rs).  Times are days.                         *)
(***************************************************************************)
EXTENDS Integers, FiniteSets, Sequences, SequencesExt, FiniteSetsExt

CONSTANTS
  Holders,   \* the accounts of Grok
  NoHolder,  \* nobody is signed in
  MaxShifts  \* bound on what others change, and on requests that fail

Placeholder == "grok_default"   \* known by no account of its own

ASSUME GrokAssumption == NoHolder \notin Holders /\ Placeholder \notin Holders /\ MaxShifts \in Nat

VARIABLES
  mode,      \* source_mode
  given,     \* the cookie header that is configured
  cliWorks,  \* the CLI is installed and answers
  home,      \* whom auth.json of each profile names
  bearer,    \* what its access token is worth
  chrome,    \* the cookies of the profiles of Chrome
  locked,    \* the Keychain gives nothing away
  accepted,  \* the cookies that grok.com accepts
  cached,    \* the cookie in the Keychain's cache
  recent,    \* what was imported not long ago (BrowserSessionCache)
  errand,    \* the discovery or collection that is under way
  shifts

setup == <<mode, given, cliWorks>>
signIns == <<home, bearer, chrome, locked, accepted>>
caches == <<cached, recent>>
grokVars == <<setup, signIns, caches, errand, shifts>>

GrokProfiles == {"default", "managed"}
NoCookie == 0
Invalid == -1     \* a header without sso
Cookies == 1..3
Nothing == [at |-> "idle"]

GrokInit ==
  /\ mode \in {"auto", "cli", "web"} /\ given \in {NoCookie, Invalid, 3}
  /\ cliWorks \in BOOLEAN
  /\ home \in [GrokProfiles -> Holders \union {NoHolder}]
  /\ bearer \in [GrokProfiles -> {"good", "rejected", "expired"}]
  /\ \A p \in GrokProfiles : home[p] = NoHolder => bearer[p] = "expired"
  /\ chrome \in {<<>>, <<1, 2>>} /\ accepted \in {{}, {2}, Cookies}
  /\ cached \in {NoCookie, 1} /\ locked = FALSE /\ recent = <<>>
  /\ mode = "web" => ~cliWorks   \* what the mode never looks at is fixed
  /\ mode = "cli" => given = NoCookie /\ cached = NoCookie /\ chrome = <<>> /\ accepted = {}
  /\ errand = Nothing /\ shifts = 0
-----------------------------------------------------------------------------
UsesCli == mode # "web"
UsesWeb == mode # "cli"
AllowsBrowser(p) == p = "default"

ErrandIs(next) == errand' = next /\ UNCHANGED <<setup, signIns, caches, shifts>>

(* discover_accounts: the profiles that are signed in; and the default one *)
(* if there are cookies for it, or else once Chrome has been looked at.    *)
AccountOf(p) == [p |-> p, who |-> IF home[p] = NoHolder THEN Placeholder ELSE home[p]]
Deduplicated(found) ==
  {a \in found : ~(a.p = "managed" /\ \E b \in found : b.p = "default" /\ b.who = a.who)}
Discovered(found) == [at |-> "found", accounts |-> Deduplicated(found)]
DiscoverGrok ==
  /\ errand.at = "idle"
  /\ LET known == {AccountOf(p) : p \in {p \in GrokProfiles : home[p] # NoHolder}}
         configured == UsesWeb /\ (given \in Cookies \/ (cached # NoCookie /\ ~locked))
     IN ErrandIs(IF home["default"] = NoHolder /\ configured
                THEN Discovered(known \union {AccountOf("default")})
                ELSE IF home["default"] = NoHolder /\ UsesWeb /\ given = NoCookie
                THEN [at |-> "import", accounts |-> known]
                ELSE Discovered(known))

(* import_browser_candidates keeps what it read for some seconds.          *)
Imported == IF locked THEN <<>> ELSE chrome
Remembered == IF locked THEN recent ELSE chrome
ImportForDiscovery ==
  /\ errand.at = "import" /\ recent' = Remembered
  /\ errand' = Discovered(errand.accounts \union
                        (IF Imported = <<>> THEN {} ELSE {[p |-> "default", who |-> Placeholder]}))
  /\ UNCHANGED <<setup, signIns, cached, shifts>>
-----------------------------------------------------------------------------
(* collect_usage of an account, whose profile must not be signed in as     *)
(* another's by now; its token is used as long as it has not expired.      *)
Asking(a) ==
  [at |-> "own", a |-> a, token |-> NoHolder, left |-> <<>>, tried |-> {}, stage |-> "none",
   of |-> NoHolder, cookie |-> NoCookie, calm |-> TRUE]
ErrandFails == ErrandIs([errand EXCEPT !.at = "failed"])
CollectGrok == errand.at = "found" /\ \E a \in errand.accounts : ErrandIs(Asking(a))
AnyHolder(a) == TRUE
SameHolder(a) == a.who = Placeholder \/ home[a.p] \in {NoHolder, a.who}
OwnCredentials ==
  /\ errand.at = "own"
  /\ IF ~SameHolder(errand.a) THEN ErrandFails
     ELSE ErrandIs([errand EXCEPT !.at = IF UsesCli THEN "initialize" ELSE "web",
                     !.token = IF bearer[errand.a.p] = "expired" THEN NoHolder ELSE home[errand.a.p]])

(* run_rpc: a child process with the home of the profile is initialised,   *)
(* signs in and is asked, each within its time; then it is killed.         *)
InRpc == errand.at \in {"initialize", "authenticate", "billing"}
AfterRpc(then) == [errand EXCEPT !.at =
  CASE errand.at = "initialize" -> "authenticate" [] errand.at = "authenticate" -> "billing" [] OTHER -> then]
FallsBack == IF mode = "auto" THEN "web" ELSE "failed"
Rpc ==
  /\ InRpc
  /\ LET who == home[errand.a.p] IN
     IF ~cliWorks \/ (errand.at = "billing" /\ who = NoHolder) THEN ErrandIs([errand EXCEPT !.at = FallsBack])
     ELSE ErrandIs([AfterRpc("collected") EXCEPT !.of = who])
-----------------------------------------------------------------------------
(* collect_web: with each cookie the token is tried first, and the token   *)
(* alone at the end.  A managed profile has only that.                     *)
Attempt(token, cookie) == [token |-> token, cookie |-> cookie]
Attempts(cookies) ==
  IF errand.token = NoHolder THEN [i \in 1..Len(cookies) |-> Attempt(NoHolder, cookies[i])]
  ELSE [i \in 1..(2 * Len(cookies)) |->
          Attempt(IF i % 2 = 1 THEN errand.token ELSE NoHolder, cookies[(i + 1) \div 2])]
TokenAlone == IF errand.token = NoHolder THEN <<>> ELSE <<Attempt(errand.token, NoCookie)>>

Tries(stage, attempts) == [errand EXCEPT !.at = "try", !.stage = stage, !.left = attempts]
WebStart ==
  /\ errand.at = "web"
  /\ IF ~AllowsBrowser(errand.a.p) THEN ErrandIs(Tries("token", TokenAlone))
     ELSE IF given = Invalid THEN ErrandFails
     ELSE ErrandIs(CASE given # NoCookie -> Tries("given", Attempts(<<given>>) \o TokenAlone)
                    [] given = NoCookie /\ recent # <<>> -> Tries("recent", Attempts(recent) \o TokenAlone)
                    [] given = NoCookie /\ recent = <<>> /\ cached # NoCookie /\ ~locked
                         -> Tries("cached", Attempts(<<cached>>) \o TokenAlone)
                    [] OTHER -> [errand EXCEPT !.at = "import_first"])

(* The cookies of Chrome, if there are no others, or if the cached one was *)
(* of no use, which is forgotten first.                                    *)
ImportFirst ==
  /\ errand.at = "import_first" /\ recent' = Remembered
  /\ errand' = Tries("imported", Attempts(Imported) \o TokenAlone)
  /\ UNCHANGED <<setup, signIns, cached, shifts>>
Kept(cookie) == IF locked THEN cached ELSE cookie
ImportsAgain == errand.stage = "cached"
ImportAgain ==
  /\ errand.at = "try" /\ errand.left = <<>> /\ ImportsAgain
  /\ cached' = Kept(NoCookie) /\ recent' = Remembered
  /\ errand' = Tries("imported", Attempts(Imported)) /\ UNCHANGED <<setup, signIns, shifts>>

(* fetch: what is rejected gives way to the next attempt; a cookie of the  *)
(* browser that works is kept in the Keychain.                             *)
TokenWorks(a) == a.token # NoHolder /\ bearer[errand.a.p] = "good" /\ home[errand.a.p] = a.token
Works(a) == TokenWorks(a) \/ (a.token = NoHolder /\ a.cookie \in accepted)
Ask ==
  LET a == Head(errand.left) IN
  /\ errand.at = "try" /\ errand.left # <<>>
  /\ IF Works(a)
     THEN /\ errand' = [errand EXCEPT !.at = "collected", !.of = a.token, !.cookie = a.cookie]
          /\ cached' = IF errand.stage \in {"imported", "recent"} /\ a.cookie # NoCookie
                       THEN Kept(a.cookie) ELSE cached
     ELSE /\ errand' = [errand EXCEPT !.left = Tail(@), !.tried = @ \union {a.cookie}]
          /\ UNCHANGED cached
  /\ UNCHANGED <<setup, signIns, recent, shifts>>
GiveUp == errand.at = "try" /\ errand.left = <<>> /\ ~ImportsAgain /\ ErrandFails
-----------------------------------------------------------------------------
(* Others: requests that are lost or rate limited, whom the homes and the  *)
(* browser are signed in as, the Keychain being locked; and time.          *)
Shift == shifts < MaxShifts /\ shifts' = shifts + 1
Stirred == IF "calm" \in DOMAIN errand THEN [errand EXCEPT !.calm = FALSE] ELSE errand
Requested == InRpc \/ (errand.at = "try" /\ errand.left # <<>>)
RequestLimited ==
  /\ Shift /\ Requested /\ errand' = [Stirred EXCEPT !.at = "failed"]
  /\ UNCHANGED <<setup, signIns, caches>>
RequestLost ==
  /\ Shift /\ Requested /\ UNCHANGED <<setup, signIns, caches>>
  /\ errand' = IF InRpc THEN [Stirred EXCEPT !.at = FallsBack] ELSE [Stirred EXCEPT !.left = Tail(@)]
HomeChanges(p, who) ==
  /\ Shift /\ home[p] # who /\ home' = [home EXCEPT ![p] = who] /\ errand' = Stirred
  /\ bearer' = [bearer EXCEPT ![p] = IF who = NoHolder THEN "expired" ELSE "good"]
  /\ UNCHANGED <<setup, caches, chrome, locked, accepted>>
BrowserChanges ==
  /\ Shift /\ errand' = Stirred /\ UNCHANGED <<setup, caches, home, bearer>>
  /\ \/ \E c \in accepted : accepted' = accepted \ {c} /\ UNCHANGED <<chrome, locked>>
     \/ chrome' = <<2>> /\ accepted' = accepted \union {2} /\ UNCHANGED locked
     \/ locked' = ~locked /\ UNCHANGED <<chrome, accepted>>
TimePasses == recent # <<>> /\ recent' = <<>> /\ UNCHANGED <<setup, signIns, cached, errand, shifts>>
GrokDone == errand.at \in {"collected", "failed", "found"} /\ ErrandIs(Nothing)

GrokNext ==
  \/ DiscoverGrok \/ ImportForDiscovery \/ CollectGrok \/ OwnCredentials \/ Rpc \/ WebStart
  \/ ImportFirst \/ ImportAgain \/ Ask \/ GiveUp
  \/ RequestLimited \/ RequestLost \/ BrowserChanges \/ TimePasses \/ GrokDone
  \/ \E p \in GrokProfiles, who \in Holders \union {NoHolder} : HomeChanges(p, who)
-----------------------------------------------------------------------------
(* A managed profile is collected as itself: never with the browser's      *)
(* cookies, and with a token only of whom it was discovered as; of the CLI *)
(* that holds unless its home changed hands during the collection.         *)
ManagedAsItself ==
  (errand.at = "collected" /\ errand.a.p = "managed") =>
    /\ errand.cookie = NoCookie
    /\ errand.stage = "token" \/ errand.calm => errand.of = errand.a.who

(* A collection fails, while nobody interferes, only if none of the        *)
(* sources that its mode permits would have answered: neither the CLI, nor *)
(* the token, nor a cookie that the profile may use (collect_web).  A      *)
(* configured header without sso counts as what the user wants.            *)
NoSourcePassedOver ==
  (errand.at = "failed" /\ errand.calm /\ SameHolder(errand.a)) =>
    LET p == errand.a.p IN
    /\ ~(UsesCli /\ cliWorks /\ home[p] # NoHolder)
    /\ (UsesWeb /\ ~(AllowsBrowser(p) /\ given = Invalid)) =>
         /\ bearer[p] # "good"
         /\ (AllowsBrowser(p) /\ given # NoCookie) => given \notin accepted
         /\ (AllowsBrowser(p) /\ given = NoCookie /\ errand.stage # "recent" /\ ~locked) =>
              ToSet(chrome) \intersect accepted = {} /\ cached \notin accepted

(* An explicit cookie is never bypassed, and a cached one that was of no   *)
(* use is not kept by a collection that failed.                            *)
CookiesInOrder ==
  /\ (errand.at = "collected" /\ given # NoCookie) => errand.cookie \in {NoCookie, given}
  /\ (errand.at = "failed" /\ errand.calm /\ errand.stage = "imported" /\ ~locked) => cached \notin errand.tried \ {NoCookie}

GrokSound == ManagedAsItself /\ NoSourcePassedOver /\ CookiesInOrder
-----------------------------------------------------------------------------
CONSTANTS MaxDays,     \* how long the same answer is looked at
          MaxSessions  \* files of sessions that are read (MAX_SESSIONS)

ASSUME GrokReportsAssumption == MaxDays \in Nat /\ MaxSessions \in Nat \ {0}

VARIABLES bill,   \* what is said
          seenOn  \* when it is normalised

grokReportVars == <<bill, seenOn>>

None == -1000
Period == <<1, 5, 1>>
Lasting == {7, 15, 30}   \* days of a billing cycle
Amount(of, cap) == [of |-> of, cap |-> cap]
(* What the CLI says: cents, where there may be none, and the cycle.       *)
RpcBills ==
  [from : {"cli"}, included : {Amount(u, l) : u \in {None, -1, 1, 5}, l \in {None, 0, 4}},
   total : {None, 2}, onDemand : {Amount(u, l) : u \in {None, -1, 1, 3}, l \in {None, 0, 2}},
   start : {None, 0}, end : {None} \union Lasting]
(* What the web says: fields that hold a number or a time, by their path.  *)
Field(path, is, value) == [path |-> path, is |-> is, value |-> value]
Fields ==
  {Field(p, "number", v) : p \in {<<1>>, <<1, 1>>, <<1, 2>>, <<1, 1, 1, 1, 1, 1>>}, v \in {-1, 40, 60}}
    \union {Field(Period, "time", v) : v \in Lasting \union {1}} \union {Field(<<1, 4>>, "time", v) : v \in {0, 2, 9}}
WebBills == [from : {"web"}, framing : {"framed", "raw"}, fields : SeqOf(Fields, 3)] \union
            [from : {"web"}, framing : {"damaged"}, fields : {<<>>}]
(* What the disk holds: files, of which some are too big, and the days on  *)
(* which they were written and which they name.                            *)
GrokFiles == [written : {-40, -1, 0}, names : {None, -50, -2, 5}, big : BOOLEAN, model : {"m", "n", "none"}]
DiskBills == [from : {"disk"}, files : UNION {[1..n -> GrokFiles] : n \in 0..2}]

GrokReportsInit == bill \in RpcBills \union WebBills \union DiskBills /\ seenOn = 0
-----------------------------------------------------------------------------
Clamp(x, low, high) == IF x < low THEN low ELSE IF x > high THEN high ELSE x
Failed == [made |-> FALSE]
Billing(percent, start, end, onDemand) ==
  [made |-> TRUE, percent |-> percent, start |-> start, end |-> end, onDemand |-> onDemand]

(* from_rpc                                                                *)
Included == IF bill.included.of # None THEN bill.included.of ELSE bill.total
FromRpc ==
  IF Included = None \/ Included < 0 \/ bill.included.cap = None \/ bill.included.cap <= 0 THEN Failed
  ELSE Billing(Clamp((Included * 100) \div bill.included.cap, 0, 100), bill.start, bill.end, bill.onDemand)

(* parse_response: the first percentage of those least deep, and times;    *)
(* none at all is used if there is a period of usage.                      *)
Scanned == SelectSeq(bill.fields, LAMBDA f : Len(f.path) <= 5)
Percentages == {i \in DOMAIN Scanned :
  LET f == Scanned[i] IN f.is = "number" /\ Last(f.path) = 1 /\ f.value \in 0..100}
FirstOfLeastDepth ==
  CHOOSE i \in Percentages : \A j \in Percentages :
    \/ Len(Scanned[i].path) < Len(Scanned[j].path)
    \/ Len(Scanned[i].path) = Len(Scanned[j].path) /\ i <= j
Times(test(_)) == {f.value : f \in {f \in ToSet(Scanned) : f.is = "time" /\ test(f)}}
Ahead(now) == Times(LAMBDA f : f.value > now)
PeriodEnds(now) == Times(LAMBDA f : f.value > now /\ f.path = Period)
ResetAt(now) ==
  IF PeriodEnds(now) # {} THEN Min(PeriodEnds(now)) ELSE IF Ahead(now) # {} THEN Min(Ahead(now)) ELSE None
PeriodStart(now) ==
  LET past == Times(LAMBDA f : f.value <= now) IN IF past = {} THEN None ELSE Max(past)
NamesPeriod == \E f \in ToSet(Scanned) : f.is = "time" /\ f.path = Period
FromWeb(now) ==
  IF bill.framing = "damaged" THEN Failed
  ELSE IF Percentages # {}
  THEN Billing(Scanned[FirstOfLeastDepth].value, PeriodStart(now), ResetAt(now), Amount(None, None))
  ELSE IF ResetAt(now) # None /\ NamesPeriod
  THEN Billing(0, PeriodStart(now), ResetAt(now), Amount(None, None))
  ELSE Failed

(* detect_cycle: by the length of the cycle, or how far its end is.        *)
Weekly == 4..12
Monthly == 20..45
ByDays(days) == IF days \in Weekly THEN "weekly" ELSE IF days \in Monthly THEN "monthly" ELSE "unknown"
ByDistance(b, now) == IF b.end = None THEN "unknown" ELSE ByDays(b.end - now)
DetectCycle(b, now) ==
  IF b.start # None /\ b.end # None /\ ByDays(b.end - b.start) # "unknown"
  THEN ByDays(b.end - b.start) ELSE ByDistance(b, now)

(* to_provider_usage                                                       *)
GrokWindow(id, percent, kind) == [id |-> id, percent |-> percent, kind |-> kind]
Windows(b, now) ==
  LET cycle == DetectCycle(b, now)
      kind == IF cycle # "unknown" THEN cycle ELSE IF bill.from = "web" THEN "weekly" ELSE "monthly"
      spent == IF b.onDemand.of = None \/ b.onDemand.of < 0 THEN 0 ELSE b.onDemand.of
  IN {GrokWindow("included", b.percent, kind)} \union
     (IF b.onDemand.cap # None /\ b.onDemand.cap > 0
      THEN {GrokWindow("on_demand", Clamp((spent * 100) \div b.onDemand.cap, 0, 100), kind)} ELSE {})
Billed(now) == IF bill.from = "cli" THEN FromRpc ELSE FromWeb(now)

(* scan: the newest files are read, and those used not long ago counted;   *)
(* the model is the one of the last session that names any.                *)
SessionDays == 30
Recent(i) == ~bill.files[i].big /\ bill.files[i].written >= seenOn - SessionDays
Readings == {s \in SUBSET {i \in DOMAIN bill.files : Recent(i)} :
  /\ Cardinality(s) = Min({MaxSessions, Cardinality({i \in DOMAIN bill.files : Recent(i)})})
  /\ \A i \in s, j \in DOMAIN bill.files \ s : Recent(j) => bill.files[i].written >= bill.files[j].written}
ObservedAt(i) == IF bill.files[i].names = None THEN bill.files[i].written ELSE bill.files[i].names
Counted(read) == {i \in read : ObservedAt(i) >= seenOn - SessionDays /\ ObservedAt(i) <= seenOn + 1}
Latest(read) ==
  LET named == {i \in Counted(read) : bill.files[i].model # "none"}
  IN {bill.files[i].model : i \in {i \in named : \A j \in named : ObservedAt(j) <= ObservedAt(i)}}

DayPasses == seenOn < MaxDays /\ seenOn' = seenOn + 1 /\ UNCHANGED bill
-----------------------------------------------------------------------------
(* What is reported of the billing does not depend on when it is looked at *)
(* while the cycle lasts: its kind, if both ends of it are known.  A reset *)
(* lies ahead, and no number is taken for the percentage that is not one.  *)
BillTold == Billed(seenOn)
KindSteady ==
  bill.from = "cli" /\ BillTold.made /\ BillTold.start # None /\ BillTold.end # None /\ BillTold.end - BillTold.start # 15 =>
    \A w \in Windows(BillTold, seenOn) : w.kind = IF BillTold.end - BillTold.start = 7 THEN "weekly" ELSE "monthly"
ResetsAhead == bill.from = "web" /\ BillTold.made /\ BillTold.end # None => BillTold.end > seenOn
PercentSaid ==
  bill.from = "web" /\ BillTold.made =>
    IF BillTold.percent = 0 THEN NamesPeriod /\ BillTold.end # None
    ELSE \E f \in ToSet(bill.fields) : f.is = "number" /\ Last(f.path) = 1 /\ f.value = BillTold.percent
Bounded == bill.from # "disk" /\ BillTold.made => \A w \in Windows(BillTold, seenOn) : w.percent \in 0..100

(* What is read of the disk is of the last thirty days, whichever files    *)
(* the cap leaves out: none is counted that is older than one it omits,    *)
(* and which model was used last is not left to the order of the files.    *)
SessionsRecent ==
  bill.from = "disk" => \A read \in Readings :
    /\ \A i \in Counted(read), j \in DOMAIN bill.files \ read :
         ~bill.files[i].big /\ (Recent(j) => bill.files[j].written <= bill.files[i].written)
    /\ Cardinality(Latest(read)) > 1 =>
         \E i, j \in Counted(read) : i # j /\ ObservedAt(i) = ObservedAt(j)

BillingTrue == KindSteady /\ ResetsAhead /\ PercentSaid /\ Bounded /\ SessionsRecent
=============================================================================
