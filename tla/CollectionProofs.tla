-------------------------- MODULE CollectionProofs --------------------------
(***************************************************************************)
(* Proofs about what the collectors of the providers and the scan of the   *)
(* local logs do in a refresh (MCCollecting): that what is collected of an *)
(* account is that account's and no source of it is passed over (Codex,    *)
(* Grok, OpenCode); that a history of OpenCode which is said to be         *)
(* complete is; and that the cache of the logs takes no file for read that *)
(* is not.                                                                 *)
(***************************************************************************)
EXTENDS MCCollecting, RefreshJobsProofs, SequenceTheorems, FiniteSetTheorems, TLAPS

(* Codex.  The stages of a collection, its types, and those of its         *)
(* exchange with the app-server, which is alive at one stage only.         *)
CodexStages == {"search", "own", "earlier", "home", "asking", "ended", "wham", "again", "logs", "answered"}
CodexReasons == {"none", "not started", "malformed", "refused", "no answer", "not at home", "not understood"}
CodexEntry == [who : People, p : CodexRange]
Discovery == [at : {"discover"}, next : CodexRange, found : Seq(CodexEntry)]
CodexCollecting ==
  [at : CodexStages, who : People, p : 0..NProfiles, kind : {"usage", "local"}, left : Seq(CodexEntry),
   next : CodexRange, since : 0..MaxTurns, given : SUBSET (Homes \X People),
   mode : {"none", "wham", "app-server"}, from : People \union {Nobody},
   now : People \union {Nobody}, why : CodexReasons, dropped : BOOLEAN]
Exchange ==
  [at : {"initialize", "replies"}, elapsed : 0..Deadline, limitsAt : {Never} \union 0..Deadline,
   optional : 0..Optional, seen : SUBSET People]

SettingsShape ==
  /\ homeOf \in [CodexRange -> Homes] /\ flagged \in SUBSET CodexRange /\ apart \in SUBSET CodexRange
  /\ signedIn \in [Homes \union {Elsewhere} -> People \union {Nobody}]
  /\ turns \in 0..MaxTurns
CodexShape ==
  /\ c \in {NoFlight} \union Discovery \union CodexCollecting
  /\ x \in {NoExchange} \union Exchange
  /\ Running <=> c.at = "asking"
  /\ c \in CodexCollecting =>
       /\ c.at # "search" => c.p # 0
       /\ c.at = "own" => c.next = 1
       /\ c.at = "earlier" => c.next <= c.p
       /\ c.since <= turns
       /\ c.at \notin {"again", "logs", "answered"} => c.mode = "none"
       /\ c.at = "wham" => c.why \in {"none", "malformed"}

(* Whoever else the app-server may have signed in as signed in at the home *)
(* since the collection began; if the account is back there, that took     *)
(* two changes.                                                            *)
Since == turns - c.since
AwayFor(n) == Since >= n /\ (signedIn[homeOf[c.p]] = c.who => Since >= n + 1)
AnswersKnown ==
  /\ c.at = "asking" =>
       /\ c.who \in x.seen
       /\ \A y \in x.seen : y # c.who => AwayFor(1)
       /\ signedIn[homeOf[c.p]] # c.who => Since >= 1
       /\ x.limitsAt # Never => x.at = "replies" /\ c.from \in x.seen /\ x.elapsed <= x.limitsAt + Grace
  /\ c.at = "ended" /\ c.from # c.who => AwayFor(1)
  /\ c.at \in {"again", "logs", "answered"} /\ c.mode # "none" /\ c.from # c.who => Since >= 2

(* While no sign-in changes: whose profile it is, and which logs count.    *)
NotBefore(p, who) == \A q \in CodexRange : q < p => Credentials(q) # who
FirstKnown ==
  turns = 0 =>
    /\ c.at \in CodexStages \ {"search", "own"} => Credentials(c.p) = c.who
    /\ c.at \in {"search", "earlier"} => NotBefore(c.next, c.who)
    /\ c.at \in CodexStages \ {"search", "own", "earlier"} => NotBefore(c.p, c.who)
    /\ c.at = "logs" => c.now = c.who
CountedFor(g) ==
  \/ \E q \in CodexRange : homeOf[q] = g[1] /\ signedIn[g[1]] = g[2]
  \/ g[1] = LocalHome /\ \E q \in CodexRange : OwnsDefaultActivity(q) /\ Credentials(q) = g[2]
GivenKnown == turns = 0 /\ c.at \in CodexStages => \A g \in c.given : CountedFor(g)

CodexInv == SettingsShape /\ CodexShape /\ AnswersKnown /\ FirstKnown /\ GivenKnown
CodexSpec == CodexInit /\ [][CodexNext]_codexVars

(* What a step says of the sign-ins when it changes none.                  *)
LEMMA SettingsStay ==
  ASSUME SettingsShape, UNCHANGED <<settings, signedIn, turns>>
  PROVE  /\ SettingsShape'
         /\ homeOf' = homeOf /\ signedIn' = signedIn /\ turns' = turns
         /\ \A p : Credentials(p)' = Credentials(p)
         /\ \A p, who : HomeIs(p, who)' <=> HomeIs(p, who)
         /\ \A p, who : NotBefore(p, who)' <=> NotBefore(p, who)
         /\ \A g : CountedFor(g)' <=> CountedFor(g)
<1>1. UNCHANGED <<homeOf, apart, flagged, signedIn, turns>>
  BY DEF settings
<1>2. SettingsShape'
  BY <1>1 DEF SettingsShape
<1>3. \A p : Credentials(p)' = Credentials(p)
  BY <1>1 DEF Credentials, AccountIn, AuthFile
<1>4. \A p, who : HomeIs(p, who)' <=> HomeIs(p, who)
  BY <1>1 DEF HomeIs, AccountIn
<1>5. \A p, who : NotBefore(p, who)' <=> NotBefore(p, who)
  BY <1>3 DEF NotBefore
<1>6. \A p : OwnsDefaultActivity(p)' <=> OwnsDefaultActivity(p)
  BY <1>1 DEF OwnsDefaultActivity
<1>7. \A g : CountedFor(g)' <=> CountedFor(g)
  BY <1>1, <1>3, <1>6 DEF CountedFor
<1> QED
  BY <1>1, <1>2, <1>3, <1>4, <1>5, <1>7

(* A stage tells what is under way.                                        *)
LEMMA StageTells ==
  ASSUME CodexShape
  PROVE  /\ c.at \in CodexStages <=> c \in CodexCollecting
         /\ c.at = "discover" <=> c \in Discovery
         /\ c.at = "idle" <=> c = NoFlight
         /\ Running <=> x \in Exchange
         /\ ~Running <=> x = NoExchange
BY DEF CodexShape, CodexStages, CodexCollecting, Discovery, NoFlight, Exchange, NoExchange, Running

LEMMA FlightEnds ==
  ASSUME CodexInv, UNCHANGED <<settings, signedIn, turns>>, c' = NoFlight, x' = NoExchange
  PROVE  CodexInv'
<1>1. SettingsShape'
  BY SettingsStay DEF CodexInv
<1>2. c'.at = "idle" /\ c' \notin CodexCollecting /\ ~Running'
  BY DEF NoFlight, NoExchange, CodexCollecting, Running
<1>3. CodexShape'
  BY <1>2 DEF CodexShape
<1> QED
  BY <1>1, <1>2, <1>3 DEF CodexInv, AnswersKnown, FirstKnown, GivenKnown, CodexStages

(* The next account of a discovery, or nothing.                            *)
LEMMA FollowingKnown ==
  ASSUME CodexInv, UNCHANGED <<settings, signedIn, turns>>,
         NEW left \in Seq(CodexEntry), NEW counts \in SUBSET (Homes \X People),
         turns = 0 => \A g \in counts : CountedFor(g),
         c' = Following(left, counts), x' = NoExchange
  PROVE  CodexInv'
<1>1. CASE left = <<>>
  BY <1>1, FlightEnds DEF Following
<1>2. CASE left # <<>>
  <2>1. Head(left) \in CodexEntry /\ Tail(left) \in Seq(CodexEntry)
    BY <1>2
  <2>2. SettingsShape' /\ turns' = turns /\ \A g : CountedFor(g)' <=> CountedFor(g)
    BY SettingsStay DEF CodexInv
  <2>3. PICK who \in People, p \in CodexRange : who = Head(left).who /\ p = Head(left).p
    BY <2>1 DEF CodexEntry
  <2>4. p # 0 /\ NProfiles \in Nat \ {0} /\ p \in 0..NProfiles /\ 1 \in CodexRange
    BY <2>3, CodexAssumption DEF CodexRange
  <2>5. c' = [at |-> "own", who |-> who, p |-> p, kind |-> "usage",
              left |-> Tail(left), next |-> 1, since |-> turns, given |-> counts,
              mode |-> "none", from |-> Nobody, now |-> Nobody, why |-> "none", dropped |-> FALSE]
    BY <1>2, <2>3, <2>4 DEF Following, Collection
  <2>6. turns \in 0..MaxTurns
    BY DEF CodexInv, SettingsShape
  <2>7. c' \in CodexCollecting
    BY <2>1, <2>4, <2>5, <2>6 DEF CodexCollecting, CodexStages, CodexReasons
  <2>8. ~Running'
    BY DEF NoExchange, Running
  <2>9. CodexShape'
    BY <2>2, <2>4, <2>5, <2>6, <2>7, <2>8 DEF CodexShape
  <2> QED
    BY <2>2, <2>5, <2>9 DEF CodexInv, AnswersKnown, FirstKnown, GivenKnown, CodexStages
<1> QED
  BY <1>1, <1>2

LEMMA CodexStarts == CodexInit => CodexInv
<1> SUFFICES ASSUME CodexInit PROVE CodexInv
  OBVIOUS
<1>1. NProfiles \in CodexRange /\ 0 \in 0..MaxTurns
  BY CodexAssumption DEF CodexRange
<1>2. SettingsShape
  BY <1>1 DEF CodexInit, SettingsShape
<1>3. c.at = "idle" /\ c \notin CodexCollecting /\ ~Running /\ c = NoFlight /\ x = NoExchange
  BY DEF CodexInit, NoFlight, NoExchange, CodexCollecting, Running
<1>4. CodexShape
  BY <1>3 DEF CodexShape
<1> QED
  BY <1>2, <1>3, <1>4 DEF CodexInv, AnswersKnown, FirstKnown, GivenKnown, CodexStages

LEMMA StartsKeep ==
  ASSUME CodexInv, CollectLocal \/ DiscoverHomes, UNCHANGED x
  PROVE  CodexInv'
<1>1. c.at = "idle" /\ turns' = 0 /\ UNCHANGED <<homeOf, apart, flagged, signedIn, x>>
  BY DEF CollectLocal, DiscoverHomes, Starts, settings
<1>2. x' = NoExchange /\ ~Running'
  BY <1>1, StageTells DEF CodexInv, CodexShape, NoExchange, Running
<1>3. SettingsShape'
  BY <1>1, CodexAssumption DEF CodexInv, SettingsShape
<1>4. 1 \in CodexRange
  BY CodexAssumption DEF CodexRange
<1>5. CASE DiscoverHomes
  <2>1. c' = [at |-> "discover", next |-> 1, found |-> <<>>]
    BY <1>5 DEF DiscoverHomes, Starts
  <2>2. c' \in Discovery /\ c' \notin CodexCollecting
    BY <1>4, <2>1 DEF Discovery, CodexCollecting, CodexStages
  <2> QED
    BY <1>2, <1>3, <2>1, <2>2 DEF CodexInv, CodexShape, AnswersKnown, FirstKnown, GivenKnown, CodexStages
<1>6. CASE CollectLocal
  <2>1. PICK who \in People, p \in 0..NProfiles :
          c' = [at |-> IF p = 0 THEN "search" ELSE "own", who |-> who, p |-> p, kind |-> "local",
                left |-> <<>>, next |-> 1, since |-> 0, given |-> {},
                mode |-> "none", from |-> Nobody, now |-> Nobody, why |-> "none", dropped |-> FALSE]
    BY <1>6, ZenonT(60) DEF CollectLocal, Starts, Collection
  <2>2. <<>> \in Seq(CodexEntry) /\ 0 \in 0..MaxTurns
    BY CodexAssumption
  <2>3. c' \in CodexCollecting
    BY <1>4, <2>1, <2>2 DEF CodexCollecting, CodexStages, CodexReasons
  <2>4. c'.at \in {"search", "own"} /\ (c'.at # "search" => c'.p # 0) /\ c'.next = 1 /\ c'.given = {}
        /\ c'.since = 0 /\ c'.mode = "none"
    BY <2>1
  <2>5. CodexShape'
    BY <1>1, <1>2, <2>3, <2>4 DEF CodexShape
  <2>6. \A q \in CodexRange : ~(q < 1)
    BY DEF CodexRange
  <2> QED
    BY <1>3, <2>4, <2>5, <2>6 DEF CodexInv, AnswersKnown, FirstKnown, GivenKnown, NotBefore, CodexStages
<1> QED
  BY <1>5, <1>6

LEMMA DiscoverProfileKeeps ==
  ASSUME CodexInv, DiscoverProfile, UNCHANGED x
  PROVE  CodexInv'
<1>1. c \in Discovery /\ c.at = "discover" /\ UNCHANGED <<settings, signedIn, turns>>
  BY StageTells DEF CodexInv, DiscoverProfile, Becomes
<1>2. x' = NoExchange /\ ~Running'
  BY <1>1, StageTells DEF CodexInv, CodexShape, NoExchange, Running
<1> DEFINE who == Credentials(c.next)
           kept == IF who = Nobody \/ \E i \in DOMAIN c.found : c.found[i].who = who THEN c.found
                    ELSE Append(c.found, [who |-> who, p |-> c.next])
<1>3. c.next \in CodexRange /\ c.found \in Seq(CodexEntry)
  BY <1>1 DEF Discovery
<1>4. who \in People \union {Nobody}
  BY <1>3 DEF CodexInv, SettingsShape, Credentials, AccountIn, AuthFile
<1>5. kept \in Seq(CodexEntry)
  <2>1. CASE kept = c.found
    BY <1>3, <2>1
  <2>2. CASE kept # c.found
    <3>1. kept = Append(c.found, [who |-> who, p |-> c.next]) /\ who # Nobody
      BY <2>2
    <3>2. [who |-> who, p |-> c.next] \in CodexEntry
      BY <1>3, <1>4, <3>1 DEF CodexEntry
    <3> HIDE DEF kept, who
    <3> QED
      BY <1>3, <3>1, <3>2
  <2> QED
    BY <2>1, <2>2
<1>6. c' = IF c.next < NProfiles THEN [c EXCEPT !.next = @ + 1, !.found = kept] ELSE Following(kept, {})
  BY DEF DiscoverProfile, Becomes
<1> HIDE DEF kept, who
<1>7. CASE c.next < NProfiles
  <2>1. c.next + 1 \in CodexRange
    BY <1>3, <1>7, CodexAssumption DEF CodexRange
  <2>2. c' = [c EXCEPT !.next = @ + 1, !.found = kept]
    BY <1>6, <1>7
  <2>3. c' \in Discovery /\ c' \notin CodexCollecting /\ c'.at = "discover"
    BY <1>1, <1>5, <2>1, <2>2 DEF Discovery, CodexCollecting, CodexStages
  <2>4. SettingsShape'
    BY <1>1, SettingsStay DEF CodexInv
  <2> QED
    BY <1>2, <2>3, <2>4 DEF CodexInv, CodexShape, AnswersKnown, FirstKnown, GivenKnown, CodexStages
<1>8. CASE ~(c.next < NProfiles)
  BY <1>1, <1>2, <1>5, <1>6, <1>8, FollowingKnown
<1> QED
  BY <1>7, <1>8

(* What a collection in which nobody is asked leaves as it was.            *)
LEMMA FailsKeeps ==
  ASSUME CodexInv, c.at \in CodexStages, c' = Following(c.left, c.given),
         UNCHANGED <<settings, signedIn, turns>>, x' = NoExchange
  PROVE  CodexInv'
<1>1. c \in CodexCollecting
  BY StageTells DEF CodexInv
<1>2. c.left \in Seq(CodexEntry) /\ c.given \in SUBSET (Homes \X People)
  BY <1>1 DEF CodexCollecting
<1>3. turns = 0 => \A g \in c.given : CountedFor(g)
  BY DEF CodexInv, GivenKnown
<1> QED
  BY <1>2, <1>3, FollowingKnown

LEMMA Quiet ==
  ASSUME CodexInv, c.at # "asking"
  PROVE  x = NoExchange /\ ~Running
BY StageTells DEF CodexInv, CodexShape

(* CodexStages that change nothing but the collection's own: who is asked for,  *)
(* its homes and what it has counted stay.                                 *)
LEMMA StageKeeps ==
  ASSUME CodexInv, c \in CodexCollecting, c' \in CodexCollecting, UNCHANGED <<settings, signedIn, turns>>,
         x' = NoExchange, c'.at # "asking",
         c'.who = c.who, c'.since = c.since, c'.given = c.given,
         c'.at # "own",
         c'.at # "search" => c'.p # 0,
         c'.at = "earlier" => c'.next <= c'.p,
         c'.at \notin {"again", "logs", "answered"} => c'.mode = "none",
         c'.at = "wham" => c'.why \in {"none", "malformed"},
         c'.at = "ended" => c'.p = c.p /\ (c'.from # c.who => AwayFor(1)),
         c'.at \in {"again", "logs", "answered"} /\ c'.mode # "none" /\ c'.from # c.who => Since >= 2,
         FirstKnown'
  PROVE  CodexInv'
<1>1. SettingsShape' /\ turns' = turns /\ signedIn' = signedIn /\ homeOf' = homeOf
  /\ \A g : CountedFor(g)' <=> CountedFor(g)
  BY SettingsStay DEF CodexInv
<1>2. ~Running'
  BY DEF NoExchange, Running
<1>3. CodexShape'
  BY <1>1, <1>2 DEF CodexInv, CodexShape
<1>4. AnswersKnown'
  BY <1>1 DEF AnswersKnown, AwayFor, Since
<1>5. GivenKnown'
  <2>1. c.at \in CodexStages
    BY StageTells DEF CodexInv
  <2> QED
    BY <1>1, <2>1 DEF CodexInv, GivenKnown
<1> QED
  BY <1>1, <1>3, <1>4, <1>5 DEF CodexInv

LEMMA OwnProfileKeeps ==
  ASSUME CodexInv, OwnProfile, UNCHANGED x
  PROVE  CodexInv'
<1>1. c \in CodexCollecting /\ c.at = "own" /\ UNCHANGED <<settings, signedIn, turns>> /\ x' = NoExchange
  BY StageTells, Quiet DEF CodexInv, OwnProfile, Enters, Fails, Becomes, CodexStages
<1>2. CASE Credentials(c.p) = c.who
  <2>1. c' = [c EXCEPT !.at = "earlier"]
    BY <1>2 DEF OwnProfile, Enters, Becomes
  <2>2. c.next = 1 /\ c.p \in CodexRange /\ c.mode = "none"
    BY <1>1 DEF CodexCollecting, CodexInv, CodexShape, CodexRange
  <2>3. c' \in CodexCollecting /\ c'.at = "earlier" /\ c'.who = c.who /\ c'.since = c.since
        /\ c'.given = c.given /\ c'.p = c.p /\ c'.next = 1 /\ c'.mode = "none"
    BY <1>1, <2>1, <2>2 DEF CodexCollecting, CodexStages
  <2>4. NotBefore(1, c.who)
    BY DEF NotBefore, CodexRange
  <2>5. FirstKnown'
    BY <1>1, <1>2, <2>3, <2>4, SettingsStay DEF CodexInv, FirstKnown
  <2> QED
    BY <1>1, <2>2, <2>3, <2>5, StageKeeps DEF CodexRange
<1>3. CASE Credentials(c.p) # c.who
  BY <1>1, <1>3, FailsKeeps DEF OwnProfile, Fails, Becomes, CodexStages
<1> QED
  BY <1>2, <1>3

LEMMA EarlierProfilesKeeps ==
  ASSUME CodexInv, EarlierProfiles, UNCHANGED x
  PROVE  CodexInv'
<1>1. c \in CodexCollecting /\ c.at = "earlier" /\ UNCHANGED <<settings, signedIn, turns>> /\ x' = NoExchange
  BY StageTells, Quiet DEF CodexInv, EarlierProfiles, Enters, Fails, Becomes, CodexStages
<1>2. c.next \in CodexRange /\ c.p \in CodexRange /\ c.next <= c.p /\ c.mode = "none"
  BY <1>1 DEF CodexCollecting, CodexInv, CodexShape, CodexRange
<1>3. CASE c.next = c.p
  <2>1. PICK s \in {"again", "home"} : c' = [c EXCEPT !.at = s]
    BY <1>3 DEF EarlierProfiles, Enters, Becomes
  <2>2. c' \in CodexCollecting /\ c'.at = s /\ c'.who = c.who /\ c'.since = c.since
        /\ c'.given = c.given /\ c'.p = c.p /\ c'.mode = "none"
    BY <1>1, <1>2, <2>1 DEF CodexCollecting, CodexStages
  <2>3. FirstKnown'
    BY <1>1, <1>3, <2>2, SettingsStay DEF CodexInv, FirstKnown, CodexStages
  <2> QED
    BY <1>1, <1>2, <2>2, <2>3, StageKeeps DEF CodexRange
<1>4. CASE c.next # c.p /\ Credentials(c.next) = c.who
  BY <1>1, <1>4, FailsKeeps DEF EarlierProfiles, Fails, Becomes, CodexStages
<1>5. CASE c.next # c.p /\ Credentials(c.next) # c.who
  <2>1. c' = [c EXCEPT !.next = @ + 1]
    BY <1>5 DEF EarlierProfiles, Becomes
  <2>2. c.next + 1 \in CodexRange /\ c.next + 1 <= c.p
    BY <1>2, <1>5, CodexAssumption DEF CodexRange
  <2>3. c' \in CodexCollecting /\ c'.at = "earlier" /\ c'.who = c.who /\ c'.since = c.since
        /\ c'.given = c.given /\ c'.p = c.p /\ c'.next = c.next + 1 /\ c'.mode = "none"
    BY <1>1, <1>2, <2>1, <2>2 DEF CodexCollecting
  <2>4. turns = 0 => NotBefore(c.next + 1, c.who)
    <3>1. turns = 0 => NotBefore(c.next, c.who)
      BY <1>1 DEF CodexInv, FirstKnown
    <3> QED
      BY <1>2, <1>5, <3>1, CodexAssumption DEF NotBefore, CodexRange
  <2>5. turns = 0 => Credentials(c.p) = c.who
    BY <1>1 DEF CodexInv, FirstKnown, CodexStages
  <2>6. FirstKnown'
    BY <1>1, <2>3, <2>4, <2>5, SettingsStay DEF CodexInv, FirstKnown
  <2> QED
    BY <1>1, <1>2, <2>2, <2>3, <2>6, StageKeeps DEF CodexRange
<1> QED
  BY <1>3, <1>4, <1>5

LEMMA SearchProfilesKeeps ==
  ASSUME CodexInv, SearchProfiles, UNCHANGED x
  PROVE  CodexInv'
<1>1. c \in CodexCollecting /\ c.at = "search" /\ UNCHANGED <<settings, signedIn, turns>> /\ x' = NoExchange
  BY StageTells, Quiet DEF CodexInv, SearchProfiles, Fails, Becomes, CodexStages
<1>2. c.next \in CodexRange /\ c.mode = "none"
  BY <1>1 DEF CodexCollecting, CodexInv, CodexShape
<1>3. turns = 0 => NotBefore(c.next, c.who)
  BY <1>1 DEF CodexInv, FirstKnown
<1>4. CASE Credentials(c.next) = c.who
  <2>1. c' = [c EXCEPT !.p = c.next, !.at = "again"]
    BY <1>4 DEF SearchProfiles, Becomes
  <2>2. c.next \in 0..NProfiles /\ c.next # 0
    BY <1>2, CodexAssumption DEF CodexRange
  <2>3. c' \in CodexCollecting /\ c'.at = "again" /\ c'.who = c.who /\ c'.since = c.since
        /\ c'.given = c.given /\ c'.p = c.next /\ c'.mode = "none"
    BY <1>1, <1>2, <2>1, <2>2 DEF CodexCollecting, CodexStages
  <2>4. FirstKnown'
    BY <1>1, <1>3, <1>4, <2>3, SettingsStay DEF CodexInv, FirstKnown
  <2> QED
    BY <1>1, <2>2, <2>3, <2>4, StageKeeps
<1>5. CASE Credentials(c.next) # c.who /\ (Credentials(c.next) = Nobody \/ c.next = NProfiles)
  BY <1>1, <1>5, FailsKeeps DEF SearchProfiles, Fails, Becomes, CodexStages
<1>6. CASE Credentials(c.next) # c.who /\ ~(Credentials(c.next) = Nobody \/ c.next = NProfiles)
  <2>1. c' = [c EXCEPT !.next = @ + 1]
    BY <1>6 DEF SearchProfiles, Becomes
  <2>2. c.next + 1 \in CodexRange
    BY <1>2, <1>6, CodexAssumption DEF CodexRange
  <2>3. c' \in CodexCollecting /\ c'.at = "search" /\ c'.who = c.who /\ c'.since = c.since
        /\ c'.given = c.given /\ c'.next = c.next + 1 /\ c'.mode = "none"
    BY <1>1, <1>2, <2>1, <2>2 DEF CodexCollecting
  <2>4. turns = 0 => NotBefore(c.next + 1, c.who)
    BY <1>2, <1>3, <1>6, CodexAssumption DEF NotBefore, CodexRange
  <2>5. FirstKnown'
    BY <1>1, <2>3, <2>4, SettingsStay DEF CodexInv, FirstKnown
  <2> QED
    BY <1>1, <2>3, <2>5, StageKeeps
<1> QED
  BY <1>4, <1>5, <1>6

(* Later stages know of the profile what the ones before have kept out.   *)
LEMMA FirstStays ==
  ASSUME CodexInv, c.at \in CodexStages \ {"search", "own", "earlier"},
         c'.at \in CodexStages \ {"search", "own", "earlier"}, c'.p = c.p, c'.who = c.who,
         UNCHANGED <<settings, signedIn, turns>>, turns = 0 /\ c'.at = "logs" => c'.now = c.who
  PROVE  FirstKnown'
BY SettingsStay DEF CodexInv, FirstKnown

(* Falls and Unless: what a flight that was counts up does is without end.  *)
LEMMA FallsKeeps ==
  ASSUME CodexInv, NEW why, why \in CodexReasons, Falls(why), x' = NoExchange,
         c.at \in {"home", "asking", "ended"},
         Running /\ x.limitsAt # Never => why = "malformed"
  PROVE  CodexInv'
<1>1. c \in CodexCollecting /\ UNCHANGED <<settings, signedIn, turns>> /\ c.mode = "none"
  BY StageTells DEF CodexInv, CodexShape, Falls, Unless, Becomes, CodexStages
<1>2. CASE c.dropped
  BY <1>1, <1>2, FlightEnds DEF Falls, Unless, Becomes
<1>3. CASE ~c.dropped
  <2>1. PICK r \in {"none", "malformed"} : c' = [c EXCEPT !.at = "wham", !.why = r]
    BY <1>3 DEF Falls, Unless, Becomes
  <2>2. c' \in CodexCollecting /\ c'.at = "wham" /\ c'.who = c.who /\ c'.since = c.since /\ c'.why = r
        /\ c'.given = c.given /\ c'.p = c.p /\ c'.mode = "none"
    BY <1>1, <2>1 DEF CodexCollecting, CodexStages, CodexReasons
  <2>3. c.p # 0
    BY <1>1 DEF CodexInv, CodexShape
  <2>4. FirstKnown'
    BY <1>1, <2>2, FirstStays DEF CodexStages
  <2> QED
    BY <1>1, <2>2, <2>3, <2>4, StageKeeps
<1> QED
  BY <1>2, <1>3

LEMMA AskingIs ==
  ASSUME CodexInv, Running
  PROVE  /\ c \in CodexCollecting /\ c.at = "asking" /\ c.p # 0 /\ c.mode = "none"
         /\ x \in Exchange /\ x.seen \subseteq People /\ c.p \in CodexRange
BY StageTells DEF CodexInv, CodexShape, CodexStages, Exchange, CodexCollecting, CodexRange

LEMMA ExchangeKeeps ==
  ASSUME CodexInv, Running, x' \in Exchange, NEW from \in People \union {Nobody},
         c' = [c EXCEPT !.from = from], UNCHANGED <<settings, signedIn, turns>>, x'.seen = x.seen,
         x'.limitsAt # Never => x'.at = "replies" /\ from \in x.seen /\ x'.elapsed <= x'.limitsAt + Grace
  PROVE  CodexInv'
<1>1. c \in CodexCollecting /\ c.at = "asking" /\ c.p # 0 /\ c.mode = "none"
  BY AskingIs
<1>2. c' \in CodexCollecting /\ c'.at = "asking" /\ c'.who = c.who /\ c'.since = c.since
      /\ c'.given = c.given /\ c'.p = c.p /\ c'.mode = "none" /\ c'.from = from
  BY <1>1 DEF CodexCollecting
<1>3. SettingsShape' /\ turns' = turns /\ signedIn' = signedIn /\ homeOf' = homeOf
  /\ \A g : CountedFor(g)' <=> CountedFor(g)
  BY SettingsStay DEF CodexInv
<1>4. Running'
  BY DEF Exchange, Running
<1>5. CodexShape'
  BY <1>1, <1>2, <1>3, <1>4 DEF CodexInv, CodexShape
<1>6. AnswersKnown'
  BY <1>1, <1>2, <1>3 DEF CodexInv, AnswersKnown, AwayFor, Since
<1>7. FirstKnown'
  BY <1>1, <1>2, FirstStays DEF CodexStages
<1>8. GivenKnown'
  BY <1>1, <1>2, <1>3 DEF CodexInv, GivenKnown, CodexStages
<1> QED
  BY <1>3, <1>5, <1>6, <1>7, <1>8 DEF CodexInv

LEMMA EndsKeeps ==
  ASSUME CodexInv, Running, NEW from \in x.seen, Ends(from)
  PROVE  CodexInv'
<1>1. c \in CodexCollecting /\ c.at = "asking" /\ c.p # 0 /\ c.mode = "none" /\ from \in People
  BY AskingIs
<1>2. c' = [c EXCEPT !.at = "ended", !.from = from] /\ x' = NoExchange /\ UNCHANGED <<settings, signedIn, turns>>
  BY DEF Ends, Becomes, Killed
<1>3. c' \in CodexCollecting /\ c'.at = "ended" /\ c'.who = c.who /\ c'.since = c.since
      /\ c'.given = c.given /\ c'.p = c.p /\ c'.mode = "none" /\ c'.from = from
  BY <1>1, <1>2 DEF CodexCollecting, CodexStages
<1>4. from # c.who => AwayFor(1)
  BY <1>1 DEF CodexInv, AnswersKnown
<1>5. FirstKnown'
  BY <1>1, <1>2, <1>3, FirstStays DEF CodexStages
<1> QED
  BY <1>1, <1>2, <1>3, <1>4, <1>5, StageKeeps

LEMMA CheckHomeKeeps ==
  ASSUME CodexInv, CheckHome
  PROVE  CodexInv'
<1>1. c \in CodexCollecting /\ c.at = "home" /\ c.p # 0 /\ c.mode = "none" /\ x = NoExchange /\ ~Running
  BY StageTells, Quiet DEF CodexInv, CodexShape, CheckHome, CodexStages
<1>2. CASE UNCHANGED x /\ Falls("not started")
  BY <1>1, <1>2, FallsKeeps DEF CodexReasons
<1>3. CASE /\ HomeIs(c.p, c.who) /\ Enters("asking")
           /\ x' = [at |-> "initialize", elapsed |-> 0, limitsAt |-> Never, optional |-> 0, seen |-> {c.who}]
  <2>1. c' = [c EXCEPT !.at = "asking"] /\ UNCHANGED <<settings, signedIn, turns>>
    BY <1>3 DEF Enters, Becomes
  <2>2. c' \in CodexCollecting /\ c'.at = "asking" /\ c'.who = c.who /\ c'.since = c.since
        /\ c'.given = c.given /\ c'.p = c.p /\ c'.mode = "none" /\ c.who \in People
    BY <1>1, <2>1 DEF CodexCollecting, CodexStages
  <2>3. 0 \in 0..Deadline /\ 0 \in 0..Optional
    BY CodexAssumption DEF Optional
  <2>4. x' \in Exchange /\ x'.seen = {c.who} /\ x'.limitsAt = Never
    BY <1>3, <2>2, <2>3 DEF Exchange
  <2>5. SettingsShape' /\ turns' = turns /\ signedIn' = signedIn /\ homeOf' = homeOf
    /\ \A g : CountedFor(g)' <=> CountedFor(g)
    BY <2>1, SettingsStay DEF CodexInv
  <2>6. Running'
    BY <2>4 DEF Exchange, Running
  <2>7. CodexShape'
    BY <1>1, <2>2, <2>4, <2>5, <2>6 DEF CodexInv, CodexShape
  <2>8. signedIn[homeOf[c.p]] = c.who
    BY <1>3 DEF HomeIs, AccountIn
  <2>9. AnswersKnown'
    BY <2>2, <2>4, <2>5, <2>8 DEF AnswersKnown
  <2>10. FirstKnown'
    BY <1>1, <2>1, <2>2, FirstStays DEF CodexStages
  <2>11. GivenKnown'
    BY <1>1, <2>2, <2>5 DEF CodexInv, GivenKnown, CodexStages
  <2> QED
    BY <2>5, <2>7, <2>9, <2>10, <2>11 DEF CodexInv
<1> QED
  BY <1>2, <1>3 DEF CheckHome

LEMMA ExchangeStepKeeps ==
  ASSUME CodexInv, Wait \/ Initialized
  PROVE  CodexInv'
<1>1. Running
  BY DEF Wait, Initialized, Running
<1>2. c \in CodexCollecting /\ x \in Exchange /\ UNCHANGED <<settings, signedIn, turns>> /\ c' = c
  BY <1>1, AskingIs DEF Wait, Initialized
<1>3. c' = [c EXCEPT !.from = c.from] /\ c.from \in People \union {Nobody}
  BY <1>2 DEF CodexCollecting
<1>4. x.limitsAt # Never => x.at = "replies" /\ c.from \in x.seen /\ x.elapsed <= x.limitsAt + Grace
  BY <1>1, AskingIs DEF CodexInv, AnswersKnown
<1>5. x.elapsed \in 0..Deadline /\ x.limitsAt \in {Never} \union 0..Deadline /\ x.optional \in 0..Optional
      /\ x.seen \in SUBSET People /\ x.at \in {"initialize", "replies"}
  BY <1>2 DEF Exchange
<1>6. CASE Wait
  <2>1. x' = [x EXCEPT !.elapsed = @ + 1] /\ x.elapsed < Until
    BY <1>6 DEF Wait
  <2>2. x.elapsed + 1 <= Deadline /\ (x.limitsAt # Never => x.elapsed + 1 <= x.limitsAt + Grace)
    BY <1>5, <2>1, CodexAssumption DEF Until, ResponseDeadline, Never
  <2>3. x.elapsed + 1 \in 0..Deadline
    BY <1>5, <2>2, CodexAssumption
  <2>4. x' \in Exchange /\ x'.seen = x.seen /\ x'.at = x.at /\ x'.limitsAt = x.limitsAt /\ x'.elapsed = x.elapsed + 1
    BY <1>2, <2>1, <2>3 DEF Exchange
  <2> QED
    BY <1>1, <1>2, <1>3, <1>4, <2>2, <2>4, ExchangeKeeps
<1>7. CASE Initialized
  <2>1. x' = [x EXCEPT !.at = "replies"]
    BY <1>7 DEF Initialized
  <2>2. x' \in Exchange /\ x'.seen = x.seen /\ x'.at = "replies" /\ x'.limitsAt = x.limitsAt /\ x'.elapsed = x.elapsed
    BY <1>2, <2>1 DEF Exchange
  <2> QED
    BY <1>1, <1>2, <1>3, <1>4, <2>2, ExchangeKeeps
<1> QED
  BY <1>6, <1>7

LEMMA RecordsKeep ==
  ASSUME CodexInv, LimitsCome \/ OptionalComes
  PROVE  CodexInv'
<1>1. Running
  BY DEF LimitsCome, OptionalComes, Running
<1>2. c \in CodexCollecting /\ x \in Exchange /\ c.at = "asking" /\ x.at = "replies" /\ x.seen \subseteq People
  BY <1>1, AskingIs DEF LimitsCome, OptionalComes
<1>3. c.from \in People \union {Nobody}
  BY <1>2 DEF CodexCollecting
<1>4. x.limitsAt # Never => c.from \in x.seen /\ x.elapsed <= x.limitsAt + Grace
  BY <1>2 DEF CodexInv, AnswersKnown
<1>5. x.elapsed \in 0..Deadline /\ x.limitsAt \in {Never} \union 0..Deadline /\ x.optional \in 0..Optional
  BY <1>2 DEF Exchange
<1>6. CASE LimitsCome
  <2>1. PICK who \in x.seen : Records([x EXCEPT !.limitsAt = x.elapsed], who)
    BY <1>6 DEF LimitsCome
  <2>2. PICK reply \in Exchange : reply = [x EXCEPT !.limitsAt = x.elapsed]
    BY <1>2, <1>5 DEF Exchange
  <2>3. reply.seen = x.seen /\ reply.limitsAt = x.elapsed /\ reply.elapsed = x.elapsed /\ reply.at = "replies"
    BY <1>2, <2>2 DEF Exchange
  <2>4. CASE Ends(who)
    BY <1>1, <2>4, EndsKeeps
  <2>5. CASE x' = reply /\ Becomes([c EXCEPT !.from = who])
    <3>1. x.elapsed <= x.elapsed + Grace
      BY <1>5, CodexAssumption
    <3> QED
      BY <1>1, <1>2, <2>3, <2>5, <3>1, ExchangeKeeps DEF Becomes
  <2> QED
    BY <2>1, <2>2, <2>4, <2>5 DEF Records
<1>7. CASE OptionalComes
  <2>1. Records([x EXCEPT !.optional = @ + 1], c.from) /\ x.optional < Optional
    BY <1>7 DEF OptionalComes
  <2>2. x.optional + 1 \in 0..Optional
    BY <1>5, <2>1 DEF Optional
  <2>3. PICK reply \in Exchange : reply = [x EXCEPT !.optional = @ + 1]
    BY <1>2, <2>2 DEF Exchange
  <2>4. reply.seen = x.seen /\ reply.limitsAt = x.limitsAt /\ reply.elapsed = x.elapsed /\ reply.at = "replies"
    BY <1>2, <2>3 DEF Exchange
  <2>5. CASE reply.limitsAt # Never /\ Ends(c.from)
    BY <1>1, <1>4, <2>4, <2>5, EndsKeeps
  <2>6. CASE x' = reply /\ Becomes([c EXCEPT !.from = c.from])
    BY <1>1, <1>3, <1>4, <2>4, <2>6, ExchangeKeeps DEF Becomes
  <2> QED
    BY <2>1, <2>3, <2>5, <2>6 DEF Records
<1> QED
  BY <1>6, <1>7

LEMMA ExchangeEndsKeeps ==
  ASSUME CodexInv, Malformed \/ Refused \/ Closed \/ Expired
  PROVE  CodexInv'
<1>1. Running
  BY DEF Malformed, Refused, Closed, Expired, Running
<1>2. c \in CodexCollecting /\ c.at = "asking"
  BY <1>1, AskingIs
<1>3. CASE Malformed
  BY <1>2, <1>3, FallsKeeps DEF Malformed, Killed, CodexReasons
<1>4. CASE Refused
  <2>1. CASE Falls("refused") /\ Killed
    BY <1>2, <1>4, <2>1, FallsKeeps DEF Refused, Killed, CodexReasons
  <2>2. CASE Unless(Following(c.left, c.given)) /\ Killed
    BY <1>2, <2>2, FailsKeeps, FlightEnds DEF Unless, Becomes, Killed, CodexStages
  <2> QED
    BY <1>4, <2>1, <2>2 DEF Refused
<1>5. CASE StopsWaiting
  <2>1. CASE x.limitsAt = Never
    BY <1>2, <1>5, <2>1, FallsKeeps DEF StopsWaiting, Killed, CodexReasons
  <2>2. CASE x.limitsAt # Never
    BY <1>1, <1>2, <1>5, <2>2, EndsKeeps DEF StopsWaiting, CodexInv, AnswersKnown
  <2> QED
    BY <2>1, <2>2
<1> QED
  BY <1>3, <1>4, <1>5 DEF Closed, Expired

LEMMA NormalizeKeeps ==
  ASSUME CodexInv, Normalize
  PROVE  CodexInv'
<1>1. c \in CodexCollecting /\ c.at = "ended" /\ c.p # 0 /\ x' = NoExchange /\ ~Running
  BY StageTells, Quiet DEF CodexInv, CodexShape, Normalize, CodexStages
<1>2. ASSUME NEW why \in CodexReasons, Falls(why) PROVE CodexInv'
  BY <1>1, <1>2, FallsKeeps
<1>3. CASE HomeIs(c.p, c.who) /\ Answered("app-server")
  <2>1. UNCHANGED <<settings, signedIn, turns>>
    BY <1>3 DEF Answered, Unless, Becomes
  <2>2. CASE c.dropped
    BY <1>1, <1>3, <2>1, <2>2, FlightEnds DEF Answered, Unless, Becomes
  <2>3. CASE ~c.dropped
    <3>1. c' = [c EXCEPT !.at = "again", !.mode = "app-server"]
      BY <1>3, <2>3 DEF Answered, Unless, Becomes
    <3>2. c' \in CodexCollecting /\ c'.at = "again" /\ c'.who = c.who /\ c'.since = c.since
          /\ c'.given = c.given /\ c'.p = c.p /\ c'.from = c.from
      BY <1>1, <3>1 DEF CodexCollecting, CodexStages
    <3>3. c.from # c.who => Since >= 2
      BY <1>1, <1>3 DEF CodexInv, AnswersKnown, AwayFor, HomeIs, AccountIn
    <3>4. FirstKnown'
      BY <1>1, <2>1, <3>2, FirstStays DEF CodexStages
    <3> QED
      BY <1>1, <2>1, <3>2, <3>3, <3>4, StageKeeps
  <2> QED
    BY <2>2, <2>3
<1> QED
  BY <1>2, <1>3 DEF Normalize, CodexReasons

LEMMA WhamKeeps ==
  ASSUME CodexInv, Wham
  PROVE  CodexInv'
<1>1. c \in CodexCollecting /\ c.at = "wham" /\ c.p # 0 /\ x' = NoExchange /\ UNCHANGED <<settings, signedIn, turns>>
  BY StageTells, Quiet DEF CodexInv, CodexShape, Wham, Fails, Becomes, CodexStages
<1>2. CASE Fails
  BY <1>1, <1>2, FailsKeeps DEF Fails, Becomes, CodexStages
<1>3. CASE Becomes([c EXCEPT !.at = "again", !.mode = "wham", !.from = c.who])
  <2>1. c' = [c EXCEPT !.at = "again", !.mode = "wham", !.from = c.who] /\ c.who \in People
    BY <1>1, <1>3 DEF Becomes, CodexCollecting
  <2>2. c' \in CodexCollecting /\ c'.at = "again" /\ c'.who = c.who /\ c'.since = c.since
        /\ c'.given = c.given /\ c'.p = c.p /\ c'.from = c.who
    BY <1>1, <2>1 DEF CodexCollecting, CodexStages
  <2>3. FirstKnown'
    BY <1>1, <2>2, FirstStays DEF CodexStages
  <2> QED
    BY <1>1, <2>2, <2>3, StageKeeps
<1> QED
  BY <1>2, <1>3 DEF Wham

LEMMA LoadAgainKeeps ==
  ASSUME CodexInv, LoadAgain
  PROVE  CodexInv'
<1>1. c \in CodexCollecting /\ c.at = "again" /\ c.p # 0 /\ x' = NoExchange /\ UNCHANGED <<settings, signedIn, turns>>
  BY StageTells, Quiet DEF CodexInv, CodexShape, LoadAgain, Becomes, CodexStages
<1>2. c' = [c EXCEPT !.at = "logs", !.now = Credentials(c.p)]
  BY DEF LoadAgain, Becomes
<1>3. c.p \in CodexRange
  BY <1>1 DEF CodexCollecting, CodexRange
<1>4. Credentials(c.p) \in People \union {Nobody}
  BY <1>3 DEF CodexInv, SettingsShape, Credentials, AccountIn, AuthFile
<1>5. c' \in CodexCollecting /\ c'.at = "logs" /\ c'.who = c.who /\ c'.since = c.since
      /\ c'.given = c.given /\ c'.p = c.p /\ c'.from = c.from /\ c'.mode = c.mode /\ c'.now = Credentials(c.p)
  BY <1>1, <1>2, <1>4 DEF CodexCollecting, CodexStages
<1>6. turns = 0 => Credentials(c.p) = c.who
  BY <1>1 DEF CodexInv, FirstKnown, CodexStages
<1>7. FirstKnown'
  BY <1>1, <1>5, <1>6, FirstStays DEF CodexStages
<1>8. c.mode # "none" /\ c.from # c.who => Since >= 2
  BY <1>1 DEF CodexInv, AnswersKnown
<1> QED
  BY <1>1, <1>5, <1>7, <1>8, StageKeeps

(* The logs of a home are whose credentials it holds; those of the default *)
(* one, if nobody's home it is, are of the profile that owns them.         *)
LEMMA CountedAreKnown ==
  ASSUME CodexInv, c \in CodexCollecting, c.p \in CodexRange,
         HomeIs(c.p, c.who), Credentials(c.p) = c.who,
         NEW g \in LogRoots(c.p) \X {c.who}
  PROVE  CountedFor(g)
<1>1. g[1] \in LogRoots(c.p) /\ g[2] = c.who
  OBVIOUS
<1>2. CASE g[1] = homeOf[c.p]
  BY <1>1, <1>2 DEF CountedFor, HomeIs, AccountIn
<1>3. CASE g[1] = LocalHome /\ OwnsDefaultActivity(c.p)
  BY <1>1, <1>3 DEF CountedFor
<1> QED
  BY <1>1, <1>2, <1>3 DEF LogRoots

LEMMA ReadLogsKeeps ==
  ASSUME CodexInv, ReadLogs
  PROVE  CodexInv'
<1>1. c \in CodexCollecting /\ c.at = "logs" /\ c.p # 0 /\ x' = NoExchange /\ UNCHANGED <<settings, signedIn, turns>>
  BY StageTells, Quiet DEF CodexInv, CodexShape, ReadLogs, Becomes, CodexStages
<1>2. c.p \in CodexRange /\ c.who \in People /\ c.given \in SUBSET (Homes \X People)
  BY <1>1 DEF CodexCollecting, CodexRange
<1>3. PICK counts : /\ c' = [c EXCEPT !.at = "answered", !.given = counts]
                   /\ counts = IF HomeIs(c.p, c.now) THEN c.given \union (LogRoots(c.p) \X {c.who}) ELSE c.given
  BY DEF ReadLogs, Becomes
<1>4. LogRoots(c.p) \subseteq Homes
  BY <1>2 DEF CodexInv, SettingsShape, LogRoots, Homes
<1>5. counts \in SUBSET (Homes \X People)
  BY <1>2, <1>3, <1>4
<1>6. c' \in CodexCollecting /\ c'.at = "answered" /\ c'.who = c.who /\ c'.since = c.since
      /\ c'.given = counts /\ c'.p = c.p /\ c'.from = c.from /\ c'.mode = c.mode
  BY <1>1, <1>3, <1>5 DEF CodexCollecting, CodexStages
<1>7. SettingsShape' /\ turns' = turns /\ signedIn' = signedIn /\ homeOf' = homeOf
  /\ \A g : CountedFor(g)' <=> CountedFor(g)
  BY <1>1, SettingsStay DEF CodexInv
<1>8. ~Running'
  BY <1>1 DEF NoExchange, Running
<1>9. CodexShape'
  BY <1>1, <1>6, <1>7, <1>8 DEF CodexInv, CodexShape
<1>10. AnswersKnown'
  BY <1>1, <1>6, <1>7 DEF CodexInv, AnswersKnown, Since
<1>11. FirstKnown'
  BY <1>1, <1>6, FirstStays DEF CodexStages
<1>12. ASSUME turns = 0, NEW g \in counts PROVE CountedFor(g)
  <2>1. c.now = c.who /\ Credentials(c.p) = c.who
    BY <1>1, <1>12 DEF CodexInv, FirstKnown, CodexStages
  <2>2. CASE g \in c.given
    BY <1>1, <1>12, <2>2 DEF CodexInv, GivenKnown, CodexStages
  <2>3. CASE g \notin c.given
    <3>1. HomeIs(c.p, c.who) /\ g \in LogRoots(c.p) \X {c.who}
      BY <1>3, <1>12, <2>1, <2>3
    <3> QED
      BY <1>1, <1>2, <2>1, <3>1, CountedAreKnown
  <2> QED
    BY <2>2, <2>3
<1>13. GivenKnown'
  BY <1>6, <1>7, <1>12 DEF GivenKnown
<1> QED
  BY <1>7, <1>9, <1>10, <1>11, <1>13 DEF CodexInv

LEMMA ReturnKeeps ==
  ASSUME CodexInv, Return
  PROVE  CodexInv'
BY FailsKeeps, Quiet DEF Return, Fails, Becomes, CodexStages

LEMMA GivenUpKeeps ==
  ASSUME CodexInv, GivenUp
  PROVE  CodexInv'
<1>1. UNCHANGED <<settings, signedIn, turns>> /\ x' = x
  BY DEF GivenUp, Becomes
<1>2. CASE c.at \notin {"asking", "ended"}
  BY <1>1, <1>2, Quiet, FlightEnds DEF GivenUp, Becomes
<1>3. CASE c.at \in {"asking", "ended"}
  <2>1. c' = [c EXCEPT !.dropped = TRUE] /\ c \in CodexCollecting
    BY <1>3, StageTells DEF GivenUp, Becomes, CodexInv, CodexStages
  <2>2. c' \in CodexCollecting /\ c'.at = c.at /\ c'.who = c.who /\ c'.since = c.since
        /\ c'.given = c.given /\ c'.p = c.p /\ c'.from = c.from /\ c'.mode = c.mode
    BY <2>1 DEF CodexCollecting
  <2>3. SettingsShape' /\ turns' = turns /\ signedIn' = signedIn /\ homeOf' = homeOf
    /\ \A g : CountedFor(g)' <=> CountedFor(g)
    BY <1>1, SettingsStay DEF CodexInv
  <2>4. CodexShape'
    BY <1>1, <1>3, <2>1, <2>2, <2>3 DEF CodexInv, CodexShape, Running
  <2>5. AnswersKnown'
    BY <1>1, <1>3, <2>2, <2>3 DEF CodexInv, AnswersKnown, AwayFor, Since
  <2>6. FirstKnown'
    BY <1>1, <1>3, <2>2, FirstStays DEF CodexStages
  <2>7. GivenKnown'
    BY <1>3, <2>2, <2>3 DEF CodexInv, GivenKnown, CodexStages
  <2> QED
    BY <2>3, <2>4, <2>5, <2>6, <2>7 DEF CodexInv
<1> QED
  BY <1>2, <1>3

LEMMA SignInKeeps ==
  ASSUME CodexInv, NEW file \in DOMAIN signedIn, NEW who \in People \union {Nobody}, SignInWithCodex(file, who)
  PROVE  CodexInv'
<1>1. /\ signedIn' = [signedIn EXCEPT ![file] = who] /\ turns' = turns + 1 /\ turns < MaxTurns
      /\ c' = c /\ homeOf' = homeOf /\ apart' = apart /\ flagged' = flagged /\ signedIn[file] # who
  BY DEF SignInWithCodex, settings
<1>2. turns \in 0..MaxTurns /\ turns' \in 0..MaxTurns /\ turns' # 0
  BY <1>1, CodexAssumption DEF CodexInv, SettingsShape
<1>3. SettingsShape'
  BY <1>1, <1>2 DEF CodexInv, SettingsShape
<1>4. x' = IF Running /\ who # Nobody /\ file = homeOf[c.p] THEN [x EXCEPT !.seen = @ \union {who}] ELSE x
  BY DEF SignInWithCodex
<1>5. CASE ~Running
  <2>1. x' = x
    BY <1>4, <1>5
  <2>2. CodexShape'
    <3>1. c \in CodexCollecting => c.since <= turns'
      BY <1>1, <1>2 DEF CodexInv, CodexShape, CodexCollecting
    <3> QED
      BY <1>1, <2>1, <3>1 DEF CodexInv, CodexShape, Running
  <2>3. ASSUME c.at = "ended", c.from # c.who PROVE AwayFor(1)'
    <3>1. c \in CodexCollecting /\ AwayFor(1) /\ c.p \in CodexRange
      BY <2>3, StageTells DEF CodexInv, AnswersKnown, CodexShape, CodexStages, CodexCollecting, CodexRange
    <3>2. Since \in Int /\ Since' = Since + 1
      BY <1>1, <1>2, <3>1 DEF Since, CodexCollecting
    <3> QED
      BY <1>1, <3>1, <3>2 DEF AwayFor
  <2>4. ASSUME c.at \in {"again", "logs", "answered"}, c.mode # "none", c.from # c.who PROVE Since' >= 2
    <3>1. c \in CodexCollecting /\ Since >= 2
      BY <2>4, StageTells DEF CodexInv, AnswersKnown, CodexStages
    <3>2. Since \in Int /\ Since' = Since + 1
      BY <1>1, <1>2, <3>1 DEF Since, CodexCollecting
    <3> QED
      BY <3>1, <3>2
  <2>5. c.at # "asking"
    BY <1>5 DEF CodexInv, CodexShape
  <2>6. AnswersKnown'
    BY <1>1, <2>3, <2>4, <2>5 DEF AnswersKnown
  <2> QED
    BY <1>2, <1>3, <2>2, <2>6 DEF CodexInv, FirstKnown, GivenKnown
<1>6. CASE Running
  <2>1. c \in CodexCollecting /\ c.at = "asking" /\ c.p \in CodexRange /\ x \in Exchange /\ x.seen \subseteq People
    BY <1>6, AskingIs
  <2>2. Since \in Int /\ Since' = Since + 1 /\ Since >= 0
    BY <1>1, <1>2, <2>1 DEF Since, CodexCollecting, CodexInv, CodexShape
  <2>3. x' \in Exchange /\ x'.at = x.at /\ x'.limitsAt = x.limitsAt /\ x'.elapsed = x.elapsed
        /\ x.seen \subseteq x'.seen /\ (x'.seen = x.seen \/ x'.seen = x.seen \union {who})
    <3>1. CASE x' = x
      BY <2>1, <3>1
    <3>2. CASE x' # x
      <4>1. who \in People /\ x' = [x EXCEPT !.seen = @ \union {who}]
        BY <1>4, <3>2
      <4>2. x.seen \union {who} \in SUBSET People
        BY <2>1, <4>1
      <4> QED
        BY <2>1, <4>1, <4>2 DEF Exchange
    <3> QED
      BY <3>1, <3>2
  <2>4. CodexShape'
    <3>1. c.since <= turns'
      BY <1>1, <1>2, <2>1 DEF CodexInv, CodexShape, CodexCollecting
    <3>2. Running'
      BY <2>3 DEF Exchange, Running
    <3> QED
      BY <1>1, <1>6, <2>1, <2>3, <3>1, <3>2 DEF CodexInv, CodexShape
  <2>5. AwayFor(1) => AwayFor(1)'
    BY <1>1, <2>2 DEF AwayFor
  <2>6. ASSUME NEW y \in x'.seen, y # c.who PROVE AwayFor(1)'
    <3>1. CASE y \in x.seen
      BY <2>1, <2>5, <2>6, <3>1 DEF CodexInv, AnswersKnown
    <3>2. CASE y \notin x.seen
      <4>1. y = who /\ file = homeOf[c.p]
        BY <1>4, <2>3, <2>6, <3>2
      <4>2. signedIn'[homeOf'[c'.p]] = who
        BY <1>1, <4>1
      <4> QED
        BY <1>1, <2>2, <2>6, <4>1, <4>2 DEF AwayFor
    <3> QED
      BY <3>1, <3>2
  <2>7. Since' >= 1
    BY <2>2
  <2>8. AnswersKnown'
    BY <1>1, <2>1, <2>3, <2>6, <2>7 DEF CodexInv, AnswersKnown
  <2> QED
    BY <1>2, <1>3, <2>4, <2>8 DEF CodexInv, FirstKnown, GivenKnown
<1> QED
  BY <1>5, <1>6

LEMMA CodexSteps == CodexInv /\ [CodexNext]_codexVars => CodexInv'
<1> SUFFICES ASSUME CodexInv, [CodexNext]_codexVars PROVE CodexInv'
  OBVIOUS
<1>1. ASSUME NEW file \in DOMAIN signedIn, NEW who \in People \union {Nobody}, SignInWithCodex(file, who)
      PROVE  CodexInv'
  BY <1>1, SignInKeeps
<1>2. CASE UNCHANGED codexVars
  <2>1. UNCHANGED <<settings, signedIn, turns>> /\ c' = c /\ x' = x
    BY <1>2 DEF codexVars
  <2>2. SettingsShape' /\ turns' = turns /\ signedIn' = signedIn /\ homeOf' = homeOf
    /\ (\A p : Credentials(p)' = Credentials(p)) /\ (\A p, who : NotBefore(p, who)' <=> NotBefore(p, who))
    /\ \A g : CountedFor(g)' <=> CountedFor(g)
    BY <2>1, SettingsStay DEF CodexInv
  <2> QED
    BY <2>1, <2>2 DEF CodexInv, CodexShape, Running, AnswersKnown, AwayFor, Since, FirstKnown, GivenKnown
<1> QED
  BY <1>1, <1>2, StartsKeep, DiscoverProfileKeeps, OwnProfileKeeps, EarlierProfilesKeeps, SearchProfilesKeeps,
     CheckHomeKeeps, ExchangeStepKeeps, RecordsKeep, ExchangeEndsKeeps, NormalizeKeeps, WhamKeeps,
     LoadAgainKeeps, ReadLogsKeeps, ReturnKeeps, GivenUpKeeps DEF CodexNext

LEMMA CodexInvSound == CodexInv => CodexTypeOK /\ CodexSound
<1> SUFFICES ASSUME CodexInv PROVE CodexTypeOK /\ CodexSound
  OBVIOUS
<1>1. CodexTypeOK
  BY StageTells DEF CodexInv, SettingsShape, CodexTypeOK, Exchange
<1>2. UsageOfItsAccount
  <2> SUFFICES ASSUME c.at = "answered", c.mode # "none", turns - c.since < 2, c.from # c.who PROVE FALSE
    BY DEF UsageOfItsAccount
  <2>1. Since >= 2 /\ c \in CodexCollecting
    BY StageTells DEF CodexInv, AnswersKnown, CodexStages
  <2> QED
    BY <2>1 DEF Since, CodexCollecting, CodexInv, SettingsShape
<1>3. LimitsKept
  <2>1. c.at = "wham" => c.why \in {"none", "malformed"}
    BY StageTells DEF CodexInv, CodexShape, CodexStages
  <2>2. ASSUME Running, x.limitsAt # Never PROVE x.elapsed <= x.limitsAt + Grace /\ x.elapsed <= Deadline
    BY <2>2, AskingIs, CodexAssumption DEF CodexInv, AnswersKnown, Exchange
  <2> QED
    BY <2>1, <2>2 DEF LimitsKept
<1>4. LogsOfOne
  <2> SUFFICES ASSUME turns = 0, c.at = "answered"
               PROVE  /\ NotBefore(c.p, c.who)
                      /\ \A g, h \in c.given : g[1] = h[1] => g[2] = h[2]
                      /\ \A g \in c.given : g = <<homeOf[c.p], c.who>> => HomeIs(c.p, c.who)
    BY DEF LogsOfOne, NotBefore
  <2>1. c \in CodexCollecting /\ c.who \in People /\ c.p \in CodexRange
    BY StageTells DEF CodexInv, CodexShape, CodexCollecting, CodexRange, CodexStages
  <2>2. \A g \in c.given : CountedFor(g)
    BY DEF CodexInv, GivenKnown, CodexStages
  <2>3. ASSUME NEW p \in CodexRange, NEW q \in CodexRange, OwnsDefaultActivity(p), OwnsDefaultActivity(q)
        PROVE  p = q
    BY <2>3 DEF OwnsDefaultActivity, CodexInv, SettingsShape, CodexRange
  <2>4. ASSUME NEW g \in c.given, NEW h \in c.given, g[1] = h[1] PROVE g[2] = h[2]
    <3>1. CountedFor(g) /\ CountedFor(h)
      BY <2>2
    <3>2. CASE \E q \in CodexRange : homeOf[q] = g[1] /\ signedIn[g[1]] = g[2]
      BY <2>4, <3>1, <3>2 DEF CountedFor, OwnsDefaultActivity
    <3>3. CASE g[1] = LocalHome /\ \E q \in CodexRange : OwnsDefaultActivity(q) /\ Credentials(q) = g[2]
      BY <2>3, <2>4, <3>1, <3>3 DEF CountedFor, OwnsDefaultActivity
    <3> QED
      BY <3>1, <3>2, <3>3 DEF CountedFor
  <2>5. ASSUME NEW g \in c.given, g = <<homeOf[c.p], c.who>> PROVE HomeIs(c.p, c.who)
    <3>1. g[1] = homeOf[c.p] /\ g[2] = c.who /\ c.who # Nobody
      BY <2>1, <2>5, CodexAssumption
    <3> QED
      BY <2>1, <2>2, <3>1 DEF CountedFor, OwnsDefaultActivity, HomeIs, AccountIn
  <2>6. NotBefore(c.p, c.who)
    BY DEF CodexInv, FirstKnown, CodexStages
  <2> QED
    BY <2>4, <2>5, <2>6
<1> QED
  BY <1>1, <1>2, <1>3, <1>4 DEF CodexSound

(* Codex: whoever signs in at its homes while a flight collects, usage is  *)
(* stored for the account it was served for (but for a switch there and    *)
(* back), rate limits that have come are neither counts up nor delayed past *)
(* the grace, and the logs of a home count for one account (collect_usage, *)
(* run_codex_app_server_rate_limits, collect_local_usage).                 *)
THEOREM CodexIsSound == CodexSpec => [](CodexTypeOK /\ CodexSound)
<1> QED
  BY CodexStarts, CodexSteps, CodexInvSound, PTL DEF CodexSpec
-----------------------------------------------------------------------------
(* OpenCode.  What a collection holds at each of its stages.               *)
Whose == Spaces \union {LocalAccount}
Attempted ==
  [at : {"session", "workspaces", "usage", "failing", "local", "done"}, id : Whose, again : BOOLEAN,
   cookie : OpenCookies \union {Without}, space : Spaces \union {Without},
   error : {"none", "missing", "unauthorized", "unavailable", "network"},
   outcome : {"none", "collected", "degraded", "failed"}, calm : BOOLEAN]
OpenShape ==
  /\ header \in {Without, Unusable} \union OpenCookies /\ setting \in Spaces \union {Without}
  /\ jar \in OpenCookies \union {Without} /\ imported \in OpenCookies \union {Without}
  /\ shut \in BOOLEAN /\ goAuth \in BOOLEAN /\ goRows \in BOOLEAN
  /\ honoured \in SUBSET OpenCookies /\ reaches \in [OpenCookies -> {{1}, {2}, {1, 2}}]
  /\ swaps \in 0..MaxSwaps
  /\ go \in {NoAttempt} \union [at : {"found"}, id : Whose]
            \union [at : {"look"}, cookie : OpenCookies] \union Attempted

(* The workspace is the account's own, unless that has none.               *)
SpaceIsKept ==
  /\ go.at = "workspaces" => go.id = LocalAccount
  /\ go.at = "failing" => go.error # "none"
  /\ go.at = "usage" \/ (go.at \in {"local", "done"} /\ go.error = "none")
       => go.id = LocalAccount \/ go.space = go.id

(* Which cookie is tried while nobody interferes, and what is known of it  *)
(* once it was rejected.                                                   *)
IsTried ==
  IF header \in OpenCookies THEN go.cookie = header
  ELSE go.again /\ ~shut => go.cookie = imported /\ jar \in {Without, imported}
SessionIsTried ==
  /\ go.at \in {"workspaces", "usage"} /\ go.calm => IsTried
  /\ go.at \in {"failing", "local", "done"} /\ go.error = "unauthorized" /\ go.calm =>
       /\ IsTried /\ ~Serves(go.cookie)
       /\ go.at # "failing" => go.again \/ header \in OpenCookies
OutcomeIsTold == go.at = "done" => go.outcome = SpaceOutcome(go.error = "none", goRows)

OpenInv == OpenShape /\ SpaceIsKept /\ SessionIsTried /\ OutcomeIsTold
OpenSpec == OpenInit /\ [][OpenNext]_openVars

LEMMA FirstSpace ==
  ASSUME NEW S \in {{1}, {2}, {1, 2}}
  PROVE  Min(S) \in Spaces
BY DEF Min, Spaces

LEMMA CookieHeaderIs ==
  ASSUME OpenShape, NEW cachedToo \in BOOLEAN
  PROVE  /\ CookieHeader(cachedToo) \in OpenCookies \union {Without}
         /\ JarAfter(cachedToo) \in OpenCookies \union {Without}
         /\ header \in OpenCookies => CookieHeader(cachedToo) = header
         /\ header \notin OpenCookies /\ ~cachedToo /\ ~shut /\ CookieHeader(cachedToo) # Without =>
              CookieHeader(cachedToo) = imported /\ JarAfter(cachedToo) = imported
BY DEF OpenShape, CookieHeader, JarAfter, UsesJar, OpenCookies, Without, Unusable

LEMMA GoIs ==
  ASSUME OpenShape
  PROVE  /\ go.at \in {"session", "workspaces", "usage", "failing", "local", "done"} <=> go \in Attempted
         /\ go.at = "found" => go \in [at : {"found"}, id : Whose]
         /\ go.at = "look" => go \in [at : {"look"}, cookie : OpenCookies]
BY DEF OpenShape, Attempted, NoAttempt

LEMMA OpenStarts == OpenInit => OpenInv
<1> SUFFICES ASSUME OpenInit PROVE OpenInv
  OBVIOUS
<1>1. go = NoAttempt /\ swaps = 0 /\ 0 \in 0..MaxSwaps /\ go.at = "idle"
  BY OpenCodeAssumption DEF OpenInit, NoAttempt
<1>2. goRows \in BOOLEAN
  BY DEF OpenInit
<1>3. shut \in BOOLEAN /\ goAuth \in BOOLEAN
  BY DEF OpenInit
<1>4. /\ header \in {Without, Unusable} \union OpenCookies /\ jar \in OpenCookies \union {Without}
      /\ imported \in OpenCookies \union {Without}
  BY DEF OpenInit, OpenCookies, Without, Unusable
<1>5. OpenShape
  BY <1>1, <1>2, <1>3, <1>4 DEF OpenInit, OpenShape
<1> QED
  BY <1>1, <1>5 DEF OpenInv, SpaceIsKept, SessionIsTried, OutcomeIsTold

(* Steps that leave the world alone.                                       *)
LEMMA OpenShapeStays ==
  ASSUME OpenShape, UNCHANGED <<openSetup, openWorld, swaps>>, jar' \in OpenCookies \union {Without},
         go' \in {NoAttempt} \union [at : {"found"}, id : Whose]
                 \union [at : {"look"}, cookie : OpenCookies] \union Attempted
  PROVE  OpenShape'
BY DEF OpenShape, openSetup, openWorld

LEMMA DiscoverKeeps ==
  ASSUME OpenInv, DiscoverSpace \/ LookForSpace \/ CollectSpace \/ OpenDone
  PROVE  OpenInv'
<1>1. UNCHANGED <<openSetup, openWorld, swaps>>
  BY DEF DiscoverSpace, LookForSpace, CollectSpace, OpenDone, Goes
<1>2. jar' \in OpenCookies \union {Without}
  BY CookieHeaderIs DEF OpenInv, OpenShape, DiscoverSpace, LookForSpace, CollectSpace, OpenDone, Goes
<1> DEFINE Resting == {NoAttempt} \union [at : {"found"}, id : Whose] \union [at : {"look"}, cookie : OpenCookies]
<1>3. ASSUME go' \in Resting PROVE OpenInv'
  <2>1. go'.at \in {"idle", "found", "look"}
    BY <1>3 DEF NoAttempt
  <2>2. OpenShape'
    BY <1>1, <1>2, <1>3, OpenShapeStays DEF OpenInv
  <2> QED
    BY <2>1, <2>2 DEF OpenInv, SpaceIsKept, SessionIsTried, OutcomeIsTold
<1>4. ASSUME NEW id \in Whose PROVE FoundSpace(id) \in Resting
  BY DEF FoundSpace
<1>5. FallsToLocal \in Resting
  BY <1>4 DEF FallsToLocal, Whose
<1>6. CASE DiscoverSpace
  <2>1. CASE setting # Without
    BY <1>3, <1>4, <1>6, <2>1 DEF DiscoverSpace, Goes, OpenInv, OpenShape, Whose
  <2>2. CASE setting = Without
    <3>1. go' = IF CookieHeader(TRUE) = Without THEN FallsToLocal ELSE [at |-> "look", cookie |-> CookieHeader(TRUE)]
      BY <1>6, <2>2 DEF DiscoverSpace
    <3>2. CookieHeader(TRUE) \in OpenCookies \union {Without}
      BY CookieHeaderIs DEF OpenInv
    <3> QED
      BY <1>3, <1>5, <3>1, <3>2
  <2> QED
    BY <2>1, <2>2
<1>7. CASE LookForSpace
  <2>1. go.cookie \in OpenCookies
    BY <1>7, GoIs DEF LookForSpace, OpenInv
  <2>2. Min(reaches[go.cookie]) \in Whose
    BY <2>1, FirstSpace DEF OpenInv, OpenShape, Whose
  <2> QED
    BY <1>3, <1>4, <1>5, <1>7, <2>2 DEF LookForSpace, Goes
<1>8. CASE CollectSpace
  <2>1. go.id \in Whose /\ go' = Collecting(go.id)
    BY <1>8, GoIs DEF CollectSpace, Goes, OpenInv
  <2>2. go' \in Attempted /\ go'.at = "session"
    BY <2>1 DEF Collecting, Attempted
  <2>3. OpenShape'
    BY <1>1, <1>2, <2>2, OpenShapeStays DEF OpenInv
  <2> QED
    BY <2>2, <2>3 DEF OpenInv, SpaceIsKept, SessionIsTried, OutcomeIsTold
<1>9. CASE OpenDone
  BY <1>3, <1>9 DEF OpenDone, Goes
<1> QED
  BY <1>6, <1>7, <1>8, <1>9

LEMMA ResolveSessionKeeps ==
  ASSUME OpenInv, ResolveSession
  PROVE  OpenInv'
<1>1. go \in Attempted /\ go.at = "session" /\ UNCHANGED <<openSetup, openWorld, swaps>>
  BY GoIs DEF ResolveSession, OpenInv
<1> DEFINE cookie == CookieHeader(~go.again)
           space == SpaceOf(go.id)
<1>2. go.again \in BOOLEAN /\ go.id \in Whose
  BY <1>1 DEF Attempted
<1>3. cookie \in OpenCookies \union {Without} /\ jar' = JarAfter(~go.again)
      /\ jar' \in OpenCookies \union {Without}
      /\ (header \in OpenCookies => cookie = header)
      /\ (header \notin OpenCookies /\ go.again /\ ~shut /\ cookie # Without => cookie = imported /\ jar' = imported)
  BY <1>2, CookieHeaderIs DEF OpenInv, ResolveSession
<1>4. space \in Spaces \union {Without} /\ (go.id # LocalAccount => space = go.id /\ space # Without)
  BY <1>2 DEF SpaceOf, Whose, Spaces, Without, OpenInv, OpenShape
<1>5. go' = IF cookie = Without THEN FailsWith("missing")
            ELSE [go EXCEPT !.cookie = cookie, !.space = space, !.at = IF space = Without THEN "workspaces" ELSE "usage"]
  BY DEF ResolveSession
<1> HIDE DEF cookie, space
<1>6. CASE cookie = Without
  <2>1. go' \in Attempted /\ go'.at = "failing" /\ go'.error = "missing"
    BY <1>1, <1>5, <1>6 DEF FailsWith, Attempted
  <2>2. OpenShape'
    BY <1>1, <1>3, <2>1, OpenShapeStays DEF OpenInv
  <2> QED
    BY <2>1, <2>2 DEF OpenInv, SpaceIsKept, SessionIsTried, OutcomeIsTold
<1>7. CASE cookie # Without
  <2>1. go' \in Attempted /\ go'.at \in {"workspaces", "usage"} /\ go'.cookie = cookie /\ go'.space = space
        /\ (go'.at = "workspaces" <=> space = Without) /\ go'.id = go.id /\ go'.again = go.again
    BY <1>1, <1>3, <1>4, <1>5, <1>7 DEF Attempted
  <2>2. OpenShape'
    BY <1>1, <1>3, <2>1, OpenShapeStays DEF OpenInv
  <2>3. SpaceIsKept'
    BY <1>4, <2>1 DEF SpaceIsKept
  <2>4. SessionIsTried'
    BY <1>1, <1>3, <1>7, <2>1 DEF SessionIsTried, IsTried, openSetup, openWorld
  <2> QED
    BY <2>1, <2>2, <2>3, <2>4 DEF OpenInv, OutcomeIsTold
<1> QED
  BY <1>6, <1>7

LEMMA FetchKeeps ==
  ASSUME OpenInv, ResolveSpace \/ FetchSpace
  PROVE  OpenInv'
<1>1. go \in Attempted /\ go.at \in {"workspaces", "usage"} /\ UNCHANGED <<openSetup, openWorld, swaps, jar>>
  BY GoIs DEF ResolveSpace, FetchSpace, Goes, OpenInv
<1>2. jar' \in OpenCookies \union {Without}
  BY <1>1 DEF OpenInv, OpenShape
<1>3. go.calm => IsTried
  BY <1>1 DEF OpenInv, SessionIsTried
<1>4. UNCHANGED <<header, shut, imported, honoured, reaches>>
  BY <1>1 DEF openSetup, openWorld
<1>5. ASSUME NEW kind \in {"unauthorized", "unavailable"}, go' = FailsWith(kind), ~Serves(go.cookie) PROVE OpenInv'
  <2>1. go' \in Attempted /\ go'.at = "failing" /\ go'.error = kind /\ go'.cookie = go.cookie
        /\ go'.space = go.space /\ go'.again = go.again /\ go'.calm = go.calm
    BY <1>1, <1>5 DEF FailsWith, Attempted
  <2>2. OpenShape'
    BY <1>1, <1>2, <2>1, OpenShapeStays DEF OpenInv
  <2>3. SessionIsTried'
    BY <1>1, <1>3, <1>4, <1>5, <2>1 DEF SessionIsTried, IsTried, Serves
  <2> QED
    BY <2>1, <2>2, <2>3 DEF OpenInv, SpaceIsKept, OutcomeIsTold
<1>6. CASE ResolveSpace
  <2>1. CASE go.cookie \in honoured
    <3>1. go' = [go EXCEPT !.at = "usage", !.space = Min(reaches[go.cookie])] /\ go.at = "workspaces"
      BY <1>6, <2>1 DEF ResolveSpace, Goes
    <3>2. Min(reaches[go.cookie]) \in Spaces
      BY <2>1, FirstSpace DEF OpenInv, OpenShape
    <3>3. go' \in Attempted /\ go'.at = "usage" /\ go'.cookie = go.cookie /\ go'.id = go.id
          /\ go'.again = go.again /\ go'.calm = go.calm
      BY <1>1, <3>1, <3>2 DEF Attempted
    <3>4. OpenShape'
      BY <1>1, <1>2, <3>3, OpenShapeStays DEF OpenInv
    <3>5. go.id = LocalAccount
      BY <3>1 DEF OpenInv, SpaceIsKept
    <3>6. SessionIsTried'
      BY <1>1, <1>3, <1>4, <3>3 DEF SessionIsTried, IsTried
    <3> QED
      BY <3>3, <3>4, <3>5, <3>6 DEF OpenInv, SpaceIsKept, OutcomeIsTold
  <2>2. CASE go.cookie \notin honoured
    BY <1>5, <1>6, <2>2 DEF ResolveSpace, Goes, Serves
  <2> QED
    BY <2>1, <2>2
<1>7. CASE FetchSpace
  <2>1. CASE ~Serves(go.cookie)
    BY <1>5, <1>7, <2>1 DEF FetchSpace, Goes, Serves
  <2>2. CASE Serves(go.cookie)
    <3>1. go' = [go EXCEPT !.at = "local", !.error = "none"] /\ go.at = "usage"
      BY <1>7, <2>2 DEF FetchSpace, Goes, Serves
    <3>2. go' \in Attempted /\ go'.at = "local" /\ go'.error = "none" /\ go'.id = go.id /\ go'.space = go.space
      BY <1>1, <3>1 DEF Attempted
    <3>3. OpenShape'
      BY <1>1, <1>2, <3>2, OpenShapeStays DEF OpenInv
    <3> QED
      BY <3>1, <3>2, <3>3 DEF OpenInv, SpaceIsKept, SessionIsTried, OutcomeIsTold
  <2> QED
    BY <2>1, <2>2
<1> QED
  BY <1>6, <1>7

LEMMA TryAgainKeeps ==
  ASSUME OpenInv, TryAgain
  PROVE  OpenInv'
<1>1. go \in Attempted /\ go.at = "failing" /\ UNCHANGED <<openSetup, openWorld, swaps>>
  BY GoIs DEF TryAgain, OpenInv
<1>2. jar' \in OpenCookies \union {Without}
  BY DEF TryAgain, OpenInv, OpenShape
<1>3. CASE RetriesImported
  <2>1. go' = [go EXCEPT !.at = "session", !.again = TRUE]
    BY <1>3 DEF TryAgain
  <2>2. go' \in Attempted /\ go'.at = "session"
    BY <1>1, <2>1 DEF Attempted
  <2>3. OpenShape'
    BY <1>1, <1>2, <2>2, OpenShapeStays DEF OpenInv
  <2> QED
    BY <2>2, <2>3 DEF OpenInv, SpaceIsKept, SessionIsTried, OutcomeIsTold
<1>4. CASE ~RetriesImported
  <2>1. go' = [go EXCEPT !.at = "local"] /\ jar' = jar
    BY <1>4 DEF TryAgain
  <2>2. go' \in Attempted /\ go'.at = "local" /\ go'.error = go.error /\ go'.cookie = go.cookie
        /\ go'.space = go.space /\ go'.again = go.again /\ go'.calm = go.calm /\ go'.id = go.id
    BY <1>1, <2>1 DEF Attempted
  <2>3. OpenShape'
    BY <1>1, <1>2, <2>2, OpenShapeStays DEF OpenInv
  <2>4. go.error # "none"
    BY <1>1 DEF OpenInv, SpaceIsKept
  <2>5. SessionIsTried'
    BY <1>1, <1>4, <2>1, <2>2 DEF OpenInv, SessionIsTried, IsTried, Serves, RetriesImported, openSetup, openWorld
  <2> QED
    BY <2>2, <2>3, <2>4, <2>5 DEF OpenInv, SpaceIsKept, OutcomeIsTold
<1> QED
  BY <1>3, <1>4

LEMMA ReadLocalKeeps ==
  ASSUME OpenInv, ReadLocal
  PROVE  OpenInv'
<1>1. go \in Attempted /\ go.at = "local" /\ UNCHANGED <<openSetup, openWorld, swaps, jar>>
  BY GoIs DEF ReadLocal, Goes, OpenInv
<1>2. jar' \in OpenCookies \union {Without}
  BY <1>1 DEF OpenInv, OpenShape
<1>3. go' = [go EXCEPT !.at = "done", !.outcome = SpaceOutcome(go.error = "none", goRows)]
  BY DEF ReadLocal, Goes
<1>4. SpaceOutcome(go.error = "none", goRows) \in {"collected", "degraded", "failed"}
  BY DEF SpaceOutcome
<1>5. go' \in Attempted /\ go'.at = "done" /\ go'.error = go.error /\ go'.cookie = go.cookie
      /\ go'.space = go.space /\ go'.again = go.again /\ go'.calm = go.calm /\ go'.id = go.id
      /\ go'.outcome = SpaceOutcome(go.error = "none", goRows)
  BY <1>1, <1>3, <1>4 DEF Attempted
<1>6. OpenShape'
  BY <1>1, <1>2, <1>5, OpenShapeStays DEF OpenInv
<1>7. UNCHANGED <<header, shut, imported, honoured, reaches, goRows, jar>>
  BY <1>1 DEF openSetup, openWorld
<1>8. SessionIsTried'
  BY <1>1, <1>5, <1>7 DEF OpenInv, SessionIsTried, IsTried, Serves
<1>9. SpaceIsKept'
  BY <1>1, <1>5 DEF OpenInv, SpaceIsKept
<1>10. OutcomeIsTold'
  BY <1>5, <1>7 DEF OutcomeIsTold, SpaceOutcome
<1> QED
  BY <1>6, <1>8, <1>9, <1>10 DEF OpenInv

LEMMA OthersKeep ==
  ASSUME OpenInv, OpenRequestFails \/ SessionsChange
  PROVE  OpenInv'
<1>1. swaps' \in 0..MaxSwaps /\ UNCHANGED openSetup
  BY OpenCodeAssumption DEF OpenInv, OpenShape, OpenRequestFails, SessionsChange, Swap
<1>2. UNCHANGED <<header, setting, goAuth, goRows>>
  BY <1>1 DEF openSetup
<1>3. honoured' \in SUBSET OpenCookies /\ imported' \in OpenCookies \union {Without} /\ shut' \in BOOLEAN
      /\ reaches' = reaches /\ jar' = jar
  <2>1. shut \in BOOLEAN /\ honoured \in SUBSET OpenCookies /\ imported \in OpenCookies \union {Without}
    BY DEF OpenInv, OpenShape
  <2>2. shut' \in BOOLEAN
    BY <2>1, Zenon DEF OpenRequestFails, SessionsChange, openWorld
  <2>3. reaches' = reaches /\ jar' = jar
    BY DEF OpenRequestFails, SessionsChange, openWorld
  <2>4. 2 \in OpenCookies
    BY DEF OpenCookies
  <2>5. honoured' \in SUBSET OpenCookies /\ imported' \in OpenCookies \union {Without}
    <3>1. CASE OpenRequestFails
      BY <2>1, <3>1 DEF OpenRequestFails, openWorld
    <3>2. CASE SessionsChange
      <4>1. honoured' = honoured \/ honoured' = honoured \union {2} \/ \E k \in honoured : honoured' = honoured \ {k}
        BY <3>2, Zenon DEF SessionsChange
      <4>2. imported' = imported \/ imported' = 2
        BY <3>2, Zenon DEF SessionsChange
      <4> QED
        BY <2>1, <2>4, <4>1, <4>2
    <3> QED
      BY <3>1, <3>2
  <2> QED
    BY <2>2, <2>3, <2>5
<1>4. CASE go \in Attempted
  <2>1. Roused = [go EXCEPT !.calm = FALSE] /\ Roused \in Attempted /\ ~Roused.calm /\ Roused.at = go.at
        /\ Roused.id = go.id /\ Roused.space = go.space /\ Roused.error = go.error /\ Roused.outcome = go.outcome
    BY <1>4 DEF Roused, Attempted
  <2>2. CASE OpenRequestFails
    <3>1. go' = [Roused EXCEPT !.at = "failing", !.error = "network"]
      BY <2>2 DEF OpenRequestFails
    <3>2. go' \in Attempted /\ go'.at = "failing" /\ go'.error = "network" /\ ~go'.calm
      BY <2>1, <3>1, ZenonT(60) DEF Attempted
    <3>3. OpenShape'
      BY <1>1, <1>2, <1>3, <3>2 DEF OpenInv, OpenShape
    <3> QED
      BY <3>2, <3>3 DEF OpenInv, SpaceIsKept, SessionIsTried, OutcomeIsTold
  <2>3. CASE SessionsChange
    <3>1. go' = Roused
      BY <2>3 DEF SessionsChange
    <3>2. OpenShape'
      BY <1>1, <1>2, <1>3, <2>1, <3>1 DEF OpenInv, OpenShape
    <3>3. SpaceIsKept' /\ SessionIsTried'
      BY <2>1, <3>1 DEF OpenInv, SpaceIsKept, SessionIsTried
    <3>4. OutcomeIsTold'
      BY <1>2, <2>1, <3>1 DEF OpenInv, OutcomeIsTold, SpaceOutcome
    <3> QED
      BY <3>2, <3>3, <3>4 DEF OpenInv
  <2> QED
    BY <2>2, <2>3
<1>5. CASE go \notin Attempted
  <2>1. go.at \notin {"session", "workspaces", "usage", "failing", "local", "done"}
        /\ go \in {NoAttempt} \union [at : {"found"}, id : Whose] \union [at : {"look"}, cookie : OpenCookies]
    BY <1>5, GoIs DEF OpenInv, OpenShape
  <2>2. Roused = go
    BY <2>1 DEF Roused, NoAttempt
  <2>3. go' = go
    BY <2>1, <2>2 DEF OpenRequestFails, SessionsChange
  <2>4. OpenShape'
    BY <1>1, <1>2, <1>3, <2>1, <2>3 DEF OpenInv, OpenShape
  <2> QED
    BY <2>1, <2>3, <2>4 DEF OpenInv, SpaceIsKept, SessionIsTried, OutcomeIsTold
<1> QED
  BY <1>4, <1>5

LEMMA OpenSteps == OpenInv /\ [OpenNext]_openVars => OpenInv'
<1> SUFFICES ASSUME OpenInv, [OpenNext]_openVars PROVE OpenInv'
  OBVIOUS
<1>1. CASE UNCHANGED openVars
  BY <1>1 DEF openVars, openSetup, openWorld, OpenInv, OpenShape, SpaceIsKept, SessionIsTried, IsTried, Serves,
     OutcomeIsTold, SpaceOutcome
<1> QED
  BY <1>1, DiscoverKeeps, ResolveSessionKeeps, FetchKeeps, TryAgainKeeps, ReadLocalKeeps, OthersKeep DEF OpenNext

LEMMA OpenInvSound == OpenInv => OpenSound
<1> SUFFICES ASSUME OpenInv PROVE OpenSound
  OBVIOUS
<1>1. SpacesKept
  BY DEF OpenInv, SpaceIsKept, OutcomeIsTold, SpaceOutcome, SpacesKept
<1>2. SessionsTried
  <2> SUFFICES ASSUME go.at = "done", go.error = "unauthorized", go.calm
               PROVE  IF header \in OpenCookies THEN go.cookie = header /\ ~Serves(header)
                      ELSE ~shut => ~Serves(imported) /\ jar \in {Without, imported}
    BY DEF SessionsTried
  <2>1. IsTried /\ ~Serves(go.cookie) /\ (go.again \/ header \in OpenCookies)
    BY DEF OpenInv, SessionIsTried
  <2> QED
    BY <2>1 DEF IsTried
<1>3. LocalBeside
  BY DEF OpenInv, OpenShape, OutcomeIsTold, SpaceOutcome, LocalBeside
<1> QED
  BY <1>1, <1>2, <1>3 DEF OpenSound

(* OpenCode: whatever sessions come and go, what is collected is of the    *)
(* workspace it was discovered as; a session that is rejected hides none   *)
(* that would do while nobody interferes; and the local history is kept    *)
(* without the web but is no success of it (collect_usage,                 *)
(* resolve_workspace_id, resolve_cookie_header).                           *)
THEOREM OpenIsSound == OpenSpec => []OpenSound
<1> QED
  BY OpenStarts, OpenSteps, OpenInvSound, PTL DEF OpenSpec
-----------------------------------------------------------------------------
(* A history of OpenCode.  Of the uses that were recorded before it began, *)
(* those not read yet are on the pages to come, which later uses only push *)
(* further back; while there are none, what was read are the newest ones.  *)
NewestFirst(rows) == \A i \in DOMAIN rows : rows[i] = uses + 1 - i
OnPage ==
  /\ reading.began \in 0..uses /\ reading.page \in Nat /\ reading.rows \in Seq(Int)
  /\ \A u \in (before + 1)..reading.began :
       u \in ToSet(reading.rows) \/ u <= uses - reading.page * SpacePage
  /\ uses = reading.began => Len(reading.rows) = reading.page * SpacePage /\ NewestFirst(reading.rows)
InReport ==
  /\ reading.began \in 0..uses /\ reading.rows \in Seq(Int)
  /\ reading.complete => /\ reading.from = "pages"
                         /\ (before + 1)..reading.began \subseteq ToSet(reading.rows)
  /\ uses = reading.began => NewestFirst(reading.rows)
HistoryInv ==
  /\ uses \in Nat /\ before \in 0..uses
  /\ \/ reading = Unread
     \/ reading = [at |-> "html", began |-> reading.began] /\ reading.began \in 0..uses
     \/ /\ reading = [at |-> "page", page |-> reading.page, rows |-> reading.rows, began |-> reading.began]
        /\ OnPage
     \/ /\ reading = [at |-> "report", rows |-> reading.rows, complete |-> reading.complete,
                      began |-> reading.began, from |-> reading.from]
        /\ InReport
HistorySpec == OpenHistoryInit /\ [][OpenHistoryNext]_openHistoryVars

(* What is on a page.                                                      *)
LEMMA PageHolds ==
  ASSUME uses \in Nat, NEW p \in Nat, NEW k \in Nat, k = p * SpacePage
  PROVE  /\ ReadPage(p) \in Seq(Int)
         /\ Len(ReadPage(p)) = IF uses <= k THEN 0 ELSE IF uses < k + SpacePage THEN uses - k ELSE SpacePage
         /\ \A i \in 1..Len(ReadPage(p)) : ReadPage(p)[i] = uses + 1 - (k + i)
<1>1. SpacePage \in Nat \ {0}
  BY OpenHistoryAssumption
<1>2. (p + 1) * SpacePage = k + SpacePage
  BY <1>1
<1> DEFINE rows == SpaceRows(uses)
           last == IF uses < k + SpacePage THEN uses ELSE k + SpacePage
<1>3. ReadPage(p) = SubSeq(rows, k + 1, last)
  BY <1>2 DEF ReadPage
<1>4. \A i \in 1..uses : rows[i] = uses + 1 - i
  BY DEF SpaceRows
<1> HIDE DEF rows
<1>5. last \in Int /\ k + 1 \in Int /\ \A i \in (k + 1)..last : rows[i] \in Int
  BY <1>1, <1>4
<1>6. /\ SubSeq(rows, k + 1, last) \in Seq(Int)
      /\ Len(SubSeq(rows, k + 1, last)) = IF k + 1 <= last THEN last - (k + 1) + 1 ELSE 0
      /\ \A i \in 1..last - (k + 1) + 1 : SubSeq(rows, k + 1, last)[i] = rows[(k + 1) + i - 1]
  <2> HIDE DEF last
  <2> QED
    BY <1>5, SubSeqProperties
<1>7. Len(ReadPage(p)) = IF uses <= k THEN 0 ELSE IF uses < k + SpacePage THEN uses - k ELSE SpacePage
  BY <1>1, <1>3, <1>6
<1>8. ASSUME NEW i \in 1..Len(ReadPage(p)) PROVE ReadPage(p)[i] = uses + 1 - (k + i)
  <2>1. i \in 1..last - (k + 1) + 1 /\ (k + 1) + i - 1 = k + i /\ k + i \in 1..uses
    BY <1>1, <1>7, <1>8
  <2> QED
    BY <1>3, <1>4, <1>6, <2>1
<1> QED
  BY <1>3, <1>6, <1>7, <1>8

LEMMA Holds ==
  ASSUME NEW s \in Seq(Int), NEW t \in Seq(Int)
  PROVE  /\ s \o t \in Seq(Int) /\ Len(s \o t) = Len(s) + Len(t)
         /\ \A i \in 1..Len(s) : (s \o t)[i] = s[i]
         /\ \A i \in 1..Len(t) : (s \o t)[Len(s) + i] = t[i]
         /\ \A n : n \in ToSet(s) \/ n \in ToSet(t) => n \in ToSet(s \o t)
<1>1. s \o t \in Seq(Int) /\ Len(s \o t) = Len(s) + Len(t)
  OBVIOUS
<1>2. \A i \in 1..Len(s) : (s \o t)[i] = s[i]
  OBVIOUS
<1>3. \A i \in 1..Len(t) : (s \o t)[Len(s) + i] = t[i]
  OBVIOUS
<1>4. ASSUME NEW n, n \in ToSet(s) PROVE n \in ToSet(s \o t)
  <2>1. PICK i \in 1..Len(s) : n = s[i]
    BY <1>4 DEF ToSet
  <2>2. i \in DOMAIN (s \o t) /\ (s \o t)[i] = n
    BY <1>1, <1>2, <2>1
  <2> QED
    BY <2>2 DEF ToSet
<1>5. ASSUME NEW n, n \in ToSet(t) PROVE n \in ToSet(s \o t)
  <2>1. PICK i \in 1..Len(t) : n = t[i]
    BY <1>5 DEF ToSet
  <2>2. Len(s) + i \in DOMAIN (s \o t) /\ (s \o t)[Len(s) + i] = n
    BY <1>1, <1>3, <2>1
  <2> QED
    BY <2>2 DEF ToSet
<1> QED
  BY <1>1, <1>2, <1>3, <1>4, <1>5

LEMMA HistoryStarts == OpenHistoryInit => HistoryInv
BY OpenHistoryAssumption DEF OpenHistoryInit, HistoryInv

LEMMA BeginKeeps ==
  ASSUME HistoryInv, BeginHistory
  PROVE  HistoryInv'
<1>1. reading' = [at |-> "page", page |-> 0, rows |-> <<>>, began |-> uses] /\ uses' = uses /\ before' = before
  BY DEF BeginHistory
<1>2. OnPage'
  <2>1. reading'.began = uses /\ reading'.page = 0 /\ reading'.rows = <<>> /\ 0 * SpacePage = 0
    BY <1>1, OpenHistoryAssumption
  <2>2. \A u \in (before + 1)..uses : u <= uses - 0
    BY DEF HistoryInv
  <2> QED
    BY <1>1, <2>1, <2>2 DEF HistoryInv, OnPage, NewestFirst
<1> QED
  BY <1>1, <1>2 DEF HistoryInv

(* Uses that were there stay where they are or are pushed to later pages.  *)
LEMMA UseKeeps ==
  ASSUME HistoryInv, Use
  PROVE  HistoryInv'
<1>1. uses' = uses + 1 /\ before' = before /\ reading' = reading /\ uses \in Nat /\ before \in 0..uses
  BY DEF Use, HistoryInv
<1>2. CASE reading.at = "page"
  <2>1. OnPage /\ reading = [at |-> "page", page |-> reading.page, rows |-> reading.rows, began |-> reading.began]
    BY <1>2 DEF HistoryInv, Unread
  <2>2. PICK k \in Nat : k = reading.page * SpacePage
    BY <2>1, OpenHistoryAssumption DEF OnPage
  <2>3. \A u \in (before + 1)..reading.began : u \in ToSet(reading.rows) \/ u <= uses - k
    BY <2>1, <2>2 DEF OnPage
  <2>4. OnPage'
    <3>1. reading.began \in 0..uses' /\ uses' # reading.began
      BY <1>1, <2>1 DEF OnPage
    <3>2. \A u \in (before + 1)..reading.began :
            u \in ToSet(reading.rows) \/ u <= uses' - reading.page * SpacePage
      <4>1. \A u \in Int : u <= uses - k => u <= uses' - k
        BY <1>1
      <4>2. (before + 1)..reading.began \subseteq Int
        OBVIOUS
      <4> QED
        BY <2>2, <2>3, <4>1, <4>2
    <3>3. reading.page \in Nat /\ reading.rows \in Seq(Int)
      BY <2>1 DEF OnPage
    <3> HIDE <2>3
    <3> QED
      BY <1>1, <3>1, <3>2, <3>3 DEF OnPage
  <2> QED
    BY <1>1, <2>1, <2>4 DEF HistoryInv
<1>3. CASE reading.at # "page"
  BY <1>1, <1>3 DEF HistoryInv, InReport
<1> QED
  BY <1>2, <1>3

LEMMA NextPageKeeps ==
  ASSUME HistoryInv, NextPage
  PROVE  HistoryInv'
<1>1. OnPage /\ reading.at = "page" /\ uses' = uses /\ before' = before /\ uses \in Nat /\ before \in 0..uses
  BY DEF NextPage, HistoryInv, Unread
<1>2. reading = [at |-> "page", page |-> reading.page, rows |-> reading.rows, began |-> reading.began]
  BY <1>1 DEF HistoryInv, Unread
<1>3. SpacePage \in Nat \ {0} /\ reading.page \in Nat /\ reading.began \in 0..uses
  BY <1>1, OpenHistoryAssumption DEF OnPage
<1>4. PICK k \in Nat : k = reading.page * SpacePage
  BY <1>3
<1>5. PICK read : read = ReadPage(reading.page)
  OBVIOUS
<1>6. /\ read \in Seq(Int)
      /\ Len(read) = IF uses <= k THEN 0 ELSE IF uses < k + SpacePage THEN uses - k ELSE SpacePage
      /\ \A i \in 1..Len(read) : read[i] = uses + 1 - (k + i)
  BY <1>1, <1>3, <1>4, <1>5, PageHolds
<1>7. PICK rows : rows = reading.rows \o read
  OBVIOUS
<1>8. reading.rows \in Seq(Int)
  BY <1>1 DEF OnPage
<1>9. /\ rows \in Seq(Int) /\ Len(rows) = Len(reading.rows) + Len(read)
      /\ \A i \in 1..Len(reading.rows) : rows[i] = reading.rows[i]
      /\ \A i \in 1..Len(read) : rows[Len(reading.rows) + i] = read[i]
      /\ \A n : n \in ToSet(reading.rows) \/ n \in ToSet(read) => n \in ToSet(rows)
  BY <1>6, <1>7, <1>8, Holds
<1>10. reading' = IF read = <<>> /\ rows = <<>> THEN Html
                  ELSE IF HistoryEnds(read) THEN HistoryReport(rows, TRUE, "pages")
                  ELSE IF reading.page + 1 = SpacePages THEN HistoryReport(rows, FALSE, "pages")
                  ELSE [reading EXCEPT !.page = @ + 1, !.rows = rows]
  BY <1>5, <1>7 DEF NextPage
<1>11. ASSUME uses = reading.began PROVE NewestFirst(rows) /\ Len(reading.rows) = k
  <2>1. Len(reading.rows) = k /\ \A i \in 1..k : reading.rows[i] = uses + 1 - i
    BY <1>1, <1>4, <1>8, <1>11 DEF OnPage, NewestFirst
  <2>2. ASSUME NEW i \in 1..Len(rows) PROVE rows[i] = uses + 1 - i
    <3>1. CASE i <= k
      BY <1>9, <2>1, <2>2, <3>1
    <3>2. CASE i > k
      <4>1. i - k \in 1..Len(read) /\ i = k + (i - k)
        BY <1>6, <1>9, <2>1, <2>2, <3>2
      <4>2. rows[k + (i - k)] = read[i - k] /\ read[i - k] = uses + 1 - (k + (i - k))
        BY <1>6, <1>9, <2>1, <4>1
      <4> QED
        BY <1>4, <4>1, <4>2
    <3> QED
      BY <1>4, <2>2, <3>1, <3>2
  <2> QED
    BY <1>9, <2>1, <2>2 DEF NewestFirst
<1>12. ASSUME NEW u \in (before + 1)..reading.began
       PROVE  u \in ToSet(rows) \/ (u <= uses - (k + SpacePage) /\ Len(read) = SpacePage)
  <2>1. u \in ToSet(reading.rows) \/ u <= uses - k
    BY <1>1, <1>4 DEF OnPage
  <2>2. u \in Nat /\ u > 0
    BY <1>1, <1>3
  <2>3. CASE u <= uses - k /\ u > uses - (k + SpacePage)
    <3>1. PICK i \in Int : i = uses + 1 - u - k
      BY <1>1, <1>4, <2>2
    <3>2. i \in 1..Len(read) /\ u = uses + 1 - (k + i)
      <4>1. i >= 1 /\ i <= SpacePage /\ i <= uses - k /\ uses > k /\ u = uses + 1 - (k + i)
        BY <1>1, <1>3, <1>4, <2>2, <2>3, <3>1
      <4>2. Len(read) = SpacePage \/ Len(read) = uses - k
        BY <1>1, <1>3, <1>6, <4>1
      <4>3. i <= Len(read)
        BY <4>1, <4>2
      <4>4. Len(read) \in Nat
        BY <1>6
      <4> QED
        BY <4>1, <4>3, <4>4
    <3>3. u \in ToSet(read)
      BY <1>6, <3>2 DEF ToSet
    <3> QED
      BY <1>9, <3>3
  <2>4. CASE u <= uses - (k + SpacePage)
    BY <1>1, <1>3, <1>4, <1>6, <2>2, <2>4, SMTT(60)
  <2> QED
    BY <1>1, <1>3, <1>4, <1>9, <2>1, <2>2, <2>3, <2>4, SMTT(60)
<1>13. CASE reading' = Html
  <2>1. reading' = [at |-> "html", began |-> reading.began] /\ reading'.began = reading.began
    BY <1>13 DEF Html
  <2> QED
    BY <1>1, <1>3, <2>1 DEF HistoryInv
<1>14. ASSUME NEW complete \in BOOLEAN, reading' = HistoryReport(rows, complete, "pages"), complete => HistoryEnds(read)
       PROVE  HistoryInv'
  <2>1. /\ reading' = [at |-> "report", rows |-> rows, complete |-> complete, began |-> reading.began, from |-> "pages"]
        /\ reading'.rows = rows /\ reading'.complete = complete /\ reading'.began = reading.began
        /\ reading'.from = "pages"
    BY <1>14 DEF HistoryReport
  <2>2. ASSUME HistoryEnds(read), NEW u \in (before + 1)..reading.began PROVE u \in ToSet(rows)
    <3>1. SUFFICES ASSUME u <= uses - (k + SpacePage), Len(read) = SpacePage PROVE FALSE
      BY <1>12
    <3>2. 1 \in 1..Len(read) /\ read[1] = uses + 1 - (k + 1)
      BY <1>3, <1>6, <3>1
    <3>3. read[1] > before
      <4>1. PICK first \in Int : first = uses - k /\ read[1] = first
        BY <1>1, <3>2
      <4>2. u \in Int /\ u > before /\ u < first
        BY <1>1, <1>3, <3>1, <4>1
      <4> QED
        BY <1>1, <4>1, <4>2
    <3>4. read[1] <= before
      BY <1>3, <1>6, <2>2, <3>1, <3>2 DEF HistoryEnds
    <3> QED
      BY <1>1, <1>4, <3>2, <3>3, <3>4
  <2>3. InReport'
    BY <1>1, <1>3, <1>9, <1>11, <1>14, <2>1, <2>2 DEF InReport, NewestFirst
  <2> QED
    BY <1>1, <2>1, <2>3 DEF HistoryInv
<1>15. CASE ~HistoryEnds(read) /\ reading' = [reading EXCEPT !.page = @ + 1, !.rows = rows]
  <2> DEFINE Pages == [at : {"page"}, page : Nat, rows : Seq(Int), began : 0..uses]
  <2>0. reading \in Pages
    BY <1>2, <1>3, <1>8
  <2>1. /\ reading' = [at |-> "page", page |-> reading.page + 1, rows |-> rows, began |-> reading.began]
        /\ reading'.rows = rows /\ reading'.page = reading.page + 1 /\ reading'.began = reading.began
    <3>1. reading' = [reading EXCEPT !.page = reading.page + 1, !.rows = rows] /\ reading.page + 1 \in Nat
      BY <1>3, <1>15
    <3>2. /\ reading' \in Pages /\ reading'.at = "page" /\ reading'.page = reading.page + 1
          /\ reading'.rows = rows /\ reading'.began = reading.began
      BY <1>9, <2>0, <3>1
    <3> QED
      BY <3>2
  <2>2. Len(read) = SpacePage /\ reading'.page * SpacePage = k + SpacePage
    <3>1. ~(Len(read) < SpacePage)
      BY <1>15 DEF HistoryEnds
    <3>2. (reading.page + 1) * SpacePage = k + SpacePage
      BY <1>3, <1>4
    <3> QED
      BY <1>1, <1>3, <1>4, <1>6, <2>1, <3>1, <3>2
  <2>3. OnPage'
    <3>1. reading'.page \in Nat
      BY <1>3, <2>1
    <3>2. \A u \in (before + 1)..reading.began : u \in ToSet(rows) \/ u <= uses - (k + SpacePage)
      BY <1>12
    <3>3. uses = reading.began => Len(rows) = k + SpacePage /\ NewestFirst(rows)
      BY <1>9, <1>11, <2>2
    <3> QED
      BY <1>1, <1>3, <1>9, <2>1, <2>2, <3>1, <3>2, <3>3 DEF OnPage, NewestFirst
  <2> QED
    BY <1>1, <2>1, <2>3 DEF HistoryInv
<1> QED
  BY <1>10, <1>13, <1>14, <1>15

LEMMA LostKeeps ==
  ASSUME HistoryInv, PageLost \/ HtmlRead
  PROVE  HistoryInv'
<1>1. uses' = uses /\ before' = before /\ uses \in Nat /\ before \in 0..uses /\ reading.at \in {"page", "html"}
  BY DEF PageLost, HtmlRead, HistoryInv
<1>2. reading.began \in 0..uses /\ (reading.at = "page" => OnPage)
  BY <1>1 DEF HistoryInv, Unread, OnPage
<1>3. CASE reading' = Unread
  BY <1>1, <1>3 DEF HistoryInv
<1>4. CASE reading' = Html
  <2>1. reading' = [at |-> "html", began |-> reading.began] /\ reading'.began = reading.began
    BY <1>4 DEF Html
  <2> QED
    BY <1>1, <1>2, <2>1 DEF HistoryInv
<1>5. ASSUME NEW rows \in Seq(Int), NEW from, uses = reading.began => NewestFirst(rows),
             reading' = [at |-> "report", rows |-> rows, complete |-> FALSE, began |-> reading.began, from |-> from]
      PROVE  HistoryInv'
  <2>1. /\ reading' = [at |-> "report", rows |-> reading'.rows, complete |-> reading'.complete,
                       began |-> reading'.began, from |-> reading'.from]
        /\ reading'.rows = rows /\ ~reading'.complete /\ reading'.began = reading.began
    BY <1>5
  <2>2. InReport'
    BY <1>1, <1>2, <1>5, <2>1 DEF InReport, NewestFirst
  <2> QED
    BY <1>1, <2>1, <2>2 DEF HistoryInv
<1>6. CASE PageLost
  <2>1. CASE reading.at = "page" /\ reading' = HistoryReport(reading.rows, FALSE, "pages")
    BY <1>2, <1>5, <2>1 DEF HistoryReport, OnPage
  <2> QED
    BY <1>1, <1>3, <1>4, <1>6, <2>1 DEF PageLost
<1>7. CASE HtmlRead
  <2>1. ReadPage(0) \in Seq(Int) /\ \A i \in 1..Len(ReadPage(0)) : ReadPage(0)[i] = uses + 1 - i
    <3>1. 0 = 0 * SpacePage
      BY OpenHistoryAssumption
    <3>2. ReadPage(0) \in Seq(Int) /\ \A i \in 1..Len(ReadPage(0)) : ReadPage(0)[i] = uses + 1 - (0 + i)
      BY <1>1, <3>1, PageHolds
    <3> QED
      BY <1>1, <3>2
  <2>2. NewestFirst(ReadPage(0))
    BY <2>1 DEF NewestFirst
  <2>3. HistoryReport(ReadPage(0), FALSE, "html")
        = [at |-> "report", rows |-> ReadPage(0), complete |-> FALSE, began |-> reading.began, from |-> "html"]
    BY DEF HistoryReport
  <2> QED
    BY <1>3, <1>5, <1>7, <2>1, <2>2, <2>3 DEF HtmlRead
<1> QED
  BY <1>6, <1>7

LEMMA HistorySteps == HistoryInv /\ [OpenHistoryNext]_openHistoryVars => HistoryInv'
<1>1. HistoryInv /\ UNCHANGED openHistoryVars => HistoryInv'
  BY DEF openHistoryVars, HistoryInv, OnPage, InReport, NewestFirst
<1> QED
  BY <1>1, BeginKeeps, UseKeeps, NextPageKeeps, LostKeeps DEF OpenHistoryNext

(* Rows that count down are as many as they are.                           *)
LEMMA NewestAreDistinct ==
  ASSUME uses \in Nat, NEW rows \in Seq(Int), NewestFirst(rows)
  PROVE  Cardinality(ToSet(rows)) = Len(rows)
<1>1. \A i \in 1..Len(rows) : rows[i] = uses + 1 - i
  BY DEF NewestFirst
<1>2. ToSet(rows) = (uses + 1 - Len(rows))..uses
  <2>1. ASSUME NEW n \in ToSet(rows) PROVE n \in (uses + 1 - Len(rows))..uses
    <3>1. PICK i \in 1..Len(rows) : n = rows[i]
      BY <2>1 DEF ToSet
    <3> QED
      BY <1>1, <3>1
  <2>2. ASSUME NEW n \in (uses + 1 - Len(rows))..uses PROVE n \in ToSet(rows)
    <3>1. uses + 1 - n \in 1..Len(rows)
      BY <2>2
    <3>2. rows[uses + 1 - n] = n
      BY <1>1, <3>1
    <3> QED
      BY <3>1, <3>2 DEF ToSet
  <2> QED
    BY <2>1, <2>2
<1>3. Cardinality((uses + 1 - Len(rows))..uses) = IF uses + 1 - Len(rows) > uses THEN 0 ELSE uses - (uses + 1 - Len(rows)) + 1
  BY FS_Interval
<1> QED
  BY <1>2, <1>3

LEMMA HistoryInvSound == HistoryInv => CompleteIsAll
<1> SUFFICES ASSUME HistoryInv, reading.at = "report" PROVE CompleteIsAll
  BY DEF CompleteIsAll
<1>1. InReport /\ uses \in Nat
  BY DEF HistoryInv, Unread
<1> QED
  BY <1>1, NewestAreDistinct DEF InReport, CompleteIsAll

(* A history that is said to be complete is, however many pages it has and *)
(* whatever is recorded while it is read (fetch_usage_history).            *)
THEOREM HistoriesAreWhole == HistorySpec => []CompleteIsAll
BY HistoryStarts, HistorySteps, HistoryInvSound, PTL DEF HistorySpec
-----------------------------------------------------------------------------
(* Grok.  What a collection holds at each of its stages.                   *)
GrokStages == {"own", "initialize", "authenticate", "billing", "web", "import_first", "try", "collected", "failed"}
GrokAccount ==
  [p : {"default"}, who : Holders \union {Placeholder}] \union [p : {"managed"}, who : Holders]
Shown == Cookies \union {NoCookie}
GrokAttempt == [token : Holders \union {NoHolder}, cookie : Shown]
Asked ==
  [at : GrokStages, a : GrokAccount, token : Holders \union {NoHolder}, left : Seq(GrokAttempt),
   tried : SUBSET Shown, stage : {"none", "given", "recent", "cached", "imported", "token"},
   of : Holders \union {NoHolder}, cookie : Shown, calm : BOOLEAN]
Errands == {Nothing} \union [at : {"found", "import"}, accounts : SUBSET GrokAccount] \union Asked
GrokWorld ==
  /\ mode \in {"auto", "cli", "web"} /\ given \in {NoCookie, Invalid} \union Cookies
  /\ cliWorks \in BOOLEAN /\ locked \in BOOLEAN
  /\ home \in [GrokProfiles -> Holders \union {NoHolder}]
  /\ bearer \in [GrokProfiles -> {"good", "rejected", "expired"}]
  /\ \A p \in GrokProfiles : home[p] = NoHolder => bearer[p] = "expired"
  /\ chrome \in Seq(Cookies) /\ accepted \in SUBSET Cookies
GrokShape == GrokWorld /\ recent \in Seq(Cookies) /\ cached \in Shown /\ errand \in Errands

(* What is shown is of the account, or what is configured.                 *)
Managed == errand.a.p = "managed"
ShownAs(y) ==
  /\ Managed => y.token \in {NoHolder, errand.a.who} /\ y.cookie = NoCookie
  /\ errand.stage = "token" => y.token = errand.a.who
  /\ given # NoCookie => y.cookie \in {NoCookie, given}
Tellable ==
  /\ given # NoCookie => errand.cookie \in {NoCookie, given}
  /\ Managed => /\ errand.cookie = NoCookie
                /\ errand.stage = "token" \/ errand.calm => errand.of = errand.a.who
ShownInOrder ==
  /\ Managed => errand.token \in {NoHolder, errand.a.who} /\ errand.stage \in {"none", "token"}
  /\ errand.stage = "token" => Managed
  /\ errand.stage \notin {"none", "token"} => (errand.stage = "given" <=> given # NoCookie)
  /\ errand.at \notin {"try", "collected", "failed"} => errand.stage = "none"
  /\ errand.at = "try" => errand.stage # "none" /\ \A y \in ToSet(errand.left) : ShownAs(y)
  /\ InRpc => UsesCli
  /\ errand.at = "import_first" => ~Managed /\ given = NoCookie
  /\ IF errand.at = "collected" THEN Tellable ELSE errand.cookie = NoCookie

(* While nobody interferes, the sources not asked yet are left, and those  *)
(* that were would not have answered.                                      *)
CliAnswers == UsesCli /\ cliWorks /\ home[errand.a.p] # NoHolder
CookieLeft(cookie) == \E y \in ToSet(errand.left) : y.token = NoHolder /\ y.cookie = cookie
OwnToken(p) == IF bearer[p] = "expired" THEN NoHolder ELSE home[p]
CookiesLeft ==
  /\ bearer[errand.a.p] = "good" => \E y \in ToSet(errand.left) : TokenWorks(y)
  /\ errand.stage = "given" => (given \in accepted => CookieLeft(given))
  /\ errand.stage = "imported" /\ ~locked =>
       cached = NoCookie /\ \A k \in ToSet(chrome) \intersect accepted : CookieLeft(k)
SourcesLeft ==
  /\ errand.at \notin {"own", "failed"} => SameHolder(errand.a) /\ errand.token = OwnToken(errand.a.p)
  /\ errand.at \in {"web", "import_first", "try"} => ~CliAnswers
  /\ errand.at = "import_first" => (~locked => cached = NoCookie)
  /\ errand.at = "try" => CookiesLeft
  /\ errand.at = "failed" => NoSourcePassedOver /\ CookiesInOrder

GrokInv ==
  /\ GrokShape
  /\ errand.at \in GrokStages => ShownInOrder /\ (errand.calm => SourcesLeft)
GrokSpec == GrokInit /\ [][GrokNext]_grokVars

LEMMA SetOfConcat ==
  ASSUME NEW S, NEW s \in Seq(S), NEW t \in Seq(S)
  PROVE  s \o t \in Seq(S) /\ ToSet(s \o t) = ToSet(s) \union ToSet(t)
<1>1. s \o t \in Seq(S) /\ Len(s \o t) = Len(s) + Len(t)
  OBVIOUS
<1>2. \A i \in 1..Len(s \o t) : (s \o t)[i] = IF i <= Len(s) THEN s[i] ELSE t[i - Len(s)]
  OBVIOUS
<1>3. ASSUME NEW n, n \in ToSet(s) PROVE n \in ToSet(s \o t)
  <2>1. PICK i \in 1..Len(s) : n = s[i]
    BY <1>3 DEF ToSet
  <2>2. i \in DOMAIN (s \o t) /\ (s \o t)[i] = n
    BY <1>1, <1>2, <2>1
  <2> QED
    BY <2>2 DEF ToSet
<1>4. ASSUME NEW n, n \in ToSet(t) PROVE n \in ToSet(s \o t)
  <2>1. PICK i \in 1..Len(t) : n = t[i]
    BY <1>4 DEF ToSet
  <2>2. Len(s) + i \in DOMAIN (s \o t) /\ (s \o t)[Len(s) + i] = n
    BY <1>1, <1>2, <2>1
  <2> QED
    BY <2>2 DEF ToSet
<1>5. ASSUME NEW n, n \in ToSet(s \o t) PROVE n \in ToSet(s) \/ n \in ToSet(t)
  <2>1. PICK i \in 1..Len(s \o t) : n = (s \o t)[i]
    BY <1>5 DEF ToSet
  <2>2. CASE i <= Len(s)
    <3>1. i \in DOMAIN s /\ n = s[i]
      BY <1>2, <2>1, <2>2
    <3> QED
      BY <3>1 DEF ToSet
  <2>3. CASE i > Len(s)
    <3>1. i - Len(s) \in DOMAIN t /\ n = t[i - Len(s)]
      BY <1>1, <1>2, <2>1, <2>3
    <3> QED
      BY <3>1 DEF ToSet
  <2> QED
    BY <2>1, <2>2, <2>3
<1> QED
  BY <1>1, <1>3, <1>4, <1>5

LEMMA SetOfTail ==
  ASSUME NEW S, NEW s \in Seq(S), s # <<>>
  PROVE  /\ Tail(s) \in Seq(S) /\ Head(s) \in S /\ Head(s) \in ToSet(s)
         /\ ToSet(s) = {Head(s)} \union ToSet(Tail(s))
<1>1. /\ Tail(s) \in Seq(S) /\ Head(s) = s[1] /\ 1 \in DOMAIN s /\ Len(Tail(s)) = Len(s) - 1
      /\ \A i \in 1..Len(Tail(s)) : Tail(s)[i] = s[i + 1]
  OBVIOUS
<1>2. ASSUME NEW n, n \in ToSet(s), n # Head(s) PROVE n \in ToSet(Tail(s))
  <2>1. PICK i \in 1..Len(s) : n = s[i]
    BY <1>2 DEF ToSet
  <2>2. i - 1 \in DOMAIN Tail(s) /\ Tail(s)[i - 1] = n
    BY <1>1, <1>2, <2>1
  <2> QED
    BY <2>2 DEF ToSet
<1>3. ASSUME NEW n, n \in ToSet(Tail(s)) PROVE n \in ToSet(s)
  <2>1. PICK i \in 1..Len(Tail(s)) : n = Tail(s)[i]
    BY <1>1, <1>3 DEF ToSet
  <2>2. i + 1 \in DOMAIN s /\ s[i + 1] = n
    BY <1>1, <2>1
  <2> QED
    BY <2>2 DEF ToSet
<1>4. Head(s) \in ToSet(s)
  BY <1>1 DEF ToSet
<1> QED
  BY <1>1, <1>2, <1>3, <1>4

(* The attempts with some cookies, each with the token first.              *)
LEMMA AttemptsHold ==
  ASSUME errand \in Asked, NEW cookies \in Seq(Cookies)
  PROVE  /\ Attempts(cookies) \in Seq(GrokAttempt)
         /\ \A y \in ToSet(Attempts(cookies)) : y.token \in {NoHolder, errand.token} /\ y.cookie \in ToSet(cookies)
         /\ \A k \in ToSet(cookies) : \E y \in ToSet(Attempts(cookies)) : y.token = NoHolder /\ y.cookie = k
<1>1. errand.token \in Holders \union {NoHolder} /\ \A i \in 1..Len(cookies) : cookies[i] \in Cookies /\ cookies[i] \in Shown
  BY DEF Asked, Shown
<1>2. DOMAIN cookies = 1..Len(cookies) /\ Len(cookies) \in Nat
  OBVIOUS
<1>3. CASE errand.token = NoHolder
  <2>1. Attempts(cookies) = [i \in 1..Len(cookies) |-> Attempt(NoHolder, cookies[i])]
    BY <1>3 DEF Attempts
  <2>2. \A i \in 1..Len(cookies) : Attempt(NoHolder, cookies[i]) \in GrokAttempt
    BY <1>1 DEF Attempt, GrokAttempt
  <2>3. DOMAIN Attempts(cookies) = 1..Len(cookies)
        /\ \A i \in 1..Len(cookies) : Attempts(cookies)[i].token = NoHolder /\ Attempts(cookies)[i].cookie = cookies[i]
    BY <2>1 DEF Attempt
  <2>4. Attempts(cookies) \in Seq(GrokAttempt)
    BY <1>2, <2>1, <2>2
  <2> QED
    BY <1>2, <2>3, <2>4 DEF ToSet
<1>4. CASE errand.token # NoHolder
  <2> DEFINE n == Len(cookies)
             made(i) == Attempt(IF i % 2 = 1 THEN errand.token ELSE NoHolder, cookies[(i + 1) \div 2])
  <2>1. Attempts(cookies) = [i \in 1..(2 * n) |-> made(i)]
    BY <1>4 DEF Attempts
  <2>2. \A i \in 1..(2 * n) : (i + 1) \div 2 \in 1..n
    BY <1>2
  <2>3. \A i \in 1..(2 * n) : /\ made(i) \in GrokAttempt /\ made(i).token \in {NoHolder, errand.token}
                              /\ made(i).cookie = cookies[(i + 1) \div 2]
    BY <1>1, <2>2 DEF Attempt, GrokAttempt
  <2>4. 2 * n \in Nat
    BY <1>2
  <2>5. \A j \in 1..n : 2 * j \in 1..(2 * n) /\ made(2 * j).token = NoHolder /\ made(2 * j).cookie = cookies[j]
    <3> TAKE j \in 1..n
    <3>1. (2 * j) % 2 # 1 /\ (2 * j + 1) \div 2 = j /\ 2 * j \in 1..(2 * n)
      BY <1>2
    <3> QED
      BY <3>1 DEF Attempt
  <2> HIDE DEF made, n
  <2>6. Attempts(cookies) \in Seq(GrokAttempt) /\ DOMAIN Attempts(cookies) = 1..(2 * n)
        /\ \A i \in 1..(2 * n) : Attempts(cookies)[i] = made(i)
    BY <2>1, <2>3, <2>4
  <2>7. ASSUME NEW y \in ToSet(Attempts(cookies))
        PROVE  y.token \in {NoHolder, errand.token} /\ y.cookie \in ToSet(cookies)
    <3>1. PICK i \in 1..(2 * n) : y = made(i)
      BY <2>6 DEF ToSet
    <3>2. y.token \in {NoHolder, errand.token} /\ y.cookie = cookies[(i + 1) \div 2]
          /\ (i + 1) \div 2 \in DOMAIN cookies
      BY <1>2, <2>2, <2>3, <3>1 DEF n
    <3> QED
      BY <3>2 DEF ToSet
  <2>8. ASSUME NEW k \in ToSet(cookies)
        PROVE  \E y \in ToSet(Attempts(cookies)) : y.token = NoHolder /\ y.cookie = k
    <3>1. PICK j \in 1..n : cookies[j] = k
      BY <1>2 DEF ToSet, n
    <3>2. made(2 * j) \in ToSet(Attempts(cookies))
      BY <2>5, <2>6, <3>1 DEF ToSet
    <3> QED
      BY <2>5, <3>1, <3>2
  <2> QED
    BY <2>6, <2>7, <2>8
<1> QED
  BY <1>3, <1>4

LEMMA TokenIsAlone ==
  ASSUME errand \in Asked
  PROVE  /\ TokenAlone \in Seq(GrokAttempt)
         /\ \A y \in ToSet(TokenAlone) : y.token = errand.token /\ y.token # NoHolder /\ y.cookie = NoCookie
         /\ errand.token # NoHolder => \E y \in ToSet(TokenAlone) : y.token = errand.token
<1>1. errand.token \in Holders \union {NoHolder}
  BY DEF Asked
<1>2. CASE errand.token = NoHolder
  BY <1>2 DEF TokenAlone, ToSet
<1>3. CASE errand.token # NoHolder
  <2>1. TokenAlone = <<Attempt(errand.token, NoCookie)>> /\ Attempt(errand.token, NoCookie) \in GrokAttempt
    BY <1>1, <1>3 DEF TokenAlone, Attempt, GrokAttempt, Shown
  <2>2. DOMAIN TokenAlone = {1} /\ TokenAlone[1] = Attempt(errand.token, NoCookie) /\ TokenAlone \in Seq(GrokAttempt)
    BY <2>1
  <2> QED
    BY <1>3, <2>2 DEF ToSet, Attempt
<1> QED
  BY <1>2, <1>3

LEMMA ErrandIsOf ==
  ASSUME GrokShape
  PROVE  /\ errand.at \in GrokStages <=> errand \in Asked
         /\ errand.at \in {"found", "import"} => errand.accounts \in SUBSET GrokAccount
BY DEF GrokShape, Errands, Asked, Nothing, GrokStages

LEMMA WhatIsImported ==
  ASSUME GrokShape
  PROVE  Imported \in Seq(Cookies) /\ Remembered \in Seq(Cookies) /\ (~locked => Imported = chrome)
BY DEF GrokShape, GrokWorld, Imported, Remembered

LEMMA GrokStarts == GrokInit => GrokInv
<1> SUFFICES ASSUME GrokInit PROVE GrokInv
  OBVIOUS
<1>1. /\ mode \in {"auto", "cli", "web"} /\ cliWorks \in BOOLEAN /\ locked \in BOOLEAN
      /\ home \in [GrokProfiles -> Holders \union {NoHolder}]
      /\ bearer \in [GrokProfiles -> {"good", "rejected", "expired"}]
      /\ \A p \in GrokProfiles : home[p] = NoHolder => bearer[p] = "expired"
  BY DEF GrokInit
<1>2. given \in {NoCookie, Invalid} \union Cookies /\ accepted \in SUBSET Cookies /\ cached \in Shown
  BY DEF GrokInit, NoCookie, Invalid, Cookies, Shown
<1>3. chrome \in Seq(Cookies) /\ recent \in Seq(Cookies)
  <2>1. 1 \in Cookies /\ 2 \in Cookies
    BY DEF Cookies
  <2>2. <<1, 2>> \in Seq(Cookies) /\ <<>> \in Seq(Cookies)
    BY <2>1
  <2> QED
    BY <2>2 DEF GrokInit
<1>4. errand = Nothing /\ errand.at \notin GrokStages
  BY DEF GrokInit, Nothing, GrokStages
<1> QED
  BY <1>1, <1>2, <1>3, <1>4 DEF GrokInv, GrokShape, GrokWorld, Errands

(* Steps that leave the world alone.                                       *)
LEMMA GrokShapeStays ==
  ASSUME GrokShape, UNCHANGED <<setup, signIns>>, recent' \in Seq(Cookies), cached' \in Shown, errand' \in Errands
  PROVE  GrokShape'
BY DEF GrokShape, GrokWorld, setup, signIns

LEMMA DiscoverGrokKeeps ==
  ASSUME GrokInv, DiscoverGrok \/ ImportForDiscovery \/ GrokDone
  PROVE  GrokInv'
<1>1. GrokShape /\ UNCHANGED <<setup, signIns, cached>> /\ cached' \in Shown
  BY DEF GrokInv, GrokShape, DiscoverGrok, ImportForDiscovery, GrokDone, ErrandIs, caches
<1>2. recent' \in Seq(Cookies)
  BY <1>1, WhatIsImported DEF GrokShape, DiscoverGrok, ImportForDiscovery, GrokDone, ErrandIs, caches
<1> DEFINE Resting == {Nothing} \union [at : {"found", "import"}, accounts : SUBSET GrokAccount]
<1>3. ASSUME errand' \in Resting PROVE GrokInv'
  <2>1. errand'.at \notin GrokStages /\ errand' \in Errands
    BY <1>3 DEF Nothing, GrokStages, Errands
  <2> QED
    BY <1>1, <1>2, <2>1, GrokShapeStays DEF GrokInv
<1>4. ASSUME NEW known \in SUBSET GrokAccount PROVE Discovered(known) \in Resting
  BY DEF Discovered, Deduplicated
<1>5. \A p \in GrokProfiles : home[p] # NoHolder \/ p = "default" => AccountOf(p) \in GrokAccount
  BY <1>1 DEF GrokShape, GrokWorld, AccountOf, GrokAccount, GrokProfiles
<1>6. CASE DiscoverGrok
  <2> DEFINE known == {AccountOf(p) : p \in {p \in GrokProfiles : home[p] # NoHolder}}
  <2>1. known \in SUBSET GrokAccount /\ AccountOf("default") \in GrokAccount
    BY <1>5 DEF GrokProfiles
  <2>2. [at |-> "import", accounts |-> known] \in Resting
    BY <2>1
  <2>3. known \union {AccountOf("default")} \in SUBSET GrokAccount
    BY <2>1
  <2>4. errand' \in {Discovered(known \union {AccountOf("default")}), [at |-> "import", accounts |-> known],
                     Discovered(known)}
    BY <1>6 DEF DiscoverGrok, ErrandIs
  <2> HIDE DEF known
  <2> QED
    BY <1>3, <1>4, <2>1, <2>2, <2>3, <2>4
<1>7. CASE ImportForDiscovery
  <2>1. errand.accounts \in SUBSET GrokAccount
    BY <1>1, <1>7, ErrandIsOf DEF ImportForDiscovery
  <2>2. [p |-> "default", who |-> Placeholder] \in GrokAccount
    BY DEF GrokAccount
  <2>3. errand' = Discovered(errand.accounts \union
                      (IF Imported = <<>> THEN {} ELSE {[p |-> "default", who |-> Placeholder]}))
    BY <1>7 DEF ImportForDiscovery
  <2>4. errand.accounts \union (IF Imported = <<>> THEN {} ELSE {[p |-> "default", who |-> Placeholder]})
          \in SUBSET GrokAccount
    BY <2>1, <2>2
  <2> QED
    BY <1>3, <1>4, <2>3, <2>4
<1>8. CASE GrokDone
  BY <1>3, <1>8 DEF GrokDone, ErrandIs
<1> QED
  BY <1>6, <1>7, <1>8

LEMMA CollectGrokKeeps ==
  ASSUME GrokInv, CollectGrok
  PROVE  GrokInv'
<1>1. GrokShape /\ UNCHANGED <<setup, signIns, caches>>
  BY DEF GrokInv, CollectGrok, ErrandIs
<1>2. PICK a \in GrokAccount : errand' = Asking(a)
  BY <1>1, ErrandIsOf DEF CollectGrok, ErrandIs
<1>3. errand' \in Asked /\ errand'.at = "own" /\ errand'.stage = "none" /\ errand'.token = NoHolder
      /\ errand'.cookie = NoCookie
  BY <1>2 DEF Asking, Asked, GrokStages, Shown
<1>4. GrokShape'
  BY <1>1, <1>3, GrokShapeStays DEF GrokShape, caches, Errands
<1>5. ShownInOrder'
  BY <1>3 DEF ShownInOrder, InRpc
<1>6. SourcesLeft'
  BY <1>3 DEF SourcesLeft
<1> QED
  BY <1>4, <1>5, <1>6 DEF GrokInv

LEMMA OwnKeeps ==
  ASSUME GrokInv, OwnCredentials
  PROVE  GrokInv'
<1>1. GrokShape /\ errand \in Asked /\ errand.at = "own" /\ ShownInOrder
  BY ErrandIsOf DEF GrokInv, OwnCredentials, GrokStages
<1>2. UNCHANGED <<setup, signIns, caches>>
  BY DEF OwnCredentials, ErrandIs, ErrandFails
<1>3. UNCHANGED <<mode, given, cliWorks, home, bearer, chrome, locked, accepted, cached, recent>>
  BY <1>2 DEF setup, signIns, caches
<1>4. errand.a.p \in GrokProfiles /\ errand.a \in GrokAccount
  BY <1>1 DEF Asked, GrokAccount, GrokProfiles
<1>5. CASE ~SameHolder(errand.a)
  <2>1. errand' = [errand EXCEPT !.at = "failed"]
    BY <1>5 DEF OwnCredentials, ErrandIs, ErrandFails
  <2>2. errand' \in Asked /\ errand'.at = "failed" /\ errand'.a = errand.a /\ errand'.token = errand.token
        /\ errand'.stage = errand.stage /\ errand'.cookie = errand.cookie
    BY <1>1, <2>1 DEF Asked, GrokStages
  <2>3. GrokShape'
    BY <1>1, <1>2, <1>3, <2>2, GrokShapeStays DEF GrokShape, Errands
  <2>4. ShownInOrder'
    BY <1>1, <1>3, <2>2 DEF ShownInOrder, InRpc, Managed
  <2>5. SourcesLeft'
    BY <1>1, <1>3, <1>5, <2>2 DEF SourcesLeft, ShownInOrder, NoSourcePassedOver, CookiesInOrder, SameHolder
  <2> QED
    BY <2>3, <2>4, <2>5 DEF GrokInv
<1>6. CASE SameHolder(errand.a)
  <2> DEFINE at == IF UsesCli THEN "initialize" ELSE "web"
             token == OwnToken(errand.a.p)
  <2>1. errand' = [errand EXCEPT !.at = at, !.token = token]
    BY <1>6 DEF OwnCredentials, ErrandIs, OwnToken
  <2>2. token \in Holders \union {NoHolder}
    BY <1>1, <1>4 DEF OwnToken, GrokShape, GrokWorld
  <2>3. Managed => token \in {NoHolder, errand.a.who}
    <3>1. Managed => errand.a.who \in Holders /\ errand.a.who # Placeholder
      BY <1>4, GrokAssumption DEF Managed, GrokAccount
    <3> QED
      BY <1>6, <3>1 DEF SameHolder, OwnToken
  <2>4. at \in GrokStages
    BY DEF GrokStages
  <2> HIDE DEF token, at
  <2>5. errand' \in Asked /\ errand'.at = at /\ errand'.a = errand.a /\ errand'.token = token
        /\ errand'.stage = errand.stage /\ errand'.cookie = errand.cookie
    BY <1>1, <2>1, <2>2, <2>4 DEF Asked
  <2>6. GrokShape'
    BY <1>1, <1>2, <1>3, <2>5, GrokShapeStays DEF GrokShape, Errands
  <2>7. ShownInOrder'
    BY <1>1, <1>3, <2>3, <2>5 DEF ShownInOrder, InRpc, Managed, UsesCli, at
  <2>8. SourcesLeft'
    BY <1>1, <1>3, <1>6, <2>5 DEF SourcesLeft, SameHolder, OwnToken, CliAnswers, UsesCli, at, token
  <2> QED
    BY <2>6, <2>7, <2>8 DEF GrokInv
<1> QED
  BY <1>5, <1>6

LEMMA RpcKeeps ==
  ASSUME GrokInv, Rpc
  PROVE  GrokInv'
<1>1. GrokShape /\ errand \in Asked /\ InRpc /\ ShownInOrder /\ (errand.calm => SourcesLeft)
  BY ErrandIsOf DEF GrokInv, Rpc, InRpc, GrokStages
<1>2. UNCHANGED <<setup, signIns, caches>>
  BY DEF Rpc, ErrandIs
<1>3. UNCHANGED <<mode, given, cliWorks, home, bearer, chrome, locked, accepted, cached, recent>>
  BY <1>2 DEF setup, signIns, caches
<1>4. errand.a.p \in GrokProfiles /\ errand.a \in GrokAccount /\ mode \in {"auto", "cli"}
      /\ home[errand.a.p] \in Holders \union {NoHolder} /\ errand.stage = "none" /\ errand.cookie = NoCookie
  BY <1>1 DEF Asked, GrokAccount, GrokProfiles, GrokShape, GrokWorld, ShownInOrder, UsesCli, InRpc
<1>5. errand.calm => SameHolder(errand.a) /\ errand.token = OwnToken(errand.a.p)
  BY <1>1 DEF SourcesLeft, InRpc
<1>6. CASE ~cliWorks \/ (errand.at = "billing" /\ home[errand.a.p] = NoHolder)
  <2>1. errand' = [errand EXCEPT !.at = FallsBack] /\ FallsBack = IF mode = "auto" THEN "web" ELSE "failed"
    BY <1>6 DEF Rpc, ErrandIs, FallsBack
  <2>2. errand' \in Asked /\ errand'.at = FallsBack /\ errand'.a = errand.a /\ errand'.token = errand.token
        /\ errand'.stage = "none" /\ errand'.cookie = NoCookie /\ errand'.calm = errand.calm
    BY <1>1, <1>4, <2>1 DEF Asked, GrokStages
  <2>3. GrokShape'
    BY <1>1, <1>2, <1>3, <2>2, GrokShapeStays DEF GrokShape, Errands
  <2>4. ShownInOrder'
    BY <1>1, <1>3, <2>1, <2>2 DEF ShownInOrder, InRpc, Managed
  <2>5. errand.calm => SourcesLeft'
    BY <1>3, <1>4, <1>5, <1>6, <2>1, <2>2
       DEF SourcesLeft, SameHolder, OwnToken, CliAnswers, NoSourcePassedOver, CookiesInOrder, UsesWeb
  <2> QED
    BY <2>2, <2>3, <2>4, <2>5 DEF GrokInv
<1>7. CASE cliWorks /\ ~(errand.at = "billing" /\ home[errand.a.p] = NoHolder)
  <2> DEFINE at == CASE errand.at = "initialize" -> "authenticate" [] errand.at = "authenticate" -> "billing"
                     [] OTHER -> "collected"
             who == home[errand.a.p]
  <2>1. errand' = [AfterRpc("collected") EXCEPT !.of = who] /\ AfterRpc("collected") = [errand EXCEPT !.at = at]
    BY <1>7 DEF Rpc, ErrandIs, AfterRpc
  <2>2. at \in {"authenticate", "billing", "collected"} /\ at \in GrokStages
        /\ (at = "collected" => errand.at = "billing")
    BY <1>1 DEF InRpc, GrokStages
  <2> HIDE DEF at
  <2>3. AfterRpc("collected") \in Asked
    BY <1>1, <2>1, <2>2 DEF Asked
  <2>4. errand' \in Asked /\ errand'.at = at /\ errand'.a = errand.a /\ errand'.token = errand.token
        /\ errand'.stage = "none" /\ errand'.cookie = NoCookie /\ errand'.calm = errand.calm /\ errand'.of = who
    BY <1>1, <1>4, <2>1, <2>2, <2>3 DEF Asked
  <2>5. GrokShape'
    BY <1>1, <1>2, <1>3, <2>4, GrokShapeStays DEF GrokShape, Errands
  <2>6. Managed /\ errand.calm /\ at = "collected" => who = errand.a.who
    <3>1. Managed => errand.a.who # Placeholder
      BY <1>4, GrokAssumption DEF Managed, GrokAccount
    <3> QED
      BY <1>5, <1>7, <2>2, <3>1 DEF SameHolder
  <2>7. ShownInOrder'
    BY <1>1, <1>3, <2>2, <2>4, <2>6 DEF ShownInOrder, InRpc, Managed, Tellable, UsesCli
  <2>8. errand.calm => SourcesLeft'
    BY <1>3, <1>5, <2>2, <2>4 DEF SourcesLeft, SameHolder, OwnToken
  <2> QED
    BY <2>4, <2>5, <2>7, <2>8 DEF GrokInv
<1> QED
  BY <1>6, <1>7

(* Cookies are tried, each with the token first, and the token at the end. *)
LEMMA TriesHold ==
  ASSUME errand \in Asked, NEW cookies \in Seq(Cookies)
  PROVE  /\ Attempts(cookies) \o TokenAlone \in Seq(GrokAttempt)
         /\ \A y \in ToSet(Attempts(cookies) \o TokenAlone) :
              y.token \in {NoHolder, errand.token} /\ y.cookie \in ToSet(cookies) \union {NoCookie}
         /\ \A k \in ToSet(cookies) :
              \E y \in ToSet(Attempts(cookies) \o TokenAlone) : y.token = NoHolder /\ y.cookie = k
         /\ errand.token # NoHolder => \E y \in ToSet(Attempts(cookies) \o TokenAlone) : y.token = errand.token
<1>1. /\ Attempts(cookies) \o TokenAlone \in Seq(GrokAttempt)
      /\ ToSet(Attempts(cookies) \o TokenAlone) = ToSet(Attempts(cookies)) \union ToSet(TokenAlone)
  BY AttemptsHold, TokenIsAlone, SetOfConcat
<1> QED
  BY <1>1, AttemptsHold, TokenIsAlone

LEMMA OneCookie ==
  ASSUME NEW k \in Cookies
  PROVE  <<k>> \in Seq(Cookies) /\ ToSet(<<k>>) = {k}
BY DEF ToSet

LEMMA TriesKeep ==
  ASSUME GrokShape, errand \in Asked, ShownInOrder, errand.calm => SourcesLeft,
         UNCHANGED <<setup, signIns>>, recent' \in Seq(Cookies), cached' \in Shown,
         errand.cookie = NoCookie,
         NEW way \in {"given", "recent", "cached", "imported", "token"}, NEW left \in Seq(GrokAttempt),
         errand' = Tries(way, left),
         Managed <=> way = "token",
         way # "token" => (way = "given" <=> given # NoCookie),
         \A y \in ToSet(left) : /\ y.token \in {NoHolder, errand.token}
                                /\ way = "token" => y.token = errand.token /\ y.token # NoHolder /\ y.cookie = NoCookie
                                /\ given # NoCookie => y.cookie \in {NoCookie, given},
         errand.calm =>
           /\ SameHolder(errand.a) /\ errand.token = OwnToken(errand.a.p) /\ ~CliAnswers
           /\ bearer[errand.a.p] = "good" => \E y \in ToSet(left) : y.token = errand.token
           /\ way = "given" => \E y \in ToSet(left) : y.token = NoHolder /\ y.cookie = given
           /\ way = "imported" /\ ~locked =>
                /\ cached' = NoCookie
                /\ \A k \in ToSet(chrome) : \E y \in ToSet(left) : y.token = NoHolder /\ y.cookie = k
  PROVE  GrokInv'
<1>1. UNCHANGED <<mode, given, cliWorks, home, bearer, chrome, locked, accepted>>
  BY DEF setup, signIns
<1>2. /\ errand' \in Asked /\ errand'.at = "try" /\ errand'.a = errand.a /\ errand'.token = errand.token
      /\ errand'.stage = way /\ errand'.left = left /\ errand'.cookie = NoCookie /\ errand'.calm = errand.calm
  BY DEF Tries, Asked, GrokStages
<1>3. GrokShape'
  BY <1>2, GrokShapeStays DEF Errands
<1>4. ShownInOrder'
  <2>1. ASSUME NEW y \in ToSet(left) PROVE ShownAs(y)'
    <3>1. Managed => errand.token \in {NoHolder, errand.a.who}
      BY DEF ShownInOrder
    <3> QED
      BY <1>1, <1>2, <2>1, <3>1 DEF ShownAs, Managed
  <2>2. Managed' <=> Managed
    BY <1>2 DEF Managed
  <2> QED
    BY <1>1, <1>2, <2>1, <2>2 DEF ShownInOrder, InRpc
<1>5. ASSUME errand.calm PROVE SourcesLeft'
  <2>1. errand.a.p \in GrokProfiles
    BY DEF Asked, GrokAccount, GrokProfiles
  <2>2. bearer[errand.a.p] = "good" => home[errand.a.p] # NoHolder
    BY <2>1 DEF GrokShape, GrokWorld
  <2>3. ASSUME bearer[errand.a.p] = "good" PROVE \E y \in ToSet(left) : TokenWorks(y)'
    <3>1. PICK y \in ToSet(left) : y.token = errand.token
      BY <1>5, <2>3
    <3>2. y.token = home[errand.a.p] /\ y.token # NoHolder
      BY <1>5, <2>2, <2>3, <3>1 DEF OwnToken
    <3> QED
      BY <1>1, <1>2, <2>3, <3>2 DEF TokenWorks
  <2>4. CookiesLeft'
    BY <1>1, <1>2, <1>5, <2>3 DEF CookiesLeft, CookieLeft, Managed
  <2> QED
    BY <1>1, <1>2, <1>5, <2>4 DEF SourcesLeft, SameHolder, OwnToken, CliAnswers, UsesCli
<1> QED
  BY <1>2, <1>3, <1>4, <1>5 DEF GrokInv

LEMMA WebStartKeeps ==
  ASSUME GrokInv, WebStart
  PROVE  GrokInv'
<1>1. GrokShape /\ errand \in Asked /\ errand.at = "web" /\ ShownInOrder /\ (errand.calm => SourcesLeft)
  BY ErrandIsOf DEF GrokInv, WebStart, GrokStages
<1>2. UNCHANGED <<setup, signIns, caches>>
  BY DEF WebStart, ErrandIs, ErrandFails
<1>3. UNCHANGED <<mode, given, cliWorks, home, bearer, chrome, locked, accepted, cached, recent>>
  BY <1>2 DEF setup, signIns, caches
<1>4. /\ errand.stage = "none" /\ errand.cookie = NoCookie /\ cached' \in Shown /\ recent' \in Seq(Cookies)
      /\ (Managed <=> ~AllowsBrowser(errand.a.p)) /\ given \in {NoCookie, Invalid} \union Cookies
      /\ recent \in Seq(Cookies) /\ cached \in Shown
  BY <1>1, <1>3 DEF ShownInOrder, GrokShape, GrokWorld, AllowsBrowser, Managed, Asked, GrokAccount
<1>5. errand.calm => SameHolder(errand.a) /\ errand.token = OwnToken(errand.a.p) /\ ~CliAnswers
  BY <1>1 DEF SourcesLeft
<1>6. errand.calm /\ bearer[errand.a.p] = "good" => errand.token # NoHolder
  <2>1. errand.a.p \in GrokProfiles
    BY <1>1 DEF Asked, GrokAccount, GrokProfiles
  <2>2. bearer[errand.a.p] = "good" => home[errand.a.p] # NoHolder
    BY <1>1, <2>1 DEF GrokShape, GrokWorld
  <2> QED
    BY <1>5, <2>2 DEF OwnToken
<1>7. CASE Managed
  <2>1. errand' = Tries("token", TokenAlone)
    BY <1>4, <1>7 DEF WebStart, ErrandIs
  <2>2. /\ TokenAlone \in Seq(GrokAttempt)
        /\ \A y \in ToSet(TokenAlone) : y.token = errand.token /\ y.token # NoHolder /\ y.cookie = NoCookie
        /\ errand.token # NoHolder => \E y \in ToSet(TokenAlone) : y.token = errand.token
    BY <1>1, TokenIsAlone
  <2> QED
    BY <1>1, <1>2, <1>4, <1>5, <1>6, <1>7, <2>1, <2>2, TriesKeep
<1>8. CASE ~Managed /\ given = Invalid
  <2>1. errand' = [errand EXCEPT !.at = "failed"]
    BY <1>4, <1>8 DEF WebStart, ErrandIs, ErrandFails
  <2>2. errand' \in Asked /\ errand'.at = "failed" /\ errand'.a = errand.a /\ errand'.token = errand.token
        /\ errand'.stage = "none" /\ errand'.cookie = NoCookie /\ errand'.calm = errand.calm
    BY <1>1, <1>4, <2>1 DEF Asked, GrokStages
  <2>3. GrokShape'
    BY <1>1, <1>2, <1>4, <2>2, GrokShapeStays DEF Errands
  <2>4. ShownInOrder'
    BY <1>1, <1>3, <2>2 DEF ShownInOrder, InRpc, Managed
  <2>5. errand.calm => SourcesLeft'
    BY <1>3, <1>4, <1>5, <1>8, <2>2
       DEF SourcesLeft, CliAnswers, NoSourcePassedOver, CookiesInOrder, AllowsBrowser, UsesCli
  <2> QED
    BY <2>2, <2>3, <2>4, <2>5 DEF GrokInv
<1>9. ASSUME NEW k \in Cookies, NEW way \in {"given", "cached"}, ~Managed, given # Invalid,
             errand' = Tries(way, Attempts(<<k>>) \o TokenAlone),
             IF way = "given" THEN k = given ELSE given = NoCookie
      PROVE  GrokInv'
  <2> DEFINE left == Attempts(<<k>>) \o TokenAlone
  <2>1. <<k>> \in Seq(Cookies) /\ ToSet(<<k>>) = {k}
    BY OneCookie
  <2>2. /\ left \in Seq(GrokAttempt)
        /\ \A y \in ToSet(left) : y.token \in {NoHolder, errand.token} /\ y.cookie \in {k, NoCookie}
        /\ \E y \in ToSet(left) : y.token = NoHolder /\ y.cookie = k
        /\ errand.token # NoHolder => \E y \in ToSet(left) : y.token = errand.token
    BY <1>1, <2>1, TriesHold
  <2>3. given = NoCookie \/ way = "given"
    BY <1>9
  <2>4. way = "given" => given # NoCookie
    BY <1>9 DEF Cookies, NoCookie
  <2>5. errand' = Tries(way, left)
    BY <1>9
  <2> HIDE DEF left
  <2> QED
    BY <1>1, <1>2, <1>4, <1>5, <1>6, <1>9, <2>2, <2>3, <2>4, <2>5, TriesKeep
<1>10. CASE ~Managed /\ given \notin {NoCookie, Invalid}
  <2>1. errand' = Tries("given", Attempts(<<given>>) \o TokenAlone)
    BY <1>4, <1>10 DEF WebStart, ErrandIs
  <2> QED
    BY <1>4, <1>9, <1>10, <2>1
<1>11. CASE ~Managed /\ given = NoCookie /\ recent # <<>>
  <2> DEFINE left == Attempts(recent) \o TokenAlone
  <2>1. errand' = Tries("recent", left)
    BY <1>4, <1>11 DEF WebStart, ErrandIs, NoCookie, Invalid
  <2>2. /\ left \in Seq(GrokAttempt)
        /\ \A y \in ToSet(left) : y.token \in {NoHolder, errand.token}
        /\ errand.token # NoHolder => \E y \in ToSet(left) : y.token = errand.token
    BY <1>1, <1>4, TriesHold
  <2> HIDE DEF left
  <2> QED
    BY <1>1, <1>2, <1>4, <1>5, <1>6, <1>11, <2>1, <2>2, TriesKeep
<1>12. CASE ~Managed /\ given = NoCookie /\ recent = <<>> /\ cached # NoCookie /\ ~locked
  <2>1. errand' = Tries("cached", Attempts(<<cached>>) \o TokenAlone)
    BY <1>4, <1>12 DEF WebStart, ErrandIs, NoCookie, Invalid
  <2>2. cached \in Cookies /\ given # Invalid
    BY <1>4, <1>12 DEF Shown, NoCookie, Invalid
  <2> QED
    BY <1>9, <1>12, <2>1, <2>2
<1>13. CASE ~Managed /\ given = NoCookie /\ recent = <<>> /\ ~(cached # NoCookie /\ ~locked)
  <2>1. errand' = [errand EXCEPT !.at = "import_first"]
    BY <1>4, <1>13 DEF WebStart, ErrandIs, NoCookie, Invalid
  <2>2. errand' \in Asked /\ errand'.at = "import_first" /\ errand'.a = errand.a /\ errand'.token = errand.token
        /\ errand'.stage = "none" /\ errand'.cookie = NoCookie /\ errand'.calm = errand.calm
    BY <1>1, <1>4, <2>1 DEF Asked, GrokStages
  <2>3. GrokShape'
    BY <1>1, <1>2, <1>4, <2>2, GrokShapeStays DEF Errands
  <2>4. ShownInOrder'
    BY <1>1, <1>3, <1>13, <2>2 DEF ShownInOrder, InRpc, Managed
  <2>5. errand.calm => SourcesLeft'
    BY <1>3, <1>5, <1>13, <2>2 DEF SourcesLeft, SameHolder, OwnToken, CliAnswers, UsesCli, Managed
  <2> QED
    BY <2>2, <2>3, <2>4, <2>5 DEF GrokInv
<1> QED
  BY <1>7, <1>8, <1>10, <1>11, <1>12, <1>13

LEMMA ImportKeeps ==
  ASSUME GrokInv, ImportFirst \/ ImportAgain
  PROVE  GrokInv'
<1>1. GrokShape /\ errand \in Asked /\ errand.at \in {"import_first", "try"} /\ ShownInOrder
      /\ (errand.calm => SourcesLeft)
  BY ErrandIsOf DEF GrokInv, ImportFirst, ImportAgain, GrokStages
<1>2. UNCHANGED <<setup, signIns>>
  BY DEF ImportFirst, ImportAgain
<1>3. /\ errand.cookie = NoCookie /\ cached' \in Shown /\ recent' \in Seq(Cookies)
      /\ Imported \in Seq(Cookies) /\ (~locked => Imported = chrome)
  BY <1>1, WhatIsImported DEF ShownInOrder, GrokShape, ImportFirst, ImportAgain, Kept, Shown
<1>4. errand.calm => SameHolder(errand.a) /\ errand.token = OwnToken(errand.a.p) /\ ~CliAnswers
  BY <1>1 DEF SourcesLeft
<1>5. CASE ImportFirst
  <2> DEFINE left == Attempts(Imported) \o TokenAlone
  <2>0. errand.at = "import_first"
    BY <1>5 DEF ImportFirst
  <2>1. errand' = Tries("imported", left) /\ cached' = cached
    BY <1>5 DEF ImportFirst
  <2>2. /\ left \in Seq(GrokAttempt)
        /\ \A y \in ToSet(left) : y.token \in {NoHolder, errand.token}
        /\ \A k \in ToSet(Imported) : \E y \in ToSet(left) : y.token = NoHolder /\ y.cookie = k
        /\ errand.token # NoHolder => \E y \in ToSet(left) : y.token = errand.token
    BY <1>1, <1>3, TriesHold
  <2>3. ~Managed /\ given = NoCookie
    BY <1>1, <2>0 DEF ShownInOrder
  <2>4. errand.calm /\ bearer[errand.a.p] = "good" => errand.token # NoHolder
    <3>1. errand.a.p \in GrokProfiles
      BY <1>1 DEF Asked, GrokAccount, GrokProfiles
    <3>2. bearer[errand.a.p] = "good" => home[errand.a.p] # NoHolder
      BY <1>1, <3>1 DEF GrokShape, GrokWorld
    <3> QED
      BY <1>4, <3>2 DEF OwnToken
  <2>5. errand.calm /\ ~locked => cached' = NoCookie
    BY <1>1, <2>0, <2>1 DEF SourcesLeft
  <2> HIDE DEF left
  <2> QED
    BY <1>1, <1>2, <1>3, <1>4, <2>1, <2>2, <2>3, <2>4, <2>5, TriesKeep
<1>6. CASE ImportAgain
  <2> DEFINE left == Attempts(Imported)
  <2>1. errand' = Tries("imported", left) /\ cached' = Kept(NoCookie) /\ errand.left = <<>>
        /\ errand.stage = "cached" /\ errand.at = "try"
    BY <1>6 DEF ImportAgain, ImportsAgain
  <2>2. /\ left \in Seq(GrokAttempt)
        /\ \A y \in ToSet(left) : y.token \in {NoHolder, errand.token}
        /\ \A k \in ToSet(Imported) : \E y \in ToSet(left) : y.token = NoHolder /\ y.cookie = k
    BY <1>1, <1>3, AttemptsHold
  <2>3. ~Managed /\ given = NoCookie
    BY <1>1, <2>1 DEF ShownInOrder
  <2>4. errand.calm => bearer[errand.a.p] # "good"
    <3>1. ToSet(errand.left) = {}
      BY <2>1 DEF ToSet
    <3> QED
      BY <1>1, <2>1, <3>1 DEF SourcesLeft, CookiesLeft
  <2>5. ~locked => cached' = NoCookie
    BY <2>1 DEF Kept
  <2> HIDE DEF left
  <2> QED
    BY <1>1, <1>2, <1>3, <1>4, <2>1, <2>2, <2>3, <2>4, <2>5, TriesKeep
<1> QED
  BY <1>5, <1>6

LEMMA AskKeeps ==
  ASSUME GrokInv, Ask
  PROVE  GrokInv'
<1> DEFINE a == Head(errand.left)
<1>1. GrokShape /\ errand \in Asked /\ errand.at = "try" /\ ShownInOrder /\ (errand.calm => SourcesLeft)
  BY ErrandIsOf DEF GrokInv, Ask, GrokStages
<1>2. UNCHANGED <<setup, signIns, recent>>
  BY DEF Ask
<1>3. UNCHANGED <<mode, given, cliWorks, home, bearer, chrome, locked, accepted, recent>>
  BY <1>2 DEF setup, signIns
<1>4. /\ Tail(errand.left) \in Seq(GrokAttempt) /\ a \in GrokAttempt /\ a \in ToSet(errand.left)
      /\ ToSet(errand.left) = {a} \union ToSet(Tail(errand.left))
  <2>1. errand.left \in Seq(GrokAttempt) /\ errand.left # <<>>
    BY <1>1 DEF Asked, Ask
  <2> QED
    BY <2>1, SetOfTail
<1>5. ShownAs(a) /\ errand.stage # "none"
  BY <1>1, <1>4 DEF ShownInOrder
<1>6. cached' \in Shown /\ recent' \in Seq(Cookies)
  BY <1>1, <1>4 DEF Ask, Kept, GrokShape, GrokAttempt
<1> HIDE DEF a
<1>7. CASE Works(a)
  <2>1. errand' = [errand EXCEPT !.at = "collected", !.of = a.token, !.cookie = a.cookie]
    BY <1>7 DEF Ask, a
  <2>2. errand' \in Asked /\ errand'.at = "collected" /\ errand'.a = errand.a /\ errand'.token = errand.token
        /\ errand'.stage = errand.stage /\ errand'.cookie = a.cookie /\ errand'.calm = errand.calm /\ errand'.of = a.token
    BY <1>1, <1>4, <2>1 DEF Asked, GrokStages, GrokAttempt
  <2>3. GrokShape'
    BY <1>1, <1>2, <1>6, <2>2, GrokShapeStays DEF Errands
  <2>4. ShownInOrder'
    BY <1>1, <1>3, <1>5, <2>2 DEF ShownInOrder, ShownAs, InRpc, Managed, Tellable
  <2>5. errand.calm => SourcesLeft'
    BY <1>1, <1>3, <2>2 DEF SourcesLeft, SameHolder, OwnToken
  <2> QED
    BY <2>2, <2>3, <2>4, <2>5 DEF GrokInv
<1>8. CASE ~Works(a)
  <2>1. errand' = [errand EXCEPT !.left = Tail(errand.left), !.tried = errand.tried \union {a.cookie}]
        /\ cached' = cached
    BY <1>8 DEF Ask, a
  <2>2. errand' \in Asked /\ errand'.at = "try" /\ errand'.a = errand.a /\ errand'.token = errand.token
        /\ errand'.stage = errand.stage /\ errand'.cookie = errand.cookie /\ errand'.calm = errand.calm
        /\ errand'.left = Tail(errand.left)
    BY <1>1, <1>4, <2>1 DEF Asked, GrokAttempt
  <2>3. GrokShape'
    BY <1>1, <1>2, <1>6, <2>2, GrokShapeStays DEF Errands
  <2>4. ShownInOrder'
    BY <1>1, <1>3, <1>4, <2>2 DEF ShownInOrder, ShownAs, InRpc, Managed
  <2>5. ASSUME errand.calm PROVE SourcesLeft'
    <3>1. SourcesLeft /\ CookiesLeft
      BY <1>1, <2>5 DEF SourcesLeft
    <3>2. ~TokenWorks(a) /\ \A k \in accepted : ~(a.token = NoHolder /\ a.cookie = k)
      BY <1>8 DEF Works
    <3>3. \A y : TokenWorks(y)' <=> TokenWorks(y)
      BY <1>3, <2>2 DEF TokenWorks
    <3>4. bearer[errand.a.p] = "good" => \E y \in ToSet(Tail(errand.left)) : TokenWorks(y)
      BY <1>4, <3>1, <3>2 DEF CookiesLeft
    <3>5. \A k \in accepted : CookieLeft(k) => CookieLeft(k)'
      BY <1>4, <2>2, <3>2 DEF CookieLeft
    <3>6. CookiesLeft'
      BY <1>3, <2>1, <2>2, <3>1, <3>3, <3>4, <3>5 DEF CookiesLeft, Managed, CookieLeft
    <3> QED
      BY <1>1, <1>3, <2>2, <3>1, <3>6 DEF SourcesLeft, SameHolder, OwnToken, CliAnswers, UsesCli
  <2> QED
    BY <2>2, <2>3, <2>4, <2>5 DEF GrokInv
<1> QED
  BY <1>7, <1>8

LEMMA GiveUpKeeps ==
  ASSUME GrokInv, GiveUp
  PROVE  GrokInv'
<1>1. GrokShape /\ errand \in Asked /\ errand.at = "try" /\ ShownInOrder /\ (errand.calm => SourcesLeft)
  BY ErrandIsOf DEF GrokInv, GiveUp, GrokStages
<1>2. UNCHANGED <<setup, signIns, caches>>
  BY DEF GiveUp, ErrandFails, ErrandIs
<1>3. UNCHANGED <<mode, given, cliWorks, home, bearer, chrome, locked, accepted, recent, cached>>
  BY <1>2 DEF setup, signIns, caches
<1>4. errand' = [errand EXCEPT !.at = "failed"] /\ errand.stage # "cached" /\ ToSet(errand.left) = {}
  BY DEF GiveUp, ErrandFails, ErrandIs, ImportsAgain, ToSet
<1>5. errand' \in Asked /\ errand'.at = "failed" /\ errand'.a = errand.a /\ errand'.token = errand.token
      /\ errand'.stage = errand.stage /\ errand'.cookie = errand.cookie /\ errand'.calm = errand.calm
      /\ errand'.tried = errand.tried
  BY <1>1, <1>4 DEF Asked, GrokStages
<1>6. GrokShape'
  BY <1>1, <1>2, <1>3, <1>5, GrokShapeStays DEF Errands, GrokShape
<1>7. ShownInOrder'
  BY <1>1, <1>3, <1>5 DEF ShownInOrder, InRpc, Managed
<1>8. ASSUME errand.calm PROVE SourcesLeft'
  <2>1. CookiesLeft /\ ~CliAnswers /\ errand.stage # "none"
    BY <1>1, <1>8 DEF SourcesLeft, ShownInOrder
  <2>2. bearer[errand.a.p] # "good" /\ \A k : ~CookieLeft(k)
    BY <1>4, <2>1 DEF CookiesLeft, CookieLeft
  <2>3. AllowsBrowser(errand.a.p) <=> ~Managed
    BY <1>1 DEF AllowsBrowser, Managed, Asked, GrokAccount
  <2>4. Managed \/ given # NoCookie \/ errand.stage \in {"recent", "imported"}
    BY <1>1, <1>4, <2>1 DEF ShownInOrder, Asked
  <2>5. ~Managed /\ given # NoCookie => given \notin accepted
    BY <1>1, <2>1, <2>2 DEF CookiesLeft, ShownInOrder
  <2>6. errand.stage = "imported" /\ ~locked =>
          cached = NoCookie /\ NoCookie \notin accepted /\ ToSet(chrome) \intersect accepted = {}
    BY <1>1, <2>1, <2>2 DEF CookiesLeft, GrokShape, GrokWorld, Cookies, NoCookie
  <2>7. NoSourcePassedOver'
    BY <1>3, <1>5, <2>1, <2>2, <2>3, <2>4, <2>5, <2>6
       DEF NoSourcePassedOver, CliAnswers, UsesCli, UsesWeb, SameHolder, AllowsBrowser
  <2>8. CookiesInOrder'
    BY <1>3, <1>5, <2>6 DEF CookiesInOrder
  <2> QED
    BY <1>5, <2>7, <2>8 DEF SourcesLeft
<1> QED
  BY <1>5, <1>6, <1>7, <1>8 DEF GrokInv

LEMMA GrokOthersKeep ==
  ASSUME GrokInv, NEW p \in GrokProfiles, NEW who \in Holders \union {NoHolder},
         RequestLimited \/ RequestLost \/ HomeChanges(p, who) \/ BrowserChanges
  PROVE  GrokInv'
<1>1. GrokShape /\ UNCHANGED <<setup, caches>>
  BY DEF GrokInv, RequestLimited, RequestLost, HomeChanges, BrowserChanges
<1>2. UNCHANGED <<mode, given, cliWorks, cached, recent>>
  BY <1>1 DEF setup, caches
<1>3. GrokWorld'
  <2>1. CASE RequestLimited \/ RequestLost
    BY <1>1, <2>1 DEF RequestLimited, RequestLost, setup, signIns, GrokShape, GrokWorld
  <2>2. CASE HomeChanges(p, who)
    <3>1. home' = [home EXCEPT ![p] = who] /\ UNCHANGED <<chrome, locked, accepted>>
          /\ bearer' = [bearer EXCEPT ![p] = IF who = NoHolder THEN "expired" ELSE "good"]
      BY <2>2 DEF HomeChanges
    <3>2. home' \in [GrokProfiles -> Holders \union {NoHolder}]
          /\ bearer' \in [GrokProfiles -> {"good", "rejected", "expired"}]
      BY <1>1, <3>1 DEF GrokShape, GrokWorld
    <3>3. ASSUME NEW q \in GrokProfiles, home'[q] = NoHolder PROVE bearer'[q] = "expired"
      BY <1>1, <3>1, <3>3 DEF GrokShape, GrokWorld
    <3> QED
      BY <1>1, <1>2, <3>1, <3>2, <3>3 DEF GrokShape, GrokWorld
  <2>3. CASE BrowserChanges
    <3>1. UNCHANGED <<home, bearer>>
      BY <2>3 DEF BrowserChanges
    <3>2. locked' \in BOOLEAN
      BY <1>1, <2>3, Zenon DEF BrowserChanges, GrokShape, GrokWorld
    <3>3. accepted' = accepted \/ accepted' = accepted \union {2} \/ \E k \in accepted : accepted' = accepted \ {k}
      BY <2>3, Zenon DEF BrowserChanges
    <3>4. chrome' = chrome \/ chrome' = <<2>>
      BY <2>3, Zenon DEF BrowserChanges
    <3>5. 2 \in Cookies /\ <<2>> \in Seq(Cookies)
      BY DEF Cookies
    <3> QED
      BY <1>1, <1>2, <3>1, <3>2, <3>3, <3>4, <3>5 DEF GrokShape, GrokWorld
  <2> QED
    BY <2>1, <2>2, <2>3
<1>4. CASE errand \in Asked
  <2>1. ShownInOrder /\ errand.at \in GrokStages
    BY <1>1, <1>4, ErrandIsOf DEF GrokInv
  <2>2. /\ Stirred = [errand EXCEPT !.calm = FALSE] /\ Stirred \in Asked /\ ~Stirred.calm /\ Stirred.at = errand.at
        /\ Stirred.a = errand.a /\ Stirred.token = errand.token /\ Stirred.left = errand.left
        /\ Stirred.stage = errand.stage /\ Stirred.of = errand.of /\ Stirred.cookie = errand.cookie
    BY <1>4 DEF Stirred, Asked
  <2>3. ASSUME errand' \in Asked, ~errand'.calm, errand'.a = errand.a, errand'.token = errand.token,
               errand'.stage = errand.stage, errand'.of = errand.of, errand'.cookie = errand.cookie,
               ToSet(errand'.left) \subseteq ToSet(errand.left),
               \/ errand'.at = errand.at
               \/ errand'.at = "failed" /\ errand.at # "collected"
               \/ errand'.at = "web" /\ InRpc
        PROVE  GrokInv'
    <3>1. GrokShape'
      BY <1>1, <1>2, <1>3, <2>3 DEF GrokShape, Errands
    <3>2. ShownInOrder'
      BY <1>2, <2>1, <2>3 DEF ShownInOrder, ShownAs, InRpc, Managed, Tellable, UsesCli
    <3> QED
      BY <2>3, <3>1, <3>2 DEF GrokInv
  <2>4. errand.left \in Seq(GrokAttempt)
    BY <1>4 DEF Asked
  <2>5. CASE errand' = Stirred
    BY <2>2, <2>3, <2>5
  <2>6. CASE errand' = [Stirred EXCEPT !.at = "failed"] /\ Requested
    <3>1. /\ errand' \in Asked /\ ~errand'.calm /\ errand'.at = "failed" /\ errand'.a = errand.a
          /\ errand'.token = errand.token /\ errand'.left = errand.left /\ errand'.stage = errand.stage
          /\ errand'.of = errand.of /\ errand'.cookie = errand.cookie
      BY <2>2, <2>6 DEF Asked, GrokStages
    <3>2. errand.at # "collected"
      BY <2>6 DEF Requested, InRpc
    <3> QED
      BY <2>3, <3>1, <3>2
  <2>7. CASE errand' = [Stirred EXCEPT !.at = FallsBack] /\ InRpc
    <3>1. FallsBack \in {"web", "failed"} /\ FallsBack \in GrokStages /\ errand.at # "collected"
      BY <2>7 DEF FallsBack, GrokStages, InRpc
    <3>2. /\ errand' \in Asked /\ ~errand'.calm /\ errand'.at = FallsBack /\ errand'.a = errand.a
          /\ errand'.token = errand.token /\ errand'.left = errand.left /\ errand'.stage = errand.stage
          /\ errand'.of = errand.of /\ errand'.cookie = errand.cookie
      BY <2>2, <2>7, <3>1 DEF Asked
    <3> QED
      BY <2>3, <2>7, <3>1, <3>2
  <2>8. CASE errand' = [Stirred EXCEPT !.left = Tail(errand.left)] /\ errand.left # <<>>
    <3>1. Tail(errand.left) \in Seq(GrokAttempt) /\ ToSet(Tail(errand.left)) \subseteq ToSet(errand.left)
      BY <2>4, <2>8, SetOfTail
    <3>2. /\ errand' \in Asked /\ ~errand'.calm /\ errand'.at = errand.at /\ errand'.a = errand.a
          /\ errand'.token = errand.token /\ errand'.left = Tail(errand.left) /\ errand'.stage = errand.stage
          /\ errand'.of = errand.of /\ errand'.cookie = errand.cookie
      BY <2>2, <2>8, <3>1 DEF Asked
    <3> QED
      BY <2>3, <3>1, <3>2
  <2> QED
    BY <2>2, <2>5, <2>6, <2>7, <2>8 DEF RequestLimited, RequestLost, HomeChanges, BrowserChanges, Requested
<1>5. CASE errand \notin Asked
  <2>1. errand.at \notin GrokStages
    BY <1>1, <1>5, ErrandIsOf
  <2>2. errand' = errand
    BY <1>1, <1>5, <2>1 DEF RequestLimited, RequestLost, HomeChanges, BrowserChanges, Requested, InRpc, Stirred,
       GrokShape, Errands, Nothing, GrokStages
  <2> QED
    BY <1>1, <1>2, <1>3, <2>1, <2>2 DEF GrokInv, GrokShape
<1> QED
  BY <1>4, <1>5

LEMMA TimeKeeps ==
  ASSUME GrokInv, TimePasses \/ UNCHANGED grokVars
  PROVE  GrokInv'
<1>1. UNCHANGED <<mode, given, cliWorks, home, bearer, chrome, locked, accepted, cached, errand>>
      /\ (recent' = recent \/ recent' = <<>>)
  BY DEF TimePasses, grokVars, setup, signIns, caches
<1>2. GrokShape'
  <2>1. recent \in Seq(Cookies) /\ <<>> \in Seq(Cookies)
    BY DEF GrokInv, GrokShape
  <2> QED
    BY <1>1, <2>1 DEF GrokInv, GrokShape, GrokWorld
<1>3. ShownInOrder' <=> ShownInOrder
  BY <1>1 DEF ShownInOrder, ShownAs, Managed, InRpc, UsesCli, Tellable
<1>4. SourcesLeft' <=> SourcesLeft
  <2>1. CookiesLeft' <=> CookiesLeft
    BY <1>1 DEF CookiesLeft, CookieLeft, TokenWorks
  <2>2. NoSourcePassedOver' <=> NoSourcePassedOver
    BY <1>1 DEF NoSourcePassedOver, SameHolder, UsesCli, UsesWeb, AllowsBrowser
  <2>3. CookiesInOrder' <=> CookiesInOrder
    BY <1>1 DEF CookiesInOrder
  <2>4. (CliAnswers' <=> CliAnswers) /\ (SameHolder(errand.a)' <=> SameHolder(errand.a))
        /\ OwnToken(errand.a.p)' = OwnToken(errand.a.p)
    BY <1>1 DEF CliAnswers, SameHolder, OwnToken, UsesCli
  <2> QED
    BY <1>1, <2>1, <2>2, <2>3, <2>4 DEF SourcesLeft
<1> QED
  BY <1>1, <1>2, <1>3, <1>4 DEF GrokInv

LEMMA GrokSteps == GrokInv /\ [GrokNext]_grokVars => GrokInv'
<1> SUFFICES ASSUME GrokInv, [GrokNext]_grokVars PROVE GrokInv'
  OBVIOUS
<1>1. CASE DiscoverGrok \/ ImportForDiscovery \/ GrokDone
  BY <1>1, DiscoverGrokKeeps
<1>2. CASE CollectGrok \/ OwnCredentials \/ Rpc \/ WebStart
  BY <1>2, CollectGrokKeeps, OwnKeeps, RpcKeeps, WebStartKeeps
<1>3. CASE ImportFirst \/ ImportAgain \/ Ask \/ GiveUp
  BY <1>3, ImportKeeps, AskKeeps, GiveUpKeeps
<1>4. CASE RequestLimited \/ RequestLost \/ BrowserChanges
  <2>1. "default" \in GrokProfiles /\ NoHolder \in Holders \union {NoHolder}
    BY DEF GrokProfiles
  <2> QED
    BY <1>4, <2>1, GrokOthersKeep
<1>5. ASSUME NEW p \in GrokProfiles, NEW who \in Holders \union {NoHolder}, HomeChanges(p, who) PROVE GrokInv'
  BY <1>5, GrokOthersKeep
<1>6. CASE TimePasses \/ UNCHANGED grokVars
  BY <1>6, TimeKeeps
<1> QED
  BY <1>1, <1>2, <1>3, <1>4, <1>5, <1>6 DEF GrokNext

LEMMA GrokInvSound == GrokInv => GrokSound
<1> SUFFICES ASSUME GrokInv, errand.at \in {"collected", "failed"} PROVE GrokSound
  BY DEF GrokSound, ManagedAsItself, NoSourcePassedOver, CookiesInOrder
<1>1. ShownInOrder /\ (errand.calm => SourcesLeft)
  BY DEF GrokInv, GrokStages
<1> QED
  BY <1>1 DEF ShownInOrder, Tellable, Managed, SourcesLeft, GrokSound, ManagedAsItself, NoSourcePassedOver, CookiesInOrder

(* Grok: whoever signs in or out, and whichever requests fail, a managed   *)
(* profile is collected as itself, no source of an account is passed over, *)
(* and cookies are used in their order (collect_usage, collect_web).       *)
THEOREM GrokIsSound == GrokSpec => []GrokSound
BY GrokStarts, GrokSteps, GrokInvSound, PTL DEF GrokSpec
-----------------------------------------------------------------------------
(* The logs.  What a cache or a scan holds of a file is what the file held *)
(* under the stamp it had, or has still, when it was met.                  *)
Costs == [f \in Sessions |-> FileCost(f)]
HonestIn(files, at, cost) ==
  \A p \in DOMAIN files :
    /\ p[2] \in Sessions /\ files[p].stamp \in Nat /\ files[p].stamp <= at[p[2]]
    /\ files[p].stamp = at[p[2]] => files[p].cost = cost[p[2]]
FoundIn(met, at) == \A p \in DOMAIN met : p[2] \in Sessions /\ met[p] \in Nat /\ met[p] <= at[p[2]]
CacheIn(cache, at, cost) == cache.id \in Nat /\ (cache.id # 0 => HonestIn(cache.files, at, cost))
ScanIn(scan, at, cost) ==
  \/ scan = [at |-> "idle"]
  \/ /\ scan.at = "walk" /\ DOMAIN scan = {"at", "old", "date", "roots", "found", "sure", "least"}
     /\ CacheIn(scan.old, at, cost) /\ FoundIn(scan.found, at)
  \/ /\ scan.at = "parse" /\ DOMAIN scan = {"at", "base", "date", "found", "files", "left", "sure", "least"}
     /\ FoundIn(scan.found, at) /\ HonestIn(scan.files, at, cost)
     /\ scan.left # {} /\ scan.left \subseteq DOMAIN scan.found
  \/ /\ scan.at = "answer" /\ DOMAIN scan = {"at", "base", "new", "date", "sure", "least"}
     /\ CacheIn(scan.new, at, cost)
LogInv ==
  /\ stamp \in [Sessions -> Nat] /\ DOMAIN lines = Sessions /\ stale \in Nat
  /\ CacheIn(costs, stamp, Costs)
  /\ DOMAIN scans = 1..MaxScans /\ \A s \in 1..MaxScans : ScanIn(scans[s], stamp, Costs)
LogSpec == LogInit /\ [][LogNext]_logVars

(* What was true of a file is, or was, while logs only grow.               *)
LEMMA LogsGrow ==
  ASSUME NEW at \in [Sessions -> Nat], NEW at2 \in [Sessions -> Nat], NEW cost, NEW cost2,
         \A f \in Sessions : at[f] <= at2[f] /\ (at[f] = at2[f] => cost[f] = cost2[f])
  PROVE  /\ \A cache : CacheIn(cache, at, cost) => CacheIn(cache, at2, cost2)
         /\ \A scan : ScanIn(scan, at, cost) => ScanIn(scan, at2, cost2)
<1>1. ASSUME NEW files, HonestIn(files, at, cost) PROVE HonestIn(files, at2, cost2)
  BY <1>1 DEF HonestIn
<1>2. ASSUME NEW met, FoundIn(met, at) PROVE FoundIn(met, at2)
  BY <1>2 DEF FoundIn
<1>3. ASSUME NEW cache, CacheIn(cache, at, cost) PROVE CacheIn(cache, at2, cost2)
  BY <1>1, <1>3 DEF CacheIn
<1>4. ASSUME NEW scan, ScanIn(scan, at, cost) PROVE ScanIn(scan, at2, cost2)
  BY <1>1, <1>2, <1>3, <1>4 DEF ScanIn
<1> QED
  BY <1>3, <1>4

LEMMA LogStarts == LogInit => LogInv
<1> SUFFICES ASSUME LogInit PROVE LogInv
  OBVIOUS
<1>1. CacheIn(costs, stamp, Costs)
  BY DEF LogInit, CacheIn
<1>2. \A s \in 1..MaxScans : ScanIn(scans[s], stamp, Costs)
  BY DEF LogInit, ScanIn
<1> QED
  BY <1>1, <1>2 DEF LogInit, LogInv

LEMMA WritesKeep ==
  ASSUME LogInv, NEW f \in Sessions, NEW line, NEW charged, Writes(f, line, charged)
  PROVE  LogInv'
<1>1. /\ stamp' = [stamp EXCEPT ![f] = @ + 1] /\ lines' = [lines EXCEPT ![f] = Append(@, line)]
      /\ UNCHANGED <<tool, costs, scans, stale>>
  BY DEF Writes
<1>2. stamp \in [Sessions -> Nat] /\ stamp' \in [Sessions -> Nat] /\ DOMAIN lines = Sessions /\ DOMAIN lines' = Sessions
  BY <1>1 DEF LogInv
<1>3. ASSUME NEW g \in Sessions PROVE stamp[g] <= stamp'[g] /\ (stamp[g] = stamp'[g] => Costs[g] = Costs'[g])
  <2>1. g # f => lines'[g] = lines[g]
    BY <1>1, <1>2
  <2>2. g # f => FileCost(g)' = FileCost(g)
    BY <1>1, <2>1 DEF FileCost
  <2> QED
    BY <1>1, <1>2, <2>2 DEF Costs
<1>4. /\ \A cache : CacheIn(cache, stamp, Costs) => CacheIn(cache, stamp', Costs')
      /\ \A scan : ScanIn(scan, stamp, Costs) => ScanIn(scan, stamp', Costs')
  BY <1>2, <1>3, LogsGrow
<1> QED
  BY <1>1, <1>2, <1>4 DEF LogInv

(* Steps that write no log.                                                *)
LEMMA LogInvStays ==
  ASSUME LogInv, UNCHANGED <<tool, lines, stamp>>, stale' \in Nat, CacheIn(costs', stamp, Costs),
         DOMAIN scans' = 1..MaxScans, \A s \in 1..MaxScans : ScanIn(scans'[s], stamp, Costs)
  PROVE  LogInv'
<1>1. Costs' = Costs
  BY DEF Costs, FileCost
<1> QED
  BY <1>1 DEF LogInv

LEMMA MoveKeeps ==
  ASSUME LogInv, NEW f \in Sessions, Move(f)
  PROVE  LogInv'
<1>1. UNCHANGED <<tool, lines, stamp, costs, stale>>
      /\ scans' = [s \in 1..MaxScans |->
           IF "sure" \in DOMAIN scans[s] THEN [scans[s] EXCEPT !.sure = FALSE] ELSE scans[s]]
  BY DEF Move
<1>2. ASSUME NEW s \in 1..MaxScans PROVE ScanIn(scans'[s], stamp, Costs)
  <2>1. ScanIn(scans[s], stamp, Costs)
    BY DEF LogInv
  <2>2. CASE "sure" \notin DOMAIN scans[s]
    BY <1>1, <2>1, <2>2
  <2>3. CASE "sure" \in DOMAIN scans[s]
    <3>1. scans'[s] = [scans[s] EXCEPT !.sure = FALSE]
      BY <1>1, <2>3
    <3>2. DOMAIN scans'[s] = DOMAIN scans[s]
          /\ \A n \in DOMAIN scans[s] : n # "sure" => scans'[s][n] = scans[s][n]
      BY <3>1
    <3> QED
      BY <2>1, <2>3, <3>2 DEF ScanIn
  <2> QED
    BY <2>2, <2>3
<1> QED
  BY <1>1, <1>2, LogInvStays DEF LogInv

LEMMA DoesKeeps ==
  ASSUME LogInv, UNCHANGED <<tool, lines, stamp, stale>>, CacheIn(costs', stamp, Costs),
         NEW s \in 1..MaxScans, NEW scan, ScanIn(scan, stamp, Costs), Does(s, scan)
  PROVE  LogInv'
<1>1. scans' = [scans EXCEPT ![s] = scan] /\ DOMAIN scans = 1..MaxScans
  BY DEF Does, LogInv
<1>2. \A t \in 1..MaxScans : ScanIn(scans'[t], stamp, Costs)
  BY <1>1 DEF LogInv
<1> QED
  BY <1>1, <1>2, LogInvStays DEF LogInv

LEMMA AnswerIn ==
  ASSUME NEW base, NEW new, NEW scan, CacheIn(new, stamp, Costs)
  PROVE  ScanIn(Answer(base, new, scan), stamp, Costs)
BY DEF Answer, ScanIn

LEMMA CacheMade ==
  ASSUME NEW id \in Nat, NEW files, NEW date, HonestIn(files, stamp, Costs)
  PROVE  CacheIn(Cache(id, files, date), stamp, Costs)
BY DEF Cache, CacheIn

LEMMA BeginsKeep ==
  ASSUME LogInv, NEW s \in 1..MaxScans, Throttled(s) \/ Begin(s)
  PROVE  LogInv'
<1>1. UNCHANGED <<tool, lines, stamp, stale, costs>> /\ CacheIn(costs, stamp, Costs) /\ stale \in Nat
  BY DEF Throttled, Begin, Begins, logs, LogInv
<1>2. CASE Throttled(s)
  <2> DEFINE scan == [date |-> today, sure |-> TRUE, least |-> covered]
             next == IF costs.date = today THEN Answer(0, costs, scan)
                     ELSE Answer(costs.id, Cache(costs.id, costs.files, today), scan)
  <2>1. Does(s, next) /\ costs.id > stale
    BY <1>2 DEF Throttled
  <2>2. HonestIn(costs.files, stamp, Costs) /\ costs.id \in Nat
    BY <1>1, <2>1 DEF CacheIn
  <2>3. ScanIn(next, stamp, Costs)
    BY <1>1, <2>2, AnswerIn, CacheMade
  <2> HIDE DEF next
  <2> QED
    BY <1>1, <2>1, <2>3, DoesKeeps
<1>3. CASE Begin(s)
  <2> DEFINE next == [at |-> "walk", old |-> costs, date |-> today,
              roots |-> IF tool = "codex" THEN <<"archived_sessions", "sessions">> ELSE <<"sessions">>,
              found |-> <<>>, sure |-> TRUE, least |-> Present]
  <2>1. Does(s, next)
    BY <1>3 DEF Begin
  <2>2. FoundIn(<<>>, stamp)
    BY DEF FoundIn
  <2>3. ScanIn(next, stamp, Costs)
    BY <1>1, <2>2 DEF ScanIn
  <2> HIDE DEF next
  <2> QED
    BY <1>1, <2>1, <2>3, DoesKeeps
<1> QED
  BY <1>2, <1>3

LEMMA ParsingIn ==
  ASSUME NEW s \in Nat, NEW scan, NEW files, NEW left, HonestIn(files, stamp, Costs),
         scan.at = "parse", DOMAIN scan = {"at", "base", "date", "found", "files", "left", "sure", "least"},
         FoundIn(scan.found, stamp), left \subseteq DOMAIN scan.found
  PROVE  ScanIn(Parsing(s, scan, files, left), stamp, Costs)
<1>1. CASE left = {}
  BY <1>1, AnswerIn, CacheMade DEF Parsing
<1>2. CASE left # {}
  <2>1. Parsing(s, scan, files, left) = [scan EXCEPT !.files = files, !.left = left]
    BY <1>2 DEF Parsing
  <2> QED
    BY <1>2, <2>1 DEF ScanIn
<1> QED
  BY <1>1, <1>2

LEMMA WalkKeeps ==
  ASSUME LogInv, NEW s \in 1..MaxScans, Walk(s)
  PROVE  LogInv'
<1> DEFINE scan == scans[s]
           root == Head(scan.roots)
           here == {f \in Sessions : place[f] = root /\ lines[f] # <<>>}
           met == [p \in DOMAIN scan.found \union ({root} \X here) |->
                       IF p \in DOMAIN scan.found THEN scan.found[p] ELSE stamp[p[2]]]
           old == IF scan.old.id = 0 THEN <<>> ELSE scan.old.files
           same == {p \in DOMAIN met \cap DOMAIN old : old[p].stamp = met[p]}
           parse == [at |-> "parse", base |-> scan.old.id, date |-> scan.date, found |-> met, files |-> <<>>,
                     left |-> {}, sure |-> scan.sure, least |-> scan.least]
           further == [scan EXCEPT !.found = met, !.roots = Tail(@)]
           next == IF Len(scan.roots) > 1 THEN further
                   ELSE Parsing(s, parse, Restrict(old, same), DOMAIN met \ same)
<1>1. scan.at = "walk" /\ Does(s, next) /\ UNCHANGED <<tool, lines, stamp, stale, costs>>
  BY DEF Walk, logs
<1>2. /\ CacheIn(costs, stamp, Costs) /\ ScanIn(scan, stamp, Costs) /\ stamp \in [Sessions -> Nat]
  BY SMTT(60) DEF LogInv
<1>3. /\ DOMAIN scan = {"at", "old", "date", "roots", "found", "sure", "least"}
      /\ CacheIn(scan.old, stamp, Costs) /\ FoundIn(scan.found, stamp)
  BY <1>1, <1>2 DEF ScanIn
<1>4. FoundIn(met, stamp)
  BY <1>2, <1>3 DEF FoundIn
<1>5. HonestIn(Restrict(old, same), stamp, Costs)
  <2>1. HonestIn(old, stamp, Costs)
    BY <1>3 DEF CacheIn, HonestIn
  <2>2. same \subseteq DOMAIN old
    OBVIOUS
  <2> HIDE DEF old, same
  <2> QED
    BY <2>1, <2>2 DEF HonestIn, Restrict
<1>6. ScanIn(further, stamp, Costs)
  <2> HIDE DEF met
  <2> QED
    BY <1>1, <1>3, <1>4 DEF ScanIn
<1>7. ScanIn(Parsing(s, parse, Restrict(old, same), DOMAIN met \ same), stamp, Costs)
  <2>1. /\ parse.at = "parse" /\ parse.found = met
        /\ DOMAIN parse = {"at", "base", "date", "found", "files", "left", "sure", "least"}
    BY SMTT(60)
  <2> HIDE DEF parse, met, same, old
  <2> QED
    BY <1>4, <1>5, <2>1, ParsingIn
<1>8. ScanIn(next, stamp, Costs)
  BY <1>6, <1>7
<1> HIDE DEF next
<1> QED
  BY <1>1, <1>2, <1>8, DoesKeeps, SMTT(60)

LEMMA ParseKeeps ==
  ASSUME LogInv, NEW s \in 1..MaxScans, Parse(s)
  PROVE  LogInv'
<1> DEFINE scan == scans[s]
           p == CHOOSE q \in scan.left : TRUE
           entry == [stamp |-> scan.found[p], cost |-> FileCost(p[2])]
           files == [q \in DOMAIN scan.files \union {p} |-> IF q = p THEN entry ELSE scan.files[q]]
           next == IF place[p[2]] # p[1] THEN [at |-> "idle"] ELSE Parsing(s, scan, files, scan.left \ {p})
<1>1. scan.at = "parse" /\ Does(s, next) /\ UNCHANGED <<tool, lines, stamp, stale, costs>>
  BY DEF Parse, logs
<1>2. CacheIn(costs, stamp, Costs) /\ ScanIn(scan, stamp, Costs)
  BY DEF LogInv
<1>3. /\ DOMAIN scan = {"at", "base", "date", "found", "files", "left", "sure", "least"}
      /\ FoundIn(scan.found, stamp) /\ HonestIn(scan.files, stamp, Costs)
      /\ scan.left # {} /\ scan.left \subseteq DOMAIN scan.found
  BY <1>1, <1>2 DEF ScanIn
<1>4. p \in DOMAIN scan.found
  BY <1>3
<1> HIDE DEF p
<1>5. entry.stamp \in Nat /\ entry.stamp <= stamp[p[2]] /\ entry.cost = Costs[p[2]] /\ p[2] \in Sessions
  BY <1>3, <1>4 DEF FoundIn, Costs
<1> HIDE DEF entry
<1>6. HonestIn(files, stamp, Costs)
  BY <1>3, <1>5 DEF HonestIn
<1>7. ScanIn(next, stamp, Costs)
  <2>1. ScanIn([at |-> "idle"], stamp, Costs)
    BY DEF ScanIn
  <2>2. ScanIn(Parsing(s, scan, files, scan.left \ {p}), stamp, Costs)
    <3> HIDE DEF files, scan
    <3> QED
      BY <1>1, <1>3, <1>6, ParsingIn
  <2> QED
    BY <2>1, <2>2
<1> HIDE DEF next
<1> QED
  BY <1>1, <1>2, <1>7, DoesKeeps

LEMMA ReplaceKeeps ==
  ASSUME LogInv, NEW s \in 1..MaxScans, Replace(s)
  PROVE  LogInv'
<1>1. UNCHANGED <<tool, lines, stamp, stale>> /\ Does(s, [at |-> "idle"]) /\ scans[s].at = "answer"
      /\ costs' \in {costs, scans[s].new}
  BY DEF Replace, logs
<1>2. CacheIn(costs, stamp, Costs) /\ ScanIn(scans[s], stamp, Costs)
  BY DEF LogInv
<1>3. CacheIn(costs', stamp, Costs)
  BY <1>1, <1>2 DEF ScanIn
<1>4. ScanIn([at |-> "idle"], stamp, Costs)
  BY DEF ScanIn
<1> QED
  BY <1>1, <1>3, <1>4, DoesKeeps

LEMMA LogSteps == LogInv /\ [LogNext]_logVars => LogInv'
<1> SUFFICES ASSUME LogInv, [LogNext]_logVars PROVE LogInv'
  OBVIOUS
<1>1. ASSUME NEW f \in Sessions, Asks(f) \/ Repeat(f) \/ Message(f) \/ Rewrite(f) PROVE LogInv'
  BY <1>1, WritesKeep DEF Asks, Repeat, Message, Rewrite
<1>2. ASSUME NEW f \in Sessions, Move(f) PROVE LogInv'
  BY <1>2, MoveKeeps
<1>3. ASSUME NEW s \in 1..MaxScans, Throttled(s) \/ Begin(s) \/ Walk(s) \/ Parse(s) \/ Replace(s) PROVE LogInv'
  BY <1>3, BeginsKeep, WalkKeeps, ParseKeeps, ReplaceKeeps
<1>4. CASE Age \/ Midnight \/ UNCHANGED logVars
  <2>1. UNCHANGED <<tool, lines, stamp, costs, scans>> /\ stale' \in Nat
    BY <1>4 DEF Age, Midnight, logVars, logs, LogInv, CacheIn
  <2> QED
    BY <2>1, LogInvStays DEF LogInv
<1> QED
  BY <1>1, <1>2, <1>3, <1>4 DEF LogNext

LEMMA LogInvSound == LogInv => CacheHonest
<1> SUFFICES ASSUME LogInv, costs.id # 0, NEW p \in DOMAIN costs.files, stamp[p[2]] = costs.files[p].stamp
             PROVE  costs.files[p].cost = FileCost(p[2])
  BY DEF CacheHonest
<1>1. p[2] \in Sessions /\ costs.files[p].cost = Costs[p[2]]
  BY DEF LogInv, CacheIn, HonestIn
<1> QED
  BY <1>1 DEF Costs

(* The cache of the scans never takes a file for read that is not, however *)
(* many scans share it and whatever is written, archived or deleted while  *)
(* they read (scan_cached_files, collect_file_snapshots).                  *)
THEOREM CacheIsHonest == LogSpec => []CacheHonest
BY LogStarts, LogSteps, LogInvSound, PTL DEF LogSpec
-----------------------------------------------------------------------------
(* Together: whichever part runs, the others rest, so that each keeps its  *)
(* own invariant.                                                          *)
Parts == {"jobs", "costs", "codex", "grok", "grok_reports", "opencode", "opencode_history"}
CollectingInv ==
  part \in Parts /\ TypeOK /\ CodexInv /\ OpenInv /\ HistoryInv /\ GrokInv /\ LogInv
PartsStep ==
  /\ [Next]_vars /\ [CodexNext]_codexVars /\ [OpenNext]_openVars
  /\ [OpenHistoryNext]_openHistoryVars /\ [GrokNext]_grokVars /\ [LogNext]_logVars
  /\ UNCHANGED part

LEMMA CollectingStarts == CollectingInit => CollectingInv
<1> SUFFICES ASSUME CollectingInit PROVE CollectingInv
  OBVIOUS
<1>1. Init /\ CodexInit /\ OpenInit /\ OpenHistoryInit /\ GrokInit /\ LogInit
  BY DEF CollectingInit
<1> QED
  BY <1>1, InitType, CodexStarts, OpenStarts, HistoryStarts, GrokStarts, LogStarts
  DEF CollectingInit, CollectingInv, Parts

LEMMA StepIsOfParts == [CollectingNext]_allCollectingVars => PartsStep
<1> SUFFICES ASSUME [CollectingNext]_allCollectingVars PROVE PartsStep
  OBVIOUS
<1>1. CASE Next /\ OthersRest("jobs")
  BY <1>1 DEF OthersRest, PartsStep
<1>2. CASE LogNext /\ OthersRest("costs")
  BY <1>2 DEF OthersRest, PartsStep
<1>3. CASE CodexNext /\ OthersRest("codex")
  BY <1>3 DEF OthersRest, PartsStep
<1>4. CASE GrokNext /\ OthersRest("grok")
  BY <1>4 DEF OthersRest, PartsStep
<1>5. CASE OthersRest("grok_reports")
  BY <1>5 DEF OthersRest, PartsStep
<1>6. CASE OpenNext /\ OthersRest("opencode")
  BY <1>6 DEF OthersRest, PartsStep
<1>7. CASE OpenHistoryNext /\ OthersRest("opencode_history")
  BY <1>7 DEF OthersRest, PartsStep
<1>8. CASE UNCHANGED allCollectingVars
  BY <1>8 DEF allCollectingVars, PartsStep
<1> QED
  BY <1>1, <1>2, <1>3, <1>4, <1>5, <1>6, <1>7, <1>8 DEF CollectingNext

LEMMA CollectingSteps ==
  CollectingInv /\ [CollectingNext]_allCollectingVars => CollectingInv'
<1> SUFFICES ASSUME CollectingInv, PartsStep PROVE CollectingInv'
  BY StepIsOfParts
<1>1. TypeOK' /\ CodexInv'
  BY NextType, CodexSteps DEF CollectingInv, PartsStep
<1>2. OpenInv' /\ HistoryInv'
  BY OpenSteps, HistorySteps DEF CollectingInv, PartsStep
<1>3. GrokInv' /\ LogInv'
  BY GrokSteps, LogSteps DEF CollectingInv, PartsStep
<1> QED
  BY <1>1, <1>2, <1>3 DEF CollectingInv, PartsStep

(* Whichever part of collecting runs, what it collects of an account is    *)
(* that account's, it passes over no source of it, and a history it calls  *)
(* complete is: the invariant the run checks, but for the two parts that   *)
(* compute sums over data, the billing reports of Grok and the costs of    *)
(* the logs; of the latter, that their cache takes no file for read that   *)
(* is not.                                                                 *)
THEOREM CollectorsAreSound ==
  CollectingSpec => [](/\ part \notin {"costs", "grok_reports"} => CollectionSound
                       /\ part = "costs" => CacheHonest)
<1>1. CollectingInv /\ part \notin {"costs", "grok_reports"} => CollectionSound
  BY CodexInvSound, OpenInvSound, HistoryInvSound, GrokInvSound DEF CollectingInv, CollectionSound, Parts
<1>2. CollectingInv => CacheHonest
  BY LogInvSound DEF CollectingInv
<1> QED
  BY <1>1, <1>2, CollectingStarts, CollectingSteps, PTL DEF CollectingSpec
=============================================================================
