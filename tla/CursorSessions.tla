---------------------------- MODULE CursorSessions ----------------------------
(***************************************************************************)
(* The sign-ins that the daemon borrows to ask Cursor for usage            *)
(* (providers/cursor/{mod,auth,client}.rs, providers/browser_cookies.rs):  *)
(* a cookie that is given to it, else the token of the desktop app and the *)
(* cookies of the browsers.  Each is tried for whose it is, and cached for *)
(* its account under a generation; discoveries and collections do so at    *)
(* the same time while the user signs in and out.                          *)
(***************************************************************************)
EXTENDS Integers, Sequences, FiniteSets, SequencesExt, Functions

CONSTANTS
  Users,      \* the accounts of Cursor
  NoUser,     \* whom a token that was never issued belongs to
  Fetchers,   \* discoveries and collections that may run at once
  MaxFetches, \* bound on their number
  MaxTokens,  \* bound on the sign-ins
  MaxChanges  \* bound on sign-outs, failures of the network and invalidations

ASSUME CursorAssumption ==
  /\ NoUser \notin Users
  /\ MaxFetches \in Nat /\ MaxTokens \in Nat \ 0..2 /\ MaxChanges \in Nat

VARIABLES
  manual,     \* the token in USAGE_TRACKER_CURSOR_COOKIE
  app,        \* the token of Cursor.app, None without one that lasts a minute yet
  browsers,   \* the cookies, the newest first, of each profile that may be read
  holder,     \* whom each token was issued to
  valid,      \* the tokens that Cursor accepts
  sessions, generation, \* SessionCache
  borrower,       \* what each discovery and collection does
  fetches, changes

appVars == <<app, holder, valid>>
givenVars == <<manual, browsers>>
cacheVars == <<sessions, generation>>
cursorVars == <<givenVars, appVars, cacheVars, borrower, fetches, changes>>

NoToken == 0
Damaged == -1     \* the state of the app cannot be read
Stale == -2       \* a cookie that has expired
Locked == -3      \* a cookie whose key the Keychain does not give away
AllTokens == 1..MaxTokens
NoSession == [t |-> NoToken]
AtRest == [at |-> "idle"]

InBrowser(t) == \E i \in DOMAIN browsers : t \in ToSet(browsers[i])

(* The tokens 1 and 2 are cookies, 3 may be the app's; the rest are new.   *)
CursorInit ==
  /\ manual \in {NoToken, 1} /\ app \in {NoToken, 3, Damaged}
  /\ browsers \in {<<<<>>, <<>>>>, <<<<Stale, 1>>, <<2>>>>, <<<<Locked, 1>>, <<2>>>>}
  /\ manual # NoToken => app = NoToken /\ browsers = <<<<>>, <<>>>>
  /\ holder \in [AllTokens -> Users \union {NoUser}]
  /\ valid \in SUBSET {t \in AllTokens : holder[t] # NoUser}
  /\ \A t \in AllTokens : holder[t] # NoUser <=> t \in {manual, app} \/ InBrowser(t)
  /\ sessions = [u \in Users |-> NoSession] /\ generation = 0
  /\ borrower = [f \in Fetchers |-> AtRest] /\ fetches = 0 /\ changes = 0
-----------------------------------------------------------------------------
(* import_cookie_connection: the newest cookie that has not expired; if it *)
(* cannot be read, neither can the profile, and the others still are.      *)
FreshCookies(rows) == {j \in DOMAIN rows : rows[j] # Stale}
CookieOf(rows) == {rows[j] : j \in {n \in FreshCookies(rows) : \A m \in FreshCookies(rows) : n <= m}}

(* What is tried, in the order of its place.                               *)
Candidate(t, source, place) == [t |-> t, source |-> source, place |-> place]
BrowserSessions(i) == {Candidate(t, "browser", i) : t \in CookieOf(browsers[i]) \cap AllTokens}
FromBrowsers == UNION {BrowserSessions(i) : i \in DOMAIN browsers}

(* load_session_candidates; an app that cannot be read fails it as a whole.*)
Candidates ==
  IF manual # NoToken THEN {Candidate(manual, "manual", 0)}
  ELSE IF app = Damaged THEN {}
  ELSE FromBrowsers \union (IF app # NoToken THEN {Candidate(app, "app", 0)} ELSE {})

Moves(f, step) == borrower' = [borrower EXCEPT ![f] = step]
Proceeds(f, step) == Moves(f, step) /\ UNCHANGED <<givenVars, appVars, cacheVars, fetches, changes>>
(* What came of it, while that can still be compared with the sources.     *)
Outcome(f, how) ==
  LET w == borrower[f] IN
  IF how = "collected"
  THEN [at |-> how, user |-> w.user, session |-> w.session, appHad |-> w.appHad]
  ELSE IF ~w.calm THEN AtRest
  ELSE [at |-> how, kind |-> w.kind, user |-> w.user, found |-> DOMAIN w.found]

(* calm and appHad are histories: nothing has gone wrong or changed since  *)
(* the work, or one that overlaps it, began; what tokens the app has had.  *)
Busy(f) == borrower[f].at \notin {"idle", "discovered", "collected", "failed"}
Borrowing(kind, u) ==
  [at |-> IF kind = "discovery" THEN "load" ELSE "session", kind |-> kind, user |-> u,
   attempt |-> 0, left |-> {}, found |-> <<>>, session |-> NoSession,
   calm |-> \A f \in Fetchers : Busy(f) => borrower[f].calm, appHad |-> {app}]
Borrow(f) ==
  /\ ~Busy(f)
  /\ fetches < MaxFetches /\ fetches' = fetches + 1
  /\ \/ Moves(f, Borrowing("discovery", NoUser))
     \/ \E u \in Users : Moves(f, Borrowing("collection", u))
  /\ UNCHANGED <<givenVars, appVars, cacheVars, changes>>

(* session_for_account: what is cached is used, unless it is of the app,   *)
(* which may have changed hands.                                           *)
InCache(u) == sessions[u] # NoSession
UsesCached(u) == InCache(u) /\ sessions[u].source # "app"
TakeSession(f) ==
  LET w == borrower[f] IN
  /\ w.at = "session"
  /\ Proceeds(f, IF UsesCached(w.user) THEN [w EXCEPT !.at = "fetch", !.session = sessions[w.user]]
                 ELSE [w EXCEPT !.at = "load", !.session = sessions[w.user]])

(* discover_and_cache: each candidate is asked for whose it is; the first  *)
(* of an account counts, and what fails is left out, if it was not given.  *)
LoadCandidates(f) ==
  /\ borrower[f].at = "load"
  /\ Proceeds(f, IF Candidates = {} THEN Outcome(f, "failed")
                 ELSE [borrower[f] EXCEPT !.at = "identify", !.left = Candidates, !.found = <<>>])

Rejects(c) == c.t \notin valid
OrInserted(found, u, c) ==
  IF u \in DOMAIN found THEN found ELSE [x \in DOMAIN found \union {u} |-> IF x = u THEN c ELSE found[x]]
Identified(w, c, ok) ==
  [w EXCEPT !.left = @ \ {c}, !.found = IF ok THEN OrInserted(@, holder[c.t], c) ELSE @]
SkipsFailures(w, c, ok) == IF c.source = "manual" /\ ~ok THEN [w EXCEPT !.left = {}] ELSE Identified(w, c, ok)
StopsAtFailure(w, c, ok) == IF ~ok THEN [w EXCEPT !.left = {}, !.found = <<>>] ELSE Identified(w, c, ok)
TriesNext(w, c, ok) == SkipsFailures(w, c, ok)
IsNext(w, c) == c \in w.left /\ \A d \in w.left : c.place <= d.place
Identify(f) ==
  LET w == borrower[f] IN
  /\ w.at = "identify"
  /\ \E c \in w.left : IsNext(w, c) /\ Proceeds(f, TriesNext(w, c, ~Rejects(c)))

(* Those found are stored, under a new generation if they are other ones.  *)
StoredAs(u, c) ==
  IF sessions[u].t = c.t THEN sessions[u]
  ELSE [t |-> c.t, source |-> c.source, gen |-> generation + 1]
RemovedIf(s, u, old) == IF s[u] # NoSession /\ s[u] = old THEN [s EXCEPT ![u] = NoSession] ELSE s
StoreFound(f) ==
  LET w == borrower[f]
      kept == [u \in Users |-> IF u \in DOMAIN w.found THEN StoredAs(u, w.found[u]) ELSE sessions[u]]
  IN /\ w.at = "identify" /\ w.left = {}
     /\ generation' = generation + (IF \E u \in Users : kept[u] # sessions[u] THEN 1 ELSE 0)
     /\ sessions' = IF w.kind = "discovery" \/ w.found = <<>> \/ w.user \in DOMAIN w.found THEN kept
                    ELSE RemovedIf(kept, w.user, w.session)
     /\ Moves(f, IF w.found = <<>> THEN Outcome(f, "failed")
                ELSE IF w.kind = "discovery" THEN Outcome(f, "discovered")
                ELSE IF w.user \in DOMAIN w.found
                     THEN [w EXCEPT !.at = "fetch", !.session = kept[w.user], !.found = <<>>]
                ELSE Outcome(f, "failed"))
     /\ UNCHANGED <<givenVars, appVars, fetches, changes>>
-----------------------------------------------------------------------------
(* collect_usage: a session that is rejected is dropped and looked for     *)
(* again, once; so is one that was replaced while it was used.             *)
IsRejected(f) ==
  LET w == borrower[f] IN
  /\ w.at = "fetch" /\ Rejects(w.session)
  /\ IF w.attempt = 0
     THEN /\ sessions' = RemovedIf(sessions, w.user, w.session)
          /\ Moves(f, [w EXCEPT !.at = "session", !.attempt = 1])
     ELSE Moves(f, Outcome(f, "failed")) /\ UNCHANGED sessions
  /\ UNCHANGED <<givenVars, appVars, generation, fetches, changes>>
IsFetched(f) ==
  LET w == borrower[f] IN
  /\ w.at = "fetch" /\ ~Rejects(w.session)
  /\ Proceeds(f, [w EXCEPT !.at = "check"])
CheckCached(f) ==
  LET w == borrower[f] IN
  /\ w.at = "check"
  /\ Proceeds(f, IF sessions[w.user] = w.session THEN Outcome(f, "collected")
                 ELSE IF w.attempt = 0 THEN [w EXCEPT !.at = "session", !.attempt = 1]
                 ELSE Outcome(f, "failed"))
-----------------------------------------------------------------------------
Disturbed(had) ==
  [f \in Fetchers |-> IF Busy(f) THEN [borrower[f] EXCEPT !.calm = FALSE, !.appHad = @ \union had]
                      ELSE AtRest]
Upsets == changes < MaxChanges /\ changes' = changes + 1 /\ UNCHANGED <<givenVars, fetches>>

(* A request fails; a discovery leaves out the candidate, and may store    *)
(* another session for its account, which whoever uses the first one sees. *)
RequestFails(f) ==
  LET w == borrower[f] IN
  /\ Upsets /\ UNCHANGED <<appVars, cacheVars>>
  /\ \/ w.at = "fetch" /\ Moves(f, AtRest)
     \/ /\ w.at = "identify"
        /\ \E c \in w.left :
             /\ IsNext(w, c)
             /\ borrower' = [Disturbed({}) EXCEPT ![f] = TriesNext([w EXCEPT !.calm = FALSE], c, FALSE)]

(* Another signs in at the app, or nobody; a token is revoked.             *)
AppChanges ==
  /\ app # Damaged /\ manual = NoToken /\ Upsets /\ UNCHANGED cacheVars
  /\ \/ app # NoToken /\ app' = NoToken /\ UNCHANGED <<holder, valid>> /\ borrower' = Disturbed({})
     \/ \E t \in AllTokens, u \in Users :
          /\ holder[t] = NoUser /\ t > 2 /\ \A o \in 3..t - 1 : holder[o] # NoUser
          /\ app' = t /\ holder' = [holder EXCEPT ![t] = u] /\ valid' = valid \union {t}
          /\ borrower' = Disturbed({t})
Revoke(t) ==
  /\ t \in valid /\ Upsets /\ UNCHANGED <<app, holder, cacheVars>>
  /\ valid' = valid \ {t} /\ borrower' = Disturbed({})

(* invalidate_cached_credentials, before a retry that the user asks for.   *)
Invalidate ==
  /\ Upsets /\ UNCHANGED <<appVars, generation>>
  /\ sessions' = [u \in Users |-> NoSession] /\ borrower' = Disturbed({})

CursorNext ==
  \/ \E f \in Fetchers :
       Borrow(f) \/ TakeSession(f) \/ LoadCandidates(f) \/ Identify(f) \/ StoreFound(f)
       \/ IsRejected(f) \/ IsFetched(f) \/ CheckCached(f) \/ RequestFails(f)
  \/ AppChanges \/ Invalidate \/ \E t \in AllTokens : Revoke(t)

CursorSpec == CursorInit /\ [][CursorNext]_cursorVars
-----------------------------------------------------------------------------
CursorTypeOK ==
  /\ app \in AllTokens \union {NoToken, Damaged} /\ valid \subseteq AllTokens
  /\ holder \in [AllTokens -> Users \union {NoUser}]
  /\ \A u \in Users : sessions[u] # NoSession => sessions[u].gen \in 1..generation
  /\ fetches \in 0..MaxFetches /\ changes \in 0..MaxChanges

(* Usage is stored for the account whose session fetched it; and if that   *)
(* is the app's, the app was signed in as that account at some time since  *)
(* the collection began, never only before (session_for_account).          *)
CollectedAsItself ==
  \A f \in Fetchers :
    borrower[f].at = "collected" =>
      /\ holder[borrower[f].session.t] = borrower[f].user
      /\ borrower[f].session.source = "app" => borrower[f].session.t \in borrower[f].appHad

(* An expired or revoked sign-in never masks a healthy one: as long as     *)
(* nothing changes, a discovery finds every account of which a source      *)
(* holds a valid session, and a collection of such an account succeeds,    *)
(* whatever is cached.                                                     *)
Healthy == {holder[t] : t \in {c.t : c \in Candidates} \cap valid}
HealthyNeverMasked ==
  \A f \in Fetchers :
    /\ borrower[f].at = "discovered" => Healthy \subseteq borrower[f].found
    /\ borrower[f].at = "failed" =>
         IF borrower[f].kind = "discovery" THEN Healthy = {} ELSE borrower[f].user \notin Healthy

CursorSound == CursorTypeOK /\ CollectedAsItself /\ HealthyNeverMasked
=============================================================================
