------------------------- MODULE OpenCodeCollection -------------------------
(***************************************************************************)
(* How the usage of OpenCode Go is collected (providers/opencode/{mod,     *)
(* cookies,http,local}.rs): of one workspace, with a cookie that is        *)
(* configured, cached in the Keychain or imported from a browser, beside   *)
(* what the database on this disk holds.                                   *)
(*                                                                         *)
(* How the history of a workspace of OpenCode is read: page after page of  *)
(* the web console, the newest use first, while uses are recorded          *)
(* (fetch_usage_history in providers/opencode/mod.rs, and history.rs).     *)
(***************************************************************************)
EXTENDS Integers, FiniteSets, Sequences, SequencesExt, FiniteSetsExt, TLC

CONSTANT MaxSwaps  \* bound on what others change, and on requests that fail

ASSUME OpenCodeAssumption == MaxSwaps \in Nat

VARIABLES
  header,    \* the cookie header that is configured
  setting,   \* the workspace that is configured
  jar,       \* the cookie in the Keychain's cache
  imported,  \* the cookie of the first browser profile that has one
  shut,      \* the Keychain gives nothing away
  honoured,  \* the cookies that opencode.ai accepts
  reaches,   \* the workspaces that each of them reaches
  goAuth,    \* OpenCode on this disk is signed in to Go
  goRows,    \* and its database has rows of it
  go,        \* the discovery or collection that is under way
  swaps

openSetup == <<header, setting, goAuth, goRows>>
openWorld == <<imported, shut, honoured, reaches>>
openVars == <<openSetup, openWorld, jar, go, swaps>>

Without == 0
Unusable == -1   \* a header without auth
OpenCookies == 1..3
Spaces == 1..2
LocalAccount == 3
NoAttempt == [at |-> "idle"]

OpenInit ==
  /\ header \in {Without, Unusable, 3} /\ setting \in Spaces \union {Without}
  /\ jar \in {Without, 1} /\ imported \in {Without, 1, 2} /\ shut = FALSE
  /\ honoured \in SUBSET OpenCookies
  /\ reaches \in [OpenCookies -> {{1}, {2}, {1, 2}}] /\ reaches[3] = reaches[1] /\ reaches[1] # {2}
  /\ header = 3 => jar = Without /\ imported = 2   \* which it never looks at
  /\ goAuth \in BOOLEAN /\ goRows \in {r \in BOOLEAN : r => goAuth}
  /\ go = NoAttempt /\ swaps = 0
-----------------------------------------------------------------------------
Goes(next) == go' = next /\ UNCHANGED <<openSetup, openWorld, jar, swaps>>

(* resolve_cookie_header_blocking: what is imported is cached.             *)
UsesJar(cachedToo) == cachedToo /\ jar # Without /\ ~shut
CookieHeader(cachedToo) ==
  IF header \in OpenCookies THEN header
  ELSE IF UsesJar(cachedToo) THEN jar ELSE IF shut THEN Without ELSE imported
JarAfter(cachedToo) ==
  IF header \in OpenCookies \/ UsesJar(cachedToo) \/ CookieHeader(cachedToo) = Without THEN jar ELSE imported

(* discover_accounts: the workspace that is configured, else the first the *)
(* session reaches, else what is on this disk.                             *)
FoundSpace(id) == [at |-> "found", id |-> id]
FallsToLocal == IF goAuth THEN FoundSpace(LocalAccount) ELSE NoAttempt
DiscoverSpace ==
  /\ go.at = "idle"
  /\ IF setting # Without THEN Goes(FoundSpace(setting))
     ELSE /\ jar' = JarAfter(TRUE)
          /\ LET cookie == CookieHeader(TRUE) IN
             go' = IF cookie = Without THEN FallsToLocal ELSE [at |-> "look", cookie |-> cookie]
          /\ UNCHANGED <<openSetup, openWorld, swaps>>
LookForSpace ==
  /\ go.at = "look"
  /\ Goes(IF go.cookie \in honoured THEN FoundSpace(Min(reaches[go.cookie])) ELSE FallsToLocal)
-----------------------------------------------------------------------------
(* collect_usage of an account, whose workspace is its identity; the one   *)
(* of this disk has none, so that the workspace is resolved again.         *)
Collecting(id) ==
  [at |-> "session", id |-> id, again |-> FALSE, cookie |-> Without, space |-> Without, error |-> "none",
   outcome |-> "none", calm |-> TRUE]
CollectSpace == go.at = "found" /\ Goes(Collecting(go.id))
FailsWith(kind) == [go EXCEPT !.at = "failing", !.error = kind]
SpaceOf(id) == IF id # LocalAccount THEN id ELSE setting
ResolveSession ==
  /\ go.at = "session"
  /\ LET cookie == CookieHeader(~go.again) IN
     /\ jar' = JarAfter(~go.again)
     /\ go' = IF cookie = Without THEN FailsWith("missing")
              ELSE [go EXCEPT !.cookie = cookie, !.space = SpaceOf(go.id),
                              !.at = IF SpaceOf(go.id) = Without THEN "workspaces" ELSE "usage"]
  /\ UNCHANGED <<openSetup, openWorld, swaps>>
ResolveSpace ==
  /\ go.at = "workspaces"
  /\ Goes(IF go.cookie \in honoured THEN [go EXCEPT !.at = "usage", !.space = Min(reaches[go.cookie])]
          ELSE FailsWith("unauthorized"))

(* collect_go_web_usage: a workspace of others is forbidden or not found.  *)
FetchSpace ==
  /\ go.at = "usage"
  /\ \/ go.cookie \notin honoured /\ Goes(FailsWith("unauthorized"))
     \/ go.cookie \in honoured /\ go.space \notin reaches[go.cookie]
        /\ \E kind \in {"unauthorized", "unavailable"} : Goes(FailsWith(kind))
     \/ go.cookie \in honoured /\ go.space \in reaches[go.cookie]
        /\ Goes([go EXCEPT !.at = "local", !.error = "none"])

(* A rejected session that is not configured is forgotten, once, and one   *)
(* imported again is tried.                                                *)
NeverAgain == FALSE
RetriesImported == go.error = "unauthorized" /\ ~go.again /\ header \notin OpenCookies
TryAgain ==
  /\ go.at = "failing"
  /\ IF RetriesImported
     THEN /\ jar' = IF shut THEN jar ELSE Without
          /\ go' = [go EXCEPT !.at = "session", !.again = TRUE]
     ELSE UNCHANGED jar /\ go' = [go EXCEPT !.at = "local"]
  /\ UNCHANGED <<openSetup, openWorld, swaps>>

(* The database is read beside it: it never makes a success of a failure.  *)
SpaceOutcome(web, local) ==
  IF web THEN "collected" ELSE IF local THEN "degraded" ELSE "failed"
ReadLocal ==
  /\ go.at = "local"
  /\ Goes([go EXCEPT !.at = "done", !.outcome = SpaceOutcome(go.error = "none", goRows)])
-----------------------------------------------------------------------------
(* Others: requests that fail, cookies that end or are replaced, and the   *)
(* Keychain being locked.                                                  *)
Swap == swaps < MaxSwaps /\ swaps' = swaps + 1
Roused == IF "calm" \in DOMAIN go THEN [go EXCEPT !.calm = FALSE] ELSE go
OpenRequestFails ==
  /\ Swap /\ go.at \in {"workspaces", "usage"}
  /\ go' = [Roused EXCEPT !.at = "failing", !.error = "network"]
  /\ UNCHANGED <<openSetup, openWorld, jar>>
SessionsChange ==
  /\ Swap /\ go' = Roused /\ UNCHANGED <<openSetup, jar, reaches>>
  /\ \/ \E c \in honoured : honoured' = honoured \ {c} /\ UNCHANGED <<imported, shut>>
     \/ imported # 2 /\ imported' = 2 /\ honoured' = honoured \union {2} /\ UNCHANGED shut
     \/ shut' = ~shut /\ UNCHANGED <<imported, honoured>>
OpenDone == go.at \in {"found", "done"} /\ Goes(NoAttempt)

OpenNext ==
  \/ DiscoverSpace \/ LookForSpace \/ CollectSpace \/ ResolveSession \/ ResolveSpace \/ FetchSpace
  \/ TryAgain \/ ReadLocal \/ OpenRequestFails \/ SessionsChange \/ OpenDone
-----------------------------------------------------------------------------
(* What is stored of a workspace is of that workspace, whichever sessions  *)
(* came since it was discovered.                                           *)
SpacesKept ==
  go.at = "done" /\ go.outcome = "collected" /\ go.id # LocalAccount => go.space = go.id

(* A session that is rejected hides none that would do, while nobody       *)
(* interferes; one that is configured is neither bypassed nor given up.    *)
Serves(cookie) == cookie \in honoured /\ go.space \in reaches[cookie]
SessionsTried ==
  go.at = "done" /\ go.error = "unauthorized" /\ go.calm =>
    IF header \in OpenCookies THEN go.cookie = header /\ ~Serves(header)
    ELSE ~shut => ~Serves(imported) /\ jar \in {Without, imported}

(* What this disk holds is kept without the web, but is no success of it.  *)
LocalBeside ==
  go.at = "done" => /\ go.outcome = "collected" <=> go.error = "none"
                    /\ goRows => go.outcome # "failed"

OpenSound == SpacesKept /\ SessionsTried /\ LocalBeside
-----------------------------------------------------------------------------
CONSTANTS
  MaxUses,    \* bound on the uses that are recorded
  SpacePage,  \* USAGE_HISTORY_PAGE_SIZE
  SpacePages, \* MAX_USAGE_HISTORY_PAGES
  MaxLost     \* bound on the requests that fail

ASSUME OpenHistoryAssumption ==
  MaxUses \in Nat /\ SpacePage \in Nat \ {0} /\ SpacePages \in Nat \ {0} /\ MaxLost \in Nat

VARIABLES
  uses,     \* how many are recorded; a use is known by its number
  before,   \* those that were recorded before the days looked back on
  reading,  \* the history that is being read
  lost

openHistoryVars == <<uses, before, reading, lost>>

Unread == [at |-> "idle"]
OpenHistoryInit == uses \in 0..MaxUses /\ before \in 0..uses /\ reading = Unread /\ lost = 0
-----------------------------------------------------------------------------
SpaceRows(n) == [i \in 1..n |-> n + 1 - i]
ReadPage(p) == SubSeq(SpaceRows(uses), p * SpacePage + 1, IF uses < (p + 1) * SpacePage THEN uses ELSE (p + 1) * SpacePage)

BeginHistory ==
  /\ reading.at \in {"idle", "report"}
  /\ reading' = [at |-> "page", page |-> 0, rows |-> <<>>, began |-> uses]
  /\ UNCHANGED <<uses, before, lost>>

(* A history that ends, is short of a page, or goes back far enough is     *)
(* complete; one that has as many pages as are read at most is not.        *)
HistoryReport(rows, complete, from) ==
  [at |-> "report", rows |-> rows, complete |-> complete, began |-> reading.began, from |-> from]
AlwaysEnds(rows) == TRUE
HistoryEnds(rows) == \/ \A i \in DOMAIN rows : rows[i] <= before
                     \/ Len(rows) < SpacePage
Html == [at |-> "html", began |-> reading.began]
NextPage ==
  /\ reading.at = "page" /\ UNCHANGED <<uses, before, lost>>
  /\ LET rows == reading.rows \o ReadPage(reading.page) IN
     reading' = IF ReadPage(reading.page) = <<>> /\ rows = <<>> THEN Html
                ELSE IF HistoryEnds(ReadPage(reading.page)) THEN HistoryReport(rows, TRUE, "pages")
                ELSE IF reading.page + 1 = SpacePages THEN HistoryReport(rows, FALSE, "pages")
                ELSE [reading EXCEPT !.page = @ + 1, !.rows = rows]

(* A page that fails ends it; if it is the first, the page for people is   *)
(* read, whose rows are never complete.                                    *)
PageLost ==
  /\ reading.at \in {"page", "html"} /\ lost < MaxLost /\ lost' = lost + 1
  /\ reading' = IF reading.at = "html" THEN Unread
                ELSE IF reading.page = 0 THEN Html ELSE HistoryReport(reading.rows, FALSE, "pages")
  /\ UNCHANGED <<uses, before>>
HtmlRead ==
  /\ reading.at = "html"
  /\ reading' = IF uses = 0 THEN Unread ELSE HistoryReport(ReadPage(0), FALSE, "html")
  /\ UNCHANGED <<uses, before, lost>>

(* Others: the workspace is used.                                          *)
Use == uses < MaxUses /\ uses' = uses + 1 /\ UNCHANGED <<before, reading, lost>>

OpenHistoryNext == BeginHistory \/ NextPage \/ PageLost \/ HtmlRead \/ Use
-----------------------------------------------------------------------------
(* A history that is said to be complete leaves out no use of the days     *)
(* that are looked back on which was recorded before it was read; and if   *)
(* nothing was recorded meanwhile it counts each once.                     *)
CompleteIsAll ==
  reading.at = "report" =>
    /\ reading.complete => (before + 1)..reading.began \subseteq ToSet(reading.rows)
    /\ uses = reading.began => Cardinality(ToSet(reading.rows)) = Len(reading.rows)
    /\ reading.complete => reading.from = "pages"
=============================================================================
