---------------------------- MODULE CursorReports ----------------------------
(***************************************************************************)
(* What the daemon makes of what cursor.com says of an account.            *)
(*                                                                         *)
(* Its history of usage events is fetched page by page                     *)
(* (providers/cursor/client.rs) and taken together (events.rs), while      *)
(* events are added late or removed and the pages shift.                   *)
(*                                                                         *)
(* The limits of its plan, its spending and its events are reported, and   *)
(* the budgets of its team, which are not the account's own and so go into *)
(* datasets of their own scope (model.rs).                                 *)
(***************************************************************************)
EXTENDS Integers, Sequences, FiniteSets, SequencesExt

CONSTANTS
  Entries,     \* what an event may say, in the order of time; equal ones exist
  Malformed,   \* an entry that cannot be normalised, or lies outside the period
  PageSize,    \* EVENT_PAGE_SIZE
  MaxPages,    \* MAX_EVENT_PAGES
  InFlight,    \* MAX_EVENT_REQUESTS_IN_FLIGHT
  MaxEdits     \* bound on the events added and removed meanwhile

ASSUME EventsAssumption ==
  /\ Entries \subseteq Int /\ Malformed \in Entries
  /\ {PageSize, MaxPages, InFlight} \subseteq Nat \ {0} /\ MaxEdits \in Nat

VARIABLES
  cycle,      \* the events of the billing period, the newest first
  step,        \* how far the collection is
  pages,       \* the pages that were answered, in that order
  missing,     \* the numbers of those that were not
  moments,     \* a history of cycle since the first page
  edits

eventPageVars == <<cycle, step, pages, missing, moments, edits>>

CeilDiv(n, d) == (n + d - 1) \div d
EventPage(k) ==
  [total |-> Len(cycle),
   rows  |-> SubSeq(cycle, (k - 1) * PageSize + 1, Min({k * PageSize, Len(cycle)}))]

LatestFirst(s) == \A i \in 2..Len(s) : s[i - 1] >= s[i]
Lists == {s \in BoundedSeq(Entries, MaxPages * PageSize + 1) : LatestFirst(s)}

EventPagesInit ==
  /\ cycle \in Lists /\ step = "first" /\ pages = <<>> /\ missing = {} /\ moments = {} /\ edits = 0
-----------------------------------------------------------------------------
(* fetch_usage_events: the first page tells how many there are.            *)
FirstPage ==
  LET count == CeilDiv(Len(cycle), PageSize) IN
  /\ step = "first"
  /\ IF count > MaxPages THEN step' = "failed" /\ UNCHANGED <<pages, missing>>
     ELSE step' = "rest" /\ pages' = <<EventPage(1)>> /\ missing' = 2..count
  /\ moments' = {cycle} /\ UNCHANGED <<cycle, edits>>

(* buffer_unordered: some are asked for at once, and answered in any order;*)
(* the first failure ends it.                                              *)
Asked == {k \in missing : Cardinality({j \in missing : j < k}) < InFlight}
OtherPage(k) ==
  /\ step = "rest" /\ k \in Asked
  /\ pages' = Append(pages, EventPage(k)) /\ missing' = missing \ {k}
  /\ UNCHANGED <<cycle, step, moments, edits>>

SameTotal(first, again) == first.total = again.total
SamePage(first, again) == first = again
VerifyFirst ==
  /\ step = "rest" /\ missing = {}
  /\ step' = IF SamePage(pages[1], EventPage(1)) THEN "fetched" ELSE "failed"
  /\ UNCHANGED <<cycle, pages, missing, moments, edits>>

PageFails ==
  /\ step \in {"first", "rest"} /\ step' = "failed"
  /\ UNCHANGED <<cycle, pages, missing, moments, edits>>

(* normalize_usage_events; equal events are told apart by their number.    *)
AllRows == FlattenSeq([i \in DOMAIN pages |-> pages[i].rows])
Consistent == \A i \in DOMAIN pages : pages[i].total = pages[1].total
Readable == Malformed \notin ToSet(AllRows)
EventIds(rows) ==
  {id \in ToSet(rows) \X (0..Len(rows)) : id[2] < Cardinality({i \in DOMAIN rows : rows[i] = id[1]})}
NormalizeEvents ==
  /\ step = "fetched"
  /\ step' = IF Consistent /\ Len(AllRows) = pages[1].total /\ Readable THEN "collected" ELSE "failed"
  /\ UNCHANGED <<cycle, pages, missing, moments, edits>>

(* An event is recorded late, or removed.                                  *)
Edit ==
  /\ step \in {"first", "rest"} /\ edits < MaxEdits /\ edits' = edits + 1
  /\ \/ \E i \in 1..Len(cycle) + 1, e \in Entries : cycle' = InsertAt(cycle, i, e)
     \/ \E i \in DOMAIN cycle : cycle' = RemoveAt(cycle, i)
  /\ LatestFirst(cycle') /\ Len(cycle') <= MaxPages * PageSize + 1
  /\ moments' = IF moments = {} THEN {} ELSE moments \union {cycle'}
  /\ UNCHANGED <<step, pages, missing>>

EventPagesNext ==
  \/ FirstPage \/ VerifyFirst \/ PageFails \/ NormalizeEvents \/ Edit
  \/ \E k \in 2..MaxPages : OtherPage(k)
-----------------------------------------------------------------------------
(* The events that are stored under their ids are those of the account at  *)
(* one moment, none twice and none missing, although the pages are read    *)
(* one after the other: unless two edits cancel out on later pages, which  *)
(* takes three of them (fetch_usage_events).                               *)
OneMoment ==
  step = "collected" /\ (Len(pages) <= 2 \/ edits <= 1) =>
    \E m \in moments : EventIds(AllRows) = EventIds(m)
-----------------------------------------------------------------------------
VARIABLES
  said,   \* what cursor.com answers; a field is TRUE if it holds usable numbers
  report  \* NormalizedCursorUsage, once it is normalised

cursorUsageVars == <<said, report>>

(* The plan's percentages and its amounts, the overall and the pooled      *)
(* amounts, spending on demand that is not zero, requests of a legacy plan.*)
Facts == {"total", "auto", "api", "planRatio", "overall", "pooled", "personal", "team", "legacy"}
Histories == {"events", "inconsistent", "unavailable"}
Unmade == [at |-> "none"]

CursorUsageInit == said \in [is : SUBSET Facts, history : Histories] /\ report = Unmade
-----------------------------------------------------------------------------
Says(fact) == fact \in said.is

(* headline: the first of these that is known.                             *)
HeadlineSource ==
  IF Says("total") \/ Says("auto") \/ Says("api") THEN "plan"
  ELSE IF Says("planRatio") THEN "plan_ratio"
  ELSE IF Says("overall") THEN "overall"
  ELSE IF Says("pooled") THEN "pooled" ELSE "none"

Window(id, of) == [id |-> id, of |-> of]
If(condition, window) == IF condition THEN {window} ELSE {}

(* normalize_cursor_fetch: the quotas, and whose they are.                 *)
Quotas ==
  IF Says("legacy") THEN {Window("cursor_total", "account")}
  ELSE If(HeadlineSource # "none",
          Window("cursor_total", IF HeadlineSource = "pooled" THEN "team" ELSE "account"))
       \union If(Says("auto"), Window("cursor_auto", "account"))
       \union If(Says("api"), Window("cursor_api", "account"))
AlwaysAccountWide == "account_wide"
Scope ==
  IF ~Says("legacy") /\ HeadlineSource = "pooled" THEN "organization" ELSE "account_wide"
OnDemand == If(Says("personal"), Window("cursor_on_demand", "account"))
TeamBudget == {Window("cursor_team_on_demand", "team")}

Dataset(name, scope, windows, events) ==
  [name |-> name, scope |-> scope, windows |-> windows, events |-> events]

(* The account's own go beside the team's pool, when that is the headline. *)
HasEvents == said.history = "events"
Own ==
  IF Scope = "account_wide"
  THEN <<Dataset("cursor", Scope, Quotas \union OnDemand, HasEvents)>>
  ELSE <<Dataset("cursor", Scope, Quotas, FALSE)>>
       \o (IF OnDemand # {} \/ HasEvents
           THEN <<Dataset("cursor_personal_usage", "account_wide", OnDemand, HasEvents)>> ELSE <<>>)

(* The team's budget is shown if the account has none, and alone if there  *)
(* is nothing else; then there is no warning of a history that is missing. *)
Made(datasets, warned) == [at |-> "made", datasets |-> datasets, warned |-> warned]
Normalized ==
  IF Own[1].windows = {} /\ ~Says("team") THEN [at |-> "failed"]
  ELSE IF ~Says("team") \/ Says("personal") THEN Made(Own, ~HasEvents)
  ELSE IF Own[1].windows = {} /\ ~HasEvents
  THEN Made(<<Dataset("cursor", "organization", TeamBudget, FALSE)>>, FALSE)
  ELSE Made(Own \o <<Dataset("cursor_team_budget", "organization", TeamBudget, FALSE)>>, ~HasEvents)

CursorUsageNext == report = Unmade /\ report' = Normalized /\ UNCHANGED said
-----------------------------------------------------------------------------
(* A team's budget is never taken for the account's, nor the account's     *)
(* spending or history for the team's; nothing that is known is lost, told *)
(* twice, or left out without a warning (normalize_cursor_fetch).          *)
Told == UNION {{<<i, w>> : w \in report.datasets[i].windows} : i \in DOMAIN report.datasets}
TeamApart ==
  \A i \in DOMAIN report.datasets :
    LET d == report.datasets[i] IN
    /\ \A w \in d.windows : w.of = "team" <=> d.scope = "organization"
    /\ d.events => d.scope = "account_wide"
ToldOnce ==
  /\ \A a, b \in Told : a[2].id = b[2].id => a = b
  /\ HasEvents <=> \E i \in DOMAIN report.datasets : report.datasets[i].events
  /\ \A i, j \in DOMAIN report.datasets :
       i # j => /\ report.datasets[i].name # report.datasets[j].name
                /\ ~(report.datasets[i].events /\ report.datasets[j].events)
  /\ Says("personal") => \E t \in Told : t[2].id = "cursor_on_demand"
  /\ HasEvents \/ report.warned \/ report.datasets[1].windows = TeamBudget
TeamKeptApart ==
  /\ report.at = "made" => TeamApart /\ ToldOnce
  /\ report.at = "failed" => said.is = {}
=============================================================================
