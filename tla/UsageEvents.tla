----------------------------- MODULE UsageEvents -----------------------------
(***************************************************************************)
(* The history of usage: events that a provider lists page by page         *)
(* (fetch_usage_events in cursor/client.rs, normalize_usage_events in      *)
(* cursor/events.rs), the events, daily rows and totals they replace in    *)
(* the database (record_collection in storage/usage.rs, the triggers of    *)
(* 0001_initial.sql), and a client that reads the events page by page.     *)
(* One account.  A provider reports events, or the tokens of days.         *)
(*                                                                         *)
(* An event is the time it occurred at, of one token; two times make a     *)
(* day.  Every time has at most one event, so that the occurrence in an    *)
(* event's id is left out.  The provider adds events, late ones too, and   *)
(* takes none back (assumed of Cursor).                                    *)
(***************************************************************************)
EXTENDS Integers, FiniteSetsExt, SequencesExt

CONSTANTS
  MaxTime,     \* bound on time
  Cycles,      \* times at which a billing cycle begins
  FeedPage,    \* EVENT_PAGE_SIZE
  ReaderPage,  \* events a client asks for at once
  Retention    \* SNAPSHOT_RETENTION_DAYS, in times

ASSUME UsageEventsAssumption ==
  /\ MaxTime \in Nat \ {0} /\ Cycles \subseteq 1 .. MaxTime /\ 1 \in Cycles
  /\ {FeedPage, ReaderPage} \subseteq Nat \ {0} /\ Retention \in Nat

VARIABLES
  reports,   \* what the provider reports: "events" or "days"
  now, feed, \* the time, the events of the provider
  fetch,     \* the collection under way
  events,    \* provider_usage_events
  daily,     \* provider_daily_usage: tokens by day
  summary,   \* provider_daily_usage_summary: rows and their tokens
  reader     \* a client that reads the events

eventVars == <<reports, now, feed, fetch, events, daily, summary, reader>>

Times == 1 .. MaxTime
Day(t) == (t + 1) \div 2
Days == 1 .. Day(MaxTime)
NoRow == -1

(* Each of the times is preceded by those that are newer.                  *)
NewestFirst(times) ==
  [i \in 1 .. Cardinality(times) |-> CHOOSE t \in times : Cardinality({u \in times : u > t}) = i - 1]
PageOf(seq, offset, size) == SubSeq(seq, offset + 1, Min({offset + size, Len(seq)}))

(* summary.billing_period: to the end of the cycle, and not past now.      *)
CycleStart(t) == Max({c \in Cycles : c <= t})
CycleEnd(start) == Min({c - 1 : c \in {d \in Cycles : d > start}} \union {MaxTime})
Listing == NewestFirst({e \in feed : fetch.start <= e /\ e <= fetch.cutoff})

NoFetch == [pc |-> "idle", start |-> 1, cutoff |-> 1, total |-> 0, left |-> {}, got |-> {}, first |-> <<>>,
            listed |-> {}, changed |-> FALSE]
NoReader == [pc |-> "idle", offset |-> 0, count |-> 0, seen |-> <<>>, disturbed |-> FALSE]

EventsInit ==
  /\ reports \in {"events", "days"}
  /\ now = 1 /\ feed = {} /\ fetch = NoFetch
  /\ events = {} /\ daily = [d \in Days |-> NoRow] /\ summary = [rows |-> 0, tokens |-> 0]
  /\ reader = NoReader
-----------------------------------------------------------------------------
(* The provider.                                                           *)
Pass ==
  /\ now < MaxTime
  /\ now' = now + 1
  /\ UNCHANGED <<reports, feed, fetch, events, daily, summary, reader>>

Occur ==
  /\ reports = "events"
  /\ \E e \in 1 .. now : e \notin feed /\ feed' = feed \union {e}
  /\ UNCHANGED <<reports, now, fetch, events, daily, summary, reader>>
-----------------------------------------------------------------------------
(* fetch_usage_events: the first page says how many there are, the others  *)
(* come in any order, and the first one is asked for again.                *)
FetchFirst ==
  /\ reports = "events" /\ fetch.pc = "idle"
  /\ fetch' = LET start   == CycleStart(now)
                  listing == NewestFirst({e \in feed : start <= e})
                  total   == Len(listing)
                  first   == PageOf(listing, 0, FeedPage) IN
       [NoFetch EXCEPT !.pc = "paging", !.start = start, !.cutoff = now, !.total = total, !.first = first,
          !.got = Range(first), !.listed = Range(listing),
          !.left = 2 .. ((total + FeedPage - 1) \div FeedPage)]
  /\ UNCHANGED <<reports, now, feed, events, daily, summary, reader>>

FetchPage ==
  /\ fetch.pc = "paging"
  /\ \E p \in fetch.left :
       fetch' = [fetch EXCEPT !.left = @ \ {p},
                              !.got = @ \union Range(PageOf(Listing, (p - 1) * FeedPage, FeedPage)),
                              !.changed = @ \/ Len(Listing) # fetch.total]
  /\ UNCHANGED <<reports, now, feed, events, daily, summary, reader>>

Verify ==
  /\ fetch.pc = "paging" /\ fetch.left = {}
  /\ fetch' = IF PageOf(Listing, 0, FeedPage) = fetch.first /\ ~fetch.changed /\ Cardinality(fetch.got) = fetch.total
              THEN [fetch EXCEPT !.pc = "verified"] ELSE NoFetch
  /\ UNCHANGED <<reports, now, feed, events, daily, summary, reader>>

FailFetch ==
  /\ fetch.pc # "idle"
  /\ fetch' = NoFetch
  /\ UNCHANGED <<reports, now, feed, events, daily, summary, reader>>
-----------------------------------------------------------------------------
(* What the triggers on a row do to the totals.                            *)
InsertTrigger(row, sum) == [rows |-> sum.rows + 1, tokens |-> sum.tokens + row]

DeleteTrigger(row, sum) == [rows |-> sum.rows - 1, tokens |-> sum.tokens - row]

(* Mutant: tokens that replace others are added to them.                   *)
UpdateAdds(old, row, sum) == [sum EXCEPT !.tokens = @ + row]
UpdateTrigger(old, row, sum) == [sum EXCEPT !.tokens = @ - old + row]

(* UPSERT_DAILY_USAGE_QUERY, and the deletion before it.                   *)
Upserted(old, row, sum) ==
  IF old = NoRow THEN InsertTrigger(row, sum) ELSE IF old = row THEN sum ELSE UpdateTrigger(old, row, sum)
Deleted(old, sum) == IF old = NoRow THEN sum ELSE DeleteTrigger(old, sum)

(* Both of several rows, one after the other.                              *)
RowsDeleted(table, sum, days) == FoldSet(LAMBDA d, s : Deleted(table[d], s), sum, days)
RowsUpserted(table, tokens, sum, days) == FoldSet(LAMBDA d, s : Upserted(table[d], tokens[d], s), sum, days)

(* What is read again is no longer what the reader began with.             *)
Overtake == reader' = [reader EXCEPT !.disturbed = (reader.pc # "idle")]

RecordDay ==
  /\ reports = "days"
  /\ \E d \in {Day(now), Day(now) - 1} \intersect Days, tokens \in 0 .. 2 :
       /\ daily' = [daily EXCEPT ![d] = tokens]
       /\ summary' = Upserted(daily[d], tokens, summary)
  /\ UNCHANGED <<reports, now, feed, fetch, events, reader>>

(* record_collection: the batch replaces what its period holds, the days   *)
(* from the first to the last one are counted from the batch alone, and    *)
(* what is older than the retention goes.  The end of the period is        *)
(* calculated again from the time it is by then.                           *)
Replaced(start, end) == {e \in events : ~(start <= e /\ e <= end)} \union fetch.got
Pruned(times) == {e \in times : e >= now - Retention}   \* prune_account_history

RecordEvents ==
  /\ fetch.pc = "verified"
  /\ LET end     == Min({CycleEnd(fetch.start), now})
         tokens  == [d \in Days |-> Cardinality({e \in fetch.got : Day(e) = d})]
         period  == Day(fetch.start) .. Day(end)
         cleared == [d \in Days |-> IF d \in period THEN NoRow ELSE daily[d]]
         counted == {d \in Days : tokens[d] > 0} IN
       /\ events' = Pruned(Replaced(fetch.start, end))
       /\ daily' = [d \in Days |-> IF d \in counted THEN tokens[d] ELSE cleared[d]]
       /\ summary' = RowsUpserted(cleared, tokens, RowsDeleted(daily, summary, period), counted)
  /\ fetch' = NoFetch
  /\ Overtake
  /\ UNCHANGED <<reports, now, feed>>
-----------------------------------------------------------------------------
(* usage_events: the count and the page are two queries.                   *)
CountEvents ==
  /\ reader.pc \in {"idle", "more"} /\ reports = "events"
  /\ reader' = [(IF reader.pc = "idle" THEN NoReader ELSE reader) EXCEPT !.pc = "counted", !.count = Cardinality(events)]
  /\ UNCHANGED <<reports, now, feed, fetch, events, daily, summary>>

ReadPage ==
  /\ reader.pc = "counted"
  /\ reader' = LET page == PageOf(NewestFirst(events), reader.offset, ReaderPage)
                   next == reader.offset + Len(page) IN
       [reader EXCEPT !.seen = @ \o page, !.offset = next,
                      !.pc = IF next < reader.count THEN "more" ELSE "done"]
  /\ UNCHANGED <<reports, now, feed, fetch, events, daily, summary>>

CloseReader ==
  /\ reader.pc = "done"
  /\ reader' = NoReader
  /\ UNCHANGED <<reports, now, feed, fetch, events, daily, summary>>

EventsNext ==
  \/ Pass \/ Occur
  \/ FetchFirst \/ FetchPage \/ Verify \/ FailFetch
  \/ RecordDay \/ RecordEvents
  \/ CountEvents \/ ReadPage \/ CloseReader

EventsSpec == EventsInit /\ [][EventsNext]_eventVars
-----------------------------------------------------------------------------
EventsTypeOK ==
  /\ reports \in {"events", "days"} /\ now \in Times /\ feed \subseteq 1 .. now
  /\ events \subseteq Times
  /\ daily \in [Days -> {NoRow} \union (0 .. 2)]
  /\ summary.rows \in 0 .. Cardinality(Days) /\ summary.tokens \in Nat
  /\ fetch.got \subseteq Times /\ reader.offset \in 0 .. MaxTime

(* The totals that triggers keep are those of the rows, whatever is        *)
(* inserted, changed and deleted in whatever order (0001_initial.sql).     *)
DayRows(table) == {d \in Days : table[d] # NoRow}
TokenSum(table, days) == FoldSet(LAMBDA d, s : s + table[d], 0, days)
SummaryIsSum == summary = [rows |-> Cardinality(DayRows(daily)), tokens |-> TokenSum(daily, DayRows(daily))]

(* docs/cursor.md: an inconsistent feed is rejected as a whole.  Pages     *)
(* that were read while the provider's list grew never make a history.     *)
BatchWasListed == fetch.pc = "verified" => fetch.got = fetch.listed

(* A day of one billing cycle counts the events that are stored for it, as *)
(* long as it is not past retention (record_collection).                   *)
DaysCountEvents ==
  reports = "events" =>
    \A d \in Days : 2 * d - 1 >= now - Retention /\ 2 * d \notin Cycles =>
      Cardinality({e \in events : Day(e) = d}) = (IF daily[d] = NoRow THEN 0 ELSE daily[d])

(* A client that follows next_offset and is not overtaken by a collection  *)
(* has seen every event once (usage_events, loadUsageEvents).              *)
PagesCoverHistory ==
  reader.pc = "done" /\ ~reader.disturbed => reader.seen = NewestFirst(events)

(* Whatever collections replace: totals, days and events agree, nothing is *)
(* stored of a list that changed meanwhile, and a client that is not       *)
(* overtaken reads everything once.                                        *)
HistoryConsistent == SummaryIsSum /\ DaysCountEvents /\ BatchWasListed /\ PagesCoverHistory
=============================================================================
