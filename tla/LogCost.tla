------------------------------ MODULE LogCost ------------------------------
(***************************************************************************)
(* What the command line tools of one profile have cost, counted from the  *)
(* logs they write (providers/local_usage, {codex,claude}/cost.rs).  The   *)
(* scans of a flight and of a file event share a cache of what each file   *)
(* holds, which none keeps locked while it reads; the tools go on writing, *)
(* archiving and deleting logs meanwhile.                                  *)
(***************************************************************************)
EXTENDS Integers, FiniteSets, Sequences, SequencesExt, FiniteSetsExt, Functions

CONSTANTS
  Sessions,   \* log files
  LastDay,    \* the days are 1..LastDay
  Lookback,   \* COST_LOOKBACK_DAYS
  MaxLines,   \* bound on the events written
  MaxScans,   \* bound on the scans, which may all run at once
  MaxMoves    \* bound on the logs archived or deleted

ASSUME LogCostAssumption ==
  /\ LastDay \in Nat \ {0} /\ Lookback \in Nat \ {0}
  /\ MaxLines \in Nat /\ MaxScans \in Nat /\ MaxMoves \in Nat

VARIABLES
  tool,       \* "codex" or "claude"
  lines,      \* what each log holds
  place,      \* the folder each log lies in
  stamp,      \* the size and time of change of each log, as one number
  counter,    \* the running total that each session reports
  today,
  costs,      \* the cache, of which id is scanned_at
  stale,      \* the last scanned_at that is min_interval ago
  scans,      \* what each scan does
  begun, moves,  \* how many scans have begun, how often a log was moved
  consumed,   \* history: the tokens of each session and day that are to be charged
  covered     \* history: the tokens that the cache has ever had to hold

logs == <<lines, place, stamp, counter, consumed>>
logVars == <<tool, logs, today, costs, stale, scans, begun, moves, covered>>

NoTotal == -1
AllDays == 1..LastDay
NoTokens == [d \in AllDays |-> 0]
Plus(cost, d, n) == [cost EXCEPT ![d] = @ + n]
Total(cost) == SumFunctionOnSet(cost, DOMAIN cost)

LogInit ==
  /\ tool \in {"codex", "claude"} /\ today = 1
  /\ lines = [f \in Sessions |-> <<>>] /\ place = [f \in Sessions |-> "sessions"]
  /\ stamp = [f \in Sessions |-> 0] /\ counter = [f \in Sessions |-> 0]
  /\ costs = [id |-> 0] /\ stale = 0 /\ scans = [s \in 1..MaxScans |-> [at |-> "idle"]]
  /\ begun = 0 /\ moves = 0
  /\ consumed = [f \in Sessions |-> NoTokens] /\ covered = NoTokens
-----------------------------------------------------------------------------
(* What one token_count event of Codex adds (codex_token_delta): nothing   *)
(* if it repeats the running total, else what it says of the last request, *)
(* else the growth of the total, of which the first is only a baseline.    *)
Delta(previous, e) ==
  IF e.total # NoTotal /\ e.total = previous THEN 0
  ELSE IF e.last > 0 THEN e.last
  ELSE IF NoTotal \in {e.total, previous} THEN 0 ELSE Max({e.total - previous, 0})

(* A token_count event and a row of Claude Code, as they are parsed.       *)
TokenCount(last, total, d) == [last |-> last, total |-> total, day |-> d]
Row(key, tokens, d) == [key |-> key, tokens |-> tokens, day |-> d]

CodexCost(events) ==
  LET Charge(scan, e) ==
        [previous |-> IF e.total # NoTotal THEN e.total
                      ELSE Max({scan.previous, 0}) + Delta(scan.previous, e),
         cost |-> Plus(scan.cost, e.day, Delta(scan.previous, e))]
  IN FoldLeft(Charge, [previous |-> NoTotal, cost |-> NoTokens], events).cost

(* Claude Code writes a message again while it grows: the last row counts. *)
ClaudeCost(rows) ==
  LET Final == {i \in DOMAIN rows : \A j \in DOMAIN rows : j > i => rows[j].key # rows[i].key}
  IN [d \in AllDays |-> MapThenSumSet(LAMBDA i : rows[i].tokens, {i \in Final : rows[i].day = d})]

FileCost(f) == IF tool = "codex" THEN CodexCost(lines[f]) ELSE ClaudeCost(lines[f])

Window(date) == {d \in AllDays : date - Lookback < d /\ d <= date}
Merged(files) == [d \in AllDays |-> MapThenSumSet(LAMBDA p : files[p].cost[d], DOMAIN files)]
Report(files, date) ==
  LET cost == Merged(files) IN
  [total |-> Total(cost), today |-> cost[date], byDay |-> [d \in Window(date) |-> cost[d]],
   lookback |-> SumFunctionOnSet(cost, Window(date))]
-----------------------------------------------------------------------------
(* The tools.  Codex reports the tokens of a request, the running total of *)
(* the session or both, and says again what it has said with a total; a    *)
(* session that begins with a total may carry tokens of an earlier one.    *)
Writes(f, line, charged) ==
  /\ SumFunctionOnSet([g \in Sessions |-> Len(lines[g])], Sessions) < MaxLines
  /\ place[f] # "gone"
  /\ lines' = [lines EXCEPT ![f] = Append(@, line)]
  /\ stamp' = [stamp EXCEPT ![f] = @ + 1]
  /\ consumed' = [consumed EXCEPT ![f] = Plus(@, line.day, charged)]
  /\ UNCHANGED <<tool, place, today, costs, stale, scans, begun, moves, covered>>

Asks(f) ==
  /\ tool = "codex"
  /\ \E last \in {0, 1}, tells \in BOOLEAN :
       /\ last = 1 \/ tells
       /\ \E earlier \in IF lines[f] = <<>> /\ last = 0 THEN {0, 1} ELSE {0} :
            LET c == counter[f] + earlier + 1 IN
            /\ counter' = [counter EXCEPT ![f] = c]
            /\ Writes(f, TokenCount(last, IF tells THEN c ELSE NoTotal, today),
                      IF lines[f] = <<>> /\ last = 0 THEN 0 ELSE 1)
Repeat(f) ==
  /\ tool = "codex" /\ lines[f] # <<>> /\ Last(lines[f]).total # NoTotal
  /\ Writes(f, [Last(lines[f]) EXCEPT !.day = today], 0)
  /\ UNCHANGED counter

(* Claude Code begins a message, or writes it again with one token more.   *)
Message(f) ==
  /\ tool = "claude" /\ counter' = [counter EXCEPT ![f] = @ + 1]
  /\ Writes(f, Row(counter[f], 1, today), 1)
Rewrite(f) ==
  /\ tool = "claude" /\ lines[f] # <<>> /\ Last(lines[f]).day = today
  /\ Writes(f, [Last(lines[f]) EXCEPT !.tokens = @ + 1], 1)
  /\ UNCHANGED counter

(* A log is archived by Codex or deleted, which may hide it from the scans *)
(* that are under way.                                                     *)
Move(f) ==
  /\ moves < MaxMoves /\ moves' = moves + 1
  /\ place[f] # "gone" /\ lines[f] # <<>>
  /\ \E to \in {"archived_sessions", "gone"} :
       /\ to # place[f] /\ (to = "gone" \/ tool = "codex")
       /\ place' = [place EXCEPT ![f] = to]
  /\ scans' = [s \in 1..MaxScans |->
       IF "sure" \in DOMAIN scans[s] THEN [scans[s] EXCEPT !.sure = FALSE] ELSE scans[s]]
  /\ covered' = NoTokens
  /\ UNCHANGED <<tool, lines, stamp, counter, consumed, today, costs, stale, begun>>
-----------------------------------------------------------------------------
(* scan_cached_files looks at the cache and lets go of it.  A recent one   *)
(* is the answer, folded again if the day has changed since; with an older *)
(* one the logs are searched.                                              *)
Does(s, scan) == scans' = [scans EXCEPT ![s] = scan]
Cache(id, files, date) == [id |-> id, files |-> files, date |-> date, report |-> Report(files, date)]
Begins(s) ==
  /\ s = begun + 1 /\ begun' = s
  /\ UNCHANGED <<tool, logs, today, costs, stale, moves, covered>>
Present == [d \in AllDays |-> MapThenSumSet(LAMBDA f : consumed[f][d],
                                           {f \in Sessions : place[f] # "gone"})]
Answer(base, new, scan) ==
  [at |-> "answer", base |-> base, new |-> new,
   date |-> scan.date, sure |-> scan.sure, least |-> scan.least]

Throttled(s) ==
  /\ costs.id > stale /\ Begins(s)
  /\ LET scan == [date |-> today, sure |-> TRUE, least |-> covered] IN
     Does(s, IF costs.date = today THEN Answer(0, costs, scan)
             ELSE Answer(costs.id, Cache(costs.id, costs.files, today), scan))
Begin(s) ==
  /\ costs.id <= stale /\ Begins(s)
  /\ Does(s, [at |-> "walk", old |-> costs, date |-> today,
              roots |-> IF tool = "codex" THEN <<"archived_sessions", "sessions">> ELSE <<"sessions">>,
              found |-> <<>>, sure |-> TRUE, least |-> Present])

(* collect_file_snapshots: one root after the other, in their order.  If   *)
(* no file has changed the cache is as good as new; otherwise those that   *)
(* have are left to be read.                                               *)
Parsing(s, scan, files, left) ==
  IF left = {} THEN Answer(scan.base, Cache(s, files, scan.date), scan)
  ELSE [scan EXCEPT !.files = files, !.left = left]
Walk(s) ==
  LET scan == scans[s]
      here == {f \in Sessions : place[f] = Head(scan.roots) /\ lines[f] # <<>>}
      found == [p \in DOMAIN scan.found \union ({Head(scan.roots)} \X here) |->
                  IF p \in DOMAIN scan.found THEN scan.found[p] ELSE stamp[p[2]]]
      old == IF scan.old.id = 0 THEN <<>> ELSE scan.old.files
      same == {p \in DOMAIN found \cap DOMAIN old : old[p].stamp = found[p]}
  IN /\ scan.at = "walk"
     /\ Does(s, IF Len(scan.roots) > 1 THEN [scan EXCEPT !.found = found, !.roots = Tail(@)]
                ELSE Parsing(s, [at |-> "parse", base |-> scan.old.id, date |-> scan.date,
                              found |-> found, files |-> <<>>, left |-> {},
                              sure |-> scan.sure, least |-> scan.least],
                             Restrict(old, same), DOMAIN found \ same))
     /\ UNCHANGED <<tool, logs, today, costs, stale, begun, moves, covered>>

(* A file that has changed is read again, under the stamp found before; if *)
(* it is no longer there, the whole scan fails.                            *)
Parse(s) ==
  LET scan == scans[s]
      p == CHOOSE q \in scan.left : TRUE
      entry == [stamp |-> scan.found[p], cost |-> FileCost(p[2])]
      files == [q \in DOMAIN scan.files \union {p} |-> IF q = p THEN entry ELSE scan.files[q]]
  IN
  /\ scan.at = "parse"
  /\ Does(s, IF place[p[2]] # p[1] THEN [at |-> "idle"] ELSE Parsing(s, scan, files, scan.left \ {p}))
  /\ UNCHANGED <<tool, logs, today, costs, stale, begun, moves, covered>>

(* replace_cache_if_unchanged, after which the scan returns its report.    *)
IfAny(base) == TRUE
IfUnchanged(base) == costs.id = base
Replace(s) ==
  LET scan == scans[s] IN
  /\ scan.at = "answer"
  /\ IF IfUnchanged(scan.base)
     THEN /\ costs' = scan.new
          /\ covered' = IF scan.sure THEN [d \in AllDays |-> Max({covered[d], scan.least[d]})]
                        ELSE NoTokens
     ELSE UNCHANGED <<costs, covered>>
  /\ Does(s, [at |-> "idle"])
  /\ UNCHANGED <<tool, logs, today, stale, begun, moves>>
-----------------------------------------------------------------------------
Age ==
  /\ costs.id > stale /\ stale' = costs.id
  /\ UNCHANGED <<tool, logs, today, costs, scans, begun, moves, covered>>
Midnight ==
  /\ today < LastDay /\ today' = today + 1
  /\ UNCHANGED <<tool, logs, costs, stale, scans, begun, moves, covered>>

LogNext ==
  \/ \E f \in Sessions : Asks(f) \/ Repeat(f) \/ Message(f) \/ Rewrite(f) \/ Move(f)
  \/ \E s \in 1..MaxScans :
       Throttled(s) \/ Begin(s) \/ Walk(s) \/ Parse(s) \/ Replace(s)
  \/ Age \/ Midnight

LogTypeOK ==
  /\ tool \in {"codex", "claude"} /\ place \in [Sessions -> {"sessions", "archived_sessions", "gone"}]
  /\ stamp \in [Sessions -> Nat] /\ counter \in [Sessions -> Nat] /\ today \in 1..LastDay
  /\ costs.id \in 0..MaxScans /\ stale \in 0..MaxScans /\ begun \in 0..MaxScans
  /\ consumed \in [Sessions -> [AllDays -> Nat]] /\ covered \in [AllDays -> Nat]
-----------------------------------------------------------------------------
(* What the cache holds of a file that still looks as it was found is what *)
(* the file holds (CachedFile): a line written while the file was read is  *)
(* read again, never taken for read.                                       *)
CacheHonest ==
  costs.id # 0 =>
    \A p \in DOMAIN costs.files :
      place[p[2]] = p[1] /\ stamp[p[2]] = costs.files[p].stamp
        => costs.files[p].cost = FileCost(p[2])

(* What scans are about to return, and what the next may find in the cache.*)
Reported ==
  {[report |-> scans[s].new.report, date |-> scans[s].date,
    least |-> IF scans[s].sure THEN scans[s].least ELSE NoTokens] :
     s \in {t \in 1..MaxScans : scans[t].at = "answer"}}
  \union {[report |-> c.report, date |-> c.date, least |-> covered] :
            c \in {costs} \ {[id |-> 0]}}

(* No day is charged tokens that were not used on it, however often the    *)
(* tool repeats itself (codex_token_delta, the rows of a Claude message)   *)
(* and wherever the log lies.                                              *)
NeverOvercharged ==
  LET Consumed(d) == MapThenSumSet(LAMBDA f : consumed[f][d], Sessions) IN
  \A a \in Reported :
    /\ \A d \in DOMAIN a.report.byDay : a.report.byDay[d] <= Consumed(d)
    /\ a.report.total <= MapThenSumSet(Consumed, AllDays)

(* An answer is folded for its day, and lacks nothing that was written     *)
(* before its scan began or, if it comes of the cache, that the cache has  *)
(* ever had to hold (scan_cached_files, replace_cache_if_unchanged).       *)
AnswersCoverLogs ==
  \A a \in Reported :
    /\ DOMAIN a.report.byDay = Window(a.date) /\ a.report.today = a.report.byDay[a.date]
    /\ \A d \in Window(a.date) : a.report.byDay[d] >= a.least[d]

CostsTrue == CacheHonest /\ NeverOvercharged /\ AnswersCoverLogs
=============================================================================
