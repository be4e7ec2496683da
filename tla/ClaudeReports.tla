--------------------------- MODULE ClaudeReports ----------------------------
(***************************************************************************)
(* How the usage of Claude is read from its CLI (providers/claude/cli.rs): *)
(* from the screen of /usage on a terminal of its own, once nothing has    *)
(* been drawn for a moment, and else from what the CLI prints.  Before,    *)
(* the CLI's settings are made to trust the directory it is run in.        *)
(*                                                                         *)
(* What the daemon makes of the quotas that Claude's API states            *)
(* (providers/claude/normalize.rs): in a list of limits, and in older      *)
(* shapes, by their names and wherever they are found.                     *)
(***************************************************************************)
EXTENDS Integers, FiniteSets, Sequences, SequencesExt, FiniteSetsExt

CONSTANTS
  MaxDrawn,   \* bound on the lines that are drawn
  MaxSaves,   \* bound on the changes of the CLI's settings by others
  DayHours,   \* hours of a day
  YearDays    \* days of a year

ASSUME ClaudeScreenAssumption ==
  MaxDrawn \in Nat /\ MaxSaves \in Nat /\ DayHours \in Nat \ {0} /\ YearDays \in Nat \ {0}

VARIABLES
  script,    \* the lines that the CLI draws
  drawn,     \* how many of them are drawn
  signIn,     \* what `claude auth status' says
  supplied,  \* a token is given to the CLI
  cliSettings, \* .claude.json: its version, and whether the directory is trusted
  saves,     \* the changes of it by others
  raced,     \* one was made between its comparison and its replacement
  probe,     \* the measurement that is under way
  clock      \* the hour at which it is made

claudeCli == <<script, signIn, supplied, clock>>
screenVars == <<claudeCli, drawn, cliSettings, saves, raced, probe>>

Unsaid == 0
Line(is, of, percent) == [is |-> is, of |-> of, percent |-> percent]
UsageLines ==
  {Line("heading", h, Unsaid) : h \in {"session", "week"}} \union {Line("percent", "", p) : p \in 1..2} \union
  {Line("both", "session", 1), Line("both", "week", 2), Line("resets", "", Unsaid)}
Notices == {Line(n, "", Unsaid) : n \in {"limited", "trust", "login"}}
NoProbe == [at |-> "idle"]

ScreenInit ==
  /\ script \in SeqOf(UsageLines, MaxDrawn) \union SeqOf(UsageLines \union Notices, 2)
  /\ drawn = 0 /\ signIn \in {"claude.ai", "oauth_token", "none"} /\ supplied \in BOOLEAN
  /\ cliSettings \in [version : {0}, trusted : BOOLEAN] /\ saves = 0 /\ raced = FALSE /\ probe = NoProbe
  /\ clock \in 0..2 * YearDays * DayHours - 1
  /\ Len(script) > 1 => cliSettings.trusted /\ signIn = "claude.ai" /\ ~supplied
  /\ script # <<>> => clock = 0
-----------------------------------------------------------------------------
Probes(next) == probe' = next /\ UNCHANGED <<claudeCli, drawn, cliSettings, saves, raced>>
ProbeEnded(outcome) == [at |-> "done", outcome |-> outcome, windows |-> {}]
Prints == [at |-> "print"]

(* prepare_usage_workspace, only if the CLI is signed in, and not over a   *)
(* change that was made since the settings were read.                      *)
SignedInCli == signIn = "claude.ai" \/ (signIn = "oauth_token" /\ supplied)
BeginProbe ==
  /\ probe.at = "idle"
  /\ Probes(IF cliSettings.trusted THEN [at |-> "screen"] ELSE [at |-> "status", seen |-> cliSettings])
CheckLogin ==
  /\ probe.at = "status"
  /\ \/ Probes(IF SignedInCli THEN [probe EXCEPT !.at = "compare"] ELSE ProbeEnded("unauthorized"))
     \/ Probes(Prints)   \* it fails, or takes longer than five seconds
NeverCompares == TRUE
NotSaved == cliSettings = probe.seen
CompareSettings ==
  /\ probe.at = "compare"
  /\ Probes(IF NotSaved THEN [probe EXCEPT !.at = "replace"] ELSE Prints)
ReplaceSettings ==
  /\ probe.at = "replace" /\ probe' = [at |-> "screen"]
  /\ cliSettings' = [probe.seen EXCEPT !.trusted = TRUE]
  /\ UNCHANGED <<claudeCli, drawn, saves, raced>>
PrepareFails == probe.at \in {"idle", "compare", "replace"} /\ Probes(Prints)   \* a link, a file that cannot be written
-----------------------------------------------------------------------------
(* parse_usage_text: a heading, the percentage that follows it and when it *)
(* resets, or all in one line; of a window that is shown twice the last.   *)
NoHeading == [of |-> "", percent |-> Unsaid, resets |-> FALSE]
Put(windows, w) == {v \in windows : v.of # w.of} \union {w}
Pushed(s) == IF s.pending.percent = Unsaid THEN s.windows ELSE Put(s.windows, s.pending)
AtHeading(line) == [of |-> line.of, percent |-> line.percent, resets |-> FALSE]
ParseLine(s, line) ==
  CASE line.is = "both" -> [windows |-> Put(Pushed(s), AtHeading(line)), pending |-> NoHeading]
    [] line.is = "heading" -> [windows |-> Pushed(s), pending |-> AtHeading(line)]
    [] line.is = "percent" /\ s.pending # NoHeading /\ s.pending.percent = Unsaid
         -> [s EXCEPT !.pending.percent = line.percent]
    [] line.is = "resets" /\ s.pending.percent # Unsaid
         -> [windows |-> Put(s.windows, [s.pending EXCEPT !.resets = TRUE]), pending |-> NoHeading]
    [] OTHER -> s
ParseUsage(lines) == Pushed(FoldLeft(ParseLine, [windows |-> {}, pending |-> NoHeading], lines))

(* read_usage_screen: what is drawn is looked at when it has been still.   *)
Drawn == SubSeq(script, 1, drawn)
Draw == probe.at = "screen" /\ drawn < Len(script) /\ drawn' = drawn + 1
        /\ UNCHANGED <<claudeCli, cliSettings, saves, raced, probe>>
Shows(notice) == \E i \in DOMAIN Drawn : Drawn[i].is = notice
LookAtScreen ==
  /\ probe.at = "screen"
  /\ IF Shows("limited") THEN Probes(ProbeEnded("limited"))
     ELSE IF Shows("trust") THEN Probes(Prints)
     ELSE IF ParseUsage(Drawn) # {} THEN Probes([ProbeEnded("usage") EXCEPT !.windows = ParseUsage(Drawn)])
     ELSE Shows("login") /\ Probes(ProbeEnded("unauthorized"))
ScreenLost == probe.at = "screen" /\ Probes(Prints)   \* it exits, or twenty seconds have passed

(* collect_usage_from_json_cli.                                            *)
PrintUsage ==
  /\ probe.at = "print"
  /\ \/ \E outcome \in {"limited", "unauthorized", "unavailable", "parse"} : Probes(ProbeEnded(outcome))
     \/ Probes(IF ParseUsage(script) = {} THEN ProbeEnded("parse")
               ELSE [ProbeEnded("usage") EXCEPT !.windows = ParseUsage(script)])

(* parse_reset_at, in the zone that is named: a time of day is the next    *)
(* one, and a date that has passed by more than a day is next year's.      *)
HourOf(t) == t % DayHours
DateOf(t) == (t \div DayHours) % YearDays
YearHours == YearDays * DayHours
NextAt(hour) ==
  LET today == clock - HourOf(clock) + hour IN IF today <= clock THEN today + DayHours ELSE today
ThisYearAt(date, hour) == (clock \div YearHours) * YearHours + date * DayHours + hour
DateAt(date, hour) ==
  IF ThisYearAt(date, hour) + DayHours < clock THEN ThisYearAt(date, hour) + YearHours ELSE ThisYearAt(date, hour)

(* Others: Claude saves its settings, which matters while they are made.   *)
ClaudeSaves ==
  /\ saves < MaxSaves /\ probe.at \in {"status", "compare", "replace"} /\ saves' = saves + 1
  /\ cliSettings' = [cliSettings EXCEPT !.version = saves + 1] /\ raced' = (raced \/ probe.at = "replace")
  /\ UNCHANGED <<claudeCli, drawn, probe>>

ScreenNext ==
  \/ BeginProbe \/ PrepareFails \/ CheckLogin \/ CompareSettings \/ ReplaceSettings
  \/ Draw \/ LookAtScreen \/ ScreenLost \/ PrintUsage \/ ClaudeSaves
-----------------------------------------------------------------------------
(* A percentage is reported of the window whose heading it follows, as it  *)
(* was said last, however the screen was drawn and redrawn.                *)
Names(i) == script[i].is \in {"heading", "both"}
SaysOf(i, h) ==
  \/ script[i].is = "both" /\ script[i].of = h
  \/ /\ script[i].is = "percent"
     /\ \E k \in 1..i - 1 : /\ script[k].is = "heading" /\ script[k].of = h
                            /\ \A j \in k + 1..i - 1 : ~Names(j) /\ script[j].is # "percent"
LastOf(w, n) ==
  \E i \in 1..n : /\ SaysOf(i, w.of) /\ script[i].percent = w.percent
                  /\ \A j \in i + 1..n : ~SaysOf(j, w.of)
                  /\ w.resets <=> script[i].is = "percent" /\
                       \E r \in i + 1..n : script[r].is = "resets" /\ \A j \in i + 1..r : ~Names(j)
ScreenRead ==
  probe.at = "done" /\ probe.outcome = "usage" =>
    \E n \in {drawn, Len(script)} :
      /\ \A w \in probe.windows : LastOf(w, n)
      /\ \A i \in 1..n, h \in {"session", "week"} : SaysOf(i, h) => \E w \in probe.windows : w.of = h

(* No change that Claude made of its settings is undone, but for one made  *)
(* between the comparison and the replacement, which are not atomic.       *)
SettingsKept == cliSettings.version = saves \/ raced

(* A reset lies ahead, or has passed by no more than a day; and no other   *)
(* hour that reads the same lies between.                                  *)
ResetsNext ==
  script = <<>> => \A hour \in 0..DayHours - 1 :
    /\ NextAt(hour) \in clock + 1..clock + DayHours /\ HourOf(NextAt(hour)) = hour
    /\ \A date \in 0..YearDays - 1 :
         /\ DateAt(date, hour) >= clock - DayHours
         /\ HourOf(DateAt(date, hour)) = hour /\ DateOf(DateAt(date, hour)) = date
         /\ \A t \in clock + 1..DateAt(date, hour) - 1 : ~(HourOf(t) = hour /\ DateOf(t) = date)

ScreenSound == ScreenRead /\ SettingsKept /\ ResetsNext
-----------------------------------------------------------------------------
VARIABLES
  quotas,  \* what is stated
  shown    \* the windows that are made of it

claudeQuotaVars == <<quotas, shown>>

Unstated == -1
Broken == -2   \* of another shape than the one that is declared
Percents == {Unstated, 20, 140}
Limit(kind, scope, percent) == [kind |-> kind, scope |-> scope, percent |-> percent]
Limits == {Limit("session", "", p) : p \in Percents} \union
          {Limit("weekly_all", "", 20)} \union
          {Limit("weekly_scoped", s, p) : s \in {"", "opus"}, p \in {Unstated, 30}}
Entry(name, percent, dollars) == [name |-> name, percent |-> percent, dollars |-> dollars]
(* The fields of the answer, of which some are named like a window, some   *)
(* hold dollars, and some are of neither kind; and of one within another.  *)
Fields ==
  {Entry("five_hour", 40, FALSE), Entry("seven_day_opus", 41, FALSE), Entry("seven_day_opus", Unstated, FALSE),
   Entry("seven_day", 42, TRUE), Entry("tangelo", 43, FALSE), Entry("plan/weekly", 44, FALSE)}
Utilizations ==
  {Entry("five_hour", p, FALSE) : p \in {50, Unstated, Broken}} \union
  {Entry("weekly", 51, FALSE), Entry("amber", 52, FALSE)}
Extra == [used : {Unstated, 0, 3}, limit : {Unstated, 0, 2}]

ReadAs(is, windows) == [is |-> is, windows |-> windows]
OncePerName(entries) == \A e, f \in entries : e.name = f.name => e = f
ClaudeQuotasInit ==
  /\ quotas \in [limits : SeqOf(Limits, 2), utilization : kSubset(0, Utilizations) \union
                   kSubset(1, Utilizations) \union {u \in kSubset(2, Utilizations) : OncePerName(u)},
                 fields : {f \in SUBSET Fields : OncePerName(f)}, extra : Extra]
  /\ quotas.limits # <<>> \/ quotas.fields # {} => quotas.extra = [used |-> Unstated, limit |-> 2]
  /\ shown = ReadAs("nothing", <<>>)
-----------------------------------------------------------------------------
LooksLikeWindow(name) == name \in {"five_hour", "seven_day", "seven_day_opus", "weekly", "plan/weekly"}
Clamped(percent) == IF percent > 100 THEN 100 ELSE percent
Quota(id, percent) == [id |-> id, percent |-> Clamped(percent)]

(* limit_windows keeps the ids of the older shapes.                        *)
LimitId(l) ==
  CASE l.kind = "session" -> "five_hour" [] l.kind = "weekly_all" -> "seven_day"
    [] l.kind = "weekly_scoped" /\ l.scope = "opus" -> "seven_day_opus" [] OTHER -> l.kind
ListWindows ==
  LET stated == SelectSeq(quotas.limits, LAMBDA l : l.percent # Unstated)
  IN [i \in DOMAIN stated |-> Quota(LimitId(stated[i]), stated[i].percent)]

(* utilization_windows, recursive_utilization_windows: in any order, as    *)
(* their names differ within each.                                         *)
EntryWindows(entries) ==
  LET kept == {e \in entries : LooksLikeWindow(e.name) /\ ~e.dollars /\ e.percent >= 0}
  IN SetToSeq({Quota(e.name, e.percent) : e \in kept})

AppendCandidate(windows, candidate) == Append(windows, candidate)
MergeMissing(windows, candidate) ==
  IF \E i \in DOMAIN windows : windows[i].id = candidate.id THEN windows ELSE Append(windows, candidate)
Merged ==
  FoldLeft(MergeMissing, ListWindows, EntryWindows(quotas.utilization) \o EntryWindows(quotas.fields))

(* extra_usage_window.                                                     *)
ExtraUsage ==
  IF quotas.extra.used = Unstated /\ quotas.extra.limit = Unstated THEN <<>>
  ELSE <<Quota("extra", IF quotas.extra.used = Unstated \/ quotas.extra.limit <= 0 THEN Unstated
                        ELSE (quotas.extra.used * 100) \div quotas.extra.limit)>>

ShapeInvalid == \E e \in quotas.utilization : e.percent = Broken
NormalizeQuotas ==
  /\ shown.is = "nothing" /\ UNCHANGED quotas
  /\ shown' = IF ShapeInvalid \/ Merged \o ExtraUsage = <<>> THEN ReadAs("failed", <<>>)
              ELSE ReadAs("windows", Merged \o ExtraUsage)
-----------------------------------------------------------------------------
(* Each quota that is stated in any shape is shown: as the list of limits  *)
(* states it, and as often, if it does so validly, and else once, as the   *)
(* older shapes do; and nothing is shown of what is no quota or is counted *)
(* in dollars.                                                             *)
Stated(id) == {i \in DOMAIN ListWindows : ListWindows[i].id = id}
Older(id) == {e \in quotas.utilization \union quotas.fields :
                e.name = id /\ LooksLikeWindow(e.name) /\ ~e.dollars /\ e.percent >= 0}
QuotasShown ==
  shown.is = "windows" =>
    LET made == shown.windows
        of(id) == {i \in DOMAIN made : made[i].id = id}
    IN
    \A id \in {made[i].id : i \in DOMAIN made} \union {e.name : e \in quotas.utilization \union quotas.fields}
              \union {ListWindows[i].id : i \in DOMAIN ListWindows} :
      CASE Stated(id) # {} ->
             {made[i].percent : i \in of(id)} = {ListWindows[i].percent : i \in Stated(id)}
               /\ Cardinality(of(id)) = Cardinality(Stated(id))
        [] Stated(id) = {} /\ Older(id) # {} ->
             \E i \in of(id) : /\ of(id) = {i}
               /\ made[i].percent \in {Clamped(e.percent) : e \in
                    IF Older(id) \intersect quotas.utilization # {} THEN Older(id) \intersect quotas.utilization ELSE Older(id)}
        [] OTHER -> id = "extra" \/ of(id) = {}
=============================================================================
