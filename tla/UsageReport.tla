----------------------------- MODULE UsageReport -----------------------------
(***************************************************************************)
(* What a user is shown of several accounts: the daemon makes a dashboard  *)
(* of their latest snapshots and of the daily rows it retains              *)
(* (state_response, dashboard.rs, aggregate_usage_dashboard in usage-core),*)
(* and the command line selects providers and accounts of it and adds up   *)
(* again (selection.rs, views.rs).  Times are days: a snapshot of an       *)
(* earlier day is stale.  Prices, models and provenance are left out.      *)
(*                                                                         *)
(* Beside it, the forecast of one quota window (second part).              *)
(***************************************************************************)
EXTENDS Integers, Sequences, SequencesExt, FiniteSets, FiniteSetsExt, Functions,
        TLC

CONSTANTS Cloud,     \* an account whose provider tells its daily tokens, wherever they were used
          Device,    \* one of another provider, of which only this machine's logs tell
          MaxDays,   \* bound on the days that pass
          MaxUses    \* bound on what is used
ASSUME ReportAssumption == MaxDays \in Nat /\ MaxUses \in Nat /\ Cloud # Device

VARIABLES
  today,
  tokensUsed,  \* of each account and day, here and elsewhere
  taken,       \* the snapshot of each account: its day, and its cost by day
  retained,    \* the daily rows that are kept (provider_daily_usage)
  hidden,      \* the accounts that the user hides
  enabled      \* the providers that are

reportVars == <<today, tokensUsed, taken, retained, hidden, enabled>>

ReportAccounts == {Cloud, Device}
ReportProviders == {"codex", "claude"}
ProviderOf(a) == IF a = Cloud THEN "codex" ELSE "claude"
ReportDays == 0..MaxDays
Lookback == 2                      \* DASHBOARD_HISTORY_DAYS, and that of the scans
Recent(days) == {d \in days : d > today - Lookback}

(* Cost by day, or of older versions only that of the day it was taken.    *)
NoSnapshot == [at |-> -1, days |-> <<>>, ofDay |-> 0]
ReportInit ==
  /\ today = 0 /\ hidden = {}
  /\ enabled \in {{"codex"}, ReportProviders} /\ retained = [a \in ReportAccounts |-> <<>>]
  /\ tokensUsed = [a \in ReportAccounts |-> [d \in ReportDays |-> [here |-> 0, elsewhere |-> 0]]]
  /\ taken = [a \in ReportAccounts |-> NoSnapshot]
SpentIn(a, d) == tokensUsed[a][d].here + tokensUsed[a][d].elsewhere
SumOver(accounts, f) == (IF Cloud \in accounts THEN f[Cloud] ELSE 0) + (IF Device \in accounts THEN f[Device] ELSE 0)
-----------------------------------------------------------------------------
(* account_summary.  Tokens are of the retained rows; without any, of the  *)
(* cost, and so never of both.  (The activity of the snapshot is that of   *)
(* the rows, as far as it is kept.)                                        *)
TodayPoint(cost) == IF cost.ofDay = 0 THEN <<>> ELSE [d \in {today} |-> cost.ofDay]
CostDays(a) == LET cost == taken[a] IN IF cost.days = <<>> THEN TodayPoint(cost) ELSE cost.days
ActivityDays(a) == IF retained[a] = <<>> THEN CostDays(a) ELSE [d \in Recent(DOMAIN retained[a]) |-> retained[a][d]]
Summary(a) == [activity |-> ActivityDays(a), cost |-> CostDays(a)]

(* build_usage_view: of the accounts that are not hidden and have any data.*)
Collected(a) == taken[a].at >= 0
VisibleAccounts == {a \in ReportAccounts \ hidden : Collected(a)}
Dashboard == [a \in VisibleAccounts |-> Summary(a)]

(* aggregate_usage_dashboard: the cost's tokens count where no activity is *)
(* told.                                                                   *)
OfDay(days, d) == IF d \in DOMAIN days THEN days[d] ELSE 0
CountsBoth(summary, d) == OfDay(summary.activity, d) + OfDay(summary.cost, d)
DayTokens(summary, d) == IF summary.activity = <<>> THEN OfDay(summary.cost, d) ELSE OfDay(summary.activity, d)
TotalOf(accounts, d) == SumOver(accounts, [a \in accounts |-> DayTokens(Dashboard[a], d)])
-----------------------------------------------------------------------------
(* SelectedState::from_state: providers that are named, or else those that *)
(* are enabled; accounts that are named, which must be visible ones of a   *)
(* selected provider (validate_accounts).                                  *)
ReportRequests == [providers : SUBSET ReportProviders, accounts : SUBSET ReportAccounts, all : BOOLEAN]
SelectedProviders(r) ==
  IF r.providers # {} THEN r.providers ELSE IF r.all THEN ReportProviders ELSE enabled
Accepted(r) == \A a \in r.accounts : a \notin hidden /\ ProviderOf(a) \in SelectedProviders(r)
Includes(r, a) ==
  ProviderOf(a) \in SelectedProviders(r) /\ a \notin hidden /\ (r.accounts = {} \/ a \in r.accounts)
Included(r) == {a \in ReportAccounts : Includes(r, a)}
Selected(r) == {a \in VisibleAccounts : Includes(r, a)}

(* ActivityView::build: each day of the range, from the selected ones.     *)
Activity(r) == [d \in today - Lookback + 1..today |-> TotalOf(Selected(r), d)]

(* SummaryView::build, for one provider.                                   *)
Snapshots(r, p) == {a \in ReportAccounts : ProviderOf(a) = p /\ Includes(r, a) /\ Collected(a)}
KnownAccounts(r, p) == {a \in ReportAccounts : ProviderOf(a) = p /\ Includes(r, a)}
Stale(r, p) ==
  LET shown == Snapshots(r, p) IN
  shown # {} /\ (KnownAccounts(r, p) # shown \/ \E a \in shown : taken[a].at < today)
TodayTokens(r, p) ==
  SumOver({a \in Selected(r) : ProviderOf(a) = p}, [a \in Selected(r) |-> OfDay(Dashboard[a].activity, today)])
-----------------------------------------------------------------------------
UsesMade == MapThenSumSet(LAMBDA d : SumOver(ReportAccounts, [a \in ReportAccounts |-> SpentIn(a, d)]), ReportDays)
OneMore(used, where) ==
  IF where = "here" THEN [used EXCEPT !.here = @ + 1] ELSE [used EXCEPT !.elsewhere = @ + 1]
Spends(a, where) ==
  /\ UsesMade < MaxUses /\ (where = "elsewhere" => a = Cloud)
  /\ tokensUsed' = [tokensUsed EXCEPT ![a][today] = OneMore(@, where)]
  /\ UNCHANGED <<today, taken, retained, hidden, enabled>>

(* A row that is collected again replaces what was kept of its day.        *)
Over(new, kept) ==
  [d \in DOMAIN new \union DOMAIN kept |-> IF d \in DOMAIN new THEN new[d] ELSE kept[d]]

(* record_collection of what the logs and, if it answers, the provider say.*)
Here(a) == [d \in {e \in Recent(ReportDays) : tokensUsed[a][e].here > 0} |-> tokensUsed[a][d].here]
Everywhere(a) == [d \in {e \in Recent(ReportDays) : SpentIn(a, e) > 0} |-> SpentIn(a, d)]
CollectUsage(a, answers) ==
  /\ taken' = [taken EXCEPT ![a] = [at |-> today, days |-> Here(a), ofDay |-> tokensUsed[a][today].here]]
  /\ retained' = IF answers /\ a = Cloud THEN [retained EXCEPT ![a] = Over(Everywhere(a), @)] ELSE retained
  /\ UNCHANGED <<today, tokensUsed, hidden, enabled>>

(* What an earlier version had collected of this day.                      *)
CollectLegacy ==
  /\ today = 0 /\ ~Collected(Device)
  /\ taken' = [taken EXCEPT ![Device] = [at |-> 0, days |-> <<>>, ofDay |-> tokensUsed[Device][0].here]]
  /\ UNCHANGED <<today, tokensUsed, retained, hidden, enabled>>

NextDay == today < MaxDays /\ today' = today + 1 /\ UNCHANGED <<tokensUsed, taken, retained, hidden, enabled>>

(* update_account (hidden).                                               *)
HideOrShow(a) ==
  /\ hidden' = (IF a \in hidden THEN hidden \ {a} ELSE hidden \union {a})
  /\ UNCHANGED <<today, tokensUsed, taken, retained, enabled>>

ReportNext ==
  \/ \E a \in ReportAccounts : \/ \E where \in {"here", "elsewhere"} : Spends(a, where)
                               \/ \E answers \in BOOLEAN : CollectUsage(a, answers)
                               \/ HideOrShow(a)
  \/ CollectLegacy \/ NextDay
-----------------------------------------------------------------------------
(* A cost of the day alone is shown under the day it is looked at, and so  *)
(* is excluded once that day is over (synthesized_today_point).            *)
Misdated(a) == taken[a].days = <<>> /\ taken[a].ofDay > 0 /\ taken[a].at < today
Sound(r) == Accepted(r) /\ \A a \in ReportAccounts : Includes(r, a) => ~Misdated(a)

(* No token is counted twice, whichever sources tell of it, and none of an *)
(* account that is hidden or not selected is counted                       *)
(* (docs/cli-interface-spec.md, Filtering order).                          *)
NoneCountedTwice ==
  \A r \in ReportRequests : Sound(r) => \A d \in Recent(0..today) :
    Activity(r)[d] <= SumOver(Included(r), [a \in ReportAccounts |-> SpentIn(a, d)])

(* What all sources told today of the days that are shown is shown of them.*)
AllTold(a) ==
  /\ taken[a].at = today /\ taken[a].days = Here(a)
  /\ a = Cloud => retained[a] # <<>> /\ \A e \in Recent(0..today) : OfDay(retained[a], e) = SpentIn(a, e)
WholeIsShown ==
  \A r \in ReportRequests : Sound(r) => \A d \in Recent(0..today) :
    (\A a \in Included(r) : AllTold(a)) => Activity(r)[d] = SumOver(Included(r), [a \in ReportAccounts |-> SpentIn(a, d)])

(* A provider's row without the stale mark is of fresh snapshots of each   *)
(* of its accounts, and what it says of today is what the days say of it.  *)
StaleIsMarked ==
  \A r \in ReportRequests, p \in ReportProviders : (Accepted(r) /\ p \in SelectedProviders(r)) =>
    /\ (~Stale(r, p) /\ Snapshots(r, p) # {}) => \A a \in KnownAccounts(r, p) : taken[a].at = today
    /\ r.providers = {p} /\ (\A a \in Selected(r) : Dashboard[a].activity # <<>>) => TodayTokens(r, p) = Activity(r)[today]

ReportedOnce == NoneCountedTwice /\ WholeIsShown /\ StaleIsMarked

-----------------------------------------------------------------------------
(***************************************************************************)
(* The forecast of one quota window (usage-daemon/src/forecast.rs) from    *)
(* the observations that earlier collections stored of it                  *)
(* (insert_window_observations, forecast_histories_from_conn): samples of  *)
(* the current cycle, the median of their slopes, and what follows from it *)
(* until the reset.  Times are whole hours and percentages multiples of    *)
(* ten.  Rates are kept as whole numbers in units of 1/120 percent an hour *)
(* (Scale), exact for samples that lie at most five hours apart.           *)
(***************************************************************************)
CONSTANTS MaxHours,      \* bound on the time that passes, at most 5
          Period,        \* of the window, from a reset to the next
          HistoryLimit   \* FORECAST_HISTORY_LIMIT
ASSUME ForecastAssumption == MaxHours \in 1..5 /\ Period \in Nat \ {0} /\ HistoryLimit \in Nat \ {0}

VARIABLES
  hour,        \* now
  tellsReset,  \* whether the provider tells when the window is reset
  meter,       \* the provider's: percent used, time of the reset, number of the cycle
  observed     \* the observations that are stored, the oldest first

forecastVars == <<hour, tellsReset, meter, observed>>

Scale == 120
MinSamples == 3
ResetDrop == 20
MaxResidual == 8
Untold == -1

ForecastInit ==
  /\ hour = 0 /\ tellsReset \in BOOLEAN
  /\ meter = [used |-> 0, reset |-> Period, cycle |-> 0] /\ observed = <<>>

Snapshot == Last(observed)
-----------------------------------------------------------------------------
(* compatible_reset, but for its tolerance of five minutes.                *)
Compatible(a, b) == Untold \in {a.reset, b.reset} \/ a.reset = b.reset
AlwaysCompatible(a, b) == TRUE
SameCycle(a, b) == Compatible(a, b)

(* forecast_histories_from_conn: the latest ones.                          *)
History == SubSeq(observed, Max({1, Len(observed) - HistoryLimit + 1}), Len(observed))

(* current_cycle: of this reset, and after the last drop.                  *)
CycleSamples ==
  LET samples == SelectSeq(History, LAMBDA o : SameCycle(Snapshot, o))
      drops == {i \in 1..Len(samples) - 1 : samples[i].used - samples[i + 1].used >= ResetDrop}
  IN SubSeq(samples, Max(drops \union {0}) + 1, Len(samples))

(* median, doubled to stay whole.                                          *)
TwiceMedian(values) ==
  LET sorted == SortSeq(values, <)  middle == Len(values) \div 2
  IN IF Len(values) % 2 = 0 THEN sorted[middle] + sorted[middle + 1] ELSE 2 * sorted[middle + 1]

(* estimate_rate: the median slope, unless too few samples tell it, usage  *)
(* does not grow, or the samples are too far from the line.                *)
NoRate == 0
Rate(samples) ==
  LET n == Len(samples)
      Slope(i, j) == ((samples[j].used - samples[i].used) * (Scale \div 2)) \div (samples[j].at - samples[i].at)
      slopes == FoldSet(LAMBDA p, seq : Append(seq, Slope(p[1], p[2])), <<>>, {p \in (1..n) \X (1..n) : p[1] < p[2]})
      rate == TwiceMedian(slopes)
      Above(i) == samples[i].used * Scale - rate * (samples[i].at - samples[1].at)
      intercept == TwiceMedian([i \in 1..n |-> Above(i)])
      residual == TwiceMedian([i \in 1..n |-> LET gap == 2 * Above(i) - intercept IN IF gap < 0 THEN -gap ELSE gap])
  IN IF n < MinSamples \/ rate <= 0 \/ residual > MaxResidual * 4 * Scale THEN NoRate ELSE rate

(* forecast_window: the rate holds until the reset, if that is to come.    *)
ForecastRate == IF Snapshot.reset > hour THEN Rate(CycleSamples) ELSE NoRate
Projected == Snapshot.used * Scale + ForecastRate * (Snapshot.reset - hour)
AtOnce == [after |-> 0, of |-> 1]
Never == [after |-> -1, of |-> 1]
(* predicted_exhaustion_at: so many hours (a fraction) from now.           *)
Exhaustion ==
  IF ForecastRate = NoRate THEN Never
  ELSE IF Snapshot.used >= 100 THEN AtOnce
  ELSE LET left == (100 - Snapshot.used) * Scale
       IN IF left < ForecastRate * (Snapshot.reset - hour) THEN [after |-> left, of |-> ForecastRate] ELSE Never

(* expected_percent_used, scaled by the period, and the pace.              *)
PaceOf(expected) == LET delta == Snapshot.used * Period - expected
                    IN IF delta > 5 * Period THEN "at_risk" ELSE IF delta < -5 * Period THEN "safe" ELSE "on_pace"
Status ==
  IF Snapshot.used >= 100 THEN "exhausted"
  ELSE IF ForecastRate # NoRate /\ (Exhaustion # Never \/ Projected >= 100 * Scale) THEN "at_risk"
  ELSE IF Snapshot.reset > hour
       THEN PaceOf(100 * Min({Period, Max({0, hour - (Snapshot.reset - Period)})}))
  ELSE "insufficient_data"
-----------------------------------------------------------------------------
(* An hour passes in which the quota is used, up to its end, or the window *)
(* is reset, by the clock or because a reset credit is spent.              *)
HourPasses ==
  /\ hour < MaxHours /\ hour' = hour + 1
  /\ IF hour + 1 = meter.reset
     THEN meter' = [used |-> 0, reset |-> meter.reset + Period, cycle |-> meter.cycle + 1]
     ELSE \E more \in {0, 10, 40} : meter' = [meter EXCEPT !.used = Min({100, @ + more})]
  /\ UNCHANGED <<tellsReset, observed>>

ResetEarly ==
  /\ meter.cycle = 0 /\ meter' = [used |-> 0, reset |-> hour + Period, cycle |-> 1]
  /\ hour > 0 /\ UNCHANGED <<hour, tellsReset, observed>>

(* insert_window_observations, by a collection that took the snapshot.     *)
Observe ==
  /\ \A i \in DOMAIN observed : observed[i].at < hour
  /\ observed' = Append(observed, [at |-> hour, used |-> meter.used, cycle |-> meter.cycle,
                                   reset |-> IF tellsReset THEN meter.reset ELSE Untold])
  /\ UNCHANGED <<hour, tellsReset, meter>>

ForecastNext == HourPasses \/ ResetEarly \/ Observe
-----------------------------------------------------------------------------
(* The samples are of the current cycle if resets are told, and none is    *)
(* older than a drop that only a reset explains if they are not            *)
(* (current_cycle), so that a rate is one of this cycle.                   *)
OwnCycle ==
  LET samples == CycleSamples IN
  /\ Last(samples) = Snapshot
  /\ tellsReset => \A i \in DOMAIN samples : samples[i].cycle = Snapshot.cycle
  /\ \A i \in 1..Len(samples) - 1 : samples[i + 1].used > samples[i].used - ResetDrop

(* Steady usage is forecast by its own rate, whatever is sampled of it,    *)
(* and one sample that is off the line does not change the line of four    *)
(* others (estimate_rate).                                                 *)
OnLine(samples, rate) ==
  \A i, j \in DOMAIN samples : (samples[j].used - samples[i].used) * Scale = rate * (samples[j].at - samples[i].at)
Excluding(samples, k) == [i \in 1..Len(samples) - 1 |-> samples[IF i < k THEN i ELSE i + 1]]
SteadyRate ==
  LET samples == CycleSamples  n == Len(samples)
      rates == {(samples[j].used - samples[1].used) * (Scale \div (samples[j].at - samples[1].at)) : j \in 2..n}
  IN \A rate \in rates : (rate > 0 /\ n >= MinSamples) =>
       /\ (OnLine(samples, rate) => Rate(samples) = rate)
       /\ (n >= 5 /\ \E k \in 2..n : OnLine(Excluding(samples, k), rate)) => Rate(samples) = rate

(* Quota is said to run out only between now and the reset, and exactly    *)
(* then is the projection beyond it; a window that is used up is exhausted *)
(* whatever its history (forecast_window).                                 *)
WithinCycle ==
  /\ Exhaustion # Never => /\ Exhaustion.after >= 0 /\ Exhaustion.after < Exhaustion.of * (Snapshot.reset - hour)
                           /\ Status \in {"at_risk", "exhausted"}
  /\ (ForecastRate # NoRate /\ Snapshot.used < 100) => (Exhaustion # Never) = (Projected > 100 * Scale)
  /\ (Snapshot.used >= 100) = (Status = "exhausted")
  /\ ForecastRate # NoRate => tellsReset

ForecastSound == observed # <<>> => OwnCycle /\ SteadyRate /\ WithinCycle
=============================================================================
