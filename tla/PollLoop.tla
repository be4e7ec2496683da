------------------------------ MODULE PollLoop ------------------------------
(***************************************************************************)
(* The background polling of the daemon (usage-daemon/src/daemon.rs):      *)
(* enabled providers are grouped by their interval, every group has a      *)
(* deadline on the wall clock, and one loop waits for the next deadline or *)
(* for another schedule, whichever is first.  Deadlines are kept as the    *)
(* ticks that are left until them.  The timer of the loop stands still     *)
(* while the machine sleeps, and the wall clock can be set.                *)
(***************************************************************************)
EXTENDS Integers, FiniteSets, FiniteSetsExt

CONSTANTS
  Pollable,         \* providers
  MinimumInterval,  \* ProviderDescriptor.minimum_refresh_interval_seconds of each
  PollIntervals,    \* values of poll_interval_seconds
  Recheck,          \* the longest that the loop waits at a time
  MaxShift,         \* bound on a sleep of the machine and on a change of its clock
  MaxEvents         \* bound on changes of the configuration, sleeps and changes of the clock

ASSUME PollAssumption ==
  /\ IsFiniteSet(Pollable) /\ MinimumInterval \in [Pollable -> Nat]
  /\ IsFiniteSet(PollIntervals) /\ PollIntervals \subseteq Nat \ {0} /\ PollIntervals # {} /\ Recheck \in Nat \ {0}
  /\ MaxShift \in Nat /\ MaxEvents \in Nat

VARIABLES
  interval, polled,    \* the configuration: poll_interval_seconds, the enabled providers
  published, unseen,   \* the watch channel: the schedule, not yet seen by the loop
  due,                 \* the loop: ticks until the deadline of each group
  timer,               \* ticks until its timer fires
  busy,                \* the groups whose providers it refreshes, {} while it waits
  disturbed,           \* the events so far
  clockSet, since, late \* history, see PollsSound

pollVars == <<interval, polled, published, unseen, due, timer, busy, disturbed, clockSet, since, late>>

IntervalOf(p, every) == Max({every, MinimumInterval[p]})
PollGroups(every, enabled) ==
  {[every |-> i, providers |-> {p \in enabled : IntervalOf(p, every) = i}] : i \in {IntervalOf(p, every) : p \in enabled}}

Members(groups) == UNION {g.providers : g \in groups}
Deadlines(groups) == [g \in groups |-> g.every]

(* poll_wait.  Without a group the timer is not armed.                     *)
Wait(deadlines) == Max({0, Min({deadlines[g] : g \in DOMAIN deadlines} \union {Recheck})})

(* Startup is passive: nothing is polled before an interval has passed.    *)
PollInit ==
  /\ interval \in PollIntervals /\ polled \in SUBSET Pollable
  /\ published = PollGroups(interval, polled) /\ unseen = FALSE
  /\ due = Deadlines(published) /\ timer = Wait(due) /\ busy = {}
  /\ disturbed = 0
  /\ clockSet = FALSE /\ since = [p \in Pollable |-> 0] /\ late = 0
-----------------------------------------------------------------------------
Waiting == busy = {}
Overdue(deadlines) == {g \in DOMAIN deadlines : deadlines[g] <= 0}
Longest == Max({IntervalOf(p, i) : p \in Pollable, i \in PollIntervals})

(* Deadlines that passed long ago are not told apart.                      *)
Shifted(deadlines, ticks) == [g \in DOMAIN deadlines |-> Max({-MaxShift, deadlines[g] - ticks})]
Aged(ticks) == [p \in Pollable |-> IF p \in Members(DOMAIN due) THEN Min({since[p] + ticks, Longest}) ELSE since[p]]

(* Time passes, with a timer that fires when it has run out.               *)
PollTick ==
  /\ Waiting /\ due # <<>> => timer > 0
  /\ due' = Shifted(due, 1) /\ since' = Aged(1)
  /\ timer' = IF Waiting /\ due # <<>> THEN timer - 1 ELSE timer
  /\ late' = IF Waiting /\ Overdue(due) # {} THEN late + 1 ELSE late
  /\ UNCHANGED <<interval, polled, published, unseen, busy, disturbed, clockSet>>

Disturb == disturbed < MaxEvents /\ disturbed' = disturbed + 1

MachineSleeps(ticks) ==
  /\ Disturb
  /\ due' = Shifted(due, ticks) /\ since' = Aged(ticks)
  /\ UNCHANGED <<interval, polled, published, unseen, timer, busy, clockSet, late>>

SetClock(ticks) ==
  /\ Disturb
  /\ due' = Shifted(due, ticks) /\ clockSet' = TRUE
  /\ UNCHANGED <<interval, polled, published, unseen, timer, busy, since, late>>

(* Mutant: a provider that is switched on or off changes no schedule.      *)
IntervalChanged(every, enabled) == every # interval
(* ConfigChangeSet::between.                                               *)
PollingChanged(every, enabled) == every # interval \/ enabled # polled

(* install_config: only another schedule is sent (send_if_modified).       *)
ChangePolling(every, enabled) ==
  /\ Disturb
  /\ interval' = every /\ polled' = enabled
  /\ LET next == IF PollingChanged(every, enabled) THEN PollGroups(every, enabled) ELSE published
     IN  published' = next /\ unseen' = (unseen \/ next # published)
  /\ UNCHANGED <<due, timer, busy, clockSet, since, late>>

(* The first branch of select!: a deadline was reached, or is looked at.   *)
TimerFires ==
  /\ Waiting /\ due # <<>> /\ timer = 0
  /\ busy' = Overdue(due)
  /\ timer' = IF busy' = {} THEN Wait(due) ELSE timer
  /\ late' = 0
  /\ UNCHANGED <<interval, polled, published, unseen, due, disturbed, clockSet, since>>

(* Mutant: the next deadline is counted from the one that was reached.     *)
RearmFromDeadline(groups) == [g \in DOMAIN due |-> IF g \in groups THEN due[g] + g.every ELSE due[g]]
(* The groups are armed anew, an interval after they were done.            *)
Rearmed(groups) == [g \in DOMAIN due |-> IF g \in groups THEN g.every ELSE due[g]]

RefreshDone ==
  /\ ~Waiting
  /\ due' = Rearmed(busy) /\ timer' = Wait(due') /\ busy' = {}
  /\ since' = [p \in Pollable |-> IF p \in Members(busy) THEN 0 ELSE since[p]]
  /\ UNCHANGED <<interval, polled, published, unseen, disturbed, clockSet, late>>

(* The other branch: every deadline is counted anew.                       *)
SeeSchedule ==
  /\ Waiting /\ unseen
  /\ unseen' = FALSE
  /\ due' = Deadlines(published) /\ timer' = Wait(due')
  /\ since' = [p \in Pollable |-> IF p \in Members(DOMAIN due) THEN since[p] ELSE 0]
  /\ late' = 0
  /\ UNCHANGED <<interval, polled, published, busy, disturbed, clockSet>>

PollStep == TimerFires \/ RefreshDone \/ SeeSchedule

PollNext ==
  \/ PollTick \/ PollStep
  \/ \E k \in 1 .. MaxShift : MachineSleeps(k)
  \/ \E k \in -MaxShift .. MaxShift : SetClock(k)
  \/ \E every \in PollIntervals, enabled \in SUBSET Pollable : ChangePolling(every, enabled)

(* The runtime polls the loop, refreshes end, and select! takes one of the *)
(* branches that are ready at random: the timer cannot always win.         *)
PollFairness == WF_pollVars(PollTick) /\ WF_pollVars(PollStep) /\ SF_pollVars(SeeSchedule)
PollSpec == PollInit /\ [][PollNext]_pollVars /\ PollFairness
-----------------------------------------------------------------------------
PollTypeOK ==
  /\ interval \in PollIntervals /\ polled \subseteq Pollable
  /\ Members(published) \subseteq Pollable /\ unseen \in BOOLEAN
  /\ busy \subseteq DOMAIN due
  /\ \A g \in DOMAIN due : due[g] \in -MaxShift .. Longest + MaxShift * MaxEvents
  /\ timer \in 0 .. Recheck
  /\ disturbed \in 0 .. MaxEvents /\ clockSet \in BOOLEAN
  /\ since \in [Pollable -> 0 .. Longest]

(* A provider is not polled sooner than an interval after its last poll    *)
(* was done or it joined the schedule, unless the clock was set; and not   *)
(* once the loop has seen that it is disabled.                             *)
PollsSpaced ==
  [][Waiting /\ busy' # {} =>
       \A g \in busy' : \A p \in g.providers : (clockSet \/ since[p] >= g.every) /\ (unseen \/ p \in polled)]_pollVars

(* A deadline that passed, in a sleep of the machine as well, is noticed   *)
(* at the next look at the clock; the loop keeps the schedule it has seen. *)
OverdueNoticed == late <= Recheck
ScheduleKept == ~unseen => DOMAIN due = PollGroups(interval, polled)

(* All three: background polling is neither too early nor too late and     *)
(* follows the configuration (spawn_polling_loop_with_delay).              *)
PollsSound == PollsSpaced /\ [](OverdueNoticed /\ ScheduleKept)

(* A provider that stays enabled is polled again and again, whatever       *)
(* happened to the schedule, the clock and the machine.                    *)
ProvidersPolled == \A p \in Pollable : <>[](p \in polled) => []<>(p \in Members(busy))
=============================================================================
