# UsageTracker in TLA+

A verification project for UsageTracker: a Rust daemon that collects usage
from AI providers (Codex, Claude, Cursor, Grok, OpenCode Go) into SQLite and
serves it over a Unix socket, a command line client, and a macOS menu bar app.
The modules are translated from the source; TLC checks them on small instances
and TLAPS proves what matters most for every value of the constants.
`PROJECT.json` holds the map from each definition to the lines it models, the
runs, the mutants that show each property can fail, the hazards, and the
theorems.

    tlc -workers 4 -config MCRefreshJobs_answers.cfg MCRefreshJobs
    tlapm RefreshJobsProofs.tla

Paths below are under `crates/usage-daemon/src/` unless they say otherwise.

## 1. The system: inventory

| Component | State | Operations | Talks to |
| --- | --- | --- | --- |
| Refresh jobs and flights (`polling.rs`) | job registry (`active`, `by_id`, `completed`), the map of provider flights, each job's record, each flight's discoveries and result | `start_refresh`, `refresh`, `get_refresh_job`, claiming, seeding, running, retention; `refresh_provider_once` | the server (requests), collectors, account collection, the poll loop |
| Account collection (`polling.rs`, `storage/*`) | tables `accounts`, `usage_snapshots`, `provider_health`, `provider_backoff`; the copies each future carries | discover, upsert, pause, back off, collect, record success or failure | providers (calls under timeouts), storage, notifications |
| Configuration and account administration (`daemon.rs`, `config.rs`) | config file, live config, collectors, poll schedule, notification policy | `commit_config_change` with rollback, `update_account`, `delete_account`, adding profiles | everything that reads the configuration |
| Poll schedule (`daemon.rs`) | a deadline per poll group | the loop, its reaction to a new schedule | refresh jobs |
| Notifications (`notifications.rs`, `storage/notifications.rs`) | per-window state (mask, reset time, last attempt), the pending queue | evaluate a snapshot, enqueue, list, acknowledge, clear | account collection, configuration, the app |
| Local logs and overlays (`local_logs.rs`, `storage/usage.rs`) | watch set, debounce deadlines, overlay rows with versions | watch, flush, `refresh_local`, reconcile | collectors, storage |
| Import jobs (`import_jobs.rs`) | jobs by id, running job per account | start, finish, retain | storage, Claude's local import |
| Sign-in launches (`providers/launchers.rs`) | the map of active logins with generations | start, replace, cancel, submit code | provider CLIs, the app |
| Storage (`storage.rs`, `storage/*`) | connection pool, schema version, tables and triggers | every query; migrations; recovery of a connection after a panic | SQLite |
| Socket server (`server.rs`) | number of clients | accept, read, dispatch, idle timeout | all of the above |
| Lifecycle (`main.rs`, `instance.rs`) | lock file, socket file | start, shut down | the operating system |
| Providers (`providers/**`) | credentials, sessions, caches | discover accounts, collect usage | the network, keychain, local files |
| Menu bar app (`apps/UsageMenuBar`) | supervised daemon process; loaded data, recovery state, sign-in monitors | start, restart and recover the daemon; load, refresh, deliver notifications, connect providers | the daemon, over its socket |
| Command line client (`crates/usage-cli`) | none of its own | requests, polling of jobs, rendering | the daemon |

What makes it hard:

* one tokio runtime, many tasks, and several small locks instead of one: the
  jobs' map, each job's record, the flights' map, each flight's discoveries
  are locked separately, never two at a time;
* every storage call is an await: a refresh carries an account row across
  provider calls of minutes while the row is paused or deleted;
* two of an operation's steps are often two writes (the notification and its
  state, the configuration file and the database row) with rollback by hand;
* provider code may panic, hang, be rate limited, or answer with an identity
  that belongs to another profile;
* the daemon may be killed at any point and restarted by the app, whose own
  actor's awaits interleave.

What makes each component correct, in a sentence each:

* jobs: a request is answered, by a job that covers it; one flight per provider;
  a job's record is complete and final; unfinished jobs can be polled;
* account collection: history belongs to stored accounts only, one identity is
  one row, ok means there is usage, pauses and rate limits are honoured and
  never for ever;
* configuration: file, memory and database agree after a commit, and after a
  rollback;
* notifications: one alert per crossing, none lost, none after they were
  turned off;
* overlays: the newest reading of the local logs wins;
* import jobs and sign-ins: one per account, whatever panics or is replaced;
* app: one daemon process, restarts bounded, one recovery at a time.

`PROJECT.json` lists every hazard of this kind at its line, with the properties
that cover it or the reason none does yet.

## 2. The modules

A module is a part of the system that shares no state with the others; where
parts do interact, the interaction is in the module (a flight with pauses,
deletions and crashes; the app with its daemon; a launch with the collector).
What a part takes from another is an environment that may do more than the
other does.

    RefreshService    abstract: what clients are promised of refresh jobs
      ^ implemented by
    RefreshJobs, LogCost, CodexCollection,          -> MCRefreshJobs, MCCollecting
      GrokCollection, OpenCodeCollection
    AccountLedger     abstract: what is promised of stored accounts
      ^ implemented by
    AccountCollection                               -> MCParts, MCServices, MCOwners
    Alerts                                          -> MCAlerts
    NotificationQueue                               (run by itself)
    DaemonSupervisor, AppRecovery                   -> MCApp
    LocalUsage, SocketServer, PollLoop              -> MCServices
    CursorSessions                                  -> MCOwners
    ConnectionPool, Migrations, UsageEvents,        -> MCParts
      Logins, LocalImport, ConfigCommit, Profiles,
      SocketServer, KeychainBroker, ClaudeAccess,
      CursorReports, ClaudeReports, CodexRateLimits,
      Datasets, SessionLaunch, UsageReport

MCApp, MCServices, MCOwners, MCCollecting and MCParts hold several parts in one
instance: the variable `part` is chosen at the beginning, the chosen part takes
the steps of its own module, and the others rest (`OthersRest`). So one run of
TLC checks each part by itself, with its own constants, and a theorem about
such a module is a theorem about whichever part runs.

### Refreshing and storing

**RefreshJobs** models who calls a provider and who hears of it, and leaves out
what a flight does to the database; **AccountCollection** models the latter and
leaves out the jobs: a flight starts whenever none is in the air, which is what
`OneFlight` shows of RefreshJobs.

A request claims a job for its scope (`RefreshKey`, a set of providers or all)
or is handed an active job that covers it (`Covers`). A job runs in a task of
its own: it is seeded with what flights in the air discovered already, asks for
a flight per configured provider of its scope, waits for them, ends, and is
retained among the newest finished ones. Each action is one critical section of
the code, or the stretch between two awaits of one task: `ListActiveJobs` (the
jobs' map is locked and the entries are cloned) and `AppendDiscovery` (one
entry's record is locked) are two actions, and a job may be claimed, seeded or
ended in between. A job's record keeps what clients tell apart: its status, its
discovered accounts and the accounts it has results for. `RefreshService` is
the promise of `docs/api/refresh-jobs.md`.

AccountCollection is one provider's flight against the tables, account by
account, while profiles are added, accounts are paused and deleted, people sign
in with other identities, time passes and the daemon crashes. Every storage call
is one step (one writer connection; each call is a statement or a transaction),
so each step of `refresh_account_with_budget` works on `copy`, the row as
`upsert_account` returned it, which may be stale by then. Foreign keys are what
protect the tables: `References` is the check SQLite makes for `usage_snapshots`
and `provider_backoff`; `provider_health` has none. `AccountLedger` is the
promise of `docs/data-and-privacy.md`: an id is opened once and closed for good,
history is recorded for an open account only, is not lost while it is open, and
goes with it.

**LogCost**: scans of the local logs share a cache that none locks while it
reads, while the tools append to, archive and delete logs. **Datasets**: what
several sources say of one account is merged, and overlaid with newer readings
of the logs. **UsageEvents**: the events of a provider replace those stored of
a range; days and totals follow by triggers; a client reads page by page.

### Providers

Each module is one collector with the world it asks, which changes meanwhile.
**CodexCollection**: the exchange with the app-server, the fallback to the web,
other users signing in; **CodexRateLimits**: the limits, from two sources in
shapes of their own. **ClaudeAccess**: one sign-in, in the Keychain or a file,
refreshed by discovery, collection, launches and Claude Code at once;
**ClaudeReports**: the screen of the CLI, and the quotas of the API.
**CursorSessions**: sign-ins borrowed from browsers and the desktop app;
**CursorReports**: events page by page, and team budgets. **GrokCollection**:
CLI, token and cookies in order, and the billing. **OpenCodeCollection**:
cookies, workspaces, and a history that grows while it is read.
**KeychainBroker**: the thread that serves all Keychain requests through helper
processes with deadlines, and its cache, for one item.

### Administration

**ConfigCommit**: file, live configuration, collectors, schedule, rows and
notifications change one after the other under one lock, are rolled back by
hand, and the daemon may die between two of them. **Profiles**: what adding,
repairing and deleting accounts make of profiles and homes, from what they read
before they took that lock. **Logins**: one sign-in at a time, replaced,
cancelled, typed codes for, and shut down. **LocalImport**: a job that copies
settings, with the manifest of what it copied. **SessionLaunch**: sessions
opened in a Terminal, which share a script and preferences.

### Services

**SocketServer**: slots, frames, timeouts, abandoned requests. **PollLoop**:
deadlines per interval, on a wall clock that may be set, with a timer that
stands still while the machine sleeps. **LocalUsage**: watcher, queue, overflow,
debounce, readings and overlays. **ConnectionPool**: permits and connections
under panics and aborted callers. **Migrations**: opening the database, from the
journal mode and the permissions, which are set on whatever file is there, to the
last migration, with a crash between any two statements.

### Alerts

**Alerts** is one usage window of one account: `process_window` from the copy
of the policy to the stored state, storage call by storage call, while
`commit_config_change` changes the policy, clears the table and may roll back.
The notified mask is a set of bit positions, so that what a position means
depends on the ladder of thresholds it was set under. Quiet hours, snoozing and
windows without authority are evaluations that do not begin, so they need no
action. An evaluation writes its state unless nothing in it changed
(`MayDiffer`): so a clearing that comes while it runs is followed by the row of the
old policy, or by none. `Forget` says what the code cannot know after that, and
`OncePerCrossing` and `CooldownKept` speak of what was not forgotten: a clearing, a
failed evaluation and a crash are the only ways to forget an alert.
**NotificationQueue** is the way of an alert from
`enqueue_notification` to the desktop: two statements per insert, the switch
that clears the queue, and overlapping `deliverPendingNotifications` calls of
the app, each of which reads a page, shows it, and acknowledges by id.

### The app

**DaemonSupervisor** is the actor of `App/DaemonSupervisor.swift`. An actor is
reentrant, so each await ends an action and the answer of what was awaited (a
probe, lsof, a stopped process) is kept in the task and used by the next one,
when it may be stale. `task` holds callers and startups alike: a startup is a
task of its own that several callers await, known by its generation. Either
launchd keeps a registered daemon alive, or (`~Managed`) the daemon is a child
process whose termination reaches the actor late (`exited`). **AppRecovery** is
`AppState`: loads that are shared, and recoveries of stale data that wake-ups,
connectivity, polling and the popover ask for at once.

**UsageReport** is pure: the totals of the daemon and of the command line against
the rows; and the cycles, samples and rates of one window against what they are
to be.

## 3. The runs

| Run | Shows | Instance |
| --- | --- | --- |
| `collecting` | Jobs: `OneFlightPerProvider`, `DiscoveriesComplete`, `DiscoveredBeforeCollected`, `QueryableJobs`, `AnswerCoversScope`, `StatusOnlyAdvances`, in every interleaving of claiming, seeding, joining, discovery and retention. `CollectionSound`: the collectors of Codex, Grok and OpenCode, their histories and bills, and scans of the logs | 2 jobs, 1 caller, 2 providers, both configured or none, requests for one of them or for all, 1 finished job retained; 2 people, 2 profiles; 1 log and its archive, 2 scans |
| `answers` | `RequestsEnd`: waiting callers are answered and flights land; `ImplementsService`: the coordinator implements `RefreshService` with its liveness | 2 jobs, 1 provider, 1 account, 1 caller, fair |
| `parts` | Twenty parts, each against its own property, see below | two or three of each kind |
| `services` | The loops that never end: `LoopsSound`, `PollsSound`, and under fairness `LimitsSettle` (pauses show, rate limits end) and `PartsSettle` (overlays converge, connections end, providers are polled) | 1 profile, 1 log, 2 clients, 2 providers, waits of up to 3 ticks |
| `identity` | `NoSharedIdentity`: two rows never carry one identity, though people sign in anew between discovery and storage and legacy identities are adopted; `CursorSound`: no sign-in of Cursor is taken for another's, and none that fails masks another | 2 profiles, 2 identities; 3 tokens, 2 fetchers, 2 fetches, 1 change |
| `alerts` | `MarkedWasQueued`, `OncePerCrossing`, `CooldownKept`, and `CrossingAlerted`: the cooldown delays an alert and does not swallow it | percentages up to 3, thresholds {2, 0}, cooldown of 2 ticks, a second policy that is off with another ladder, faults, crashes, fair |
| `delivery` | `NothingForgotten`, `AcknowledgedWasShown`, `QueueDrains` | 2 alerts, a queue of 1, pages of 2, 2 deliveries, one of them fair |
| `app` | `NoChildForgotten`, `RecoverySound`, `BackoffHasCause`, `SwitchObeyed`, and `AppRecovers`: it is served in the end | 1 caller, 2 processes, child or launch agent, 2 attempts, 1 restart, 1 trouble, fair |
| `recreated`, `shared`, `legacy`, `reads` | violations: findings 1 to 4 | the fewest actors that show them |

In `parts`: accounts (`UsageBacksHealth`, `KeepsLedger`), pool
(`PermitGuaranteesConnection`), migrations (`DatabaseOpens`), history
(`HistoryConsistent`), logins (`LoginsSafe`), imports (`ImportsSafe`),
configuration (`ConfigConsistent`), profiles (`ProfilesSound`), server
(`AnswersTrue`); Keychain, Claude's sign-in and sessions (`SignInsSafe`);
Cursor's events and budgets, Claude's screen and quotas, Codex's limits,
datasets, forecast and report (`ReportsTrue`, whose other case is the types of
the rest); and what is not the daemon's, the tables of other databases and the files
that no import wrote (`StrangersKept`).

Each property of a passing run has a mutant in `PROJECT.json`: a slip in one
definition (the operators marked as mutants in the modules) under which TLC
finds the property violated. So none holds because of a bound or of what is
left out.

Bounds, and why they are enough:

* `Jobs` bounds the requests. Two jobs overlap in every way two can: one may be
  retained, or evicted, while the other still flies.
  `RETAINED_REFRESH_JOBS` is 1 instead of 64, so that eviction happens. Covering
  is about sets of providers, so `collecting` has two.
* `MCParts` keeps twenty parts in one run by what it leaves out of each: the
  Keychain's item begins unguarded, preferences of sessions begin without the
  dangerous mode and the second of two launches asks for none, an answer of
  Claude's API has two limits or quotas in all, one request deletes, and accounts
  are named `account` or `default`. The theorems of section 4 have none of these
  bounds.
* `Ids` bounds the rows ever created: two let an account be deleted and come
  back. Two profiles are the fewest that can share an identity.
* The backoff ladder has one or two rungs instead of five, and counts of
  failures saturate at its end, as the waits do; `MaxRetryAfter` lets a provider
  ask for longer than the ladder says.
* Thresholds 2 and 0 of percentages up to 3 have a value at, just above (within
  the hysteresis) and beyond each threshold.
* `Capacity` of the queue is 1 and `Page` 2 instead of 1000 and 100: the second
  alert fills both, readers see the row too many before it is trimmed.
* `MaxTrouble` bounds what goes wrong in the supervisor; one is enough to
  exhaust the one restart. `MaxGeneration` bounds startups and adoptions, eight
  are more than one trouble needs. Two processes let a daemon's successor live
  beside it.
* In the services, `MaxWrites`, `MaxEvents`, `MaxShift` and the queue's `Capacity`
  of 1 are the least with which a queue overflows, a schedule changes while it
  is acted on, and a clock jumps over a deadline. `Recheck` and intervals are a
  few ticks; only their order matters.
* In the parts, two of a kind (borrowers three, as two may hold both
  connections) overlap in every way, and counters of outside events
  (`MaxOutside`, `MaxOthers`, `MaxChanges`, `MaxMoves`, `MaxSwaps`, `MaxEdits`)
  are one or two: the hazard is one change between two steps. Histories have
  pages of one or two, and up to three of them.

Most runs do not check deadlock: their requests, edits or generations are used
up in the end, as the bounds say, and then nothing is left to do. `alerts` and
`delivery` check it.

Fairness. tokio polls a ready task in the end, the locks are held over no await
that waits for another task, and provider calls are under
`tokio::time::timeout`, so the steps of spawned tasks are weakly fair in
RefreshJobs and AccountCollection, and so is each connection of the server
(reads are under the idle timeout). The arms of a `select!` that are ready again
and again are chosen again and again: strong fairness in LocalUsage
(`HandleEvent`, `HandleOverflow`, `HandleConfig`, `FireDeadline`) and in PollLoop
(`SeeSchedule`). In Alerts, windows go on being evaluated, and time passes between
evaluations however many there are (strong fairness of `Tick`). In
NotificationQueue, the app loads its state and one of its calls asks for alerts
again and again; what is retried with an alert is taken to succeed once. In
DaemonSupervisor, actors run what is ready, timers fire, a process that got
SIGKILL ends, launchd restarts what it keeps alive, and the app asks for a
daemon when its load fails; in AppRecovery, the poll of the app goes on and
cooldowns end. Requests, administration, sign-ins, edits, connectivity, aborts,
faults and crashes are never fair. Storage calls are taken to return, with an
error if need be.

### Findings

1. `recreated`: `docs/data-and-privacy.md` says that permanent deletion leaves a
   tombstone so that the profile is not silently recreated. The tombstone stops
   later flights; one that discovered the profile before inserts it again.
2. `shared`: the test `testConcurrentEnsureRunningCallsShareOneLaunch` says that
   concurrent calls share one launch. A call that began before the other's
   startup and probes the socket after the daemon got ready adopts it, with a
   new generation; the startup finds itself superseded and stops the daemon.
3. `legacy`: the reset of a legacy schema is not one transaction. A daemon that
   dies half way through it no longer recognises its own database and refuses
   it from then on.
4. `reads`: a comment in `keychain.rs` says that a read queued after a write
   never reuses the result of the read before. The broker forgets what it has
   put aside when it next empties the channel, and then may.

The models have further behaviours of the code that a reader may not expect,
and that no property excludes, among them:

* `claim_job` hands out any active entry that covers the scope, also one whose
  job has ended but is not yet retained. The client then polls a job that was
  over before it asked.
* A refresh that holds an account across its deletion writes its health back,
  since `provider_health` refers to no account, and nothing removes the row.
* A change of thresholds clears the window states, but an evaluation that began
  before stores its positions afterwards, and an alert of the new ladder may be
  taken for sent.
* A clearing of the tables during an evaluation that decides nothing new leaves no
  row: the next evaluation alerts the same threshold again, within the cooldown.
* A daemon started on a database of somebody else's sets its journal mode to WAL,
  which is stored in the file, and its permissions to 0600, and only then examines
  and refuses it; `docs/troubleshooting.md:75` says that the daemon refuses to touch
  such a file. `ForeignTablesKept` claims the tables, the owner and the version only.
* A daemon that dies between the tombstone of a profile and the deletion of its row
  leaves the account stored without a profile.
* A child daemon that dies between the probe it answered and the assignment of
  `.running` is not noticed until somebody asks. Of two callers at once, one that
  gives up enters backoff although the other's daemon runs, and forgets the
  child (`enterBackoff` does not look at the state again); `NoChildForgotten` and
  `BackoffHasCause` except a caller that gives up for this.
* A recovery whose refresh throws is not wanted again; a load that is joined
  after a refresh may show a state answered before it, until the next poll.
* A rollback whose own steps fail leaves the live copy and the file apart
  (`torn`, which `ConfigConsistent` excepts); window states cleared before a failure
  are not restored; an interval set by the environment is persisted by a later
  edit.
* A login that is launched while the daemon stops registers after
  `cancel_all_logins` and outlives it. A login that succeeds before its address
  was read is reported as failed.
* An import running during `delete_account` creates the directory anew; a failed
  one loses the manifest by which a later replacement would clean up.
* Any change of the schedule resets every deadline, so that frequent changes
  starve polling.
* The cycle of a bill begins in the middle of a day, whose tokens of the earlier
  cycle are lost (`docs/cursor.md` says the day is kept).
* Of Claude's implicit default account nothing is made explicit when another is
  added; a profile disabled by hand and repaired later may give two owners. And a
  display name whose slug is `default` gives a new profile of Claude the implicit
  account's id: if that account was connected, the profile is taken for signed in,
  and the next request to add an account makes a second one (`OnePending` excepts
  this profile, by `TakenOver`).
* A discovery of Cursor's sessions that leaves out a session since its request failed
  may store the next one of that account instead; a collection that fetched with
  the first meanwhile looks again, once, and may fail though a session is healthy, if
  that happens twice (`HealthyNeverMasked` supposes that no request fails meanwhile).
* A refreshed credential is compared with what was stored only by its tokens: a
  change of login and back during one native measurement goes unnoticed (so in
  Codex too, between two looks at one home).
* In `GrokCollection`, only the default profile may be collected with a browser's
  cookie, which may be another user's. In `OpenCodeCollection`, uses recorded
  between two pages shift the rows, and one may be counted twice
  (`CompleteIsAll` claims exactness for quiet histories only).
* With three pages of Cursor's events, two edits that cancel out on later pages
  pass the check of the first page (`OneMoment` excepts this).

## 4. The proofs

Assumptions are the named `ASSUME`s of the modules, on the constants only; each
is what the code guarantees of a constant (a registry of providers is finite, a
page is at least one row). TLC evaluates them on every run. Each proof has the
same shape: an inductive invariant in named parts, a lemma that the initial
states satisfy it, lemmas for operators, one lemma per action (or per action and
conjunct it can disturb), and theorems that draw the properties from it. The
invariants were checked by TLC on small instances before they were proved.
The library's induction theorems take an operator and cannot be cited; where an
argument is by induction on data (sums over days, in `ServicesProofs`), it is by
a least counterexample instead, which exists because strict subsets of a finite
set are well founded (`LeastSubset`), and the fold is shown to be the recursive
function it is defined by (`FoldExists`, `TotalFolds`).

**RefreshJobsProofs**, for any number of jobs, providers, accounts and callers.
`DiscoveryInvariant` gives `TypeCorrect`, `OneFlight`, `DiscoveriesAreComplete`,
`DiscoveredFirst`. That a completed job lists what it reports cannot be shown
from itself. The argument needs what is true of a flight *before* a job hears
of it: whatever a flight in the map has told of, every live job with that
provider in its scope has listed already, or is still going to copy from that
flight (`ToldWhileMapped`); and what a job joined stays told to it after the
flight left the map (`ToldWhileJoined`). Around them stand the shapes of the two
registries (`FlightInMap`, `FlightShape`, `JobInMap`, `JobShape`).
`RegistryInvariant` adds the queue of finished jobs: `by_id` is the active map
and the queue, the queue has completed jobs, each once, and no more than are
retained; a caller waits for a job of its scope that is told; a job waits for
flights that cover what it was asked. From it `JobsCanBePolled`, `AnswersCover`,
`StatusIsFinal`, and `ImplementsServiceSafely`: every step is one of
`RefreshService` or a stutter.
`SessionsAreSound` is about Cursor's sign-ins, which flights borrow, for any accounts, tokens and tasks
that overlap. A collection looks for a session twice, no more, so why it ends well
when all is calm must be said of what others cache meanwhile: there is one best
session of an account, the first valid one in the order of the sources (`IsBest`);
a discovery has that one of each account whose candidates it has passed
(`Thorough`); what is written into the cache for a healthy account is that one,
and only instead of another (`Improves`); so whoever looks again finds it or
nothing (`Settled`, `Retries`). The invariant also says that what is under way at
once is calm or not as a whole (`AllAlike`): a first attempt supposed that a
request that fails disturbs only its own discovery, and failed, see section 3.

**AlertsProofs**, for any policies, percentages and bounds, with faults, crashes
and changes of policy at any point: `TypeCorrect`, `MarksFollowAlerts`,
`CooldownsAreKept`, `AlertedOncePerCrossing`. The mask an evaluation works on,
which is written back several steps later, consists of queued alerts as well;
and the history of alerts (`HistoryIsKept`) relates the age of the last alert and
what was told of the current crossing to the stored row and to the evaluation
under way. What a window has forgotten (`Forget`) is not part of that history; an
evaluation that stores nothing forgets only if its row was cleared or written
anew meanwhile, since what it decided is what it had loaded. Type correctness needs that a threshold's position is at most 7
(`BitIsAPosition`, by the cardinality of the ladder): the eighth bit is the
forecast's.

**NotificationQueueProofs**, for any number of deliveries, alerts and rows, with
faults, lost calls and crashes at any point: `TypeCorrect`, `NoneForgotten` and
`OnlyShownAcknowledged`, from `QueueInvariant`. The strengthening is that ids
and alerts are numbered alike (what `AUTOINCREMENT` is for): the row a call read
is still the only one with its id when the call acknowledges it, and what it
acknowledges it has shown. `OldestBounded` and `TrimDropsOvertaken` are counting
arguments by injections into intervals.

**ServicesProofs**, about the database and what never ends, for any number of
callers, clients, providers, logs and ticks:

* accounts, for any profiles, ids, identities and ladder: `TypeCorrect`,
  `OkHasUsage`, and `ImplementsLedger`, the refinement of `AccountLedger`, from
  `AccountInvariant`. Its conjuncts: a future past `upsert_account` holds a row, and
  a deletion under way has a target (`CopiesHeld`); rows have ids of their own, all
  handed out (`RowsDistinct`); usage and backoff exist for stored ids only
  (`HistoryStored`); ok is backed by usage (`UsageBacksHealth`). `RowsDistinct` is
  what makes a deletion by id take one row and `Stored` a function of the id;
  `HistoryStored` is why a new id starts without history. `IdentitiesAreDistinct`:
  `NoSharedIdentity` is inductive by itself, since identities are compared in the
  statement that stores them;
* the pool: permits and those who hold one make `PoolSize`, and so do idle,
  running and lost connections (`PoolInvariant`; counted in sets, so that an
  operation whose caller was aborted is still counted);
* the server: frames do not grow past what was sent, slots follow tasks,
  requests of a client are answered in order, one of the deletions that find the
  account confirms it, and a state is that of one moment (`ServerInvariant`);
* polling: deadlines lie near, the time since a poll is capped, nothing is
  late, what is left of a deadline is at least what is owed, and the loop's
  groups are those of the schedule it saw (`PollingInvariant`). It needs that
  the least of a finite set of deadlines exists: well-foundedness of strict
  subsets (`WFMin`);
* local logs: while nothing signals overflow or is out of date beyond notice, a
  change that is not stored is covered by an event, a deadline, a reading or a
  periodic scan (`LocalInvariant`, `ChangesAreCovered`);
* `LoopsAreSound`: whichever of the loops `services` runs;
* the history of usage, for any time, billing cycles, page sizes and retention.
  What a collection has got is of the provider's list as it is by now, and of the
  one that was counted first while its length stayed the same (`FetchFollows`):
  since the list only grows, as many events as were listed are those. A client
  that is not overtaken has read a prefix of the events (`ReaderFollows`). A day's
  count holds because a period ends now or where a cycle begins, and so cuts no
  day that it counts in two (`RecordEventsKeeps`). The totals are sums that triggers
  keep row by row (`AllDeleted`, `AllUpserted`). `HistoryIsConsistent` follows.

**CollectionProofs**, about the collectors, for any number of people, profiles,
cookies, tokens, workspaces, pages, logs and scans:

* Codex: that usage is of the account it is stored for must be said of each
  stage: an answer that is another's took a change of the sign-in since the
  collection began, and one more if the account is back (`AnswersKnown`); while
  nothing changed, the profile is the first of its account (`FirstKnown`), and a
  home's logs were given to one that is signed in there (`GivenKnown`). `CodexIsSound` follows, with the
  exception the code makes itself: somebody who signs in and out again between
  two looks is not noticed. `CodexAssumption` says that nobody is no person;
* OpenCode: the workspace is the account's own unless that has none
  (`SpaceIsKept`), which cookie is tried, and that the ones tried before were
  rejected (`SessionIsTried`), and what the outcome tells (`OutcomeIsTold`). Its
  history: a row of the days looked back on that is not read yet lies on a page
  to come, wherever uses recorded meanwhile have shifted it (`HistoryInv`);
* Grok: sources are asked in their order and those passed did not answer
  (`ShownInOrder`, `SourcesLeft`). `GrokAssumption` says that the placeholder of a
  signed-out home is nobody's name;
* scans of logs: whatever a scan or a cache holds of a file is no newer than the
  file, and has its content if it has its stamp still (`LogInv`); a line written
  while the file is read makes the stamp another (`CacheIsHonest`);
* `CollectorsAreSound`: whichever of them `collecting` runs.

**AdministrationProofs**, for any number of attempts, imports, files, migrations and
profiles:

* sign-ins: a thread waits for a login that is registered or was ousted, and a
  process runs only while somebody waits for it (`LoginInvariant`);
* imports: one import of an account is under way, its progress tells which
  files it wrote and which manifest, and every file has a known author
  (`ImportInvariant`); so what it deletes is the import's own
  (`ForeignFilesAreKept`);
* the database: the file is empty, legacy, foreign or complete for its version,
  and the stage of a reset tells how far it is (`MigrationsInvariant`); so one that
  opens is complete (`DatabaseIsOpened`) and a foreign one keeps its tables, owner and version (`ForeignTablesAreKept`).
  `StrangersAreKept`: whichever part of `parts` runs, neither such tables
  nor such a file are lost; a behaviour of `parts` is one of each of its parts;
* configuration: unless a rollback failed as well (`torn`), the stage of a change
  tells what the file, the live copy and each subscriber hold, and the account's
  row fits the tombstone (`ConfigInvariant`, `ConfigStaysConsistent`);
* profiles, for each provider and any names, requests and number of profiles. That
  the directory a deletion still has to remove is nobody's cannot be shown from
  itself: a later request could configure the profile again. The invariant says
  that ids are taken for good, tombstones included, that only the default profile
  uses the tool's own home, and that what is to be removed is the home of a profile
  that gave it up (`ProfilesKnown`, `RequestsKnown`); that accounts in the database
  are of profiles that were configured, or of the implicit one, and those a request
  read before it took the lock are of such profiles or still there (`AccountsKnown`); and that a managed profile with such an account has
  credentials (`SeenAreSigned`), so that a request which finds no profile waiting in
  what it read finds none waiting now. `HomesAndAccountsAreKept` (`HomesKept`,
  `OneOwner`, `AccountsKept`) and `ProfilesAreSound` follow. A new id exists because
  there are more numbers than profiles (`UniqueIdIsNew`, by the pigeonhole
  principle), and a name without letters becomes `account`, which
  `ProfilesAssumption` says.

**SignInProofs**, about the parts that `parts` runs one at a time: the sign-ins that
are shared, for any number of callers, tasks and launches, and four of the reports:

* the Keychain's broker: `acknowledged` is the place of the last write whose
  caller was told of it, and a request's floor is that place when it was made.
  What the helper read, what is about to be answered and what is cached are
  contents at or behind that place (`ResultsAreUpToDate`); a write that has ended
  well is found at the place it claims (`WritesAreThere`); every request queued,
  put off or served is one that was made, and a caller waits for its last one
  (`RequestsAreMade`), so that an answer meets the floor of whoever hears it. A
  silent read is refused only when nothing is cached, and while a read is allowed
  something is (`AllowedIsCached`). `ReadsSeeWrites` follows. Finding 4 is no
  contradiction: an answer shared late may be older than one another caller got,
  and not older than a confirmed write;
* Claude's sign-in: that a live token is stored cannot be shown from itself,
  since between the exchange of a token and the saving of its successor none is.
  The invariant says that this happens only while a task holds the lock
  (`LiveIsStored`, `TaskTells`), that the successor is nowhere else meanwhile
  (`NewIsNew`), that what is stored or known was not spent (`StoresAreUnspent`), and
  what the task compares before it saves: a token it holds of the Keychain is
  still there or was replaced by a live one (`ExchangeIsSafe`). A dead token in
  the Keychain lies beside a live file only, and that file the Keychain never
  held, or a refresh would take the one for the other. `SignInsOutliveRefreshes`
  follows. It needs that `Free`, the lock's value when nobody holds it, is no
  task (`ClaudeAssumption`);
* sessions: `LaunchesAreSafe`, by what each stage of a launch has read and what
  may have changed since;
* `SharedSignInsAreSafe`: whichever part of `parts` runs, all three hold;
* the datasets of an account, for any number of readings: whatever is gathered,
  merged, overlaid and dropped in between, what a snapshot has of the logs is of
  one reading no later than the snapshot, each item is claimed by the source it
  came from, and no two claims overlap (`LogsOf`, `ClaimsKnown` of `DatasetInv`).
  Merging and overlaying are `Fill`, which adds what is missing and claims just
  that (`FillAdds`), so that both are shown by what one `Fill` keeps;
* the limits of Codex, for any set of features: each window that either source
  tells is one of a bound of the account, under an id that determines the bound
  (`LimitsAreSame`), because no two features share a name and none has the
  account's own; hence the same id never means two limits;
* Cursor's usage, by the few datasets that its answer may become
  (`TeamStaysApart`);
* the dashboard and what the command line makes of it, for any number of days and
  uses: what a snapshot or a retained row tells of a day is no more than what was
  used on it, and a provider without rows of its own has no use elsewhere
  (`DashboardInv`). A cost without days is the exception that `Misdated` names: it is
  told of the day it is looked at (`CostIsUsed`). `NothingCountsTwice`, `AllIsShown`
  and `StaleAreMarked` follow, one for each part of `ReportedOnce`. Sums are over the
  two accounts of the model, one of each kind;
* `ReportsAreTrue`: whichever of these four runs, `ReportsTrue` holds.

**AppProofs**, for any number of callers, attempts, restarts, processes and
providers: in the supervisor, each automatic startup was paid for by a failure
(`RetriesAreKnown`), the startup of a running daemon has ended (`StartupsAreKnown`),
and whoever holds a child is at a step that will stop it or hand it on
(`ChildrenAreKnown`); in the recovery, the counts shown are those of the
refreshes under way (`CountsAreKnown`). `AppIsSound`, `NoChildIsForgotten`,
`BackoffsHaveCauses` and `DisabledIsObeyed` follow. The run has one caller; the
theorems hold for any number, with the exception for a caller that gives up.

Only model-checked:

* everything under fairness (`RequestsEnd`, the liveness of `ImplementsService`,
  `LimitsSettle`, `PartsSettle`, `CrossingAlerted`, `QueueDrains`, `AppRecovers`, the
  other half of `SwitchObeyed`): liveness and ENABLED are out of the prover's
  reach;
* the other cases of `ReportsTrue` (Cursor's event pages, Claude's screen and
  quotas, the forecast), and what `CollectionSound` says of Grok's
  bills and of the tokens the logs are charged: folds over pages, lines and days,
  sorting, and medians.

## 5. The plan

What is left, the most important first:

1. `NotifyWait`: the wake-up of `wait_for_job` (`tokio::sync::Notify`), below
   RefreshJobs, where a waiting caller just sees the end: `notified()` is created
   before the look at the record, so that `notify_waiters` reaches it.

Not to be modelled: rendering of the command line, the types of model and API,
parsing of arguments, fixtures and the log file, prices of tokens, OpenCode's
heuristics that find usage in a page, the updater, sockets and HTTP clients,
views, packaging scripts: no state that interleaves, or only text. The operating
system's Keychain, browsers' cookie stores, launchd and the providers' servers
are external: modelled as what they may answer.
