---------------------------- MODULE RefreshJobs ----------------------------
(***************************************************************************)
(* The refresh coordinator's job registry and provider flights             *)
(* (usage-daemon/src/polling.rs).                                          *)
(*                                                                         *)
(* A request for a refresh claims a JOB for its scope, or is handed an     *)
(* active job that covers it.  A job runs in a task of its own and asks    *)
(* for one FLIGHT per provider in its scope; jobs that overlap share the   *)
(* flight that is already in the air.  A flight discovers the provider's   *)
(* accounts, tells every active job that includes the provider about each  *)
(* of them, and collects them, several at a time.                          *)
(*                                                                         *)
(* Every action is one critical section of the code (a Mutex or RwLock     *)
(* held), or the stretch between two awaits of one task.  What a flight    *)
(* does to the database is the subject of AccountCollection; here an       *)
(* account is stored, discovered and collected or not.                     *)
(***************************************************************************)
EXTENDS Integers, Sequences, FiniteSets

CONSTANTS
  Providers,      \* provider ids
  Accounts,       \* account ids
  Owner,          \* [Accounts -> Providers]: the provider of an account
  Jobs,           \* the supply of job ids (Uuid::new_v4): bounds the requests
  Callers,        \* tasks that wait for a refresh
  All,            \* the key of an unfiltered refresh, RefreshKey(None)
  NoJob,
  RETAINED_REFRESH_JOBS,
  MaxParallelAccounts,
  Requests,       \* the scopes that are asked for
  Configurations, \* the sets of providers that may be configured
  Reachability    \* the values connectivity may take

ASSUME ConstantsAssumption ==
  /\ Owner \in [Accounts -> Providers]
  /\ NoJob \notin Jobs
  /\ \A providers \in SUBSET Providers : providers # All
  /\ RETAINED_REFRESH_JOBS \in Nat \ {0}
  /\ MaxParallelAccounts \in Nat \ {0}
  /\ Requests \subseteq {All} \union ((SUBSET Providers) \ {{}})
  /\ Configurations \subseteq SUBSET Providers
  /\ Reachability \subseteq BOOLEAN

(* RefreshKey: an empty filter is refused before it gets here.             *)
Keys == {All} \union ((SUBSET Providers) \ {{}})

(* A flight is named by the job that claimed it and its provider: a job    *)
(* asks for a provider once.                                               *)
Flights == Jobs \X Providers

VARIABLES
  online,         \* ConnectivityMonitor: not known to be offline
  collectors,     \* RefreshCoordinator.providers
  status,         \* RefreshJob.status of each job, "none" before it exists
  scope,          \* RefreshKey of each job
  snapshot,       \* the providers a job found configured in its scope
  discovered,     \* RefreshJob.discovered_accounts
  results,        \* accounts with a collected result in RefreshJob.provider_results
  active,         \* RefreshJobs.active: HashMap<RefreshKey, entry>
  byId,           \* RefreshJobs.by_id
  completed,      \* RefreshJobs.completed
  task,           \* where the caller or task that carries the job is
  seedFrom,       \* flights whose discoveries a claimed job has yet to copy
  joined,         \* the flight each provider future of a job waits for, by claimer
  flightOf,       \* provider_flights: HashMap<ProviderId, flight>, by claimer
  stage,          \* where the task of each flight is
  found,          \* ProviderRefreshFlight.discovered_accounts
  result,         \* ProviderRefreshFlight.result: accounts collected
  account,        \* where the future of each account of a flight is
  notify,         \* jobs that future has yet to tell of the account
  asked,          \* scope a waiting caller asked for
  waiting         \* job whose end a caller awaits

jobVars    == <<status, scope, snapshot, discovered, results>>
registry   == <<active, byId, completed>>
taskVars   == <<task, seedFrom, joined>>
flightVars == <<flightOf, stage, found, result, account, notify>>
callerVars == <<asked, waiting>>
envVars    == <<online, collectors>>
vars == <<envVars, jobVars, registry, taskVars, flightVars, callerVars>>

(* Mutants: each is a plausible slip in the definition that follows it.    *)
CoversNarrower(wide, key) == key = All \/ (wide # All /\ wide \subseteq key)

(* RefreshKey::covers and includes_provider                                *)
Covers(wide, key) == wide = All \/ (key # All /\ key \subseteq wide)
Includes(key, p) == key = All \/ p \in key

Terminal(j) == status[j] \in {"completed", "failed"}
Coverers(key) == {k \in Keys : active[k] # NoJob /\ Covers(k, key)}
Flying(f) == stage[f] \in {"discovering", "collecting"}
AccountsOf(p) == {a \in Accounts : Owner[a] = p}
InProgress(f) == {a \in Accounts : account[f][a] \in {"stored", "telling"}}

Init ==
  /\ online \in Reachability
  /\ collectors \in Configurations
  /\ status     = [j \in Jobs |-> "none"]
  /\ scope      = [j \in Jobs |-> All]
  /\ snapshot   = [j \in Jobs |-> {}]
  /\ discovered = [j \in Jobs |-> {}]
  /\ results    = [j \in Jobs |-> {}]
  /\ active     = [k \in Keys |-> NoJob]
  /\ byId       = {}
  /\ completed  = <<>>
  /\ task       = [j \in Jobs |-> "none"]
  /\ seedFrom   = [j \in Jobs |-> {}]
  /\ joined     = [j \in Jobs |-> [p \in Providers |-> NoJob]]
  /\ flightOf   = [p \in Providers |-> NoJob]
  /\ stage      = [f \in Flights |-> "none"]
  /\ found      = [f \in Flights |-> {}]
  /\ result     = [f \in Flights |-> {}]
  /\ account    = [f \in Flights |-> [a \in Accounts |-> "none"]]
  /\ notify     = [f \in Flights |-> [a \in Accounts |-> {}]]
  /\ asked      = [c \in Callers |-> All]
  /\ waiting    = [c \in Callers |-> NoJob]
-----------------------------------------------------------------------------
(* Claiming a job.                                                         *)

(* claim_job, no active job covers the scope: insert a new one.            *)
ClaimJob(key, j) ==
  /\ Coverers(key) = {}
  /\ status[j] = "none"
  /\ status' = [status EXCEPT ![j] = "queued"]
  /\ scope'  = [scope EXCEPT ![j] = key]
  /\ active' = [active EXCEPT ![key] = j]
  /\ byId'   = byId \union {j}
  /\ task'   = [task EXCEPT ![j] = "claimed"]
  /\ UNCHANGED <<envVars, snapshot, discovered, results, completed, seedFrom, joined, flightVars>>

(* start_refresh: the caller is told which job it is and goes away.  If a  *)
(* job covers the scope nothing changes.                                   *)
StartRefresh(key) ==
  /\ \E j \in Jobs : ClaimJob(key, j)
  /\ UNCHANGED callerVars

(* refresh, with a job of its own to wait for ...                          *)
Refresh(c, key) ==
  /\ waiting[c] = NoJob
  /\ \E j \in Jobs : ClaimJob(key, j) /\ waiting' = [waiting EXCEPT ![c] = j]
  /\ asked' = [asked EXCEPT ![c] = key]

(* ... or with an active job that covers the scope: HashMap iteration      *)
(* order picks which.                                                      *)
RefreshCoalesced(c, key) ==
  /\ waiting[c] = NoJob
  /\ \E k \in Coverers(key) : waiting' = [waiting EXCEPT ![c] = active[k]]
  /\ asked' = [asked EXCEPT ![c] = key]
  /\ UNCHANGED <<envVars, jobVars, registry, taskVars, flightVars>>

(* Mutant: a claimed job is not seeded.                                    *)
SeedNothing(j) ==
  /\ task[j] = "claimed"
  /\ task' = [task EXCEPT ![j] = "seeding"]
  /\ UNCHANGED <<envVars, jobVars, registry, seedFrom, joined, flightVars, callerVars>>

(* seed_job_discoveries, the flights lock: the flights in the scope.       *)
SeedSnapshot(j) ==
  /\ task[j] = "claimed"
  /\ seedFrom' = [seedFrom EXCEPT ![j] =
       {f \in Flights : flightOf[f[2]] = f[1] /\ Includes(scope[j], f[2])}]
  /\ task' = [task EXCEPT ![j] = "seeding"]
  /\ UNCHANGED <<envVars, jobVars, registry, joined, flightVars, callerVars>>

(* ... then each flight's discoveries so far, one flight at a time.        *)
SeedFromFlight(j, f) ==
  /\ f \in seedFrom[j]
  /\ seedFrom' = [seedFrom EXCEPT ![j] = @ \ {f}]
  /\ discovered' = [discovered EXCEPT ![j] = @ \union found[f]]
  /\ UNCHANGED <<envVars, status, scope, snapshot, results, registry, task, joined, flightVars, callerVars>>

(* spawn_claimed_job: start_refresh and refresh spawn a job they claimed.  *)
SpawnJob(j) ==
  /\ task[j] = "seeding" /\ seedFrom[j] = {}
  /\ task' = [task EXCEPT ![j] = "spawned"]
  /\ UNCHANGED <<envVars, jobVars, registry, seedFrom, joined, flightVars, callerVars>>
-----------------------------------------------------------------------------
(* The job's task.                                                         *)

(* run_claimed_job up to execute_refresh.                                  *)
RunJob(j) ==
  /\ task[j] = "spawned"
  /\ status' = [status EXCEPT ![j] = "running"]
  /\ task'   = [task EXCEPT ![j] = "running"]
  /\ UNCHANGED <<envVars, scope, snapshot, discovered, results, registry, seedFrom, joined, flightVars, callerVars>>

(* execute_refresh: the configured providers in scope, and reachability.   *)
ExecuteRefresh(j) ==
  /\ task[j] = "running"
  /\ snapshot' = [snapshot EXCEPT ![j] = {p \in collectors : Includes(scope[j], p)}]
  /\ task' = [task EXCEPT ![j] = IF online THEN "joining" ELSE "offline"]
  /\ UNCHANGED <<envVars, status, scope, discovered, results, registry, seedFrom, joined, flightVars, callerVars>>

(* Mutant: the flight is inserted without looking for one.                 *)
JoinOwnFlight(j, p) ==
  /\ task[j] = "joining"
  /\ p \in snapshot[j] /\ joined[j][p] = NoJob
  /\ joined'   = [joined EXCEPT ![j][p] = j]
  /\ flightOf' = [flightOf EXCEPT ![p] = j]
  /\ stage'    = [stage EXCEPT ![<<j, p>>] = "discovering"]
  /\ UNCHANGED <<envVars, jobVars, registry, task, seedFrom, found, result, account, notify, callerVars>>

(* refresh_provider_once, the flights lock: share the provider's flight or *)
(* insert one and spawn its task.                                          *)
JoinFlight(j, p) ==
  LET f == <<j, p>> IN
  /\ task[j] = "joining"
  /\ p \in snapshot[j] /\ joined[j][p] = NoJob
  /\ \/ /\ flightOf[p] # NoJob
        /\ joined' = [joined EXCEPT ![j][p] = flightOf[p]]
        /\ UNCHANGED <<flightOf, stage>>
     \/ /\ flightOf[p] = NoJob
        /\ joined'   = [joined EXCEPT ![j][p] = j]
        /\ flightOf' = [flightOf EXCEPT ![p] = j]
        /\ stage'    = [stage EXCEPT ![f] = "discovering"]
  /\ UNCHANGED <<envVars, jobVars, registry, task, seedFrom, found, result, account, notify, callerVars>>

(* wait_for_provider_refresh for every provider (join_all), then the end   *)
(* of run_claimed_job: the report becomes the job's result.                *)
CompleteJob(j) ==
  /\ task[j] = "joining"
  /\ \A p \in snapshot[j] : joined[j][p] # NoJob /\ stage[<<joined[j][p], p>>] \in {"published", "removed"}
  /\ results' = [results EXCEPT ![j] = UNION {result[<<joined[j][p], p>>] : p \in snapshot[j]}]
  /\ status'  = [status EXCEPT ![j] = "completed"]
  /\ task'    = [task EXCEPT ![j] = "finished"]
  /\ UNCHANGED <<envVars, scope, snapshot, discovered, registry, seedFrom, joined, flightVars, callerVars>>

(* The offline branch: no provider is called, each one gets a network      *)
(* result without an account.                                              *)
CompleteOffline(j) ==
  /\ task[j] = "offline"
  /\ status' = [status EXCEPT ![j] = "completed"]
  /\ task'   = [task EXCEPT ![j] = "finished"]
  /\ UNCHANGED <<envVars, scope, snapshot, discovered, results, registry, seedFrom, joined, flightVars, callerVars>>

(* Mutant: a panic overwrites a job that has ended.                        *)
FailEndedJob(j) ==
  /\ task[j] \in {"offline", "finished"}
  /\ status' = [status EXCEPT ![j] = "failed"]
  /\ task'   = [task EXCEPT ![j] = "finished"]
  /\ UNCHANGED <<envVars, scope, snapshot, discovered, results, registry, seedFrom, joined, flightVars, callerVars>>

(* A panic in the job's task is caught by spawn_claimed_job, and           *)
(* fail_claimed_job ends the job.  Provider code runs in this task only    *)
(* when the machine is offline (refresh_local); online it runs in flights. *)
FailJob(j) ==
  /\ task[j] = "offline"
  /\ ~Terminal(j)
  /\ status' = [status EXCEPT ![j] = "failed"]
  /\ task'   = [task EXCEPT ![j] = "finished"]
  /\ UNCHANGED <<envVars, scope, snapshot, discovered, results, registry, seedFrom, joined, flightVars, callerVars>>

(* Mutant: the queue is cut one short.                                     *)
NewestButOne(queue) ==
  IF Len(queue) >= RETAINED_REFRESH_JOBS
  THEN SubSeq(queue, Len(queue) - RETAINED_REFRESH_JOBS + 2, Len(queue))
  ELSE queue

(* The newest RETAINED_REFRESH_JOBS of a queue: what the eviction loop     *)
(* leaves of it.                                                           *)
Newest(queue) ==
  IF Len(queue) > RETAINED_REFRESH_JOBS
  THEN SubSeq(queue, Len(queue) - RETAINED_REFRESH_JOBS + 1, Len(queue))
  ELSE queue

Evicted(queue) == {queue[i] : i \in 1 .. (Len(queue) - RETAINED_REFRESH_JOBS)}

(* retain_finished_job                                                     *)
RetainJob(j) ==
  /\ task[j] = "finished"
  /\ active' = [active EXCEPT ![scope[j]] = IF @ = j THEN NoJob ELSE @]
  /\ completed' = Newest(Append(completed, j))
  /\ byId' = byId \ Evicted(Append(completed, j))
  /\ task' = [task EXCEPT ![j] = "retained"]
  /\ UNCHANGED <<envVars, jobVars, seedFrom, joined, flightVars, callerVars>>

(* wait_for_job: the caller of refresh() has its report.                   *)
AnswerCaller(c) ==
  /\ waiting[c] # NoJob
  /\ Terminal(waiting[c])
  /\ waiting' = [waiting EXCEPT ![c] = NoJob]
  /\ asked' = [asked EXCEPT ![c] = All]
  /\ UNCHANGED <<envVars, jobVars, registry, taskVars, flightVars>>
-----------------------------------------------------------------------------
(* The flight's task: refresh_provider.                                    *)

(* discover_accounts answered; one future per account starts.              *)
DiscoverAccounts(f, accounts) ==
  /\ stage[f] = "discovering"
  /\ stage' = [stage EXCEPT ![f] = "collecting"]
  /\ account' = [account EXCEPT ![f] =
       [a \in Accounts |-> IF a \in accounts THEN "waiting" ELSE "none"]]
  /\ UNCHANGED <<envVars, jobVars, registry, taskVars, flightOf, found, result, notify, callerVars>>

(* upsert_account, then record_account_discovery, the flight's list.  The  *)
(* row may fail to be stored, and then the account is not discovered.      *)
StoreAccount(f, a) ==
  /\ account[f][a] = "waiting"
  /\ Cardinality(InProgress(f)) < MaxParallelAccounts
  /\ \/ /\ account' = [account EXCEPT ![f][a] = "stored"]
        /\ found' = [found EXCEPT ![f] = @ \union {a}]
     \/ /\ account' = [account EXCEPT ![f][a] = "failed"]
        /\ UNCHANGED found
  /\ UNCHANGED <<envVars, jobVars, registry, taskVars, flightOf, stage, result, notify, callerVars>>

(* Mutant: only the job whose scope is this provider alone is told.        *)
ListExactJob(f, a) ==
  /\ account[f][a] = "stored"
  /\ notify' = [notify EXCEPT ![f][a] = {active[{f[2]}]} \ {NoJob}]
  /\ account' = [account EXCEPT ![f][a] = "telling"]
  /\ UNCHANGED <<envVars, jobVars, registry, taskVars, flightOf, stage, found, result, callerVars>>

(* record_account_discovery, the jobs lock: the active jobs to tell.       *)
ListActiveJobs(f, a) ==
  /\ account[f][a] = "stored"
  /\ notify' = [notify EXCEPT ![f][a] =
       {active[k] : k \in {k \in Keys : Includes(k, f[2])}} \ {NoJob}]
  /\ account' = [account EXCEPT ![f][a] = "telling"]
  /\ UNCHANGED <<envVars, jobVars, registry, taskVars, flightOf, stage, found, result, callerVars>>

(* append_discovery into one of those jobs, whatever became of it.         *)
AppendDiscovery(f, a, j) ==
  /\ account[f][a] = "telling"
  /\ j \in notify[f][a]
  /\ notify' = [notify EXCEPT ![f][a] = @ \ {j}]
  /\ discovered' = [discovered EXCEPT ![j] = @ \union {a}]
  /\ UNCHANGED <<envVars, status, scope, snapshot, results, registry, taskVars,
                 flightOf, stage, found, result, account, callerVars>>

(* Mutant: collection does not wait until every job is told.               *)
CollectUntold(f, a) ==
  /\ account[f][a] = "telling"
  /\ account' = [account EXCEPT ![f][a] = "collected"]
  /\ notify' = [notify EXCEPT ![f][a] = {}]
  /\ UNCHANGED <<envVars, jobVars, registry, taskVars, flightOf, stage, found, result, callerVars>>

(* The rest of refresh_account_with_budget.                                *)
CollectAccount(f, a) ==
  /\ account[f][a] = "telling"
  /\ notify[f][a] = {}
  /\ account' = [account EXCEPT ![f][a] = "collected"]
  /\ UNCHANGED <<envVars, jobVars, registry, taskVars, flightOf, stage, found, result, notify, callerVars>>

(* All accounts are done: the result is set and the waiters are notified.  *)
PublishFlight(f) ==
  /\ stage[f] = "collecting"
  /\ \A a \in Accounts : account[f][a] \in {"none", "failed", "collected"}
  /\ stage'  = [stage EXCEPT ![f] = "published"]
  /\ result' = [result EXCEPT ![f] = {a \in Accounts : account[f][a] = "collected"}]
  /\ UNCHANGED <<envVars, jobVars, registry, taskVars, flightOf, found, account, notify, callerVars>>

(* Mutant: a panic ends the flight's task and nothing is published.        *)
LoseFlight(f) ==
  /\ Flying(f)
  /\ account' = [account EXCEPT ![f] = [a \in Accounts |-> "none"]]
  /\ stage'   = [stage EXCEPT ![f] = "none"]
  /\ UNCHANGED <<envVars, jobVars, registry, taskVars, flightOf, found, result, notify, callerVars>>

(* Discovery fails or times out, or the task panics anywhere: its futures  *)
(* are dropped and one failure without an account is published.            *)
FailFlight(f) ==
  /\ Flying(f)
  /\ stage'   = [stage EXCEPT ![f] = "published"]
  /\ account' = [account EXCEPT ![f] = [a \in Accounts |-> "none"]]
  /\ notify'  = [notify EXCEPT ![f] = [a \in Accounts |-> {}]]
  /\ UNCHANGED <<envVars, jobVars, registry, taskVars, flightOf, found, result, callerVars>>

(* The flights lock again: the entry is removed if it is still this one.   *)
RemoveFlight(f) ==
  /\ stage[f] = "published"
  /\ stage' = [stage EXCEPT ![f] = "removed"]
  /\ flightOf' = [flightOf EXCEPT ![f[2]] = IF @ = f[1] THEN NoJob ELSE @]
  /\ UNCHANGED <<envVars, jobVars, registry, taskVars, found, result, account, notify, callerVars>>
-----------------------------------------------------------------------------
(* Environment.                                                            *)

(* set_providers, after a configuration change.                            *)
SetProviders(providers) ==
  /\ providers # collectors
  /\ collectors' = providers
  /\ UNCHANGED <<online, jobVars, registry, taskVars, flightVars, callerVars>>

SetConnectivity(reachable) ==
  /\ reachable # online
  /\ online' = reachable
  /\ UNCHANGED <<collectors, jobVars, registry, taskVars, flightVars, callerVars>>

Request == \E key \in Requests :
  \/ StartRefresh(key)
  \/ \E c \in Callers : Refresh(c, key) \/ RefreshCoalesced(c, key)

JobStep(j) ==
  \/ SeedSnapshot(j)
  \/ \E f \in Flights : SeedFromFlight(j, f)
  \/ SpawnJob(j)
  \/ RunJob(j)
  \/ ExecuteRefresh(j)
  \/ \E p \in Providers : JoinFlight(j, p)
  \/ CompleteJob(j)
  \/ CompleteOffline(j)
  \/ FailJob(j)
  \/ RetainJob(j)

FlightStep(f) ==
  \/ \E accounts \in SUBSET AccountsOf(f[2]) : DiscoverAccounts(f, accounts)
  \/ \E a \in Accounts : StoreAccount(f, a) \/ ListActiveJobs(f, a) \/ CollectAccount(f, a)
  \/ \E a \in Accounts, j \in Jobs : AppendDiscovery(f, a, j)
  \/ PublishFlight(f)
  \/ FailFlight(f)
  \/ RemoveFlight(f)

Environment ==
  \/ \E reachable \in Reachability : SetConnectivity(reachable)
  \/ \E providers \in Configurations : SetProviders(providers)

Next ==
  \/ Request
  \/ \E j \in Jobs : JobStep(j)
  \/ \E f \in Flights : FlightStep(f)
  \/ \E c \in Callers : AnswerCaller(c)
  \/ Environment

Spec == Init /\ [][Next]_vars

(* The runtime keeps polling every task that can proceed.  Provider calls  *)
(* and storage calls end (both provider calls are under tokio timeouts),   *)
(* so a flight's steps are fair too; requests and the environment are not. *)
Fairness ==
  /\ \A j \in Jobs : WF_vars(JobStep(j))
  /\ \A f \in Flights : WF_vars(FlightStep(f))
  /\ \A c \in Callers : WF_vars(AnswerCaller(c))

FairSpec == Spec /\ Fairness
-----------------------------------------------------------------------------
(* Properties.                                                             *)

(* Every variable has its type: the registry's maps hold jobs, the flight  *)
(* map holds claimers, and each task and future is at a known await.       *)
TypeOK ==
  /\ online \in BOOLEAN
  /\ collectors \in SUBSET Providers
  /\ status \in [Jobs -> {"none", "queued", "running", "completed", "failed"}]
  /\ scope \in [Jobs -> Keys]
  /\ snapshot \in [Jobs -> SUBSET Providers]
  /\ discovered \in [Jobs -> SUBSET Accounts]
  /\ results \in [Jobs -> SUBSET Accounts]
  /\ active \in [Keys -> Jobs \union {NoJob}]
  /\ byId \in SUBSET Jobs
  /\ completed \in Seq(Jobs)
  /\ task \in [Jobs -> {"none", "claimed", "seeding", "spawned", "running",
                        "joining", "offline", "finished", "retained"}]
  /\ seedFrom \in [Jobs -> SUBSET Flights]
  /\ joined \in [Jobs -> [Providers -> Jobs \union {NoJob}]]
  /\ flightOf \in [Providers -> Jobs \union {NoJob}]
  /\ stage \in [Flights -> {"none", "discovering", "collecting", "published", "removed"}]
  /\ found \in [Flights -> SUBSET Accounts]
  /\ result \in [Flights -> SUBSET Accounts]
  /\ account \in [Flights -> [Accounts ->
       {"none", "waiting", "stored", "telling", "collected", "failed"}]]
  /\ notify \in [Flights -> [Accounts -> SUBSET Jobs]]
  /\ asked \in [Callers -> Keys]
  /\ waiting \in [Callers -> Jobs \union {NoJob}]

(* However jobs with overlapping scopes interleave, a provider is never    *)
(* called by two flights at once (refresh_provider_once).                  *)
OneFlightPerProvider ==
  \A f, g \in Flights : Flying(f) /\ Flying(g) /\ f[2] = g[2] => f = g

(* A completed job that reports a collected account has listed it among    *)
(* its discovered accounts: the account reached the job from the flight's  *)
(* list when the job was seeded, or from the flight itself, although the   *)
(* two registries are under different locks.                               *)
DiscoveriesComplete ==
  \A j \in Jobs : status[j] = "completed" => results[j] \subseteq discovered[j]

(* A job that waits for a flight knows an account before the flight starts *)
(* to collect it: a client that polls the job never waits for the slow     *)
(* collection to learn of the account.                                     *)
DiscoveredBeforeCollected ==
  \A j \in Jobs, p \in Providers, a \in Accounts :
    task[j] = "joining" /\ joined[j][p] # NoJob =>
      LET f == <<joined[j][p], p>> IN
      account[f][a] = "collected" \/ (account[f][a] = "telling" /\ notify[f][a] = {})
        => a \in discovered[j]

(* by_id holds exactly the active jobs and the newest finished ones, so an *)
(* unfinished job can always be polled and retention never evicts it.      *)
QueryableJobs ==
  /\ byId = ({active[k] : k \in Keys} \ {NoJob}) \union {completed[i] : i \in 1 .. Len(completed)}
  /\ \A j \in Jobs : status[j] \in {"queued", "running"} => j \in byId
  /\ Len(completed) <= RETAINED_REFRESH_JOBS

(* A caller is only ever made to wait for a job that refreshes every       *)
(* provider of its scope: when it is answered by a job that was not        *)
(* skipped offline, each configured provider it asked for has a flight     *)
(* among those the job waited for.                                         *)
AnswerCoversScope ==
  \A c \in Callers, p \in Providers :
    waiting[c] # NoJob /\ Includes(asked[c], p) =>
      LET j == waiting[c] IN
      /\ Includes(scope[j], p)
      /\ status[j] = "completed" /\ p \in snapshot[j] /\ joined[j] # [q \in Providers |-> NoJob]
           => joined[j][p] # NoJob /\ stage[<<joined[j][p], p>>] \in {"published", "removed"}

(* What a poller of a job may see: queued, running, then one end, and the  *)
(* end with its results is final.                                          *)
StatusOnlyAdvances ==
  [][\A j \in Jobs :
       /\ status[j] = "queued" => status'[j] \in {"queued", "running"}
       /\ Terminal(j) => status'[j] = status[j] /\ results'[j] = results[j]]_vars

(* Every caller of refresh() is answered: whatever panics, fails or is     *)
(* reconfigured, the job it waits for ends.                                *)
CallersAnswered ==
  \A c \in Callers : waiting[c] # NoJob ~> waiting[c] = NoJob

(* A provider is never left blocked behind its flight: every flight ends   *)
(* and leaves the map, whether discovery fails or provider code panics.    *)
FlightsLand ==
  \A f \in Flights : Flying(f) ~> stage[f] = "removed" /\ flightOf[f[2]] # f[1]

(* Both: nobody waits for ever, neither a caller nor the next flight       *)
(* (wait_for_job, refresh_provider_once).                                  *)
RequestsEnd == CallersAnswered /\ FlightsLand

(* A flight is in the map from its claim until its task removes it.        *)
FlightInMap ==
  \A f \in Flights : stage[f] \in {"discovering", "collecting", "published"} => flightOf[f[2]] = f[1]

(* A flight exists once its claimer joined it; its futures run only while  *)
(* it collects, and its result is of collected accounts only.              *)
FlightShape ==
  \A f \in Flights :
    /\ joined[f[1]][f[2]] # f[1] => stage[f] = "none"
    /\ flightOf[f[2]] = f[1] => stage[f] # "none"
    /\ \A a \in Accounts :
         /\ account[f][a] # "none" => stage[f] \in {"collecting", "published", "removed"}
         /\ account[f][a] \in {"waiting", "stored", "telling"} => stage[f] = "collecting"
         /\ account[f][a] \in {"stored", "telling", "collected"} => a \in found[f]
         /\ a \in result[f] => account[f][a] = "collected" /\ stage[f] \in {"published", "removed"}

(* A job is in the active map, under its own scope, from its claim until   *)
(* it is retained.                                                         *)
Live(j) == task[j] \notin {"none", "retained"}

JobInMap ==
  /\ \A j \in Jobs : Live(j) => active[scope[j]] = j
  /\ \A k \in Keys : active[k] # NoJob => Live(active[k]) /\ scope[active[k]] = k
  /\ \A j \in Jobs : status[j] = "none" <=> task[j] = "none"

(* Only a job that is being seeded has flights left to read, and it joins  *)
(* flights of its own scope.                                               *)
JobShape ==
  \A j \in Jobs :
    /\ task[j] # "seeding" => seedFrom[j] = {}
    /\ \A p \in snapshot[j] : Includes(scope[j], p)
    /\ task[j] \in {"none", "claimed", "seeding", "spawned", "running"} => snapshot[j] = {}
    /\ \A p \in Providers : joined[j][p] # NoJob => p \in snapshot[j]

(* The flight has done telling the job of the account.                     *)
Told(f, a, j) == account[f][a] = "collected" \/ (account[f][a] = "telling" /\ j \notin notify[f][a])

(* What a flight in the map has told of, every live job of a scope with    *)
(* its provider has listed, or has yet to be seeded with.                  *)
ToldWhileMapped ==
  \A j \in Jobs, f \in Flights, a \in Accounts :
    /\ Live(j) /\ Includes(scope[j], f[2])
    /\ flightOf[f[2]] = f[1] /\ Told(f, a, j)
    => a \in discovered[j] \/ task[j] = "claimed" \/ f \in seedFrom[j]

(* What a flight has told of, every job that waits for it has listed, even *)
(* after the flight left the map.                                          *)
ToldWhileJoined ==
  \A j \in Jobs, p \in Providers, a \in Accounts :
    task[j] = "joining" /\ joined[j][p] # NoJob /\ Told(<<joined[j][p], p>>, a, j)
      => a \in discovered[j]

ResultsListed == \A j \in Jobs : results[j] \subseteq discovered[j]

DiscoveryInv ==
  /\ TypeOK
  /\ FlightInMap
  /\ FlightShape
  /\ JobInMap
  /\ JobShape
  /\ ToldWhileMapped
  /\ ToldWhileJoined
  /\ ResultsListed
-----------------------------------------------------------------------------
(* The coordinator implements what it promises.                            *)

phaseOf(j) == IF status[j] \in {"queued", "running"} THEN "pending" ELSE status[j]

Service == INSTANCE RefreshService WITH
  phase    <- [j \in Jobs |-> phaseOf(j)],
  listed   <- discovered,
  reported <- results,
  calls    <- [p \in Providers |-> Cardinality({j \in Jobs : Flying(<<j, p>>)})]

(* Registry, flights and tasks implement RefreshService, safety and        *)
(* liveness.                                                               *)
ImplementsService == Service!FairSpec
=============================================================================
