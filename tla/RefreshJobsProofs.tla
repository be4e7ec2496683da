------------------------- MODULE RefreshJobsProofs -------------------------
(***************************************************************************)
(* Theorems of RefreshJobs, for any number of providers, accounts, jobs    *)
(* and callers and any retention limit; and of CursorSessions, what a      *)
(* flight of Cursor does with the sign-ins that it borrows.                *)
(***************************************************************************)
EXTENDS RefreshJobs, CursorSessions, FiniteSetTheorems, TLAPS

(* Updating a function of functions in one place keeps its type.           *)
LEMMA NestedExcept ==
  ASSUME NEW S, NEW T, NEW V, NEW g \in [S -> [T -> V]], NEW s \in S, NEW t \in T, NEW v \in V
  PROVE  [g EXCEPT ![s][t] = v] \in [S -> [T -> V]]
OBVIOUS

(* Eviction keeps a queue of jobs a queue of jobs.                         *)
LEMMA NewestType ==
  ASSUME NEW queue \in Seq(Jobs)
  PROVE  Newest(queue) \in Seq(Jobs)
<1>1. RETAINED_REFRESH_JOBS \in Nat \ {0}
  BY ConstantsAssumption
<1>2. CASE Len(queue) > RETAINED_REFRESH_JOBS
  BY <1>1, <1>2 DEF Newest
<1>3. CASE ~(Len(queue) > RETAINED_REFRESH_JOBS)
  BY <1>3 DEF Newest
<1> QED
  BY <1>2, <1>3

(* The components of a flight.                                             *)
LEMMA FlightParts ==
  ASSUME NEW f \in Flights
  PROVE  f[1] \in Jobs /\ f[2] \in Providers /\ f = <<f[1], f[2]>>
BY DEF Flights

(* The initial values have their types.                                   *)
LEMMA InitType == Init => TypeOK
<1> SUFFICES ASSUME Init PROVE TypeOK
  OBVIOUS
<1>1. All \in Keys
  BY DEF Keys
<1>2. <<>> \in Seq(Jobs)
  OBVIOUS
<1> QED
  BY <1>1, <1>2, ConstantsAssumption DEF Init, TypeOK

(* Steps of requests and waiting callers keep the types.                   *)
LEMMA RequestType == TypeOK /\ Request => TypeOK'
<1> SUFFICES ASSUME TypeOK, Request PROVE TypeOK'
  OBVIOUS
<1> USE DEF TypeOK
<1>1. Requests \subseteq Keys
  BY ConstantsAssumption DEF Keys
<1>2. ASSUME NEW key \in Requests, NEW j \in Jobs, ClaimJob(key, j), UNCHANGED callerVars
      PROVE  TypeOK'
  BY <1>1, <1>2 DEF ClaimJob, envVars, flightVars, callerVars
<1>3. ASSUME NEW key \in Requests, NEW c \in Callers, Refresh(c, key)
      PROVE  TypeOK'
  BY <1>1, <1>3 DEF Refresh, ClaimJob, envVars, flightVars
<1>4. ASSUME NEW key \in Requests, NEW c \in Callers, RefreshCoalesced(c, key)
      PROVE  TypeOK'
  BY <1>1, <1>4 DEF RefreshCoalesced, Coverers, envVars, jobVars, registry, taskVars, flightVars
<1> QED
  BY <1>2, <1>3, <1>4 DEF Request, StartRefresh

(* Steps of a job's task keep the types.                                   *)
LEMMA JobStepType == ASSUME NEW j \in Jobs PROVE TypeOK /\ JobStep(j) => TypeOK'
<1> SUFFICES ASSUME TypeOK, JobStep(j) PROVE TypeOK'
  OBVIOUS
<1> USE DEF TypeOK, envVars, jobVars, registry, taskVars, flightVars, callerVars
<1>1. CASE SeedSnapshot(j)
  BY <1>1 DEF SeedSnapshot
<1>2. ASSUME NEW f \in Flights, SeedFromFlight(j, f) PROVE TypeOK'
  BY <1>2 DEF SeedFromFlight
<1>3. CASE SpawnJob(j)
  BY <1>3 DEF SpawnJob
<1>4. CASE RunJob(j)
  BY <1>4 DEF RunJob
<1>5. CASE ExecuteRefresh(j)
  BY <1>5 DEF ExecuteRefresh
<1>6. ASSUME NEW p \in Providers, JoinFlight(j, p) PROVE TypeOK'
  <2>1. <<j, p>> \in Flights
    BY DEF Flights
  <2>2. CASE flightOf[p] # NoJob
    <3>1. flightOf[p] \in Jobs \union {NoJob}
      OBVIOUS
    <3>2. [joined EXCEPT ![j][p] = flightOf[p]] \in [Jobs -> [Providers -> Jobs \union {NoJob}]]
      BY <3>1, NestedExcept
    <3> QED
      BY <1>6, <2>2, <3>2 DEF JoinFlight
  <2>3. CASE flightOf[p] = NoJob
    <3>1. [joined EXCEPT ![j][p] = j] \in [Jobs -> [Providers -> Jobs \union {NoJob}]]
      BY NestedExcept
    <3>2. [flightOf EXCEPT ![p] = j] \in [Providers -> Jobs \union {NoJob}]
      OBVIOUS
    <3>3. stage' \in [Flights -> {"none", "discovering", "collecting", "published", "removed"}]
      BY <1>6, <2>1, <2>3 DEF JoinFlight
    <3> QED
      BY <1>6, <2>3, <3>1, <3>2, <3>3 DEF JoinFlight
  <2> QED
    BY <2>2, <2>3
<1>7. CASE CompleteJob(j)
  <2>1. \A p \in snapshot[j] : <<joined[j][p], p>> \in Flights
    BY <1>7, ConstantsAssumption DEF CompleteJob, Flights
  <2>2. \A p \in snapshot[j] : result[<<joined[j][p], p>>] \subseteq Accounts
    BY <2>1
  <2>3. UNION {result[<<joined[j][p], p>>] : p \in snapshot[j]} \subseteq Accounts
    <3> SUFFICES ASSUME NEW a \in UNION {result[<<joined[j][p], p>>] : p \in snapshot[j]}
                 PROVE  a \in Accounts
      OBVIOUS
    <3>1. PICK p \in snapshot[j] : a \in result[<<joined[j][p], p>>]
      OBVIOUS
    <3> QED
      BY <2>2, <3>1
  <2> QED
    BY <1>7, <2>3 DEF CompleteJob
<1>8. CASE CompleteOffline(j)
  BY <1>8 DEF CompleteOffline
<1>9. CASE FailJob(j)
  BY <1>9 DEF FailJob
<1>10. CASE RetainJob(j)
  <2>1. Newest(Append(completed, j)) \in Seq(Jobs)
    <3>1. Append(completed, j) \in Seq(Jobs)
      OBVIOUS
    <3> QED
      BY <3>1, NewestType
  <2>2. active' \in [Keys -> Jobs \union {NoJob}]
    BY <1>10 DEF RetainJob
  <2> QED
    BY <1>10, <2>1, <2>2 DEF RetainJob
<1> QED
  BY <1>1, <1>2, <1>3, <1>4, <1>5, <1>6, <1>7, <1>8, <1>9, <1>10 DEF JobStep

(* Steps of a flight's task keep the types.                                *)
LEMMA FlightStepType == ASSUME NEW f \in Flights PROVE TypeOK /\ FlightStep(f) => TypeOK'
<1> SUFFICES ASSUME TypeOK, FlightStep(f) PROVE TypeOK'
  OBVIOUS
<1> USE DEF TypeOK, envVars, jobVars, registry, taskVars, flightVars, callerVars
<1>1. ASSUME NEW accounts \in SUBSET AccountsOf(f[2]), DiscoverAccounts(f, accounts) PROVE TypeOK'
  <2>1. [a \in Accounts |-> IF a \in accounts THEN "waiting" ELSE "none"] \in
          [Accounts -> {"none", "waiting", "stored", "telling", "collected", "failed"}]
    OBVIOUS
  <2>2. account' \in [Flights -> [Accounts ->
          {"none", "waiting", "stored", "telling", "collected", "failed"}]]
    BY <1>1, <2>1 DEF DiscoverAccounts
  <2> QED
    BY <1>1, <2>2 DEF DiscoverAccounts
<1>2. ASSUME NEW a \in Accounts, StoreAccount(f, a) PROVE TypeOK'
  <2> DEFINE Stages == {"none", "waiting", "stored", "telling", "collected", "failed"}
  <2>1. [account EXCEPT ![f][a] = "stored"] \in [Flights -> [Accounts -> Stages]]
    BY NestedExcept
  <2>2. [account EXCEPT ![f][a] = "failed"] \in [Flights -> [Accounts -> Stages]]
    BY NestedExcept
  <2>3. [found EXCEPT ![f] = found[f] \union {a}] \in [Flights -> SUBSET Accounts]
    OBVIOUS
  <2> QED
    BY <1>2, <2>1, <2>2, <2>3 DEF StoreAccount
<1>3. ASSUME NEW a \in Accounts, ListActiveJobs(f, a) PROVE TypeOK'
  BY <1>3 DEF ListActiveJobs
<1>4. ASSUME NEW a \in Accounts, CollectAccount(f, a) PROVE TypeOK'
  BY <1>4 DEF CollectAccount
<1>5. ASSUME NEW a \in Accounts, NEW j \in Jobs, AppendDiscovery(f, a, j) PROVE TypeOK'
  BY <1>5 DEF AppendDiscovery
<1>6. CASE PublishFlight(f)
  BY <1>6 DEF PublishFlight
<1>7. CASE FailFlight(f)
  BY <1>7 DEF FailFlight
<1>8. CASE RemoveFlight(f)
  BY <1>8, FlightParts DEF RemoveFlight
<1> QED
  BY <1>1, <1>2, <1>3, <1>4, <1>5, <1>6, <1>7, <1>8 DEF FlightStep

(* Every step keeps the types.                                             *)
LEMMA NextType == TypeOK /\ [Next]_vars => TypeOK'
<1> SUFFICES ASSUME TypeOK, [Next]_vars PROVE TypeOK'
  OBVIOUS
<1>1. ASSUME NEW c \in Callers, AnswerCaller(c) PROVE TypeOK'
  BY <1>1 DEF AnswerCaller, TypeOK, Keys, envVars, jobVars, registry, taskVars, flightVars
<1>2. CASE Environment
  BY <1>2, ConstantsAssumption
  DEF Environment, SetConnectivity, SetProviders, TypeOK, jobVars, registry, taskVars, flightVars, callerVars
<1>3. CASE UNCHANGED vars
  BY <1>3 DEF TypeOK, vars, envVars, jobVars, registry, taskVars, flightVars, callerVars
<1> QED
  BY <1>1, <1>2, <1>3, RequestType, JobStepType, FlightStepType DEF Next

(* The registry, the flight map and every task keep their types through    *)
(* every request, refresh, panic and reconfiguration.                      *)
THEOREM TypeCorrect == Spec => []TypeOK
<1>1. Init => TypeOK
  BY InitType
<1>2. TypeOK /\ [Next]_vars => TypeOK'
  BY NextType
<1> QED
  BY <1>1, <1>2, PTL DEF Spec
-----------------------------------------------------------------------------
(* The flights of a provider, and what they have found.                    *)

flightState == <<flightOf, stage, found, result, account, joined>>

(* The steps that touch a flight are a job joining it and its own.         *)
LEMMA FlightCases ==
  ASSUME [Next]_vars
  PROVE  \/ UNCHANGED flightState
         \/ \E j \in Jobs, p \in Providers : JoinFlight(j, p)
         \/ \E f \in Flights : FlightStep(f)
<1> USE DEF flightState, envVars, jobVars, registry, taskVars, flightVars, callerVars
<1>1. ASSUME Request PROVE UNCHANGED flightState
  BY <1>1 DEF Request, StartRefresh, Refresh, RefreshCoalesced, ClaimJob
<1>2. ASSUME NEW j \in Jobs, JobStep(j)
      PROVE  UNCHANGED flightState \/ \E p \in Providers : JoinFlight(j, p)
  BY <1>2 DEF JobStep, SeedSnapshot, SeedFromFlight, SpawnJob, RunJob, ExecuteRefresh,
       CompleteJob, CompleteOffline, FailJob, RetainJob
<1>3. ASSUME NEW c \in Callers, AnswerCaller(c) PROVE UNCHANGED flightState
  BY <1>3 DEF AnswerCaller
<1>4. ASSUME Environment PROVE UNCHANGED flightState
  BY <1>4 DEF Environment, SetConnectivity, SetProviders
<1>5. ASSUME UNCHANGED vars PROVE UNCHANGED flightState
  BY <1>5 DEF vars
<1> QED
  BY <1>1, <1>2, <1>3, <1>4, <1>5 DEF Next

(* No step leads to two flights of a provider in the map, or to a future   *)
(* that runs outside its flight.                                           *)
LEMMA FlightStepInv ==
  TypeOK /\ FlightInMap /\ FlightShape /\ [Next]_vars => FlightInMap' /\ FlightShape'
<1> SUFFICES ASSUME TypeOK, FlightInMap, FlightShape, [Next]_vars
             PROVE  FlightInMap' /\ FlightShape'
  OBVIOUS
<1> USE DEF TypeOK, FlightInMap, FlightShape
<1>1. CASE UNCHANGED flightState
  BY <1>1 DEF flightState
<1>2. ASSUME NEW j \in Jobs, NEW p \in Providers, JoinFlight(j, p)
      PROVE  FlightInMap' /\ FlightShape'
  <2> DEFINE g == <<j, p>>
  <2>1. g \in Flights /\ g[1] = j /\ g[2] = p
    BY DEF Flights
  <2>2. stage[g] = "none"
    BY <1>2, <2>1, ConstantsAssumption DEF JoinFlight
  <2>3. UNCHANGED <<found, result, account>>
    BY <1>2 DEF JoinFlight
  <2>4. CASE flightOf[p] # NoJob
    <3>1. UNCHANGED <<flightOf, stage>> /\ joined' = [joined EXCEPT ![j][p] = flightOf[p]]
      BY <1>2, <2>4 DEF JoinFlight
    <3>2. flightOf[p] # j
      BY <2>1, <2>2
    <3>3. \A f \in Flights : joined'[f[1]][f[2]] # f[1] => stage[f] = "none"
      <4> SUFFICES ASSUME NEW f \in Flights, joined'[f[1]][f[2]] # f[1], f # g
                   PROVE  stage[f] = "none"
        BY <2>2
      <4>1. f[1] \in Jobs /\ f[2] \in Providers /\ (f[1] # j \/ f[2] # p)
        BY FlightParts
      <4>2. joined'[f[1]][f[2]] = joined[f[1]][f[2]]
        BY <3>1, <4>1
      <4> QED
        BY <4>2
    <3> QED
      BY <2>3, <3>1, <3>3
  <2>5. CASE flightOf[p] = NoJob
    <3>1. /\ flightOf' = [flightOf EXCEPT ![p] = j]
          /\ stage' = [stage EXCEPT ![g] = "discovering"]
          /\ joined' = [joined EXCEPT ![j][p] = j]
      BY <1>2, <2>5 DEF JoinFlight
    <3>2. ASSUME NEW f \in Flights, f # g
          PROVE  /\ stage'[f] = stage[f]
                 /\ joined'[f[1]][f[2]] = joined[f[1]][f[2]]
                 /\ f[2] = p => stage[f] \notin {"discovering", "collecting", "published"}
                 /\ f[2] # p => flightOf'[f[2]] = flightOf[f[2]]
                 /\ f[2] = p => flightOf'[f[2]] # f[1]
      <4>1. f[1] \in Jobs /\ f[2] \in Providers /\ (f[1] # j \/ f[2] # p)
        BY <3>2, FlightParts
      <4>2. f[2] = p => flightOf[f[2]] # f[1]
        BY <2>5, <4>1, ConstantsAssumption
      <4>3. joined'[f[1]][f[2]] = joined[f[1]][f[2]]
        BY <3>1, <4>1
      <4>4. flightOf'[f[2]] = IF f[2] = p THEN j ELSE flightOf[f[2]]
        BY <3>1, <4>1
      <4> QED
        BY <3>1, <3>2, <4>1, <4>2, <4>3, <4>4
    <3>3. stage'[g] = "discovering" /\ joined'[j][p] = j /\ flightOf'[p] = j
      BY <2>1, <3>1
    <3>4. FlightInMap'
      <4> SUFFICES ASSUME NEW f \in Flights, stage'[f] \in {"discovering", "collecting", "published"}
                   PROVE  flightOf'[f[2]] = f[1]
        OBVIOUS
      <4>1. CASE f = g
        BY <2>1, <3>3, <4>1
      <4>2. CASE f # g
        BY <3>2, <4>2
      <4> QED
        BY <4>1, <4>2
    <3>5. FlightShape'
      <4> SUFFICES ASSUME NEW f \in Flights, NEW a \in Accounts
                   PROVE  /\ joined'[f[1]][f[2]] # f[1] => stage'[f] = "none"
                          /\ flightOf'[f[2]] = f[1] => stage'[f] # "none"
                          /\ account[f][a] # "none" => stage'[f] \in {"collecting", "published", "removed"}
                          /\ account[f][a] \in {"waiting", "stored", "telling"} => stage'[f] = "collecting"
                          /\ account[f][a] \in {"stored", "telling", "collected"} => a \in found[f]
                          /\ a \in result[f] => account[f][a] = "collected" /\ stage'[f] \in {"published", "removed"}
        <5>1. ASSUME NEW f \in Flights
              PROVE  /\ joined'[f[1]][f[2]] # f[1] => stage'[f] = "none"
                     /\ flightOf'[f[2]] = f[1] => stage'[f] # "none"
          <6>1. CASE f = g
            BY <2>1, <3>3, <6>1
          <6>2. CASE f # g
            BY <3>2, <6>2
          <6> QED
            BY <6>1, <6>2
        <5> QED
          BY <2>3, <5>1
      <4>1. CASE f = g
        BY <2>1, <2>2, <3>3, <4>1
      <4>2. CASE f # g
        BY <3>2, <4>2
      <4> QED
        BY <4>1, <4>2
    <3> QED
      BY <3>4, <3>5
  <2> QED
    BY <2>4, <2>5
<1>3. ASSUME NEW f \in Flights, FlightStep(f)
      PROVE  FlightInMap' /\ FlightShape'
  <2> USE DEF envVars, jobVars, registry, taskVars, flightVars, callerVars
  <2>1. ASSUME NEW accounts \in SUBSET AccountsOf(f[2]), DiscoverAccounts(f, accounts)
        PROVE  FlightInMap' /\ FlightShape'
    BY <2>1 DEF DiscoverAccounts
  <2>2. ASSUME NEW a \in Accounts, StoreAccount(f, a)
        PROVE  FlightInMap' /\ FlightShape'
    <3>1. CASE account' = [account EXCEPT ![f][a] = "stored"] /\ found' = [found EXCEPT ![f] = @ \union {a}]
      BY <2>2, <3>1 DEF StoreAccount
    <3>2. CASE account' = [account EXCEPT ![f][a] = "failed"] /\ UNCHANGED found
      BY <2>2, <3>2 DEF StoreAccount
    <3> QED
      BY <2>2, <3>1, <3>2 DEF StoreAccount
  <2>3. ASSUME NEW a \in Accounts, ListActiveJobs(f, a)
        PROVE  FlightInMap' /\ FlightShape'
    BY <2>3 DEF ListActiveJobs
  <2>4. ASSUME NEW a \in Accounts, CollectAccount(f, a)
        PROVE  FlightInMap' /\ FlightShape'
    BY <2>4 DEF CollectAccount
  <2>5. ASSUME NEW a \in Accounts, NEW j \in Jobs, AppendDiscovery(f, a, j)
        PROVE  FlightInMap' /\ FlightShape'
    BY <2>5 DEF AppendDiscovery
  <2>6. CASE PublishFlight(f)
    <3>1. /\ stage' = [stage EXCEPT ![f] = "published"]
          /\ result' = [result EXCEPT ![f] = {a \in Accounts : account[f][a] = "collected"}]
          /\ UNCHANGED <<flightOf, found, account, joined>>
      BY <2>6 DEF PublishFlight
    <3>2. stage[f] = "collecting" /\ \A a \in Accounts : account[f][a] \notin {"waiting", "stored", "telling"}
      BY <2>6 DEF PublishFlight
    <3>3. FlightInMap'
      BY <3>1, <3>2
    <3>4. FlightShape'
      BY <3>1, <3>2
    <3> QED
      BY <3>3, <3>4
  <2>7. CASE FailFlight(f)
    BY <2>7 DEF FailFlight, Flying
  <2>8. CASE RemoveFlight(f)
    <3>1. /\ stage' = [stage EXCEPT ![f] = "removed"]
          /\ flightOf' = [flightOf EXCEPT ![f[2]] = NoJob]
          /\ UNCHANGED <<found, result, account, joined>>
      BY <2>8 DEF RemoveFlight
    <3>2. ASSUME NEW g \in Flights, g # f, g[2] = f[2]
          PROVE  stage[g] \notin {"discovering", "collecting", "published"} /\ flightOf[g[2]] # g[1]
      <4>1. g[1] # f[1]
        <5>1. g = <<g[1], g[2]>> /\ f = <<f[1], f[2]>>
          BY FlightParts
        <5> QED
          BY <3>2, <5>1
      <4>2. flightOf[f[2]] = f[1]
        BY <2>8 DEF RemoveFlight
      <4> QED
        BY <3>2, <4>1, <4>2
    <3>3. ASSUME NEW g \in Flights, g # f
          PROVE  stage'[g] = stage[g] /\ (flightOf'[g[2]] = g[1] <=> flightOf[g[2]] = g[1])
      BY <3>1, <3>2, <3>3, FlightParts, ConstantsAssumption
    <3>4. stage'[f] = "removed" /\ stage[f] = "published"
      BY <2>8, <3>1 DEF RemoveFlight
    <3>5. FlightInMap'
      <4> SUFFICES ASSUME NEW g \in Flights, stage'[g] \in {"discovering", "collecting", "published"}
                   PROVE  flightOf'[g[2]] = g[1]
        OBVIOUS
      <4> QED
        BY <3>3, <3>4
    <3>6. FlightShape'
      <4> SUFFICES ASSUME NEW g \in Flights, NEW a \in Accounts
                   PROVE  /\ joined[g[1]][g[2]] # g[1] => stage'[g] = "none"
                          /\ flightOf'[g[2]] = g[1] => stage'[g] # "none"
                          /\ account[g][a] # "none" => stage'[g] \in {"collecting", "published", "removed"}
                          /\ account[g][a] \in {"waiting", "stored", "telling"} => stage'[g] = "collecting"
                          /\ account[g][a] \in {"stored", "telling", "collected"} => a \in found[g]
                          /\ a \in result[g] => account[g][a] = "collected" /\ stage'[g] \in {"published", "removed"}
        <5>1. ASSUME NEW g \in Flights
              PROVE  /\ joined[g[1]][g[2]] # g[1] => stage'[g] = "none"
                     /\ flightOf'[g[2]] = g[1] => stage'[g] # "none"
          BY <3>3, <3>4
        <5> QED
          BY <3>1, <5>1
      <4>1. CASE g = f
        BY <3>1, <3>4, <4>1
      <4>2. CASE g # f
        BY <3>3, <4>2
      <4> QED
        BY <4>1, <4>2
    <3> QED
      BY <3>5, <3>6
  <2> QED
    BY <1>3, <2>1, <2>2, <2>3, <2>4, <2>5, <2>6, <2>7, <2>8 DEF FlightStep
<1> QED
  BY <1>1, <1>2, <1>3, FlightCases
-----------------------------------------------------------------------------
(* The registry and the tasks.                                             *)

jobState == <<status, scope, active, task, seedFrom, snapshot, joined>>

(* The steps that touch the registry or a task are a claim and the job's.  *)
LEMMA JobCases ==
  ASSUME [Next]_vars
  PROVE  \/ UNCHANGED jobState
         \/ \E key \in Requests, j \in Jobs : ClaimJob(key, j)
         \/ \E j \in Jobs : JobStep(j)
<1> USE DEF jobState, envVars, jobVars, registry, taskVars, flightVars, callerVars
<1>1. ASSUME Request
      PROVE  UNCHANGED jobState \/ \E key \in Requests, j \in Jobs : ClaimJob(key, j)
  BY <1>1 DEF Request, StartRefresh, Refresh, RefreshCoalesced
<1>2. ASSUME NEW f \in Flights, FlightStep(f) PROVE UNCHANGED jobState
  BY <1>2 DEF FlightStep, DiscoverAccounts, StoreAccount, ListActiveJobs, AppendDiscovery,
       CollectAccount, PublishFlight, FailFlight, RemoveFlight
<1>3. ASSUME NEW c \in Callers, AnswerCaller(c) PROVE UNCHANGED jobState
  BY <1>3 DEF AnswerCaller
<1>4. ASSUME Environment PROVE UNCHANGED jobState
  BY <1>4 DEF Environment, SetConnectivity, SetProviders
<1>5. ASSUME UNCHANGED vars PROVE UNCHANGED jobState
  BY <1>5 DEF vars
<1> QED
  BY <1>1, <1>2, <1>3, <1>4, <1>5 DEF Next

(* A scope with no covering job has no job of its own.                     *)
LEMMA NoCoverer ==
  ASSUME NEW key \in Keys, Coverers(key) = {}
  PROVE  active[key] = NoJob
BY DEF Coverers, Covers

(* Every step keeps each live job, and no other, in the active map.        *)
LEMMA JobInMapStep == TypeOK /\ JobInMap /\ [Next]_vars => JobInMap'
<1> SUFFICES ASSUME TypeOK, JobInMap, [Next]_vars PROVE JobInMap'
  OBVIOUS
<1> USE DEF TypeOK, JobInMap, Live
<1>1. CASE UNCHANGED jobState
  BY <1>1 DEF jobState
<1>2. ASSUME NEW key \in Requests, NEW j \in Jobs, ClaimJob(key, j) PROVE JobInMap'
  <2>1. key \in Keys
    BY ConstantsAssumption DEF Keys
  <2>2. active[key] = NoJob
    BY <1>2, <2>1, NoCoverer DEF ClaimJob
  <2>3. \A i \in Jobs : Live(i) => scope[i] # key
    BY <2>2, ConstantsAssumption
  <2>4. status[j] = "none" /\ task[j] = "none"
    BY <1>2 DEF ClaimJob
  <2>5. \A k \in Keys : active[k] # j
    BY <2>4, ConstantsAssumption
  <2> QED
    BY <1>2, <2>1, <2>2, <2>3, <2>4, <2>5, ConstantsAssumption DEF ClaimJob
<1>3. ASSUME NEW j \in Jobs, JobStep(j) PROVE JobInMap'
  <2> USE DEF envVars, jobVars, registry, taskVars, flightVars, callerVars
  <2>1. CASE SeedSnapshot(j)
    BY <2>1 DEF SeedSnapshot
  <2>2. ASSUME NEW f \in Flights, SeedFromFlight(j, f) PROVE JobInMap'
    BY <2>2 DEF SeedFromFlight
  <2>3. CASE SpawnJob(j)
    BY <2>3 DEF SpawnJob
  <2>4. CASE RunJob(j)
    BY <2>4 DEF RunJob
  <2>5. CASE ExecuteRefresh(j)
    BY <2>5 DEF ExecuteRefresh
  <2>6. ASSUME NEW p \in Providers, JoinFlight(j, p) PROVE JobInMap'
    BY <2>6 DEF JoinFlight
  <2>7. CASE CompleteJob(j)
    BY <2>7 DEF CompleteJob
  <2>8. CASE CompleteOffline(j)
    BY <2>8 DEF CompleteOffline
  <2>9. CASE FailJob(j)
    BY <2>9 DEF FailJob
  <2>10. CASE RetainJob(j)
    <3>1. active[scope[j]] = j
      BY <2>10 DEF RetainJob
    <3>2. /\ active' = [active EXCEPT ![scope[j]] = NoJob]
          /\ task' = [task EXCEPT ![j] = "retained"]
          /\ UNCHANGED <<status, scope>>
      BY <2>10, <3>1 DEF RetainJob
    <3>3. task[j] = "finished"
      BY <2>10 DEF RetainJob
    <3>4. \A i \in Jobs : Live(i) /\ i # j => scope[i] # scope[j]
      BY <3>1
    <3>5. \A k \in Keys : k # scope[j] => active[k] # j
      BY ConstantsAssumption
    <3> QED
      BY <3>1, <3>2, <3>3, <3>4, <3>5
  <2> QED
    BY <1>3, <2>1, <2>2, <2>3, <2>4, <2>5, <2>6, <2>7, <2>8, <2>9, <2>10 DEF JobStep
<1> QED
  BY <1>1, <1>2, <1>3, JobCases

(* Every step keeps a job to the flights of its scope.                     *)
LEMMA JobShapeStep == TypeOK /\ JobInMap /\ JobShape /\ [Next]_vars => JobShape'
<1> SUFFICES ASSUME TypeOK, JobInMap, JobShape, [Next]_vars PROVE JobShape'
  OBVIOUS
<1> USE DEF TypeOK, JobShape
<1>1. CASE UNCHANGED jobState
  BY <1>1 DEF jobState, Includes
<1>2. ASSUME NEW key \in Requests, NEW j \in Jobs, ClaimJob(key, j) PROVE JobShape'
  <2>1. task[j] = "none"
    BY <1>2 DEF ClaimJob, JobInMap
  <2>2. snapshot[j] = {} /\ seedFrom[j] = {}
    BY <2>1
  <2>3. \A i \in Jobs : i # j => scope'[i] = scope[i] /\ task'[i] = task[i]
    BY <1>2 DEF ClaimJob
  <2>4. task'[j] = "claimed" /\ UNCHANGED <<snapshot, seedFrom, joined>>
    BY <1>2 DEF ClaimJob
  <2> QED
    BY <2>1, <2>2, <2>3, <2>4 DEF Includes
<1>3. ASSUME NEW j \in Jobs, JobStep(j) PROVE JobShape'
  <2> USE DEF envVars, jobVars, registry, taskVars, flightVars, callerVars, Includes
  <2>1. CASE SeedSnapshot(j)
    BY <2>1 DEF SeedSnapshot
  <2>2. ASSUME NEW f \in Flights, SeedFromFlight(j, f) PROVE JobShape'
    BY <2>2 DEF SeedFromFlight
  <2>3. CASE SpawnJob(j)
    BY <2>3 DEF SpawnJob
  <2>4. CASE RunJob(j)
    BY <2>4 DEF RunJob
  <2>5. CASE ExecuteRefresh(j)
    BY <2>5 DEF ExecuteRefresh
  <2>6. ASSUME NEW p \in Providers, JoinFlight(j, p) PROVE JobShape'
    <3>1. p \in snapshot[j] /\ UNCHANGED <<task, seedFrom, scope, snapshot>>
      BY <2>6 DEF JoinFlight
    <3>2. \A i \in Jobs, q \in Providers : ~(i = j /\ q = p) => joined'[i][q] = joined[i][q]
      BY <2>6 DEF JoinFlight
    <3>3. ASSUME NEW i \in Jobs, NEW q \in Providers, joined'[i][q] # NoJob
          PROVE  q \in snapshot[i]
      <4>1. CASE i = j /\ q = p
        BY <3>1, <4>1
      <4>2. CASE ~(i = j /\ q = p)
        BY <3>2, <3>3, <4>2
      <4> QED
        BY <4>1, <4>2
    <3> QED
      BY <3>1, <3>3
  <2>7. CASE CompleteJob(j)
    BY <2>7 DEF CompleteJob
  <2>8. CASE CompleteOffline(j)
    BY <2>8 DEF CompleteOffline
  <2>9. CASE FailJob(j)
    BY <2>9 DEF FailJob
  <2>10. CASE RetainJob(j)
    BY <2>10 DEF RetainJob
  <2> QED
    BY <1>3, <2>1, <2>2, <2>3, <2>4, <2>5, <2>6, <2>7, <2>8, <2>9, <2>10 DEF JobStep
<1> QED
  BY <1>1, <1>2, <1>3, JobCases
-----------------------------------------------------------------------------
(* How discoveries reach jobs.                                             *)

(* A job never forgets a discovery.                                        *)
LEMMA DiscoveredGrows ==
  ASSUME TypeOK, [Next]_vars, NEW j \in Jobs
  PROVE  discovered[j] \subseteq discovered'[j]
<1> USE DEF TypeOK, envVars, jobVars, registry, taskVars, flightVars, callerVars
<1>1. ASSUME Request PROVE discovered' = discovered
  BY <1>1 DEF Request, StartRefresh, Refresh, RefreshCoalesced, ClaimJob
<1>2. ASSUME NEW i \in Jobs, JobStep(i) PROVE discovered[j] \subseteq discovered'[j]
  <2>1. ASSUME NEW f \in Flights, SeedFromFlight(i, f) PROVE discovered[j] \subseteq discovered'[j]
    <3>1. discovered' = [discovered EXCEPT ![i] = @ \union found[f]]
      BY <2>1 DEF SeedFromFlight
    <3> QED
      BY <3>1
  <2>2. ASSUME ~\E f \in Flights : SeedFromFlight(i, f) PROVE discovered' = discovered
    BY <1>2, <2>2 DEF JobStep, SeedSnapshot, SpawnJob, RunJob, ExecuteRefresh,
       JoinFlight, CompleteJob, CompleteOffline, FailJob, RetainJob
  <2> QED
    BY <2>1, <2>2
<1>3. ASSUME NEW f \in Flights, FlightStep(f) PROVE discovered[j] \subseteq discovered'[j]
  <2>1. ASSUME NEW a \in Accounts, NEW i \in Jobs, AppendDiscovery(f, a, i)
        PROVE  discovered[j] \subseteq discovered'[j]
    <3>1. discovered' = [discovered EXCEPT ![i] = @ \union {a}]
      BY <2>1 DEF AppendDiscovery
    <3> QED
      BY <3>1
  <2>2. ASSUME ~\E a \in Accounts, i \in Jobs : AppendDiscovery(f, a, i)
        PROVE  discovered' = discovered
    BY <1>3, <2>2 DEF FlightStep, DiscoverAccounts, StoreAccount, ListActiveJobs,
       CollectAccount, PublishFlight, FailFlight, RemoveFlight
  <2> QED
    BY <2>1, <2>2
<1>4. ASSUME NEW c \in Callers, AnswerCaller(c) PROVE discovered' = discovered
  BY <1>4 DEF AnswerCaller
<1>5. ASSUME Environment PROVE discovered' = discovered
  BY <1>5 DEF Environment, SetConnectivity, SetProviders
<1>6. ASSUME UNCHANGED vars PROVE discovered' = discovered
  BY <1>6 DEF vars
<1> QED
  BY <1>1, <1>2, <1>3, <1>4, <1>5, <1>6 DEF Next

(* Only a flight's own step changes its account futures.                   *)
LEMMA AccountCases ==
  ASSUME [Next]_vars
  PROVE  UNCHANGED <<account, notify>> \/ \E f \in Flights : FlightStep(f)
<1> USE DEF envVars, jobVars, registry, taskVars, flightVars, callerVars
<1>1. ASSUME Request PROVE UNCHANGED <<account, notify>>
  BY <1>1 DEF Request, StartRefresh, Refresh, RefreshCoalesced, ClaimJob
<1>2. ASSUME NEW i \in Jobs, JobStep(i) PROVE UNCHANGED <<account, notify>>
  BY <1>2 DEF JobStep, SeedSnapshot, SeedFromFlight, SpawnJob, RunJob, ExecuteRefresh,
       JoinFlight, CompleteJob, CompleteOffline, FailJob, RetainJob
<1>3. ASSUME NEW c \in Callers, AnswerCaller(c) PROVE UNCHANGED <<account, notify>>
  BY <1>3 DEF AnswerCaller
<1>4. ASSUME Environment PROVE UNCHANGED <<account, notify>>
  BY <1>4 DEF Environment, SetConnectivity, SetProviders
<1>5. ASSUME UNCHANGED vars PROVE UNCHANGED <<account, notify>>
  BY <1>5 DEF vars
<1> QED
  BY <1>1, <1>2, <1>3, <1>4, <1>5 DEF Next

(* When a flight has newly told a live job of an account, the job lists it:*)
(* the flight took every live job of its provider from the active map.     *)
LEMMA NewlyTold ==
  ASSUME TypeOK, JobInMap, [Next]_vars,
         NEW j \in Jobs, NEW f \in Flights, NEW a \in Accounts,
         Live(j), Includes(scope[j], f[2]), Told(f, a, j)'
  PROVE  Told(f, a, j) \/ a \in discovered'[j]
<1> USE DEF TypeOK, Told
<1>1. CASE UNCHANGED <<account, notify>>
  BY <1>1
<1>2. ASSUME NEW g \in Flights, FlightStep(g) PROVE Told(f, a, j) \/ a \in discovered'[j]
  <2> USE DEF envVars, jobVars, registry, taskVars, flightVars, callerVars
  <2>1. ASSUME NEW accounts \in SUBSET AccountsOf(g[2]), DiscoverAccounts(g, accounts)
        PROVE  Told(f, a, j)
    BY <2>1 DEF DiscoverAccounts
  <2>2. ASSUME NEW b \in Accounts, StoreAccount(g, b) PROVE Told(f, a, j)
    <3>1. UNCHANGED notify
      BY <2>2 DEF StoreAccount
    <3>2. account'[f][a] \in {"collected", "telling"} => account'[f][a] = account[f][a]
      <4>1. PICK reached \in {"stored", "failed"} : account' = [account EXCEPT ![g][b] = reached]
        BY <2>2 DEF StoreAccount
      <4>2. account'[f][a] = IF f = g /\ a = b THEN reached ELSE account[f][a]
        BY <4>1
      <4> QED
        BY <4>2
    <3> QED
      BY <3>1, <3>2
  <2>3. ASSUME NEW b \in Accounts, ListActiveJobs(g, b) PROVE Told(f, a, j)
    <3>1. CASE g = f /\ b = a
      <4>1. scope[j] \in Keys /\ active[scope[j]] = j
        BY DEF JobInMap
      <4>2. notify'[f][a] = {active[k] : k \in {k \in Keys : Includes(k, f[2])}} \ {NoJob}
        BY <2>3, <3>1 DEF ListActiveJobs
      <4>3. j \in notify'[f][a]
        BY <4>1, <4>2, ConstantsAssumption
      <4>4. account'[f][a] = "telling"
        BY <2>3, <3>1 DEF ListActiveJobs
      <4> QED
        BY <4>3, <4>4
    <3>2. CASE ~(g = f /\ b = a)
      BY <2>3, <3>2 DEF ListActiveJobs
    <3> QED
      BY <3>1, <3>2
  <2>4. ASSUME NEW b \in Accounts, CollectAccount(g, b) PROVE Told(f, a, j)
    BY <2>4 DEF CollectAccount
  <2>5. ASSUME NEW b \in Accounts, NEW i \in Jobs, AppendDiscovery(g, b, i)
        PROVE  Told(f, a, j) \/ a \in discovered'[j]
    <3>1. UNCHANGED account
      BY <2>5 DEF AppendDiscovery
    <3>2. CASE g = f /\ b = a /\ i = j
      BY <2>5, <3>2 DEF AppendDiscovery
    <3>3. CASE ~(g = f /\ b = a /\ i = j)
      <4>1. j \in notify[f][a] => j \in notify'[f][a]
        BY <2>5, <3>3 DEF AppendDiscovery
      <4> QED
        BY <3>1, <4>1
    <3> QED
      BY <3>2, <3>3
  <2>6. CASE PublishFlight(g)
    BY <2>6 DEF PublishFlight
  <2>7. CASE FailFlight(g)
    BY <2>7 DEF FailFlight
  <2>8. CASE RemoveFlight(g)
    BY <2>8 DEF RemoveFlight
  <2> QED
    BY <1>2, <2>1, <2>2, <2>3, <2>4, <2>5, <2>6, <2>7, <2>8 DEF FlightStep
<1> QED
  BY <1>1, <1>2, AccountCases

(* A flight that is newly in the map has not told of anything.             *)
LEMMA NewlyMapped ==
  ASSUME TypeOK, FlightShape, [Next]_vars, NEW f \in Flights,
         flightOf[f[2]] # f[1], flightOf'[f[2]] = f[1]
  PROVE  \A a \in Accounts : account'[f][a] = "none"
<1> USE DEF TypeOK
<1>1. ASSUME NEW j \in Jobs, NEW p \in Providers, JoinFlight(j, p)
      PROVE  \A a \in Accounts : account'[f][a] = "none"
  <2>1. f[2] \in Providers /\ f[1] \in Jobs
    BY FlightParts
  <2>2. f[2] = p /\ f[1] = j
    BY <1>1, <2>1 DEF JoinFlight
  <2>3. joined[f[1]][f[2]] # f[1]
    BY <1>1, <2>2, ConstantsAssumption DEF JoinFlight
  <2>4. stage[f] = "none"
    BY <2>3 DEF FlightShape
  <2>5. \A a \in Accounts : account[f][a] = "none"
    BY <2>4 DEF FlightShape
  <2> QED
    BY <1>1, <2>5 DEF JoinFlight
<1>2. ASSUME NEW g \in Flights, FlightStep(g) PROVE flightOf'[f[2]] \in {flightOf[f[2]], NoJob}
  <2> USE DEF flightVars
  <2>1. CASE RemoveFlight(g)
    BY <2>1, FlightParts DEF RemoveFlight
  <2>2. CASE ~RemoveFlight(g)
    BY <1>2, <2>2 DEF FlightStep, DiscoverAccounts, StoreAccount, ListActiveJobs, AppendDiscovery,
       CollectAccount, PublishFlight, FailFlight
  <2> QED
    BY <2>1, <2>2
<1>3. CASE UNCHANGED flightState
  BY <1>3 DEF flightState
<1> QED
  BY <1>1, <1>2, <1>3, FlightCases, FlightParts, ConstantsAssumption

(* How the seed of a live job evolves.                                     *)
LEMMA SeedCases ==
  ASSUME TypeOK, JobInMap, [Next]_vars, NEW j \in Jobs, NEW f \in Flights
  PROVE  /\ Live(j) => scope'[j] = scope[j]
         /\ ~Live(j) /\ Live(j)' => task'[j] = "claimed"
         /\ Live(j) /\ task[j] = "claimed" /\ task'[j] # "claimed"
              /\ flightOf[f[2]] = f[1] /\ Includes(scope[j], f[2]) => f \in seedFrom'[j]
         /\ Live(j) /\ f \in seedFrom[j] /\ task[j] # "claimed" =>
              f \in seedFrom'[j] \/ found[f] \subseteq discovered'[j]
<1> USE DEF TypeOK, Live
<1>1. CASE UNCHANGED jobState
  BY <1>1 DEF jobState
<1>2. ASSUME NEW key \in Requests, NEW i \in Jobs, ClaimJob(key, i)
      PROVE  /\ Live(j) => scope'[j] = scope[j]
             /\ ~Live(j) => ~Live(j)' \/ task'[j] = "claimed"
             /\ task[j] = "claimed" => task'[j] = "claimed"
             /\ seedFrom' = seedFrom
  BY <1>2 DEF ClaimJob, JobInMap
<1>3. ASSUME NEW i \in Jobs, JobStep(i)
      PROVE  /\ scope' = scope
             /\ ~Live(j) => ~Live(j)'
             /\ task[j] = "claimed" /\ task'[j] # "claimed" /\ flightOf[f[2]] = f[1]
                  /\ Includes(scope[j], f[2]) => f \in seedFrom'[j]
             /\ f \in seedFrom[j] /\ task[j] # "claimed" =>
                  f \in seedFrom'[j] \/ found[f] \subseteq discovered'[j]
  <2> USE DEF envVars, jobVars, registry, taskVars, flightVars, callerVars
  <2>1. CASE SeedSnapshot(i)
    BY <2>1 DEF SeedSnapshot
  <2>2. ASSUME NEW g \in Flights, SeedFromFlight(i, g)
        PROVE  /\ UNCHANGED <<scope, task>>
               /\ f \in seedFrom[j] => f \in seedFrom'[j] \/ found[f] \subseteq discovered'[j]
    <3>1. /\ seedFrom' = [seedFrom EXCEPT ![i] = @ \ {g}]
          /\ discovered' = [discovered EXCEPT ![i] = @ \union found[g]]
          /\ UNCHANGED <<scope, task>>
      BY <2>2 DEF SeedFromFlight
    <3>2. CASE i = j /\ g = f
      BY <3>1, <3>2
    <3>3. CASE ~(i = j /\ g = f)
      BY <3>1, <3>3
    <3> QED
      BY <3>1, <3>2, <3>3
  <2>3. CASE SpawnJob(i)
    BY <2>3 DEF SpawnJob
  <2>4. CASE RunJob(i)
    BY <2>4 DEF RunJob
  <2>5. CASE ExecuteRefresh(i)
    BY <2>5 DEF ExecuteRefresh
  <2>6. ASSUME NEW p \in Providers, JoinFlight(i, p) PROVE UNCHANGED <<scope, task, seedFrom>>
    BY <2>6 DEF JoinFlight
  <2>7. CASE CompleteJob(i)
    BY <2>7 DEF CompleteJob
  <2>8. CASE CompleteOffline(i)
    BY <2>8 DEF CompleteOffline
  <2>9. CASE FailJob(i)
    BY <2>9 DEF FailJob
  <2>10. CASE RetainJob(i)
    BY <2>10 DEF RetainJob
  <2> QED
    BY <1>3, <2>1, <2>2, <2>3, <2>4, <2>5, <2>6, <2>7, <2>8, <2>9, <2>10 DEF JobStep
<1> QED
  BY <1>1, <1>2, <1>3, JobCases

(* No step makes a flight in the map tell of an account unheard by a job.  *)
LEMMA ToldWhileMappedStep ==
  TypeOK /\ FlightShape /\ JobInMap /\ ToldWhileMapped /\ [Next]_vars => ToldWhileMapped'
<1> SUFFICES ASSUME TypeOK, FlightShape, JobInMap, ToldWhileMapped, [Next]_vars,
                    NEW j \in Jobs, NEW f \in Flights, NEW a \in Accounts,
                    Live(j)', Includes(scope'[j], f[2]), flightOf'[f[2]] = f[1], Told(f, a, j)'
             PROVE  a \in discovered'[j] \/ task'[j] = "claimed" \/ f \in seedFrom'[j]
  BY DEF ToldWhileMapped, Includes
<1>1. CASE ~Live(j)
  BY <1>1, SeedCases
<1>2. CASE Live(j)
  <2>1. scope'[j] = scope[j]
    BY <1>2, SeedCases
  <2>2. Told(f, a, j) \/ a \in discovered'[j]
    BY <1>2, <2>1, NewlyTold
  <2>3. ASSUME Told(f, a, j)
        PROVE  a \in discovered'[j] \/ task'[j] = "claimed" \/ f \in seedFrom'[j]
    <3>1. flightOf[f[2]] = f[1]
      <4>1. ASSUME flightOf[f[2]] # f[1] PROVE FALSE
        <5>1. account'[f][a] = "none"
          BY <4>1, NewlyMapped
        <5> QED
          BY <5>1 DEF Told
      <4> QED
        BY <4>1
    <3>2. a \in discovered[j] \/ task[j] = "claimed" \/ f \in seedFrom[j]
      BY <1>2, <2>1, <2>3, <3>1 DEF ToldWhileMapped
    <3>3. a \in found[f]
      BY <2>3 DEF Told, FlightShape
    <3>4. CASE a \in discovered[j]
      BY <3>4, DiscoveredGrows
    <3>5. CASE task[j] = "claimed"
      BY <1>2, <2>1, <3>1, <3>5, SeedCases
    <3>6. CASE f \in seedFrom[j] /\ task[j] # "claimed"
      BY <1>2, <3>3, <3>6, SeedCases
    <3> QED
      BY <3>2, <3>4, <3>5, <3>6
  <2> QED
    BY <2>2, <2>3
<1> QED
  BY <1>1, <1>2

(* A job comes to wait for a flight by joining the one in the map.         *)
LEMMA JoinCases ==
  ASSUME TypeOK, JobShape, [Next]_vars, NEW j \in Jobs, NEW p \in Providers,
         task'[j] = "joining", joined'[j][p] # NoJob
  PROVE  /\ task[j] = "joining" \/ joined[j][p] # NoJob
         /\ task[j] \in {"running", "joining"}
         /\ joined[j][p] # NoJob => joined'[j][p] = joined[j][p] /\ task[j] = "joining"
         /\ joined[j][p] = NoJob => JoinFlight(j, p)
<1> USE DEF TypeOK, JobShape
<1>1. CASE UNCHANGED jobState
  BY <1>1 DEF jobState
<1>2. ASSUME NEW key \in Requests, NEW i \in Jobs, ClaimJob(key, i) PROVE UNCHANGED joined /\ task[j] = task'[j]
  BY <1>2 DEF ClaimJob
<1>3. ASSUME NEW i \in Jobs, JobStep(i)
      PROVE  \/ UNCHANGED joined /\ task[j] = "joining"
             \/ UNCHANGED joined /\ task[j] = "running" /\ snapshot[j] = {}
             \/ task[j] = "joining" /\ \E q \in Providers : JoinFlight(i, q)
  <2> USE DEF envVars, jobVars, registry, taskVars, flightVars, callerVars
  <2>1. ASSUME NEW q \in Providers, JoinFlight(i, q) PROVE task[j] = "joining"
    BY <2>1 DEF JoinFlight
  <2>2. CASE ExecuteRefresh(i)
    BY <2>2 DEF ExecuteRefresh
  <2>3. CASE SeedSnapshot(i) \/ SpawnJob(i) \/ RunJob(i) \/ CompleteJob(i) \/ CompleteOffline(i)
             \/ FailJob(i) \/ RetainJob(i)
    BY <2>3 DEF SeedSnapshot, SpawnJob, RunJob, CompleteJob, CompleteOffline, FailJob, RetainJob
  <2>4. ASSUME NEW g \in Flights, SeedFromFlight(i, g) PROVE UNCHANGED <<joined, task>>
    BY <2>4 DEF SeedFromFlight
  <2> QED
    BY <1>3, <2>1, <2>2, <2>3, <2>4 DEF JobStep
<1>4. ASSUME NEW i \in Jobs, NEW q \in Providers, JoinFlight(i, q), ~(i = j /\ q = p)
      PROVE  joined'[j][p] = joined[j][p]
  BY <1>4 DEF JoinFlight
<1>5. ASSUME JoinFlight(j, p) PROVE joined[j][p] = NoJob
  BY <1>5 DEF JoinFlight
<1> QED
  BY <1>1, <1>2, <1>3, <1>4, <1>5, JobCases

(* No step makes a job wait for a flight whose discoveries it missed.      *)
LEMMA ToldWhileJoinedStep ==
  /\ TypeOK /\ FlightShape /\ JobInMap /\ JobShape
  /\ ToldWhileMapped /\ ToldWhileJoined /\ [Next]_vars
  => ToldWhileJoined'
<1> SUFFICES ASSUME TypeOK, FlightShape, JobInMap, JobShape, ToldWhileMapped, ToldWhileJoined, [Next]_vars,
                    NEW j \in Jobs, NEW p \in Providers, NEW a \in Accounts,
                    task'[j] = "joining", joined'[j][p] # NoJob
             PROVE  Told(<<joined[j][p], p>>, a, j)' => a \in discovered'[j]
  BY DEF ToldWhileJoined
<1>0. PICK f \in Flights : f = <<joined'[j][p], p>>
  <2>1. TypeOK'
    BY NextType
  <2>2. joined'[j][p] \in Jobs
    BY <2>1 DEF TypeOK
  <2> QED
    BY <2>2 DEF Flights
<1>1. task[j] = "joining" /\ Live(j)
  BY JoinCases DEF Live
<1>2. p \in snapshot[j] /\ Includes(scope[j], p)
  <2>1. CASE joined[j][p] # NoJob
    BY <2>1 DEF JobShape
  <2>2. CASE joined[j][p] = NoJob
    BY <2>2, JoinCases DEF JoinFlight, JobShape
  <2> QED
    BY <2>1, <2>2
<1>3. f[2] = p /\ f[1] = joined'[j][p]
  BY <1>0
<1>4. Told(f, a, j)' => Told(f, a, j) \/ a \in discovered'[j]
  <2>1. Includes(scope[j], f[2])
    BY <1>2, <1>3
  <2> QED
    BY <1>1, <2>1, NewlyTold
<1>5. ASSUME Told(f, a, j) PROVE a \in discovered'[j]
  <2>1. CASE joined[j][p] # NoJob
    <3>1. f = <<joined[j][p], p>>
      BY <1>0, <2>1, JoinCases
    <3>2. a \in discovered[j]
      BY <1>1, <1>5, <2>1, <3>1 DEF ToldWhileJoined
    <3> QED
      BY <3>2, DiscoveredGrows
  <2>2. CASE joined[j][p] = NoJob
    <3>1. JoinFlight(j, p)
      BY <2>2, JoinCases
    <3>2. CASE flightOf[p] # NoJob
      <4>1. flightOf[p] = joined'[j][p]
        BY <3>1, <3>2 DEF JoinFlight, TypeOK
      <4>2. a \in discovered[j] \/ f \in seedFrom[j]
        <5>1. flightOf[f[2]] = f[1] /\ Includes(scope[j], f[2]) /\ task[j] # "claimed"
          BY <1>1, <1>2, <1>3, <4>1
        <5> QED
          BY <1>1, <1>5, <5>1 DEF ToldWhileMapped
      <4>3. seedFrom[j] = {}
        BY <1>1 DEF JobShape
      <4> QED
        BY <4>2, <4>3, DiscoveredGrows
    <3>3. CASE flightOf[p] = NoJob
      <4>1. joined'[j][p] = j
        BY <3>1, <3>3 DEF JoinFlight, TypeOK
      <4>2. stage[f] = "none"
        <5>1. joined[f[1]][f[2]] # f[1]
          BY <1>3, <2>2, <4>1, ConstantsAssumption
        <5> QED
          BY <5>1 DEF FlightShape
      <4>3. account[f][a] = "none"
        BY <1>3, <4>2 DEF FlightShape
      <4> QED
        BY <1>5, <4>3 DEF Told
    <3> QED
      BY <3>2, <3>3
  <2> QED
    BY <2>1, <2>2
<1>6. Told(<<joined[j][p], p>>, a, j)' => Told(f, a, j)'
  BY <1>0 DEF Told
<1> QED
  BY <1>4, <1>5, <1>6

(* Only its completion gives a job results.                                *)
LEMMA ResultsCases ==
  ASSUME [Next]_vars
  PROVE  UNCHANGED results \/ \E j \in Jobs : CompleteJob(j)
<1> USE DEF envVars, jobVars, registry, taskVars, flightVars, callerVars
<1>1. ASSUME Request PROVE UNCHANGED results
  BY <1>1 DEF Request, StartRefresh, Refresh, RefreshCoalesced, ClaimJob
<1>2. ASSUME NEW j \in Jobs, JobStep(j) PROVE UNCHANGED results \/ CompleteJob(j)
  BY <1>2 DEF JobStep, SeedSnapshot, SeedFromFlight, SpawnJob, RunJob, ExecuteRefresh,
       JoinFlight, CompleteOffline, FailJob, RetainJob
<1>3. ASSUME NEW f \in Flights, FlightStep(f) PROVE UNCHANGED results
  BY <1>3 DEF FlightStep, DiscoverAccounts, StoreAccount, ListActiveJobs, AppendDiscovery,
       CollectAccount, PublishFlight, FailFlight, RemoveFlight
<1>4. ASSUME NEW c \in Callers, AnswerCaller(c) PROVE UNCHANGED results
  BY <1>4 DEF AnswerCaller
<1>5. ASSUME Environment PROVE UNCHANGED results
  BY <1>5 DEF Environment, SetConnectivity, SetProviders
<1>6. ASSUME UNCHANGED vars PROVE UNCHANGED results
  BY <1>6 DEF vars
<1> QED
  BY <1>1, <1>2, <1>3, <1>4, <1>5, <1>6 DEF Next

(* A job that completes has listed the accounts its results name.          *)
LEMMA ResultsListedStep ==
  /\ TypeOK /\ FlightShape /\ ToldWhileJoined /\ ResultsListed /\ [Next]_vars
  => ResultsListed'
<1> SUFFICES ASSUME TypeOK, FlightShape, ToldWhileJoined, ResultsListed, [Next]_vars,
                    NEW j \in Jobs
             PROVE  results'[j] \subseteq discovered'[j]
  BY DEF ResultsListed
<1>1. discovered[j] \subseteq discovered'[j]
  BY DiscoveredGrows
<1>2. CASE CompleteJob(j)
  <2>1. results'[j] = UNION {result[<<joined[j][p], p>>] : p \in snapshot[j]}
    BY <1>2 DEF CompleteJob, TypeOK
  <2>2. ASSUME NEW a \in results'[j] PROVE a \in discovered[j]
    <3>1. PICK p \in snapshot[j] : a \in result[<<joined[j][p], p>>]
      BY <2>1
    <3>2. p \in Providers /\ joined[j][p] \in Jobs /\ joined[j][p] # NoJob /\ task[j] = "joining"
      <4>1. joined[j][p] # NoJob /\ task[j] = "joining"
        BY <1>2 DEF CompleteJob
      <4>2. p \in Providers
        BY DEF TypeOK
      <4>3. joined[j][p] \in Jobs \union {NoJob}
        BY <4>2 DEF TypeOK
      <4> QED
        BY <4>1, <4>2, <4>3
    <3>3. <<joined[j][p], p>> \in Flights
      BY <3>2 DEF Flights
    <3>4. a \in Accounts
      BY <3>1, <3>3 DEF TypeOK
    <3>5. account[<<joined[j][p], p>>][a] = "collected"
      BY <3>1, <3>3, <3>4 DEF FlightShape
    <3> QED
      BY <3>2, <3>4, <3>5 DEF ToldWhileJoined, Told
  <2> QED
    BY <1>1, <2>2
<1>3. CASE results'[j] = results[j]
  BY <1>1, <1>3 DEF ResultsListed
<1>4. ASSUME NEW i \in Jobs, CompleteJob(i), i # j PROVE results'[j] = results[j]
  BY <1>4 DEF CompleteJob, TypeOK
<1> QED
  BY <1>2, <1>3, <1>4, ResultsCases
-----------------------------------------------------------------------------
(* Initially there is no job, no flight and nothing told.                  *)
LEMMA InitDiscovery == Init => DiscoveryInv
<1> SUFFICES ASSUME Init PROVE DiscoveryInv
  OBVIOUS
<1>1. TypeOK
  BY InitType
<1>2. FlightInMap /\ FlightShape
  BY FlightParts, ConstantsAssumption DEF Init, FlightInMap, FlightShape
<1>3. JobInMap /\ JobShape
  BY ConstantsAssumption DEF Init, JobInMap, JobShape, Live
<1>4. ToldWhileMapped /\ ToldWhileJoined
  BY DEF Init, ToldWhileMapped, ToldWhileJoined, Live
<1>5. ResultsListed
  BY DEF Init, ResultsListed
<1> QED
  BY <1>1, <1>2, <1>3, <1>4, <1>5 DEF DiscoveryInv

(* The invariant of the registry, the flights and what has been told: it   *)
(* is inductive.                                                           *)
THEOREM DiscoveryInvariant == Spec => []DiscoveryInv
<1>1. Init => DiscoveryInv
  BY InitDiscovery
<1>2. DiscoveryInv /\ [Next]_vars => DiscoveryInv'
  BY NextType, FlightStepInv, JobInMapStep, JobShapeStep, ToldWhileMappedStep,
     ToldWhileJoinedStep, ResultsListedStep
  DEF DiscoveryInv
<1> QED
  BY <1>1, <1>2, PTL DEF Spec

(* However requests overlap, a provider is called by one flight at a time. *)
THEOREM OneFlight == Spec => []OneFlightPerProvider
<1>1. DiscoveryInv => OneFlightPerProvider
  <2> SUFFICES ASSUME DiscoveryInv, NEW f \in Flights, NEW g \in Flights,
                      Flying(f), Flying(g), f[2] = g[2]
               PROVE  f = g
    BY DEF OneFlightPerProvider
  <2>1. f[1] = g[1]
    BY DEF DiscoveryInv, FlightInMap, Flying
  <2>2. f = <<f[1], f[2]>> /\ g = <<g[1], g[2]>>
    BY FlightParts
  <2> QED
    BY <2>1, <2>2
<1> QED
  BY <1>1, DiscoveryInvariant, PTL

(* A completed job lists every account it reports, although flights and    *)
(* jobs are registered under different locks.                              *)
THEOREM DiscoveriesAreComplete == Spec => []DiscoveriesComplete
<1>1. DiscoveryInv => DiscoveriesComplete
  BY DEF DiscoveryInv, ResultsListed, DiscoveriesComplete
<1> QED
  BY <1>1, DiscoveryInvariant, PTL

(* A job that waits for a flight lists an account before it is collected.  *)
THEOREM DiscoveredFirst == Spec => []DiscoveredBeforeCollected
<1>1. DiscoveryInv => DiscoveredBeforeCollected
  BY DEF DiscoveryInv, ToldWhileJoined, DiscoveredBeforeCollected, Told
<1> QED
  BY <1>1, DiscoveryInvariant, PTL
-----------------------------------------------------------------------------
(* Where a job is, and what its callers were promised.                     *)

(* The status a poller reads follows the job's task, and results come with *)
(* completion.                                                             *)
StatusFollowsTask ==
  \A j \in Jobs :
    /\ status[j] = "none" <=> task[j] = "none"
    /\ status[j] = "queued" <=> task[j] \in {"claimed", "seeding", "spawned"}
    /\ status[j] = "running" <=> task[j] \in {"running", "joining", "offline"}
    /\ status[j] # "completed" => results[j] = {}

(* A flight whose result is published stays so for those who wait for it.  *)
Landed(f) == stage[f] \in {"published", "removed"}

(* Only a job that was online joins flights, and it ends when every one of *)
(* its scope has landed.                                                   *)
JoinsLand ==
  \A j \in Jobs, p \in Providers :
    joined[j][p] # NoJob =>
      /\ task[j] \in {"joining", "finished", "retained"}
      /\ task[j] \in {"finished", "retained"} =>
           \A q \in snapshot[j] : joined[j][q] # NoJob /\ Landed(<<joined[j][q], q>>)

(* A caller waits for a job that was claimed for all it asked for.         *)
WaitsAreCovered ==
  \A c \in Callers :
    waiting[c] # NoJob => Covers(scope[waiting[c]], asked[c]) /\ status[waiting[c]] # "none"

(* A flight tells jobs that exist.                                         *)
ToldJobsExist ==
  \A f \in Flights, a \in Accounts : \A j \in notify[f][a] : status[j] # "none"

(* The completed queue holds each retained job once.                       *)
QueueIsOfRetained ==
  /\ \A i \in 1 .. Len(completed) : task[completed[i]] = "retained"
  /\ \A i, k \in 1 .. Len(completed) : completed[i] = completed[k] => i = k

InMap == {active[k] : k \in Keys} \ {NoJob}
InQueue(queue) == {queue[i] : i \in 1 .. Len(queue)}

RegistryInv ==
  /\ DiscoveryInv
  /\ StatusFollowsTask
  /\ JoinsLand
  /\ WaitsAreCovered
  /\ ToldJobsExist
  /\ QueueIsOfRetained
  /\ byId = InMap \union InQueue(completed)
  /\ Len(completed) <= RETAINED_REFRESH_JOBS

(* What one step may make of a job: it is claimed, moves within its status,*)
(* begins to run, or ends; nothing else touches where it is.               *)
LEMMA StatusSteps ==
  ASSUME TypeOK, JobInMap, StatusFollowsTask, [Next]_vars, NEW j \in Jobs
  PROVE  \/ UNCHANGED <<status[j], task[j]>>
         \/ /\ status[j] = "none" /\ status'[j] = "queued" /\ task'[j] = "claimed"
         \/ /\ status[j] = "queued" /\ status'[j] = "queued"
            /\ task'[j] \in {"seeding", "spawned"}
         \/ /\ status[j] = "queued" /\ status'[j] = "running" /\ task'[j] = "running"
         \/ /\ ExecuteRefresh(j) /\ status[j] = "running" /\ status'[j] = "running"
            /\ task'[j] \in {"joining", "offline"}
         \/ /\ CompleteJob(j) \/ CompleteOffline(j) \/ FailJob(j)
            /\ status[j] = "running" /\ status'[j] \in {"completed", "failed"} /\ task'[j] = "finished"
         \/ /\ task[j] = "finished" /\ status'[j] = status[j] /\ task'[j] = "retained"
<1> USE DEF TypeOK, StatusFollowsTask, envVars, jobVars, registry, taskVars, flightVars, callerVars
<1>1. CASE UNCHANGED jobState
  BY <1>1 DEF jobState
<1>2. ASSUME NEW key \in Requests, NEW i \in Jobs, ClaimJob(key, i)
      PROVE  \/ UNCHANGED <<status[j], task[j]>>
             \/ status[j] = "none" /\ status'[j] = "queued" /\ task'[j] = "claimed"
  BY <1>2 DEF ClaimJob
<1>3. ASSUME NEW i \in Jobs, JobStep(i), i # j PROVE UNCHANGED <<status[j], task[j]>>
  BY <1>3 DEF JobStep, SeedSnapshot, SeedFromFlight, SpawnJob, RunJob, ExecuteRefresh, JoinFlight,
     CompleteJob, CompleteOffline, FailJob, RetainJob
<1>4. CASE SeedSnapshot(j) \/ SpawnJob(j)
  BY <1>4 DEF SeedSnapshot, SpawnJob
<1>5. ASSUME NEW f \in Flights, SeedFromFlight(j, f) PROVE UNCHANGED <<status[j], task[j]>>
  BY <1>5 DEF SeedFromFlight
<1>6. ASSUME NEW p \in Providers, JoinFlight(j, p) PROVE UNCHANGED <<status[j], task[j]>>
  BY <1>6 DEF JoinFlight
<1>7. CASE RunJob(j)
  BY <1>7 DEF RunJob
<1>8. CASE ExecuteRefresh(j)
  BY <1>8 DEF ExecuteRefresh
<1>9. CASE CompleteJob(j)
  BY <1>9 DEF CompleteJob
<1>10. CASE CompleteOffline(j)
  BY <1>10 DEF CompleteOffline
<1>11. CASE FailJob(j)
  BY <1>11 DEF FailJob
<1>12. CASE RetainJob(j)
  BY <1>12 DEF RetainJob
<1> QED
  BY <1>1, <1>2, <1>3, <1>4, <1>5, <1>6, <1>7, <1>8, <1>9, <1>10, <1>11, <1>12, JobCases, ZenonT(60) DEF JobStep

(* What a poller of a job sees is where the job's task is.                 *)
LEMMA StatusFollowsTaskStep ==
  ASSUME TypeOK, JobInMap, StatusFollowsTask, [Next]_vars
  PROVE  StatusFollowsTask'
<1> SUFFICES ASSUME NEW j \in Jobs
             PROVE  /\ status'[j] = "none" <=> task'[j] = "none"
                    /\ status'[j] = "queued" <=> task'[j] \in {"claimed", "seeding", "spawned"}
                    /\ status'[j] = "running" <=> task'[j] \in {"running", "joining", "offline"}
                    /\ status'[j] # "completed" => results'[j] = {}
  BY DEF StatusFollowsTask
<1>1. /\ status'[j] = "none" <=> task'[j] = "none"
      /\ status'[j] = "queued" <=> task'[j] \in {"claimed", "seeding", "spawned"}
      /\ status'[j] = "running" <=> task'[j] \in {"running", "joining", "offline"}
  BY StatusSteps DEF TypeOK, StatusFollowsTask
<1>2. ASSUME status'[j] # "completed" PROVE results'[j] = {}
  <2>1. results'[j] = results[j]
    <3>1. CASE UNCHANGED results
      BY <3>1
    <3>2. ASSUME NEW i \in Jobs, CompleteJob(i) PROVE results'[j] = results[j]
      BY <1>2, <3>2 DEF CompleteJob, TypeOK
    <3> QED
      BY <3>1, <3>2, ResultsCases
  <2>2. status[j] # "completed"
    BY <1>2, StatusSteps DEF StatusFollowsTask
  <2> QED
    BY <2>1, <2>2 DEF StatusFollowsTask
<1> QED
  BY <1>1, <1>2

(* A flight that has landed stays landed.                                  *)
LEMMA LandedStays ==
  ASSUME TypeOK, FlightShape, [Next]_vars, NEW f \in Flights, Landed(f)
  PROVE  Landed(f)'
<1> USE DEF TypeOK, Landed, flightVars
<1>1. CASE UNCHANGED flightState
  BY <1>1 DEF flightState
<1>2. ASSUME NEW j \in Jobs, NEW p \in Providers, JoinFlight(j, p) PROVE Landed(f)'
  <2>1. <<j, p>> \in Flights /\ <<j, p>>[1] = j /\ <<j, p>>[2] = p
    BY DEF Flights
  <2>2. stage[<<j, p>>] = "none"
    BY <1>2, <2>1, ConstantsAssumption DEF JoinFlight, FlightShape
  <2> QED
    BY <1>2, <2>2 DEF JoinFlight
<1>3. ASSUME NEW g \in Flights, FlightStep(g) PROVE Landed(f)'
  BY <1>3 DEF FlightStep, DiscoverAccounts, StoreAccount, ListActiveJobs, AppendDiscovery,
     CollectAccount, PublishFlight, FailFlight, RemoveFlight, Flying
<1> QED
  BY <1>1, <1>2, <1>3, FlightCases

(* Which flights a job waits for changes when it joins one.                *)
LEMMA JoinedSteps ==
  ASSUME TypeOK, [Next]_vars, NEW j \in Jobs
  PROVE  UNCHANGED joined[j] \/ \E p \in Providers : JoinFlight(j, p)
<1> USE DEF TypeOK, taskVars
<1>1. CASE UNCHANGED jobState
  BY <1>1 DEF jobState
<1>2. ASSUME NEW key \in Requests, NEW i \in Jobs, ClaimJob(key, i) PROVE UNCHANGED joined
  BY <1>2 DEF ClaimJob
<1>3. ASSUME NEW i \in Jobs, JobStep(i), ~\E p \in Providers : JoinFlight(i, p) PROVE UNCHANGED joined
  BY <1>3 DEF JobStep, SeedSnapshot, SeedFromFlight, SpawnJob, RunJob, ExecuteRefresh,
     CompleteJob, CompleteOffline, FailJob, RetainJob
<1>4. ASSUME NEW i \in Jobs, NEW p \in Providers, JoinFlight(i, p), i # j PROVE UNCHANGED joined[j]
  BY <1>4 DEF JoinFlight
<1> QED
  BY <1>1, <1>2, <1>3, <1>4, JobCases

(* A job keeps the providers it found configured once it began to run.     *)
LEMMA SnapshotSteps ==
  ASSUME TypeOK, [Next]_vars, NEW j \in Jobs
  PROVE  UNCHANGED snapshot[j] \/ ExecuteRefresh(j)
<1> USE DEF TypeOK, jobVars
<1>1. CASE UNCHANGED jobState
  BY <1>1 DEF jobState
<1>2. ASSUME NEW key \in Requests, NEW i \in Jobs, ClaimJob(key, i) PROVE UNCHANGED snapshot
  BY <1>2 DEF ClaimJob
<1>3. ASSUME NEW i \in Jobs, JobStep(i), ~ExecuteRefresh(i) PROVE UNCHANGED snapshot
  BY <1>3 DEF JobStep, SeedSnapshot, SeedFromFlight, SpawnJob, RunJob, JoinFlight,
     CompleteJob, CompleteOffline, FailJob, RetainJob
<1>4. ASSUME NEW i \in Jobs, ExecuteRefresh(i), i # j PROVE UNCHANGED snapshot[j]
  BY <1>4 DEF ExecuteRefresh
<1> QED
  BY <1>1, <1>2, <1>3, <1>4, JobCases

(* Every step lets a job end only with all its flights landed.             *)
LEMMA JoinsLandStep ==
  ASSUME TypeOK, FlightShape, JobInMap, JobShape, StatusFollowsTask, JoinsLand, [Next]_vars
  PROVE  JoinsLand'
<1> SUFFICES ASSUME NEW j \in Jobs, NEW p \in Providers, joined'[j][p] # NoJob
             PROVE  /\ task'[j] \in {"joining", "finished", "retained"}
                    /\ task'[j] \in {"finished", "retained"} =>
                         \A q \in snapshot'[j] :
                           joined'[j][q] # NoJob /\ Landed(<<joined[j][q], q>>)'
  BY DEF JoinsLand
<1>1. CASE \E q \in Providers : JoinFlight(j, q)
  <2>1. task[j] = "joining" /\ task' = task
    BY <1>1 DEF JoinFlight, taskVars
  <2> QED
    BY <2>1
<1>2. CASE UNCHANGED joined[j]
  <2>1. task[j] \in {"joining", "finished", "retained"} /\ joined[j][p] # NoJob
    BY <1>2 DEF JoinsLand
  <2>2. task'[j] \in {"joining", "finished", "retained"}
    BY <2>1, StatusSteps DEF StatusFollowsTask, ExecuteRefresh
  <2>3. ASSUME task'[j] \in {"finished", "retained"}, NEW q \in snapshot'[j]
        PROVE  joined'[j][q] # NoJob /\ Landed(<<joined[j][q], q>>)'
    <3>1. snapshot'[j] = snapshot[j]
      BY <2>1, SnapshotSteps DEF ExecuteRefresh
    <3>2. q \in Providers /\ joined[j][q] \in Jobs \union {NoJob}
      BY <2>3, <3>1 DEF TypeOK
    <3>3. joined[j][q] # NoJob /\ Landed(<<joined[j][q], q>>)
      <4>1. CASE task[j] \in {"finished", "retained"}
        BY <2>1, <2>3, <3>1, <4>1 DEF JoinsLand
      <4>2. CASE task[j] = "joining"
        <5>1. CompleteJob(j)
          BY <2>3, <4>2, StatusSteps DEF StatusFollowsTask, CompleteOffline, FailJob
        <5> QED
          BY <2>3, <3>1, <5>1 DEF CompleteJob, Landed
      <4> QED
        BY <2>1, <4>1, <4>2
    <3>4. <<joined[j][q], q>> \in Flights
      BY <3>2, <3>3 DEF Flights
    <3>5. Landed(<<joined[j][q], q>>)'
      <4>1. PICK g \in Flights : g = <<joined[j][q], q>>
        BY <3>4
      <4>2. Landed(g)'
        BY <3>3, <4>1, LandedStays
      <4>3. joined'[j][q] = joined[j][q]
        BY <1>2
      <4> QED
        BY <4>1, <4>2, <4>3 DEF Landed
    <3> QED
      BY <1>2, <3>3, <3>5
  <2> QED
    BY <2>2, <2>3
<1> QED
  BY <1>1, <1>2, JoinedSteps

(* What a caller waits for, and what it asked for.                         *)
LEMMA WaitingSteps ==
  ASSUME TypeOK, JobInMap, StatusFollowsTask, [Next]_vars, NEW c \in Callers, waiting'[c] # NoJob
  PROVE  \/ UNCHANGED <<waiting[c], asked[c]>>
         \/ \E j \in Jobs : ClaimJob(asked'[c], j) /\ waiting'[c] = j
         \/ \E k \in Coverers(asked'[c]) : waiting'[c] = active[k] /\ UNCHANGED jobVars
<1> USE DEF TypeOK, callerVars
<1>1. ASSUME Request
      PROVE  \/ UNCHANGED <<waiting[c], asked[c]>>
             \/ \E j \in Jobs : ClaimJob(asked'[c], j) /\ waiting'[c] = j
             \/ \E k \in Coverers(asked'[c]) : waiting'[c] = active[k] /\ UNCHANGED jobVars
  <2>1. ASSUME NEW key \in Requests, StartRefresh(key) PROVE UNCHANGED <<waiting[c], asked[c]>>
    BY <2>1 DEF StartRefresh
  <2>2. ASSUME NEW key \in Requests, NEW d \in Callers, Refresh(d, key)
        PROVE  \/ UNCHANGED <<waiting[c], asked[c]>>
               \/ \E j \in Jobs : ClaimJob(asked'[c], j) /\ waiting'[c] = j
    <3>1. CASE d = c
      <4>1. asked'[c] = key
        BY <2>2, <3>1 DEF Refresh
      <4>2. PICK j \in Jobs : ClaimJob(key, j) /\ waiting' = [waiting EXCEPT ![c] = j]
        BY <2>2, <3>1 DEF Refresh
      <4> QED
        BY <4>1, <4>2
    <3>2. CASE d # c
      <4>1. PICK j \in Jobs : waiting' = [waiting EXCEPT ![d] = j]
        BY <2>2 DEF Refresh
      <4>2. asked' = [asked EXCEPT ![d] = key]
        BY <2>2 DEF Refresh
      <4> QED
        BY <3>2, <4>1, <4>2
    <3> QED
      BY <3>1, <3>2
  <2>3. ASSUME NEW key \in Requests, NEW d \in Callers, RefreshCoalesced(d, key)
        PROVE  \/ UNCHANGED <<waiting[c], asked[c]>>
               \/ \E k \in Coverers(asked'[c]) : waiting'[c] = active[k] /\ UNCHANGED jobVars
    <3>1. PICK k \in Coverers(key) : waiting' = [waiting EXCEPT ![d] = active[k]]
      BY <2>3 DEF RefreshCoalesced
    <3>2. asked' = [asked EXCEPT ![d] = key] /\ UNCHANGED jobVars
      BY <2>3 DEF RefreshCoalesced
    <3>3. CASE d = c
      BY <3>1, <3>2, <3>3
    <3>4. CASE d # c
      BY <3>1, <3>2, <3>4
    <3> QED
      BY <3>3, <3>4
  <2> QED
    BY <1>1, <2>1, <2>2, <2>3 DEF Request
<1>2. ASSUME NEW j \in Jobs, JobStep(j) PROVE UNCHANGED callerVars
  BY <1>2 DEF JobStep, SeedSnapshot, SeedFromFlight, SpawnJob, RunJob, ExecuteRefresh, JoinFlight,
     CompleteJob, CompleteOffline, FailJob, RetainJob
<1>3. ASSUME NEW f \in Flights, FlightStep(f) PROVE UNCHANGED callerVars
  BY <1>3 DEF FlightStep, DiscoverAccounts, StoreAccount, ListActiveJobs, AppendDiscovery,
     CollectAccount, PublishFlight, FailFlight, RemoveFlight
<1>4. ASSUME NEW d \in Callers, AnswerCaller(d) PROVE UNCHANGED <<waiting[c], asked[c]>>
  BY <1>4 DEF AnswerCaller
<1>5. ASSUME Environment PROVE UNCHANGED callerVars
  BY <1>5 DEF Environment, SetConnectivity, SetProviders
<1>6. ASSUME UNCHANGED vars PROVE UNCHANGED callerVars
  BY <1>6 DEF vars
<1> QED
  BY <1>1, <1>2, <1>3, <1>4, <1>5, <1>6 DEF Next

(* The scope of a job that exists is settled.                              *)
LEMMA ScopeStays ==
  ASSUME TypeOK, [Next]_vars, NEW j \in Jobs, status[j] # "none"
  PROVE  scope'[j] = scope[j]
<1> USE DEF TypeOK, jobVars
<1>1. CASE UNCHANGED jobState
  BY <1>1 DEF jobState
<1>2. ASSUME NEW key \in Requests, NEW i \in Jobs, ClaimJob(key, i) PROVE scope'[j] = scope[j]
  BY <1>2 DEF ClaimJob
<1>3. ASSUME NEW i \in Jobs, JobStep(i) PROVE scope' = scope
  BY <1>3 DEF JobStep, SeedSnapshot, SeedFromFlight, SpawnJob, RunJob, ExecuteRefresh, JoinFlight,
     CompleteJob, CompleteOffline, FailJob, RetainJob
<1> QED
  BY <1>1, <1>2, <1>3, JobCases

(* A job that exists stays a job.                                          *)
LEMMA StatusStays ==
  ASSUME TypeOK, JobInMap, StatusFollowsTask, [Next]_vars, NEW j \in Jobs, status[j] # "none"
  PROVE  status'[j] # "none"
<1> QED
  BY StatusSteps DEF StatusFollowsTask, TypeOK

(* No step gives a caller a job that does not cover what it asked for.     *)
LEMMA WaitsAreCoveredStep ==
  ASSUME TypeOK, JobInMap, StatusFollowsTask, WaitsAreCovered, [Next]_vars
  PROVE  WaitsAreCovered'
<1> SUFFICES ASSUME NEW c \in Callers, waiting'[c] # NoJob
             PROVE  Covers(scope'[waiting'[c]], asked'[c]) /\ status'[waiting'[c]] # "none"
  BY DEF WaitsAreCovered, Covers
<1>1. CASE UNCHANGED <<waiting[c], asked[c]>>
  <2>1. waiting[c] \in Jobs /\ waiting[c] # NoJob
    BY <1>1 DEF TypeOK
  <2>2. Covers(scope[waiting[c]], asked[c]) /\ status[waiting[c]] # "none"
    BY <2>1 DEF WaitsAreCovered
  <2> QED
    BY <1>1, <2>1, <2>2, ScopeStays, StatusStays
<1>2. ASSUME NEW j \in Jobs, ClaimJob(asked'[c], j), waiting'[c] = j
      PROVE  Covers(scope'[waiting'[c]], asked'[c]) /\ status'[waiting'[c]] # "none"
  <2>1. scope'[j] = asked'[c] /\ status'[j] = "queued"
    BY <1>2 DEF ClaimJob, TypeOK
  <2> QED
    BY <1>2, <2>1 DEF Covers
<1>3. ASSUME NEW k \in Coverers(asked'[c]), waiting'[c] = active[k], UNCHANGED jobVars
      PROVE  Covers(scope'[waiting'[c]], asked'[c]) /\ status'[waiting'[c]] # "none"
  <2>1. k \in Keys /\ active[k] # NoJob /\ Covers(k, asked'[c])
    BY DEF Coverers
  <2>2. Live(active[k]) /\ scope[active[k]] = k /\ active[k] \in Jobs
    BY <2>1 DEF JobInMap, TypeOK
  <2>3. status[active[k]] # "none"
    BY <2>2 DEF Live, StatusFollowsTask
  <2> QED
    BY <1>3, <2>1, <2>2, <2>3 DEF jobVars
<1> QED
  BY <1>1, <1>2, <1>3, WaitingSteps

(* A flight comes to tell no other jobs than those in the active map.      *)
LEMMA ToldJobsExistStep ==
  ASSUME TypeOK, JobInMap, StatusFollowsTask, ToldJobsExist, [Next]_vars
  PROVE  ToldJobsExist'
<1> SUFFICES ASSUME NEW f \in Flights, NEW a \in Accounts, NEW j \in notify'[f][a]
             PROVE  status'[j] # "none"
  BY DEF ToldJobsExist
<1>0. j \in Jobs
  <2>1. TypeOK'
    BY NextType
  <2> QED
    BY <2>1 DEF TypeOK
<1>1. ASSUME j \in notify[f][a] PROVE status'[j] # "none"
  BY <1>0, <1>1, StatusStays DEF ToldJobsExist
<1>2. CASE UNCHANGED <<account, notify>>
  BY <1>1, <1>2
<1>3. ASSUME NEW g \in Flights, FlightStep(g) PROVE status'[j] # "none"
  <2> USE DEF TypeOK, flightVars, jobVars
  <2>1. ASSUME NEW b \in Accounts, ListActiveJobs(g, b) PROVE status'[j] # "none"
    <3>1. CASE g = f /\ b = a
      <4>1. notify'[f][a] = {active[k] : k \in {k \in Keys : Includes(k, f[2])}} \ {NoJob}
        BY <2>1, <3>1 DEF ListActiveJobs
      <4>2. PICK k \in Keys : j = active[k] /\ j # NoJob
        BY <4>1
      <4>3. Live(j)
        BY <4>2 DEF JobInMap
      <4> QED
        BY <1>0, <4>3, <2>1 DEF Live, StatusFollowsTask, ListActiveJobs
    <3>2. CASE ~(g = f /\ b = a)
      BY <1>1, <2>1, <3>2 DEF ListActiveJobs
    <3> QED
      BY <3>1, <3>2
  <2>2. ASSUME NEW b \in Accounts, NEW i \in Jobs, AppendDiscovery(g, b, i) PROVE j \in notify[f][a]
    <3>1. notify' = [notify EXCEPT ![g][b] = @ \ {i}]
      BY <2>2 DEF AppendDiscovery
    <3>2. notify'[f][a] = IF g = f /\ b = a THEN notify[f][a] \ {i} ELSE notify[f][a]
      BY <3>1
    <3> QED
      BY <3>2
  <2>3. CASE FailFlight(g)
    BY <1>1, <2>3 DEF FailFlight
  <2>4. CASE UNCHANGED notify
    BY <1>1, <2>4
  <2> QED
    BY <1>1, <1>3, <2>1, <2>2, <2>3, <2>4 DEF FlightStep, DiscoverAccounts, StoreAccount,
       CollectAccount, PublishFlight, RemoveFlight
<1> QED
  BY <1>2, <1>3, AccountCases

(* Appending a job that is not in the queue, and evicting the oldest, drops*)
(* from the queue exactly what is evicted.                                 *)
LEMMA QueueAppended ==
  ASSUME TypeOK, QueueIsOfRetained, Len(completed) <= RETAINED_REFRESH_JOBS,
         NEW j \in Jobs, task[j] # "retained",
         NEW queue, queue = Append(completed, j)
  PROVE  /\ Newest(queue) \in Seq(Jobs)
         /\ Len(Newest(queue)) <= RETAINED_REFRESH_JOBS
         /\ InQueue(Newest(queue)) = InQueue(queue) \ Evicted(queue)
         /\ InQueue(queue) = InQueue(completed) \union {j}
         /\ j \notin Evicted(queue) /\ Evicted(queue) \subseteq InQueue(completed)
         /\ \A i, k \in 1 .. Len(Newest(queue)) : Newest(queue)[i] = Newest(queue)[k] => i = k
<1> DEFINE R == RETAINED_REFRESH_JOBS
           n == Len(completed)
<1>1. R \in Nat /\ R >= 1 /\ n \in Nat /\ n <= R
  BY ConstantsAssumption DEF TypeOK
<1>2. queue \in Seq(Jobs) /\ Len(queue) = n + 1 /\ queue[n + 1] = j
      /\ \A i \in 1 .. n : queue[i] = completed[i]
  BY DEF TypeOK
<1>3. \A i, k \in 1 .. (n + 1) : queue[i] = queue[k] => i = k
  <2> SUFFICES ASSUME NEW i \in 1 .. (n + 1), NEW k \in 1 .. (n + 1), queue[i] = queue[k]
               PROVE  i = k
    OBVIOUS
  <2>1. i \in 1 .. n \/ i = n + 1
    BY <1>1
  <2>2. k \in 1 .. n \/ k = n + 1
    BY <1>1
  <2>3. CASE i \in 1 .. n /\ k \in 1 .. n
    BY <1>2, <2>3 DEF QueueIsOfRetained
  <2>4. CASE i = n + 1 /\ k \in 1 .. n
    BY <1>2, <2>4 DEF QueueIsOfRetained
  <2>5. CASE k = n + 1 /\ i \in 1 .. n
    BY <1>2, <2>5 DEF QueueIsOfRetained
  <2> QED
    BY <2>1, <2>2, <2>3, <2>4, <2>5
<1>4. InQueue(queue) = InQueue(completed) \union {j}
  <2>1. ASSUME NEW x \in InQueue(queue) PROVE x \in InQueue(completed) \union {j}
    <3>1. PICK i \in 1 .. (n + 1) : x = queue[i]
      BY <1>2 DEF InQueue
    <3>2. i \in 1 .. n \/ i = n + 1
      BY <1>1
    <3> QED
      BY <1>2, <3>1, <3>2 DEF InQueue
  <2>2. ASSUME NEW x \in InQueue(completed) \union {j} PROVE x \in InQueue(queue)
    <3>1. CASE x = j
      <4>1. n + 1 \in 1 .. Len(queue)
        BY <1>1, <1>2
      <4> QED
        BY <1>2, <3>1, <4>1 DEF InQueue
    <3>2. CASE x \in InQueue(completed)
      <4>1. PICK i \in 1 .. n : x = completed[i]
        BY <3>2 DEF InQueue
      <4>2. i \in 1 .. Len(queue)
        BY <1>1, <1>2
      <4> QED
        BY <1>2, <4>1, <4>2 DEF InQueue
    <3> QED
      BY <3>1, <3>2
  <2> QED
    BY <2>1, <2>2
<1>5. CASE n + 1 <= R
  <2>1. Newest(queue) = queue
    BY <1>1, <1>2, <1>5 DEF Newest
  <2>2. Evicted(queue) = {}
    <3>1. 1 .. (Len(queue) - R) = {}
      BY <1>1, <1>2, <1>5
    <3> QED
      BY <3>1 DEF Evicted
  <2> QED
    BY <1>2, <1>3, <1>4, <1>5, <2>1, <2>2
<1>6. CASE n = R
  <2>1. Newest(queue) = SubSeq(queue, 2, n + 1)
    <3>1. Len(queue) - R + 1 = 2 /\ Len(queue) > R
      BY <1>1, <1>2, <1>6
    <3> QED
      BY <1>2, <3>1 DEF Newest
  <2>2. /\ SubSeq(queue, 2, n + 1) \in Seq(Jobs)
        /\ Len(SubSeq(queue, 2, n + 1)) = n
        /\ \A i \in 1 .. n : SubSeq(queue, 2, n + 1)[i] = queue[i + 1]
    BY <1>1, <1>2
  <2>3. Evicted(queue) = {queue[1]}
    <3>1. 1 .. (Len(queue) - R) = {1}
      BY <1>1, <1>2, <1>6
    <3> QED
      BY <3>1 DEF Evicted
  <2>4. InQueue(Newest(queue)) = InQueue(queue) \ {queue[1]}
    <3>1. ASSUME NEW x \in InQueue(Newest(queue)) PROVE x \in InQueue(queue) /\ x # queue[1]
      <4>1. PICK i \in 1 .. n : x = queue[i + 1]
        BY <2>1, <2>2 DEF InQueue
      <4>2. i + 1 \in 1 .. (n + 1) /\ 1 \in 1 .. (n + 1) /\ i + 1 # 1
        BY <1>1
      <4> QED
        BY <1>2, <1>3, <4>1, <4>2 DEF InQueue
    <3>2. ASSUME NEW x \in InQueue(queue), x # queue[1] PROVE x \in InQueue(Newest(queue))
      <4>1. PICK i \in 1 .. (n + 1) : x = queue[i]
        BY <1>2 DEF InQueue
      <4>2. PICK k \in 1 .. n : i = k + 1
        <5>1. i # 1
          BY <3>2, <4>1
        <5>2. i - 1 \in 1 .. n /\ i = (i - 1) + 1
          BY <1>1, <5>1
        <5> QED
          BY <5>2
      <4> QED
        BY <2>1, <2>2, <4>1, <4>2 DEF InQueue
    <3> QED
      BY <3>1, <3>2
  <2>5. ASSUME NEW i \in 1 .. n, NEW k \in 1 .. n, queue[i + 1] = queue[k + 1] PROVE i = k
    <3>1. i + 1 \in 1 .. (n + 1) /\ k + 1 \in 1 .. (n + 1)
      BY <1>1
    <3>2. i + 1 = k + 1
      BY <1>3, <2>5, <3>1
    <3> QED
      BY <1>1, <3>2
  <2>6. queue[1] = completed[1] /\ 1 \in 1 .. n
    BY <1>1, <1>2, <1>6
  <2>7. queue[1] # j /\ queue[1] \in InQueue(completed)
    BY <2>6 DEF QueueIsOfRetained, InQueue
  <2> QED
    BY <1>4, <1>1, <1>6, <2>1, <2>2, <2>3, <2>4, <2>5, <2>7
<1> QED
  BY <1>1, <1>5, <1>6

(* Only claims and retentions touch the registry.                          *)
LEMMA RegistrySteps ==
  ASSUME [Next]_vars
  PROVE  \/ UNCHANGED registry
         \/ \E key \in Requests, j \in Jobs : ClaimJob(key, j)
         \/ \E j \in Jobs : RetainJob(j)
<1>1. ASSUME Request PROVE UNCHANGED registry \/ \E key \in Requests, j \in Jobs : ClaimJob(key, j)
  BY <1>1 DEF Request, StartRefresh, Refresh, RefreshCoalesced
<1>2. ASSUME NEW j \in Jobs, JobStep(j) PROVE UNCHANGED registry \/ RetainJob(j)
  BY <1>2 DEF JobStep, SeedSnapshot, SeedFromFlight, SpawnJob, RunJob, ExecuteRefresh, JoinFlight,
     CompleteJob, CompleteOffline, FailJob
<1>3. ASSUME NEW f \in Flights, FlightStep(f) PROVE UNCHANGED registry
  BY <1>3 DEF FlightStep, DiscoverAccounts, StoreAccount, ListActiveJobs, AppendDiscovery,
     CollectAccount, PublishFlight, FailFlight, RemoveFlight
<1>4. ASSUME NEW c \in Callers, AnswerCaller(c) PROVE UNCHANGED registry
  BY <1>4 DEF AnswerCaller
<1>5. ASSUME Environment PROVE UNCHANGED registry
  BY <1>5 DEF Environment, SetConnectivity, SetProviders
<1>6. ASSUME UNCHANGED vars PROVE UNCHANGED registry
  BY <1>6 DEF vars, registry
<1> QED
  BY <1>1, <1>2, <1>3, <1>4, <1>5, <1>6 DEF Next

(* A retained job stays retained: its id is not handed out again.          *)
LEMMA RetainedStays ==
  ASSUME TypeOK, JobInMap, StatusFollowsTask, [Next]_vars, NEW j \in Jobs, task[j] = "retained"
  PROVE  task'[j] = "retained"
<1> QED
  BY StatusSteps DEF StatusFollowsTask, ExecuteRefresh, CompleteJob, CompleteOffline, FailJob

Registered ==
  /\ QueueIsOfRetained
  /\ byId = InMap \union InQueue(completed)
  /\ Len(completed) <= RETAINED_REFRESH_JOBS

(* by_id follows the active map and the queue through claims, retentions   *)
(* and evictions.                                                          *)
LEMMA RegisteredStep ==
  ASSUME TypeOK, JobInMap, StatusFollowsTask, Registered, [Next]_vars
  PROVE  Registered'
<1> USE DEF TypeOK
<1>1. CASE UNCHANGED registry
  <2>1. \A i \in 1 .. Len(completed) : completed[i] \in Jobs
    OBVIOUS
  <2>2. \A i \in 1 .. Len(completed) : task'[completed[i]] = "retained"
    BY <2>1, RetainedStays DEF Registered, QueueIsOfRetained
  <2>3. UNCHANGED <<active, byId, completed>>
    BY <1>1 DEF registry
  <2> QED
    BY <2>2, <2>3 DEF Registered, QueueIsOfRetained, InMap, InQueue
<1>2. ASSUME NEW key \in Requests, NEW j \in Jobs, ClaimJob(key, j) PROVE Registered'
  <2>1. \A i \in 1 .. Len(completed) : completed[i] \in Jobs
    OBVIOUS
  <2>2. \A i \in 1 .. Len(completed) : task'[completed[i]] = "retained"
    BY <2>1, RetainedStays DEF Registered, QueueIsOfRetained
  <2>3. key \in Keys
    BY ConstantsAssumption DEF Keys
  <2>4. active[key] = NoJob
    BY <1>2, <2>3, NoCoverer DEF ClaimJob
  <2>5. active' = [active EXCEPT ![key] = j] /\ byId' = byId \union {j} /\ completed' = completed
    BY <1>2 DEF ClaimJob
  <2>6. InMap' = InMap \union {j}
    <3>1. \A k \in Keys : active'[k] = IF k = key THEN j ELSE active[k]
      BY <2>5
    <3>2. j # NoJob
      BY ConstantsAssumption
    <3>3. ASSUME NEW x \in InMap' PROVE x \in InMap \union {j}
      BY <3>1, <3>3 DEF InMap
    <3>4. ASSUME NEW x \in InMap \union {j} PROVE x \in InMap'
      <4>1. CASE x = j
        BY <2>3, <3>1, <3>2, <4>1 DEF InMap
      <4>2. CASE x \in InMap
        <5>1. PICK k \in Keys : x = active[k] /\ x # NoJob
          BY <4>2 DEF InMap
        <5>2. k # key
          BY <2>4, <5>1
        <5> QED
          BY <3>1, <5>1, <5>2 DEF InMap
      <4> QED
        BY <3>4, <4>1, <4>2
    <3> QED
      BY <3>3, <3>4
  <2> QED
    BY <2>2, <2>5, <2>6 DEF Registered, QueueIsOfRetained, InQueue
<1>3. ASSUME NEW j \in Jobs, RetainJob(j) PROVE Registered'
  <2> DEFINE queue == Append(completed, j)
  <2>1. task[j] = "finished" /\ active[scope[j]] = j /\ scope[j] \in Keys
    BY <1>3 DEF RetainJob, JobInMap, Live
  <2>2. /\ active' = [active EXCEPT ![scope[j]] = NoJob]
        /\ completed' = Newest(queue)
        /\ byId' = byId \ Evicted(queue)
        /\ task' = [task EXCEPT ![j] = "retained"]
    BY <1>3, <2>1 DEF RetainJob
  <2>3. /\ Len(Newest(queue)) <= RETAINED_REFRESH_JOBS
        /\ InQueue(Newest(queue)) = InQueue(queue) \ Evicted(queue)
        /\ InQueue(queue) = InQueue(completed) \union {j}
        /\ j \notin Evicted(queue) /\ Evicted(queue) \subseteq InQueue(completed)
        /\ \A i, k \in 1 .. Len(Newest(queue)) : Newest(queue)[i] = Newest(queue)[k] => i = k
    BY <2>1, QueueAppended DEF Registered
  <2> HIDE DEF queue
  <2>4. InMap' = InMap \ {j}
    <3>1. \A k \in Keys : active[k] = j <=> k = scope[j]
      BY <2>1, ConstantsAssumption DEF JobInMap
    <3>2. \A k \in Keys : active'[k] = IF k = scope[j] THEN NoJob ELSE active[k]
      BY <2>2
    <3>3. ASSUME NEW x \in InMap' PROVE x \in InMap \ {j}
      <4>1. PICK k \in Keys : x = active'[k] /\ x # NoJob
        BY <3>3 DEF InMap
      <4> QED
        BY <3>1, <3>2, <4>1 DEF InMap
    <3>4. ASSUME NEW x \in InMap \ {j} PROVE x \in InMap'
      <4>1. PICK k \in Keys : x = active[k] /\ x # NoJob
        BY <3>4 DEF InMap
      <4> QED
        BY <3>1, <3>2, <4>1, ZenonT(60) DEF InMap
    <3> QED
      BY <3>3, <3>4
  <2>5. \A x \in InQueue(completed) : x \in Jobs /\ task[x] = "retained"
    BY DEF InQueue, Registered, QueueIsOfRetained
  <2>6. InMap \cap Evicted(queue) = {}
    <3>1. \A x \in InMap : task[x] # "retained"
      BY DEF InMap, JobInMap, Live
    <3> QED
      BY <2>3, <2>5, <3>1
  <2>7. j \in InMap
    BY <2>1, ConstantsAssumption DEF InMap
  <2>8. byId' = InMap' \union InQueue(completed)'
    <3>1. InQueue(completed)' = (InQueue(completed) \union {j}) \ Evicted(queue)
      <4>1. InQueue(completed)' = InQueue(completed')
        BY DEF InQueue
      <4> QED
        BY <2>2, <2>3, <4>1
    <3>2. byId' = (InMap \union InQueue(completed)) \ Evicted(queue)
      BY <2>2 DEF Registered
    <3> QED
      BY <2>3, <2>4, <2>6, <2>7, <3>1, <3>2
  <2>9. \A i \in 1 .. Len(completed') : task'[completed'[i]] = "retained"
    <3> SUFFICES ASSUME NEW i \in 1 .. Len(completed') PROVE task'[completed'[i]] = "retained"
      OBVIOUS
    <3>1. completed'[i] \in InQueue(completed) \union {j}
      <4>1. completed'[i] \in InQueue(completed')
        BY DEF InQueue
      <4> QED
        BY <2>2, <2>3, <4>1
    <3> QED
      BY <2>2, <2>5, <3>1
  <2> QED
    BY <2>2, <2>3, <2>8, <2>9 DEF Registered, QueueIsOfRetained
<1> QED
  BY <1>1, <1>2, <1>3, RegistrySteps

(* Initially there is no job to register, answer or tell.                  *)
LEMMA InitRegistry == Init => RegistryInv
<1> SUFFICES ASSUME Init PROVE RegistryInv
  OBVIOUS
<1>1. StatusFollowsTask /\ JoinsLand /\ WaitsAreCovered /\ ToldJobsExist
  BY DEF Init, StatusFollowsTask, JoinsLand, WaitsAreCovered, ToldJobsExist
<1>2. completed = <<>> /\ byId = {} /\ InMap = {}
  BY DEF Init, InMap
<1>3. Len(completed) = 0 /\ 1 .. Len(completed) = {}
  BY <1>2
<1>4. InQueue(completed) = {} /\ QueueIsOfRetained
  BY <1>3 DEF InQueue, QueueIsOfRetained
<1>5. Len(completed) <= RETAINED_REFRESH_JOBS
  BY <1>3, ConstantsAssumption
<1> QED
  BY <1>1, <1>2, <1>4, <1>5, InitDiscovery DEF RegistryInv

(* The invariant of the registry with its queue, its tasks and its callers.*)
THEOREM RegistryInvariant == Spec => []RegistryInv
<1>1. RegistryInv /\ [Next]_vars => RegistryInv'
  <2> SUFFICES ASSUME RegistryInv, [Next]_vars PROVE RegistryInv'
    OBVIOUS
  <2>1. DiscoveryInv'
    BY NextType, FlightStepInv, JobInMapStep, JobShapeStep, ToldWhileMappedStep,
       ToldWhileJoinedStep, ResultsListedStep
    DEF DiscoveryInv, RegistryInv
  <2>2. StatusFollowsTask' /\ JoinsLand' /\ WaitsAreCovered' /\ ToldJobsExist'
    BY StatusFollowsTaskStep, JoinsLandStep, WaitsAreCoveredStep, ToldJobsExistStep
    DEF DiscoveryInv, RegistryInv
  <2>3. Registered'
    BY RegisteredStep DEF DiscoveryInv, RegistryInv, Registered
  <2> QED
    BY <2>1, <2>2, <2>3 DEF RegistryInv, Registered
<1> QED
  BY <1>1, InitRegistry, PTL DEF Spec

(* by_id is the active jobs and the newest finished ones, so an unfinished *)
(* job can be polled and is never evicted, for any retention limit.        *)
THEOREM JobsCanBePolled == Spec => []QueryableJobs
<1>1. RegistryInv => QueryableJobs
  <2> SUFFICES ASSUME RegistryInv PROVE QueryableJobs
    OBVIOUS
  <2>1. ASSUME NEW j \in Jobs, status[j] \in {"queued", "running"} PROVE j \in byId
    <3>1. Live(j) /\ scope[j] \in Keys
      BY <2>1 DEF RegistryInv, StatusFollowsTask, Live, DiscoveryInv, TypeOK
    <3>2. active[scope[j]] = j /\ j # NoJob
      BY <3>1, ConstantsAssumption DEF RegistryInv, DiscoveryInv, JobInMap
    <3> QED
      BY <3>1, <3>2 DEF RegistryInv, InMap
  <2> QED
    BY <2>1 DEF RegistryInv, QueryableJobs, InMap, InQueue
<1> QED
  BY <1>1, RegistryInvariant, PTL

(* A caller is answered by a job that refreshed all it asked for, however  *)
(* requests of overlapping scopes are coalesced.                           *)
THEOREM AnswersCover == Spec => []AnswerCoversScope
<1>1. RegistryInv => AnswerCoversScope
  <2> SUFFICES ASSUME RegistryInv, NEW c \in Callers, NEW p \in Providers,
                      waiting[c] # NoJob, Includes(asked[c], p), NEW j, j = waiting[c]
               PROVE  /\ Includes(scope[j], p)
                      /\ status[j] = "completed" /\ p \in snapshot[j] /\ joined[j] # [q \in Providers |-> NoJob]
                           => joined[j][p] # NoJob /\ stage[<<joined[j][p], p>>] \in {"published", "removed"}
    BY DEF AnswerCoversScope
  <2>1. j \in Jobs
    BY DEF RegistryInv, DiscoveryInv, TypeOK
  <2>2. Includes(scope[j], p)
    BY DEF RegistryInv, WaitsAreCovered, Covers, Includes
  <2>3. ASSUME status[j] = "completed", p \in snapshot[j], joined[j] # [q \in Providers |-> NoJob]
        PROVE  joined[j][p] # NoJob /\ stage[<<joined[j][p], p>>] \in {"published", "removed"}
    <3>1. PICK q \in Providers : joined[j][q] # NoJob
      <4>1. joined[j] \in [Providers -> Jobs \union {NoJob}]
        BY <2>1 DEF RegistryInv, DiscoveryInv, TypeOK
      <4> QED
        BY <2>3, <4>1
    <3>2. task[j] \in {"finished", "retained"}
      BY <2>1, <2>3, <3>1 DEF RegistryInv, JoinsLand, StatusFollowsTask
    <3> QED
      BY <2>1, <2>3, <3>1, <3>2 DEF RegistryInv, JoinsLand, Landed
  <2> QED
    BY <2>2, <2>3
<1> QED
  BY <1>1, RegistryInvariant, PTL

(* A poller sees a job queued, running and ended once, and its results do  *)
(* not change after that.                                                  *)
THEOREM StatusIsFinal == Spec => StatusOnlyAdvances
<1> DEFINE Advances == \A j \in Jobs :
             /\ status[j] = "queued" => status'[j] \in {"queued", "running"}
             /\ Terminal(j) => status'[j] = status[j] /\ results'[j] = results[j]
<1>1. RegistryInv /\ [Next]_vars => [Advances]_vars
  <2> SUFFICES ASSUME RegistryInv, [Next]_vars, NEW j \in Jobs
               PROVE  /\ status[j] = "queued" => status'[j] \in {"queued", "running"}
                      /\ Terminal(j) => status'[j] = status[j] /\ results'[j] = results[j]
    OBVIOUS
  <2>1. /\ status[j] = "queued" => status'[j] \in {"queued", "running"}
        /\ Terminal(j) => status'[j] = status[j]
    BY StatusSteps DEF RegistryInv, DiscoveryInv, Terminal
  <2>2. ASSUME Terminal(j) PROVE results'[j] = results[j]
    <3>1. task[j] # "joining"
      BY <2>2 DEF RegistryInv, StatusFollowsTask, Terminal
    <3>2. ASSUME NEW i \in Jobs, CompleteJob(i) PROVE results'[j] = results[j]
      BY <3>1, <3>2 DEF CompleteJob, RegistryInv, DiscoveryInv, TypeOK
    <3> QED
      BY <3>2, ResultsCases
  <2> QED
    BY <2>1, <2>2
<1> QED
  BY <1>1, RegistryInvariant, PTL DEF Spec, StatusOnlyAdvances
-----------------------------------------------------------------------------
(* The coordinator implements RefreshService, step by step.                *)

CallersOf(p) == {j \in Jobs : Flying(<<j, p>>)}

(* A provider has no call or one in the air.                               *)
LEMMA CallsAreOne ==
  ASSUME TypeOK, FlightInMap, NEW p \in Providers
  PROVE  /\ \A j \in CallersOf(p) : CallersOf(p) = {j} /\ flightOf[p] = j
         /\ CallersOf(p) = {} => Cardinality(CallersOf(p)) = 0
         /\ \A j \in CallersOf(p) : Cardinality(CallersOf(p)) = 1
<1>1. ASSUME NEW j \in CallersOf(p) PROVE j \in Jobs /\ flightOf[p] = j
  <2>1. j \in Jobs /\ Flying(<<j, p>>)
    BY DEF CallersOf
  <2>2. <<j, p>> \in Flights /\ <<j, p>>[1] = j /\ <<j, p>>[2] = p
    BY <2>1 DEF Flights
  <2> QED
    BY <2>1, <2>2 DEF FlightInMap, Flying
<1>2. \A j \in CallersOf(p) : CallersOf(p) = {j}
  BY <1>1
<1> QED
  BY <1>1, <1>2, FS_EmptySet, FS_Singleton

(* How the calls in the air change: a job claims a flight of a provider    *)
(* without one, or a flight lands.                                         *)
LEMMA CallSteps ==
  ASSUME TypeOK, FlightInMap, FlightShape, [Next]_vars
  PROVE  \/ \A p \in Providers : CallersOf(p)' = CallersOf(p)
         \/ \E j \in Jobs, p \in Providers :
              /\ JoinFlight(j, p)
              /\ CallersOf(p) = {} /\ CallersOf(p)' = {j}
              /\ \A q \in Providers \ {p} : CallersOf(q)' = CallersOf(q)
         \/ \E f \in Flights :
              /\ PublishFlight(f) \/ FailFlight(f)
              /\ CallersOf(f[2]) = {f[1]} /\ CallersOf(f[2])' = {}
              /\ \A q \in Providers \ {f[2]} : CallersOf(q)' = CallersOf(q)
<1> USE DEF TypeOK
<1>1. CASE UNCHANGED flightState
  BY <1>1 DEF flightState, CallersOf, Flying
<1>2. ASSUME NEW j \in Jobs, NEW p \in Providers, JoinFlight(j, p)
      PROVE  \/ \A q \in Providers : CallersOf(q)' = CallersOf(q)
             \/ /\ CallersOf(p) = {} /\ CallersOf(p)' = {j}
                /\ \A q \in Providers \ {p} : CallersOf(q)' = CallersOf(q)
  <2>1. CASE flightOf[p] # NoJob
    BY <1>2, <2>1 DEF JoinFlight, CallersOf, Flying
  <2>2. CASE flightOf[p] = NoJob
    <3>1. CallersOf(p) = {}
      <4> SUFFICES ASSUME NEW i \in CallersOf(p) PROVE FALSE
        OBVIOUS
      <4>1. i \in Jobs /\ flightOf[p] = i
        BY CallsAreOne DEF CallersOf
      <4> QED
        BY <2>2, <4>1, ConstantsAssumption
    <3>2. stage' = [stage EXCEPT ![<<j, p>>] = "discovering"]
      BY <1>2, <2>2 DEF JoinFlight
    <3>3. ASSUME NEW i \in Jobs, NEW q \in Providers
          PROVE  Flying(<<i, q>>)' <=> Flying(<<i, q>>) \/ (i = j /\ q = p)
      <4>1. <<i, q>> \in Flights /\ (<<i, q>> = <<j, p>> <=> i = j /\ q = p)
        BY DEF Flights
      <4>2. stage'[<<i, q>>] = IF <<i, q>> = <<j, p>> THEN "discovering" ELSE stage[<<i, q>>]
        BY <3>2, <4>1
      <4> QED
        BY <4>1, <4>2 DEF Flying
    <3>4. CallersOf(p)' = {j}
      BY <3>1, <3>3 DEF CallersOf
    <3>5. \A q \in Providers \ {p} : CallersOf(q)' = CallersOf(q)
      BY <3>3 DEF CallersOf
    <3> QED
      BY <3>1, <3>4, <3>5
  <2> QED
    BY <2>1, <2>2
<1>3. ASSUME NEW f \in Flights, PublishFlight(f) \/ FailFlight(f)
      PROVE  /\ CallersOf(f[2]) = {f[1]} /\ CallersOf(f[2])' = {}
             /\ \A q \in Providers \ {f[2]} : CallersOf(q)' = CallersOf(q)
  <2>1. f[1] \in Jobs /\ f[2] \in Providers /\ f = <<f[1], f[2]>> /\ Flying(f)
    BY <1>3, FlightParts DEF PublishFlight, FailFlight, Flying
  <2>2. CallersOf(f[2]) = {f[1]}
    <3>1. f[1] \in CallersOf(f[2])
      <4>1. Flying(<<f[1], f[2]>>)
        BY <2>1 DEF Flying
      <4> QED
        BY <2>1, <4>1 DEF CallersOf
    <3> QED
      BY <2>1, <3>1, CallsAreOne
  <2>3. stage' = [stage EXCEPT ![f] = "published"]
    BY <1>3 DEF PublishFlight, FailFlight
  <2>4. ASSUME NEW i \in Jobs, NEW q \in Providers
        PROVE  Flying(<<i, q>>)' <=> Flying(<<i, q>>) /\ <<i, q>> # f
    <3>1. <<i, q>> \in Flights
      BY DEF Flights
    <3>2. stage'[<<i, q>>] = IF <<i, q>> = f THEN "published" ELSE stage[<<i, q>>]
      BY <2>3, <3>1
    <3> QED
      BY <3>2 DEF Flying
  <2>5. CallersOf(f[2])' = {}
    BY <2>1, <2>2, <2>4 DEF CallersOf
  <2>6. \A q \in Providers \ {f[2]} : CallersOf(q)' = CallersOf(q)
    <3>1. \A q \in Providers \ {f[2]}, i \in Jobs : <<i, q>> # f
      BY <2>1
    <3> QED
      BY <2>4, <3>1 DEF CallersOf
  <2> QED
    BY <2>2, <2>5, <2>6
<1>4. ASSUME NEW f \in Flights, FlightStep(f), ~PublishFlight(f), ~FailFlight(f)
      PROVE  \A q \in Providers : CallersOf(q)' = CallersOf(q)
  <2>1. \A g \in Flights : stage'[g] \in {"discovering", "collecting"} <=> stage[g] \in {"discovering", "collecting"}
    BY <1>4 DEF FlightStep, DiscoverAccounts, StoreAccount, ListActiveJobs, AppendDiscovery,
       CollectAccount, RemoveFlight, flightVars
  <2>2. \A i \in Jobs, q \in Providers : <<i, q>> \in Flights
    BY DEF Flights
  <2> QED
    BY <2>1, <2>2 DEF CallersOf, Flying
<1> QED
  BY <1>1, <1>2, <1>3, <1>4, FlightCases

(* The calls RefreshService counts.                                        *)
Calls == [p \in Providers |-> Cardinality({j \in Jobs : Flying(<<j, p>>)})]

(* ... change as RefreshService lets them.                                 *)
LEMMA CallsCount ==
  ASSUME TypeOK, FlightInMap, FlightShape, [Next]_vars
  PROVE  \/ UNCHANGED Calls
         \/ \E j \in Jobs, p \in Providers :
              /\ JoinFlight(j, p)
              /\ Calls[p] = 0 /\ Calls' = [Calls EXCEPT ![p] = 1]
         \/ \E f \in Flights, p \in Providers :
              /\ PublishFlight(f) \/ FailFlight(f)
              /\ Calls[p] = 1 /\ Calls' = [Calls EXCEPT ![p] = 0]
<1>1. Calls = [p \in Providers |-> Cardinality(CallersOf(p))]
  BY DEF Calls, CallersOf
<1>2. Calls' = [p \in Providers |-> Cardinality(CallersOf(p)')]
  BY DEF Calls, CallersOf
<1>3. CASE \A p \in Providers : CallersOf(p)' = CallersOf(p)
  BY <1>1, <1>2, <1>3
<1>4. ASSUME NEW p \in Providers, NEW j, {j} = CallersOf(p)',
             \A q \in Providers \ {p} : CallersOf(q)' = CallersOf(q)
      PROVE  Calls' = [Calls EXCEPT ![p] = 1]
  <2>1. Cardinality(CallersOf(p)') = 1
    BY <1>4, FS_Singleton
  <2> QED
    BY <1>1, <1>2, <1>4, <2>1
<1>5. ASSUME NEW p \in Providers, CallersOf(p)' = {},
             \A q \in Providers \ {p} : CallersOf(q)' = CallersOf(q)
      PROVE  Calls' = [Calls EXCEPT ![p] = 0]
  <2>1. Cardinality(CallersOf(p)') = 0
    BY <1>5, FS_EmptySet
  <2> QED
    BY <1>1, <1>2, <1>5, <2>1
<1>6. \A p \in Providers : CallersOf(p) = {} => Calls[p] = 0
  BY <1>1, FS_EmptySet
<1>7. \A p \in Providers, j \in Jobs : CallersOf(p) = {j} => Calls[p] = 1
  BY <1>1, FS_Singleton
<1>8. \A f \in Flights : f[2] \in Providers /\ f[1] \in Jobs
  BY FlightParts
<1> QED
  BY <1>3, <1>4, <1>5, <1>6, <1>7, <1>8, CallSteps

Phases == [j \in Jobs |-> phaseOf(j)]

(* Only seeding and a flight's telling extend what a job lists.            *)
LEMMA ListSteps ==
  ASSUME [Next]_vars
  PROVE  \/ UNCHANGED discovered
         \/ \E j \in Jobs, f \in Flights : SeedFromFlight(j, f)
         \/ \E f \in Flights, a \in Accounts, j \in Jobs : AppendDiscovery(f, a, j)
<1> USE DEF envVars, jobVars, registry, taskVars, flightVars, callerVars
<1>1. ASSUME Request PROVE UNCHANGED discovered
  BY <1>1 DEF Request, StartRefresh, Refresh, RefreshCoalesced, ClaimJob
<1>2. ASSUME NEW j \in Jobs, JobStep(j), ~\E f \in Flights : SeedFromFlight(j, f)
      PROVE  UNCHANGED discovered
  BY <1>2 DEF JobStep, SeedSnapshot, SpawnJob, RunJob, ExecuteRefresh,
     JoinFlight, CompleteJob, CompleteOffline, FailJob, RetainJob
<1>3. ASSUME NEW f \in Flights, FlightStep(f), ~\E a \in Accounts, j \in Jobs : AppendDiscovery(f, a, j)
      PROVE  UNCHANGED discovered
  BY <1>3 DEF FlightStep, DiscoverAccounts, StoreAccount, ListActiveJobs,
     CollectAccount, PublishFlight, FailFlight, RemoveFlight
<1>4. ASSUME NEW c \in Callers, AnswerCaller(c) PROVE UNCHANGED discovered
  BY <1>4 DEF AnswerCaller
<1>5. ASSUME Environment PROVE UNCHANGED discovered
  BY <1>5 DEF Environment, SetConnectivity, SetProviders
<1>6. ASSUME UNCHANGED vars PROVE UNCHANGED discovered
  BY <1>6 DEF vars
<1> QED
  BY <1>1, <1>2, <1>3, <1>4, <1>5, <1>6 DEF Next

(* The phase of a job changes when it is claimed and when it ends.         *)
LEMMA PhaseSteps ==
  ASSUME TypeOK, JobInMap, StatusFollowsTask, [Next]_vars
  PROVE  \/ UNCHANGED Phases
         \/ \E key \in Requests, j \in Jobs :
              ClaimJob(key, j) /\ Phases[j] = "none" /\ Phases' = [Phases EXCEPT ![j] = "pending"]
         \/ \E j \in Jobs :
              /\ CompleteJob(j) \/ CompleteOffline(j)
              /\ Phases[j] = "pending" /\ Phases' = [Phases EXCEPT ![j] = "completed"]
         \/ \E j \in Jobs :
              FailJob(j) /\ Phases[j] = "pending" /\ Phases' = [Phases EXCEPT ![j] = "failed"]
<1> USE DEF TypeOK, Phases, phaseOf
<1>1. CASE UNCHANGED jobState
  BY <1>1 DEF jobState
<1>2. ASSUME NEW key \in Requests, NEW j \in Jobs, ClaimJob(key, j)
      PROVE  Phases[j] = "none" /\ Phases' = [Phases EXCEPT ![j] = "pending"]
  <2>1. status[j] = "none" /\ status' = [status EXCEPT ![j] = "queued"]
    BY <1>2 DEF ClaimJob
  <2> QED
    BY <2>1
<1>3. ASSUME NEW j \in Jobs, CompleteJob(j) \/ CompleteOffline(j)
      PROVE  Phases[j] = "pending" /\ Phases' = [Phases EXCEPT ![j] = "completed"]
  <2>1. status[j] = "running" /\ status' = [status EXCEPT ![j] = "completed"]
    BY <1>3 DEF CompleteJob, CompleteOffline, StatusFollowsTask
  <2> QED
    BY <2>1
<1>4. ASSUME NEW j \in Jobs, FailJob(j)
      PROVE  Phases[j] = "pending" /\ Phases' = [Phases EXCEPT ![j] = "failed"]
  <2>1. status[j] = "running" /\ status' = [status EXCEPT ![j] = "failed"]
    BY <1>4 DEF FailJob, StatusFollowsTask
  <2> QED
    BY <2>1
<1>5. ASSUME NEW j \in Jobs, RunJob(j) PROVE UNCHANGED Phases
  <2>1. status[j] = "queued" /\ status' = [status EXCEPT ![j] = "running"]
    BY <1>5 DEF RunJob, StatusFollowsTask
  <2> QED
    BY <2>1
<1>6. ASSUME NEW j \in Jobs, JobStep(j), ~RunJob(j), ~CompleteJob(j), ~CompleteOffline(j), ~FailJob(j)
      PROVE  UNCHANGED status
  BY <1>6 DEF JobStep, SeedSnapshot, SeedFromFlight, SpawnJob, ExecuteRefresh, JoinFlight, RetainJob, jobVars
<1>7. ASSUME UNCHANGED status PROVE UNCHANGED Phases
  BY <1>7
<1> QED
  BY <1>1, <1>2, <1>3, <1>4, <1>5, <1>6, <1>7, JobCases

(* What RefreshService sees of the coordinator.                            *)
LEMMA ServiceView ==
  /\ \A j \in Jobs : Service!Accept(j) <=>
       /\ Phases[j] = "none" /\ Phases' = [Phases EXCEPT ![j] = "pending"]
       /\ UNCHANGED <<discovered, results, Calls>>
  /\ \A j \in Jobs, accounts \in SUBSET Accounts : Service!List(j, accounts) <=>
       /\ Phases[j] # "none" /\ discovered' = [discovered EXCEPT ![j] = @ \union accounts]
       /\ UNCHANGED <<Phases, results, Calls>>
  /\ \A p \in Providers : Service!Call(p) <=>
       /\ Calls[p] = 0 /\ Calls' = [Calls EXCEPT ![p] = 1]
       /\ UNCHANGED <<Phases, discovered, results>>
  /\ \A p \in Providers : Service!Return(p) <=>
       /\ Calls[p] = 1 /\ Calls' = [Calls EXCEPT ![p] = 0]
       /\ UNCHANGED <<Phases, discovered, results>>
  /\ \A j \in Jobs, accounts \in SUBSET Accounts : Service!Complete(j, accounts) <=>
       /\ Phases[j] = "pending" /\ accounts \subseteq discovered[j]
       /\ Phases' = [Phases EXCEPT ![j] = "completed"]
       /\ results' = [results EXCEPT ![j] = accounts]
       /\ UNCHANGED <<discovered, Calls>>
  /\ \A j \in Jobs : Service!Fail(j) <=>
       /\ Phases[j] = "pending" /\ Phases' = [Phases EXCEPT ![j] = "failed"]
       /\ UNCHANGED <<discovered, results, Calls>>
BY DEF Service!Accept, Service!List, Service!Call, Service!Return,
   Service!Complete, Service!Fail, Phases, Calls

ServiceStep == [Service!Next]_(Service!vars)

(* Every step is one of RefreshService's, or changes nothing it shows.     *)
LEMMA StepRefines ==
  ASSUME RegistryInv, DiscoveryInv', [Next]_vars
  PROVE  ServiceStep
<1> USE DEF jobVars, registry, taskVars, flightVars, callerVars, envVars
<1>0. /\ TypeOK /\ FlightInMap /\ FlightShape /\ JobInMap /\ JobShape
      /\ StatusFollowsTask /\ ToldJobsExist
  BY DEF RegistryInv, DiscoveryInv
<1>1. ASSUME NEW key \in Requests, NEW j \in Jobs, ClaimJob(key, j),
             Phases[j] = "none", Phases' = [Phases EXCEPT ![j] = "pending"]
      PROVE  ServiceStep
  <2>1. UNCHANGED <<discovered, results, Calls>>
    BY <1>1 DEF ClaimJob, Calls, Flying
  <2>2. Service!Accept(j)
    BY <1>1, <2>1, ServiceView
  <2> QED
    BY <2>2 DEF ServiceStep, Service!Next
<1>2. ASSUME NEW j \in Jobs, CompleteJob(j),
             Phases[j] = "pending", Phases' = [Phases EXCEPT ![j] = "completed"]
      PROVE  ServiceStep
  <2>1. UNCHANGED <<discovered, Calls>>
    BY <1>2 DEF CompleteJob, Calls, Flying
  <2>2. results'[j] \subseteq discovered[j] /\ results'[j] \in SUBSET Accounts
    BY <2>1 DEF DiscoveryInv, ResultsListed, TypeOK
  <2>3. results' = [results EXCEPT ![j] = results'[j]]
    BY <1>0, <1>2 DEF CompleteJob, TypeOK
  <2>4. PICK accounts \in SUBSET Accounts : accounts = results'[j]
    BY <2>2
  <2>5. Service!Complete(j, accounts)
    BY <1>2, <2>1, <2>2, <2>3, <2>4, ServiceView
  <2> QED
    BY <2>5 DEF ServiceStep, Service!Next, Service!End
<1>3. ASSUME NEW j \in Jobs, CompleteOffline(j),
             Phases[j] = "pending", Phases' = [Phases EXCEPT ![j] = "completed"]
      PROVE  ServiceStep
  <2>1. UNCHANGED <<discovered, results, Calls>>
    BY <1>3 DEF CompleteOffline, Calls, Flying
  <2>2. results[j] = {}
    BY <1>0, <1>3 DEF CompleteOffline, StatusFollowsTask
  <2>3. results' = [results EXCEPT ![j] = {}]
    BY <1>0, <2>1, <2>2 DEF TypeOK
  <2>4. PICK none \in SUBSET Accounts : none = {}
    OBVIOUS
  <2>5. Service!Complete(j, none)
    BY <1>3, <2>1, <2>3, <2>4, ServiceView
  <2> QED
    BY <2>5 DEF ServiceStep, Service!Next, Service!End
<1>4. ASSUME NEW j \in Jobs, FailJob(j),
             Phases[j] = "pending", Phases' = [Phases EXCEPT ![j] = "failed"]
      PROVE  ServiceStep
  <2>1. UNCHANGED <<discovered, results, Calls>>
    BY <1>4 DEF FailJob, Calls, Flying
  <2>2. Service!Fail(j)
    BY <1>4, <2>1, ServiceView
  <2> QED
    BY <2>2 DEF ServiceStep, Service!Next, Service!End
<1>5. ASSUME NEW j \in Jobs, NEW p \in Providers, JoinFlight(j, p),
             Calls[p] = 0, Calls' = [Calls EXCEPT ![p] = 1]
      PROVE  ServiceStep
  <2>1. UNCHANGED <<Phases, discovered, results>>
    BY <1>5 DEF JoinFlight, Phases, phaseOf
  <2>2. Service!Call(p)
    BY <1>5, <2>1, ServiceView
  <2> QED
    BY <2>2 DEF ServiceStep, Service!Next
<1>6. ASSUME NEW f \in Flights, NEW p \in Providers, PublishFlight(f) \/ FailFlight(f),
             Calls[p] = 1, Calls' = [Calls EXCEPT ![p] = 0]
      PROVE  ServiceStep
  <2>1. UNCHANGED <<Phases, discovered, results>>
    BY <1>6 DEF PublishFlight, FailFlight, Phases, phaseOf
  <2>2. Service!Return(p)
    BY <1>6, <2>1, ServiceView
  <2> QED
    BY <2>2 DEF ServiceStep, Service!Next
<1>7. ASSUME NEW j \in Jobs, NEW f \in Flights, SeedFromFlight(j, f) PROVE ServiceStep
  <2>1. UNCHANGED <<Phases, results, Calls>>
    BY <1>7 DEF SeedFromFlight, Phases, phaseOf, Calls, Flying
  <2>2. discovered' = [discovered EXCEPT ![j] = @ \union found[f]] /\ found[f] \in SUBSET Accounts
    BY <1>0, <1>7 DEF SeedFromFlight, TypeOK
  <2>3. Phases[j] # "none"
    <3>1. task[j] = "seeding"
      BY <1>0, <1>7 DEF SeedFromFlight, JobShape
    <3> QED
      BY <1>0, <3>1 DEF StatusFollowsTask, Phases, phaseOf
  <2>4. Service!List(j, found[f])
    BY <2>1, <2>2, <2>3, ServiceView
  <2> QED
    BY <2>2, <2>4 DEF ServiceStep, Service!Next
<1>8. ASSUME NEW f \in Flights, NEW a \in Accounts, NEW j \in Jobs, AppendDiscovery(f, a, j)
      PROVE  ServiceStep
  <2>1. UNCHANGED <<Phases, results, Calls>>
    BY <1>8 DEF AppendDiscovery, Phases, phaseOf, Calls, Flying
  <2>2. discovered' = [discovered EXCEPT ![j] = @ \union {a}] /\ {a} \in SUBSET Accounts
    BY <1>8 DEF AppendDiscovery
  <2>3. Phases[j] # "none"
    BY <1>0, <1>8 DEF AppendDiscovery, ToldJobsExist, Phases, phaseOf
  <2>4. Service!List(j, {a})
    BY <2>1, <2>2, <2>3, ServiceView
  <2> QED
    BY <2>2, <2>4 DEF ServiceStep, Service!Next
<1>9. ASSUME UNCHANGED <<Phases, discovered, results, Calls>> PROVE ServiceStep
  BY <1>9 DEF ServiceStep, Service!vars, Phases, Calls
<1>10. ASSUME NEW j \in Jobs, CompleteJob(j) \/ CompleteOffline(j) \/ FailJob(j) PROVE ServiceStep
  <2>1. UNCHANGED Phases => FALSE
    <3>1. status[j] = "running" /\ status'[j] \in {"completed", "failed"}
      BY <1>0, <1>10 DEF CompleteJob, CompleteOffline, FailJob, StatusFollowsTask, TypeOK
    <3> QED
      BY <3>1 DEF Phases, phaseOf
  <2>2. \A key \in Requests, i \in Jobs : ~ClaimJob(key, i)
    BY <1>0, <1>10, ZenonT(60) DEF CompleteJob, CompleteOffline, FailJob, ClaimJob, TypeOK
  <2> QED
    BY <1>0, <1>2, <1>3, <1>4, <2>1, <2>2, PhaseSteps
<1>11. ASSUME NEW j \in Jobs, CompleteJob(j) PROVE ServiceStep
  BY <1>10, <1>11
<1> QED
  BY <1>0, <1>1, <1>2, <1>3, <1>4, <1>5, <1>6, <1>7, <1>8, <1>9, <1>11,
     PhaseSteps, ResultsCases, ListSteps, CallsCount

(* The coordinator, with its registry, its tasks and its flights, does     *)
(* nothing that RefreshService does not allow: this is the safety half of  *)
(* ImplementsService, whose fairness TLC checks.                           *)
THEOREM ImplementsServiceSafely == Spec => Service!Spec
<1>1. Init => Service!Init
  <2> SUFFICES ASSUME Init PROVE Service!Init
    OBVIOUS
  <2>1. \A p \in Providers : {j \in Jobs : Flying(<<j, p>>)} = {}
    BY DEF Init, Flying, Flights
  <2>2. Calls = [p \in Providers |-> 0]
    BY <2>1, FS_EmptySet DEF Calls
  <2> QED
    BY <2>2 DEF Init, Service!Init, phaseOf, Calls
<1>2. RegistryInv /\ DiscoveryInv' /\ [Next]_vars => ServiceStep
  BY StepRefines
<1>3. Spec => [](RegistryInv /\ DiscoveryInv)
  <2>1. RegistryInv => DiscoveryInv
    BY DEF RegistryInv
  <2> QED
    BY <2>1, RegistryInvariant, PTL
<1> QED
  BY <1>1, <1>2, <1>3, PTL DEF Spec, Service!Spec, ServiceStep
-----------------------------------------------------------------------------
(* Cursor's sign-ins.  Tokens 3 and up are the app's, the others cookies;  *)
(* whom a token was issued to is who holds it, for ever.                   *)
Issued(t) == t \in AllTokens /\ holder[t] \in Users
Fits(c) == c.t \in AllTokens /\ c.source \in {"manual", "app", "browser"} /\ (c.source = "app" <=> c.t > 2)

SourcesKnown ==
  /\ manual \in {NoToken, 1} /\ (manual # NoToken => app = NoToken /\ Issued(manual))
  /\ app \in {NoToken, Damaged} \/ (app > 2 /\ Issued(app))
  /\ \A i \in DOMAIN browsers : i \in Nat \ {0} /\ \A c \in BrowserSessions(i) : c.t < 3 /\ Issued(c.t)
  /\ \A i \in DOMAIN browsers : \A c, d \in BrowserSessions(i) : c = d
  /\ holder \in [AllTokens -> Users \union {NoUser}]
  /\ \A t \in valid : Issued(t)

(* A session in the cache is of the account it is cached for.              *)
SessionsKnown ==
  /\ generation \in Nat
  /\ DOMAIN sessions = Users
  /\ \A u \in Users : sessions[u] # NoSession =>
       Fits(sessions[u]) /\ holder[sessions[u].t] = u /\ sessions[u].gen \in 1 .. generation

(* What works with a token of the app has seen the app have it.            *)
WorkFields == {"at", "kind", "user", "attempt", "left", "found", "session", "calm", "appHad"}
IsKnown(w, c) == Fits(c) /\ Issued(c.t) /\ (c.source = "app" => c.t \in w.appHad)
Work(w) ==
  /\ DOMAIN w = WorkFields
  /\ w.at \in {"session", "load", "identify", "fetch", "check"}
  /\ w.kind \in {"discovery", "collection"} /\ w.calm \in BOOLEAN /\ w.attempt \in {0, 1}
  /\ IF w.kind = "collection" THEN w.user \in Users ELSE w.at \in {"load", "identify"}
  /\ app \in {NoToken, Damaged} \union w.appHad
  /\ w.at = "identify" =>
       /\ \A c \in w.left : IsKnown(w, c)
       /\ \A u \in DOMAIN w.found : u \in Users /\ IsKnown(w, w.found[u]) /\ holder[w.found[u].t] = u
  /\ w.at \in {"fetch", "check"} => IsKnown(w, w.session) /\ holder[w.session.t] = w.user

(* The session that every discovery finds for an account, while all is     *)
(* calm; what is cached is that one or none once it was looked for.        *)
IsBest(u, c) ==
  /\ c \in Candidates /\ c.t \in valid /\ holder[c.t] = u
  /\ \A d \in Candidates : d.t \in valid /\ holder[d.t] = u => c.place <= d.place
BestIn(s, u) == \E c \in Candidates : IsBest(u, c) /\ s.t = c.t
Settled(u) == sessions[u] = NoSession \/ BestIn(sessions[u], u)

Thorough(w) ==
  /\ w.left \subseteq Candidates
  /\ \A c \in w.left, d \in Candidates \ w.left : d.place < c.place
  /\ \A c \in Candidates \ w.left : c.t \in valid => holder[c.t] \in DOMAIN w.found
  /\ \A u \in DOMAIN w.found : IsBest(u, w.found[u])
Retries(w) ==
  /\ w.attempt = 1 => Settled(w.user)
  /\ w.at \in {"fetch", "check"} =>
       IF w.attempt = 1 THEN w.session = sessions[w.user] /\ BestIn(w.session, w.user)
       ELSE w.session = sessions[w.user] \/ Settled(w.user)
  /\ w.at = "check" => w.session.t \in valid
Calm(w) ==
  /\ w.at = "identify" => Thorough(w)
  /\ w.kind = "collection" /\ w.user \in Healthy => Retries(w)

(* What came of it.                                                        *)
OutcomeTrue(w) ==
  /\ w.at = "collected" =>
       /\ holder[w.session.t] = w.user /\ Issued(w.session.t)
       /\ w.session.source = "app" => w.session.t \in w.appHad
  /\ w.at = "discovered" => Healthy \subseteq w.found
  /\ w.at = "failed" => IF w.kind = "discovery" THEN Healthy = {} ELSE w.user \notin Healthy

Rests(w) == w.at \in {"idle", "discovered", "collected", "failed"}
Known(w) == IF Rests(w) THEN OutcomeTrue(w) ELSE Work(w) /\ (w.calm => Calm(w))

(* Whatever is under way is calm, or nothing is.                           *)
AllAlike == \A f, g \in Fetchers : Busy(f) /\ Busy(g) => (borrower[f].calm <=> borrower[g].calm)
BorrowersKnown == DOMAIN borrower = Fetchers /\ \A f \in Fetchers : Known(borrower[f])
CountsKnown == fetches \in 0 .. MaxFetches /\ changes \in 0 .. MaxChanges

CursorInv == SourcesKnown /\ SessionsKnown /\ BorrowersKnown /\ AllAlike /\ CountsKnown

(* Numbers of tokens.                                                      *)
LEMMA TokensAre ==
  /\ \A t \in AllTokens : t \in Nat \ {0} /\ t # NoToken /\ t # Damaged
  /\ {1, 2, 3} \subseteq AllTokens /\ NoToken \notin AllTokens /\ Damaged \notin AllTokens
BY CursorAssumption DEF AllTokens, NoToken, Damaged

(* Nothing is a session without a token.                                   *)
LEMMA NoSessionFits == \A s : Fits(s) => s # NoSession
BY TokensAre DEF Fits, NoSession

(* Each source has one candidate at a place of its own.                    *)
LEMMA CandidatesKnown ==
  ASSUME SourcesKnown
  PROVE  /\ \A c \in Candidates : Fits(c) /\ Issued(c.t) /\ (c.source = "app" => c.t = app) /\ c.place \in Nat
         /\ \A c \in Candidates : c.source = "manual" => Candidates = {c}
         /\ \A c, d \in Candidates : c.place = d.place => c = d
<1>1. ASSUME NEW i \in DOMAIN browsers, NEW c \in BrowserSessions(i)
      PROVE  Fits(c) /\ Issued(c.t) /\ c.source = "browser" /\ c.place = i /\ i \in Nat \ {0}
  <2>1. c.source = "browser" /\ c.place = i /\ c.t \in AllTokens
    BY <1>1 DEF BrowserSessions, Candidate
  <2>2. c.t < 3 /\ Issued(c.t) /\ i \in Nat \ {0}
    BY <1>1 DEF SourcesKnown
  <2> QED
    BY <2>1, <2>2, TokensAre DEF Fits
<1>2. CASE manual # NoToken
  <2>1. Candidates = {Candidate(manual, "manual", 0)} /\ manual = 1 /\ Issued(manual)
    BY <1>2 DEF Candidates, SourcesKnown
  <2> QED
    BY <2>1, TokensAre DEF Candidate, Fits
<1>3. CASE manual = NoToken
  <2>1. ASSUME NEW c \in Candidates
        PROVE  \/ \E i \in DOMAIN browsers : c \in BrowserSessions(i)
               \/ app \notin {NoToken, Damaged} /\ c = Candidate(app, "app", 0)
    BY <1>3, <2>1 DEF Candidates, FromBrowsers
  <2>2. app \notin {NoToken, Damaged} => app > 2 /\ Issued(app)
    BY DEF SourcesKnown
  <2>3. ASSUME NEW c, app \notin {NoToken, Damaged}, c = Candidate(app, "app", 0)
        PROVE  Fits(c) /\ Issued(c.t) /\ c.source = "app" /\ c.t = app /\ c.place = 0
    BY <2>2, <2>3 DEF Candidate, Fits, Issued
  <2>4. \A c \in Candidates : Fits(c) /\ Issued(c.t) /\ (c.source = "app" => c.t = app) /\ c.place \in Nat /\ c.source # "manual"
    BY <1>1, <2>1, <2>3
  <2>5. ASSUME NEW c \in Candidates, NEW d \in Candidates, c.place = d.place PROVE c = d
    <3>1. CASE c.place = 0
      BY <1>1, <2>1, <2>5, <3>1
    <3>2. CASE c.place # 0
      <4>1. PICK i \in DOMAIN browsers : c \in BrowserSessions(i)
        BY <2>1, <2>3, <3>2
      <4>2. PICK j \in DOMAIN browsers : d \in BrowserSessions(j)
        BY <2>1, <2>3, <2>5, <3>2
      <4>3. i = j
        BY <1>1, <2>5, <4>1, <4>2
      <4> QED
        BY <4>1, <4>2, <4>3 DEF SourcesKnown
    <3> QED
      BY <3>1, <3>2
  <2> QED
    BY <2>4, <2>5
<1> QED
  BY <1>2, <1>3

(* There is one best session of an account.                                *)
LEMMA BestIsOne ==
  ASSUME SourcesKnown, NEW u, NEW c, NEW d, IsBest(u, c), IsBest(u, d)
  PROVE  c = d
<1>1. c \in Candidates /\ d \in Candidates /\ c.place \in Nat /\ d.place \in Nat
  BY CandidatesKnown DEF IsBest
<1>2. c.place <= d.place /\ d.place <= c.place
  BY DEF IsBest
<1>3. c.place = d.place
  BY <1>1, <1>2
<1> QED
  BY <1>1, <1>3, CandidatesKnown

(* An account is healthy if one of its sessions is valid.                  *)
LEMMA HealthyHas ==
  ASSUME NEW u \in Healthy
  PROVE  \E c \in Candidates : c.t \in valid /\ holder[c.t] = u
BY DEF Healthy

(* The best sessions are those of the sources.                             *)
LEMMA BestStays ==
  ASSUME UNCHANGED <<givenVars, appVars>>
  PROVE  /\ UNCHANGED <<manual, browsers, app, holder, valid>> /\ Candidates' = Candidates /\ Healthy' = Healthy
         /\ \A u, c : IsBest(u, c)' <=> IsBest(u, c)
         /\ \A s, u : BestIn(s, u)' <=> BestIn(s, u)
<1>1. UNCHANGED <<manual, browsers, app, holder, valid>>
  BY DEF givenVars, appVars
<1>2. Candidates' = Candidates
  BY <1>1 DEF Candidates, FromBrowsers, BrowserSessions
<1>3. Healthy' = Healthy
  BY <1>1, <1>2 DEF Healthy
<1>4. \A u, c : IsBest(u, c)' <=> IsBest(u, c)
  BY <1>1, <1>2 DEF IsBest
<1>5. \A s, u : BestIn(s, u)' <=> BestIn(s, u)
  BY <1>2, <1>4 DEF BestIn
<1> QED
  BY <1>1, <1>2, <1>3, <1>4, <1>5

(* Everything that is said of works and outcomes is said of the sources    *)
(* and the cache.                                                          *)
LEMMA KnownStays ==
  ASSUME UNCHANGED <<givenVars, appVars, sessions>>, NEW w, Known(w)
  PROVE  Known(w)'
<1>1. /\ UNCHANGED <<manual, browsers, app, holder, valid, sessions>> /\ Candidates' = Candidates /\ Healthy' = Healthy
      /\ \A u, c : IsBest(u, c)' <=> IsBest(u, c)
      /\ \A s, u : BestIn(s, u)' <=> BestIn(s, u)
  BY BestStays
<1>5. \A u : Settled(u)' <=> Settled(u)
  BY <1>1 DEF Settled
<1>6. Thorough(w)' <=> Thorough(w)
  BY <1>1 DEF Thorough
<1>7. Retries(w)' <=> Retries(w)
  BY <1>1, <1>5 DEF Retries
<1>8. Calm(w)' <=> Calm(w)
  BY <1>1, <1>6, <1>7 DEF Calm
<1>9. OutcomeTrue(w)' <=> OutcomeTrue(w)
  BY <1>1 DEF OutcomeTrue, Issued
<1>10. Work(w)' <=> Work(w)
  BY <1>1 DEF Work, IsKnown, Issued, Fits
<1>11. Rests(w)' <=> Rests(w)
  BY DEF Rests
<1> QED
  BY <1>8, <1>9, <1>10, <1>11 DEF Known

(* What replaces a cached session is the best of its account, and was not  *)
(* there; or it is taken away from an account that is not healthy.         *)
Improves ==
  \A u \in Users : u \in Healthy /\ sessions'[u] # sessions[u] => Settled(u)' /\ ~BestIn(sessions[u], u)

(* Work that is calm outlives a better session in the cache.               *)
LEMMA KnownImproves ==
  ASSUME UNCHANGED <<givenVars, appVars>>, NEW w, Known(w), ~Rests(w) /\ w.calm => Improves
  PROVE  Known(w)'
<1>1. /\ UNCHANGED <<manual, browsers, app, holder, valid>> /\ Candidates' = Candidates /\ Healthy' = Healthy
      /\ \A u, c : IsBest(u, c)' <=> IsBest(u, c)
      /\ \A s, u : BestIn(s, u)' <=> BestIn(s, u)
  BY BestStays
<1>5. Thorough(w)' <=> Thorough(w)
  BY <1>1 DEF Thorough
<1>6. OutcomeTrue(w)' <=> OutcomeTrue(w)
  BY <1>1 DEF OutcomeTrue, Issued
<1>7. Work(w)' <=> Work(w)
  BY <1>1 DEF Work, IsKnown, Issued, Fits
<1>8. Rests(w)' <=> Rests(w)
  BY DEF Rests
<1>9. ASSUME ~Rests(w), w.calm PROVE Calm(w)'
  <2>1. Work(w) /\ Calm(w) /\ Improves
    BY <1>9 DEF Known
  <2>2. ASSUME w.kind = "collection", w.user \in Healthy PROVE Retries(w)'
    <3>1. Retries(w) /\ w.user \in Users
      BY <2>1, <2>2 DEF Calm, Work
    <3>2. CASE sessions'[w.user] = sessions[w.user]
      <4>1. Settled(w.user)' <=> Settled(w.user)
        BY <1>1, <3>2 DEF Settled
      <4> QED
        BY <1>1, <3>1, <3>2, <4>1 DEF Retries
    <3>3. CASE sessions'[w.user] # sessions[w.user]
      <4>1. Settled(w.user)' /\ ~BestIn(sessions[w.user], w.user)
        BY <2>1, <2>2, <3>1, <3>3 DEF Improves
      <4> QED
        BY <1>1, <3>1, <4>1 DEF Retries
    <3> QED
      BY <3>2, <3>3
  <2> QED
    BY <1>1, <1>5, <2>1, <2>2 DEF Calm
<1> QED
  BY <1>6, <1>7, <1>8, <1>9 DEF Known

(* What one discovery or collection does.                                  *)
LEMMA OneMoves ==
  ASSUME CursorInv, NEW f \in Fetchers, NEW v, UNCHANGED <<givenVars, appVars>>, Moves(f, v),
         SessionsKnown', CountsKnown', Known(v)',
         UNCHANGED sessions \/ (Busy(f) /\ (borrower[f].calm => Improves)),
         ~Rests(v) => \A g \in Fetchers \ {f} : Busy(g) => (v.calm <=> borrower[g].calm)
  PROVE  CursorInv'
<1>1. SourcesKnown'
  <2>1. UNCHANGED <<manual, browsers, app, holder, valid>>
    BY DEF givenVars, appVars
  <2> QED
    BY <2>1 DEF CursorInv, SourcesKnown, BrowserSessions, Issued
<1>2. DOMAIN borrower' = Fetchers /\ borrower'[f] = v /\ \A g \in Fetchers : g # f => borrower'[g] = borrower[g]
  BY DEF CursorInv, BorrowersKnown, Moves
<1>3. \A g \in Fetchers : Busy(g) <=> ~Rests(borrower[g])
  BY DEF Busy, Rests
<1>4. \A g \in Fetchers : Busy(g)' <=> ~Rests(borrower[g])'
  BY DEF Busy, Rests
<1>5. ASSUME NEW g \in Fetchers PROVE Known(borrower[g])'
  <2>1. CASE g = f
    BY <1>2, <2>1
  <2>2. CASE g # f
    <3> DEFINE w == borrower[g]
    <3>1. borrower'[g] = w /\ Known(w)
      BY <1>2, <2>2 DEF CursorInv, BorrowersKnown
    <3>2. ~Rests(w) /\ w.calm => UNCHANGED sessions \/ Improves
      BY <1>3 DEF CursorInv, AllAlike
    <3>3. PICK x : x = borrower[g]
      OBVIOUS
    <3>4. Known(x) /\ (~Rests(x) /\ x.calm => UNCHANGED sessions \/ Improves)
      BY <3>1, <3>2, <3>3
    <3>5. Known(x)'
      <4>1. CASE UNCHANGED sessions
        BY <3>4, <4>1, KnownStays
      <4>2. CASE ~Rests(x) /\ x.calm => Improves
        BY <3>4, <4>2, KnownImproves
      <4> QED
        BY <3>4, <4>1, <4>2
    <3> QED
      BY <3>1, <3>3, <3>5
  <2> QED
    BY <2>1, <2>2
<1>6. AllAlike'
  BY <1>2, <1>3, <1>4 DEF CursorInv, AllAlike
<1> QED
  BY <1>1, <1>2, <1>5, <1>6 DEF CursorInv, BorrowersKnown

(* A step that is only a step of one of them, and neither calms nor upsets.*)
LEMMA BorrowStepKeeps ==
  ASSUME CursorInv, NEW f \in Fetchers, NEW v, Busy(f), Proceeds(f, v), Known(v),
         Rests(v) \/ v.calm = borrower[f].calm
  PROVE  CursorInv'
<1>1. UNCHANGED <<givenVars, appVars, cacheVars, fetches, changes>> /\ Moves(f, v)
  BY DEF Proceeds
<1>2. UNCHANGED <<givenVars, appVars, sessions, generation, holder, fetches, changes>>
  BY <1>1 DEF cacheVars, appVars
<1>3. SessionsKnown' /\ CountsKnown'
  BY <1>2 DEF CursorInv, SessionsKnown, CountsKnown
<1>4. Known(v)'
  BY <1>2, KnownStays
<1>5. ~Rests(v) => \A g \in Fetchers \ {f} : Busy(g) => (v.calm <=> borrower[g].calm)
  BY DEF CursorInv, AllAlike
<1> QED
  BY <1>1, <1>2, <1>3, <1>4, <1>5, OneMoves

(* What a busy one is known by.                                            *)
LEMMA BusyWorks ==
  ASSUME CursorInv, NEW f \in Fetchers, Busy(f)
  PROVE  Work(borrower[f]) /\ (borrower[f].calm => Calm(borrower[f]))
BY DEF CursorInv, BorrowersKnown, Known, Busy, Rests

(* A failure is told only while all is calm.                               *)
LEMMA OutcomeTold ==
  ASSUME NEW f \in Fetchers, NEW how \in {"failed", "discovered"}, Work(borrower[f]),
         borrower[f].calm => OutcomeTrue([at |-> how, kind |-> borrower[f].kind, user |-> borrower[f].user, found |-> DOMAIN borrower[f].found])
  PROVE  Known(Outcome(f, how)) /\ Rests(Outcome(f, how))
BY DEF Outcome, Known, Rests, OutcomeTrue, AtRest

(* A discovery or a collection begins.                                     *)
LEMMA BorrowKeeps ==
  ASSUME CursorInv, NEW f \in Fetchers, Borrow(f)
  PROVE  CursorInv'
<1>1. UNCHANGED <<givenVars, appVars, cacheVars, changes>> /\ ~Busy(f) /\ fetches < MaxFetches /\ fetches' = fetches + 1
  BY DEF Borrow
<1> DEFINE calm == \A g \in Fetchers : Busy(g) => borrower[g].calm
           Begins(kind, u) ==
             [at |-> IF kind = "discovery" THEN "load" ELSE "session", kind |-> kind, user |-> u,
              attempt |-> 0, left |-> {}, found |-> <<>>, session |-> NoSession, calm |-> calm, appHad |-> {app}]
<1>a. \A kind, u : Borrowing(kind, u) = Begins(kind, u)
  BY Zenon DEF Borrowing
<1>2. PICK v : Moves(f, v) /\ (v = Begins("discovery", NoUser) \/ \E u \in Users : v = Begins("collection", u))
  <2>1. Moves(f, Borrowing("discovery", NoUser)) \/ \E u \in Users : Moves(f, Borrowing("collection", u))
    BY DEF Borrow
  <2> HIDE DEF Begins
  <2> QED
    BY <1>a, <2>1
<1>3. UNCHANGED <<sessions, generation, holder>> /\ SessionsKnown' /\ CountsKnown'
  BY <1>1, CursorAssumption DEF CursorInv, SessionsKnown, CountsKnown, cacheVars, appVars
<1> HIDE DEF calm
<1>4. /\ DOMAIN v = WorkFields /\ v.attempt = 0 /\ v.found = <<>> /\ v.appHad = {app} /\ v.calm = calm
      /\ \/ v.kind = "discovery" /\ v.at = "load"
         \/ v.kind = "collection" /\ v.at = "session" /\ v.user \in Users
  BY <1>2 DEF WorkFields
<1>5. calm \in BOOLEAN
  BY DEF calm
<1>6. Work(v)
  BY <1>4, <1>5 DEF Work
<1>7. Calm(v)
  BY <1>4 DEF Calm, Retries
<1>8. Known(v)
  BY <1>4, <1>6, <1>7 DEF Known, Rests
<1>9. \A g \in Fetchers \ {f} : Busy(g) => (v.calm <=> borrower[g].calm)
  BY <1>4, Zenon DEF CursorInv, AllAlike, calm
<1> QED
  BY <1>1, <1>2, <1>3, <1>8, <1>9, KnownStays, OneMoves

(* It uses what is cached, or looks.                                       *)
LEMMA TakeSessionKeeps ==
  ASSUME CursorInv, NEW f \in Fetchers, TakeSession(f)
  PROVE  CursorInv'
<1> DEFINE w == borrower[f]
<1>1. Busy(f) /\ w.at = "session"
  BY DEF TakeSession, Busy
<1>2. Work(w) /\ (w.calm => Calm(w)) /\ w.kind = "collection" /\ w.user \in Users
  BY <1>1, BusyWorks DEF Work
<1>3. PICK v : /\ Proceeds(f, v)
               /\ v = IF UsesCached(w.user) THEN [w EXCEPT !.at = "fetch", !.session = sessions[w.user]]
                      ELSE [w EXCEPT !.at = "load", !.session = sessions[w.user]]
  BY DEF TakeSession
<1>4. /\ DOMAIN v = WorkFields /\ v.kind = w.kind /\ v.user = w.user /\ v.attempt = w.attempt /\ v.calm = w.calm
      /\ v.appHad = w.appHad /\ v.session = sessions[w.user]
      /\ v.at = IF UsesCached(w.user) THEN "fetch" ELSE "load"
  BY <1>2, <1>3 DEF Work, WorkFields
<1>5. UsesCached(w.user) => /\ sessions[w.user] # NoSession /\ sessions[w.user].source # "app"
                            /\ Fits(sessions[w.user]) /\ holder[sessions[w.user].t] = w.user
  BY <1>2 DEF UsesCached, InCache, CursorInv, SessionsKnown
<1>6. Work(v)
  <2>1. UsesCached(w.user) => IsKnown(v, v.session) /\ holder[v.session.t] = v.user
    BY <1>2, <1>4, <1>5 DEF IsKnown, Issued, Fits
  <2> QED
    BY <1>2, <1>4, <2>1 DEF Work
<1>7. w.calm => Calm(v)
  <2> SUFFICES ASSUME w.calm, w.user \in Healthy PROVE Retries(v)
    BY <1>2, <1>4 DEF Calm
  <2>1. Retries(w)
    BY <1>2 DEF Calm
  <2>2. w.attempt = 1 => Settled(w.user)
    BY <2>1 DEF Retries
  <2> QED
    BY <1>2, <1>4, <1>5, <2>2 DEF Retries, Settled
<1>8. Known(v)
  BY <1>4, <1>6, <1>7 DEF Known, Rests
<1> QED
  BY <1>1, <1>3, <1>4, <1>8, BorrowStepKeeps

(* What can be tried is loaded.                                            *)
LEMMA LoadKeeps ==
  ASSUME CursorInv, NEW f \in Fetchers, LoadCandidates(f)
  PROVE  CursorInv'
<1> DEFINE w == borrower[f]
<1>1. Busy(f) /\ w.at = "load"
  BY DEF LoadCandidates, Busy
<1>2. Work(w) /\ (w.calm => Calm(w))
  BY <1>1, BusyWorks
<1>3. CASE Candidates = {}
  <2>1. Healthy = {}
    BY <1>3 DEF Healthy
  <2>2. Known(Outcome(f, "failed")) /\ Rests(Outcome(f, "failed"))
    <3>1. OutcomeTrue([at |-> "failed", kind |-> w.kind, user |-> w.user, found |-> DOMAIN w.found])
      BY <2>1 DEF OutcomeTrue
    <3> QED
      BY <1>2, <3>1, OutcomeTold
  <2>3. Proceeds(f, Outcome(f, "failed"))
    BY <1>3 DEF LoadCandidates
  <2> QED
    BY <1>1, <2>2, <2>3, BorrowStepKeeps
<1>4. CASE Candidates # {}
  <2>1. PICK v : Proceeds(f, v) /\ v = [w EXCEPT !.at = "identify", !.left = Candidates, !.found = <<>>]
    BY <1>4 DEF LoadCandidates
  <2>2. /\ DOMAIN v = WorkFields /\ v.at = "identify" /\ v.left = Candidates /\ v.found = <<>>
        /\ v.kind = w.kind /\ v.user = w.user /\ v.attempt = w.attempt /\ v.calm = w.calm /\ v.appHad = w.appHad
    BY <1>2, <2>1 DEF Work, WorkFields
  <2>3. Work(v)
    <3>1. ASSUME NEW c \in Candidates PROVE IsKnown(v, c)
      <4>1. Fits(c) /\ Issued(c.t) /\ (c.source = "app" => c.t = app)
        BY CandidatesKnown DEF CursorInv
      <4>2. c.source = "app" => app \in AllTokens
        BY <4>1 DEF Issued
      <4>3. c.source = "app" => app \in w.appHad
        BY <1>2, <4>2, TokensAre DEF Work
      <4> QED
        BY <2>2, <4>1, <4>3 DEF IsKnown
    <3>2. DOMAIN v.found = {}
      BY <2>2
    <3> QED
      BY <1>2, <2>2, <3>1, <3>2 DEF Work
  <2>4. w.calm => Calm(v)
    <3>1. Thorough(v)
      BY <2>2 DEF Thorough
    <3>2. w.calm /\ w.kind = "collection" /\ w.user \in Healthy => Retries(v)
      BY <1>2, <2>2 DEF Calm, Retries
    <3> QED
      BY <2>2, <3>1, <3>2 DEF Calm
  <2>5. Known(v)
    BY <2>2, <2>3, <2>4 DEF Known, Rests
  <2> QED
    BY <1>1, <2>1, <2>2, <2>5, BorrowStepKeeps
<1> QED
  BY <1>3, <1>4

(* What trying a candidate makes of a discovery; the calm of the others    *)
(* says nothing of it.                                                     *)
LEMMA TryingKnown ==
  ASSUME SourcesKnown, NEW w, Work(w), w.at = "identify", NEW c \in w.left, NEW ok \in BOOLEAN, NEW v,
         v = TriesNext(w, c, ok)
  PROVE  /\ DOMAIN v = WorkFields /\ v.at = "identify" /\ v.kind = w.kind /\ v.user = w.user
         /\ v.attempt = w.attempt /\ v.calm = w.calm /\ v.appHad = w.appHad
         /\ v.left = IF c.source = "manual" /\ ~ok THEN {} ELSE w.left \ {c}
         /\ IF ok /\ holder[c.t] \notin DOMAIN w.found
            THEN /\ DOMAIN v.found = DOMAIN w.found \union {holder[c.t]} /\ v.found[holder[c.t]] = c
                 /\ \A u \in DOMAIN w.found : v.found[u] = w.found[u]
            ELSE v.found = w.found
         /\ Work(v)
<1>1. DOMAIN w = WorkFields
  BY DEF Work
<1>2. v = IF c.source = "manual" /\ ~ok THEN [w EXCEPT !.left = {}] ELSE Identified(w, c, ok)
  BY DEF TriesNext, SkipsFailures
<1> DEFINE g == OrInserted(w.found, holder[c.t], c)
<1>3. IF holder[c.t] \in DOMAIN w.found THEN g = w.found
      ELSE /\ DOMAIN g = DOMAIN w.found \union {holder[c.t]} /\ g[holder[c.t]] = c
           /\ \A u \in DOMAIN w.found : g[u] = w.found[u]
  BY DEF OrInserted
<1>4. Identified(w, c, ok) = [w EXCEPT !.left = w.left \ {c}, !.found = IF ok THEN g ELSE w.found]
  BY DEF Identified
<1> HIDE DEF g
<1>5. /\ DOMAIN v = WorkFields /\ v.at = "identify" /\ v.kind = w.kind /\ v.user = w.user
      /\ v.attempt = w.attempt /\ v.calm = w.calm /\ v.appHad = w.appHad
      /\ v.left = IF c.source = "manual" /\ ~ok THEN {} ELSE w.left \ {c}
      /\ v.found = IF ok /\ ~(c.source = "manual" /\ ~ok) THEN g ELSE w.found
  BY <1>1, <1>2, <1>4 DEF WorkFields
<1>a. IF ok /\ holder[c.t] \notin DOMAIN w.found
      THEN /\ DOMAIN v.found = DOMAIN w.found \union {holder[c.t]} /\ v.found[holder[c.t]] = c
           /\ \A u \in DOMAIN w.found : v.found[u] = w.found[u]
      ELSE v.found = w.found
  BY <1>3, <1>5
<1>6. IsKnown(w, c) /\ holder[c.t] \in Users
  BY DEF Work, IsKnown, Issued
<1>7. \A d : IsKnown(v, d) <=> IsKnown(w, d)
  BY <1>5 DEF IsKnown
<1>8. ASSUME NEW u \in DOMAIN v.found PROVE u \in Users /\ IsKnown(v, v.found[u]) /\ holder[v.found[u].t] = u
  <2>1. \A x \in DOMAIN w.found : x \in Users /\ IsKnown(w, w.found[x]) /\ holder[w.found[x].t] = x
    BY DEF Work
  <2>2. CASE ok /\ holder[c.t] \notin DOMAIN w.found
    <3>1. /\ DOMAIN v.found = DOMAIN w.found \union {holder[c.t]} /\ v.found[holder[c.t]] = c
          /\ \A x \in DOMAIN w.found : v.found[x] = w.found[x]
      BY <1>a, <2>2
    <3>2. CASE u = holder[c.t]
      BY <1>6, <1>7, <3>1, <3>2
    <3>3. CASE u \in DOMAIN w.found
      BY <1>7, <2>1, <3>1, <3>3
    <3> QED
      BY <1>8, <3>1, <3>2, <3>3
  <2>3. CASE ~(ok /\ holder[c.t] \notin DOMAIN w.found)
    <3>1. v.found = w.found
      BY <1>a, <2>3
    <3> QED
      BY <1>7, <1>8, <2>1, <3>1
  <2> QED
    BY <2>2, <2>3
<1>9. \A d \in v.left : IsKnown(v, d)
  BY <1>5, <1>7 DEF Work
<1>10. Work(v)
  BY <1>5, <1>8, <1>9 DEF Work
<1> QED
  BY <1>5, <1>10, <1>a

LEMMA FailingKnown ==
  ASSUME SourcesKnown, NEW w, Work(w), w.at = "identify", NEW c \in w.left, NEW v, v = TriesNext(w, c, FALSE)
  PROVE  v.at = "identify" /\ v.calm = w.calm /\ Work(v)
<1>1. v = [w EXCEPT !.left = {}] \/ v = [w EXCEPT !.left = w.left \ {c}, !.found = w.found]
  BY DEF TriesNext, SkipsFailures, Identified
<1>2. /\ DOMAIN v = WorkFields /\ v.at = "identify" /\ v.kind = w.kind /\ v.user = w.user
      /\ v.attempt = w.attempt /\ v.calm = w.calm /\ v.appHad = w.appHad
      /\ v.left \subseteq w.left /\ v.found = w.found
  <2>1. DOMAIN w = WorkFields
    BY DEF Work
  <2>2. CASE v = [w EXCEPT !.left = {}]
    BY <2>1, <2>2 DEF WorkFields
  <2>3. CASE v = [w EXCEPT !.left = w.left \ {c}, !.found = w.found]
    BY <2>1, <2>3 DEF WorkFields
  <2> QED
    BY <1>1, <2>2, <2>3
<1>3. \A d : IsKnown(v, d) <=> IsKnown(w, d)
  BY <1>2 DEF IsKnown
<1>4. /\ \A d \in v.left : IsKnown(v, d)
      /\ \A u \in DOMAIN v.found : u \in Users /\ IsKnown(v, v.found[u]) /\ holder[v.found[u].t] = u
  BY <1>2, <1>3, ZenonT(60) DEF Work
<1> QED
  BY <1>2, <1>4 DEF Work

(* Trying the next candidate leaves out nothing that is valid.             *)
LEMMA IdentifyKeeps ==
  ASSUME CursorInv, NEW f \in Fetchers, Identify(f)
  PROVE  CursorInv'
<1> DEFINE w == borrower[f]
<1>1. Busy(f) /\ w.at = "identify"
  BY DEF Identify, Busy
<1>2. Work(w) /\ (w.calm => Calm(w))
  BY <1>1, BusyWorks
<1>3. PICK c \in w.left : IsNext(w, c) /\ Proceeds(f, TriesNext(w, c, ~Rejects(c)))
  BY DEF Identify
<1>4. PICK v : v = TriesNext(w, c, ~Rejects(c))
  OBVIOUS
<1>5. PICK ok \in BOOLEAN : ok <=> c.t \in valid
  OBVIOUS
<1>6. v = TriesNext(w, c, ok)
  BY <1>4, <1>5 DEF Rejects
<1> HIDE DEF w
<1>7. SourcesKnown
  BY DEF CursorInv
<1>8. /\ DOMAIN v = WorkFields /\ v.at = "identify" /\ v.kind = w.kind /\ v.user = w.user
      /\ v.attempt = w.attempt /\ v.calm = w.calm /\ v.appHad = w.appHad
      /\ v.left = IF c.source = "manual" /\ ~ok THEN {} ELSE w.left \ {c}
      /\ IF ok /\ holder[c.t] \notin DOMAIN w.found
         THEN /\ DOMAIN v.found = DOMAIN w.found \union {holder[c.t]} /\ v.found[holder[c.t]] = c
              /\ \A u \in DOMAIN w.found : v.found[u] = w.found[u]
         ELSE v.found = w.found
      /\ Work(v)
  BY <1>1, <1>2, <1>6, <1>7, TryingKnown
<1>9. ASSUME w.calm PROVE Thorough(v)
  <2>1. Thorough(w)
    BY <1>1, <1>2, <1>9 DEF Calm
  <2>2. c \in Candidates /\ \A d \in w.left : d \in Candidates /\ c.place <= d.place
    BY <1>3, <2>1 DEF Thorough, IsNext
  <2>3. \A d \in Candidates : d.place \in Nat /\ (d.place = c.place => d = c)
    BY <1>7, <2>2, CandidatesKnown
  <2>4. CASE c.source = "manual" /\ ~ok
    <3>1. Candidates = {c} /\ v.left = {} /\ v.found = w.found /\ c.t \notin valid
      BY <1>5, <1>7, <1>8, <2>2, <2>4, CandidatesKnown
    <3> QED
      BY <2>1, <3>1 DEF Thorough
  <2>5. CASE ~(c.source = "manual" /\ ~ok)
    <3>1. v.left = w.left \ {c}
      BY <1>8, <2>5
    <3>2. \A d \in v.left, e \in Candidates \ v.left : e.place < d.place
      <4>1. \A d \in v.left : c.place < d.place
        BY <2>2, <2>3, <3>1
      <4> QED
        BY <2>1, <3>1, <4>1 DEF Thorough
    <3>3. \A d \in Candidates \ v.left : d.t \in valid => holder[d.t] \in DOMAIN v.found
      BY <1>5, <1>8, <2>1, <3>1 DEF Thorough
    <3>4. ASSUME NEW u \in DOMAIN v.found PROVE IsBest(u, v.found[u])
      <4>1. CASE ok /\ holder[c.t] \notin DOMAIN w.found /\ u = holder[c.t]
        <5>1. ASSUME NEW d \in Candidates, d.t \in valid, holder[d.t] = u PROVE c.place <= d.place
          BY <2>1, <2>2, <4>1, <5>1 DEF Thorough
        <5>2. v.found[u] = c
          BY <1>8, <4>1
        <5> QED
          BY <1>5, <2>2, <4>1, <5>1, <5>2 DEF IsBest
      <4>2. CASE ~(ok /\ holder[c.t] \notin DOMAIN w.found /\ u = holder[c.t])
        <5>1. u \in DOMAIN w.found /\ v.found[u] = w.found[u]
          BY <1>8, <3>4, <4>2
        <5> QED
          BY <2>1, <5>1 DEF Thorough
      <4> QED
        BY <4>1, <4>2
    <3> QED
      BY <2>1, <3>1, <3>2, <3>3, <3>4 DEF Thorough
  <2> QED
    BY <2>4, <2>5
<1>10. w.calm => Calm(v)
  <2>1. w.calm /\ w.kind = "collection" /\ w.user \in Healthy => Retries(v)
    BY <1>1, <1>2, <1>8 DEF Calm, Retries
  <2> QED
    BY <1>8, <1>9, <2>1 DEF Calm
<1>11. Known(v)
  BY <1>8, <1>10 DEF Known, Rests
<1>12. v.calm = borrower[f].calm
  BY <1>8 DEF w
<1> QED
  BY <1>1, <1>3, <1>4, <1>11, <1>12, BorrowStepKeeps DEF w

(* What was found is stored: the best session of each account, while all   *)
(* is calm.                                                                *)
LEMMA StoreFoundKeeps ==
  ASSUME CursorInv, NEW f \in Fetchers, StoreFound(f)
  PROVE  CursorInv'
<1> DEFINE w == borrower[f]
           kept == [u \in Users |-> IF u \in DOMAIN w.found THEN StoredAs(u, w.found[u]) ELSE sessions[u]]
<1>1. Busy(f) /\ w.at = "identify" /\ w.left = {}
  BY DEF StoreFound, Busy
<1>2. Work(w) /\ (w.calm => Calm(w)) /\ (w.calm => Thorough(w))
  BY <1>1, BusyWorks DEF Calm
<1>3. UNCHANGED <<givenVars, appVars, fetches, changes>> /\ UNCHANGED holder
  BY DEF StoreFound, appVars
<1>4. SourcesKnown /\ SessionsKnown /\ CountsKnown
  BY DEF CursorInv
<1>5. \A u \in DOMAIN w.found : u \in Users /\ IsKnown(w, w.found[u]) /\ holder[w.found[u].t] = u
  BY <1>1, <1>2 DEF Work
<1>6. generation' = generation + (IF \E u \in Users : kept[u] # sessions[u] THEN 1 ELSE 0)
  BY DEF StoreFound
<1>7. DOMAIN kept = Users
  OBVIOUS
<1>8. ASSUME NEW u \in Users, u \in DOMAIN w.found
      PROVE  \/ kept[u] = sessions[u] /\ sessions[u].t = w.found[u].t
             \/ /\ kept[u].t = w.found[u].t /\ kept[u].source = w.found[u].source /\ kept[u].gen = generation + 1
                /\ sessions[u].t # w.found[u].t
  BY <1>8 DEF StoredAs
<1>9. \A u \in Users : u \notin DOMAIN w.found => kept[u] = sessions[u]
  OBVIOUS
<1> HIDE DEF kept
<1>10. ASSUME NEW u \in Users, kept[u] # NoSession
       PROVE  Fits(kept[u]) /\ holder[kept[u].t] = u /\ kept[u].gen \in 1 .. generation'
  <2>1. sessions[u] # NoSession => Fits(sessions[u]) /\ holder[sessions[u].t] = u /\ sessions[u].gen \in 1 .. generation
    BY <1>4 DEF SessionsKnown
  <2>2. generation \in Nat /\ generation' \in {generation, generation + 1}
    BY <1>4, <1>6 DEF SessionsKnown
  <2>3. CASE kept[u] = sessions[u]
    BY <1>10, <2>1, <2>2, <2>3
  <2>4. CASE kept[u] # sessions[u]
    <3>1. u \in DOMAIN w.found /\ kept[u].t = w.found[u].t /\ kept[u].source = w.found[u].source /\ kept[u].gen = generation + 1
      BY <1>8, <1>9, <2>4
    <3>2. generation' = generation + 1
      BY <1>6, <2>4
    <3>3. Fits(w.found[u]) /\ holder[w.found[u].t] = u
      BY <1>5, <3>1 DEF IsKnown
    <3> QED
      BY <2>2, <3>1, <3>2, <3>3 DEF Fits
  <2> QED
    BY <2>3, <2>4
<1>11. ASSUME NEW u \in Users, u \in DOMAIN w.found PROVE IsKnown(w, kept[u]) /\ kept[u].t = w.found[u].t
  <2>1. kept[u].t = w.found[u].t /\ IsKnown(w, w.found[u])
    BY <1>5, <1>8, <1>11
  <2>2. kept[u] # NoSession
    BY <2>1, TokensAre DEF IsKnown, Fits, NoSession
  <2> QED
    BY <1>10, <2>1, <2>2 DEF IsKnown, Fits
<1>12. /\ DOMAIN sessions' = Users
       /\ \A u \in Users : sessions'[u] = kept[u] \/ (sessions'[u] = NoSession /\ u \notin DOMAIN w.found)
       /\ w.user \in DOMAIN w.found => sessions' = kept
  <2>1. sessions' = kept \/ (w.user \notin DOMAIN w.found /\ sessions' = RemovedIf(kept, w.user, w.session))
    BY DEF StoreFound, kept
  <2>2. CASE sessions' = kept
    BY <1>7, <2>2
  <2>3. CASE w.user \notin DOMAIN w.found /\ sessions' = RemovedIf(kept, w.user, w.session)
    BY <1>7, <2>3 DEF RemovedIf
  <2> QED
    BY <2>1, <2>2, <2>3
<1>13. SessionsKnown'
  <2>1. generation' \in Nat
    BY <1>4, <1>6 DEF SessionsKnown
  <2>2. ASSUME NEW u \in Users, sessions'[u] # NoSession
        PROVE  Fits(sessions'[u]) /\ holder[sessions'[u].t] = u /\ sessions'[u].gen \in 1 .. generation'
    BY <1>10, <1>12, <2>2
  <2> QED
    BY <1>3, <1>12, <2>1, <2>2 DEF SessionsKnown, Fits
<1>14. CountsKnown'
  BY <1>3, <1>4 DEF CountsKnown
<1>15. ASSUME w.calm, NEW u \in Healthy PROVE u \in DOMAIN w.found
  <2>1. PICK c \in Candidates : c.t \in valid /\ holder[c.t] = u
    BY HealthyHas
  <2> QED
    BY <1>1, <1>2, <1>15, <2>1 DEF Thorough
<1>16. ASSUME w.calm, NEW u \in Users, u \in DOMAIN w.found PROVE BestIn(kept[u], u)
  <2>1. IsBest(u, w.found[u])
    BY <1>2, <1>16 DEF Thorough
  <2> QED
    BY <1>11, <1>16, <2>1 DEF BestIn, IsBest
<1>17. \A s, u : BestIn(s, u)' <=> BestIn(s, u)
  BY <1>3, BestStays
<1>18. w.calm => Improves
  <2> SUFFICES ASSUME w.calm, NEW u \in Users, u \in Healthy, sessions'[u] # sessions[u]
               PROVE  Settled(u)' /\ ~BestIn(sessions[u], u)
    BY DEF Improves
  <2>1. u \in DOMAIN w.found
    BY <1>15
  <2>2. sessions'[u] = kept[u] /\ BestIn(kept[u], u)
    BY <1>12, <1>16, <2>1
  <2>3. Settled(u)'
    BY <1>17, <2>2 DEF Settled
  <2>4. sessions[u].t # w.found[u].t
    BY <1>8, <2>1, <2>2
  <2>5. \A d : IsBest(u, d) => d = w.found[u]
    BY <1>2, <1>4, <2>1, BestIsOne DEF Thorough
  <2>6. ~BestIn(sessions[u], u)
    BY <2>4, <2>5 DEF BestIn
  <2> QED
    BY <2>3, <2>6
<1>19. ASSUME NEW v, Moves(f, v), Known(v)', Rests(v) \/ v.calm = w.calm PROVE CursorInv'
  <2>1. ~Rests(v) => \A g \in Fetchers \ {f} : Busy(g) => (v.calm <=> borrower[g].calm)
    BY <1>1, <1>19 DEF CursorInv, AllAlike
  <2> QED
    BY <1>1, <1>3, <1>13, <1>14, <1>18, <1>19, <2>1, OneMoves
<1>20. ASSUME NEW how \in {"failed", "discovered"}, Moves(f, Outcome(f, how)),
              w.calm => OutcomeTrue([at |-> how, kind |-> w.kind, user |-> w.user, found |-> DOMAIN w.found])
       PROVE  CursorInv'
  <2>1. PICK v : v = Outcome(f, how)
    OBVIOUS
  <2>2. Known(v) /\ Rests(v)
    BY <1>2, <1>20, <2>1, OutcomeTold
  <2>3. Known(v)'
    BY <1>3, <2>2, KnownImproves
  <2> QED
    BY <1>19, <1>20, <2>1, <2>2, <2>3
<1>21. CASE w.found = <<>>
  <2>1. DOMAIN w.found = {}
    BY <1>21
  <2>2. w.calm => Healthy = {}
    BY <1>15, <2>1
  <2>3. w.calm => OutcomeTrue([at |-> "failed", kind |-> w.kind, user |-> w.user, found |-> DOMAIN w.found])
    BY <2>2 DEF OutcomeTrue
  <2>4. Moves(f, Outcome(f, "failed"))
    BY <1>21 DEF StoreFound
  <2> QED
    BY <1>20, <2>3, <2>4
<1>22. CASE w.found # <<>> /\ w.kind = "discovery"
  <2>1. w.calm => OutcomeTrue([at |-> "discovered", kind |-> w.kind, user |-> w.user, found |-> DOMAIN w.found])
    BY <1>15 DEF OutcomeTrue
  <2>2. Moves(f, Outcome(f, "discovered"))
    BY <1>22 DEF StoreFound
  <2> QED
    BY <1>20, <2>1, <2>2
<1>23. CASE w.found # <<>> /\ w.kind = "collection" /\ w.user \notin DOMAIN w.found
  <2>1. w.calm => OutcomeTrue([at |-> "failed", kind |-> w.kind, user |-> w.user, found |-> DOMAIN w.found])
    BY <1>15, <1>23 DEF OutcomeTrue
  <2>2. Moves(f, Outcome(f, "failed"))
    BY <1>23 DEF StoreFound
  <2> QED
    BY <1>20, <2>1, <2>2
<1>24. CASE w.found # <<>> /\ w.kind = "collection" /\ w.user \in DOMAIN w.found
  <2>1. PICK v : Moves(f, v) /\ v = [w EXCEPT !.at = "fetch", !.session = kept[w.user], !.found = <<>>]
    BY <1>24 DEF StoreFound, kept
  <2>2. /\ DOMAIN v = WorkFields /\ v.at = "fetch" /\ v.session = kept[w.user] /\ v.kind = "collection"
        /\ v.user = w.user /\ v.attempt = w.attempt /\ v.calm = w.calm /\ v.appHad = w.appHad
    BY <1>2, <1>24, <2>1 DEF Work, WorkFields
  <2>3. w.user \in Users /\ sessions' = kept
    BY <1>2, <1>12, <1>24 DEF Work
  <2>4. IsKnown(v, v.session) /\ holder[v.session.t] = v.user
    BY <1>5, <1>11, <1>24, <2>2, <2>3 DEF IsKnown
  <2>5. Work(v)
    BY <1>2, <1>24, <2>2, <2>3, <2>4 DEF Work
  <2>6. Work(v)'
    BY <1>3, <2>5 DEF Work, IsKnown, Issued, Fits, givenVars, appVars
  <2>7. w.calm => Retries(v)'
    <3> SUFFICES ASSUME w.calm PROVE Retries(v)'
      OBVIOUS
    <3>1. BestIn(v.session, v.user)' /\ v.session = sessions'[v.user]
      BY <1>16, <1>17, <1>24, <2>2, <2>3
    <3> QED
      BY <2>2, <3>1 DEF Retries, Settled
  <2>8. w.calm => Calm(v)'
    BY <2>2, <2>7 DEF Calm
  <2>9. Known(v)'
    BY <2>2, <2>6, <2>8 DEF Known, Rests
  <2> QED
    BY <1>19, <2>1, <2>2, <2>9
<1> QED
  BY <1>2, <1>21, <1>22, <1>23, <1>24 DEF Work

(* What a collection that has its session works with.                      *)
LEMMA FetchWorks ==
  ASSUME CursorInv, NEW f \in Fetchers, borrower[f].at \in {"fetch", "check"}
  PROVE  LET w == borrower[f] IN
         /\ Busy(f) /\ Work(w) /\ w.kind = "collection" /\ w.user \in Users
         /\ IsKnown(w, w.session) /\ holder[w.session.t] = w.user /\ w.session # NoSession
         /\ w.calm /\ w.user \in Healthy => Retries(w)
<1> DEFINE w == borrower[f]
<1>1. Busy(f)
  BY DEF Busy
<1>2. Work(w) /\ (w.calm => Calm(w))
  BY <1>1, BusyWorks
<1>3. w.kind = "collection" /\ w.user \in Users /\ IsKnown(w, w.session) /\ holder[w.session.t] = w.user
  BY <1>2 DEF Work
<1>4. w.session # NoSession
  BY <1>3, NoSessionFits DEF IsKnown
<1>5. w.calm /\ w.user \in Healthy => Retries(w)
  BY <1>2, <1>3 DEF Calm
<1> QED
  BY <1>1, <1>2, <1>3, <1>4, <1>5

(* It looks for another one.                                               *)
LEMMA AnotherKnown ==
  ASSUME NEW w, Work(w), w.kind = "collection", NEW v, v = [w EXCEPT !.at = "session", !.attempt = 1]
  PROVE  /\ DOMAIN v = WorkFields /\ v.at = "session" /\ v.kind = "collection" /\ v.user = w.user
         /\ v.attempt = 1 /\ v.calm = w.calm /\ v.appHad = w.appHad /\ Work(v)
<1>1. /\ DOMAIN v = WorkFields /\ v.at = "session" /\ v.kind = "collection" /\ v.user = w.user
      /\ v.attempt = 1 /\ v.calm = w.calm /\ v.appHad = w.appHad
  BY DEF Work, WorkFields
<1> QED
  BY <1>1 DEF Work

(* A session that is rejected is not the best one.                         *)
LEMMA IsRejectedKeeps ==
  ASSUME CursorInv, NEW f \in Fetchers, IsRejected(f)
  PROVE  CursorInv'
<1> DEFINE w == borrower[f]
<1>1. w.at = "fetch" /\ w.session.t \notin valid
  BY DEF IsRejected, Rejects
<1>2. /\ Busy(f) /\ Work(w) /\ w.kind = "collection" /\ w.user \in Users
      /\ IsKnown(w, w.session) /\ holder[w.session.t] = w.user /\ w.session # NoSession
      /\ w.calm /\ w.user \in Healthy => Retries(w)
  BY <1>1, FetchWorks
<1>3. UNCHANGED <<givenVars, appVars, generation, fetches, changes>> /\ UNCHANGED holder
  BY DEF IsRejected, appVars
<1>4. \A u : ~BestIn(w.session, u)
  BY <1>1 DEF BestIn, IsBest
<1>5. SessionsKnown /\ CountsKnown
  BY DEF CursorInv
<1>6. \A s, u : BestIn(s, u)' <=> BestIn(s, u)
  BY <1>3, BestStays
<1>7. CASE w.attempt = 0
  <2>1. sessions' = RemovedIf(sessions, w.user, w.session)
    BY <1>7 DEF IsRejected
  <2>2. PICK v : Moves(f, v) /\ v = [w EXCEPT !.at = "session", !.attempt = 1]
    BY <1>7 DEF IsRejected
  <2>3. /\ DOMAIN v = WorkFields /\ v.at = "session" /\ v.kind = "collection" /\ v.user = w.user
        /\ v.attempt = 1 /\ v.calm = w.calm /\ v.appHad = w.appHad /\ Work(v)
    BY <1>2, <2>2, AnotherKnown, ZenonT(60)
  <2>4. /\ DOMAIN sessions' = Users
        /\ \A x \in Users :
             \/ sessions'[x] = sessions[x] /\ (x = w.user => sessions[x] # w.session)
             \/ x = w.user /\ sessions[x] = w.session /\ sessions'[x] = NoSession
    BY <1>2, <1>5, <2>1 DEF RemovedIf, SessionsKnown
  <2>5. SessionsKnown'
    BY <1>3, <1>5, <2>4 DEF SessionsKnown, Fits
  <2>6. Improves
    <3> SUFFICES ASSUME NEW u \in Users, sessions'[u] # sessions[u]
                 PROVE  Settled(u)' /\ ~BestIn(sessions[u], u)
      BY DEF Improves
    <3>1. sessions[u] = w.session /\ sessions'[u] = NoSession
      BY <2>4
    <3> QED
      BY <1>4, <3>1 DEF Settled
  <2>7. Work(v)'
    BY <1>3, <2>3 DEF Work, IsKnown, Issued, Fits, givenVars, appVars
  <2>8. Healthy' = Healthy
    BY <1>3, BestStays
  <2>9. ASSUME w.calm, w.user \in Healthy PROVE Retries(v)'
    <3>0. PICK u \in Users : u = w.user
      BY <1>2
    <3>1. w.session = sessions[u] \/ Settled(u)
      BY <1>1, <1>2, <1>7, <2>9, <3>0 DEF Retries
    <3>2. Settled(u)'
      <4>1. CASE sessions'[u] = NoSession
        BY <4>1 DEF Settled
      <4>2. CASE sessions'[u] # NoSession
        <5>1. sessions'[u] = sessions[u] /\ sessions[u] # w.session
          BY <2>4, <3>0, <4>2
        <5> QED
          BY <1>6, <3>1, <5>1 DEF Settled
      <4> QED
        BY <4>1, <4>2
    <3> QED
      BY <2>3, <3>0, <3>2 DEF Retries
  <2>10. w.calm => Calm(v)'
    BY <2>3, <2>8, <2>9 DEF Calm
  <2>11. Known(v)'
    BY <2>3, <2>7, <2>10 DEF Known, Rests
  <2>12. CountsKnown'
    BY <1>3, <1>5 DEF CountsKnown
  <2>13. \A g \in Fetchers \ {f} : Busy(g) => (v.calm <=> borrower[g].calm)
    BY <1>2, <2>3 DEF CursorInv, AllAlike
  <2> QED
    BY <1>2, <1>3, <2>2, <2>5, <2>6, <2>11, <2>12, <2>13, OneMoves
<1>8. CASE w.attempt # 0
  <2>1. Proceeds(f, Outcome(f, "failed"))
    BY <1>8, <1>3 DEF IsRejected, Proceeds, cacheVars
  <2>2. w.calm => w.user \notin Healthy
    BY <1>1, <1>2, <1>4, <1>8 DEF Retries, Work
  <2>3. w.calm => OutcomeTrue([at |-> "failed", kind |-> w.kind, user |-> w.user, found |-> DOMAIN w.found])
    BY <1>2, <2>2 DEF OutcomeTrue
  <2>4. PICK v : v = Outcome(f, "failed")
    OBVIOUS
  <2>5. Known(v) /\ Rests(v)
    BY <1>2, <2>3, <2>4, OutcomeTold
  <2> QED
    BY <1>2, <2>1, <2>4, <2>5, BorrowStepKeeps
<1> QED
  BY <1>7, <1>8

(* What is fetched with a session is checked against the cache.            *)
LEMMA IsFetchedKeeps ==
  ASSUME CursorInv, NEW f \in Fetchers, IsFetched(f)
  PROVE  CursorInv'
<1> DEFINE w == borrower[f]
<1>1. w.at = "fetch" /\ w.session.t \in valid
  BY DEF IsFetched, Rejects
<1>2. /\ Busy(f) /\ Work(w) /\ w.kind = "collection" /\ w.user \in Users
      /\ IsKnown(w, w.session) /\ holder[w.session.t] = w.user /\ w.session # NoSession
      /\ w.calm /\ w.user \in Healthy => Retries(w)
  BY <1>1, FetchWorks
<1>3. PICK v : Proceeds(f, v) /\ v = [w EXCEPT !.at = "check"]
  BY DEF IsFetched
<1>4. /\ DOMAIN v = WorkFields /\ v.at = "check" /\ v.kind = "collection" /\ v.user = w.user /\ v.session = w.session
      /\ v.attempt = w.attempt /\ v.calm = w.calm /\ v.appHad = w.appHad
  BY <1>2, <1>3 DEF Work, WorkFields
<1>5. Work(v)
  BY <1>2, <1>4 DEF Work, IsKnown
<1>6. w.calm /\ w.user \in Healthy => Retries(v)
  BY <1>1, <1>2, <1>4 DEF Retries
<1>7. Known(v)
  BY <1>4, <1>5, <1>6 DEF Known, Rests, Calm
<1> QED
  BY <1>2, <1>3, <1>4, <1>7, BorrowStepKeeps

(* A session that was replaced is replaced by the best one.                *)
LEMMA CheckCachedKeeps ==
  ASSUME CursorInv, NEW f \in Fetchers, CheckCached(f)
  PROVE  CursorInv'
<1> DEFINE w == borrower[f]
<1>1. w.at = "check"
  BY DEF CheckCached
<1>2. /\ Busy(f) /\ Work(w) /\ w.kind = "collection" /\ w.user \in Users
      /\ IsKnown(w, w.session) /\ holder[w.session.t] = w.user /\ w.session # NoSession
      /\ w.calm /\ w.user \in Healthy => Retries(w)
  BY <1>1, FetchWorks
<1>3. CASE sessions[w.user] = w.session
  <2>1. PICK v : Proceeds(f, v) /\ v = [at |-> "collected", user |-> w.user, session |-> w.session, appHad |-> w.appHad]
    BY <1>3 DEF CheckCached, Outcome
  <2>2. Known(v) /\ Rests(v)
    BY <1>2, <2>1 DEF Known, Rests, OutcomeTrue, IsKnown
  <2> QED
    BY <1>2, <2>1, <2>2, BorrowStepKeeps
<1>4. CASE sessions[w.user] # w.session /\ w.attempt = 0
  <2>1. PICK v : Proceeds(f, v) /\ v = [w EXCEPT !.at = "session", !.attempt = 1]
    BY <1>4 DEF CheckCached
  <2>2. /\ DOMAIN v = WorkFields /\ v.at = "session" /\ v.kind = "collection" /\ v.user = w.user
        /\ v.attempt = 1 /\ v.calm = w.calm /\ v.appHad = w.appHad /\ Work(v)
    BY <1>2, <2>1, AnotherKnown, ZenonT(60)
  <2>3. w.calm /\ w.user \in Healthy => Retries(v)
    BY <1>1, <1>2, <1>4, <2>2 DEF Retries
  <2>4. Known(v)
    BY <2>2, <2>3 DEF Known, Rests, Calm
  <2> QED
    BY <1>2, <2>1, <2>2, <2>4, BorrowStepKeeps
<1>5. CASE sessions[w.user] # w.session /\ w.attempt # 0
  <2>1. Proceeds(f, Outcome(f, "failed"))
    BY <1>5 DEF CheckCached
  <2>2. w.calm => w.user \notin Healthy
    BY <1>1, <1>2, <1>5 DEF Retries, Work
  <2>3. w.calm => OutcomeTrue([at |-> "failed", kind |-> w.kind, user |-> w.user, found |-> DOMAIN w.found])
    BY <1>2, <2>2 DEF OutcomeTrue
  <2>4. PICK v : v = Outcome(f, "failed")
    OBVIOUS
  <2>5. Known(v) /\ Rests(v)
    BY <1>2, <2>3, <2>4, OutcomeTold
  <2> QED
    BY <1>2, <2>1, <2>4, <2>5, BorrowStepKeeps
<1> QED
  BY <1>3, <1>4, <1>5

(* What a disturbance leaves of what is under way.                         *)
LEMMA DisturbedWork ==
  ASSUME NEW w, Work(w), NEW had, NEW v, v = [w EXCEPT !.calm = FALSE, !.appHad = w.appHad \union had],
         \A t : Issued(t) => Issued(t)' /\ holder'[t] = holder[t],
         app' \in {NoToken, Damaged} \union had \/ app' = app
  PROVE  v.at = w.at /\ v.calm = FALSE /\ Work(v)'
<1>1. /\ DOMAIN v = WorkFields /\ v.at = w.at /\ v.kind = w.kind /\ v.user = w.user /\ v.session = w.session
      /\ v.left = w.left /\ v.found = w.found
      /\ v.attempt = w.attempt /\ v.calm = FALSE /\ v.appHad = w.appHad \union had
  BY DEF Work, WorkFields
<1>2. \A c : IsKnown(w, c) => IsKnown(v, c)' /\ holder'[c.t] = holder[c.t]
  BY <1>1 DEF IsKnown, Fits
<1>3. app' \in {NoToken, Damaged} \union v.appHad
  BY <1>1 DEF Work
<1>4. v.at = "identify" =>
        /\ \A c \in v.left : IsKnown(v, c)'
        /\ \A u \in DOMAIN v.found : u \in Users /\ IsKnown(v, v.found[u])' /\ holder'[v.found[u].t] = u
  BY <1>1, <1>2 DEF Work
<1>5. v.at \in {"fetch", "check"} => IsKnown(v, v.session)' /\ holder'[v.session.t] = v.user
  BY <1>1, <1>2 DEF Work
<1> QED
  BY <1>1, <1>3, <1>4, <1>5 DEF Work

(* Nothing more is said of whatever was under way.                         *)
LEMMA UpsetKeeps ==
  ASSUME CursorInv, SourcesKnown', SessionsKnown', CountsKnown', DOMAIN borrower' = Fetchers,
         \A f \in Fetchers : IF Busy(f) THEN ~Rests(borrower[f])' /\ borrower'[f].calm = FALSE /\ Work(borrower[f])'
                            ELSE borrower'[f] = AtRest
  PROVE  CursorInv'
<1>1. Rests(AtRest) /\ OutcomeTrue(AtRest)'
  BY DEF Rests, OutcomeTrue, AtRest
<1>2. ASSUME NEW f \in Fetchers PROVE Known(borrower[f])' /\ (Busy(f)' => borrower'[f].calm = FALSE)
  <2>1. CASE Busy(f)
    BY <2>1 DEF Known
  <2>2. CASE ~Busy(f)
    <3>1. borrower'[f] = AtRest
      BY <2>2
    <3>2. PICK v : v = AtRest
      OBVIOUS
    <3>3. Known(v)'
      BY <1>1, <3>2 DEF Known, Rests
    <3>4. ~Busy(f)'
      BY <3>1 DEF Busy, AtRest
    <3> QED
      BY <3>1, <3>2, <3>3, <3>4
  <2> QED
    BY <2>1, <2>2
<1> QED
  BY <1>2 DEF CursorInv, BorrowersKnown, AllAlike

LEMMA DisturbedKeeps ==
  ASSUME CursorInv, NEW had, SourcesKnown', SessionsKnown', CountsKnown', borrower' = Disturbed(had),
         \A t : Issued(t) => Issued(t)' /\ holder'[t] = holder[t],
         app' \in {NoToken, Damaged} \union had \/ app' = app
  PROVE  CursorInv'
<1>1. DOMAIN borrower' = Fetchers
  BY DEF Disturbed
<1>2. ASSUME NEW f \in Fetchers, Busy(f)
      PROVE  ~Rests(borrower[f])' /\ borrower'[f].calm = FALSE /\ Work(borrower[f])'
  <2>1. PICK w : w = borrower[f]
    OBVIOUS
  <2>2. PICK v : v = [w EXCEPT !.calm = FALSE, !.appHad = w.appHad \union had]
    OBVIOUS
  <2>3. borrower'[f] = v
    BY <1>2, <2>1, <2>2 DEF Disturbed
  <2>4. Work(w)
    BY <1>2, <2>1, BusyWorks
  <2>5. v.at = w.at /\ v.calm = FALSE /\ Work(v)'
    BY <2>2, <2>4, DisturbedWork, ZenonT(60)
  <2>6. ~Rests(v)
    BY <1>2, <2>1, <2>5 DEF Rests, Busy
  <2> QED
    BY <2>3, <2>5, <2>6
<1>3. \A f \in Fetchers : ~Busy(f) => borrower'[f] = AtRest
  BY DEF Disturbed
<1> QED
  BY <1>1, <1>2, <1>3, UpsetKeeps

(* Where the sources stay as they are, so does what is known of them.      *)
LEMMA SourcesStay ==
  ASSUME SourcesKnown, UNCHANGED <<givenVars, app, holder>>, valid' \subseteq valid
  PROVE  SourcesKnown' /\ \A t : Issued(t)' <=> Issued(t)
<1>1. UNCHANGED <<manual, browsers, app, holder>>
  BY DEF givenVars
<1> QED
  BY <1>1 DEF SourcesKnown, BrowserSessions, Issued

LEMMA UpsetCounts ==
  ASSUME CountsKnown, Upsets
  PROVE  CountsKnown' /\ UNCHANGED <<givenVars, fetches>>
BY CursorAssumption DEF CountsKnown, Upsets

(* A request fails.                                                        *)
LEMMA RequestFailsKeeps ==
  ASSUME CursorInv, NEW f \in Fetchers, RequestFails(f)
  PROVE  CursorInv'
<1> DEFINE w == borrower[f]
<1>1. Upsets /\ UNCHANGED <<appVars, cacheVars>>
  BY DEF RequestFails
<1>2. CountsKnown' /\ UNCHANGED <<givenVars, fetches>>
  BY <1>1, UpsetCounts DEF CursorInv
<1>3. UNCHANGED <<givenVars, app, holder, valid, sessions, generation>>
  BY <1>1, <1>2 DEF appVars, cacheVars
<1>4. SourcesKnown' /\ \A t : Issued(t)' <=> Issued(t)
  BY <1>3, SourcesStay DEF CursorInv
<1>5. SessionsKnown'
  BY <1>3 DEF CursorInv, SessionsKnown
<1>6. CASE w.at = "fetch" /\ Moves(f, AtRest)
  <2>1. PICK v : v = AtRest
    OBVIOUS
  <2>2. Known(v)' /\ Rests(v)
    BY <2>1 DEF Known, Rests, OutcomeTrue, AtRest
  <2> QED
    BY <1>1, <1>2, <1>3, <1>5, <1>6, <2>1, <2>2, OneMoves
<1>7. CASE w.at = "identify" /\ \E c \in w.left :
             borrower' = [Disturbed({}) EXCEPT ![f] = TriesNext([w EXCEPT !.calm = FALSE], c, FALSE)]
  <2>1. PICK c \in w.left : borrower' = [Disturbed({}) EXCEPT ![f] = TriesNext([w EXCEPT !.calm = FALSE], c, FALSE)]
    BY <1>7
  <2>2. PICK x : x = [w EXCEPT !.calm = FALSE]
    OBVIOUS
  <2>3. PICK v : v = TriesNext(x, c, FALSE)
    OBVIOUS
  <2>4. Busy(f) /\ Work(w)
    BY <1>7, BusyWorks DEF Busy
  <2>5. /\ DOMAIN x = WorkFields /\ x.at = w.at /\ x.kind = w.kind /\ x.user = w.user /\ x.session = w.session
        /\ x.left = w.left /\ x.found = w.found /\ x.attempt = w.attempt /\ x.calm = FALSE /\ x.appHad = w.appHad
    BY <2>2, <2>4 DEF Work, WorkFields
  <2>6. Work(x)
    BY <2>4, <2>5 DEF Work, IsKnown
  <2>7. v.at = "identify" /\ v.calm = x.calm /\ Work(v)
    <3>1. c \in x.left /\ x.at = "identify" /\ SourcesKnown
      BY <1>7, <2>1, <2>5 DEF CursorInv
    <3> QED
      BY <2>3, <2>6, <3>1, FailingKnown
  <2>8. Work(v)'
    BY <1>3, <2>7 DEF Work, IsKnown, Issued, Fits
  <2>9. DOMAIN borrower' = Fetchers /\ borrower'[f] = v /\ \A g \in Fetchers \ {f} : borrower'[g] = Disturbed({})[g]
    BY <2>1, <2>2, <2>3 DEF Disturbed
  <2>10. ASSUME NEW g \in Fetchers, g # f, Busy(g)
         PROVE  ~Rests(borrower[g])' /\ borrower'[g].calm = FALSE /\ Work(borrower[g])'
    <3>1. PICK y : y = borrower[g]
      OBVIOUS
    <3>2. PICK z : z = [y EXCEPT !.calm = FALSE, !.appHad = y.appHad \union {}]
      OBVIOUS
    <3>3. borrower'[g] = z
      BY <2>9, <2>10, <3>1, <3>2 DEF Disturbed
    <3>4. Work(y)
      BY <2>10, <3>1, BusyWorks
    <3>5. z.at = y.at /\ z.calm = FALSE /\ Work(z)'
      BY <1>3, <1>4, <3>2, <3>4, DisturbedWork
    <3>6. ~Rests(z)
      BY <2>10, <3>1, <3>5 DEF Rests, Busy
    <3> QED
      BY <3>3, <3>5, <3>6
  <2>11. \A g \in Fetchers : ~Busy(g) => borrower'[g] = AtRest
    BY <2>4, <2>9 DEF Disturbed
  <2>12. ~Rests(borrower[f])' /\ borrower'[f].calm = FALSE /\ Work(borrower[f])'
    BY <2>5, <2>7, <2>8, <2>9 DEF Rests
  <2> QED
    BY <1>2, <1>4, <1>5, <2>9, <2>10, <2>11, <2>12, UpsetKeeps
<1> QED
  BY <1>6, <1>7 DEF RequestFails

(* Another signs in at the app, or nobody.                                 *)
LEMMA AppChangesKeeps ==
  ASSUME CursorInv, AppChanges
  PROVE  CursorInv'
<1>1. Upsets /\ UNCHANGED cacheVars /\ manual = NoToken /\ SourcesKnown /\ SessionsKnown
  BY DEF AppChanges, CursorInv
<1>2. CountsKnown' /\ UNCHANGED <<givenVars, fetches>>
  BY <1>1, UpsetCounts DEF CursorInv
<1>3. UNCHANGED <<manual, browsers, sessions, generation>>
  BY <1>1, <1>2 DEF givenVars, cacheVars
<1>4. CASE app' = NoToken /\ UNCHANGED <<holder, valid>> /\ borrower' = Disturbed({})
  <2>1. \A t : Issued(t)' <=> Issued(t)
    BY <1>4 DEF Issued
  <2>2. SourcesKnown'
    BY <1>1, <1>3, <1>4 DEF SourcesKnown, BrowserSessions, Issued
  <2>3. SessionsKnown'
    BY <1>1, <1>3, <1>4 DEF SessionsKnown
  <2> QED
    BY <1>2, <1>4, <2>1, <2>2, <2>3, DisturbedKeeps
<1>5. ASSUME NEW t \in AllTokens, NEW u \in Users, holder[t] = NoUser, t > 2,
             app' = t, holder' = [holder EXCEPT ![t] = u], valid' = valid \union {t}, borrower' = Disturbed({t})
      PROVE  CursorInv'
  <2>1. holder' \in [AllTokens -> Users \union {NoUser}] /\ holder'[t] = u /\ \A x \in AllTokens : x # t => holder'[x] = holder[x]
    BY <1>1, <1>5 DEF SourcesKnown
  <2>2. \A x : Issued(x) => Issued(x)' /\ holder'[x] = holder[x]
    BY <1>5, <2>1, CursorAssumption DEF Issued
  <2>3. Issued(t)'
    BY <1>5, <2>1 DEF Issued
  <2>4. SourcesKnown'
    <3>1. \A i : BrowserSessions(i)' = BrowserSessions(i)
      BY <1>3 DEF BrowserSessions
    <3> QED
      BY <1>1, <1>3, <1>5, <2>1, <2>2, <2>3, <3>1 DEF SourcesKnown
  <2>5. SessionsKnown'
    <3>1. ASSUME NEW x \in Users, sessions[x] # NoSession PROVE holder'[sessions[x].t] = x
      <4>1. Fits(sessions[x]) /\ holder[sessions[x].t] = x
        BY <1>1, <3>1 DEF SessionsKnown
      <4>2. Issued(sessions[x].t)
        BY <3>1, <4>1 DEF Issued, Fits
      <4> QED
        BY <2>2, <4>1, <4>2
    <3> QED
      BY <1>1, <1>3, <3>1 DEF SessionsKnown, Fits
  <2> QED
    BY <1>2, <1>5, <2>2, <2>4, <2>5, DisturbedKeeps
<1> QED
  BY <1>4, <1>5 DEF AppChanges

(* A token is revoked, or the cache is emptied.                            *)
LEMMA RevokeKeeps ==
  ASSUME CursorInv, NEW t, Revoke(t)
  PROVE  CursorInv'
<1>1. /\ Upsets /\ UNCHANGED <<app, holder, cacheVars>> /\ valid' = valid \ {t} /\ borrower' = Disturbed({})
      /\ SourcesKnown /\ SessionsKnown
  BY DEF Revoke, CursorInv
<1>2. CountsKnown' /\ UNCHANGED <<givenVars, fetches>>
  BY <1>1, UpsetCounts DEF CursorInv
<1>3. SourcesKnown' /\ \A x : Issued(x)' <=> Issued(x)
  BY <1>1, <1>2, SourcesStay
<1>4. SessionsKnown'
  BY <1>1 DEF SessionsKnown, cacheVars
<1> QED
  BY <1>1, <1>2, <1>3, <1>4, DisturbedKeeps

LEMMA InvalidateKeeps ==
  ASSUME CursorInv, Invalidate
  PROVE  CursorInv'
<1>1. /\ Upsets /\ UNCHANGED <<appVars, generation>> /\ borrower' = Disturbed({})
      /\ sessions' = [u \in Users |-> NoSession] /\ SourcesKnown /\ SessionsKnown
  BY DEF Invalidate, CursorInv
<1>2. CountsKnown' /\ UNCHANGED <<givenVars, fetches>>
  BY <1>1, UpsetCounts DEF CursorInv
<1>3. UNCHANGED <<app, holder, valid>>
  BY <1>1 DEF appVars
<1>4. SourcesKnown' /\ \A x : Issued(x)' <=> Issued(x)
  BY <1>1, <1>2, <1>3, SourcesStay
<1>5. SessionsKnown'
  BY <1>1 DEF SessionsKnown
<1> QED
  BY <1>1, <1>2, <1>3, <1>4, <1>5, DisturbedKeeps

(* Nobody borrows anything at first.                                       *)
LEMMA CookieIsOne ==
  ASSUME NEW rows \in Seq(Int), NEW a \in CookieOf(rows), NEW b \in CookieOf(rows)
  PROVE  a = b
<1>1. PICK m \in FreshCookies(rows) : a = rows[m] /\ \A n \in FreshCookies(rows) : m <= n
  BY DEF CookieOf
<1>2. PICK k \in FreshCookies(rows) : b = rows[k] /\ \A n \in FreshCookies(rows) : k <= n
  BY DEF CookieOf
<1>3. m \in Nat /\ k \in Nat
  BY DEF FreshCookies
<1> QED
  BY <1>1, <1>2, <1>3

LEMMA CursorStarts ==
  ASSUME CursorInit
  PROVE  CursorInv
<1>1. /\ manual \in {NoToken, 1} /\ app \in {NoToken, 3, Damaged}
      /\ browsers \in {<<<<>>, <<>>>>, <<<<Stale, 1>>, <<2>>>>, <<<<Locked, 1>>, <<2>>>>}
      /\ manual # NoToken => app = NoToken /\ browsers = <<<<>>, <<>>>>
      /\ holder \in [AllTokens -> Users \union {NoUser}]
      /\ valid \in SUBSET {t \in AllTokens : holder[t] # NoUser}
      /\ \A t \in AllTokens : holder[t] # NoUser <=> t \in {manual, app} \/ InBrowser(t)
  BY DEF CursorInit
<1>2. /\ DOMAIN browsers = {1, 2}
      /\ \A i \in DOMAIN browsers : browsers[i] \in Seq(Int) /\ \A j \in DOMAIN browsers[i] : browsers[i][j] < 3
  <2> DEFINE Small(r) == r \in Seq(Int) /\ \A j \in DOMAIN r : r[j] < 3
  <2>1. /\ DOMAIN browsers = {1, 2}
        /\ browsers[1] \in {<<>>, <<Stale, 1>>, <<Locked, 1>>} /\ browsers[2] \in {<<>>, <<2>>}
    <3>1. CASE browsers = <<<<>>, <<>>>>
      BY <3>1
    <3>2. CASE browsers = <<<<Stale, 1>>, <<2>>>>
      BY <3>2
    <3>3. CASE browsers = <<<<Locked, 1>>, <<2>>>>
      BY <3>3
    <3> QED
      BY <1>1, <3>1, <3>2, <3>3
  <2>2. Small(<<>>)
    OBVIOUS
  <2>3. Small(<<2>>)
    OBVIOUS
  <2>4. Small(<<-2, 1>>)
    OBVIOUS
  <2>5. Small(<<-3, 1>>)
    OBVIOUS
  <2>6. ASSUME NEW i \in DOMAIN browsers PROVE Small(browsers[i])
    <3>1. Small(browsers[1]) /\ Small(browsers[2])
      BY <2>1, <2>2, <2>3, <2>4, <2>5 DEF Stale, Locked
    <3> QED
      BY <2>1, <2>6, <3>1
  <2> QED
    BY <2>1, <2>6
<1>3. \A t \in AllTokens : (t \in {manual, app} \/ InBrowser(t)) => Issued(t)
  BY <1>1 DEF Issued
<1>4. ASSUME NEW i \in DOMAIN browsers, NEW c \in BrowserSessions(i)
      PROVE  c.t < 3 /\ Issued(c.t)
  <2>1. c.t \in AllTokens /\ \E j \in DOMAIN browsers[i] : c.t = browsers[i][j]
    BY <1>4 DEF BrowserSessions, Candidate, CookieOf, FreshCookies
  <2>2. InBrowser(c.t)
    BY <1>4, <2>1, <1>2 DEF InBrowser, ToSet
  <2> QED
    BY <1>2, <1>3, <1>4, <2>1, <2>2
<1>5. ASSUME NEW i \in DOMAIN browsers, NEW c \in BrowserSessions(i), NEW d \in BrowserSessions(i)
      PROVE  c = d
  <2>1. browsers[i] \in Seq(Int)
    BY <1>2, <1>5
  <2>2. c.t \in CookieOf(browsers[i]) /\ d.t \in CookieOf(browsers[i])
    BY <1>5 DEF BrowserSessions, Candidate
  <2>3. c.t = d.t
    BY <2>1, <2>2, CookieIsOne
  <2> QED
    BY <1>5, <2>3 DEF BrowserSessions, Candidate
<1>6. SourcesKnown
  <2>1. manual # NoToken => app = NoToken /\ Issued(manual)
    BY <1>1, <1>3, TokensAre
  <2>2. app \in {NoToken, Damaged} \/ (app > 2 /\ Issued(app))
    BY <1>1, <1>3, TokensAre
  <2>3. \A i \in DOMAIN browsers : i \in Nat \ {0}
    BY <1>2
  <2>4. \A t \in valid : Issued(t)
    BY <1>1 DEF Issued
  <2> QED
    BY <1>1, <1>4, <1>5, <2>1, <2>2, <2>3, <2>4 DEF SourcesKnown
<1>7. /\ sessions = [u \in Users |-> NoSession] /\ generation = 0
      /\ borrower = [f \in Fetchers |-> AtRest] /\ fetches = 0 /\ changes = 0
  BY DEF CursorInit
<1>8. SessionsKnown /\ CountsKnown
  BY <1>7, CursorAssumption DEF SessionsKnown, CountsKnown
<1>9. \A f \in Fetchers : Known(AtRest) /\ borrower[f] = AtRest /\ ~Busy(f)
  BY <1>7 DEF Known, Rests, OutcomeTrue, AtRest, Busy
<1>10. BorrowersKnown /\ AllAlike
  BY <1>7, <1>9 DEF BorrowersKnown, AllAlike
<1> QED
  BY <1>6, <1>8, <1>10 DEF CursorInv

(* What a step that changes nothing keeps.                                 *)
LEMMA CursorStutters ==
  ASSUME CursorInv, UNCHANGED cursorVars
  PROVE  CursorInv'
<1>1. UNCHANGED <<givenVars, appVars, sessions, manual, browsers, app, holder, valid, generation, borrower, fetches, changes>>
  BY DEF cursorVars, givenVars, appVars, cacheVars
<1>2. SourcesKnown' /\ SessionsKnown' /\ CountsKnown' /\ AllAlike'
  BY <1>1 DEF CursorInv, SourcesKnown, SessionsKnown, CountsKnown, AllAlike, BrowserSessions, Issued, Busy
<1>3. ASSUME NEW f \in Fetchers PROVE Known(borrower[f])'
  <2>1. PICK w : w = borrower[f] /\ Known(w)
    BY DEF CursorInv, BorrowersKnown
  <2>2. Known(w)'
    BY <1>1, <2>1, KnownStays
  <2> QED
    BY <1>1, <2>1, <2>2
<1>4. DOMAIN borrower' = Fetchers
  BY <1>1 DEF CursorInv, BorrowersKnown
<1> QED
  BY <1>2, <1>3, <1>4 DEF CursorInv, BorrowersKnown

LEMMA CursorSteps ==
  ASSUME CursorInv, CursorNext
  PROVE  CursorInv'
<1>1. ASSUME NEW f \in Fetchers,
             Borrow(f) \/ TakeSession(f) \/ LoadCandidates(f) \/ Identify(f) \/ StoreFound(f)
             \/ IsRejected(f) \/ IsFetched(f) \/ CheckCached(f) \/ RequestFails(f)
      PROVE  CursorInv'
  BY <1>1, BorrowKeeps, TakeSessionKeeps, LoadKeeps, IdentifyKeeps, StoreFoundKeeps,
     IsRejectedKeeps, IsFetchedKeeps, CheckCachedKeeps, RequestFailsKeeps
<1> QED
  BY <1>1, AppChangesKeeps, InvalidateKeeps, RevokeKeeps DEF CursorNext

(* What it says of the sign-ins that are borrowed.                         *)
LEMMA CursorInvSound ==
  ASSUME CursorInv
  PROVE  CursorSound
<1>1. CursorTypeOK
  <2>1. app \in AllTokens \union {NoToken, Damaged} /\ valid \subseteq AllTokens
    BY DEF CursorInv, SourcesKnown, Issued
  <2>2. holder \in [AllTokens -> Users \union {NoUser}]
    BY DEF CursorInv, SourcesKnown
  <2> QED
    BY <2>1, <2>2 DEF CursorInv, SessionsKnown, CountsKnown, CursorTypeOK
<1>2. ASSUME NEW f \in Fetchers, Rests(borrower[f]) PROVE OutcomeTrue(borrower[f])
  BY <1>2 DEF CursorInv, BorrowersKnown, Known
<1>3. CollectedAsItself
  BY <1>2 DEF CollectedAsItself, OutcomeTrue, Rests
<1>4. HealthyNeverMasked
  BY <1>2 DEF HealthyNeverMasked, OutcomeTrue, Rests
<1> QED
  BY <1>1, <1>3, <1>4 DEF CursorSound

(* A borrowed sign-in is used for its own account only, and one that fails *)
(* masks none that is healthy, whatever is cached and however discoveries  *)
(* and collections overlap (discover_and_cache, collect_usage), for any    *)
(* number of them and any accounts.                                        *)
THEOREM SessionsAreSound == CursorSpec => []CursorSound
<1>1. CursorInit => CursorInv
  BY CursorStarts
<1>2. CursorInv /\ [CursorNext]_cursorVars => CursorInv'
  BY CursorSteps, CursorStutters
<1>3. CursorInv => CursorSound
  BY CursorInvSound
<1> QED
  BY <1>1, <1>2, <1>3, PTL DEF CursorSpec
=============================================================================
