------------------------------ MODULE AppProofs -------------------------------
(***************************************************************************)
(* Proofs about the menu bar app: how it keeps a daemon running            *)
(* (DaemonSupervisor), how it keeps what it shows up to date (AppRecovery) *)
(* and both together (MCApp), for any number of callers, launch attempts,  *)
(* restarts, daemons and providers.                                        *)
(***************************************************************************)
EXTENDS MCApp, TLAPS

(* The supervisor.  What its operators make of its state.                  *)
LEMMA ActorMoves ==
  ASSUME NEW a \in Actor
  PROVE  /\ Stopped(a) \in Actor /\ Stopped(a).kind = "stopped" /\ Stopped(a).daemon = None
         /\ Stopped(a).generation = a.generation /\ Stopped(a).failures = a.failures
         /\ Stopped(a).recovery = a.recovery /\ Stopped(a).stability = a.stability
         /\ \A g \in Generation, d \in Daemons \union {None} :
              /\ Running(a, g, d) \in Actor /\ Running(a, g, d).kind = "running" /\ Running(a, g, d).daemon = d
              /\ Running(a, g, d).generation = a.generation /\ Running(a, g, d).failures = a.failures
              /\ Running(a, g, d).recovery = a.recovery
         /\ a.generation < MaxGeneration =>
              /\ Starting(a) \in Actor /\ Starting(a).kind = "starting" /\ Starting(a).launch = a.generation + 1
              /\ Starting(a).generation = a.generation + 1 /\ Starting(a).daemon = None
              /\ Starting(a).failures = a.failures /\ Starting(a).recovery = None
         /\ Backoff(a) \in Actor /\ Backoff(a).kind = "backingOff" /\ Backoff(a).daemon = None
         /\ Backoff(a).generation = a.generation
         /\ Backoff(a).failures > a.failures \/ (Backoff(a).failures = a.failures /\ a.failures > MaxRestarts)
         /\ Backoff(a).recovery = IF Backoff(a).failures <= MaxRestarts THEN a.generation ELSE None
<1>0. /\ a.generation \in Generation /\ a.failures \in 0 .. MaxRestarts + 1 /\ a.recovery \in Generation \union {None}
      /\ a.stability \in Generation \union {None} /\ MaxGeneration \in Nat /\ MaxRestarts \in Nat
  BY SupervisorAssumption DEF Actor
<1>1. /\ Stopped(a) \in Actor /\ Stopped(a).kind = "stopped" /\ Stopped(a).daemon = None
      /\ Stopped(a).generation = a.generation /\ Stopped(a).failures = a.failures
      /\ Stopped(a).recovery = a.recovery /\ Stopped(a).stability = a.stability
  BY DEF Stopped, Actor
<1>2. ASSUME NEW g \in Generation, NEW d \in Daemons \union {None}
      PROVE  /\ Running(a, g, d) \in Actor /\ Running(a, g, d).kind = "running" /\ Running(a, g, d).daemon = d
             /\ Running(a, g, d).generation = a.generation /\ Running(a, g, d).failures = a.failures
             /\ Running(a, g, d).recovery = a.recovery
  BY <1>1 DEF Running, Actor
<1>3. ASSUME a.generation < MaxGeneration
      PROVE  /\ Starting(a) \in Actor /\ Starting(a).kind = "starting" /\ Starting(a).launch = a.generation + 1
             /\ Starting(a).generation = a.generation + 1 /\ Starting(a).daemon = None
             /\ Starting(a).failures = a.failures /\ Starting(a).recovery = None
  <2>1. a.generation + 1 \in Generation
    BY <1>0, <1>3 DEF Generation
  <2>2. Starting(a) = [Stopped(a) EXCEPT !.kind = "starting", !.generation = a.generation + 1,
                                          !.launch = a.generation + 1, !.recovery = None]
    BY <1>1 DEF Starting, Actor
  <2> QED
    BY <1>1, <2>1, <2>2 DEF Actor
<1>4. /\ Backoff(a) \in Actor /\ Backoff(a).kind = "backingOff" /\ Backoff(a).daemon = None
      /\ Backoff(a).generation = a.generation
      /\ Backoff(a).failures > a.failures \/ (Backoff(a).failures = a.failures /\ a.failures > MaxRestarts)
      /\ Backoff(a).recovery = IF Backoff(a).failures <= MaxRestarts THEN a.generation ELSE None
  <2> DEFINE failures == IF a.failures > MaxRestarts THEN a.failures ELSE a.failures + 1
  <2>1. failures \in 0 .. MaxRestarts + 1
    BY <1>0
  <2>2. Backoff(a) = [Stopped(a) EXCEPT !.kind = "backingOff", !.stability = None, !.failures = failures,
                                        !.recovery = IF failures <= MaxRestarts THEN a.generation ELSE None]
    BY DEF Backoff
  <2>3. failures > a.failures \/ (failures = a.failures /\ a.failures > MaxRestarts)
    BY <1>0
  <2> HIDE DEF failures
  <2>4. /\ Backoff(a) \in Actor /\ Backoff(a).kind = "backingOff" /\ Backoff(a).daemon = None
        /\ Backoff(a).generation = a.generation /\ Backoff(a).failures = failures
        /\ Backoff(a).recovery = IF failures <= MaxRestarts THEN a.generation ELSE None
    BY <1>0, <1>1, <2>1, <2>2 DEF Actor
  <2> QED
    BY <2>3, <2>4
<1> QED
  BY <1>1, <1>2, <1>3, <1>4

(* The states that calls and startups are put in.                          *)
LEMMA TaskMoves ==
  /\ NewTask \in Task /\ NewTask.pc = "done" /\ NewTask.child = None /\ NewTask.victims = {} /\ NewTask.op = "restart"
  /\ \A b \in BOOLEAN : /\ Answered(b) \in Task /\ Answered(b).pc = "done" /\ Answered(b).child = None
                        /\ Answered(b).victims = {} /\ Answered(b).op = "restart" /\ Answered(b).answer = b
  /\ \A s \in Startups : /\ Awaiting(s) \in Task /\ Awaiting(s).pc = "waiting" /\ Awaiting(s).on = s
                         /\ Awaiting(s).child = None /\ Awaiting(s).victims = {} /\ Awaiting(s).op = "restart"
<1>0. 0 \in 0 .. LaunchAttempts - 1
  BY SupervisorAssumption
<1>1. NewTask \in Task /\ NewTask.pc = "done" /\ NewTask.child = None /\ NewTask.victims = {} /\ NewTask.op = "restart"
  BY <1>0 DEF NewTask, Task
<1>2. ASSUME NEW b \in BOOLEAN
      PROVE  /\ Answered(b) \in Task /\ Answered(b).pc = "done" /\ Answered(b).child = None
             /\ Answered(b).victims = {} /\ Answered(b).op = "restart" /\ Answered(b).answer = b
  BY <1>1 DEF Answered, Task
<1>3. ASSUME NEW s \in Startups
      PROVE  /\ Awaiting(s) \in Task /\ Awaiting(s).pc = "waiting" /\ Awaiting(s).on = s
             /\ Awaiting(s).child = None /\ Awaiting(s).victims = {} /\ Awaiting(s).op = "restart"
  BY <1>1, <1>3 DEF Awaiting, Task
<1> QED
  BY <1>1, <1>2, <1>3

SupervisorTypes ==
  /\ actor \in Actor
  /\ task \in [Tasks -> Task]
  /\ firing \subseteq Generation
  /\ proc \in [Daemons -> Process]
  /\ agent \in Agents \union {"notRegistered", "enabled", "requiresApproval"}
  /\ trouble \in 0 .. MaxTrouble
  /\ retries \in Nat

\* Each automatic startup was paid for by a failure.
RetriesAreKnown ==
  /\ actor.recovery \in {None, actor.generation}
  /\ \A g \in firing : g <= actor.generation
  /\ retries <= actor.failures /\ retries <= MaxRestarts
  /\ actor.kind = "backingOff" => retries < actor.failures
  /\ actor.recovery # None \/ actor.generation \in firing => retries < MaxRestarts

\* The startup of a running daemon has ended, and later ones have not begun.
StartupsAreKnown ==
  /\ actor.kind = "starting" => actor.launch = actor.generation /\ actor.launch \in Startups
  /\ actor.daemon # None => actor.kind = "running" /\ ~Managed
  /\ \A s \in Startups : s > actor.generation => task[s].pc = "done" /\ task[s].child = None
  /\ \A s \in Startups : s = actor.generation /\ actor.kind = "running" => task[s].pc = "done"
  /\ \A t \in Tasks : task[t].pc \in {"waiting", "joining"} => task[t].on \in Startups
  /\ \A s \in Startups : task[s].op \notin {"orphans", "disable"}
  /\ \A t \in Tasks : task[t].pc = "sleeping" => task[t].attempt + 1 < LaunchAttempts

\* Who holds a child, and who is being stopped.
ChildrenAreKnown ==
  /\ \A p \in Daemons : proc[p].parent = "app" => ~Managed
  /\ \A t \in Tasks :
       /\ task[t].child # None =>
            ~Managed /\ task[t].pc \in {"leaving", "stopping", "killing", "readying", "polled"}
       /\ task[t].child # None /\ task[t].pc \in {"stopping", "killing"} => proc[task[t].child].signal # "none"
       /\ \A p \in task[t].victims : proc[p].signal # "none"

SupervisorInv == SupervisorTypes /\ RetriesAreKnown /\ StartupsAreKnown /\ ChildrenAreKnown

(* When the app starts, all of it holds.                                   *)
LEMMA SupervisorInitInv == Init => SupervisorInv
<1> SUFFICES ASSUME Init PROVE SupervisorInv
  OBVIOUS
<1>0. agent \in Agents /\ actor = NewActor /\ firing = {} /\ trouble = 0 /\ retries = 0
  BY DEF Init
<1>1. actor \in Actor /\ actor.kind = "stopped" /\ actor.daemon = None /\ actor.generation = 0 /\ actor.failures = 0
      /\ actor.recovery = None
  <2>1. 0 \in Generation /\ 0 \in 0 .. MaxRestarts + 1
    BY SupervisorAssumption DEF Generation
  <2> QED
    BY <1>0, <2>1 DEF NewActor, Actor
<1>2. task \in [Tasks -> Task] /\ \A t \in Tasks : task[t] = NewTask
  BY TaskMoves DEF Init
<1>3. proc \in [Daemons -> Process] /\ \A p \in Daemons : proc[p].parent # "app"
  <2>1. NoProcess \in Process /\ NoProcess.parent = "other"
    BY DEF NoProcess, Process
  <2>2. \A o \in BOOLEAN : EarlierDaemon(o) \in Process /\ EarlierDaemon(o).parent # "app"
    BY <2>1 DEF EarlierDaemon, Process
  <2>3. CASE proc = [p \in Daemons |-> NoProcess]
    BY <2>1, <2>3
  <2>4. CASE \E d \in Daemons, o \in BOOLEAN :
               proc = [p \in Daemons |-> IF p = d THEN EarlierDaemon(o) ELSE NoProcess]
    <3>1. PICK d \in Daemons, o \in BOOLEAN :
            proc = [p \in Daemons |-> IF p = d THEN EarlierDaemon(o) ELSE NoProcess]
      BY <2>4
    <3> QED
      BY <2>1, <2>2, <3>1
  <2> QED
    BY <2>3, <2>4 DEF Init
<1>4. SupervisorTypes
  BY <1>0, <1>1, <1>2, <1>3, SupervisorAssumption DEF SupervisorTypes, Generation
<1>5. RetriesAreKnown
  BY <1>0, <1>1, SupervisorAssumption DEF RetriesAreKnown
<1>6. StartupsAreKnown /\ ChildrenAreKnown
  BY <1>1, <1>2, <1>3, TaskMoves DEF StartupsAreKnown, ChildrenAreKnown, Tasks
<1> QED
  BY <1>4, <1>5, <1>6 DEF SupervisorInv

\* The ways in which the actor's counts change.
Quiet ==
  /\ actor'.generation = actor.generation /\ actor'.failures = actor.failures
  /\ actor'.recovery \in {None, actor.recovery}
  /\ actor'.kind = "backingOff" => actor.kind = "backingOff"
  /\ retries' = retries
Raised ==
  /\ actor'.generation = actor.generation + 1 /\ actor'.failures = actor.failures
  /\ actor'.recovery = None /\ actor'.kind # "backingOff" /\ retries' = retries
Fails ==
  /\ actor'.generation = actor.generation
  /\ actor'.failures > actor.failures \/ (actor'.failures = actor.failures /\ actor.failures > MaxRestarts)
  /\ actor'.recovery = IF actor'.failures <= MaxRestarts THEN actor.generation ELSE None
  /\ retries' = retries
Forgives ==
  /\ \/ actor'.generation = actor.generation /\ actor'.recovery \in {None, actor.recovery}
     \/ actor'.generation = actor.generation + 1 /\ actor'.recovery = None
  /\ actor'.failures = 0 /\ actor'.kind # "backingOff" /\ retries' = 0

(* However the counts change in these ways, each automatic startup stays   *)
(* paid for.                                                               *)
LEMMA RetriesStay ==
  ASSUME SupervisorTypes, RetriesAreKnown, actor' \in Actor, firing' \subseteq firing,
         Quiet \/ Raised \/ Fails \/ Forgives
  PROVE  RetriesAreKnown'
<1>0. /\ actor.generation \in Nat /\ actor.failures \in Nat /\ actor'.generation \in Nat /\ actor'.failures \in Nat
      /\ retries \in Nat /\ MaxRestarts \in Nat /\ firing \subseteq Nat /\ None \notin Nat
      /\ actor.failures <= MaxRestarts + 1 /\ actor'.failures <= MaxRestarts + 1
  BY SupervisorAssumption DEF SupervisorTypes, Actor, Generation
<1>1. CASE Quiet
  BY <1>0, <1>1 DEF Quiet, RetriesAreKnown
<1>2. CASE Raised
  BY <1>0, <1>2 DEF Raised, RetriesAreKnown
<1>3. CASE Fails
  BY <1>0, <1>3 DEF Fails, RetriesAreKnown
<1>4. CASE Forgives
  BY <1>0, <1>4 DEF Forgives, RetriesAreKnown
<1> QED
  BY <1>1, <1>2, <1>3, <1>4

\* What a step may make of the processes, of the actor and of a task.
ProcessesFit ==
  /\ proc' \in [Daemons -> Process]
  /\ \A p \in Daemons :
       \/ /\ proc'[p].parent = proc[p].parent /\ (proc[p].signal # "none" => proc'[p].signal # "none")
          /\ p \in Alive' => p \in Alive
       \/ /\ p \in Unreferenced
          /\ proc'[p].parent = "app" => ~Managed /\ \E t \in Tasks : task'[t].child = p
ActorFits ==
  /\ actor' \in Actor /\ actor'.generation \in {actor.generation, actor.generation + 1}
  /\ actor'.kind = "starting" => actor'.launch = actor'.generation /\ actor'.launch \in Startups
  /\ actor'.daemon # None => actor'.kind = "running" /\ ~Managed
  /\ actor'.kind = "running" =>
       \/ actor.kind = "running" \/ actor'.generation = actor.generation + 1
       \/ \A s \in Startups : s = actor'.generation => task'[s].pc = "done"
TaskFits(t) ==
  /\ task'[t].pc = "sleeping" => task'[t].attempt + 1 < LaunchAttempts
  /\ task'[t].pc \in {"waiting", "joining"} => task'[t].on \in Startups
  /\ task'[t].child # None =>
       ~Managed /\ task'[t].pc \in {"leaving", "stopping", "killing", "readying", "polled"}
  /\ task'[t].child # None /\ task'[t].pc \in {"stopping", "killing"} => proc'[task'[t].child].signal # "none"
  /\ \A p \in task'[t].victims : proc'[p].signal # "none"
  /\ t \in Startups =>
       /\ t <= actor'.generation /\ task'[t].op \notin {"orphans", "disable"}
       /\ t = actor'.generation /\ actor'.kind = "running" => task'[t].pc = "done"
RestFits ==
  /\ RetriesAreKnown' /\ retries' \in Nat
  /\ firing' \subseteq Generation /\ trouble' \in 0 .. MaxTrouble
  /\ agent' \in Agents \union {"notRegistered", "enabled", "requiresApproval"} /\ (Managed' <=> Managed)
ChildrenHeld ==
  \/ CallerGivesUp
  \/ /\ actor.daemon \in Alive => actor'.daemon = actor.daemon \/ \E t \in Tasks : task'[t].child = actor.daemon
     /\ \A t \in Tasks : task[t].child # None =>
          \/ task'[t].child = task[t].child \/ actor'.daemon = task[t].child
          \/ proc'[task[t].child].signal # "none"

\* What each step is shown to do.
ChildrenKept == \A p \in Daemons : Stray(p)' => Stray(p) \/ CallerGivesUp
BackoffCaused == actor.kind = "running" /\ actor'.kind = "backingOff" => actor.daemon \notin Alive \/ CallerGivesUp
SupervisorStepOK == SupervisorInv' /\ ChildrenKept /\ BackoffCaused

(* A step that moves any number of tasks, each of them, the actor and the  *)
(* processes as allowed, is sound.                                         *)
LEMMA TasksMove ==
  ASSUME SupervisorInv, ProcessesFit, ActorFits, RestFits, ChildrenHeld, BackoffCaused,
         task' \in [Tasks -> Task], \A t \in Tasks : task'[t] = task[t] \/ TaskFits(t)
  PROVE  SupervisorStepOK
<1>0. SupervisorTypes /\ RetriesAreKnown /\ StartupsAreKnown /\ ChildrenAreKnown
  BY DEF SupervisorInv
<1>1. \A t \in Tasks : task[t].victims \subseteq Daemons /\ (task[t].child # None => task[t].child \in Daemons)
  BY <1>0 DEF SupervisorTypes, Task
<1>2. SupervisorTypes'
  BY DEF SupervisorTypes, ProcessesFit, ActorFits, RestFits
<1>3. StartupsAreKnown'
  <2>0. /\ actor.generation \in Nat /\ actor'.generation \in Nat
        /\ Startups \subseteq Nat /\ Startups \subseteq Tasks
    BY <1>0, SupervisorAssumption DEF SupervisorTypes, ActorFits, Actor, Generation, Startups, Tasks
  <2>1. \A s \in Startups : s > actor'.generation => task'[s].pc = "done" /\ task'[s].child = None
    BY <1>0, <2>0 DEF StartupsAreKnown, ActorFits, TaskFits
  <2>2. \A s \in Startups : s = actor'.generation /\ actor'.kind = "running" => task'[s].pc = "done"
    BY <1>0, <2>0 DEF StartupsAreKnown, ActorFits, TaskFits
  <2>3. \A u \in Tasks : task'[u].pc \in {"waiting", "joining"} => task'[u].on \in Startups
    BY <1>0 DEF StartupsAreKnown, TaskFits
  <2>4. \A s \in Startups : task'[s].op \notin {"orphans", "disable"}
    BY <1>0, <2>0 DEF StartupsAreKnown, TaskFits
  <2>5. /\ actor'.kind = "starting" => actor'.launch = actor'.generation /\ actor'.launch \in Startups
        /\ actor'.daemon # None => actor'.kind = "running" /\ ~Managed'
    BY DEF ActorFits, RestFits
  <2>6. \A u \in Tasks : task'[u].pc = "sleeping" => task'[u].attempt + 1 < LaunchAttempts
    BY <1>0 DEF StartupsAreKnown, TaskFits
  <2> QED
    BY <2>1, <2>2, <2>3, <2>4, <2>5, <2>6 DEF StartupsAreKnown
<1>4. ChildrenAreKnown'
  <2>1. \A p \in Daemons : proc'[p].parent = "app" => ~Managed'
    BY <1>0 DEF ChildrenAreKnown, ProcessesFit, RestFits
  <2>2. ASSUME NEW t \in Tasks
        PROVE  /\ task'[t].child # None =>
                    ~Managed' /\ task'[t].pc \in {"leaving", "stopping", "killing", "readying", "polled"}
               /\ task'[t].child # None /\ task'[t].pc \in {"stopping", "killing"} => proc'[task'[t].child].signal # "none"
               /\ \A p \in task'[t].victims : proc'[p].signal # "none"
    <3>1. CASE TaskFits(t)
      BY <3>1 DEF TaskFits, RestFits
    <3>2. CASE task'[t] = task[t]
      <4>1. \A p \in Victims(t) : proc[p].signal # "none" => proc'[p].signal # "none"
        BY <1>1 DEF ProcessesFit, Unreferenced, Victims
      <4>2. task[t].child # None => task[t].child \in Victims(t)
        BY DEF Victims
      <4>3. task[t].victims \subseteq Victims(t)
        BY DEF Victims
      <4> QED
        BY <1>0, <3>2, <4>1, <4>2, <4>3 DEF ChildrenAreKnown, RestFits
    <3> QED
      BY <3>1, <3>2
  <2> QED
    BY <2>1, <2>2 DEF ChildrenAreKnown
<1>5. ChildrenKept
  <2> SUFFICES ASSUME NEW p \in Daemons, Stray(p)', ~CallerGivesUp
               PROVE  Stray(p)
    BY DEF ChildrenKept
  <2>1. /\ p \in Alive' /\ proc'[p].parent = "app" /\ actor'.daemon # p /\ proc'[p].signal = "none"
        /\ \A t \in Tasks : p \notin task'[t].victims /\ p # task'[t].child
    <3>1. p # None
      BY SupervisorAssumption
    <3> QED
      BY <3>1 DEF Stray, Victims
  <2>2. proc'[p].parent = proc[p].parent /\ proc[p].signal = "none" /\ p \in Alive
    BY <2>1 DEF ProcessesFit
  <2>3. actor.daemon # p
    BY <2>1, <2>2 DEF ChildrenHeld
  <2>4. ASSUME NEW t \in Tasks, p \in Victims(t) PROVE FALSE
    <3>1. p \notin task[t].victims
      BY <1>0, <2>2 DEF ChildrenAreKnown
    <3>2. task[t].child = p /\ p # None
      BY <2>4, <3>1, SupervisorAssumption DEF Victims
    <3> QED
      BY <2>1, <3>2 DEF ChildrenHeld
  <2> QED
    BY <2>1, <2>2, <2>3, <2>4 DEF Stray
<1> QED
  BY <1>2, <1>3, <1>4, <1>5 DEF SupervisorInv, SupervisorStepOK, RestFits

(* The same of a step that moves one task.                                 *)
LEMMA OneTaskMoves ==
  ASSUME SupervisorInv, ProcessesFit, ActorFits, RestFits, ChildrenHeld, BackoffCaused,
         NEW t \in Tasks, NEW x \in Task, task' = [task EXCEPT ![t] = x], TaskFits(t)
  PROVE  SupervisorStepOK
<1>1. task' \in [Tasks -> Task] /\ \A u \in Tasks : task'[u] = task[u] \/ u = t
  BY DEF SupervisorInv, SupervisorTypes
<1> QED
  BY <1>1, TasksMove

\* The facts that every step starts from.
LEMMA SupervisorFacts ==
  ASSUME SupervisorInv
  PROVE  /\ SupervisorTypes /\ RetriesAreKnown /\ StartupsAreKnown /\ ChildrenAreKnown
         /\ actor.generation \in Nat /\ MaxGeneration \in Nat /\ Startups \subseteq Nat
         /\ Startups \subseteq Tasks /\ Calls \subseteq Tasks /\ Calls \intersect Startups = {}
         /\ \A t \in Tasks : task[t] \in Task /\ (t \in Calls \/ t \in Startups)
         /\ \A s \in Startups : task[s].pc # "done" => s <= actor.generation
<1>1. SupervisorTypes /\ RetriesAreKnown /\ StartupsAreKnown /\ ChildrenAreKnown
  BY DEF SupervisorInv
<1>2. /\ actor.generation \in Nat /\ MaxGeneration \in Nat /\ Startups \subseteq Nat
      /\ Startups \subseteq Tasks /\ Calls \subseteq Tasks /\ Calls \intersect Startups = {}
      /\ \A t \in Tasks : task[t] \in Task /\ (t \in Calls \/ t \in Startups)
  BY <1>1, SupervisorAssumption DEF SupervisorTypes, Actor, Generation, Startups, Tasks
<1> QED
  BY <1>1, <1>2 DEF StartupsAreKnown

(* What most steps do to the counts, the timers and the agent is allowed.  *)
LEMMA RestStays ==
  ASSUME SupervisorInv, actor' \in Actor, Quiet \/ Raised \/ Fails \/ Forgives,
         firing' \subseteq firing, trouble' = trouble \/ GoWrong,
         agent' \in Agents \union {"notRegistered", "enabled", "requiresApproval"}, Managed' <=> Managed
  PROVE  RestFits
<1>0. SupervisorTypes /\ RetriesAreKnown
  BY DEF SupervisorInv
<1>1. RetriesAreKnown'
  BY <1>0, RetriesStay
<1>2. retries' \in Nat /\ firing' \subseteq Generation
  BY <1>0 DEF SupervisorTypes, Quiet, Raised, Fails, Forgives
<1>3. trouble' \in 0 .. MaxTrouble
  BY <1>0, SupervisorAssumption DEF SupervisorTypes, GoWrong
<1> QED
  BY <1>1, <1>2, <1>3 DEF RestFits

(* An agent that is left alone keeps its kind.                             *)
LEMMA AgentRests ==
  ASSUME SupervisorInv, agent' = agent
  PROVE  agent' \in Agents \union {"notRegistered", "enabled", "requiresApproval"} /\ (Managed' <=> Managed)
BY DEF SupervisorInv, SupervisorTypes, Managed

(* So is leaving the actor alone.                                          *)
LEMMA ActorRests ==
  ASSUME SupervisorInv, actor' = actor
  PROVE  /\ ActorFits /\ BackoffCaused /\ actor' \in Actor
         /\ retries' = retries => Quiet
<1>1. SupervisorTypes /\ StartupsAreKnown
  BY DEF SupervisorInv
<1>2. actor \in Actor
  BY <1>1 DEF SupervisorTypes
<1>3. ActorFits
  BY <1>1, <1>2 DEF StartupsAreKnown, ActorFits
<1> QED
  BY <1>2, <1>3 DEF BackoffCaused, Quiet

(* A backoff forgets the daemon and counts a failure.                      *)
LEMMA ActorBacksOff ==
  ASSUME SupervisorInv, actor' = Backoff(actor)
  PROVE  /\ ActorFits /\ actor' \in Actor /\ actor'.kind = "backingOff"
         /\ retries' = retries => Fails
<1>1. actor \in Actor
  BY DEF SupervisorInv, SupervisorTypes
<1>2. /\ actor' \in Actor /\ actor'.kind = "backingOff" /\ actor'.daemon = None
      /\ actor'.generation = actor.generation
      /\ actor'.failures > actor.failures \/ (actor'.failures = actor.failures /\ actor.failures > MaxRestarts)
      /\ actor'.recovery = IF actor'.failures <= MaxRestarts THEN actor.generation ELSE None
  BY <1>1, ActorMoves
<1> QED
  BY <1>2 DEF ActorFits, Fails

(* Signals leave processes what they are.                                  *)
LEMMA ProcessesChange ==
  ASSUME SupervisorInv
  PROVE  /\ proc' = proc => ProcessesFit
         /\ \A ps : proc' = Terminated(ps) \/ proc' = Killed(ps) =>
              ProcessesFit /\ \A p \in ps \intersect Daemons : proc'[p].signal # "none"
<1>0. proc \in [Daemons -> Process]
  BY DEF SupervisorInv, SupervisorTypes
<1>1. proc' = proc => ProcessesFit
  BY <1>0 DEF ProcessesFit, Alive
<1>2. ASSUME NEW ps, proc' = Terminated(ps)
      PROVE  ProcessesFit /\ \A p \in ps \intersect Daemons : proc'[p].signal # "none"
  <2>1. \A p \in Daemons : /\ proc'[p] = IF p \in ps /\ proc[p].signal = "none" THEN [proc[p] EXCEPT !.signal = "term"] ELSE proc[p]
                           /\ proc'[p] \in Process /\ proc'[p].parent = proc[p].parent /\ proc'[p].life = proc[p].life
                           /\ proc[p].signal # "none" => proc'[p].signal # "none"
                           /\ p \in ps => proc'[p].signal # "none"
    BY <1>0, <1>2 DEF Terminated, Process
  <2>2. proc' \in [Daemons -> Process]
    BY <2>1, <1>2 DEF Terminated
  <2> QED
    BY <2>1, <2>2 DEF ProcessesFit, Alive
<1>3. ASSUME NEW ps, proc' = Killed(ps)
      PROVE  ProcessesFit /\ \A p \in ps \intersect Daemons : proc'[p].signal # "none"
  <2>1. \A p \in Daemons : /\ proc'[p] = IF p \in ps THEN [proc[p] EXCEPT !.signal = "kill"] ELSE proc[p]
                           /\ proc'[p] \in Process /\ proc'[p].parent = proc[p].parent /\ proc'[p].life = proc[p].life
                           /\ proc[p].signal # "none" => proc'[p].signal # "none"
                           /\ p \in ps => proc'[p].signal # "none"
    BY <1>0, <1>3 DEF Killed, Process
  <2>2. proc' \in [Daemons -> Process]
    BY <2>1, <1>3 DEF Killed
  <2> QED
    BY <2>1, <2>2 DEF ProcessesFit, Alive
<1> QED
  BY <1>1, <1>2, <1>3

\* A task goes on as it is, but for where it stands.
LEMMA TaskGoesOn ==
  ASSUME SupervisorInv, NEW t \in Tasks,
         NEW pc \in {"done", "probing", "probed", "inspecting", "inspected", "waiting", "joining", "leaving",
                     "listing", "stopping", "killing", "stopped", "begin", "readying", "polled", "sleeping"}
  PROVE  /\ At(t, pc) \in Task /\ At(t, pc).pc = pc /\ At(t, pc).op = task[t].op /\ At(t, pc).child = task[t].child
         /\ At(t, pc).victims = task[t].victims /\ At(t, pc).on = task[t].on /\ At(t, pc).attempt = task[t].attempt
BY DEF SupervisorInv, SupervisorTypes, At, Task

\* One task moves on its own, and keeps its child or is rid of it.
LEMMA TaskAlone ==
  ASSUME SupervisorInv, UNCHANGED <<actor, firing, agent, retries>>, trouble' = trouble \/ GoWrong, ProcessesFit,
         NEW t \in Tasks, NEW x \in Task, task' = [task EXCEPT ![t] = x],
         t \in Startups => task[t].pc # "done" /\ x.op \notin {"orphans", "disable"},
         x.pc \in {"waiting", "joining"} => x.on \in Startups,
         x.pc = "sleeping" => x.attempt + 1 < LaunchAttempts,
         x.child # None => ~Managed /\ x.pc \in {"leaving", "stopping", "killing", "readying", "polled"},
         x.child # None /\ x.pc \in {"stopping", "killing"} => proc'[x.child].signal # "none",
         \A p \in x.victims : proc'[p].signal # "none",
         task[t].child # None => x.child = task[t].child \/ proc'[task[t].child].signal # "none"
  PROVE  SupervisorStepOK
<1>0. SupervisorTypes /\ StartupsAreKnown /\ Startups \subseteq Tasks
      /\ \A s \in Startups : task[s].pc # "done" => s <= actor.generation
  BY SupervisorFacts
<1>1. ActorFits /\ BackoffCaused /\ RestFits
  BY ActorRests, AgentRests, RestStays
<1>2. task'[t] = x /\ \A u \in Tasks : u # t => task'[u] = task[u]
  BY <1>0 DEF SupervisorTypes
<1>3. TaskFits(t)
  BY <1>0, <1>2 DEF TaskFits, StartupsAreKnown
<1>4. ChildrenHeld
  BY <1>2 DEF ChildrenHeld
<1> QED
  BY <1>1, <1>2, <1>3, <1>4, OneTaskMoves

\* enterBackoff of a caller, and the next attempt of a startup.
LEMMA GivesUp ==
  ASSUME SupervisorInv, NEW t \in Tasks, GiveUp(t), UNCHANGED <<firing, proc, agent, retries>>,
         trouble' = trouble \/ GoWrong,
         t \in Startups => task[t].pc # "done" /\ task[t].child = None,
         t \in Calls => task[t].pc \in {"leaving", "stopped"}
  PROVE  SupervisorStepOK
<1>0. /\ SupervisorTypes /\ StartupsAreKnown /\ ChildrenAreKnown
      /\ Startups \subseteq Tasks /\ Calls \intersect Startups = {} /\ (t \in Calls \/ t \in Startups)
      /\ \A s \in Startups : task[s].pc # "done" => s <= actor.generation
  BY SupervisorFacts
<1>1. ProcessesFit
  BY ProcessesChange
<1>2. /\ Answered(FALSE) \in Task /\ Answered(FALSE).pc = "done" /\ Answered(FALSE).child = None
      /\ Answered(FALSE).victims = {} /\ Answered(FALSE).op = "restart" /\ Answered(FALSE).answer = FALSE
  BY TaskMoves
<1>3. CASE t \in Calls
  <2>1. actor' = Backoff(actor) /\ task' = [task EXCEPT ![t] = Answered(FALSE)]
    BY <1>0, <1>3 DEF GiveUp, Return
  <2>2. task'[t] = Answered(FALSE)
    BY <1>0, <2>1 DEF SupervisorTypes
  <2>3. CallerGivesUp
    BY <1>2, <1>3, <2>2 DEF CallerGivesUp
  <2>4. ActorFits /\ actor' \in Actor /\ Fails
    BY <2>1, ActorBacksOff
  <2>5. RestFits
    BY <2>4, AgentRests, RestStays
  <2>6. TaskFits(t)
    BY <1>0, <1>2, <1>3, <2>2 DEF TaskFits
  <2>7. ChildrenHeld /\ BackoffCaused
    BY <2>3 DEF ChildrenHeld, BackoffCaused
  <2> QED
    BY <1>1, <1>2, <2>1, <2>4, <2>5, <2>6, <2>7, OneTaskMoves
<1>4. CASE t \in Startups
  <2>1. NextAttempt(t)
    BY <1>4 DEF GiveUp
  <2>2. CASE /\ task[t].attempt + 1 < LaunchAttempts
             /\ task' = [task EXCEPT ![t] = At(t, "sleeping")] /\ actor' = actor
    <3>1. /\ At(t, "sleeping").attempt = task[t].attempt
          /\ At(t, "sleeping") \in Task /\ At(t, "sleeping").pc = "sleeping" /\ At(t, "sleeping").op = task[t].op
          /\ At(t, "sleeping").child = None /\ At(t, "sleeping").victims = task[t].victims
      BY <1>4, TaskGoesOn
    <3> QED
      BY <1>0, <1>1, <1>4, <2>2, <3>1, TaskAlone, ZenonT(60) DEF StartupsAreKnown, ChildrenAreKnown
  <2>3. CASE task' = [task EXCEPT ![t] = Answered(FALSE)] /\ actor' = IF Current(t) THEN Backoff(actor) ELSE actor
    <3>1. CASE ~Current(t)
      BY <1>0, <1>1, <1>2, <1>4, <2>3, <3>1, TaskAlone
    <3>2. CASE Current(t)
      <4>1. actor.generation = t /\ actor.kind # "running" /\ actor.daemon = None
        BY <1>0, <1>4, <3>2 DEF Current, StartupsAreKnown
      <4>2. ActorFits /\ actor' \in Actor /\ Fails /\ actor'.kind = "backingOff" /\ actor'.generation = actor.generation
        BY <2>3, <3>2, ActorBacksOff DEF Fails
      <4>3. RestFits
        BY <4>2, AgentRests, RestStays
      <4>4. task'[t] = Answered(FALSE) /\ \A u \in Tasks : u # t => task'[u] = task[u]
        BY <1>0, <2>3 DEF SupervisorTypes
      <4>5. TaskFits(t)
        BY <1>0, <1>2, <1>4, <4>2, <4>4 DEF TaskFits
      <4>6. BackoffCaused /\ ChildrenHeld
        <5>1. None \notin Alive
          BY SupervisorAssumption DEF Alive
        <5> QED
          BY <1>4, <4>1, <4>4, <5>1 DEF BackoffCaused, ChildrenHeld
      <4> QED
        BY <1>1, <1>2, <2>3, <4>2, <4>3, <4>5, <4>6, OneTaskMoves
    <3> QED
      BY <3>1, <3>2
  <2> QED
    BY <2>1, <2>2, <2>3 DEF NextAttempt, Return
<1> QED
  BY <1>0, <1>3, <1>4

\* What a caller finds when it begins a startup: the actor, or the actor stopped.
FoundBy(a) ==
  /\ a \in Actor /\ a.generation = actor.generation /\ a.failures = actor.failures
  /\ a.recovery \in {None, actor.recovery}
  /\ \/ a.kind = actor.kind /\ a.launch = actor.launch /\ a.daemon = actor.daemon
     \/ a.kind = "stopped" /\ a.daemon = None /\ actor.daemon \notin Alive

(* beginStartup shares what is under way and otherwise starts the next     *)
(* startup.                                                                *)
LEMMA BeginsStartup ==
  ASSUME SupervisorInv, NEW c \in Calls, NEW a, FoundBy(a), BeginStartup(c, a), task[c].child = None,
         UNCHANGED <<firing, proc, agent, trouble, retries>>
  PROVE  SupervisorStepOK
<1>0. /\ SupervisorTypes /\ StartupsAreKnown /\ ChildrenAreKnown
      /\ actor.generation \in Nat /\ MaxGeneration \in Nat /\ Startups \subseteq Nat
      /\ Startups \subseteq Tasks /\ Calls \subseteq Tasks /\ Calls \intersect Startups = {}
  BY SupervisorFacts
<1>1. ProcessesFit /\ None \notin Alive
  BY ProcessesChange, SupervisorAssumption DEF Alive
<1>2. /\ a.kind = "starting" => a.launch = a.generation /\ a.launch \in Startups
      /\ a.daemon # None => a.kind = "running" /\ ~Managed
  BY <1>0 DEF FoundBy, StartupsAreKnown
<1>3. ASSUME actor' = a, a.kind # "backingOff"
      PROVE  ActorFits /\ RestFits /\ BackoffCaused
             /\ (actor.daemon \in Alive => actor'.daemon = actor.daemon)
  <2>1. ActorFits
    BY <1>0, <1>2, <1>3 DEF FoundBy, ActorFits, StartupsAreKnown
  <2>2. Quiet
    BY <1>3 DEF FoundBy, Quiet
  <2> QED
    BY <1>3, <2>1, <2>2, AgentRests, RestStays DEF FoundBy, BackoffCaused
<1>4. CASE a.kind = "starting" /\ actor' = a /\ task' = [task EXCEPT ![c] = Awaiting(a.launch)]
  <2>1. /\ Awaiting(a.launch) \in Task /\ Awaiting(a.launch).pc = "waiting" /\ Awaiting(a.launch).on \in Startups
        /\ Awaiting(a.launch).child = None /\ Awaiting(a.launch).victims = {}
    BY <1>2, <1>4, TaskMoves
  <2>2. task'[c] = Awaiting(a.launch) /\ \A u \in Tasks : u # c => task'[u] = task[u]
    BY <1>0, <1>4 DEF SupervisorTypes
  <2>3. TaskFits(c)
    BY <1>0, <2>1, <2>2 DEF TaskFits
  <2>4. ActorFits /\ RestFits /\ BackoffCaused /\ ChildrenHeld
    BY <1>3, <1>4, <2>2 DEF ChildrenHeld
  <2> QED
    BY <1>0, <1>1, <1>4, <2>1, <2>3, <2>4, OneTaskMoves
<1>5. CASE a.kind = "running" /\ actor' = a /\ task' = [task EXCEPT ![c] = Answered(TRUE)]
  <2>1. /\ Answered(TRUE) \in Task /\ Answered(TRUE).pc = "done"
        /\ Answered(TRUE).child = None /\ Answered(TRUE).victims = {}
    BY TaskMoves
  <2>2. task'[c] = Answered(TRUE) /\ \A u \in Tasks : u # c => task'[u] = task[u]
    BY <1>0, <1>5 DEF SupervisorTypes
  <2>3. TaskFits(c)
    BY <1>0, <2>1, <2>2 DEF TaskFits
  <2>4. ActorFits /\ RestFits /\ BackoffCaused /\ ChildrenHeld
    BY <1>3, <1>5, <2>2 DEF ChildrenHeld
  <2> QED
    BY <1>0, <1>1, <1>5, <2>1, <2>3, <2>4, OneTaskMoves
<1>6. CASE /\ a.kind \notin {"starting", "running"} /\ a.generation < MaxGeneration
           /\ actor' = Starting(a)
           /\ task' = [task EXCEPT ![c] = Awaiting(a.generation + 1),
                                   ![a.generation + 1] = [NewTask EXCEPT !.pc = "begin"]]
  <2> DEFINE s == a.generation + 1
             begun == [NewTask EXCEPT !.pc = "begin"]
  <2>1. s \in Startups /\ s # c /\ s \in Tasks /\ s = actor.generation + 1
    BY <1>0, <1>6 DEF Startups, FoundBy
  <2>2. begun \in Task /\ begun.pc = "begin" /\ begun.child = None /\ begun.victims = {} /\ begun.op = "restart"
    BY TaskMoves DEF Task
  <2>3. /\ Awaiting(s) \in Task /\ Awaiting(s).pc = "waiting" /\ Awaiting(s).on = s
        /\ Awaiting(s).child = None /\ Awaiting(s).victims = {}
    BY <2>1, TaskMoves
  <2> HIDE DEF begun
  <2>4. /\ actor' \in Actor /\ actor'.kind = "starting" /\ actor'.launch = s /\ actor'.generation = s
        /\ actor'.daemon = None /\ actor'.failures = actor.failures /\ actor'.recovery = None
    BY <1>6, ActorMoves DEF FoundBy
  <2>5. /\ task' \in [Tasks -> Task] /\ task'[c] = Awaiting(s) /\ task'[s] = begun
        /\ \A u \in Tasks : u # c /\ u # s => task'[u] = task[u]
    BY <1>0, <1>6, <2>1, <2>2, <2>3 DEF SupervisorTypes, begun
  <2>6. ActorFits
    BY <2>1, <2>4 DEF ActorFits
  <2>7. Raised
    BY <2>1, <2>4 DEF Raised
  <2>8. RestFits
    BY <2>4, <2>7, AgentRests, RestStays
  <2>9. TaskFits(c) /\ TaskFits(s)
    BY <1>0, <2>1, <2>2, <2>3, <2>4, <2>5 DEF TaskFits
  <2>10. task[s].child = None
    BY <1>0, <2>1 DEF StartupsAreKnown
  <2>11. actor.daemon \notin Alive
    BY <1>0, <1>1, <1>6 DEF FoundBy, StartupsAreKnown
  <2>12. ChildrenHeld /\ BackoffCaused
    BY <2>4, <2>5, <2>10, <2>11 DEF ChildrenHeld, BackoffCaused
  <2> QED
    BY <1>1, <2>5, <2>6, <2>8, <2>9, <2>12, TasksMove
<1> QED
  BY <1>4, <1>5, <1>6 DEF BeginStartup, Return

(* The actor as it is may be what a caller finds.                          *)
LEMMA FoundAsItIs ==
  ASSUME SupervisorInv
  PROVE  FoundBy(actor)
BY DEF SupervisorInv, SupervisorTypes, FoundBy

\* restart, up to its first await.
LEMMA RestartBegins ==
  ASSUME SupervisorInv, NEW c \in Calls, Restart(c), task[c].child = None,
         trouble' = trouble \/ GoWrong, UNCHANGED <<firing, proc, agent, retries>>
  PROVE  SupervisorStepOK
<1>0. /\ SupervisorTypes /\ StartupsAreKnown /\ ChildrenAreKnown
      /\ actor.generation \in Nat /\ MaxGeneration \in Nat /\ Startups \subseteq Nat
      /\ Startups \subseteq Tasks /\ Calls \subseteq Tasks /\ Calls \intersect Startups = {}
  BY SupervisorFacts
<1>1. ProcessesFit /\ None \notin Alive /\ Alive \subseteq Daemons
  BY ProcessesChange, SupervisorAssumption DEF Alive
<1>2. /\ actor' \in Actor /\ actor'.kind = "stopped" /\ actor'.daemon = None
      /\ actor'.generation = actor.generation + 1 /\ actor'.failures = actor.failures /\ actor'.recovery = None
  <2>1. /\ Stopped(actor) \in Actor /\ Stopped(actor).kind = "stopped" /\ Stopped(actor).daemon = None
        /\ Stopped(actor).generation = actor.generation /\ Stopped(actor).failures = actor.failures
    BY <1>0, ActorMoves DEF SupervisorTypes
  <2>2. actor.generation + 1 \in Generation
    BY <1>0 DEF Restart, Generation
  <2>3. actor' = [Stopped(actor) EXCEPT !.generation = actor.generation + 1, !.recovery = None, !.stability = None]
    BY <2>1 DEF Restart, Actor
  <2> QED
    BY <2>1, <2>2, <2>3 DEF Actor
<1>3. ActorFits /\ RestFits /\ BackoffCaused
  <2>1. ActorFits
    BY <1>2 DEF ActorFits
  <2>2. Raised
    BY <1>2 DEF Raised
  <2> QED
    BY <1>2, <2>1, <2>2, AgentRests, RestStays DEF BackoffCaused
<1>4. CASE actor.kind = "starting"
  <2> DEFINE s == actor.launch
             joining == [NewTask EXCEPT !.pc = "joining", !.on = s]
             cancelled == [task[s] EXCEPT !.cancelled = TRUE]
  <2>1. s \in Startups /\ s # c /\ s \in Tasks /\ s = actor.generation /\ actor.daemon = None
    BY <1>0, <1>4 DEF StartupsAreKnown
  <2>2. /\ joining \in Task /\ joining.pc = "joining" /\ joining.on = s /\ joining.child = None
        /\ joining.victims = {}
    BY <2>1, TaskMoves DEF Task
  <2>3. /\ cancelled \in Task /\ cancelled.pc = task[s].pc /\ cancelled.on = task[s].on /\ cancelled.op = task[s].op
        /\ cancelled.child = task[s].child /\ cancelled.victims = task[s].victims /\ cancelled.attempt = task[s].attempt
    BY <1>0, <2>1, ZenonT(60) DEF SupervisorTypes, Task
  <2>4. task' = [task EXCEPT ![s].cancelled = TRUE, ![c] = joining]
    BY <1>4 DEF Restart
  <2>5. /\ task' \in [Tasks -> Task] /\ task'[c] = joining /\ task'[s] = cancelled
        /\ \A u \in Tasks : u # c /\ u # s => task'[u] = task[u]
    <3>1. task' = [task EXCEPT ![s] = cancelled, ![c] = joining]
      BY <2>4
    <3> HIDE DEF joining, cancelled
    <3> QED
      BY <1>0, <2>1, <2>2, <2>3, <3>1 DEF SupervisorTypes
  <2> HIDE DEF joining, cancelled
  <2>6. TaskFits(c)
    BY <1>0, <2>1, <2>2, <2>5 DEF TaskFits
  <2>7. TaskFits(s)
    BY <1>0, <1>2, <2>1, <2>3, <2>5 DEF TaskFits, StartupsAreKnown, ChildrenAreKnown
  <2>8. ChildrenHeld
    BY <1>1, <2>1, <2>3, <2>5 DEF ChildrenHeld
  <2> QED
    BY <1>1, <1>3, <2>5, <2>6, <2>7, <2>8, TasksMove
<1>5. CASE actor.kind # "starting"
  <2> DEFINE child == IF actor.daemon \in Alive THEN actor.daemon ELSE None
             leaving == [NewTask EXCEPT !.pc = "leaving", !.child = child]
  <2>1. child \in Daemons \union {None} /\ (child # None => ~Managed)
        /\ (actor.daemon \in Alive => child = actor.daemon)
    BY <1>0, <1>1 DEF StartupsAreKnown
  <2> HIDE DEF child
  <2>2. leaving \in Task /\ leaving.pc = "leaving" /\ leaving.child = child /\ leaving.victims = {}
    BY <2>1, TaskMoves DEF Task
  <2>3. task' = [task EXCEPT ![c] = leaving]
    BY <1>5 DEF Restart, child
  <2> HIDE DEF leaving
  <2>4. task'[c] = leaving /\ \A u \in Tasks : u # c => task'[u] = task[u]
    BY <1>0, <2>3 DEF SupervisorTypes
  <2>5. TaskFits(c)
    BY <1>0, <2>1, <2>2, <2>4 DEF TaskFits
  <2>6. ChildrenHeld
    BY <1>0, <2>1, <2>2, <2>4 DEF ChildrenHeld
  <2> QED
    BY <1>0, <1>1, <1>3, <2>2, <2>3, <2>5, <2>6, OneTaskMoves
<1> QED
  BY <1>4, <1>5

\* The steps of a caller.
LEMMA CallersStep ==
  ASSUME SupervisorInv, NEW c \in Calls, EnsureRunning(c) \/ RestartNow(c) \/ CallStep(c)
  PROVE  SupervisorStepOK
<1>0. /\ SupervisorTypes /\ StartupsAreKnown /\ ChildrenAreKnown /\ Startups \subseteq Tasks
      /\ c \in Tasks /\ c \notin Startups /\ task[c] \in Task
  BY SupervisorFacts
<1>1. /\ task[c].pc \in {"done", "probing", "probed", "inspecting", "inspected", "waiting", "joining", "stopped"} =>
           task[c].child = None
      /\ \A p \in task[c].victims : proc[p].signal # "none"
  BY <1>0 DEF ChildrenAreKnown
<1>2. /\ NewTask \in Task /\ NewTask.pc = "done" /\ NewTask.child = None /\ NewTask.victims = {}
      /\ \A b \in BOOLEAN : /\ Answered(b) \in Task /\ Answered(b).pc = "done" /\ Answered(b).child = None
                            /\ Answered(b).victims = {}
      /\ \A s \in Startups : /\ Awaiting(s) \in Task /\ Awaiting(s).pc = "waiting" /\ Awaiting(s).on = s
                             /\ Awaiting(s).child = None /\ Awaiting(s).victims = {}
  BY TaskMoves
<1>3. ASSUME proc' = proc
      PROVE  ProcessesFit
  BY <1>3, ProcessesChange
\* A new task that takes nothing along.
<1>4. ASSUME UNCHANGED <<actor, firing, proc, agent, retries>>, trouble' = trouble \/ GoWrong,
             NEW x \in Task, task' = [task EXCEPT ![c] = x], task[c].child = None,
             x.child = None, x.victims = {} \/ x.victims = task[c].victims, x.pc # "sleeping",
             x.pc \in {"waiting", "joining"} => x.on \in Startups
      PROVE  SupervisorStepOK
  <2>1. \A p \in x.victims : proc'[p].signal # "none"
    BY <1>1, <1>4
  <2> QED
    BY <1>0, <1>3, <1>4, <2>1, TaskAlone
<1>5. CASE EnsureRunning(c)
  <2>1. CASE actor.kind = "starting" /\ task' = [task EXCEPT ![c] = Awaiting(actor.launch)]
    BY <1>0, <1>1, <1>2, <1>4, <1>5, <2>1 DEF EnsureRunning, StartupsAreKnown
  <2>2. CASE task' = [task EXCEPT ![c] = [NewTask EXCEPT !.pc = "probing"]]
    <3>1. /\ [NewTask EXCEPT !.pc = "probing"] \in Task /\ [NewTask EXCEPT !.pc = "probing"].pc = "probing"
          /\ [NewTask EXCEPT !.pc = "probing"].child = None /\ [NewTask EXCEPT !.pc = "probing"].victims = {}
      BY <1>2 DEF Task
    <3> QED
      BY <1>1, <1>4, <1>5, <2>2, <3>1 DEF EnsureRunning
  <2> QED
    BY <1>5, <2>1, <2>2 DEF EnsureRunning
<1>6. CASE RestartNow(c)
  BY <1>1, <1>6, RestartBegins DEF RestartNow
<1>7. CASE Probe(c)
  <2>1. PICK b \in BOOLEAN : task' = [task EXCEPT ![c] = [task[c] EXCEPT !.pc = "probed", !.answer = b]]
    <3>1. Connectable \in BOOLEAN
      BY DEF Connectable
    <3>2. task' = [task EXCEPT ![c] = [task[c] EXCEPT !.pc = "probed", !.answer = Connectable]]
      BY <1>0, <1>7 DEF Probe, SupervisorTypes
    <3> QED
      BY <3>1, <3>2, Zenon
  <2>2. /\ [task[c] EXCEPT !.pc = "probed", !.answer = b] \in Task
        /\ [task[c] EXCEPT !.pc = "probed", !.answer = b].pc = "probed"
        /\ [task[c] EXCEPT !.pc = "probed", !.answer = b].child = task[c].child
        /\ [task[c] EXCEPT !.pc = "probed", !.answer = b].victims = task[c].victims
    BY <1>0 DEF Task
  <2> QED
    BY <1>1, <1>4, <1>7, <2>1, <2>2 DEF Probe
<1>8. CASE Connected(c)
  <2>1. CASE task' = [task EXCEPT ![c] = [NewTask EXCEPT !.pc = "listing", !.op = "disable"]] /\ UNCHANGED actor
    <3> DEFINE x == [NewTask EXCEPT !.pc = "listing", !.op = "disable"]
    <3>1. x \in Task /\ x.pc = "listing" /\ x.child = None /\ x.victims = {}
      BY <1>2 DEF Task
    <3> HIDE DEF x
    <3>2. task' = [task EXCEPT ![c] = x]
      BY <2>1 DEF x
    <3> QED
      BY <1>1, <1>4, <1>8, <2>1, <3>1, <3>2 DEF Connected
  <2>2. CASE Restart(c)
    BY <1>1, <1>8, <2>2, RestartBegins DEF Connected
  <2>3. CASE task' = [task EXCEPT ![c] = At(c, "inspecting")] /\ UNCHANGED actor
    <3>1. /\ At(c, "inspecting") \in Task /\ At(c, "inspecting").pc = "inspecting"
          /\ At(c, "inspecting").child = task[c].child /\ At(c, "inspecting").victims = task[c].victims
      BY <1>0, TaskGoesOn
    <3> QED
      BY <1>1, <1>4, <1>8, <2>3, <3>1 DEF Connected
  <2> QED
    BY <1>8, <2>1, <2>2, <2>3 DEF Connected
<1>9. CASE Inspect(c)
  <2>1. PICK b \in BOOLEAN : task' = [task EXCEPT ![c] = [task[c] EXCEPT !.pc = "inspected", !.answer = b]]
    <3> DEFINE old == \E p \in Alive : proc[p].old
    <3>1. old \in BOOLEAN
      OBVIOUS
    <3>2. task' = [task EXCEPT ![c] = [task[c] EXCEPT !.pc = "inspected", !.answer = old]]
      BY <1>0, <1>9 DEF Inspect, SupervisorTypes
    <3> HIDE DEF old
    <3> QED
      BY <3>1, <3>2, Zenon
  <2>2. /\ [task[c] EXCEPT !.pc = "inspected", !.answer = b] \in Task
        /\ [task[c] EXCEPT !.pc = "inspected", !.answer = b].pc = "inspected"
        /\ [task[c] EXCEPT !.pc = "inspected", !.answer = b].child = task[c].child
        /\ [task[c] EXCEPT !.pc = "inspected", !.answer = b].victims = task[c].victims
    BY <1>0 DEF Task
  <2> QED
    BY <1>1, <1>4, <1>9, <2>1, <2>2 DEF Inspect
<1>10. CASE Adopt(c)
  <2>1. CASE Restart(c) /\ UNCHANGED retries
    BY <1>1, <1>10, <2>1, RestartBegins DEF Adopt
  <2>2. CASE ~(Restart(c) /\ UNCHANGED retries)
    <3> DEFINE a == [actor EXCEPT !.failures = 0, !.recovery = None, !.stability = None]
    <3>1. /\ task[c].pc = "inspected" /\ retries' = 0 /\ task' = [task EXCEPT ![c] = Answered(TRUE)]
          /\ UNCHANGED <<firing, proc, agent, trouble>>
          /\ \/ actor.kind = "running" /\ actor' = a
             \/ /\ actor.kind # "running" /\ actor.generation < MaxGeneration
                /\ actor' = [Running(a, a.generation + 1, None) EXCEPT !.generation = @ + 1]
      BY <1>10, <2>2 DEF Adopt, Return
    <3>2. /\ a \in Actor /\ a.kind = actor.kind /\ a.launch = actor.launch /\ a.daemon = actor.daemon
          /\ a.generation = actor.generation /\ a.failures = 0 /\ a.recovery = None
      <4>1. actor \in Actor /\ 0 \in 0 .. MaxRestarts + 1
        BY <1>0, SupervisorAssumption DEF SupervisorTypes
      <4> QED
        BY <4>1 DEF Actor
    <3> HIDE DEF a
    <3>3. /\ actor' \in Actor /\ actor'.kind = "running" /\ actor'.failures = 0 /\ actor'.recovery = None
          /\ \/ actor.kind = "running" /\ actor'.generation = actor.generation /\ actor'.daemon = actor.daemon
             \/ actor.kind # "running" /\ actor'.generation = actor.generation + 1 /\ actor'.daemon = None
      <4>1. CASE actor.kind = "running" /\ actor' = a
        BY <3>2, <4>1
      <4>2. CASE /\ actor.kind # "running" /\ actor.generation < MaxGeneration
                 /\ actor' = [Running(a, a.generation + 1, None) EXCEPT !.generation = @ + 1]
        <5>1. a.generation + 1 \in Generation
          BY <3>2, <4>2, SupervisorFacts DEF Generation
        <5>2. /\ Running(a, a.generation + 1, None) \in Actor /\ Running(a, a.generation + 1, None).kind = "running"
              /\ Running(a, a.generation + 1, None).daemon = None
              /\ Running(a, a.generation + 1, None).generation = a.generation
              /\ Running(a, a.generation + 1, None).failures = 0 /\ Running(a, a.generation + 1, None).recovery = None
          BY <3>2, <5>1, ActorMoves
        <5>3. actor' = [Running(a, a.generation + 1, None) EXCEPT !.generation = a.generation + 1]
          BY <4>2, <5>2 DEF Actor
        <5> QED
          BY <3>2, <4>2, <5>1, <5>2, <5>3 DEF Actor
      <4> QED
        BY <3>1, <4>1, <4>2
    <3>4. Forgives
      BY <3>1, <3>3 DEF Forgives
    <3>5. ActorFits /\ BackoffCaused
      BY <1>0, <3>3 DEF ActorFits, StartupsAreKnown, BackoffCaused
    <3>6. RestFits
      BY <3>1, <3>3, <3>4, AgentRests, RestStays
    <3>7. task'[c] = Answered(TRUE) /\ \A u \in Tasks : u # c => task'[u] = task[u]
      BY <1>0, <3>1 DEF SupervisorTypes
    <3>8. TaskFits(c)
      BY <1>0, <1>2, <3>7 DEF TaskFits
    <3>9. ChildrenHeld
      <4>1. None \notin Alive
        BY SupervisorAssumption DEF Alive
      <4> QED
        BY <1>0, <1>1, <3>1, <3>3, <3>7, <4>1 DEF ChildrenHeld, StartupsAreKnown
    <3> QED
      BY <1>0, <1>2, <1>3, <3>1, <3>5, <3>6, <3>8, <3>9, OneTaskMoves
  <2> QED
    BY <1>10, <2>1, <2>2 DEF Adopt
<1>11. CASE Disconnected(c)
  <2>0. task[c].child = None /\ UNCHANGED <<firing, proc, agent, trouble, retries>>
    BY <1>1, <1>11 DEF Disconnected
  <2>1. CASE Restart(c)
    BY <2>0, <2>1, RestartBegins
  <2>2. CASE task' = [task EXCEPT ![c] = Answered(FALSE)] /\ UNCHANGED actor
    BY <1>2, <1>4, <2>0, <2>2
  <2>3. ASSUME NEW a, FoundBy(a), a.kind \notin {"starting", "running"}, actor' = a,
               task' = [task EXCEPT ![c] = [NewTask EXCEPT !.pc = "listing", !.op = "orphans"]],
               actor'.kind = "stopped"
        PROVE  SupervisorStepOK
    <3> DEFINE x == [NewTask EXCEPT !.pc = "listing", !.op = "orphans"]
    <3>1. x \in Task /\ x.pc = "listing" /\ x.child = None /\ x.victims = {}
      BY <1>2 DEF Task
    <3> HIDE DEF x
    <3>2. task' = [task EXCEPT ![c] = x]
      BY <2>3 DEF x
    <3>3. task'[c] = x /\ \A u \in Tasks : u # c => task'[u] = task[u]
      BY <1>0, <3>2 DEF SupervisorTypes
    <3>4. actor'.daemon = None /\ actor.daemon \notin Alive
      <4>1. None \notin Alive
        BY SupervisorAssumption DEF Alive
      <4> QED
        BY <1>0, <2>3, <4>1 DEF FoundBy, StartupsAreKnown
    <3>5. ActorFits /\ BackoffCaused
      BY <2>3, <3>4 DEF FoundBy, ActorFits, BackoffCaused
    <3>6. Quiet
      BY <2>0, <2>3 DEF FoundBy, Quiet
    <3>7. RestFits
      BY <2>0, <2>3, <3>6, AgentRests, RestStays DEF FoundBy
    <3>8. TaskFits(c)
      BY <1>0, <3>1, <3>3 DEF TaskFits
    <3>9. ChildrenHeld
      BY <2>0, <3>3, <3>4 DEF ChildrenHeld
    <3> QED
      BY <1>0, <1>3, <2>0, <3>1, <3>2, <3>5, <3>7, <3>8, <3>9, OneTaskMoves
  <2>4. ASSUME NEW a, FoundBy(a), BeginStartup(c, a)
        PROVE  SupervisorStepOK
    BY <2>0, <2>4, BeginsStartup
  <2>5. FoundBy(actor)
    BY FoundAsItIs
  <2>6. CASE actor.kind = "running" /\ actor.daemon \notin Alive /\ ~Restart(c)
    <3> DEFINE a == [Stopped(actor) EXCEPT !.stability = None]
    <3>1. FoundBy(a) /\ a.kind = "stopped"
      <4>1. /\ Stopped(actor) \in Actor /\ Stopped(actor).kind = "stopped" /\ Stopped(actor).daemon = None
            /\ Stopped(actor).generation = actor.generation /\ Stopped(actor).failures = actor.failures
            /\ Stopped(actor).recovery = actor.recovery
        BY <1>0, ActorMoves DEF SupervisorTypes
      <4>2. /\ a \in Actor /\ a.kind = "stopped" /\ a.daemon = None /\ a.generation = actor.generation
            /\ a.failures = actor.failures /\ a.recovery \in {None, actor.recovery}
        BY <4>1 DEF Actor
      <4> QED
        BY <4>2, <2>6 DEF FoundBy
    <3> HIDE DEF a
    <3>2. \/ BeginStartup(c, a)
          \/ actor' = a /\ task' = [task EXCEPT ![c] = [NewTask EXCEPT !.pc = "listing", !.op = "orphans"]]
      BY <1>11, <2>6 DEF Disconnected, a
    <3> QED
      BY <2>3, <2>4, <3>1, <3>2
  <2>7. CASE actor.kind = "backingOff" /\ actor.due
    <3> DEFINE a == [Stopped(actor) EXCEPT !.recovery = None]
    <3>0. actor.daemon \notin Alive
      BY <1>0, <2>7, SupervisorAssumption DEF StartupsAreKnown, Alive
    <3>1. FoundBy(a) /\ a.kind = "stopped"
      <4>1. /\ Stopped(actor) \in Actor /\ Stopped(actor).kind = "stopped" /\ Stopped(actor).daemon = None
            /\ Stopped(actor).generation = actor.generation /\ Stopped(actor).failures = actor.failures
            /\ Stopped(actor).recovery = actor.recovery
        BY <1>0, ActorMoves DEF SupervisorTypes
      <4>2. /\ a \in Actor /\ a.kind = "stopped" /\ a.daemon = None /\ a.generation = actor.generation
            /\ a.failures = actor.failures /\ a.recovery \in {None, actor.recovery}
        BY <4>1 DEF Actor
      <4> QED
        BY <4>2, <3>0 DEF FoundBy
    <3> HIDE DEF a
    <3>2. \/ BeginStartup(c, a)
          \/ actor' = a /\ task' = [task EXCEPT ![c] = [NewTask EXCEPT !.pc = "listing", !.op = "orphans"]]
      BY <1>11, <2>7 DEF Disconnected, a
    <3> QED
      BY <2>3, <2>4, <3>1, <3>2
  <2>8. CASE actor.kind = "stopped"
    <3>1. \/ BeginStartup(c, actor)
          \/ actor' = actor /\ task' = [task EXCEPT ![c] = [NewTask EXCEPT !.pc = "listing", !.op = "orphans"]]
      BY <1>11, <2>8 DEF Disconnected
    <3> QED
      BY <2>3, <2>4, <2>5, <2>8, <3>1
  <2>9. CASE actor.kind = "starting" /\ BeginStartup(c, actor)
    BY <2>4, <2>5, <2>9
  <2> QED
    BY <1>11, <2>1, <2>2, <2>6, <2>7, <2>8, <2>9 DEF Disconnected, Return
<1>12. CASE JoinStartup(c)
  <2>1. /\ At(c, "leaving") \in Task /\ At(c, "leaving").pc = "leaving"
        /\ At(c, "leaving").child = task[c].child /\ At(c, "leaving").victims = task[c].victims
    BY <1>0, TaskGoesOn
  <2> QED
    BY <1>1, <1>4, <1>12, <2>1 DEF JoinStartup
<1>13. CASE EndWait(c)
  <2>1. task[task[c].on].answer \in BOOLEAN
    <3>1. task[c].on \in Tasks
      BY <1>0, <1>13 DEF EndWait, StartupsAreKnown
    <3> QED
      BY <1>0, <3>1 DEF SupervisorTypes, Task
  <2>2. PICK b \in BOOLEAN : task' = [task EXCEPT ![c] = Answered(b)]
    <3>1. task' = [task EXCEPT ![c] = Answered(task[task[c].on].answer)]
      BY <1>13 DEF EndWait, Return
    <3> QED
      BY <2>1, <3>1, Zenon
  <2> QED
    BY <1>1, <1>2, <1>4, <1>13, <2>2 DEF EndWait
<1>14. CASE CallStopped(c)
  <2>0. task[c].child = None /\ task[c].pc = "stopped" /\ UNCHANGED <<firing, proc, agent, trouble, retries>>
    BY <1>1, <1>14 DEF CallStopped
  <2>1. CASE actor' = Stopped(actor) /\ task' = [task EXCEPT ![c] = Answered(FALSE)]
    <3>1. /\ actor' \in Actor /\ actor'.kind = "stopped" /\ actor'.daemon = None
          /\ actor'.generation = actor.generation /\ actor'.failures = actor.failures
          /\ actor'.recovery = actor.recovery
      BY <1>0, <2>1, ActorMoves DEF SupervisorTypes
    <3>2. ActorFits /\ BackoffCaused
      BY <3>1 DEF ActorFits, BackoffCaused
    <3>3. Quiet
      BY <2>0, <3>1 DEF Quiet
    <3>4. RestFits
      BY <2>0, <3>1, <3>3, AgentRests, RestStays
    <3>5. task'[c] = Answered(FALSE)
      BY <1>0, <2>1 DEF SupervisorTypes
    <3>6. Answered(FALSE).answer = FALSE /\ Answered(FALSE).pc = "done"
      BY TaskMoves
    <3>7. CallerGivesUp
      BY <2>0, <3>5, <3>6 DEF CallerGivesUp
    <3>8. TaskFits(c)
      BY <1>0, <1>2, <3>5 DEF TaskFits
    <3> QED
      BY <1>0, <1>2, <1>3, <2>0, <2>1, <3>2, <3>4, <3>7, <3>8, OneTaskMoves DEF ChildrenHeld
  <2>2. CASE BeginStartup(c, actor)
    BY <2>0, <2>2, FoundAsItIs, BeginsStartup
  <2>3. CASE GiveUp(c)
    BY <1>0, <2>0, <2>3, GivesUp
  <2> QED
    BY <1>14, <2>1, <2>2, <2>3 DEF CallStopped, Return
<1> QED
  BY <1>5, <1>6, <1>7, <1>8, <1>9, <1>10, <1>11, <1>12, <1>13, <1>14 DEF CallStep

\* The steps by which a task stops daemons.
LEMMA StoppersStep ==
  ASSUME SupervisorInv, NEW t \in Tasks, StopStep(t)
  PROVE  SupervisorStepOK
<1>0. /\ SupervisorTypes /\ StartupsAreKnown /\ ChildrenAreKnown /\ Startups \subseteq Tasks
      /\ (t \in Calls \/ t \in Startups) /\ Calls \intersect Startups = {} /\ task[t] \in Task
  BY SupervisorFacts
<1>1. /\ task[t].child # None => task[t].child \in Daemons
      /\ task[t].victims \subseteq Daemons /\ \A p \in task[t].victims : proc[p].signal # "none"
      /\ t \in Startups => task[t].op \notin {"orphans", "disable"}
  BY <1>0 DEF ChildrenAreKnown, StartupsAreKnown, Task
<1>2. ASSUME ProcessesFit, NEW p \in Victims(t), proc[p].signal # "none"
      PROVE  proc'[p].signal # "none"
  <2>1. p \in Daemons
    BY <1>1, <1>2 DEF Victims
  <2> QED
    BY <1>2, <2>1 DEF ProcessesFit, Unreferenced
<1>3. /\ task[t].victims \subseteq Victims(t)
      /\ task[t].child # None => task[t].child \in Victims(t)
  BY DEF Victims
<1>4. CASE Unregister(t)
  <2>0. task[t].pc = "leaving" /\ UNCHANGED <<firing, retries>>
    BY <1>4 DEF Unregister
  <2>1. CASE /\ GiveUp(t) /\ agent \in {"requiresApproval", "enabled"} /\ UNCHANGED <<agent, proc>>
             /\ trouble' = trouble \/ GoWrong
    <3>1. Managed
      BY <2>1 DEF Managed
    <3>2. task[t].child = None
      BY <1>0, <3>1 DEF ChildrenAreKnown
    <3> QED
      BY <1>0, <2>0, <2>1, <3>2, GivesUp
  <2>2. CASE /\ agent' = (IF Managed THEN "notRegistered" ELSE agent)
             /\ IF task[t].child # None
                THEN /\ task' = [task EXCEPT ![t] = At(t, "stopping")]
                     /\ proc' = Terminated({task[t].child})
                ELSE /\ task' = [task EXCEPT ![t] = At(t, "listing")]
                     /\ proc' = Killed({p \in Alive : agent = "enabled" /\ proc[p].parent = "launchd"})
             /\ UNCHANGED <<actor, trouble>>
    <3>2. agent' \in Agents \union {"notRegistered", "enabled", "requiresApproval"} /\ (Managed' <=> Managed)
      BY <1>0, <2>2 DEF SupervisorTypes, Managed
    <3>3. ActorFits /\ BackoffCaused /\ RestFits
      BY <2>0, <2>2, <3>2, ActorRests, RestStays
    <3>4. ProcessesFit
      BY <2>2, ProcessesChange
    <3>5. ASSUME NEW pc \in {"stopping", "listing"}, task' = [task EXCEPT ![t] = At(t, pc)],
                 task[t].child # None => pc = "stopping" /\ proc'[task[t].child].signal # "none"
          PROVE  SupervisorStepOK
      <4>1. /\ At(t, pc) \in Task /\ At(t, pc).pc = pc /\ At(t, pc).op = task[t].op /\ At(t, pc).child = task[t].child
            /\ At(t, pc).victims = task[t].victims
        BY TaskGoesOn
      <4>2. task'[t] = At(t, pc) /\ \A u \in Tasks : u # t => task'[u] = task[u]
        BY <1>0, <3>5 DEF SupervisorTypes
      <4>3. t \in Startups => t <= actor.generation /\ ~(t = actor.generation /\ actor.kind = "running")
        BY <1>0, <2>0, SupervisorFacts DEF StartupsAreKnown
      <4>4. actor'.generation = actor.generation /\ actor'.kind = actor.kind
        BY <2>2
      <4>5. \A p \in task[t].victims : proc'[p].signal # "none"
        BY <1>1, <1>2, <1>3, <3>4
      <4>6. task[t].child # None => ~Managed
        BY <1>0 DEF ChildrenAreKnown
      <4>7. TaskFits(t)
        BY <1>1, <3>5, <4>1, <4>2, <4>3, <4>4, <4>5, <4>6 DEF TaskFits
      <4>8. ChildrenHeld
        BY <2>2, <4>1, <4>2 DEF ChildrenHeld
      <4> QED
        BY <3>3, <3>4, <3>5, <4>1, <4>7, <4>8, OneTaskMoves
    <3>6. CASE task[t].child # None
      <4>1. proc'[task[t].child].signal # "none"
        BY <1>1, <2>2, <3>6, ProcessesChange
      <4> QED
        BY <2>2, <3>5, <3>6, <4>1
    <3> QED
      BY <2>2, <3>5, <3>6
  <2> QED
    BY <1>4, <2>1, <2>2 DEF Unregister
<1>5. CASE ListDaemons(t)
  <2>1. PICK seen \in SUBSET Alive :
          IF task[t].op = "orphans" /\ seen = {}
          THEN BeginStartup(t, actor) /\ UNCHANGED proc
          ELSE /\ task' = [task EXCEPT ![t] = [task[t] EXCEPT !.pc = "stopping", !.victims = seen]]
               /\ proc' = Terminated(seen)
               /\ UNCHANGED actor
    BY <1>0, <1>5 DEF ListDaemons, SupervisorTypes
  <2>2. task[t].child = None /\ task[t].pc = "listing" /\ UNCHANGED <<firing, agent, trouble, retries>>
    BY <1>0, <1>5 DEF ListDaemons, ChildrenAreKnown
  <2>3. CASE task[t].op = "orphans" /\ seen = {}
    <3>1. t \in Calls
      BY <1>0, <1>1, <2>3
    <3> QED
      BY <2>1, <2>2, <2>3, <3>1, FoundAsItIs, BeginsStartup
  <2>4. CASE ~(task[t].op = "orphans" /\ seen = {})
    <3> DEFINE x == [task[t] EXCEPT !.pc = "stopping", !.victims = seen]
    <3>1. seen \subseteq Daemons
      BY DEF Alive
    <3>2. x \in Task /\ x.pc = "stopping" /\ x.op = task[t].op /\ x.child = None /\ x.victims = seen
      BY <1>0, <2>2, <3>1 DEF Task
    <3> HIDE DEF x
    <3>3. task' = [task EXCEPT ![t] = x]
      BY <2>1, <2>4 DEF x
    <3>4. proc' = Terminated(seen) /\ UNCHANGED actor
      BY <2>1, <2>4
    <3>5. ProcessesFit /\ \A p \in seen : proc'[p].signal # "none"
      BY <3>1, <3>4, ProcessesChange
    <3> QED
      BY <1>1, <2>2, <3>2, <3>3, <3>4, <3>5, TaskAlone
  <2> QED
    BY <2>3, <2>4
<1>6. CASE AwaitStop(t)
  <2>0. /\ task[t].pc \in {"stopping", "killing"} /\ UNCHANGED <<actor, firing, agent, retries>>
        /\ trouble' = trouble \/ GoWrong
    BY <1>6 DEF AwaitStop
  <2>1. task[t].child # None => proc[task[t].child].signal # "none" /\ ~Managed
    BY <1>0, <2>0 DEF ChildrenAreKnown
  <2>2. ASSUME NEW b \in BOOLEAN, task' = [task EXCEPT ![t] = Ended(t, b)], proc' = proc
        PROVE  SupervisorStepOK
    <3>1. /\ Ended(t, b) \in Task /\ Ended(t, b).pc = "stopped" /\ Ended(t, b).op = task[t].op
          /\ Ended(t, b).child = None /\ Ended(t, b).victims = {}
      BY <1>0 DEF Ended, Task
    <3>2. ProcessesFit
      BY <2>2, ProcessesChange
    <3> QED
      BY <1>1, <2>0, <2>1, <2>2, <3>1, <3>2, TaskAlone
  <2>3. CASE task' = [task EXCEPT ![t] = At(t, "killing")] /\ \E ps : proc' = Killed(ps)
    <3>1. /\ At(t, "killing") \in Task /\ At(t, "killing").pc = "killing" /\ At(t, "killing").op = task[t].op
          /\ At(t, "killing").child = task[t].child /\ At(t, "killing").victims = task[t].victims
      BY TaskGoesOn
    <3>2. ProcessesFit
      BY <2>3, ProcessesChange
    <3>3. \A p \in Victims(t) : proc[p].signal # "none" => proc'[p].signal # "none"
      BY <1>2, <3>2
    <3> QED
      BY <1>1, <1>3, <2>0, <2>1, <2>3, <3>1, <3>2, <3>3, TaskAlone
  <2> QED
    BY <1>6, <2>2, <2>3 DEF AwaitStop
<1> QED
  BY <1>4, <1>5, <1>6 DEF StopStep

\* The steps of a startup.
LEMMA StartupsStep ==
  ASSUME SupervisorInv, NEW s \in Startups, StartupStep(s)
  PROVE  SupervisorStepOK
<1>0. /\ SupervisorTypes /\ StartupsAreKnown /\ ChildrenAreKnown
      /\ s \in Tasks /\ s \notin Calls /\ task[s] \in Task /\ task[s].op \notin {"orphans", "disable"}
      /\ task[s].pc # "done" => s <= actor.generation /\ ~(s = actor.generation /\ actor.kind = "running")
  BY SupervisorFacts DEF StartupsAreKnown
<1>1. /\ task[s].child # None => task[s].child \in Daemons /\ ~Managed
      /\ task[s].pc \in {"begin", "stopped", "sleeping"} => task[s].child = None
      /\ task[s].victims \subseteq Daemons /\ \A p \in task[s].victims : proc[p].signal # "none"
  BY <1>0 DEF ChildrenAreKnown, Task
<1>2. \A b \in BOOLEAN : /\ Answered(b) \in Task /\ Answered(b).pc = "done" /\ Answered(b).child = None
                         /\ Answered(b).victims = {} /\ Answered(b).op = "restart"
  BY TaskMoves
<1>3. ASSUME proc' = proc
      PROVE  ProcessesFit
  BY <1>3, ProcessesChange
\* The startup ends, or goes on, with the child it has.
<1>4. ASSUME UNCHANGED <<actor, firing, proc, agent, retries>>, trouble' = trouble \/ GoWrong,
             NEW x \in Task, task' = [task EXCEPT ![s] = x], task[s].pc # "done",
             x.pc \notin {"waiting", "joining", "stopping", "killing", "sleeping"},
             x.op \notin {"orphans", "disable"}, x.child = task[s].child,
             x.child # None => x.pc \in {"leaving", "readying", "polled"},
             x.victims = {} \/ x.victims = task[s].victims
      PROVE  SupervisorStepOK
  <2>1. \A p \in x.victims : proc'[p].signal # "none"
    BY <1>1, <1>4
  <2> QED
    BY <1>0, <1>1, <1>3, <1>4, <2>1, TaskAlone
<1>5. ASSUME NextAttempt(s), task[s].pc # "done", task[s].child = None, UNCHANGED <<firing, proc, agent, retries>>,
             trouble' = trouble \/ GoWrong
      PROVE  SupervisorStepOK
  BY <1>0, <1>5, GivesUp DEF GiveUp
\* The startup ends, and the actor changes with it.
<1>6. ASSUME NEW b \in BOOLEAN, task' = [task EXCEPT ![s] = Answered(b)], UNCHANGED <<firing, proc, agent>>,
             trouble' = trouble \/ GoWrong, ActorFits, Quiet \/ Fails \/ Forgives, actor'.generation = actor.generation,
             task[s].pc # "done", actor.generation = s, task[s].child # None => actor'.daemon = task[s].child
      PROVE  SupervisorStepOK
  <2>1. RestFits
    BY <1>6, AgentRests, RestStays DEF ActorFits
  <2>2. task'[s] = Answered(b) /\ \A u \in Tasks : u # s => task'[u] = task[u]
    BY <1>0, <1>6 DEF SupervisorTypes
  <2>3. TaskFits(s)
    BY <1>0, <1>2, <1>6, <2>2 DEF TaskFits
  <2>4. actor.kind # "running" /\ actor.daemon \notin Alive
    <3>1. actor.kind # "running" /\ actor.daemon = None
      BY <1>0, <1>6 DEF StartupsAreKnown
    <3> QED
      BY <3>1, SupervisorAssumption DEF Alive
  <2>5. ChildrenHeld /\ BackoffCaused
    BY <1>6, <2>2, <2>4 DEF ChildrenHeld, BackoffCaused
  <2> QED
    BY <1>0, <1>2, <1>3, <1>6, <2>1, <2>3, <2>5, OneTaskMoves
<1>7. CASE Attempt(s)
  <2>0. task[s].pc = "begin" /\ task[s].child = None /\ UNCHANGED <<firing, agent, retries>>
    BY <1>1, <1>7 DEF Attempt
  <2>1. CASE task' = [task EXCEPT ![s] = Answered(FALSE)] /\ UNCHANGED <<actor, proc, trouble>>
    BY <1>2, <1>4, <2>0, <2>1
  <2>2. CASE task' = [task EXCEPT ![s] = At(s, "leaving")] /\ UNCHANGED <<actor, proc, trouble>>
    <3>1. /\ At(s, "leaving") \in Task /\ At(s, "leaving").pc = "leaving" /\ At(s, "leaving").op = task[s].op
          /\ At(s, "leaving").child = None /\ At(s, "leaving").victims = task[s].victims
      BY <1>0, <2>0, TaskGoesOn
    <3> QED
      BY <1>0, <1>4, <2>0, <2>2, <3>1
  <2>3. CASE /\ ~Managed /\ UNCHANGED <<actor, trouble>>
             /\ \E p \in Unreferenced :
                  /\ proc' = Born(p, "app", s)
                  /\ task' = [task EXCEPT ![s] = [@ EXCEPT !.pc = "readying", !.child = p]]
    <3>1. PICK p \in Unreferenced :
            /\ proc' = Born(p, "app", s)
            /\ task' = [task EXCEPT ![s] = [task[s] EXCEPT !.pc = "readying", !.child = p]]
      BY <1>0, <2>3 DEF SupervisorTypes
    <3> DEFINE x == [task[s] EXCEPT !.pc = "readying", !.child = p]
               born == [NoProcess EXCEPT !.life = "booting", !.parent = "app", !.of = s]
    <3>2. x \in Task /\ x.pc = "readying" /\ x.op = task[s].op /\ x.child = p /\ x.victims = task[s].victims
      BY <1>0 DEF Task, Unreferenced
    <3>3. born \in Process /\ born.signal = "none" /\ born.parent = "app"
      <4>1. s \in Generation
        BY SupervisorAssumption DEF Startups, Generation
      <4> QED
        BY <4>1 DEF Process, NoProcess
    <3>4. proc' = [proc EXCEPT ![p] = born]
      BY <3>1 DEF Born
    <3>5. task' = [task EXCEPT ![s] = x]
      BY <3>1
    <3> HIDE DEF x, born
    <3>6. task'[s] = x /\ \A u \in Tasks : u # s => task'[u] = task[u]
      BY <1>0, <3>5 DEF SupervisorTypes
    <3>7. proc' \in [Daemons -> Process] /\ \A q \in Daemons : q # p => proc'[q] = proc[q]
      BY <1>0, <3>3, <3>4 DEF SupervisorTypes
    <3>8. ProcessesFit
      BY <1>0, <2>3, <3>2, <3>6, <3>7 DEF ProcessesFit, Alive
    <3>9. ActorFits /\ BackoffCaused /\ RestFits
      BY <2>0, <2>3, ActorRests, AgentRests, RestStays
    <3>10. p \notin task[s].victims
      BY <1>0 DEF Unreferenced, Victims
    <3>11. TaskFits(s)
      BY <1>0, <1>1, <2>0, <2>3, <3>2, <3>6, <3>7, <3>10 DEF TaskFits
    <3>12. ChildrenHeld
      BY <2>0, <2>3, <3>6 DEF ChildrenHeld
    <3> QED
      BY <1>0, <3>2, <3>5, <3>8, <3>9, <3>11, <3>12, OneTaskMoves
  <2>4. CASE NextAttempt(s) /\ GoWrong /\ UNCHANGED proc
    BY <1>5, <2>0, <2>4
  <2>5. CASE Current(s) /\ GoWrong /\ actor' = Backoff(actor) /\ task' = [task EXCEPT ![s] = Answered(FALSE)] /\ UNCHANGED proc
    <3>1. ActorFits /\ actor' \in Actor /\ Fails
      BY <2>0, <2>5, ActorBacksOff
    <3>2. actor.generation = s /\ actor'.generation = actor.generation
      BY <2>5, <3>1 DEF Current, Fails
    <3> QED
      BY <1>6, <2>0, <2>5, <3>1, <3>2
  <2> QED
    BY <1>7, <2>1, <2>2, <2>3, <2>4, <2>5 DEF Attempt, Return
<1>8. CASE Register(s)
  <2>0. /\ task[s].pc = "stopped" /\ task[s].child = None /\ Managed /\ UNCHANGED <<firing, proc, retries>>
        /\ trouble' = trouble \/ GoWrong
    BY <1>1, <1>8 DEF Register
  <2>1. CASE agent' = "enabled" /\ task' = [task EXCEPT ![s] = At(s, "readying")] /\ UNCHANGED actor
    <3>1. /\ At(s, "readying") \in Task /\ At(s, "readying").pc = "readying" /\ At(s, "readying").op = task[s].op
          /\ At(s, "readying").child = None /\ At(s, "readying").victims = task[s].victims
      BY <1>0, <2>0, TaskGoesOn
    <3>2. agent' \in Agents \union {"notRegistered", "enabled", "requiresApproval"} /\ (Managed' <=> Managed)
      BY <2>0, <2>1 DEF Managed
    <3>3. ActorFits /\ BackoffCaused /\ RestFits
      BY <2>0, <2>1, <3>2, ActorRests, RestStays
    <3>4. task'[s] = At(s, "readying") /\ \A u \in Tasks : u # s => task'[u] = task[u]
      BY <1>0, <2>1 DEF SupervisorTypes
    <3>5. TaskFits(s)
      BY <1>0, <1>1, <2>0, <2>1, <3>1, <3>4 DEF TaskFits
    <3>6. ChildrenHeld
      BY <2>0, <2>1, <3>4 DEF ChildrenHeld
    <3> QED
      BY <1>0, <1>3, <2>0, <2>1, <3>1, <3>3, <3>5, <3>6, OneTaskMoves
  <2>2. CASE NextAttempt(s) /\ UNCHANGED agent
    BY <1>5, <2>0, <2>2
  <2> QED
    BY <1>8, <2>1, <2>2 DEF Register
<1>9. CASE AwaitReady(s)
  <2>0. task[s].pc = "readying" /\ UNCHANGED <<actor, firing, proc, agent, retries>> /\ (trouble' = trouble \/ GoWrong)
    BY <1>9 DEF AwaitReady
  <2>1. PICK b \in BOOLEAN : task' = [task EXCEPT ![s] = [task[s] EXCEPT !.pc = "polled", !.answer = b]]
    <3> DEFINE ready == Connectable /\ Current(s)
    <3>1. ready \in BOOLEAN
      OBVIOUS
    <3>2. \/ task' = [task EXCEPT ![s] = [task[s] EXCEPT !.pc = "polled", !.answer = ready]]
          \/ task' = [task EXCEPT ![s] = [task[s] EXCEPT !.pc = "polled", !.answer = FALSE]]
      BY <1>0, <1>9 DEF AwaitReady, SupervisorTypes
    <3> HIDE DEF ready
    <3> QED
      BY <3>1, <3>2, Zenon
  <2>2. /\ [task[s] EXCEPT !.pc = "polled", !.answer = b] \in Task
        /\ [task[s] EXCEPT !.pc = "polled", !.answer = b].pc = "polled"
        /\ [task[s] EXCEPT !.pc = "polled", !.answer = b].op = task[s].op
        /\ [task[s] EXCEPT !.pc = "polled", !.answer = b].child = task[s].child
        /\ [task[s] EXCEPT !.pc = "polled", !.answer = b].victims = task[s].victims
    BY <1>0 DEF Task
  <2> QED
    BY <1>0, <1>4, <2>0, <2>1, <2>2
<1>10. CASE Ready(s)
  <2>0. task[s].pc = "polled" /\ UNCHANGED <<firing, agent, trouble>>
    BY <1>10 DEF Ready
  <2>1. CASE task[s].answer /\ Current(s)
    <3>1. /\ actor' = IF Managed THEN [Running(actor, s, None) EXCEPT !.failures = 0]
                      ELSE Running([actor EXCEPT !.stability = s], s, task[s].child)
          /\ retries' = IF Managed THEN 0 ELSE retries
          /\ task' = [task EXCEPT ![s] = Answered(TRUE)]
          /\ UNCHANGED proc
      BY <1>10, <2>1 DEF Ready, Return
    <3>2. actor.generation = s /\ s \in Generation /\ actor \in Actor
      BY <1>0, <2>1, SupervisorAssumption DEF Current, Startups, Generation, SupervisorTypes
    <3>3. CASE Managed
      <4>1. /\ Running(actor, s, None) \in Actor /\ Running(actor, s, None).kind = "running"
            /\ Running(actor, s, None).daemon = None /\ Running(actor, s, None).generation = actor.generation
            /\ Running(actor, s, None).recovery = actor.recovery
        BY <3>2, ActorMoves
      <4>2. 0 \in 0 .. MaxRestarts + 1
        BY SupervisorAssumption
      <4>3. /\ actor' \in Actor /\ actor'.kind = "running" /\ actor'.daemon = None
            /\ actor'.generation = actor.generation /\ actor'.recovery = actor.recovery /\ actor'.failures = 0
        BY <3>1, <3>3, <4>1, <4>2 DEF Actor
      <4>4. Forgives
        BY <3>1, <3>3, <4>3 DEF Forgives
      <4>5. task'[s].pc = "done"
        BY <1>0, <1>2, <3>1 DEF SupervisorTypes
      <4>6. ActorFits
        BY <3>2, <4>3, <4>5 DEF ActorFits
      <4> QED
        BY <1>1, <1>6, <2>0, <3>1, <3>2, <3>3, <4>3, <4>4, <4>6
    <3>4. CASE ~Managed
      <4> DEFINE a == [actor EXCEPT !.stability = s]
      <4>1. /\ a \in Actor /\ a.generation = actor.generation /\ a.recovery = actor.recovery
            /\ a.failures = actor.failures
        BY <3>2 DEF Actor
      <4> HIDE DEF a
      <4>2. task[s].child \in Daemons \union {None}
        BY <1>1
      <4>3. actor' = Running(a, s, task[s].child)
        BY <3>1, <3>4 DEF a
      <4>4. /\ actor' \in Actor /\ actor'.kind = "running" /\ actor'.daemon = task[s].child
            /\ actor'.generation = actor.generation /\ actor'.recovery = actor.recovery
            /\ actor'.failures = actor.failures
        BY <3>2, <4>1, <4>2, <4>3, ActorMoves
      <4>5. Quiet
        BY <3>1, <3>4, <4>4 DEF Quiet
      <4>6. task'[s].pc = "done"
        BY <1>0, <1>2, <3>1 DEF SupervisorTypes
      <4>7. ActorFits
        BY <3>2, <3>4, <4>4, <4>6 DEF ActorFits
      <4> QED
        BY <1>6, <2>0, <3>1, <3>2, <4>4, <4>5, <4>7
    <3> QED
      BY <3>3, <3>4
  <2>2. CASE ~(task[s].answer /\ Current(s)) /\ Managed
    <3>1. UNCHANGED <<proc, retries>> /\ task[s].child = None
      BY <1>1, <1>10, <2>2 DEF Ready
    <3>2. \/ task' = [task EXCEPT ![s] = Answered(FALSE)] /\ UNCHANGED actor
          \/ NextAttempt(s)
      BY <1>10, <2>2 DEF Ready, Return
    <3>3. CASE NextAttempt(s)
      BY <1>5, <2>0, <3>1, <3>3
    <3> QED
      BY <1>2, <1>4, <2>0, <3>1, <3>2, <3>3
  <2>3. CASE ~(task[s].answer /\ Current(s)) /\ ~Managed
    <3>1. /\ UNCHANGED <<actor, retries>> /\ proc' = Terminated({task[s].child})
          /\ \E op \in {"stale", "failed"} : task' = [task EXCEPT ![s] = [task[s] EXCEPT !.pc = "stopping", !.op = op]]
      BY <1>0, <1>10, <2>3 DEF Ready, SupervisorTypes
    <3>2. PICK op \in {"stale", "failed"} : task' = [task EXCEPT ![s] = [task[s] EXCEPT !.pc = "stopping", !.op = op]]
      BY <3>1
    <3> DEFINE x == [task[s] EXCEPT !.pc = "stopping", !.op = op]
    <3>3. x \in Task /\ x.pc = "stopping" /\ x.op = op /\ x.child = task[s].child /\ x.victims = task[s].victims
      BY <1>0 DEF Task
    <3>4. task' = [task EXCEPT ![s] = x]
      BY <3>2
    <3> HIDE DEF x
    <3>5. ProcessesFit /\ (task[s].child # None => proc'[task[s].child].signal # "none")
      BY <1>1, <3>1, ProcessesChange
    <3>6. \A p \in task[s].victims : proc'[p].signal # "none"
      BY <1>0, <1>1, <3>5 DEF ProcessesFit, Unreferenced, Victims
    <3> QED
      BY <1>0, <2>0, <2>3, <3>1, <3>3, <3>4, <3>5, <3>6, TaskAlone, ZenonT(60)
  <2> QED
    BY <2>1, <2>2, <2>3
<1>11. CASE ChildStopped(s)
  <2>0. task[s].pc = "stopped" /\ task[s].child = None /\ UNCHANGED <<firing, proc, agent, trouble, retries>>
    BY <1>1, <1>11 DEF ChildStopped
  <2>1. CASE task' = [task EXCEPT ![s] = Answered(FALSE)] /\ UNCHANGED actor
    BY <1>2, <1>4, <2>0, <2>1
  <2>2. CASE NextAttempt(s)
    BY <1>5, <2>0, <2>2
  <2> QED
    BY <1>11, <2>1, <2>2 DEF ChildStopped, Return
<1>12. CASE Retry(s)
  <2>0. task[s].pc = "sleeping" /\ task[s].child = None /\ UNCHANGED <<actor, firing, proc, agent, trouble, retries>>
    BY <1>1, <1>12 DEF Retry
  <2>1. CASE task' = [task EXCEPT ![s] = Answered(FALSE)]
    BY <1>2, <1>4, <2>0, <2>1
  <2>2. CASE task' = [task EXCEPT ![s] = [NewTask EXCEPT !.pc = "begin", !.attempt = task[s].attempt + 1]]
    <3> DEFINE x == [NewTask EXCEPT !.pc = "begin", !.attempt = task[s].attempt + 1]
    <3>1. task[s].attempt + 1 \in 0 .. LaunchAttempts - 1
      BY <1>0, <2>0, SupervisorAssumption DEF StartupsAreKnown, Task
    <3>2. x \in Task /\ x.pc = "begin" /\ x.op = "restart" /\ x.child = None /\ x.victims = {}
      BY <3>1, TaskMoves DEF Task
    <3> HIDE DEF x
    <3>3. task' = [task EXCEPT ![s] = x]
      BY <2>2 DEF x
    <3> QED
      BY <1>4, <2>0, <3>2, <3>3
  <2> QED
    BY <1>12, <2>1, <2>2 DEF Retry
<1> QED
  BY <1>7, <1>8, <1>9, <1>10, <1>11, <1>12 DEF StartupStep

\* The steps of timers, of processes and of the user: no task moves but a startup that begins.
LEMMA TimersStep ==
  ASSUME SupervisorInv, TimerStep
  PROVE  SupervisorStepOK
<1>0. /\ SupervisorTypes /\ RetriesAreKnown /\ StartupsAreKnown /\ ChildrenAreKnown
      /\ actor \in Actor /\ firing \subseteq Generation /\ actor.generation \in Generation /\ Generation \subseteq Nat
      /\ None \notin Alive /\ MaxRestarts \in Nat /\ MaxGeneration \in Nat /\ None \notin Nat
      /\ retries \in Nat /\ actor.failures \in Nat
  BY SupervisorFacts, SupervisorAssumption DEF SupervisorTypes, Actor, Generation, Alive
<1>1. ASSUME proc' = proc
      PROVE  ProcessesFit
  BY <1>1, ProcessesChange
<1>2. CASE BackoffPasses
  <2>0. /\ actor' = [actor EXCEPT !.due = TRUE] /\ firing' = firing \union ({actor.recovery} \ {None})
        /\ UNCHANGED <<task, proc, agent, trouble, retries>>
    BY <1>2 DEF BackoffPasses
  <2>1. /\ actor' \in Actor /\ actor'.kind = actor.kind /\ actor'.launch = actor.launch /\ actor'.daemon = actor.daemon
        /\ actor'.generation = actor.generation /\ actor'.failures = actor.failures /\ actor'.recovery = actor.recovery
    BY <1>0, <2>0 DEF Actor
  <2>2. ActorFits /\ BackoffCaused
    BY <1>0, <2>1 DEF ActorFits, StartupsAreKnown, BackoffCaused
  <2>3. RetriesAreKnown' /\ firing' \subseteq Generation
    <3>1. actor.recovery # None => actor.recovery = actor.generation /\ retries < MaxRestarts
      BY <1>0 DEF RetriesAreKnown
    <3> QED
      BY <1>0, <2>0, <2>1, <3>1 DEF RetriesAreKnown
  <2>4. RestFits
    BY <1>0, <2>0, <2>3, AgentRests DEF RestFits, SupervisorTypes
  <2>5. ChildrenHeld
    BY <2>0, <2>1 DEF ChildrenHeld
  <2> QED
    BY <1>0, <1>1, <2>0, <2>2, <2>4, <2>5, TasksMove DEF SupervisorTypes
<1>3. CASE MarkStable
  <2>0. /\ UNCHANGED <<task, firing, proc, agent, trouble>>
        /\ \/ actor.kind = "running" /\ actor' = [actor EXCEPT !.failures = 0, !.stability = None] /\ retries' = 0
           \/ actor' = [actor EXCEPT !.stability = None] /\ UNCHANGED retries
    BY <1>3 DEF MarkStable
  <2>1. /\ actor' \in Actor /\ actor'.kind = actor.kind /\ actor'.launch = actor.launch /\ actor'.daemon = actor.daemon
        /\ actor'.generation = actor.generation /\ actor'.recovery = actor.recovery
        /\ \/ actor.kind = "running" /\ actor'.failures = 0 /\ retries' = 0
           \/ actor'.failures = actor.failures /\ retries' = retries
    <3>1. 0 \in 0 .. MaxRestarts + 1
      BY <1>0
    <3> QED
      BY <1>0, <2>0, <3>1 DEF Actor
  <2>2. ActorFits /\ BackoffCaused
    BY <1>0, <2>1 DEF ActorFits, StartupsAreKnown, BackoffCaused
  <2>3. Quiet \/ Forgives
    BY <2>1 DEF Quiet, Forgives
  <2>4. RestFits
    BY <2>0, <2>1, <2>3, AgentRests, RestStays
  <2>5. ChildrenHeld
    BY <2>0, <2>1 DEF ChildrenHeld
  <2> QED
    BY <1>0, <1>1, <2>0, <2>2, <2>4, <2>5, TasksMove DEF SupervisorTypes
<1>4. CASE \E g \in firing : Recover(g)
  <2>1. PICK g \in firing : Recover(g)
    BY <1>4
  <2>2. firing' = firing \ {g} /\ UNCHANGED <<proc, agent, trouble>>
    BY <2>1 DEF Recover
  <2>3. CASE ~(actor.generation = g /\ actor.kind = "backingOff" /\ actor.due)
    <3>1. UNCHANGED <<actor, task, retries>>
      BY <2>1, <2>3 DEF Recover
    <3>2. ActorFits /\ BackoffCaused /\ RestFits
      BY <2>2, <3>1, ActorRests, AgentRests, RestStays
    <3>3. ChildrenHeld
      BY <3>1 DEF ChildrenHeld
    <3> QED
      BY <1>0, <1>1, <2>2, <3>1, <3>2, <3>3, TasksMove DEF SupervisorTypes
  <2>4. CASE actor.generation = g /\ actor.kind = "backingOff" /\ actor.due
    <3> DEFINE s == g + 1
               begun == [NewTask EXCEPT !.pc = "begin"]
    <3>1. /\ actor.generation < MaxGeneration /\ actor' = Starting(actor) /\ retries' = retries + 1
          /\ task' = [task EXCEPT ![s] = begun]
      BY <2>1, <2>4 DEF Recover
    <3>2. s \in Startups /\ s \in Tasks /\ s \in Nat /\ s = actor.generation + 1
      BY <1>0, <2>4, <3>1 DEF Startups, Tasks
    <3>3. begun \in Task /\ begun.pc = "begin" /\ begun.child = None /\ begun.victims = {} /\ begun.op = "restart"
      BY TaskMoves DEF Task
    <3> HIDE DEF begun
    <3>4. /\ actor' \in Actor /\ actor'.kind = "starting" /\ actor'.launch = s /\ actor'.generation = s
          /\ actor'.daemon = None /\ actor'.failures = actor.failures /\ actor'.recovery = None
      BY <1>0, <2>4, <3>1, ActorMoves
    <3>5. task'[s] = begun /\ \A u \in Tasks : u # s => task'[u] = task[u]
      BY <1>0, <3>1, <3>2 DEF SupervisorTypes
    <3>6. ActorFits /\ BackoffCaused
      BY <3>2, <3>4 DEF ActorFits, BackoffCaused
    <3>7. RetriesAreKnown'
      <4>1. retries < MaxRestarts
        BY <1>0, <2>4 DEF RetriesAreKnown
      <4>2. retries < actor.failures
        BY <1>0, <2>4 DEF RetriesAreKnown
      <4>3. \A i \in firing : i <= actor.generation
        BY <1>0 DEF RetriesAreKnown
      <4>4. \A i \in firing' : i <= actor'.generation /\ i # actor'.generation
        <5>1. \A i \in firing' : i \in firing /\ i \in Nat /\ i <= actor.generation
          BY <1>0, <2>2, <4>3
        <5>2. actor.generation \in Nat /\ actor'.generation = actor.generation + 1
          BY <1>0, <3>2, <3>4
        <5> QED
          BY <5>1, <5>2
      <4>5. retries + 1 <= actor.failures /\ retries + 1 <= MaxRestarts
        BY <1>0, <4>1, <4>2
      <4> QED
        BY <3>1, <3>4, <4>4, <4>5 DEF RetriesAreKnown
    <3>8. RestFits
      <4>1. retries' \in Nat
        BY <1>0, <3>1
      <4>2. firing' \subseteq Generation
        BY <1>0, <2>2
      <4>3. trouble' \in 0 .. MaxTrouble
        BY <1>0, <2>2 DEF SupervisorTypes
      <4> QED
        BY <2>2, <3>7, <4>1, <4>2, <4>3, AgentRests DEF RestFits
    <3>9. TaskFits(s)
      BY <3>2, <3>3, <3>4, <3>5 DEF TaskFits
    <3>10. ChildrenHeld
      BY <1>0, <2>4, <3>2, <3>5 DEF ChildrenHeld, StartupsAreKnown
    <3> QED
      BY <1>1, <2>2, <3>1, <3>2, <3>3, <3>6, <3>8, <3>9, <3>10, OneTaskMoves
  <2> QED
    BY <2>3, <2>4
<1> QED
  BY <1>2, <1>3, <1>4 DEF TimerStep

(* The steps of processes and of the user move no task.                    *)
LEMMA ProcessesStep ==
  ASSUME SupervisorInv, ProcessStep \/ (\E p \in Daemons : Exit(p)) \/ Disable \/ Approve
  PROVE  SupervisorStepOK
<1>0. /\ SupervisorTypes /\ StartupsAreKnown /\ ChildrenAreKnown /\ proc \in [Daemons -> Process]
      /\ None \notin Alive
  BY SupervisorFacts, SupervisorAssumption DEF SupervisorTypes, Alive
\* A process that lived on dies or serves.
<1>1. ASSUME NEW p \in Daemons, NEW life \in {"dead", "serving", "exited"}, proc' = [proc EXCEPT ![p].life = life],
             life = "serving" => p \in Alive
      PROVE  ProcessesFit
  <2>1. proc' = [proc EXCEPT ![p] = [proc[p] EXCEPT !.life = life]]
    BY <1>0, <1>1
  <2>2. /\ [proc[p] EXCEPT !.life = life] \in Process
        /\ [proc[p] EXCEPT !.life = life].life = life
        /\ [proc[p] EXCEPT !.life = life].parent = proc[p].parent
        /\ [proc[p] EXCEPT !.life = life].signal = proc[p].signal
    BY <1>0 DEF Process
  <2>3. /\ proc' \in [Daemons -> Process] /\ proc'[p].life = life /\ proc'[p].parent = proc[p].parent
        /\ proc'[p].signal = proc[p].signal /\ \A q \in Daemons : q # p => proc'[q] = proc[q]
    BY <1>0, <2>1, <2>2
  <2> QED
    BY <1>1, <2>3 DEF ProcessesFit, Alive
<1>2. ASSUME UNCHANGED <<actor, task, firing, retries>>, trouble' = trouble \/ GoWrong, ProcessesFit,
             agent' \in Agents \union {"notRegistered", "enabled", "requiresApproval"}, Managed' <=> Managed
      PROVE  SupervisorStepOK
  <2>1. ActorFits /\ BackoffCaused /\ RestFits
    BY <1>2, ActorRests, RestStays
  <2>2. ChildrenHeld
    BY <1>2 DEF ChildrenHeld
  <2> QED
    BY <1>0, <1>2, <2>1, <2>2, TasksMove DEF SupervisorTypes
<1>3. CASE KeepAlive
  <2>1. PICK p \in Unreferenced : proc' = Born(p, "launchd", None)
    BY <1>3 DEF KeepAlive
  <2> DEFINE born == [NoProcess EXCEPT !.life = "booting", !.parent = "launchd", !.of = None]
  <2>2. born \in Process /\ born.parent = "launchd"
    BY DEF Process, NoProcess
  <2>3. proc' = [proc EXCEPT ![p] = born]
    BY <2>1 DEF Born
  <2> HIDE DEF born
  <2>4. p \in Daemons
    BY DEF Unreferenced
  <2>5. /\ proc' \in [Daemons -> Process] /\ proc'[p] = born /\ \A q \in Daemons : q # p => proc'[q] = proc[q]
    BY <1>0, <2>2, <2>3, <2>4
  <2>6. ProcessesFit
    BY <2>2, <2>4, <2>5 DEF ProcessesFit, Alive
  <2> QED
    BY <1>2, <1>3, <2>6, AgentRests DEF KeepAlive
<1>4. ASSUME NEW p \in Daemons, DaemonTerminated(p)
      PROVE  SupervisorStepOK
  <2>0. /\ proc[p].life = "exited" /\ proc' = [proc EXCEPT ![p].life = "dead"]
        /\ UNCHANGED <<task, firing, agent, trouble, retries>>
        /\ \/ actor.daemon = p /\ actor' = Backoff(actor)
           \/ UNCHANGED actor
    BY <1>4 DEF DaemonTerminated
  <2>1. ProcessesFit /\ p \notin Alive
    BY <1>1, <2>0 DEF Alive
  <2>2. CASE UNCHANGED actor
    BY <1>2, <2>0, <2>1, <2>2, AgentRests
  <2>3. CASE actor.daemon = p /\ actor' = Backoff(actor)
    <3>1. ActorFits /\ actor' \in Actor /\ Fails
      BY <2>0, <2>3, ActorBacksOff
    <3>2. RestFits
      BY <2>0, <3>1, AgentRests, RestStays
    <3>3. ChildrenHeld /\ BackoffCaused
      BY <2>0, <2>1, <2>3 DEF ChildrenHeld, BackoffCaused
    <3> QED
      BY <1>0, <2>0, <2>1, <3>1, <3>2, <3>3, TasksMove DEF SupervisorTypes
  <2> QED
    BY <2>0, <2>2, <2>3
<1>5. ASSUME NEW p \in Daemons, proc' = Exited(p)
      PROVE  ProcessesFit
  <2>1. \/ proc' = [proc EXCEPT ![p].life = "exited"]
        \/ proc' = [proc EXCEPT ![p].life = "dead"]
    BY <1>5 DEF Exited
  <2> QED
    BY <1>1, <2>1
<1>6. ASSUME NEW p \in Daemons, Boot(p)
      PROVE  SupervisorStepOK
  <2>1. p \in Alive
    BY <1>6 DEF Boot, Alive
  <2>2. ProcessesFit
    BY <1>1, <1>5, <1>6, <2>1 DEF Boot
  <2> QED
    BY <1>2, <1>6, <2>2, AgentRests DEF Boot
<1>7. ASSUME NEW p \in Daemons, Exit(p)
      PROVE  SupervisorStepOK
  <2>1. ProcessesFit
    BY <1>5, <1>7 DEF Exit
  <2> QED
    BY <1>2, <1>7, <2>1, AgentRests DEF Exit
<1>8. CASE Disable
  <2>1. ProcessesFit
    BY <1>8, ProcessesChange DEF Disable
  <2> QED
    BY <1>2, <1>8, <2>1 DEF Disable, Managed
<1>9. CASE Approve
  <2>1. ProcessesFit
    BY <1>9, ProcessesChange DEF Approve
  <2> QED
    BY <1>2, <1>9, <2>1 DEF Approve, Managed
<1> QED
  BY <1>3, <1>4, <1>6, <1>7, <1>8, <1>9 DEF ProcessStep

(* Every step of the supervisor and of its processes is sound.             *)
LEMMA SupervisorStep ==
  ASSUME SupervisorInv, [Next]_vars
  PROVE  SupervisorStepOK
<1>1. CASE Next
  <2>1. ASSUME NEW c \in Calls, EnsureRunning(c) \/ RestartNow(c) \/ CallStep(c) PROVE SupervisorStepOK
    BY <2>1, CallersStep
  <2>2. ASSUME NEW t \in Tasks, StopStep(t) PROVE SupervisorStepOK
    BY <2>2, StoppersStep
  <2>3. ASSUME NEW s \in Startups, StartupStep(s) PROVE SupervisorStepOK
    BY <2>3, StartupsStep
  <2>4. CASE TimerStep
    BY <2>4, TimersStep
  <2>5. CASE ProcessStep \/ (\E p \in Daemons : Exit(p)) \/ Disable \/ Approve
    BY <2>5, ProcessesStep
  <2> QED
    BY <1>1, <2>1, <2>2, <2>3, <2>4, <2>5 DEF Next
<1>2. CASE UNCHANGED vars
  <2>1. UNCHANGED <<actor, task, firing, proc, agent, trouble, retries>>
    BY <1>2 DEF vars
  <2>2. ActorFits /\ BackoffCaused /\ RestFits
    BY <2>1, ActorRests, AgentRests, RestStays
  <2>3. ProcessesFit /\ ChildrenHeld
    BY <2>1, ProcessesChange DEF ChildrenHeld
  <2> QED
    BY <2>1, <2>2, <2>3, TasksMove DEF SupervisorInv, SupervisorTypes
<1> QED
  BY <1>1, <1>2

(* What is needed besides: each automatic startup was paid for by a       *)
(* failure, the startup of a running daemon has ended, and whoever holds  *)
(* a child is at a step that will stop it or hand it on.                  *)
THEOREM SupervisorInvariant == Spec => []SupervisorInv
<1>1. SupervisorInv /\ [Next]_vars => SupervisorInv'
  BY SupervisorStep DEF SupervisorStepOK
<1> QED
  BY <1>1, SupervisorInitInv, PTL DEF Spec

(* The recovery of what the app shows.                                     *)
RecoveryPhases == {"none", "started", "loading", "ready", "refreshing", "reloading", "reloaded", "finished"}
CallerPhases == {"idle", "refreshing", "loading", "loaded", "waiting", "owner"}

\* What answers a load is typed as long as it is not applied, and the user owns no recovery.
RecoveryTypes ==
  /\ switchedOn \subseteq AppProviders /\ fresh \subseteq AppProviders /\ current \subseteq fresh
  /\ daemon \in {"loading", "online", "offline"}
  /\ networkStatus \in Statuses /\ connectivity \in {"online", "offline"}
  /\ recoveryPending \in BOOLEAN /\ cooling \in BOOLEAN /\ owed \in BOOLEAN
  /\ load.at \in {"none", "asked", "retried", "answered", "applied"}
  /\ load.at = "answered" => load.fresh \subseteq AppProviders /\ load.network \in {"online", "offline"}
  /\ recovery \in [at : RecoveryPhases, of : SUBSET AppProviders]
  /\ owner \in {"poll", "popover", "wake", "network", "nobody"} /\ owner \in AppCallers \union {"nobody"}
  /\ caller \in [AppCallers -> CallerPhases]
  /\ caller["user"] \in {"idle", "refreshing", "loading", "loaded"}
  /\ userAsked \subseteq AppProviders /\ turns \in 0..MaxTurns

Recovered == IF recovery.at \in {"refreshing", "reloading", "reloaded"} THEN recovery.of ELSE {}
Asked == IF caller["user"] # "idle" THEN userAsked ELSE {}
One(b) == IF b THEN 1 ELSE 0
CountsAreKnown ==
  /\ counts \in [AppProviders -> 0..2]
  /\ \A p \in AppProviders : counts[p] = One(p \in Recovered) + One(p \in Asked)

RecoveryInv == RecoveryTypes /\ NoRecoveryForgotten /\ CountsAreKnown

(* The invariant says what the app promises.                               *)
LEMMA RecoveryInvIsSound ==
  ASSUME RecoveryInv
  PROVE  AppSound
<1>0. RecoveryTypes /\ NoRecoveryForgotten /\ CountsAreKnown
  BY DEF RecoveryInv
<1>1. recovery.at \in RecoveryPhases /\ recovery.of \subseteq AppProviders
  BY <1>0 DEF RecoveryTypes
<1>2. RecoveryTypeOK
  <2>1. {recoveryPending, cooling, owed} \subseteq BOOLEAN
    BY <1>0 DEF RecoveryTypes
  <2>2. caller \in [AppCallers -> {"idle", "refreshing", "loading", "loaded", "waiting", "owner"}]
    BY <1>0 DEF RecoveryTypes, CallerPhases
  <2>3. counts \in [AppProviders -> 0..2]
    BY <1>0 DEF CountsAreKnown
  <2>4. recovery.at \in {"none", "started", "loading", "ready", "refreshing", "reloading", "reloaded", "finished"}
    BY <1>1 DEF RecoveryPhases
  <2> QED
    BY <1>0, <1>1, <2>1, <2>2, <2>3, <2>4 DEF RecoveryTypes, RecoveryTypeOK
<1>3. ActivityShown
  <2> SUFFICES ASSUME NEW p \in AppProviders
               PROVE  counts[p] = Under(p)
    BY DEF ActivityShown
  <2>1. counts[p] = One(p \in Recovered) + One(p \in Asked)
    BY <1>0 DEF CountsAreKnown
  <2>2. One(p \in Recovered) = IF p \in recovery.of /\ recovery.at \in {"refreshing", "reloading", "reloaded"} THEN 1 ELSE 0
    BY DEF One, Recovered
  <2>3. One(p \in Asked) = IF p \in userAsked /\ caller["user"] # "idle" THEN 1 ELSE 0
    BY DEF One, Asked
  <2> QED
    BY <2>1, <2>2, <2>3 DEF Under
<1> QED
  BY <1>0, <1>2, <1>3 DEF AppSound

(* When the app starts, nothing is refreshed and nothing is owed.          *)
LEMMA RecoveryInitInv == RecoveryInit => RecoveryInv
<1> SUFFICES ASSUME RecoveryInit PROVE RecoveryInv
  OBVIOUS
<1>1. RecoveryTypes
  <2>1. caller \in [AppCallers -> CallerPhases] /\ caller["user"] = "idle"
    BY DEF RecoveryInit, AppCallers, CallerPhases
  <2>2. recovery \in [at : RecoveryPhases, of : SUBSET AppProviders] /\ load.at = "none"
    BY DEF RecoveryInit, NoRecovery, RecoveryPhases, NoLoad
  <2>3. 0 \in 0..MaxTurns
    BY RecoveryAssumption
  <2> QED
    BY <2>1, <2>2, <2>3 DEF RecoveryInit, RecoveryTypes, Statuses
<1>2. CountsAreKnown
  <2>1. Recovered = {} /\ Asked = {}
    BY DEF RecoveryInit, Recovered, Asked, NoRecovery, AppCallers
  <2>2. One(FALSE) = 0
    BY DEF One
  <2>3. counts = [p \in AppProviders |-> 0]
    BY DEF RecoveryInit
  <2>4. \A p \in AppProviders : (p \in Recovered) = FALSE /\ (p \in Asked) = FALSE
    BY <2>1
  <2> QED
    BY <2>1, <2>2, <2>3 DEF CountsAreKnown, One
<1> QED
  BY <1>1, <1>2 DEF RecoveryInv, RecoveryInit, NoRecoveryForgotten

\* A refresh begins or ends, of the recovery or of the user, or none does.
LEMMA CountsFollow ==
  ASSUME CountsAreKnown, NEW of \in SUBSET AppProviders,
         \/ UNCHANGED counts /\ Recovered' = Recovered /\ Asked' = Asked
         \/ counts' = Begun(of) /\ Recovered = {} /\ Recovered' = of /\ Asked' = Asked
         \/ counts' = Begun(of) /\ Asked = {} /\ Asked' = of /\ Recovered' = Recovered
         \/ counts' = TaskEnded(of) /\ Recovered = of /\ Recovered' = {} /\ Asked' = Asked
         \/ counts' = TaskEnded(of) /\ Asked = of /\ Asked' = {} /\ Recovered' = Recovered
  PROVE  CountsAreKnown'
<1>0. /\ counts \in [AppProviders -> 0..2]
      /\ \A p \in AppProviders : counts[p] = One(p \in Recovered) + One(p \in Asked)
  BY DEF CountsAreKnown
<1>1. CASE UNCHANGED counts /\ Recovered' = Recovered /\ Asked' = Asked
  BY <1>0, <1>1 DEF CountsAreKnown, One
<1>2. CASE counts' = Begun(of) /\ Recovered = {} /\ Recovered' = of /\ Asked' = Asked
  <2>1. counts' = [p \in AppProviders |-> counts[p] + One(p \in of)]
    BY <1>2 DEF Begun, One
  <2>2. ASSUME NEW p \in AppProviders
        PROVE  counts'[p] = One(p \in Recovered') + One(p \in Asked') /\ counts'[p] \in 0..2
    <3>1. counts'[p] = counts[p] + One(p \in of)
      BY <2>1
    <3>2. counts[p] = One(p \in Recovered) + One(p \in Asked)
      BY <1>0
    <3> QED
      BY <1>2, <3>1, <3>2 DEF One
  <2> QED
    BY <2>1, <2>2 DEF CountsAreKnown
<1>3. CASE counts' = Begun(of) /\ Asked = {} /\ Asked' = of /\ Recovered' = Recovered
  <2>1. counts' = [p \in AppProviders |-> counts[p] + One(p \in of)]
    BY <1>3 DEF Begun, One
  <2>2. ASSUME NEW p \in AppProviders
        PROVE  counts'[p] = One(p \in Recovered') + One(p \in Asked') /\ counts'[p] \in 0..2
    <3>1. counts'[p] = counts[p] + One(p \in of)
      BY <2>1
    <3>2. counts[p] = One(p \in Recovered) + One(p \in Asked)
      BY <1>0
    <3> QED
      BY <1>3, <3>1, <3>2 DEF One
  <2> QED
    BY <2>1, <2>2 DEF CountsAreKnown
<1>4. CASE counts' = TaskEnded(of) /\ Recovered = of /\ Recovered' = {} /\ Asked' = Asked
  <2>1. counts' = [p \in AppProviders |-> counts[p] - One(p \in of)]
    BY <1>4 DEF TaskEnded, One
  <2>2. ASSUME NEW p \in AppProviders
        PROVE  counts'[p] = One(p \in Recovered') + One(p \in Asked') /\ counts'[p] \in 0..2
    <3>1. counts'[p] = counts[p] - One(p \in of)
      BY <2>1
    <3>2. counts[p] = One(p \in Recovered) + One(p \in Asked)
      BY <1>0
    <3> QED
      BY <1>4, <3>1, <3>2 DEF One
  <2> QED
    BY <2>1, <2>2 DEF CountsAreKnown
<1>5. CASE counts' = TaskEnded(of) /\ Asked = of /\ Asked' = {} /\ Recovered' = Recovered
  <2>1. counts' = [p \in AppProviders |-> counts[p] - One(p \in of)]
    BY <1>5 DEF TaskEnded, One
  <2>2. ASSUME NEW p \in AppProviders
        PROVE  counts'[p] = One(p \in Recovered') + One(p \in Asked') /\ counts'[p] \in 0..2
    <3>1. counts'[p] = counts[p] - One(p \in of)
      BY <2>1
    <3>2. counts[p] = One(p \in Recovered) + One(p \in Asked)
      BY <1>0
    <3> QED
      BY <1>5, <3>1, <3>2 DEF One
  <2> QED
    BY <2>1, <2>2 DEF CountsAreKnown
<1> QED
  BY <1>1, <1>2, <1>3, <1>4, <1>5

(* A caller other than the user moves on its own.                          *)
LEMMA CallerMoves ==
  ASSUME RecoveryTypes, NEW c \in AppCallers, c # "user", NEW phase \in CallerPhases,
         caller' = [caller EXCEPT ![c] = phase]
  PROVE  caller' \in [AppCallers -> CallerPhases] /\ caller'["user"] = caller["user"]
BY DEF RecoveryTypes, AppCallers

\* What a recovery's state may become while the callers go on.
RecoveryFits ==
  /\ recovery' \in [at : RecoveryPhases, of : SUBSET AppProviders]
  /\ owner' \in {"poll", "popover", "wake", "network", "nobody"} /\ owner' \in AppCallers \union {"nobody"}
  /\ caller' \in [AppCallers -> CallerPhases] /\ caller'["user"] = caller["user"]

(* requestStaleDataRecovery begins a recovery, joins the one under way or  *)
(* finds it over.                                                          *)
LEMMA RecoveryIsRequested ==
  ASSUME RecoveryTypes, NEW c \in AppCallers \ {"user"}, NEW reload \in BOOLEAN, RequestRecovery(c, reload)
  PROVE  RecoveryFits /\ Recovered' = Recovered
<1>0. /\ c \in {"poll", "popover", "wake", "network"} /\ c \in AppCallers /\ c # "user"
      /\ recovery \in [at : RecoveryPhases, of : SUBSET AppProviders]
      /\ owner \in {"poll", "popover", "wake", "network", "nobody"} /\ owner \in AppCallers \union {"nobody"}
  BY RecoveryAssumption DEF RecoveryTypes, AppCallers
<1>1. {"owner", "waiting", "idle"} \subseteq CallerPhases
  BY DEF CallerPhases
<1>2. CASE /\ recovery.at = "none"
           /\ recovery' = [at |-> IF reload THEN "started" ELSE "ready", of |-> {}]
           /\ owner' = c /\ caller' = [caller EXCEPT ![c] = "owner"]
  <2>1. \E at \in {"started", "ready"} : recovery' = [at |-> at, of |-> {}]
    BY <1>2
  <2>2. /\ recovery' \in [at : RecoveryPhases, of : SUBSET AppProviders]
        /\ recovery'.at \in {"started", "ready"}
    BY <2>1 DEF RecoveryPhases
  <2>3. caller' \in [AppCallers -> CallerPhases] /\ caller'["user"] = caller["user"]
    BY <1>0, <1>1, <1>2, CallerMoves
  <2> QED
    BY <1>0, <1>2, <2>2, <2>3 DEF RecoveryFits, Recovered
<1>3. CASE /\ \E phase \in {"waiting", "idle"} : caller' = [caller EXCEPT ![c] = phase]
           /\ UNCHANGED <<recovery, owner>>
  <2>1. PICK phase \in {"waiting", "idle"} : caller' = [caller EXCEPT ![c] = phase]
    BY <1>3
  <2>2. caller' \in [AppCallers -> CallerPhases] /\ caller'["user"] = caller["user"]
    BY <1>0, <1>1, <2>1, CallerMoves
  <2> QED
    BY <1>0, <1>3, <2>2 DEF RecoveryFits, Recovered
<1> QED
  BY <1>2, <1>3 DEF RequestRecovery

(* A second call of the same kind only waits.                              *)
LEMMA RecoveryIsJoined ==
  ASSUME RecoveryTypes, NEW c \in {"wake", "network"}, JoinRecovery(c)
  PROVE  RecoveryFits /\ Recovered' = Recovered
<1>1. c \in AppCallers \ {"user"}
  BY DEF AppCallers
<1>2. CASE UNCHANGED <<recovery, owner, caller>>
  BY <1>2 DEF RecoveryTypes, RecoveryFits, Recovered
<1> QED
  BY <1>1, <1>2, RecoveryIsRequested DEF JoinRecovery

(* A recovery that is over lets the others go on.                          *)
LEMMA RecoveryFinishes ==
  ASSUME RecoveryTypes, Finish, UNCHANGED owner
  PROVE  RecoveryFits /\ Recovered' = {}
<1>1. recovery' \in [at : RecoveryPhases, of : SUBSET AppProviders] /\ recovery'.at = "finished"
  BY DEF Finish, RecoveryTypes, RecoveryPhases
<1>2. caller' \in [AppCallers -> CallerPhases] /\ caller'["user"] = caller["user"]
  <2>1. caller' = [c \in AppCallers |-> IF caller[c] = "waiting" THEN "idle" ELSE caller[c]]
    BY DEF Finish
  <2>2. "idle" \in CallerPhases /\ "user" \in AppCallers /\ caller["user"] # "waiting"
    BY DEF CallerPhases, AppCallers, RecoveryTypes
  <2>3. caller \in [AppCallers -> CallerPhases]
    BY DEF RecoveryTypes
  <2> QED
    BY <2>1, <2>2, <2>3
<1> QED
  BY <1>1, <1>2 DEF RecoveryFits, Recovered, RecoveryTypes

(* A load is asked for, or joined.                                         *)
LEMMA LoadIsAsked ==
  ASSUME RecoveryTypes, AskLoad
  PROVE  /\ load'.at \in {"none", "asked", "retried", "answered", "applied"}
         /\ load'.at = "answered" => load'.fresh \subseteq AppProviders /\ load'.network \in {"online", "offline"}
<1>1. CASE load' = [at |-> "asked"]
  BY <1>1
<1>2. CASE load' = load
  BY <1>2 DEF RecoveryTypes
<1> QED
  BY <1>1, <1>2 DEF AskLoad

\* The steps of a load.
LEMMA LoadsStep ==
  ASSUME RecoveryInv, LoadStep \/ DaemonMissing
  PROVE  RecoveryInv'
<1>0. RecoveryTypes /\ NoRecoveryForgotten /\ CountsAreKnown
  BY DEF RecoveryInv
<1>1. UNCHANGED <<switchedOn, fresh, networkStatus, turns, recoveryPending, cooling, owed, owner, userAsked, counts>>
  BY DEF LoadStep, DaemonMissing, DaemonAnswers, ApplyState, LoadFails, LoadEnds, worldVars, wantedVars, shownVars
<1>2. CASE UNCHANGED <<recovery, caller>>
  <2>1. /\ load'.at \in {"none", "asked", "retried", "answered", "applied"}
        /\ load'.at = "answered" => load'.fresh \subseteq AppProviders /\ load'.network \in {"online", "offline"}
    <3>1. CASE DaemonAnswers
      <4>1. PICK network \in {"online", "offline"} : load' = [at |-> "answered", fresh |-> fresh, network |-> network]
        BY <3>1 DEF DaemonAnswers
      <4> QED
        BY <1>0, <4>1 DEF RecoveryTypes
    <3>2. CASE ~DaemonAnswers
      <4>1. \E at \in {"none", "applied", "retried"} : load' = [at |-> at]
        BY <3>2 DEF LoadStep, ApplyState, LoadFails, LoadEnds, DaemonMissing, NoLoad
      <4> QED
        BY <4>1
    <3> QED
      BY <3>1, <3>2
  <2>2. /\ current' \subseteq fresh /\ daemon' \in {"loading", "online", "offline"}
        /\ connectivity' \in {"online", "offline"}
    BY <1>0 DEF LoadStep, DaemonMissing, DaemonAnswers, ApplyState, LoadFails, LoadEnds, shownVars, RecoveryTypes
  <2>3. RecoveryTypes'
    BY <1>0, <1>1, <1>2, <2>1, <2>2 DEF RecoveryTypes, Statuses
  <2>4. Recovered' = Recovered /\ Asked' = Asked
    BY <1>1, <1>2 DEF Recovered, Asked
  <2> QED
    BY <1>0, <1>1, <2>3, <2>4, CountsFollow DEF RecoveryInv, NoRecoveryForgotten
<1>3. CASE LoadEnds
  <2>1. /\ load' = NoLoad /\ UNCHANGED <<current, daemon, connectivity>>
        /\ caller' = [c \in AppCallers |-> IF caller[c] = "loading" THEN "loaded" ELSE caller[c]]
        /\ recovery' = CASE recovery.at = "loading"   -> [recovery EXCEPT !.at = "ready"]
                         [] recovery.at = "reloading" -> [recovery EXCEPT !.at = "reloaded"]
                         [] OTHER -> recovery
    BY <1>3 DEF LoadEnds, shownVars
  <2>2. /\ caller' \in [AppCallers -> CallerPhases] /\ caller'["user"] \in {"idle", "refreshing", "loading", "loaded"}
        /\ caller'["user"] = "idle" <=> caller["user"] = "idle"
    <3>1. "loaded" \in CallerPhases /\ "user" \in AppCallers
      BY DEF CallerPhases, AppCallers
    <3>2. caller \in [AppCallers -> CallerPhases] /\ caller["user"] \in {"idle", "refreshing", "loading", "loaded"}
      BY <1>0 DEF RecoveryTypes
    <3> QED
      BY <2>1, <3>1, <3>2
  <2>3. /\ recovery' \in [at : RecoveryPhases, of : SUBSET AppProviders]
        /\ recovery'.of = recovery.of
        /\ recovery'.at \in {"refreshing", "reloading", "reloaded"} <=> recovery.at \in {"refreshing", "reloading", "reloaded"}
    <3>1. recovery \in [at : RecoveryPhases, of : SUBSET AppProviders]
      BY <1>0 DEF RecoveryTypes
    <3>2. CASE recovery.at = "loading"
      BY <2>1, <3>1, <3>2 DEF RecoveryPhases
    <3>3. CASE recovery.at = "reloading"
      BY <2>1, <3>1, <3>3 DEF RecoveryPhases
    <3>4. CASE recovery.at \notin {"loading", "reloading"}
      BY <2>1, <3>1, <3>4
    <3> QED
      BY <3>2, <3>3, <3>4
  <2>4. RecoveryTypes'
    <3>1. load'.at = "none"
      BY <2>1 DEF NoLoad
    <3> QED
      BY <1>0, <1>1, <2>1, <2>2, <2>3, <3>1 DEF RecoveryTypes, Statuses
  <2>5. Recovered' = Recovered /\ Asked' = Asked
    BY <1>1, <2>2, <2>3 DEF Recovered, Asked
  <2> QED
    BY <1>0, <1>1, <2>4, <2>5, CountsFollow DEF RecoveryInv, NoRecoveryForgotten
<1> QED
  BY <1>2, <1>3 DEF LoadStep, DaemonMissing, DaemonAnswers, ApplyState, LoadFails

\* The steps of a recovery.
LEMMA RecoveriesStep ==
  ASSUME RecoveryInv, RecoveryStep
  PROVE  RecoveryInv'
<1>0. RecoveryTypes /\ NoRecoveryForgotten /\ CountsAreKnown
  BY DEF RecoveryInv
<1>1. /\ recovery \in [at : RecoveryPhases, of : SUBSET AppProviders] /\ recovery.of \subseteq AppProviders
      /\ owner \in {"poll", "popover", "wake", "network", "nobody"} /\ owner \in AppCallers \union {"nobody"}
      /\ caller \in [AppCallers -> CallerPhases]
      /\ load.at \in {"none", "asked", "retried", "answered", "applied"}
      /\ load.at = "answered" => load.fresh \subseteq AppProviders /\ load.network \in {"online", "offline"}
  BY <1>0 DEF RecoveryTypes
\* What a step of the recovery leaves alone.
<1>2. ASSUME RecoveryFits, UNCHANGED <<switchedOn, networkStatus, turns, current, daemon, connectivity, userAsked>>,
             fresh \subseteq fresh', fresh' \subseteq AppProviders,
             recoveryPending' \in BOOLEAN, cooling' \in BOOLEAN, owed' \in BOOLEAN,
             load'.at \in {"none", "asked", "retried", "answered", "applied"},
             load'.at = "answered" => load'.fresh \subseteq AppProviders /\ load'.network \in {"online", "offline"},
             NoRecoveryForgotten', CountsAreKnown'
      PROVE  RecoveryInv'
  <2>1. RecoveryTypes'
    BY <1>0, <1>2 DEF RecoveryTypes, RecoveryFits, Statuses
  <2> QED
    BY <1>2, <2>1 DEF RecoveryInv
<1>3. ASSUME RecoveryFits, UNCHANGED userAsked PROVE Asked' = Asked
  BY <1>3 DEF RecoveryFits, Asked
<1>4. ASSUME UNCHANGED <<recoveryPending, owed>> PROVE NoRecoveryForgotten'
  BY <1>0, <1>4 DEF NoRecoveryForgotten
<1>5. CASE RecoveryLoads
  <2>1. /\ recovery.at = "started" /\ recovery' = [recovery EXCEPT !.at = "loading"] /\ AskLoad
        /\ UNCHANGED <<switchedOn, fresh, networkStatus, turns, current, daemon, connectivity,
                       recoveryPending, cooling, owed, owner, caller, userAsked, counts>>
    BY <1>5 DEF RecoveryLoads, worldVars, shownVars, wantedVars
  <2>2. RecoveryFits /\ Recovered = {} /\ Recovered' = {}
    BY <1>0, <1>1, <2>1 DEF RecoveryFits, Recovered, RecoveryPhases
  <2>3. CountsAreKnown'
    BY <1>0, <1>3, <2>1, <2>2, CountsFollow
  <2>4. recoveryPending' \in BOOLEAN /\ cooling' \in BOOLEAN /\ owed' \in BOOLEAN /\ fresh' \subseteq AppProviders
    BY <1>0, <2>1 DEF RecoveryTypes
  <2> QED
    BY <1>0, <1>2, <1>4, <2>1, <2>2, <2>3, <2>4, LoadIsAsked
<1>6. CASE RefreshDue
  <2>1. /\ recovery.at = "ready" /\ recoveryPending' = FALSE /\ cooling' = TRUE /\ owed' = FALSE
        /\ recovery' = [at |-> "refreshing", of |-> DueNow] /\ counts' = Begun(DueNow)
        /\ UNCHANGED <<switchedOn, fresh, networkStatus, turns, current, daemon, connectivity,
                       load, owner, caller, userAsked>>
    BY <1>6 DEF RefreshDue, worldVars, shownVars
  <2>2. DueNow \in SUBSET AppProviders
    BY <1>0 DEF DueNow, Stale, RecoveryTypes
  <2> HIDE DEF DueNow
  <2>3. RecoveryFits /\ Recovered = {} /\ Recovered' = DueNow
    BY <1>0, <1>1, <2>1, <2>2 DEF RecoveryFits, Recovered, RecoveryPhases
  <2>4. CountsAreKnown'
    BY <1>0, <1>3, <2>1, <2>2, <2>3, CountsFollow
  <2>5. fresh' \subseteq AppProviders /\ NoRecoveryForgotten'
    BY <1>0, <2>1 DEF RecoveryTypes, NoRecoveryForgotten
  <2> QED
    BY <1>1, <1>2, <2>1, <2>3, <2>4, <2>5
\* A recovery that finishes ends its refreshes, if it had any.
<1>7. ASSUME Finish, UNCHANGED <<switchedOn, fresh, networkStatus, turns, current, daemon, connectivity,
                                 recoveryPending, cooling, owed, load, owner, userAsked>>,
             \/ recovery.at = "ready" /\ UNCHANGED counts
             \/ recovery.at \in {"refreshing", "reloaded"} /\ counts' = TaskEnded(recovery.of)
      PROVE  RecoveryInv'
  <2>1. RecoveryFits /\ Recovered' = {}
    BY <1>0, <1>7, RecoveryFinishes
  <2>2. Asked' = Asked
    BY <1>3, <1>7, <2>1
  <2>3. CASE recovery.at = "ready" /\ UNCHANGED counts
    <3>1. Recovered = {}
      BY <2>3 DEF Recovered
    <3>2. CountsAreKnown'
      BY <1>0, <2>1, <2>2, <2>3, <3>1, CountsFollow
    <3>3. recoveryPending' \in BOOLEAN /\ cooling' \in BOOLEAN /\ owed' \in BOOLEAN /\ fresh' \subseteq AppProviders
      BY <1>0, <1>7 DEF RecoveryTypes
    <3> QED
      BY <1>1, <1>2, <1>4, <1>7, <2>1, <3>2, <3>3
  <2>4. CASE recovery.at \in {"refreshing", "reloaded"} /\ counts' = TaskEnded(recovery.of)
    <3>1. Recovered = recovery.of
      BY <2>4 DEF Recovered
    <3>2. CountsAreKnown'
      BY <1>0, <1>1, <2>1, <2>2, <2>4, <3>1, CountsFollow
    <3>3. recoveryPending' \in BOOLEAN /\ cooling' \in BOOLEAN /\ owed' \in BOOLEAN /\ fresh' \subseteq AppProviders
      BY <1>0, <1>7 DEF RecoveryTypes
    <3> QED
      BY <1>1, <1>2, <1>4, <1>7, <2>1, <3>2, <3>3
  <2> QED
    BY <1>7, <2>3, <2>4
<1>8. CASE NothingDue
  BY <1>7, <1>8 DEF NothingDue, worldVars, shownVars, wantedVars
<1>9. CASE RefreshAnswers
  <2>1. /\ recovery.at = "refreshing" /\ recovery' = [recovery EXCEPT !.at = "reloading"] /\ AskLoad
        /\ UNCHANGED <<switchedOn, networkStatus, turns, current, daemon, connectivity,
                       cooling, owed, owner, caller, userAsked, counts>>
        /\ \/ \E done \in SUBSET recovery.of : fresh' = fresh \union done /\ recoveryPending' = recoveryPending
           \/ recoveryPending' = TRUE /\ UNCHANGED fresh
    BY <1>9 DEF RefreshAnswers, shownVars, StillPending
  <2>2. RecoveryFits /\ Recovered = recovery.of /\ Recovered' = recovery.of
    BY <1>0, <1>1, <2>1 DEF RecoveryFits, Recovered, RecoveryPhases
  <2>3. CountsAreKnown'
    BY <1>0, <1>1, <1>3, <2>1, <2>2, CountsFollow
  <2>4. fresh \subseteq fresh' /\ fresh' \subseteq AppProviders
    BY <1>0, <1>1, <2>1 DEF RecoveryTypes
  <2>5. recoveryPending' \in BOOLEAN /\ cooling' \in BOOLEAN /\ owed' \in BOOLEAN /\ NoRecoveryForgotten'
    <3>1. recoveryPending' = TRUE \/ recoveryPending' = recoveryPending
      BY <2>1, Zenon
    <3>2. cooling' = cooling /\ owed' = owed
      BY <2>1
    <3>3. recoveryPending \in BOOLEAN /\ cooling \in BOOLEAN /\ owed \in BOOLEAN
      BY <1>0 DEF RecoveryTypes
    <3>4. CASE recoveryPending' = TRUE
      BY <3>2, <3>3, <3>4, Zenon DEF NoRecoveryForgotten
    <3>5. CASE recoveryPending' = recoveryPending
      BY <1>0, <3>2, <3>3, <3>5, Zenon DEF NoRecoveryForgotten
    <3> QED
      BY <3>1, <3>4, <3>5
  <2> QED
    BY <1>0, <1>2, <2>1, <2>2, <2>3, <2>4, <2>5, LoadIsAsked
<1>10. CASE RefreshThrows
  BY <1>7, <1>10 DEF RefreshThrows, worldVars, shownVars, wantedVars
<1>11. CASE RecoveryEnds
  BY <1>7, <1>11 DEF RecoveryEnds, worldVars, shownVars, wantedVars
<1>12. CASE OwnerResumes
  <2>1. /\ recovery.at = "finished" /\ recovery' = [at |-> "none", of |-> {}] /\ owner' = "nobody"
        /\ caller' = [caller EXCEPT ![owner] = "idle"]
        /\ UNCHANGED <<switchedOn, fresh, networkStatus, turns, current, daemon, connectivity,
                       recoveryPending, cooling, owed, load, userAsked, counts>>
    BY <1>12 DEF OwnerResumes, Forget, NoRecovery, worldVars, shownVars, wantedVars
  <2>2. caller' \in [AppCallers -> CallerPhases] /\ caller'["user"] = caller["user"]
    <3>1. "idle" \in CallerPhases
      BY DEF CallerPhases
    <3>2. CASE owner \in AppCallers
      <4>1. owner # "user"
        BY <1>1
      <4> QED
        BY <1>0, <2>1, <3>1, <3>2, <4>1, CallerMoves
    <3>3. CASE owner \notin AppCallers
      <4>1. caller' = caller
        BY <1>1, <2>1, <3>3
      <4> QED
        BY <1>1, <4>1
    <3> QED
      BY <3>2, <3>3
  <2>3. RecoveryFits /\ Recovered = {} /\ Recovered' = {}
    BY <2>1, <2>2 DEF RecoveryFits, Recovered, RecoveryPhases
  <2>4. CountsAreKnown'
    BY <1>0, <1>3, <2>1, <2>3, CountsFollow
  <2>5. recoveryPending' \in BOOLEAN /\ cooling' \in BOOLEAN /\ owed' \in BOOLEAN /\ fresh' \subseteq AppProviders
    BY <1>0, <2>1 DEF RecoveryTypes
  <2> QED
    BY <1>1, <1>2, <1>4, <2>1, <2>3, <2>4, <2>5
<1> QED
  BY <1>5, <1>6, <1>8, <1>9, <1>10, <1>11, <1>12 DEF RecoveryStep

\* The steps of the callers, of the user, of the network and of time.
LEMMA OthersStep ==
  ASSUME RecoveryInv,
         \/ UserEnds \/ CoolsDown \/ \E c \in Readers : PollLoads(c) \/ PollRecovers(c)
         \/ Wake \/ WentOffline \/ CameOnline
         \/ \E of \in SUBSET AppProviders : UserRefreshes(of)
         \/ \E p \in AppProviders : SwitchProvider(p) \/ UsageAges(p) \/ DaemonPolls(p)
  PROVE  RecoveryInv'
<1>0. RecoveryTypes /\ NoRecoveryForgotten /\ CountsAreKnown
  BY DEF RecoveryInv
<1>1. /\ recovery \in [at : RecoveryPhases, of : SUBSET AppProviders]
      /\ owner \in {"poll", "popover", "wake", "network", "nobody"} /\ owner \in AppCallers \union {"nobody"}
      /\ caller \in [AppCallers -> CallerPhases] /\ caller["user"] \in {"idle", "refreshing", "loading", "loaded"}
      /\ load.at \in {"none", "asked", "retried", "answered", "applied"}
      /\ load.at = "answered" => load.fresh \subseteq AppProviders /\ load.network \in {"online", "offline"}
      /\ recoveryPending \in BOOLEAN /\ cooling \in BOOLEAN /\ owed \in BOOLEAN
      /\ userAsked \subseteq AppProviders /\ turns \in 0..MaxTurns /\ MaxTurns \in Nat
      /\ "user" \in AppCallers /\ "wake" \in AppCallers /\ "network" \in AppCallers
  BY <1>0, RecoveryAssumption DEF RecoveryTypes, AppCallers
<1>2. Readers \subseteq AppCallers \ {"user"}
  BY RecoveryAssumption DEF AppCallers
\* Neither a refresh begins nor one ends.
<1>3. ASSUME RecoveryFits, Recovered' = Recovered, UNCHANGED <<counts, userAsked>>,
             switchedOn' \subseteq AppProviders, fresh' \subseteq AppProviders, current' \subseteq fresh',
             UNCHANGED daemon, networkStatus' \in Statuses, connectivity' \in {"online", "offline"},
             recoveryPending' \in BOOLEAN, cooling' \in BOOLEAN, owed' \in BOOLEAN, NoRecoveryForgotten',
             load'.at \in {"none", "asked", "retried", "answered", "applied"},
             load'.at = "answered" => load'.fresh \subseteq AppProviders /\ load'.network \in {"online", "offline"},
             turns' \in 0..MaxTurns
      PROVE  RecoveryInv'
  <2>1. RecoveryTypes'
    BY <1>0, <1>3 DEF RecoveryTypes, RecoveryFits
  <2>2. Asked' = Asked
    BY <1>3 DEF RecoveryFits, Asked
  <2>3. CountsAreKnown'
    BY <1>0, <1>3, <2>2, CountsFollow
  <2> QED
    BY <1>3, <2>1, <2>3 DEF RecoveryInv
\* The recovery rests.
<1>4. ASSUME UNCHANGED <<recovery, owner, caller>> PROVE RecoveryFits /\ Recovered' = Recovered
  BY <1>1, <1>4 DEF RecoveryFits, Recovered
<1>5. ASSUME Turn PROVE turns' \in 0..MaxTurns
  BY <1>1, <1>5 DEF Turn
<1>6. ASSUME UNCHANGED <<recoveryPending, owed>> PROVE NoRecoveryForgotten'
  BY <1>0, <1>6 DEF NoRecoveryForgotten
<1>7. /\ switchedOn \subseteq AppProviders /\ fresh \subseteq AppProviders /\ current \subseteq fresh
      /\ networkStatus \in Statuses /\ connectivity \in {"online", "offline"}
  BY <1>0 DEF RecoveryTypes
<1>8. CASE CoolsDown
  <2>1. /\ cooling' = FALSE
        /\ UNCHANGED <<switchedOn, fresh, networkStatus, turns, current, daemon, connectivity,
                       recoveryPending, owed, load, recovery, owner, caller, userAsked, counts>>
    BY <1>8 DEF CoolsDown, worldVars, shownVars
  <2> QED
    BY <1>1, <1>3, <1>4, <1>6, <1>7, <2>1
<1>9. ASSUME NEW c \in Readers, PollLoads(c) PROVE RecoveryInv'
  <2>1. /\ AskLoad /\ caller' = [caller EXCEPT ![c] = "loading"]
        /\ UNCHANGED <<switchedOn, fresh, networkStatus, turns, current, daemon, connectivity,
                       recoveryPending, cooling, owed, recovery, owner, userAsked, counts>>
    BY <1>9 DEF PollLoads, worldVars, shownVars, wantedVars
  <2>2. caller' \in [AppCallers -> CallerPhases] /\ caller'["user"] = caller["user"]
    BY <1>0, <1>2, <2>1, CallerMoves DEF CallerPhases
  <2>3. RecoveryFits /\ Recovered' = Recovered
    BY <1>1, <2>1, <2>2 DEF RecoveryFits, Recovered
  <2> QED
    BY <1>0, <1>1, <1>3, <1>6, <1>7, <2>1, <2>3, LoadIsAsked
<1>10. ASSUME NEW c \in Readers, PollRecovers(c) PROVE RecoveryInv'
  <2>1. /\ RequestRecovery(c, FALSE)
        /\ UNCHANGED <<switchedOn, fresh, networkStatus, turns, current, daemon, connectivity,
                       recoveryPending, cooling, owed, load, userAsked, counts>>
    BY <1>10 DEF PollRecovers, worldVars, shownVars, wantedVars
  <2>2. RecoveryFits /\ Recovered' = Recovered
    BY <1>0, <1>2, <2>1, RecoveryIsRequested
  <2> QED
    BY <1>1, <1>3, <1>6, <1>7, <2>1, <2>2
<1>11. CASE Wake
  <2>1. /\ Turn /\ recoveryPending' = TRUE /\ cooling' = FALSE /\ owed' = TRUE /\ JoinRecovery("wake")
        /\ UNCHANGED <<switchedOn, fresh, networkStatus, current, daemon, connectivity, load, userAsked, counts>>
    BY <1>11 DEF Wake, WantRecovery, shownVars
  <2>2. RecoveryFits /\ Recovered' = Recovered
    BY <1>0, <2>1, RecoveryIsJoined
  <2> QED
    BY <1>1, <1>3, <1>5, <1>7, <2>1, <2>2 DEF NoRecoveryForgotten
<1>12. CASE WentOffline
  <2>1. /\ Turn /\ networkStatus' = "offline" /\ connectivity' = "offline" /\ recoveryPending' = TRUE
        /\ UNCHANGED <<switchedOn, fresh, current, daemon, cooling, owed, load, recovery, owner, caller, userAsked, counts>>
    BY <1>12 DEF WentOffline
  <2>2. NoRecoveryForgotten' /\ networkStatus' \in Statuses
    BY <2>1 DEF NoRecoveryForgotten, Statuses
  <2> QED
    BY <1>1, <1>3, <1>4, <1>5, <1>7, <2>1, <2>2
<1>13. CASE CameOnline
  <2>1. /\ Turn /\ networkStatus' = "online" /\ connectivity' = "online"
        /\ \/ recoveryPending' = TRUE /\ cooling' = FALSE /\ owed' = TRUE /\ JoinRecovery("network")
           \/ UNCHANGED <<recoveryPending, cooling, owed, recovery, owner, caller>>
        /\ UNCHANGED <<switchedOn, fresh, current, daemon, load, userAsked, counts>>
    BY <1>13 DEF CameOnline, WantRecovery, wantedVars
  <2>2. RecoveryFits /\ Recovered' = Recovered
    BY <1>0, <1>4, <2>1, RecoveryIsJoined
  <2>3. NoRecoveryForgotten' /\ networkStatus' \in Statuses
    BY <1>0, <2>1 DEF NoRecoveryForgotten, Statuses
  <2>4. recoveryPending' \in BOOLEAN /\ cooling' \in BOOLEAN /\ owed' \in BOOLEAN
    BY <1>1, <2>1
  <2> QED
    BY <1>1, <1>3, <1>5, <1>7, <2>1, <2>2, <2>3, <2>4
\* The user refreshes: only then do the counts follow what the user asked for.
<1>14. ASSUME UNCHANGED <<switchedOn, networkStatus, current, daemon, connectivity, recoveryPending, cooling, owed,
                          recovery, owner>>,
              NEW phase \in {"idle", "refreshing", "loading"}, caller' = [caller EXCEPT !["user"] = phase],
              fresh \subseteq fresh', fresh' \subseteq AppProviders, userAsked' \subseteq AppProviders,
              load'.at \in {"none", "asked", "retried", "answered", "applied"},
              load'.at = "answered" => load'.fresh \subseteq AppProviders /\ load'.network \in {"online", "offline"},
              turns' \in 0..MaxTurns, CountsAreKnown'
       PROVE  RecoveryInv'
  <2>1. caller' \in [AppCallers -> CallerPhases] /\ caller'["user"] = phase
    BY <1>1, <1>14 DEF CallerPhases
  <2>2. RecoveryTypes'
    BY <1>1, <1>0, <1>7, <1>14, <2>1 DEF RecoveryTypes, Statuses
  <2> QED
    BY <1>6, <1>14, <2>2 DEF RecoveryInv
<1>15. ASSUME NEW of \in SUBSET AppProviders, UserRefreshes(of) PROVE RecoveryInv'
  <2>1. /\ Turn /\ caller["user"] = "idle" /\ caller' = [caller EXCEPT !["user"] = "refreshing"]
        /\ userAsked' = of /\ counts' = Begun(of)
        /\ UNCHANGED <<switchedOn, fresh, networkStatus, current, daemon, connectivity, recoveryPending, cooling, owed,
                       load, recovery, owner>>
    BY <1>15 DEF UserRefreshes, shownVars, wantedVars
  <2>2. caller'["user"] = "refreshing"
    BY <1>1, <2>1
  <2>3. Asked = {} /\ Asked' = of /\ Recovered' = Recovered
    BY <2>1, <2>2 DEF Asked, Recovered
  <2>4. CountsAreKnown'
    BY <1>0, <2>1, <2>3, CountsFollow
  <2> QED
    BY <1>1, <1>5, <1>7, <1>14, <2>1, <2>4
<1>16. CASE UserAnswered
  <2>1. /\ caller["user"] = "refreshing" /\ fresh' = fresh \union userAsked /\ AskLoad
        /\ caller' = [caller EXCEPT !["user"] = "loading"]
        /\ UNCHANGED <<switchedOn, networkStatus, turns, current, daemon, connectivity, recoveryPending, cooling, owed,
                       recovery, owner, userAsked, counts>>
    BY <1>16 DEF UserAnswered, shownVars, wantedVars
  <2>2. caller'["user"] = "loading"
    BY <1>1, <2>1
  <2>3. Asked' = Asked /\ Recovered' = Recovered
    BY <2>1, <2>2 DEF Asked, Recovered
  <2>4. CountsAreKnown'
    BY <1>0, <2>1, <2>3, CountsFollow
  <2>5. fresh \subseteq fresh' /\ fresh' \subseteq AppProviders
    BY <1>1, <1>7, <2>1
  <2> QED
    BY <1>0, <1>1, <1>14, <2>1, <2>4, <2>5, LoadIsAsked
<1>17. CASE UserDone
  <2>1. /\ caller["user"] \in {"refreshing", "loaded"} /\ caller' = [caller EXCEPT !["user"] = "idle"]
        /\ counts' = TaskEnded(userAsked)
        /\ UNCHANGED <<switchedOn, fresh, networkStatus, turns, current, daemon, connectivity, recoveryPending, cooling,
                       owed, load, recovery, owner, userAsked>>
    BY <1>17 DEF UserDone, worldVars, shownVars, wantedVars
  <2>2. caller'["user"] = "idle"
    BY <1>1, <2>1
  <2>3. Asked = userAsked /\ Asked' = {} /\ Recovered' = Recovered
    BY <2>1, <2>2 DEF Asked, Recovered
  <2>4. CountsAreKnown'
    BY <1>0, <1>1, <2>1, <2>3, CountsFollow
  <2> QED
    BY <1>1, <1>7, <1>14, <2>1, <2>4
<1>18. ASSUME NEW p \in AppProviders, SwitchProvider(p) \/ UsageAges(p) \/ DaemonPolls(p) PROVE RecoveryInv'
  <2>1. /\ UNCHANGED <<networkStatus, daemon, connectivity, recoveryPending, cooling, owed, load, recovery, owner,
                       caller, userAsked, counts>>
        /\ Turn \/ UNCHANGED turns
    BY <1>18 DEF SwitchProvider, UsageAges, DaemonPolls, shownVars, wantedVars
  <2>2. switchedOn' \subseteq AppProviders /\ fresh' \subseteq AppProviders /\ current' \subseteq fresh'
    <3>1. CASE SwitchProvider(p)
      BY <1>7, <3>1 DEF SwitchProvider, shownVars
    <3>2. CASE UsageAges(p)
      BY <1>7, <3>2 DEF UsageAges
    <3>3. CASE DaemonPolls(p)
      BY <1>7, <3>3 DEF DaemonPolls, shownVars
    <3> QED
      BY <1>18, <3>1, <3>2, <3>3
  <2> QED
    BY <1>1, <1>3, <1>4, <1>5, <1>6, <1>7, <2>1, <2>2
<1> QED
  BY <1>8, <1>9, <1>10, <1>11, <1>12, <1>13, <1>15, <1>16, <1>17, <1>18 DEF UserEnds

(* Every step of the recovery keeps its invariant.                         *)
LEMMA RecoveryStaysSound ==
  ASSUME RecoveryInv, [RecoveryNext]_recoveryVars
  PROVE  RecoveryInv'
<1>1. CASE RecoveryNext
  <2>1. switchedOn \in SUBSET AppProviders
    BY DEF RecoveryInv, RecoveryTypes
  <2>2. ASSUME NEW p \in AppProviders, UserRefreshes({p}) PROVE RecoveryInv'
    <3>1. {p} \in SUBSET AppProviders
      OBVIOUS
    <3> QED
      BY <2>2, <3>1, OthersStep
  <2>3. ASSUME NEW p \in AppProviders, SwitchProvider(p) \/ UsageAges(p) \/ DaemonPolls(p) PROVE RecoveryInv'
    BY <2>3, OthersStep
  <2>4. ASSUME NEW c \in Readers, PollLoads(c) \/ PollRecovers(c) PROVE RecoveryInv'
    BY <2>4, OthersStep
  <2>5. CASE LoadStep \/ DaemonMissing
    BY <2>5, LoadsStep
  <2>6. CASE RecoveryStep
    BY <2>6, RecoveriesStep
  <2>7. CASE UserEnds \/ CoolsDown \/ Wake \/ WentOffline \/ CameOnline
    BY <2>7, OthersStep
  <2>8. CASE UserRefreshes(switchedOn)
    BY <2>1, <2>8, OthersStep
  <2> QED
    BY <1>1, <2>2, <2>3, <2>4, <2>5, <2>6, <2>7, <2>8 DEF RecoveryNext
<1>2. CASE UNCHANGED recoveryVars
  BY <1>2 DEF recoveryVars, RecoveryInv, RecoveryTypes, NoRecoveryForgotten, CountsAreKnown, Recovered, Asked
<1> QED
  BY <1>1, <1>2

(* The activity shown is that of the refreshes under way, whoever began   *)
(* them, and what is owed stays wanted (requestStaleDataRecovery).        *)
THEOREM RecoveryInvariant == RecoverySpec => []RecoveryInv
<1>1. RecoveryInv /\ [RecoveryNext]_recoveryVars => RecoveryInv'
  BY RecoveryStaysSound
<1> QED
  BY <1>1, RecoveryInitInv, PTL DEF RecoverySpec

(* Both, as the app runs them.                                             *)
AppInv == SupervisorInv /\ RecoveryInv

(* The two invariants say what the app promises.                           *)
LEMMA AppInvIsSound ==
  ASSUME AppInv
  PROVE  RecoverySound
<1>0. SupervisorInv /\ RecoveryInv
  BY DEF AppInv
<1>1. TypeOK
  BY <1>0 DEF SupervisorInv, SupervisorTypes, TypeOK
<1>2. RecoveryBounded
  BY <1>0 DEF SupervisorInv, RetriesAreKnown, RecoveryBounded
<1> QED
  BY <1>0, <1>1, <1>2, RecoveryInvIsSound DEF RecoverySound

(* A step of the app is a step of the chosen part, and the other one       *)
(* rests.                                                                  *)
LEMMA AppSteps ==
  ASSUME [AppNext]_allAppVars
  PROVE  [Next]_vars /\ [RecoveryNext]_recoveryVars
BY DEF AppNext, allAppVars, OthersRest, Chosen

(* Both invariants hold of the app, whichever part runs.                  *)
THEOREM AppInvariant == AppSpec => []AppInv
<1>1. AppInit => AppInv
  BY SupervisorInitInv, RecoveryInitInv DEF AppInit, AppInv
<1>2. AppInv /\ [AppNext]_allAppVars => AppInv'
  BY AppSteps, SupervisorStep, RecoveryStaysSound DEF AppInv, SupervisorStepOK
<1> QED
  BY <1>1, <1>2, PTL DEF AppSpec

(* The app restarts its daemon no more often than the policy allows, and  *)
(* neither forgets a recovery that is due nor shows activity that is not  *)
(* (scheduleAutomaticRecovery, requestStaleDataRecovery), however many    *)
(* callers, attempts, restarts and providers there are.                   *)
THEOREM AppIsSound == AppSpec => []RecoverySound
<1>1. AppInv => RecoverySound
  BY AppInvIsSound
<1> QED
  BY <1>1, AppInvariant, PTL

(* No child process is left alive that nobody will stop, unless by a      *)
(* caller that gives up (performStartup, stop, restart).                  *)
THEOREM NoChildIsForgotten == AppSpec => NoChildForgotten
<1>1. AppInv /\ [AppNext]_allAppVars => [\A p \in Daemons : Stray(p)' => Stray(p) \/ CallerGivesUp]_vars
  BY AppSteps, SupervisorStep DEF AppInv, SupervisorStepOK, ChildrenKept
<1> QED
  BY <1>1, AppInvariant, PTL DEF AppSpec, NoChildForgotten

(* A backoff begins with the death of the running daemon itself or with a *)
(* caller that gives up (daemonTerminated, enterBackoff).                 *)
THEOREM BackoffsHaveCauses == AppSpec => BackoffHasCause
<1>1. AppInv /\ [AppNext]_allAppVars =>
        [actor.kind = "running" /\ actor'.kind = "backingOff" => actor.daemon \notin Alive \/ CallerGivesUp]_vars
  BY AppSteps, SupervisorStep DEF AppInv, SupervisorStepOK, BackoffCaused
<1> QED
  BY <1>1, AppInvariant, PTL DEF AppSpec, BackoffHasCause

(* What the user disabled stays so until the user allows it: the safety   *)
(* half of SwitchObeyed (register, unregisterIfNeeded).                   *)
THEOREM DisabledIsObeyed == AppSpec => DisabledStaysDisabled
<1>1. ASSUME SupervisorInv, Next, agent = "requiresApproval", agent' # agent
      PROVE  trouble' # trouble
  <2>1. trouble \in Nat
    BY <1>1, SupervisorAssumption DEF SupervisorInv, SupervisorTypes
  <2>2. \A c \in Calls : EnsureRunning(c) \/ RestartNow(c) \/ CallStep(c) => agent' = agent
    BY DEF EnsureRunning, RestartNow, CallStep, Probe, Connected, Inspect, Adopt, Disconnected, JoinStartup,
           EndWait, CallStopped
  <2>3. \A t \in Tasks : StopStep(t) => agent' = agent
    BY <1>1 DEF StopStep, Unregister, ListDaemons, AwaitStop
  <2>4. \A s \in Startups : StartupStep(s) => agent' = agent
    BY <1>1 DEF StartupStep, Attempt, Register, AwaitReady, Ready, ChildStopped, Retry
  <2>5. TimerStep => agent' = agent
    BY DEF TimerStep, BackoffPasses, MarkStable, Recover
  <2>6. ProcessStep \/ (\E p \in Daemons : Exit(p)) \/ Disable => agent' = agent
    BY <1>1 DEF ProcessStep, KeepAlive, DaemonTerminated, Boot, Exit, Disable
  <2>7. Approve => trouble' # trouble
    BY <2>1 DEF Approve, GoWrong
  <2> QED
    BY <1>1, <2>2, <2>3, <2>4, <2>5, <2>6, <2>7 DEF Next
<1>2. AppInv /\ [AppNext]_allAppVars =>
        [agent = "requiresApproval" /\ agent' # agent => trouble' # trouble]_vars
  BY <1>1, AppSteps DEF AppInv
<1> QED
  BY <1>2, AppInvariant, PTL DEF AppSpec, DisabledStaysDisabled
===============================================================================
