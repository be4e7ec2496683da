-------------------------- MODULE DaemonSupervisor --------------------------
(***************************************************************************)
(* The actor of the menu bar app that keeps a daemon running               *)
(* (App/DaemonSupervisor.swift), with the launch agent it drives in an     *)
(* installed app (DaemonLaunchAgent.swift) or the child process it starts  *)
(* in a development build.                                                 *)
(*                                                                         *)
(* The actor runs one call at a time but is reentrant: at every await      *)
(* other calls go on.  So what a call awaits (a probe of the socket, lsof, *)
(* processes to stop, a daemon to be ready) is a step that keeps an        *)
(* answer, and the call's own next step works with that answer.            *)
(*                                                                         *)
(* Left out: the log and its rotation, and the length of a backoff.  There *)
(* is one socket path.                                                     *)
(***************************************************************************)
EXTENDS Naturals, FiniteSets

CONSTANTS
  Calls,          \* callers of ensureRunning and restart
  Agents,         \* what the launch agent may be when the app starts
  LaunchAttempts, \* policy.launchAttempts
  MaxRestarts,    \* policy.maximumAutomaticRestarts
  Daemons,        \* process ids
  None,
  MaxGeneration,  \* bound of generation
  MaxTrouble      \* bound on crashes, failing launches, slow daemons and calls out of turn

Startups == 1 .. MaxGeneration  \* a startup task, known by its generation
Tasks == Calls \union Startups

ASSUME SupervisorAssumption ==
  /\ Agents \subseteq {"unavailable", "notRegistered", "enabled", "requiresApproval"}
  /\ LaunchAttempts \in Nat \ {0} /\ MaxRestarts \in Nat
  /\ MaxGeneration \in Nat /\ MaxTrouble \in Nat
  /\ Calls \intersect Startups = {} /\ None \notin Daemons /\ None \notin Nat

VARIABLES
  actor,    \* the actor's own state
  task,     \* where each call and each startup is
  firing,   \* recovery tasks that have slept and wait for the actor, by generation
  proc,     \* the processes
  agent,    \* registrationStatus() of the launch agent, unavailable in a development build
  trouble,  \* how much went wrong so far
  retries   \* history: automatic startups since the failures were last forgotten

vars == <<actor, task, firing, proc, agent, trouble, retries>>

Generation == 0 .. MaxGeneration
Actor ==
  [kind : {"stopped", "starting", "running", "backingOff"},
   launch : Generation \union {None},   \* of the startup under way or of the running daemon
   daemon : Daemons \union {None},      \* the child process, if the app started it
   due : BOOLEAN,                       \* the backoff has passed
   generation : Generation,
   failures : 0 .. MaxRestarts + 1,     \* consecutiveFailures, not counted further
   recovery : Generation \union {None}, \* recoveryTask, with the generation it expects
   stability : Generation \union {None}]
Task ==
  [pc : {"done", "probing", "probed", "inspecting", "inspected", "waiting", "joining", "leaving",
         "listing", "stopping", "killing", "stopped", "begin", "readying", "polled", "sleeping"},
   op : {"orphans", "disable", "restart", "failed", "stale"}, \* what stopping daemons is for
   answer : BOOLEAN,
   on : Startups \union {None},         \* the startup it awaits
   child : Daemons \union {None},
   victims : SUBSET Daemons,
   attempt : 0 .. LaunchAttempts - 1,
   cancelled : BOOLEAN]
Process ==
  [life : {"dead", "booting", "serving", "exited"}, \* exited: its termination was not handled yet
   signal : {"none", "term", "kill"},
   old : BOOLEAN,                       \* of another build than the app's
   parent : {"app", "launchd", "other"},
   of : Generation \union {None}]       \* the startup that launched it

NewTask == [pc |-> "done", op |-> "restart", answer |-> FALSE, on |-> None, child |-> None,
            victims |-> {}, attempt |-> 0, cancelled |-> FALSE]
NoProcess == [life |-> "dead", signal |-> "none", old |-> FALSE, parent |-> "other", of |-> None]
NewActor == [kind |-> "stopped", launch |-> None, daemon |-> None, due |-> FALSE,
             generation |-> 0, failures |-> 0, recovery |-> None, stability |-> None]

EarlierDaemon(old) ==
  [NoProcess EXCEPT !.life = "serving", !.old = old,
                    !.parent = IF agent = "enabled" THEN "launchd" ELSE "other"]

(* The app starts; a daemon of an earlier run may be serving.              *)
Init ==
  /\ agent \in Agents
  /\ actor = NewActor
  /\ task = [t \in Tasks |-> NewTask]
  /\ firing = {}
  /\ \/ proc = [p \in Daemons |-> NoProcess]
     \/ \E d \in Daemons, o \in BOOLEAN :
          proc = [p \in Daemons |-> IF p = d THEN EarlierDaemon(o) ELSE NoProcess]
  /\ trouble = 0
  /\ retries = 0
-----------------------------------------------------------------------------
Managed == agent # "unavailable"  \* launchAgent.isAvailable

Alive == {p \in Daemons : proc[p].life \in {"booting", "serving"}}
Serving == {p \in Daemons : proc[p].life = "serving"}
Connectable == Serving # {}  \* canConnect

Current(s) == actor.generation = s /\ ~task[s].cancelled

(* The transitions of the actor's state                                    *)
Stopped(a) == [a EXCEPT !.kind = "stopped", !.launch = None, !.daemon = None, !.due = FALSE]
Running(a, g, d) == [Stopped(a) EXCEPT !.kind = "running", !.launch = g, !.daemon = d]
Starting(a) ==
  [Stopped(a) EXCEPT !.kind = "starting", !.generation = @ + 1, !.launch = a.generation + 1, !.recovery = None]

(* Mutant: recovery is scheduled however often it failed.                  *)
BackoffForever(a) ==
  [Stopped(a) EXCEPT !.kind = "backingOff", !.stability = None, !.recovery = a.generation]

(* enterBackoff and scheduleAutomaticRecovery                              *)
Backoff(a) ==
  LET failures == IF a.failures > MaxRestarts THEN a.failures ELSE a.failures + 1 IN
    [Stopped(a) EXCEPT !.kind = "backingOff", !.stability = None, !.failures = failures,
                       !.recovery = IF failures <= MaxRestarts THEN a.generation ELSE None]

Answered(b) == [NewTask EXCEPT !.answer = b]
Awaiting(s) == [NewTask EXCEPT !.pc = "waiting", !.on = s]
At(t, pc) == [task[t] EXCEPT !.pc = pc]

Return(t, b) == task' = [task EXCEPT ![t] = Answered(b)]

Terminated(ps) ==
  [p \in Daemons |-> IF p \in ps /\ proc[p].signal = "none" THEN [proc[p] EXCEPT !.signal = "term"] ELSE proc[p]]
Killed(ps) ==
  [p \in Daemons |-> IF p \in ps THEN [proc[p] EXCEPT !.signal = "kill"] ELSE proc[p]]

GoWrong == trouble < MaxTrouble /\ trouble' = trouble + 1
-----------------------------------------------------------------------------
(* beginStartup: the startup under way or the running daemon is shared.    *)
BeginStartup(c, a) ==
  \/ a.kind = "starting" /\ actor' = a /\ task' = [task EXCEPT ![c] = Awaiting(a.launch)]
  \/ a.kind = "running" /\ actor' = a /\ Return(c, TRUE)
  \/ /\ a.kind \notin {"starting", "running"} /\ a.generation < MaxGeneration
     /\ actor' = Starting(a)
     /\ task' = [task EXCEPT ![c] = Awaiting(a.generation + 1),
                             ![a.generation + 1] = [NewTask EXCEPT !.pc = "begin"]]

(* restart, up to its first await                                          *)
Restart(c) ==
  /\ actor.generation < MaxGeneration
  /\ actor' = [Stopped(actor) EXCEPT !.generation = @ + 1, !.recovery = None, !.stability = None]
  /\ task' =
       IF actor.kind = "starting"
       THEN [task EXCEPT ![actor.launch].cancelled = TRUE,
                         ![c] = [NewTask EXCEPT !.pc = "joining", !.on = actor.launch]]
       ELSE [task EXCEPT ![c] = [NewTask EXCEPT !.pc = "leaving",
               !.child = IF actor.daemon \in Alive THEN actor.daemon ELSE None]]

(* ensureRunning is called when the app starts (AppState.start), when a    *)
(* load failed because no daemon answered (performLoad), and from time to  *)
(* time besides (prepareOnboarding).                                       *)
EnsureRunning(c) ==
  /\ task[c].pc = "done"
  /\ ((actor = NewActor \/ ~Connectable) /\ UNCHANGED trouble) \/ GoWrong
  /\ IF actor.kind = "starting"
     THEN task' = [task EXCEPT ![c] = Awaiting(actor.launch)]
     ELSE task' = [task EXCEPT ![c] = [NewTask EXCEPT !.pc = "probing"]]
  /\ UNCHANGED <<actor, firing, proc, agent, retries>>

(* restart is called when the daemon turns out to be an older one.         *)
RestartNow(c) ==
  /\ task[c].pc = "done" /\ actor # NewActor /\ GoWrong
  /\ Restart(c)
  /\ UNCHANGED <<firing, proc, agent, retries>>

Probe(c) ==
  /\ task[c].pc = "probing"
  /\ task' = [task EXCEPT ![c] = [@ EXCEPT !.pc = "probed", !.answer = Connectable]]
  /\ UNCHANGED <<actor, firing, proc, agent, trouble, retries>>

(* A daemon answers.  Without approval it is to be stopped, outside the    *)
(* launch agent's registration or of another build it is to be replaced.   *)
Connected(c) ==
  /\ task[c].pc = "probed" /\ task[c].answer
  /\ \/ /\ agent = "requiresApproval"
        /\ task' = [task EXCEPT ![c] = [NewTask EXCEPT !.pc = "listing", !.op = "disable"]]
        /\ UNCHANGED actor
     \/ agent = "notRegistered" /\ Restart(c)
     \/ /\ agent \in {"unavailable", "enabled"}
        /\ task' = [task EXCEPT ![c] = At(c, "inspecting")]
        /\ UNCHANGED actor
  /\ UNCHANGED <<firing, proc, agent, trouble, retries>>

(* shouldReplaceBundledDaemon                                              *)
Inspect(c) ==
  /\ task[c].pc = "inspecting"
  /\ task' = [task EXCEPT ![c] = [@ EXCEPT !.pc = "inspected", !.answer = \E p \in Alive : proc[p].old]]
  /\ UNCHANGED <<actor, firing, proc, agent, trouble, retries>>

(* The daemon is adopted as it is, unless it is already the running one.   *)
Adopt(c) ==
  /\ task[c].pc = "inspected"
  /\ \/ task[c].answer /\ Restart(c) /\ UNCHANGED retries
     \/ /\ ~task[c].answer
        /\ LET a == [actor EXCEPT !.failures = 0, !.recovery = None, !.stability = None] IN
             \/ actor.kind = "running" /\ actor' = a
             \/ /\ actor.kind # "running" /\ actor.generation < MaxGeneration
                /\ actor' = [Running(a, a.generation + 1, None) EXCEPT !.generation = @ + 1]
        /\ retries' = 0
        /\ Return(c, TRUE)
  /\ UNCHANGED <<firing, proc, agent, trouble>>

(* Nothing answers: a live child is replaced, a backoff waited for, and    *)
(* anything else started, in a development build after leftover daemons    *)
(* were stopped.                                                           *)
Disconnected(c) ==
  LET start(a) == IF Managed THEN BeginStartup(c, a)
                  ELSE actor' = a /\ task' = [task EXCEPT ![c] = [NewTask EXCEPT !.pc = "listing", !.op = "orphans"]] IN
  /\ task[c].pc = "probed" /\ ~task[c].answer
  /\ \/ actor.kind = "running" /\ actor.daemon \in Alive /\ Restart(c)
     \/ actor.kind = "running" /\ actor.daemon \notin Alive
          /\ start([Stopped(actor) EXCEPT !.stability = None])
     \/ actor.kind = "backingOff" /\ ~actor.due /\ Return(c, FALSE) /\ UNCHANGED actor
     \/ actor.kind = "backingOff" /\ actor.due /\ start([Stopped(actor) EXCEPT !.recovery = None])
     \/ actor.kind = "stopped" /\ start(actor)
     \/ actor.kind = "starting" /\ BeginStartup(c, actor)
  /\ UNCHANGED <<firing, proc, agent, trouble, retries>>

(* restart goes on when the startup that it cancelled has ended.           *)
JoinStartup(c) ==
  /\ task[c].pc = "joining" /\ task[task[c].on].pc = "done"
  /\ task' = [task EXCEPT ![c] = At(c, "leaving")]
  /\ UNCHANGED <<actor, firing, proc, agent, trouble, retries>>

EndWait(c) ==
  /\ task[c].pc = "waiting" /\ task[task[c].on].pc = "done"
  /\ Return(c, task[task[c].on].answer)
  /\ UNCHANGED <<actor, firing, proc, agent, trouble, retries>>
-----------------------------------------------------------------------------
(* Mutant: a failed attempt neither is repeated nor leaves the state of    *)
(* starting.                                                               *)
StayStarting(s) == Return(s, FALSE) /\ UNCHANGED actor

(* A startup's next attempt comes after a sleep, after the last one the    *)
(* supervisor backs off.                                                   *)
NextAttempt(s) ==
  IF task[s].attempt + 1 < LaunchAttempts
  THEN task' = [task EXCEPT ![s] = At(s, "sleeping")] /\ UNCHANGED actor
  ELSE Return(s, FALSE) /\ actor' = IF Current(s) THEN Backoff(actor) ELSE actor

(* What a task does that could not stop or unregister what it had to       *)
GiveUp(t) ==
  IF t \in Startups THEN NextAttempt(t) ELSE actor' = Backoff(actor) /\ Return(t, FALSE)

(* Mutant: the approval that the service waits for is not asked about.     *)
UnregisterAnyway(t) ==
  /\ task[t].pc = "leaving"
  /\ agent' = IF Managed THEN "notRegistered" ELSE agent
  /\ task' = [task EXCEPT ![t] = At(t, IF task[t].child # None THEN "stopping" ELSE "listing")]
  /\ proc' = Killed({p \in Alive : agent = "enabled" /\ proc[p].parent = "launchd"})
  /\ UNCHANGED <<actor, trouble, firing, retries>>

(* unregisterIfNeeded: launchd ends its daemon, by force if it must.  A    *)
(* restart of a child stops that child, everything else looks for the      *)
(* daemons by lsof.                                                        *)
Unregister(t) ==
  /\ task[t].pc = "leaving"
  /\ \/ /\ agent # "requiresApproval"
        /\ agent' = IF Managed THEN "notRegistered" ELSE agent
        /\ IF task[t].child # None
           THEN /\ task' = [task EXCEPT ![t] = At(t, "stopping")]
                /\ proc' = Terminated({task[t].child})
           ELSE /\ task' = [task EXCEPT ![t] = At(t, "listing")]
                /\ proc' = Killed({p \in Alive : agent = "enabled" /\ proc[p].parent = "launchd"})
        /\ UNCHANGED <<actor, trouble>>
     \/ /\ agent = "requiresApproval"
        /\ GiveUp(t) /\ UNCHANGED <<agent, proc, trouble>>
     \/ /\ agent = "enabled" /\ GoWrong
        /\ GiveUp(t) /\ UNCHANGED <<agent, proc>>
  /\ UNCHANGED <<firing, retries>>

(* daemonPIDs(associatedWith:) and the first half of stopDaemons.  A       *)
(* daemon that has not opened its lock file is not seen.                   *)
ListDaemons(t) ==
  /\ task[t].pc = "listing"
  /\ \E seen \in SUBSET Alive :
       /\ Serving \subseteq seen
       /\ IF task[t].op = "orphans" /\ seen = {}
          THEN BeginStartup(t, actor) /\ UNCHANGED proc
          ELSE /\ task' = [task EXCEPT ![t] = [@ EXCEPT !.pc = "stopping", !.victims = seen]]
               /\ proc' = Terminated(seen)
               /\ UNCHANGED actor
  /\ UNCHANGED <<firing, agent, trouble, retries>>

Victims(t) == task[t].victims \union ({task[t].child} \ {None})
Ended(t, stopped) ==
  [task[t] EXCEPT !.pc = "stopped", !.answer = stopped, !.child = None, !.victims = {}]

(* waitUntilStopped, forceTerminate when it gave up, and waiting again: it *)
(* gives up if another daemon serves, or one survives SIGKILL for long.    *)
AwaitStop(t) ==
  LET left == Victims(t) \intersect Alive IN
  /\ \/ /\ task[t].pc \in {"stopping", "killing"} /\ ~Connectable /\ left = {}
        /\ task' = [task EXCEPT ![t] = Ended(t, TRUE)]
        /\ UNCHANGED <<proc, trouble>>
     \/ /\ task[t].pc = "stopping" /\ (Connectable \/ left # {})
        /\ task' = [task EXCEPT ![t] = At(t, "killing")]
        /\ proc' = Killed(left)
        /\ UNCHANGED trouble
     \/ /\ task[t].pc = "killing" /\ (Connectable \/ left # {})
        /\ (left = {} /\ UNCHANGED trouble) \/ GoWrong
        /\ task' = [task EXCEPT ![t] = Ended(t, FALSE)]
        /\ UNCHANGED proc
  /\ UNCHANGED <<actor, firing, agent, retries>>

(* What a call does when it has stopped what it had to                     *)
CallStopped(c) ==
  /\ c \in Calls /\ task[c].pc = "stopped"
  /\ \/ task[c].op = "disable" /\ actor' = Stopped(actor) /\ Return(c, FALSE)
     \/ task[c].op # "disable" /\ task[c].answer /\ BeginStartup(c, actor)
     \/ task[c].op # "disable" /\ ~task[c].answer /\ GiveUp(c)
  /\ UNCHANGED <<firing, proc, agent, trouble, retries>>
-----------------------------------------------------------------------------
(* performStartup and performLaunchAgentStartup, one attempt               *)
Unreferenced ==
  {p \in Daemons : /\ proc[p].life = "dead" /\ actor.daemon # p
                   /\ \A t \in Tasks : p \notin Victims(t)}
Born(p, parent, s) ==
  [proc EXCEPT ![p] = [NoProcess EXCEPT !.life = "booting", !.parent = parent, !.of = s]]

Attempt(s) ==
  /\ task[s].pc = "begin"
  /\ \/ ~Current(s) /\ Return(s, FALSE) /\ UNCHANGED <<actor, proc, trouble>>
     \/ /\ Current(s) /\ Managed
        /\ task' = [task EXCEPT ![s] = At(s, "leaving")]
        /\ UNCHANGED <<actor, proc, trouble>>
     \/ /\ Current(s) /\ ~Managed
        /\ \E p \in Unreferenced :
             /\ proc' = Born(p, "app", s)
             /\ task' = [task EXCEPT ![s] = [@ EXCEPT !.pc = "readying", !.child = p]]
        /\ UNCHANGED <<actor, trouble>>
     \/ Current(s) /\ ~Managed /\ GoWrong /\ NextAttempt(s) /\ UNCHANGED proc
     \/ /\ Current(s) /\ ~Managed /\ task[s].attempt = 0 /\ GoWrong \* no executable is found
        /\ actor' = Backoff(actor) /\ Return(s, FALSE) /\ UNCHANGED proc
  /\ UNCHANGED <<firing, agent, retries>>

(* register, once what ran before has stopped                              *)
Register(s) ==
  /\ s \in Startups /\ Managed /\ task[s].pc = "stopped"
  /\ \/ /\ task[s].answer /\ agent # "requiresApproval"
        /\ agent' = "enabled"
        /\ task' = [task EXCEPT ![s] = At(s, "readying")]
        /\ UNCHANGED <<actor, trouble>>
     \/ ~task[s].answer /\ NextAttempt(s) /\ UNCHANGED <<agent, trouble>>
     \/ agent = "requiresApproval" /\ NextAttempt(s) /\ UNCHANGED <<agent, trouble>>
     \/ GoWrong /\ NextAttempt(s) /\ UNCHANGED agent
  /\ UNCHANGED <<firing, proc, retries>>

(* waitUntilReady and waitUntilLaunchAgentReady                            *)
AwaitReady(s) ==
  /\ task[s].pc = "readying"
  /\ \/ /\ task' = [task EXCEPT ![s] = [@ EXCEPT !.pc = "polled", !.answer = Connectable /\ Current(s)]]
        /\ Connectable \/ ~Current(s) \/ (~Managed /\ task[s].child \notin Alive)
        /\ UNCHANGED trouble
     \/ /\ ~Connectable /\ GoWrong
        /\ task' = [task EXCEPT ![s] = [@ EXCEPT !.pc = "polled", !.answer = FALSE]]
  /\ UNCHANGED <<actor, firing, proc, agent, retries>>

(* Mutant: a startup that was superseded leaves its daemon alone.          *)
LeaveStale(s) ==
  /\ task[s].pc = "polled"
  /\ \/ /\ task[s].answer /\ Current(s)
        /\ actor' = Running([actor EXCEPT !.stability = s], s, task[s].child)
        /\ Return(s, TRUE)
     \/ (~task[s].answer \/ ~Current(s)) /\ Return(s, FALSE) /\ UNCHANGED actor
  /\ UNCHANGED <<firing, proc, agent, trouble, retries>>

(* The daemon is ready: it is the running one, unless the startup was      *)
(* superseded.  It is not: what was launched is stopped.                   *)
Ready(s) ==
  /\ task[s].pc = "polled"
  /\ \/ /\ task[s].answer /\ Current(s)
        /\ actor' = IF Managed THEN [Running(actor, s, None) EXCEPT !.failures = 0]
                    ELSE Running([actor EXCEPT !.stability = s], s, task[s].child)
        /\ retries' = IF Managed THEN 0 ELSE retries
        /\ Return(s, TRUE)
        /\ UNCHANGED proc
     \/ /\ ~task[s].answer \/ ~Current(s)
        /\ IF Managed
           THEN /\ IF task[s].answer THEN Return(s, FALSE) /\ UNCHANGED actor ELSE NextAttempt(s)
                /\ UNCHANGED proc
           ELSE /\ task' = [task EXCEPT ![s] = [@ EXCEPT !.pc = "stopping",
                                                        !.op = IF task[s].answer THEN "stale" ELSE "failed"]]
                /\ proc' = Terminated({task[s].child})
                /\ UNCHANGED actor
        /\ UNCHANGED retries
  /\ UNCHANGED <<firing, agent, trouble>>

ChildStopped(s) ==
  /\ s \in Startups /\ ~Managed /\ task[s].pc = "stopped"
  /\ \/ task[s].op = "stale" /\ Return(s, FALSE) /\ UNCHANGED actor
     \/ task[s].op = "failed" /\ NextAttempt(s)
  /\ UNCHANGED <<firing, proc, agent, trouble, retries>>

Retry(s) ==
  /\ task[s].pc = "sleeping"
  /\ task' = [task EXCEPT ![s] =
       IF task[s].cancelled THEN Answered(FALSE)
       ELSE [NewTask EXCEPT !.pc = "begin", !.attempt = task[s].attempt + 1]]
  /\ UNCHANGED <<actor, firing, proc, agent, trouble, retries>>
-----------------------------------------------------------------------------
(* The backoff passes, and the recovery task that slept for it fires.      *)
BackoffPasses ==
  /\ actor.kind = "backingOff" /\ ~actor.due
  /\ actor' = [actor EXCEPT !.due = TRUE]
  /\ firing' = firing \union ({actor.recovery} \ {None})
  /\ UNCHANGED <<task, proc, agent, trouble, retries>>

(* resumeAfterBackoff                                                      *)
Recover(g) ==
  /\ g \in firing
  /\ firing' = firing \ {g}
  /\ IF actor.generation = g /\ actor.kind = "backingOff" /\ actor.due
     THEN /\ g < MaxGeneration
          /\ actor' = Starting(actor)
          /\ task' = [task EXCEPT ![g + 1] = [NewTask EXCEPT !.pc = "begin"]]
          /\ retries' = retries + 1
     ELSE UNCHANGED <<actor, task, retries>>
  /\ UNCHANGED <<proc, agent, trouble>>

(* markStable, after a minute: that is longer than a process takes to boot *)
(* or to exit.                                                             *)
MarkStable ==
  /\ actor.stability # None
  /\ \A p \in Daemons : proc[p].life \notin {"booting", "exited"} /\ (p \in Alive => proc[p].signal = "none")
  /\ IF actor.kind = "running" /\ actor.launch = actor.stability
     THEN actor' = [actor EXCEPT !.failures = 0, !.stability = None] /\ retries' = 0
     ELSE actor' = [actor EXCEPT !.stability = None] /\ UNCHANGED retries
  /\ UNCHANGED <<task, firing, proc, agent, trouble>>

(* Mutant: the termination of any child counts.                            *)
AnyTerminated(p) ==
  /\ proc[p].life = "exited"
  /\ proc' = [proc EXCEPT ![p].life = "dead"]
  /\ actor' = IF actor.kind = "running" THEN Backoff(actor) ELSE actor
  /\ UNCHANGED <<task, firing, agent, trouble, retries>>

(* daemonTerminated                                                        *)
DaemonTerminated(p) ==
  /\ proc[p].life = "exited"
  /\ proc' = [proc EXCEPT ![p].life = "dead"]
  /\ actor' = IF actor.kind = "running" /\ actor.launch = proc[p].of /\ actor.daemon = p
              THEN Backoff(actor) ELSE actor
  /\ UNCHANGED <<task, firing, agent, trouble, retries>>
-----------------------------------------------------------------------------
(* The processes.  A daemon serves if it gets the lock and exits if not.   *)
Exited(p) == [proc EXCEPT ![p].life = IF proc[p].parent = "app" THEN "exited" ELSE "dead"]

Boot(p) ==
  /\ proc[p].life = "booting" /\ proc[p].signal # "kill"
  /\ proc' = IF Connectable THEN Exited(p) ELSE [proc EXCEPT ![p].life = "serving"]
  /\ UNCHANGED <<actor, task, firing, agent, trouble, retries>>

Exit(p) ==
  /\ p \in Alive
  /\ \/ proc[p].signal # "none" /\ UNCHANGED trouble
     \/ proc[p].signal = "none" /\ GoWrong
  /\ proc' = Exited(p)
  /\ UNCHANGED <<actor, task, firing, agent, retries>>

(* launchd keeps a registered daemon alive.                                *)
KeepAlive ==
  /\ agent = "enabled"
  /\ \A p \in Alive : proc[p].parent # "launchd"
  /\ \E p \in Unreferenced : proc' = Born(p, "launchd", None)
  /\ UNCHANGED <<actor, task, firing, agent, trouble, retries>>

(* The user disables the background item, or allows it again.              *)
Disable ==
  /\ agent = "enabled" /\ GoWrong
  /\ agent' = "requiresApproval"
  /\ proc' = Killed({p \in Alive : proc[p].parent = "launchd"})
  /\ UNCHANGED <<actor, task, firing, retries>>

Approve ==
  /\ agent = "requiresApproval" /\ GoWrong
  /\ agent' = "enabled"
  /\ UNCHANGED <<actor, task, firing, proc, retries>>

CallStep(c) ==
  \/ Probe(c) \/ Connected(c) \/ Inspect(c) \/ Adopt(c) \/ Disconnected(c)
  \/ JoinStartup(c) \/ EndWait(c) \/ CallStopped(c)
StopStep(t) == Unregister(t) \/ ListDaemons(t) \/ AwaitStop(t)
StartupStep(s) ==
  Attempt(s) \/ Register(s) \/ AwaitReady(s) \/ Ready(s) \/ ChildStopped(s) \/ Retry(s)
TimerStep == BackoffPasses \/ MarkStable \/ \E g \in firing : Recover(g)
ProcessStep == KeepAlive \/ \E p \in Daemons : DaemonTerminated(p) \/ Boot(p)

Next ==
  \/ \E c \in Calls : EnsureRunning(c) \/ RestartNow(c) \/ CallStep(c)
  \/ \E t \in Tasks : StopStep(t)
  \/ \E s \in Startups : StartupStep(s)
  \/ TimerStep
  \/ ProcessStep
  \/ \E p \in Daemons : Exit(p)
  \/ Disable
  \/ Approve

Spec == Init /\ [][Next]_vars

(* Tasks of the app and timers go on, daemons boot and die when killed,    *)
(* and the app, which loads its state again and again, asks for a daemon   *)
(* as long as that fails.                                                  *)
Fairness ==
  /\ \A c \in Calls : WF_vars(CallStep(c)) /\ WF_vars(EnsureRunning(c) /\ UNCHANGED trouble)
  /\ \A t \in Tasks : WF_vars(StopStep(t))
  /\ \A s \in Startups : WF_vars(StartupStep(s))
  /\ WF_vars(BackoffPasses) /\ \A g \in Generation : WF_vars(Recover(g))
  /\ WF_vars(ProcessStep)
  /\ \A p \in Daemons : WF_vars(Exit(p) /\ proc[p].signal = "kill")
FairSpec == Spec /\ Fairness
-----------------------------------------------------------------------------
TypeOK ==
  /\ actor \in Actor
  /\ \A t \in Tasks : task[t] \in Task
  /\ firing \subseteq Generation
  /\ \A p \in Daemons : proc[p] \in Process
  /\ agent \in Agents \union {"notRegistered", "enabled", "requiresApproval"}
  /\ trouble \in 0 .. MaxTrouble
  /\ retries \in Nat

(* Crash recovery is bounded until a daemon is stable or answers: so many  *)
(* automatic startups and no more (enterBackoff, resumeAfterBackoff).      *)
RecoveryBounded == retries <= MaxRestarts

(* A caller gives up: it could not stop or unregister what it had to, or   *)
(* has stopped what the user disabled.                                     *)
CallerGivesUp ==
  \E c \in Calls : task[c].pc \in {"leaving", "stopped"} /\ task'[c].pc = "done" /\ ~task'[c].answer

(* Only the death of the running daemon itself starts a backoff, never the *)
(* late word of an earlier child's (daemonTerminated) nor a startup that   *)
(* was superseded; but a caller that gives up does, whatever runs by then. *)
BackoffHasCause ==
  [][actor.kind = "running" /\ actor'.kind = "backingOff" => actor.daemon \notin Alive \/ CallerGivesUp]_vars

(* A child process that lives though it neither is the running daemon nor  *)
(* belongs to a startup or restart under way nor is being stopped.         *)
Stray(p) ==
  /\ p \in Alive /\ proc[p].parent = "app"
  /\ actor.daemon # p /\ proc[p].signal = "none"
  /\ \A t \in Tasks : p \notin Victims(t)

(* None is left behind, unless by a caller that gives up: it forgets the   *)
(* child that another caller's startup has launched in the meantime.       *)
NoChildForgotten ==
  [][\A p \in Daemons : Stray(p)' => Stray(p) \/ CallerGivesUp]_vars

(* A service that the user disabled is registered again by the user only   *)
(* (register and unregisterIfNeeded).                                      *)
DisabledStaysDisabled ==
  [][agent = "requiresApproval" /\ agent' # agent => trouble' # trouble]_vars

(* A service that stays disabled leaves no older daemon alive              *)
(* (ensureRunning).                                                        *)
DisabledStops ==
  [](agent = "requiresApproval") => <>[](~Connectable)

(* Both: the switch in the system's settings is obeyed, whatever startup   *)
(* or restart is under way when it is turned off (ensureRunning).          *)
SwitchObeyed == DisabledStaysDisabled /\ DisabledStops

(* In the end a daemon serves, whatever went wrong before.                 *)
ServedInTheEnd ==
  <>[](agent # "requiresApproval") => <>[]Connectable

(* The test testConcurrentEnsureRunningCallsShareOneLaunch: a startup      *)
(* under way is shared.  It ends by itself or is cancelled by a restart.   *)
StartupIsShared ==
  [][actor.kind = "starting" /\ actor'.kind # "starting"
       => task'[actor.launch].pc = "done" \/ task'[actor.launch].cancelled]_vars
=============================================================================
