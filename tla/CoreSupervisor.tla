--------------------------- MODULE CoreSupervisor ---------------------------
(***************************************************************************)
(* The desktop client's supervisor of its local core process               *)
(* (desktop/src/main/core-supervisor.ts): lifecycle commands, which are    *)
(* serialized, startups, and the crash recoveries that run beside them.    *)
(* Commands, startups and recoveries are asynchronous; a generation tells  *)
(* a task that it has been superseded, and startPromise tells which task   *)
(* later callers join.                                                     *)
(*                                                                         *)
(* Left out: the status shown to the learner, the remote core (selecting   *)
(* it only resets the crash budget) and the contents of health answers.    *)
(***************************************************************************)
EXTENDS Naturals, Sequences, FiniteSets

CONSTANTS None,
          RestartLimit,   \* length of RESTART_DELAYS_MS
          BindLimit,      \* MAX_BIND_COLLISION_RETRIES
          MaxCommands,    \* bound: lifecycle commands
          MaxCrashes      \* bound: exits nobody asked for

ASSUME LimitsAssumption ==
    RestartLimit \in Nat /\ BindLimit \in Nat \ {0} /\ MaxCommands \in Nat /\ MaxCrashes \in Nat
ASSUME NoneAssumption == None \notin Nat

VARIABLES generation,
          process,         \* the child the supervisor knows of
          endpoint,        \* the child whose address is published
          startPromise,    \* the task that callers join
          intentionalStop,
          restartAttempt,
          stableTimer      \* the generation it was armed for

VARIABLES tasks,           \* startups and recoveries, finished ones included
          children,        \* every core process launched
          command,         \* the lifecycle command that is running
          commands, crashes

supervisorVars == <<generation, process, endpoint, startPromise, intentionalStop,
                    restartAttempt, stableTimer>>
vars == <<supervisorVars, tasks, children, command, commands, crashes>>

TaskId == 1..Len(tasks)
ChildId == 1..Len(children)
Finished(t) == tasks[t].pc = "done"
NoCommand == [op |-> None, pc |-> "idle", join |-> None, victim |-> None]
Startup(g) == [kind |-> "startup", gen |-> g, pc |-> "verify", child |-> None, tries |-> 0,
               join |-> None, victim |-> None]
Recovery(g) == [Startup(g) EXCEPT !.kind = "recovery", !.pc = "sleep"]

TypeOK ==
    /\ generation \in Nat
    /\ process \in ChildId \cup {None} /\ endpoint \in ChildId \cup {None}
    /\ startPromise \in TaskId \cup {None}
    /\ intentionalStop \in BOOLEAN
    /\ restartAttempt \in 0..RestartLimit
    /\ stableTimer \in 0..generation \cup {None}
    /\ \A t \in TaskId :
          /\ tasks[t].kind \in {"startup", "recovery"} /\ tasks[t].gen \in 0..generation
          /\ tasks[t].pc \in {"verify", "port", "health", "exited", "stopping",
                              "sleep", "join", "done"}
          /\ tasks[t].tries \in 0..BindLimit
          /\ {tasks[t].child, tasks[t].victim} \subseteq ChildId \cup {None}
          /\ tasks[t].join \in TaskId \cup {None}
    /\ \A c \in ChildId :
          children[c] \in [alive : BOOLEAN, phase : {"pending", "ready", "disposed"},
                           gen : 0..generation, watched : BOOLEAN]
    /\ command.op \in {"get", "restart", "repair", "stop", None}
    /\ command.pc \in {"idle", "stopping", "verify", "join"}

Init ==
    /\ generation = 0
    /\ process = None /\ endpoint = None /\ startPromise = None
    /\ intentionalStop = FALSE /\ restartAttempt = 0 /\ stableTimer = None
    /\ tasks = <<>> /\ children = <<>>
    /\ command = NoCommand
    /\ commands = 0 /\ crashes = 0

-----------------------------------------------------------------------------
(* ensureStarted on top of the given tasks, promise and generation: the     *)
(* task to join is the last one of a new startup, or the promise's.         *)
EnsureStarted(ts, promise, g) ==
    IF promise # None
    THEN /\ tasks' = ts /\ startPromise' = promise /\ generation' = g
         /\ UNCHANGED intentionalStop
    ELSE /\ tasks' = Append(ts, Startup(g + 1))
         /\ startPromise' = Len(ts) + 1
         /\ generation' = g + 1
         /\ intentionalStop' = FALSE

(* stopProcessOnly, up to its first await: the handle and the endpoint are  *)
(* dropped, and a child is killed.                                          *)
TakeProcess ==
    /\ process' = None /\ endpoint' = None
    /\ children' = IF process = None THEN children
                   ELSE [children EXCEPT ![process].watched = TRUE]

-----------------------------------------------------------------------------
(* Lifecycle commands (runLifecycle).                                       *)

StartCommand == command.pc = "idle" /\ commands < MaxCommands /\ commands' = commands + 1

(* configure, getEndpoint, selectSource when no local core is published.    *)
GetEndpoint ==
    /\ StartCommand
    /\ endpoint = None
    /\ EnsureStarted(tasks, startPromise, generation)
    /\ command' = [NoCommand EXCEPT !.op = "get", !.pc = "join", !.join = startPromise']
    /\ UNCHANGED <<process, endpoint, restartAttempt, stableTimer, children, crashes>>

(* recover("use-remote").                                                   *)
UseRemote ==
    /\ StartCommand
    /\ restartAttempt' = 0
    /\ UNCHANGED <<generation, process, endpoint, startPromise, intentionalStop, stableTimer,
                   tasks, children, command, crashes>>

(* restart, recover("restart-local") and recover("repair"): supersede, stop *)
(* and start again.                                                         *)
Restart(op) ==
    /\ StartCommand
    /\ restartAttempt' = 0 /\ stableTimer' = None
    /\ TakeProcess
    /\ IF process = None /\ op = "restart"
       THEN /\ EnsureStarted(tasks, None, generation + 1)
            /\ command' = [NoCommand EXCEPT !.op = op, !.pc = "join", !.join = startPromise']
       ELSE /\ generation' = generation + 1 /\ startPromise' = None
            /\ command' = [NoCommand EXCEPT !.op = op, !.victim = process,
                              !.pc = IF process = None THEN "verify" ELSE "stopping"]
            /\ UNCHANGED <<intentionalStop, tasks>>
    /\ UNCHANGED crashes

Stop ==
    /\ StartCommand
    /\ intentionalStop' = TRUE /\ generation' = generation + 1
    /\ TakeProcess
    /\ IF process = None
       THEN startPromise' = None /\ UNCHANGED command
       ELSE /\ command' = [NoCommand EXCEPT !.op = "stop", !.pc = "stopping", !.victim = process]
            /\ UNCHANGED startPromise
    /\ UNCHANGED <<restartAttempt, stableTimer, tasks, crashes>>

(* The child's exit is confirmed.                                           *)
CommandStopped ==
    /\ command.pc = "stopping" /\ ~children[command.victim].alive
    /\ CASE command.op = "stop" ->
               /\ startPromise' = None /\ command' = NoCommand
               /\ UNCHANGED <<generation, intentionalStop, tasks>>
         [] command.op = "repair" ->
               /\ command' = [command EXCEPT !.pc = "verify", !.victim = None]
               /\ UNCHANGED <<generation, startPromise, intentionalStop, tasks>>
         [] command.op = "restart" ->
               /\ EnsureStarted(tasks, startPromise, generation)
               /\ command' = [NoCommand EXCEPT !.op = "restart", !.pc = "join",
                                 !.join = startPromise']
    /\ UNCHANGED <<process, endpoint, restartAttempt, stableTimer, children, commands, crashes>>

(* Termination cannot be confirmed: the handle is kept, the command fails.  *)
CommandNotStopped ==
    /\ command.pc = "stopping" /\ children[command.victim].alive
    /\ process' = command.victim
    /\ startPromise' = IF command.op = "stop" THEN None ELSE startPromise
    /\ command' = NoCommand
    /\ UNCHANGED <<generation, endpoint, intentionalStop, restartAttempt, stableTimer,
                   tasks, children, commands, crashes>>

(* A repair verifies the bundled runtime; when that fails it throws.        *)
RepairVerified ==
    /\ command.pc = "verify"
    /\ \/ /\ EnsureStarted(tasks, startPromise, generation)
          /\ command' = [command EXCEPT !.pc = "join", !.join = startPromise']
       \/ /\ command' = NoCommand
          /\ UNCHANGED <<generation, startPromise, intentionalStop, tasks>>
    /\ UNCHANGED <<process, endpoint, restartAttempt, stableTimer, children, commands, crashes>>

CommandJoined ==
    /\ command.pc = "join" /\ Finished(command.join)
    /\ command' = NoCommand
    /\ UNCHANGED <<supervisorVars, tasks, children, commands, crashes>>

-----------------------------------------------------------------------------
(* A startup (startOnce, startOnPort and the catch of ensureStarted).       *)

Goto(s, label) == tasks' = [tasks EXCEPT ![s].pc = label]

(* The catch: an obsolete startup leaves everything to its successor, the   *)
(* current one stops what it launched.                                      *)
Fail(s, cs) ==
    IF startPromise # s
    THEN /\ Goto(s, "done") /\ children' = cs
         /\ UNCHANGED <<generation, process, endpoint, startPromise, stableTimer>>
    ELSE /\ stableTimer' = None /\ generation' = generation + 1
         /\ process' = None /\ endpoint' = None
         /\ IF process = None
            THEN Goto(s, "done") /\ startPromise' = None /\ children' = cs
            ELSE /\ tasks' = [tasks EXCEPT ![s].pc = "stopping", ![s].victim = process]
                 /\ children' = [cs EXCEPT ![process].watched = TRUE]
                 /\ UNCHANGED startPromise

(* verifyBundledRuntime, then the check that nobody superseded the startup. *)
Verified(s) ==
    /\ tasks[s].pc = "verify"
    /\ \/ /\ tasks[s].gen = generation /\ Goto(s, "port")
          /\ UNCHANGED <<generation, process, endpoint, startPromise, stableTimer, children>>
       \/ Fail(s, children)
    /\ UNCHANGED <<intentionalStop, restartAttempt, command, commands, crashes>>

(* allocateLoopbackPort has found a port: the child is launched on it.      *)
Launch(s) ==
    /\ tasks[s].pc = "port"
    /\ children' = Append(children, [alive |-> TRUE, phase |-> "pending", gen |-> tasks[s].gen,
                                     watched |-> FALSE])
    /\ process' = Len(children) + 1
    /\ tasks' = [tasks EXCEPT ![s].pc = "health", ![s].child = Len(children) + 1,
                              ![s].tries = @ + 1]
    /\ UNCHANGED <<generation, endpoint, startPromise, intentionalStop, restartAttempt,
                   stableTimer, command, commands, crashes>>

(* Faulty variant: a healthy child is published for whom it may concern.    *)
HealthyAnyGeneration(s) ==
    /\ tasks[s].pc = "health"
    /\ children[tasks[s].child].alive
    /\ children' = [children EXCEPT ![tasks[s].child].phase = "ready"]
    /\ endpoint' = tasks[s].child /\ stableTimer' = tasks[s].gen /\ Goto(s, "done")
    /\ UNCHANGED <<generation, process, startPromise, intentionalStop, restartAttempt, command,
                   commands, crashes>>

(* The health and identity checks passed; only the current generation may   *)
(* publish its endpoint.                                                    *)
Healthy(s) ==
    LET c == tasks[s].child
        cs == [children EXCEPT ![c].phase = "ready"]
    IN /\ tasks[s].pc = "health"
       /\ children[c].alive
       /\ IF tasks[s].gen = generation
          THEN /\ endpoint' = c /\ stableTimer' = generation /\ children' = cs
               /\ Goto(s, "done")
               /\ UNCHANGED <<generation, process, startPromise>>
          ELSE Fail(s, cs)
       /\ UNCHANGED <<intentionalStop, restartAttempt, command, commands, crashes>>

(* The deadline passed, or the generation moved on.                         *)
Unhealthy(s) ==
    /\ tasks[s].pc = "health"
    /\ children[tasks[s].child].alive
    /\ Fail(s, [children EXCEPT ![tasks[s].child].phase = "disposed"])
    /\ UNCHANGED <<intentionalStop, restartAttempt, command, commands, crashes>>

(* The child exited before it was healthy: a lost race for the port is      *)
(* tried again on another one.                                              *)
ExitedEarly(s) ==
    /\ tasks[s].pc = "exited"
    /\ \/ /\ tasks[s].gen = generation /\ tasks[s].tries < BindLimit
          /\ Goto(s, "port")
          /\ UNCHANGED <<generation, process, endpoint, startPromise, stableTimer, children>>
       \/ Fail(s, children)
    /\ UNCHANGED <<intentionalStop, restartAttempt, command, commands, crashes>>

(* The catch goes on after the child it stopped; a child that survives is   *)
(* kept, and the promise stays the rejected one.                            *)
CatchStopped(s) ==
    /\ tasks[s].pc = "stopping"
    /\ IF children[tasks[s].victim].alive
       THEN process' = tasks[s].victim /\ UNCHANGED startPromise
       ELSE startPromise' = None /\ UNCHANGED process
    /\ Goto(s, "done")
    /\ UNCHANGED <<generation, endpoint, intentionalStop, restartAttempt, stableTimer, children,
                   command, commands, crashes>>

-----------------------------------------------------------------------------
(* Exits and recoveries.                                                    *)

(* Faulty variant: a crashed core is restarted for ever.                    *)
HandleExitUnlimited ==
    /\ generation' = generation + 1 /\ stableTimer' = None
    /\ process' = None /\ endpoint' = None
    /\ IF intentionalStop
       THEN startPromise' = None /\ UNCHANGED <<restartAttempt, tasks>>
       ELSE /\ restartAttempt' = restartAttempt + 1
            /\ tasks' = Append(tasks, Recovery(generation + 1))
            /\ startPromise' = Len(tasks) + 1

(* handleExit of the current generation's child.                            *)
HandleExit ==
    /\ generation' = generation + 1 /\ stableTimer' = None
    /\ process' = None /\ endpoint' = None
    /\ IF intentionalStop \/ restartAttempt >= RestartLimit
       THEN startPromise' = None /\ UNCHANGED <<restartAttempt, tasks>>
       ELSE /\ restartAttempt' = restartAttempt + 1
            /\ tasks' = Append(tasks, Recovery(generation + 1))
            /\ startPromise' = Len(tasks) + 1

(* A child exits by itself, or because it was killed.  The listeners of a   *)
(* startup that waits and of a stop forget the child.                       *)
ChildExits(c) ==
    /\ children[c].alive
    /\ children[c].watched \/ crashes < MaxCrashes
    /\ crashes' = IF children[c].watched THEN crashes ELSE crashes + 1
    /\ children' = [children EXCEPT ![c].alive = FALSE,
                       ![c].phase = IF @ = "pending" THEN "disposed" ELSE @]
    /\ IF children[c].phase = "ready" /\ children[c].gen = generation
       THEN HandleExit
       ELSE /\ process' = IF process = c /\ (children[c].phase = "pending" \/ children[c].watched)
                          THEN None ELSE process
            /\ tasks' = [t \in TaskId |->
                            IF tasks[t].pc = "health" /\ tasks[t].child = c
                            THEN [tasks[t] EXCEPT !.pc = "exited"] ELSE tasks[t]]
            /\ UNCHANGED <<generation, endpoint, startPromise, restartAttempt, stableTimer>>
    /\ UNCHANGED <<intentionalStop, command, commands>>

(* Faulty variant: the recovery joins the promise that it is.               *)
WakeJoining(r) ==
    /\ tasks[r].pc = "sleep"
    /\ IF tasks[r].gen # generation \/ intentionalStop
       THEN Goto(r, "done") /\ UNCHANGED <<generation, startPromise, intentionalStop>>
       ELSE EnsureStarted([tasks EXCEPT ![r].pc = "join", ![r].join = startPromise],
                          startPromise, generation)
    /\ UNCHANGED <<process, endpoint, restartAttempt, stableTimer, children, command, commands,
                   crashes>>

(* The back-off has passed.                                                 *)
Wake(r) ==
    LET promise == IF startPromise = r THEN None ELSE startPromise
        joined == IF promise = None THEN Len(tasks) + 1 ELSE promise
    IN /\ tasks[r].pc = "sleep"
       /\ IF tasks[r].gen # generation \/ intentionalStop
          THEN Goto(r, "done") /\ UNCHANGED <<generation, startPromise, intentionalStop>>
          ELSE EnsureStarted([tasks EXCEPT ![r].pc = "join", ![r].join = joined],
                             promise, generation)
       /\ UNCHANGED <<process, endpoint, restartAttempt, stableTimer, children, command,
                      commands, crashes>>

RecoveryJoined(r) ==
    /\ tasks[r].pc = "join" /\ Finished(tasks[r].join)
    /\ Goto(r, "done")
    /\ UNCHANGED <<supervisorVars, children, command, commands, crashes>>

(* The stable-runtime timer resets the crash budget of the generation it    *)
(* was armed for, unless the status has changed.                            *)
StableRuntime ==
    /\ stableTimer # None /\ stableTimer' = None
    /\ restartAttempt' = IF stableTimer = generation THEN 0 ELSE restartAttempt
    /\ UNCHANGED <<generation, process, endpoint, startPromise, intentionalStop, tasks, children,
                   command, commands, crashes>>

-----------------------------------------------------------------------------
StartupStep(s) ==
    Verified(s) \/ Launch(s) \/ Healthy(s) \/ Unhealthy(s) \/ ExitedEarly(s) \/ CatchStopped(s)
RecoveryStep(r) == Wake(r) \/ RecoveryJoined(r)
CommandStep == CommandStopped \/ CommandNotStopped \/ RepairVerified \/ CommandJoined

Next ==
    \/ GetEndpoint \/ UseRemote \/ Restart("restart") \/ Restart("repair") \/ Stop
    \/ CommandStep
    \/ \E t \in TaskId : StartupStep(t) \/ RecoveryStep(t)
    \/ \E c \in ChildId : ChildExits(c)
    \/ StableRuntime

Spec == Init /\ [][Next]_vars

(* Every await of the code ends: verification, port probes, health deadline *)
(* and stop timeouts are bounded, back-offs are timers.                     *)
Fairness ==
    /\ WF_vars(CommandStep)
    /\ WF_vars(\E t \in TaskId : StartupStep(t) \/ RecoveryStep(t))
FairSpec == Spec /\ Fairness

-----------------------------------------------------------------------------
(* A published endpoint is that of a child of the current generation whose  *)
(* exit will be noticed: no obsolete startup publishes a core that a stop   *)
(* or a restart has retired, and no crash leaves its address behind         *)
(* (startOnPort, handleExit, stopProcessOnly).                              *)
PublishedIsCurrent ==
    endpoint # None =>
        /\ children[endpoint].alive /\ children[endpoint].phase = "ready"
        /\ children[endpoint].gen = generation

(* A lifecycle command never waits for itself, for a superseded startup or  *)
(* for a core that will not die: the commands queued behind it, quitting    *)
(* among them, get their turn.                                              *)
CommandsReturn == []<>(command.pc = "idle")

(* The supervisor has one core at most (stopProcessOnly: "never launch a     *)
(* second Core beside an unconfirmed one"). The code does not keep this.    *)
OneCore == Cardinality({c \in ChildId : children[c].alive}) <= 1
=============================================================================
