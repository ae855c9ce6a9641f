------------------------ MODULE CoreSupervisor_proofs ------------------------
(***************************************************************************)
(* Only the current generation publishes, for any number of commands,      *)
(* crashes, restarts and bind attempts.                                    *)
(*                                                                         *)
(* The argument is about generations.  Every startup and every recovery    *)
(* begins by taking a new one, so no two of them share a generation        *)
(* (InOrder), and a child carries the generation of the startup that       *)
(* launched it (ChildrenOwned).  A generation that belongs to a sleeping   *)
(* recovery therefore has no child, and between a stop and the startup     *)
(* after it no task at all has the current generation (Retired): nobody    *)
(* can publish in the meantime.                                            *)
(***************************************************************************)
EXTENDS CoreSupervisor, SequenceTheorems, TLAPS

Task == [kind : {"startup", "recovery"}, gen : Nat,
         pc : {"verify", "port", "health", "exited", "stopping", "sleep", "join", "done"},
         child : Nat \cup {None}, tries : Nat, join : Nat \cup {None}, victim : Nat \cup {None}]
Child == [alive : BOOLEAN, phase : {"pending", "ready", "disposed"}, gen : Nat,
          watched : BOOLEAN]
Command == [op : {"get", "restart", "repair", "stop", None},
            pc : {"idle", "stopping", "verify", "join"},
            join : Nat \cup {None}, victim : Nat \cup {None}]

-----------------------------------------------------------------------------
(* The inductive invariant.                                                 *)

TypeInv ==
    /\ generation \in Nat
    /\ process \in ChildId \cup {None} /\ endpoint \in ChildId \cup {None}
    /\ startPromise \in TaskId \cup {None}
    /\ intentionalStop \in BOOLEAN
    /\ restartAttempt \in 0..RestartLimit
    /\ stableTimer \in 0..generation \cup {None}
    /\ tasks \in Seq(Task) /\ children \in Seq(Child) /\ command \in Command

(* A task is no younger than the generation and inside the bind limit.      *)
TaskFits(t) ==
    /\ tasks[t].gen <= generation
    /\ tasks[t].child \in ChildId \cup {None} /\ tasks[t].victim \in ChildId \cup {None}
    /\ tasks[t].join \in TaskId \cup {None}
    /\ tasks[t].tries <= BindLimit
    /\ tasks[t].pc = "verify" => tasks[t].tries = 0
    /\ tasks[t].pc = "port" => tasks[t].tries < BindLimit
    /\ tasks[t].pc = "stopping" => tasks[t].victim # None
    /\ tasks[t].pc = "sleep" => tasks[t].kind = "recovery"
    /\ tasks[t].kind = "recovery" => tasks[t].pc \in {"sleep", "join", "done"}

(* The child of a startup that waits for its health is its own.             *)
Pending(t) ==
    tasks[t].pc = "health" =>
        /\ tasks[t].child \in ChildId
        /\ children[tasks[t].child].gen = tasks[t].gen
        /\ children[tasks[t].child].phase = "pending"

TasksFit == \A t \in TaskId : TaskFits(t) /\ Pending(t)

CommandFits ==
    /\ command.victim \in ChildId \cup {None}
    /\ command.pc = "stopping" =>
          command.victim # None /\ command.op \in {"stop", "repair", "restart"}
    /\ command.pc = "join" => command.join \in TaskId

InOrder == \A t, u \in TaskId : t < u => tasks[t].gen < tasks[u].gen

Owns(t, c) == tasks[t].kind = "startup" /\ tasks[t].gen = children[c].gen
ChildrenOwned == \A c \in ChildId : \E t \in TaskId : Owns(t, c)

Retired == command.pc \in {"stopping", "verify"} => \A t \in TaskId : tasks[t].gen < generation

IInv == TypeInv /\ TasksFit /\ CommandFits /\ InOrder /\ ChildrenOwned /\ Retired
        /\ PublishedIsCurrent

-----------------------------------------------------------------------------
(* Records and sequences.                                                   *)

LEMMA TaskParts ==
    ASSUME TypeInv, NEW t \in TaskId
    PROVE  /\ t \in Nat /\ tasks[t] \in Task
           /\ tasks[t].kind \in {"startup", "recovery"} /\ tasks[t].gen \in Nat
           /\ tasks[t].tries \in Nat
<1>1. t \in Nat /\ tasks[t] \in Task
  BY LenProperties, ElementOfSeq DEF TypeInv, TaskId
<1> QED BY <1>1 DEF Task

LEMMA ChildParts ==
    ASSUME TypeInv, NEW c \in ChildId
    PROVE  /\ c \in Nat /\ children[c] \in Child
           /\ children[c].gen \in Nat /\ children[c].alive \in BOOLEAN
           /\ children[c].phase \in {"pending", "ready", "disposed"}
<1>1. c \in Nat /\ children[c] \in Child
  BY LenProperties, ElementOfSeq DEF TypeInv, ChildId
<1> QED BY <1>1 DEF Child

LEMMA Ids == ASSUME TypeInv PROVE TaskId \subseteq Nat /\ ChildId \subseteq Nat
BY LenProperties DEF TypeInv, TaskId, ChildId

LEMMA CommandParts ==
    ASSUME TypeInv
    PROVE  /\ command.op \in {"get", "restart", "repair", "stop", None}
           /\ command.pc \in {"idle", "stopping", "verify", "join"}
BY DEF TypeInv, Command

LEMMA NoCommandParts ==
    /\ NoCommand \in Command /\ NoCommand.pc = "idle" /\ NoCommand.op = None
    /\ NoCommand.join = None /\ NoCommand.victim = None
BY DEF NoCommand, Command

(* A task that has just been made.                                          *)
Fresh(r, g) ==
    /\ r \in Task /\ r.gen = g
    /\ r.child = None /\ r.victim = None /\ r.join = None /\ r.tries = 0
    /\ \/ r.kind = "startup" /\ r.pc = "verify"
       \/ r.kind = "recovery" /\ r.pc = "sleep"

LEMMA FreshStartup == ASSUME NEW g \in Nat PROVE Fresh(Startup(g), g)
BY DEF Fresh, Startup, Task

LEMMA FreshRecovery == ASSUME NEW g \in Nat PROVE Fresh(Recovery(g), g)
<1>1. Startup(g) \in Task /\ Startup(g).gen = g /\ Startup(g).child = None
      /\ Startup(g).victim = None /\ Startup(g).join = None /\ Startup(g).tries = 0
  BY DEF Startup, Task
<1> QED BY <1>1 DEF Fresh, Recovery, Task

-----------------------------------------------------------------------------
(* Shapes of a step.                                                        *)

SameOwners == \A t \in TaskId : tasks'[t].kind = tasks[t].kind /\ tasks'[t].gen = tasks[t].gen
KeepsTasks == Len(tasks') = Len(tasks) /\ SameOwners /\ generation' >= generation
AddsTask ==
    /\ Len(tasks') = Len(tasks) + 1 /\ SameOwners
    /\ generation' > generation /\ Fresh(tasks'[Len(tasks')], generation')
KeepsChildren ==
    /\ Len(children') = Len(children)
    /\ \A c \in ChildId : children'[c].gen = children[c].gen

LEMMA Ordered ==
    ASSUME IInv, TypeInv', KeepsTasks \/ AddsTask
    PROVE  InOrder'
<1> SUFFICES ASSUME NEW t \in TaskId', NEW u \in TaskId', t < u
             PROVE  tasks'[t].gen < tasks'[u].gen
  BY DEF InOrder
<1>1. TypeInv /\ t \in Nat /\ u \in Nat /\ Len(tasks) \in Nat /\ Len(tasks') \in Nat
  BY LenProperties DEF IInv, TypeInv, TaskId
<1>2. t \in TaskId
  BY <1>1 DEF TaskId, KeepsTasks, AddsTask
<1>3. CASE u \in TaskId
  BY <1>2, <1>3 DEF KeepsTasks, AddsTask, SameOwners, IInv, InOrder
<1>4. CASE u \notin TaskId
  <2>1. AddsTask /\ u = Len(tasks')
    BY <1>1, <1>4 DEF TaskId, KeepsTasks, AddsTask
  <2>2. tasks'[u].gen = generation' /\ generation' > generation
    BY <2>1 DEF AddsTask, Fresh
  <2>3. tasks'[t].gen = tasks[t].gen /\ tasks[t].gen <= generation /\ tasks[t].gen \in Nat
    BY <1>1, <1>2, <2>1, TaskParts DEF AddsTask, SameOwners, IInv, TasksFit, TaskFits
  <2>4. generation \in Nat /\ generation' \in Nat
    BY DEF IInv, TypeInv
  <2> QED BY <2>2, <2>3, <2>4
<1> QED BY <1>3, <1>4

LEMMA StillOwned ==
    ASSUME IInv, TypeInv', KeepsTasks \/ AddsTask, KeepsChildren
    PROVE  ChildrenOwned'
<1> SUFFICES ASSUME NEW c \in ChildId
             PROVE  \E t \in TaskId' : tasks'[t].kind = "startup"
                                       /\ tasks'[t].gen = children'[c].gen
  BY DEF ChildrenOwned, Owns, ChildId, KeepsChildren
<1>1. PICK t \in TaskId : Owns(t, c)
  BY DEF IInv, ChildrenOwned
<1>2. t \in TaskId'
  BY LenProperties DEF TaskId, KeepsTasks, AddsTask, IInv, TypeInv
<1> QED BY <1>1, <1>2 DEF Owns, KeepsTasks, AddsTask, SameOwners, KeepsChildren

LEMMA AssembleOwned ==
    ASSUME IInv, TypeInv', KeepsTasks \/ AddsTask, ChildrenOwned',
           \A t \in TaskId : (TaskFits(t) /\ Pending(t))',
           CommandFits', Retired', PublishedIsCurrent'
    PROVE  IInv'
<1>1. TasksFit'
  <2> SUFFICES ASSUME NEW t \in TaskId', t \notin TaskId
               PROVE  (TaskFits(t) /\ Pending(t))'
    BY DEF TasksFit
  <2>1. AddsTask /\ t = Len(tasks')
    BY LenProperties DEF TaskId, KeepsTasks, AddsTask, IInv, TypeInv
  <2>2. Fresh(tasks'[t], generation') /\ generation' \in Nat
    BY <2>1 DEF AddsTask, TypeInv
  <2> QED BY <2>2, LimitsAssumption DEF Fresh, TaskFits, Pending
<1> QED BY <1>1, Ordered DEF IInv

LEMMA Assemble ==
    ASSUME IInv, TypeInv', KeepsTasks \/ AddsTask, KeepsChildren,
           \A t \in TaskId : (TaskFits(t) /\ Pending(t))',
           CommandFits', Retired', PublishedIsCurrent'
    PROVE  IInv'
BY AssembleOwned, StillOwned

(* Nothing that a step leaves to a task gets in its way.                    *)
LEMMA Unmoved ==
    ASSUME IInv, NEW t \in TaskId, tasks'[t] = tasks[t], generation' \in Nat,
           generation' >= generation, TaskId \subseteq TaskId', ChildId \subseteq ChildId',
           tasks[t].pc = "health" =>
               /\ children'[tasks[t].child].gen = children[tasks[t].child].gen
               /\ children'[tasks[t].child].phase = children[tasks[t].child].phase
    PROVE  (TaskFits(t) /\ Pending(t))'
<1>1. TaskFits(t) /\ Pending(t) /\ tasks[t].gen \in Nat /\ generation \in Nat
  BY TaskParts DEF IInv, TasksFit, TypeInv
<1>2. TaskFits(t)'
  BY <1>1 DEF TaskFits
<1>3. Pending(t)'
  BY <1>1 DEF Pending
<1> QED BY <1>2, <1>3

(* Tasks of the same generation are the same task.                          *)
LEMMA SameTask ==
    ASSUME IInv, NEW t \in TaskId, NEW u \in TaskId, tasks[t].gen = tasks[u].gen
    PROVE  t = u
<1>1. t \in Nat /\ u \in Nat /\ tasks[t].gen \in Nat /\ tasks[u].gen \in Nat
  BY TaskParts DEF IInv
<1> QED BY <1>1 DEF IInv, InOrder

(* What ensureStarted does to the tasks.                                    *)
LEMMA EnsureStartedShape ==
    ASSUME IInv, NEW ts \in Seq(Task), Len(ts) = Len(tasks),
           \A t \in TaskId : ts[t].kind = tasks[t].kind /\ ts[t].gen = tasks[t].gen,
           NEW promise \in TaskId \cup {None}, NEW g \in Nat, g >= generation,
           EnsureStarted(ts, promise, g)
    PROVE  /\ KeepsTasks \/ AddsTask
           /\ tasks' \in Seq(Task) /\ TaskId \subseteq TaskId'
           /\ \A t \in TaskId : tasks'[t] = ts[t]
           /\ startPromise' \in TaskId' /\ intentionalStop' \in BOOLEAN
           /\ generation' \in Nat /\ generation' >= generation
           /\ promise = None => AddsTask
<1>1. TypeInv /\ generation \in Nat /\ Len(tasks) \in Nat /\ Len(ts) \in Nat
      /\ TaskId \subseteq Nat /\ NoneAssumption
  BY LenProperties, NoneAssumption, Ids DEF IInv, TypeInv
<1>2. CASE promise # None
  BY <1>1, <1>2 DEF EnsureStarted, KeepsTasks, SameOwners, TaskId, IInv, TypeInv
<1>3. CASE promise = None
  <2>1. /\ tasks' = Append(ts, Startup(g + 1)) /\ startPromise' = Len(ts) + 1
        /\ generation' = g + 1 /\ intentionalStop' = FALSE
    BY <1>3 DEF EnsureStarted
  <2>2. Fresh(Startup(g + 1), g + 1)
    BY FreshStartup
  <2>3. Startup(g + 1) \in Task
    BY <2>2 DEF Fresh
  <2>4. /\ tasks' \in Seq(Task) /\ Len(tasks') = Len(tasks) + 1
        /\ \A t \in 1..Len(ts) : tasks'[t] = ts[t]
        /\ tasks'[Len(ts) + 1] = Startup(g + 1)
    BY <2>1, <2>3, AppendProperties
  <2>5. AddsTask
    BY <1>1, <2>1, <2>2, <2>4 DEF AddsTask, SameOwners, TaskId
  <2>6. TaskId \subseteq TaskId' /\ startPromise' \in TaskId'
    BY <1>1, <2>1, <2>4 DEF TaskId
  <2>7. \A t \in TaskId : tasks'[t] = ts[t]
    BY <2>4 DEF TaskId
  <2>8. generation' \in Nat /\ generation' >= generation
    BY <1>1, <2>1
  <2> QED BY <1>3, <2>1, <2>4, <2>5, <2>6, <2>7, <2>8
<1> QED BY <1>2, <1>3

-----------------------------------------------------------------------------
(* Commands.                                                                *)

LEMMA GetEndpointKeeps == ASSUME IInv, GetEndpoint PROVE IInv'
<1>1. TypeInv /\ tasks \in Seq(Task) /\ generation \in Nat /\ generation >= generation
      /\ startPromise \in TaskId \cup {None} /\ TaskId \subseteq Nat
  BY Ids DEF IInv, TypeInv
<1>2. EnsureStarted(tasks, startPromise, generation)
      /\ UNCHANGED <<process, endpoint, restartAttempt, stableTimer, children, crashes>>
  BY DEF GetEndpoint
<1>3. /\ KeepsTasks \/ AddsTask
      /\ tasks' \in Seq(Task) /\ TaskId \subseteq TaskId'
      /\ \A t \in TaskId : tasks'[t] = tasks[t]
      /\ startPromise' \in TaskId' /\ intentionalStop' \in BOOLEAN
      /\ generation' \in Nat /\ generation' >= generation
  BY <1>1, <1>2, EnsureStartedShape
<1>4. startPromise' \in Nat
  BY <1>3, LenProperties DEF TaskId
<1>5. /\ command' \in Command /\ command'.pc = "join" /\ command'.join = startPromise'
      /\ command'.victim = None
  BY <1>4, NoCommandParts DEF GetEndpoint, Command
<1>6. TypeInv'
  BY <1>1, <1>2, <1>3, <1>5 DEF TypeInv, ChildId
<1>7. KeepsChildren /\ ChildId' = ChildId
  BY <1>2 DEF KeepsChildren, ChildId
<1>8. \A t \in TaskId : (TaskFits(t) /\ Pending(t))'
  BY <1>2, <1>3, <1>7, Unmoved
<1>9. CommandFits' /\ Retired' /\ PublishedIsCurrent'
  BY <1>2, <1>3, <1>5 DEF CommandFits, Retired, PublishedIsCurrent, GetEndpoint
<1> QED BY <1>3, <1>6, <1>7, <1>8, <1>9, Assemble

LEMMA UseRemoteKeeps == ASSUME IInv, UseRemote PROVE IInv'
<1>1. restartAttempt' = 0
      /\ UNCHANGED <<generation, process, endpoint, startPromise, intentionalStop, stableTimer,
                     tasks, children, command, crashes>>
  BY DEF UseRemote
<1> QED BY <1>1, LimitsAssumption
        DEF IInv, TypeInv, TasksFit, TaskFits, Pending, CommandFits, InOrder, ChildrenOwned, Owns,
            Retired, PublishedIsCurrent, TaskId, ChildId

(* Dropping the handle of the core leaves every child as it is, apart from  *)
(* the wish that it exits.                                                  *)
LEMMA Taken ==
    ASSUME IInv, TakeProcess
    PROVE  /\ process' = None /\ endpoint' = None
           /\ children' \in Seq(Child) /\ KeepsChildren /\ ChildId' = ChildId
           /\ \A c \in ChildId : children'[c].phase = children[c].phase
<1>1. TypeInv /\ children \in Seq(Child) /\ process \in ChildId \cup {None}
  BY DEF IInv, TypeInv
<1>2. process' = None /\ endpoint' = None
  BY DEF TakeProcess
<1>3. CASE process = None
  BY <1>1, <1>2, <1>3 DEF TakeProcess, KeepsChildren, ChildId
<1>4. CASE process \in ChildId
  <2>1. children' = [children EXCEPT ![process].watched = TRUE]
    BY <1>1, <1>4, Ids, NoneAssumption DEF TakeProcess
  <2>2. [children[process] EXCEPT !.watched = TRUE] \in Child
        /\ [children[process] EXCEPT !.watched = TRUE].gen = children[process].gen
        /\ [children[process] EXCEPT !.watched = TRUE].phase = children[process].phase
    BY <1>1, <1>4, ChildParts DEF Child
  <2>3. children' = [children EXCEPT ![process] = [children[process] EXCEPT !.watched = TRUE]]
    BY <2>1
  <2>4. children' \in Seq(Child) /\ Len(children') = Len(children)
        /\ \A c \in ChildId : children'[c] = IF c = process
                                             THEN [children[process] EXCEPT !.watched = TRUE]
                                             ELSE children[c]
    BY <1>1, <1>4, <2>2, <2>3, ExceptSeq DEF ChildId
  <2> QED BY <1>2, <2>2, <2>4 DEF KeepsChildren, ChildId
<1> QED BY <1>1, <1>3, <1>4

LEMMA RestartKeeps ==
    ASSUME IInv, NEW op \in {"restart", "repair"}, Restart(op)
    PROVE  IInv'
<1>1. TypeInv /\ tasks \in Seq(Task) /\ generation \in Nat /\ generation + 1 \in Nat
      /\ generation + 1 >= generation /\ TaskId \subseteq Nat /\ ChildId \subseteq Nat
      /\ process \in ChildId \cup {None} /\ startPromise \in TaskId \cup {None}
      /\ intentionalStop \in BOOLEAN
  BY Ids DEF IInv, TypeInv
<1>2. /\ process' = None /\ endpoint' = None
      /\ children' \in Seq(Child) /\ KeepsChildren /\ ChildId' = ChildId
      /\ \A c \in ChildId : children'[c].phase = children[c].phase
  BY Taken DEF Restart
<1>3. \A t \in TaskId : tasks[t].pc = "health" =>
          /\ children'[tasks[t].child].gen = tasks[t].gen
          /\ children'[tasks[t].child].phase = "pending"
  BY <1>2 DEF IInv, TasksFit, Pending, KeepsChildren
<1>4. CASE process = None /\ op = "restart"
  <2>1. EnsureStarted(tasks, None, generation + 1)
    BY <1>4 DEF Restart
  <2>2. /\ KeepsTasks \/ AddsTask
        /\ tasks' \in Seq(Task) /\ TaskId \subseteq TaskId'
        /\ \A t \in TaskId : tasks'[t] = tasks[t]
        /\ startPromise' \in TaskId' /\ intentionalStop' \in BOOLEAN
        /\ generation' \in Nat /\ generation' >= generation
    BY <1>1, <2>1, EnsureStartedShape
  <2>3. startPromise' \in Nat
    BY <2>2, LenProperties DEF TaskId
  <2>4. /\ command' \in Command /\ command'.pc = "join" /\ command'.join = startPromise'
        /\ command'.victim = None
    BY <1>4, <2>3, NoCommandParts DEF Restart, Command
  <2>5. TypeInv'
    BY <1>1, <1>2, <2>2, <2>4, LimitsAssumption DEF TypeInv, Restart
  <2>6. \A t \in TaskId : (TaskFits(t) /\ Pending(t))'
    BY <1>2, <1>3, <2>2, Unmoved DEF IInv, TasksFit, Pending
  <2>7. CommandFits' /\ Retired' /\ PublishedIsCurrent'
    BY <1>2, <2>2, <2>4 DEF CommandFits, Retired, PublishedIsCurrent
  <2> QED BY <1>2, <2>2, <2>5, <2>6, <2>7, Assemble
<1>5. CASE ~(process = None /\ op = "restart")
  <2>1. /\ generation' = generation + 1 /\ startPromise' = None
        /\ UNCHANGED <<intentionalStop, tasks>>
        /\ command' = [NoCommand EXCEPT !.op = op, !.victim = process,
                          !.pc = IF process = None THEN "verify" ELSE "stopping"]
    BY <1>5 DEF Restart
  <2>2. KeepsTasks /\ TaskId' = TaskId
    BY <1>1, <2>1 DEF KeepsTasks, SameOwners, TaskId
  <2>3. /\ command' \in Command /\ command'.victim = process /\ command'.op = op
        /\ command'.pc = IF process = None THEN "verify" ELSE "stopping"
    BY <1>1, <2>1, NoCommandParts DEF Command
  <2>4. TypeInv'
    BY <1>1, <1>2, <2>1, <2>2, <2>3, LimitsAssumption DEF TypeInv, Restart
  <2>5. \A t \in TaskId : (TaskFits(t) /\ Pending(t))'
    BY <1>1, <1>2, <1>3, <2>1, <2>2, Unmoved DEF IInv, TasksFit, Pending
  <2>6. CommandFits'
    BY <1>1, <1>2, <2>3 DEF CommandFits
  <2>7. \A t \in TaskId : tasks[t].gen < generation + 1
    BY <1>1, TaskParts DEF IInv, TasksFit, TaskFits
  <2>8. Retired' /\ PublishedIsCurrent'
    BY <1>2, <2>1, <2>2, <2>7 DEF Retired, PublishedIsCurrent
  <2> QED BY <1>2, <2>2, <2>4, <2>5, <2>6, <2>8, Assemble
<1> QED BY <1>4, <1>5

LEMMA StopKeeps == ASSUME IInv, Stop PROVE IInv'
<1>1. TypeInv /\ generation \in Nat /\ ChildId \subseteq Nat
      /\ process \in ChildId \cup {None} /\ startPromise \in TaskId \cup {None}
  BY Ids DEF IInv, TypeInv
<1>2. /\ process' = None /\ endpoint' = None
      /\ children' \in Seq(Child) /\ KeepsChildren /\ ChildId' = ChildId
      /\ \A c \in ChildId : children'[c].phase = children[c].phase
  BY Taken DEF Stop
<1>3. /\ intentionalStop' = TRUE /\ generation' = generation + 1
      /\ UNCHANGED <<restartAttempt, stableTimer, tasks, crashes>>
      /\ startPromise' \in TaskId \cup {None} /\ command.pc = "idle"
  BY <1>1 DEF Stop, StartCommand
<1>4. KeepsTasks /\ TaskId' = TaskId
  BY <1>1, <1>3 DEF KeepsTasks, SameOwners, TaskId
<1>5. \/ command' = command
      \/ /\ process # None /\ command' \in Command /\ command'.victim = process
         /\ command'.op = "stop" /\ command'.pc = "stopping"
  <2>1. CASE process = None
    BY <2>1 DEF Stop
  <2>2. CASE process # None
    <3>1. command' = [NoCommand EXCEPT !.op = "stop", !.pc = "stopping", !.victim = process]
      BY <2>2 DEF Stop
    <3> QED BY <1>1, <2>2, <3>1, NoCommandParts DEF Command
  <2> QED BY <2>1, <2>2
<1>6. TypeInv'
  BY <1>1, <1>2, <1>3, <1>4, <1>5 DEF IInv, TypeInv
<1>7. \A t \in TaskId : (TaskFits(t) /\ Pending(t))'
  <2>1. generation' \in Nat /\ generation' >= generation
    BY <1>1, <1>3
  <2>2. \A t \in TaskId : tasks[t].pc = "health" =>
            /\ children'[tasks[t].child].gen = children[tasks[t].child].gen
            /\ children'[tasks[t].child].phase = children[tasks[t].child].phase
    BY <1>2 DEF IInv, TasksFit, Pending, KeepsChildren
  <2> QED BY <1>2, <1>3, <1>4, <2>1, <2>2, Unmoved
<1>8. CommandFits'
  BY <1>1, <1>2, <1>3, <1>4, <1>5 DEF IInv, CommandFits
<1>9. \A t \in TaskId : tasks[t].gen < generation + 1
  BY <1>1, TaskParts DEF IInv, TasksFit, TaskFits
<1>10. Retired' /\ PublishedIsCurrent'
  BY <1>2, <1>3, <1>4, <1>9 DEF Retired, PublishedIsCurrent
<1> QED BY <1>2, <1>4, <1>6, <1>7, <1>8, <1>10, Assemble

(* Between a stop and the startup after it, nothing is published.           *)
LEMMA RetiredPublishesNothing ==
    ASSUME IInv, command.pc \in {"stopping", "verify"}
    PROVE  endpoint = None
<1> SUFFICES ASSUME endpoint # None PROVE FALSE
  OBVIOUS
<1>1. endpoint \in ChildId /\ children[endpoint].gen = generation
  BY DEF IInv, TypeInv, PublishedIsCurrent
<1>2. PICK t \in TaskId : Owns(t, endpoint)
  BY <1>1 DEF IInv, ChildrenOwned
<1> QED BY <1>1, <1>2, TaskParts DEF Owns, IInv, Retired

(* A command goes on to join a startup.                                     *)
LEMMA Joining ==
    ASSUME IInv, command.pc \in {"stopping", "verify"},
           EnsureStarted(tasks, startPromise, generation),
           command' \in Command, command'.pc = "join", command'.join = startPromise',
           command'.victim \in ChildId \cup {None},
           UNCHANGED <<process, endpoint, restartAttempt, stableTimer, children>>
    PROVE  IInv'
<1>1. TypeInv /\ tasks \in Seq(Task) /\ generation \in Nat /\ generation >= generation
      /\ startPromise \in TaskId \cup {None}
  BY DEF IInv, TypeInv
<1>2. /\ KeepsTasks \/ AddsTask
      /\ tasks' \in Seq(Task) /\ TaskId \subseteq TaskId'
      /\ \A t \in TaskId : tasks'[t] = tasks[t]
      /\ startPromise' \in TaskId' /\ intentionalStop' \in BOOLEAN
      /\ generation' \in Nat /\ generation' >= generation
  BY <1>1, EnsureStartedShape
<1>3. TypeInv'
  BY <1>1, <1>2 DEF TypeInv, ChildId
<1>4. KeepsChildren /\ ChildId' = ChildId
  BY DEF KeepsChildren, ChildId
<1>5. \A t \in TaskId : (TaskFits(t) /\ Pending(t))'
  BY <1>2, <1>4, Unmoved
<1>6. CommandFits' /\ Retired' /\ PublishedIsCurrent'
  BY <1>2, <1>4, RetiredPublishesNothing DEF CommandFits, Retired, PublishedIsCurrent
<1> QED BY <1>2, <1>3, <1>4, <1>5, <1>6, Assemble

(* A command ends or goes on, and leaves the tasks and the core alone.      *)
LEMMA Parting ==
    ASSUME IInv, command' \in Command, command'.pc = "idle" \/
               (command'.pc = "verify" /\ command.pc \in {"stopping", "verify"}),
           command'.victim = None,
           process' \in ChildId \cup {None}, startPromise' \in TaskId \cup {None},
           UNCHANGED <<generation, endpoint, intentionalStop, restartAttempt, stableTimer,
                       tasks, children>>
    PROVE  IInv'
<1>1. TypeInv'
  BY DEF IInv, TypeInv, TaskId, ChildId
<1>2. TasksFit' /\ InOrder' /\ ChildrenOwned' /\ PublishedIsCurrent'
  BY DEF IInv, TasksFit, TaskFits, Pending, InOrder, ChildrenOwned, Owns, PublishedIsCurrent,
         TaskId, ChildId
<1>3. CommandFits' /\ Retired'
  BY DEF IInv, CommandFits, Retired, TaskId, ChildId
<1> QED BY <1>1, <1>2, <1>3 DEF IInv

LEMMA CommandStepKeeps == ASSUME IInv, CommandStep PROVE IInv'
<1>1. TypeInv /\ ChildId \subseteq Nat /\ TaskId \subseteq Nat /\ command \in Command
      /\ process \in ChildId \cup {None} /\ startPromise \in TaskId \cup {None}
      /\ command.victim \in ChildId \cup {None}
  BY Ids DEF IInv, TypeInv, CommandFits
<1>2. ASSUME EnsureStarted(tasks, startPromise, generation) PROVE startPromise' \in Nat
  <2>1. tasks \in Seq(Task) /\ generation \in Nat /\ generation >= generation
    BY <1>1 DEF TypeInv
  <2>2. startPromise' \in TaskId'
    BY <1>1, <1>2, <2>1, EnsureStartedShape
  <2>3. tasks' \in Seq(Task)
    BY <1>1, <1>2, <2>1, EnsureStartedShape
  <2> QED BY <2>2, <2>3, LenProperties DEF TaskId
<1>3. CASE CommandStopped
  <2>1. command.pc = "stopping"
        /\ UNCHANGED <<process, endpoint, restartAttempt, stableTimer, children>>
    BY <1>3 DEF CommandStopped
  <2>2. command.op \in {"stop", "repair", "restart"}
    BY <2>1 DEF IInv, CommandFits
  <2>3. CASE command.op = "stop"
    <3>1. startPromise' = None /\ command' = NoCommand
          /\ UNCHANGED <<generation, intentionalStop, tasks>>
      BY <1>3, <2>3 DEF CommandStopped
    <3> QED BY <1>1, <2>1, <3>1, NoCommandParts, Parting
  <2>4. CASE command.op = "repair"
    <3>1. command' = [command EXCEPT !.pc = "verify", !.victim = None]
          /\ UNCHANGED <<generation, startPromise, intentionalStop, tasks>>
      BY <1>3, <2>4 DEF CommandStopped
    <3>2. command' \in Command /\ command'.pc = "verify" /\ command'.victim = None
      BY <1>1, <3>1 DEF Command
    <3> QED BY <1>1, <2>1, <3>1, <3>2, Parting
  <2>5. CASE command.op = "restart"
    <3>1. EnsureStarted(tasks, startPromise, generation)
          /\ command' = [NoCommand EXCEPT !.op = "restart", !.pc = "join",
                                          !.join = startPromise']
      BY <1>3, <2>5 DEF CommandStopped
    <3>2. command' \in Command /\ command'.pc = "join" /\ command'.join = startPromise'
          /\ command'.victim = None
      BY <1>2, <3>1, NoCommandParts DEF Command
    <3> QED BY <2>1, <3>1, <3>2, Joining
  <2> QED BY <2>2, <2>3, <2>4, <2>5
<1>4. CASE CommandNotStopped
  <2>1. /\ process' = command.victim /\ command' = NoCommand
        /\ startPromise' \in {None, startPromise}
        /\ UNCHANGED <<generation, endpoint, intentionalStop, restartAttempt, stableTimer,
                       tasks, children>>
    BY <1>4 DEF CommandNotStopped
  <2> QED BY <1>1, <2>1, NoCommandParts, Parting
<1>5. CASE RepairVerified
  <2>1. command.pc = "verify"
        /\ UNCHANGED <<process, endpoint, restartAttempt, stableTimer, children>>
    BY <1>5 DEF RepairVerified
  <2>2. CASE /\ EnsureStarted(tasks, startPromise, generation)
             /\ command' = [command EXCEPT !.pc = "join", !.join = startPromise']
    <3>1. command' \in Command /\ command'.pc = "join" /\ command'.join = startPromise'
          /\ command'.victim = command.victim
      BY <1>1, <1>2, <2>2 DEF Command
    <3> QED BY <1>1, <2>1, <2>2, <3>1, Joining
  <2>3. CASE command' = NoCommand /\ UNCHANGED <<generation, startPromise, intentionalStop, tasks>>
    BY <1>1, <2>1, <2>3, NoCommandParts, Parting
  <2> QED BY <1>5, <2>2, <2>3 DEF RepairVerified
<1>6. CASE CommandJoined
  <2>1. command' = NoCommand /\ UNCHANGED <<supervisorVars, tasks, children>>
    BY <1>6 DEF CommandJoined
  <2> QED BY <1>1, <2>1, NoCommandParts, Parting DEF supervisorVars
<1> QED BY <1>3, <1>4, <1>5, <1>6 DEF CommandStep

-----------------------------------------------------------------------------
(* Startups and recoveries.                                                 *)

(* A step of one task that keeps its generation.                            *)
LEMMA Moved ==
    ASSUME IInv, NEW s \in TaskId, NEW r \in Task, r.kind = tasks[s].kind, r.gen = tasks[s].gen,
           tasks' = [tasks EXCEPT ![s] = r]
    PROVE  /\ tasks' \in Seq(Task) /\ Len(tasks') = Len(tasks) /\ TaskId' = TaskId
           /\ tasks'[s] = r /\ \A t \in TaskId : t # s => tasks'[t] = tasks[t]
           /\ SameOwners
<1>1. tasks \in Seq(Task)
  BY DEF IInv, TypeInv
<1>2. /\ tasks' \in Seq(Task) /\ Len(tasks') = Len(tasks)
      /\ \A t \in 1..Len(tasks) : tasks'[t] = IF t = s THEN r ELSE tasks[t]
  BY <1>1, ExceptSeq DEF TaskId
<1> QED BY <1>2 DEF SameOwners, TaskId

(* A task moves and the core, its children and its generation stay.         *)
LEMMA QuietMove ==
    ASSUME IInv, NEW s \in TaskId, NEW r \in Task, r.kind = tasks[s].kind, r.gen = tasks[s].gen,
           tasks' = [tasks EXCEPT ![s] = r], (TaskFits(s) /\ Pending(s))',
           startPromise' \in TaskId \cup {None}, process' \in ChildId \cup {None},
           UNCHANGED <<generation, endpoint, intentionalStop, restartAttempt, stableTimer,
                       children, command>>
    PROVE  IInv'
<1>1. /\ tasks' \in Seq(Task) /\ Len(tasks') = Len(tasks) /\ TaskId' = TaskId
      /\ \A t \in TaskId : t # s => tasks'[t] = tasks[t]
      /\ SameOwners
  BY Moved
<1>2. TypeInv'
  BY <1>1 DEF IInv, TypeInv, ChildId
<1>3. generation' >= generation /\ generation' \in Nat
  BY DEF IInv, TypeInv
<1>4. KeepsTasks /\ KeepsChildren /\ ChildId' = ChildId
  BY <1>1, <1>3 DEF KeepsTasks, KeepsChildren, ChildId
<1>5. \A t \in TaskId : (TaskFits(t) /\ Pending(t))'
  BY <1>1, <1>3, <1>4, Unmoved
<1>6. CommandFits' /\ Retired' /\ PublishedIsCurrent'
  BY <1>1 DEF IInv, CommandFits, Retired, PublishedIsCurrent, SameOwners, ChildId
<1> QED BY <1>2, <1>4, <1>5, <1>6, Assemble

LEMMA Relabelled ==
    ASSUME IInv, NEW s \in TaskId,
           NEW label \in {"verify", "port", "health", "exited", "stopping", "sleep", "join", "done"}
    PROVE  LET r == [tasks[s] EXCEPT !.pc = label]
           IN /\ r \in Task /\ r.kind = tasks[s].kind /\ r.gen = tasks[s].gen /\ r.pc = label
              /\ r.child = tasks[s].child /\ r.victim = tasks[s].victim /\ r.join = tasks[s].join
              /\ r.tries = tasks[s].tries
              /\ Goto(s, label) => tasks' = [tasks EXCEPT ![s] = r]
<1>1. tasks[s] \in Task
  BY TaskParts DEF IInv
<1> QED BY <1>1 DEF Task, Goto

(* The catch: whatever the failing startup did to the children it did to    *)
(* none that waits, and to the published one nothing that takes it away.    *)
LEMMA FailKeeps ==
    ASSUME IInv, NEW s \in TaskId, tasks[s].kind = "startup", NEW cs \in Seq(Child),
           Len(cs) = Len(children),
           \A c \in ChildId : /\ cs[c].gen = children[c].gen
                              /\ cs[c].alive = children[c].alive
                              /\ cs[c].phase = children[c].phase
                                 \/ (tasks[s].pc = "health" /\ c = tasks[s].child),
           tasks[s].pc \in {"verify", "health", "exited"},
           Fail(s, cs), UNCHANGED <<intentionalStop, restartAttempt, command>>
    PROVE  IInv'
<1>1. /\ TypeInv /\ TaskId \subseteq Nat /\ ChildId \subseteq Nat /\ generation \in Nat
      /\ process \in ChildId \cup {None} /\ startPromise \in TaskId \cup {None}
      /\ TaskFits(s) /\ Pending(s) /\ NoneAssumption
  BY Ids, NoneAssumption DEF IInv, TypeInv, TasksFit
<1>2. ChildId = 1..Len(cs)
  BY DEF ChildId
\* No other startup waits for the child of this one.
<1>3. \A t \in TaskId : t # s /\ tasks[t].pc = "health" =>
          /\ tasks[t].child \in ChildId /\ cs[tasks[t].child].gen = tasks[t].gen
          /\ cs[tasks[t].child].phase = "pending"
  <2> SUFFICES ASSUME NEW t \in TaskId, t # s, tasks[t].pc = "health"
               PROVE  /\ tasks[t].child \in ChildId /\ cs[tasks[t].child].gen = tasks[t].gen
                      /\ cs[tasks[t].child].phase = "pending"
    OBVIOUS
  <2>1. /\ tasks[t].child \in ChildId /\ children[tasks[t].child].gen = tasks[t].gen
        /\ children[tasks[t].child].phase = "pending"
    BY DEF IInv, TasksFit, Pending
  <2>2. CASE tasks[s].pc = "health" /\ tasks[s].child = tasks[t].child
    <3>1. tasks[s].gen = tasks[t].gen
      BY <1>1, <2>1, <2>2 DEF Pending
    <3> QED BY <3>1, SameTask
  <2>3. CASE ~(tasks[s].pc = "health" /\ tasks[s].child = tasks[t].child)
    BY <2>1, <2>3
  <2> QED BY <2>2, <2>3
<1>4. CASE startPromise # s
  <2> DEFINE r == [tasks[s] EXCEPT !.pc = "done"]
  <2>1. /\ Goto(s, "done") /\ children' = cs
        /\ UNCHANGED <<generation, process, endpoint, startPromise, stableTimer>>
    BY <1>4 DEF Fail
  <2>2. /\ r \in Task /\ r.kind = tasks[s].kind /\ r.gen = tasks[s].gen /\ r.pc = "done"
        /\ r.child = tasks[s].child /\ r.victim = tasks[s].victim /\ r.join = tasks[s].join
        /\ r.tries = tasks[s].tries /\ tasks' = [tasks EXCEPT ![s] = r]
    BY <2>1, Relabelled
  <2>3. /\ tasks' \in Seq(Task) /\ Len(tasks') = Len(tasks) /\ TaskId' = TaskId
        /\ tasks'[s] = r /\ \A t \in TaskId : t # s => tasks'[t] = tasks[t]
        /\ SameOwners
    BY <2>2, Moved
  <2>4. ChildId' = ChildId /\ KeepsChildren /\ KeepsTasks /\ generation' >= generation
    BY <1>1, <2>1, <2>3 DEF ChildId, KeepsChildren, KeepsTasks
  <2>5. TypeInv'
    BY <2>1, <2>3, <2>4 DEF IInv, TypeInv
  <2>6. \A t \in TaskId : t # s => (TaskFits(t) /\ Pending(t))'
    BY <1>1, <1>3, <2>1, <2>3, <2>4, Unmoved DEF IInv, TasksFit, Pending
  <2>7. (TaskFits(s) /\ Pending(s))'
    BY <1>1, <2>1, <2>2, <2>3, <2>4 DEF TaskFits, Pending
  <2>8. CommandFits' /\ Retired'
    BY <2>1, <2>3, <2>4 DEF IInv, CommandFits, Retired, SameOwners
  <2>9. PublishedIsCurrent'
    <3> SUFFICES ASSUME endpoint # None
                 PROVE  cs[endpoint].alive /\ cs[endpoint].phase = "ready"
                        /\ cs[endpoint].gen = generation
      BY <2>1 DEF PublishedIsCurrent
    <3>1. endpoint \in ChildId /\ children[endpoint].alive /\ children[endpoint].phase = "ready"
          /\ children[endpoint].gen = generation
      BY DEF IInv, TypeInv, PublishedIsCurrent
    <3>2. ~(tasks[s].pc = "health" /\ endpoint = tasks[s].child)
      BY <1>1, <3>1 DEF Pending
    <3> QED BY <3>1, <3>2
  <2> QED BY <2>3, <2>4, <2>5, <2>6, <2>7, <2>8, <2>9, Assemble
<1>5. CASE startPromise = s
  <2>1. /\ stableTimer' = None /\ generation' = generation + 1
        /\ process' = None /\ endpoint' = None
    BY <1>5 DEF Fail
  <2>2. /\ children' \in Seq(Child) /\ Len(children') = Len(cs)
        /\ \A c \in ChildId : children'[c].gen = cs[c].gen /\ children'[c].phase = cs[c].phase
    <3>1. CASE process = None
      BY <1>5, <3>1 DEF Fail
    <3>2. CASE process \in ChildId
      <4> DEFINE k == [cs[process] EXCEPT !.watched = TRUE]
      <4>1. children' = [cs EXCEPT ![process] = k]
        BY <1>1, <1>5, <3>2 DEF Fail
      <4>2. cs[process] \in Child
        BY <1>2, <3>2, ElementOfSeq
      <4>3. k \in Child /\ k.gen = cs[process].gen /\ k.phase = cs[process].phase
        BY <4>2 DEF Child
      <4>4. /\ children' \in Seq(Child) /\ Len(children') = Len(cs)
            /\ \A c \in ChildId : children'[c] = IF c = process THEN k ELSE cs[c]
        BY <1>2, <3>2, <4>1, <4>3, ExceptSeq
      <4> QED BY <4>3, <4>4
    <3> QED BY <1>1, <3>1, <3>2
  <2>3. PICK r \in Task :
           /\ r.kind = tasks[s].kind /\ r.gen = tasks[s].gen /\ r.pc \in {"done", "stopping"}
           /\ r.child = tasks[s].child /\ r.join = tasks[s].join /\ r.tries = tasks[s].tries
           /\ r.victim \in ChildId \cup {None} /\ (r.pc = "stopping" => r.victim # None)
           /\ tasks' = [tasks EXCEPT ![s] = r] /\ startPromise' \in {None, s}
    <3>1. CASE process = None
      <4>1. Goto(s, "done") /\ startPromise' = None
        BY <1>5, <3>1 DEF Fail
      <4> QED BY <1>1, <4>1, Relabelled DEF TaskFits
    <3>2. CASE process # None
      <4> DEFINE r == [tasks[s] EXCEPT !.pc = "stopping", !.victim = process]
      <4>1. tasks' = [tasks EXCEPT ![s] = r] /\ startPromise' = s
        BY <1>5, <3>2 DEF Fail
      <4>2. tasks[s] \in Task /\ process \in Nat
        BY <1>1, <3>2, TaskParts
      <4>3. /\ r \in Task /\ r.kind = tasks[s].kind /\ r.gen = tasks[s].gen
            /\ r.pc = "stopping" /\ r.child = tasks[s].child /\ r.join = tasks[s].join
            /\ r.tries = tasks[s].tries /\ r.victim = process
        BY <4>2 DEF Task
      <4> QED BY <1>1, <3>2, <4>1, <4>3
    <3> QED BY <3>1, <3>2
  <2>4. /\ tasks' \in Seq(Task) /\ Len(tasks') = Len(tasks) /\ TaskId' = TaskId
        /\ tasks'[s] = r /\ \A t \in TaskId : t # s => tasks'[t] = tasks[t]
        /\ SameOwners
    BY <2>3, Moved
  <2>5. generation' >= generation /\ generation' \in Nat
    BY <1>1, <2>1
  <2>6. ChildId' = ChildId /\ KeepsChildren /\ KeepsTasks
    BY <2>2, <2>4, <2>5 DEF ChildId, KeepsChildren, KeepsTasks
  <2>7. TypeInv'
    BY <1>1, <2>1, <2>2, <2>3, <2>4, <2>5, <2>6 DEF IInv, TypeInv
  <2>8. \A t \in TaskId : t # s => (TaskFits(t) /\ Pending(t))'
    BY <1>3, <2>2, <2>4, <2>5, <2>6, Unmoved DEF IInv, TasksFit, Pending
  <2>9. (TaskFits(s) /\ Pending(s))'
    <3>1. tasks[s].gen \in Nat
      BY <1>1, TaskParts
    <3> QED BY <1>1, <2>1, <2>3, <2>4, <2>6, <3>1 DEF TaskFits, Pending
  <2>10. CommandFits' /\ PublishedIsCurrent'
    BY <2>1, <2>4, <2>6 DEF IInv, CommandFits, PublishedIsCurrent
  <2>11. Retired'
    BY <1>1, <2>1, <2>4, TaskParts DEF IInv, Retired, SameOwners
  <2> QED BY <2>4, <2>6, <2>7, <2>8, <2>9, <2>10, <2>11, Assemble
<1> QED BY <1>4, <1>5

LEMMA Launched ==
    ASSUME NEW old \in Task, NEW n \in Nat
    PROVE  LET r == [old EXCEPT !.pc = "health", !.child = n, !.tries = old.tries + 1]
           IN /\ r \in Task /\ r.kind = old.kind /\ r.gen = old.gen /\ r.pc = "health"
              /\ r.child = n /\ r.tries = old.tries + 1 /\ r.join = old.join
              /\ r.victim = old.victim
<1>1. old.tries + 1 \in Nat
  BY DEF Task
<1> QED BY <1>1 DEF Task

LEMMA LaunchKeeps == ASSUME IInv, NEW s \in TaskId, Launch(s) PROVE IInv'
<1> DEFINE k == [alive |-> TRUE, phase |-> "pending", gen |-> tasks[s].gen, watched |-> FALSE]
           n == Len(children) + 1
           r == [tasks[s] EXCEPT !.pc = "health", !.child = n, !.tries = tasks[s].tries + 1]
<1>1. /\ TypeInv /\ TaskFits(s) /\ tasks[s] \in Task /\ tasks[s].gen \in Nat
      /\ tasks[s].tries \in Nat /\ generation \in Nat /\ n \in Nat
      /\ children \in Seq(Child) /\ TaskId \subseteq Nat
  BY TaskParts, LenProperties, Ids DEF IInv, TypeInv, TasksFit
<1>2. /\ tasks[s].pc = "port" /\ children' = Append(children, k) /\ process' = n
      /\ tasks' = [tasks EXCEPT ![s] = r]
      /\ UNCHANGED <<generation, endpoint, startPromise, intentionalStop, restartAttempt,
                     stableTimer, command>>
  BY DEF Launch
<1>3. k \in Child /\ k.gen = tasks[s].gen /\ k.phase = "pending"
  BY <1>1 DEF Child
<1>4. /\ children' \in Seq(Child) /\ Len(children') = n /\ children'[n] = k
      /\ \A c \in 1..Len(children) : children'[c] = children[c]
  BY <1>1, <1>2, <1>3, AppendProperties
<1>5. /\ ChildId \subseteq ChildId' /\ n \in ChildId' /\ ChildId' = ChildId \cup {n}
      /\ \A c \in ChildId : children'[c] = children[c]
  BY <1>1, <1>4 DEF ChildId
<1>6. /\ r \in Task /\ r.kind = tasks[s].kind /\ r.gen = tasks[s].gen /\ r.pc = "health"
      /\ r.child = n /\ r.tries = tasks[s].tries + 1 /\ r.join = tasks[s].join
      /\ r.victim = tasks[s].victim
  BY <1>1, Launched
<1>7. /\ tasks' \in Seq(Task) /\ Len(tasks') = Len(tasks) /\ TaskId' = TaskId
      /\ tasks'[s] = r /\ \A t \in TaskId : t # s => tasks'[t] = tasks[t]
      /\ SameOwners
  BY <1>2, <1>6, Moved
<1>8. KeepsTasks
  BY <1>1, <1>2, <1>7 DEF KeepsTasks
<1>9. TypeInv'
  BY <1>2, <1>4, <1>5, <1>7 DEF IInv, TypeInv
<1>10. \A t \in TaskId : t # s => (TaskFits(t) /\ Pending(t))'
  <2> SUFFICES ASSUME NEW t \in TaskId, t # s PROVE (TaskFits(t) /\ Pending(t))'
    OBVIOUS
  <2>1. tasks[t].pc = "health" => tasks[t].child \in ChildId
    BY DEF IInv, TasksFit, Pending
  <2>2. generation' \in Nat /\ generation' >= generation
    BY <1>1, <1>2
  <2> QED BY <1>5, <1>7, <2>1, <2>2, Unmoved
<1>11. (TaskFits(s) /\ Pending(s))'
  <2>1. tasks[s].tries + 1 <= BindLimit
    BY <1>1, <1>2, LimitsAssumption DEF TaskFits
  <2>2. Pending(s)'
    BY <1>3, <1>4, <1>5, <1>6, <1>7 DEF Pending
  <2> QED BY <1>1, <1>2, <1>5, <1>6, <1>7, <2>1, <2>2 DEF TaskFits
<1>12. ChildrenOwned'
  <2> SUFFICES ASSUME NEW c \in ChildId'
               PROVE  \E t \in TaskId : tasks'[t].kind = "startup"
                                        /\ tasks'[t].gen = children'[c].gen
    BY <1>7 DEF ChildrenOwned, Owns
  <2>1. CASE c \in ChildId
    <3>1. PICK t \in TaskId : Owns(t, c)
      BY <2>1 DEF IInv, ChildrenOwned
    <3> QED BY <1>5, <1>7, <2>1, <3>1 DEF Owns, SameOwners
  <2>2. CASE c = n
    <3>1. tasks[s].kind = "startup"
      BY <1>1, <1>2, TaskParts DEF TaskFits
    <3> QED BY <1>3, <1>4, <1>6, <1>7, <2>2, <3>1
  <2> QED BY <1>5, <2>1, <2>2
<1>13. CommandFits' /\ Retired'
  BY <1>2, <1>5, <1>7 DEF IInv, CommandFits, Retired, SameOwners
<1>14. PublishedIsCurrent'
  BY <1>2, <1>5 DEF IInv, TypeInv, PublishedIsCurrent
<1> QED BY <1>8, <1>9, <1>10, <1>11, <1>12, <1>13, <1>14, AssembleOwned

LEMMA PublishKeeps ==
    ASSUME IInv, NEW s \in TaskId, tasks[s].pc = "health", children[tasks[s].child].alive,
           tasks[s].gen = generation, endpoint' = tasks[s].child, stableTimer' = generation,
           children' = [children EXCEPT ![tasks[s].child].phase = "ready"], Goto(s, "done"),
           UNCHANGED <<generation, process, startPromise, intentionalStop, restartAttempt, command>>
    PROVE  IInv'
<1> DEFINE c == tasks[s].child
           k == [children[c] EXCEPT !.phase = "ready"]
           r == [tasks[s] EXCEPT !.pc = "done"]
<1>1. /\ TypeInv /\ TaskFits(s) /\ Pending(s) /\ c \in ChildId /\ children[c] \in Child
      /\ children[c].gen = tasks[s].gen /\ children \in Seq(Child) /\ generation \in Nat
  BY ChildParts DEF IInv, TypeInv, TasksFit, Pending
<1>2. k \in Child /\ k.gen = tasks[s].gen /\ k.phase = "ready" /\ k.alive
  BY <1>1 DEF Child
<1>3. children' = [children EXCEPT ![c] = k]
  OBVIOUS
<1>4. /\ children' \in Seq(Child) /\ Len(children') = Len(children) /\ ChildId' = ChildId
      /\ \A d \in ChildId : children'[d] = IF d = c THEN k ELSE children[d]
  BY <1>1, <1>2, <1>3, ExceptSeq DEF ChildId
<1>5. /\ r \in Task /\ r.kind = tasks[s].kind /\ r.gen = tasks[s].gen /\ r.pc = "done"
      /\ r.child = tasks[s].child /\ r.victim = tasks[s].victim /\ r.join = tasks[s].join
      /\ r.tries = tasks[s].tries /\ tasks' = [tasks EXCEPT ![s] = r]
  BY Relabelled
<1>6. /\ tasks' \in Seq(Task) /\ Len(tasks') = Len(tasks) /\ TaskId' = TaskId
      /\ tasks'[s] = r /\ \A t \in TaskId : t # s => tasks'[t] = tasks[t]
      /\ SameOwners
  BY <1>5, Moved
<1>7. KeepsTasks /\ KeepsChildren
  BY <1>1, <1>2, <1>4, <1>6 DEF KeepsTasks, KeepsChildren
<1>8. TypeInv'
  BY <1>1, <1>4, <1>6 DEF TypeInv
<1>9. \A t \in TaskId : t # s => (TaskFits(t) /\ Pending(t))'
  <2> SUFFICES ASSUME NEW t \in TaskId, t # s PROVE (TaskFits(t) /\ Pending(t))'
    OBVIOUS
  <2>1. tasks[t].pc = "health" => tasks[t].child \in ChildId /\ tasks[t].child # c
    <3> SUFFICES ASSUME tasks[t].pc = "health"
                 PROVE  tasks[t].child \in ChildId /\ tasks[t].child # c
      OBVIOUS
    <3>1. tasks[t].child \in ChildId /\ children[tasks[t].child].gen = tasks[t].gen
      BY DEF IInv, TasksFit, Pending
    <3> QED BY <1>1, <3>1, SameTask
  <2>2. generation' \in Nat /\ generation' >= generation
    BY <1>1
  <2> QED BY <1>4, <1>6, <2>1, <2>2, Unmoved
<1>10. (TaskFits(s) /\ Pending(s))'
  BY <1>1, <1>4, <1>5, <1>6 DEF TaskFits, Pending
<1>11. CommandFits' /\ Retired'
  BY <1>4, <1>6 DEF IInv, CommandFits, Retired, SameOwners
<1>12. PublishedIsCurrent'
  BY <1>1, <1>2, <1>4 DEF PublishedIsCurrent
<1> QED BY <1>7, <1>8, <1>9, <1>10, <1>11, <1>12, Assemble

LEMMA StartupStepKeeps == ASSUME IInv, NEW s \in TaskId, StartupStep(s) PROVE IInv'
<1>1. /\ TypeInv /\ TaskFits(s) /\ Pending(s) /\ children \in Seq(Child)
      /\ tasks[s].kind \in {"startup", "recovery"} /\ tasks[s].tries \in Nat
      /\ process \in ChildId \cup {None} /\ startPromise \in TaskId \cup {None}
      /\ generation \in Nat
  BY TaskParts DEF IInv, TypeInv, TasksFit
<1>2. tasks[s].pc \in {"verify", "port", "health", "exited", "stopping"} =>
          tasks[s].kind = "startup"
  BY <1>1 DEF TaskFits
\* A startup goes on to look for a port, or ends.
<1>3. ASSUME NEW label \in {"port", "done"}, Goto(s, label),
             label = "port" => tasks[s].tries < BindLimit /\ tasks[s].kind = "startup",
             startPromise' \in TaskId \cup {None}, process' \in ChildId \cup {None},
             UNCHANGED <<generation, endpoint, intentionalStop, restartAttempt, stableTimer,
                         children, command>>
      PROVE  IInv'
  <2> DEFINE r == [tasks[s] EXCEPT !.pc = label]
  <2>1. /\ r \in Task /\ r.kind = tasks[s].kind /\ r.gen = tasks[s].gen /\ r.pc = label
        /\ r.child = tasks[s].child /\ r.victim = tasks[s].victim /\ r.join = tasks[s].join
        /\ r.tries = tasks[s].tries /\ tasks' = [tasks EXCEPT ![s] = r]
    <3>1. tasks[s] \in Task
      BY <1>1, TaskParts
    <3>2. r \in Task /\ r.kind = tasks[s].kind /\ r.gen = tasks[s].gen /\ r.pc = label
          /\ r.child = tasks[s].child /\ r.victim = tasks[s].victim
          /\ r.join = tasks[s].join /\ r.tries = tasks[s].tries
      BY <1>3, <3>1 DEF Task
    <3>3. tasks' = [tasks EXCEPT ![s] = r]
      BY <1>3 DEF Goto
    <3> QED BY <3>2, <3>3
  <2>2. TaskId' = TaskId /\ tasks'[s] = r
    BY <2>1, Moved
  <2>3. ChildId' = ChildId
    BY <1>3 DEF ChildId
  <2>4. (TaskFits(s) /\ Pending(s))'
    BY <1>1, <1>3, <2>1, <2>2, <2>3 DEF TaskFits, Pending
  <2> QED BY <1>3, <2>1, <2>4, QuietMove
\* A startup fails and leaves the children as they are.
<1>4. ASSUME tasks[s].pc \in {"verify", "exited"}, Fail(s, children),
             UNCHANGED <<intentionalStop, restartAttempt, command>>
      PROVE  IInv'
  BY <1>1, <1>2, <1>4, FailKeeps
\* A startup fails and its child has a new phase.
<1>5. ASSUME tasks[s].pc = "health", NEW phase \in {"ready", "disposed"},
             Fail(s, [children EXCEPT ![tasks[s].child].phase = phase]),
             UNCHANGED <<intentionalStop, restartAttempt, command>>
      PROVE  IInv'
  <2> DEFINE c == tasks[s].child
             k == [children[c] EXCEPT !.phase = phase]
             cs == [children EXCEPT ![c].phase = phase]
  <2>1. c \in ChildId /\ children[c] \in Child
    BY <1>1, <1>5, ChildParts DEF Pending
  <2>2. k \in Child /\ k.gen = children[c].gen /\ k.alive = children[c].alive
    BY <2>1 DEF Child
  <2>3. cs = [children EXCEPT ![c] = k]
    OBVIOUS
  <2>4. /\ cs \in Seq(Child) /\ Len(cs) = Len(children)
        /\ \A d \in ChildId : cs[d] = IF d = c THEN k ELSE children[d]
    BY <1>1, <2>1, <2>2, <2>3, ExceptSeq DEF ChildId
  <2>5. \A d \in ChildId : /\ cs[d].gen = children[d].gen /\ cs[d].alive = children[d].alive
                           /\ cs[d].phase = children[d].phase
                              \/ (tasks[s].pc = "health" /\ d = tasks[s].child)
    BY <1>5, <2>2, <2>4
  <2>6. Fail(s, cs)
    BY <1>5
  <2> HIDE DEF cs
  <2> QED BY <1>2, <1>5, <2>4, <2>5, <2>6, FailKeeps
<1>6. CASE Verified(s)
  <2>1. tasks[s].pc = "verify" /\ tasks[s].tries = 0 /\ BindLimit \in Nat \ {0}
    BY <1>1, <1>6, LimitsAssumption DEF Verified, TaskFits
  <2> QED BY <1>1, <1>2, <1>3, <1>4, <1>6, <2>1 DEF Verified
<1>7. CASE Launch(s)
  BY <1>7, LaunchKeeps
<1>8. CASE Healthy(s)
  BY <1>5, <1>8, PublishKeeps DEF Healthy
<1>9. CASE Unhealthy(s)
  BY <1>5, <1>9 DEF Unhealthy
<1>10. CASE ExitedEarly(s)
  BY <1>1, <1>2, <1>3, <1>4, <1>10 DEF ExitedEarly
<1>11. CASE CatchStopped(s)
  <2>1. tasks[s].victim \in ChildId
    BY <1>1, <1>11 DEF CatchStopped, TaskFits
  <2> QED BY <1>1, <1>3, <1>11, <2>1 DEF CatchStopped
<1> QED BY <1>6, <1>7, <1>8, <1>9, <1>10, <1>11 DEF StartupStep

(* No child belongs to the generation of a recovery.                        *)
LEMMA RecoveryPublishesNothing ==
    ASSUME IInv, NEW r \in TaskId, tasks[r].pc = "sleep", tasks[r].gen = generation
    PROVE  endpoint = None
<1> SUFFICES ASSUME endpoint # None PROVE FALSE
  OBVIOUS
<1>1. endpoint \in ChildId /\ children[endpoint].gen = generation
  BY DEF IInv, TypeInv, PublishedIsCurrent
<1>2. PICK t \in TaskId : Owns(t, endpoint)
  BY <1>1 DEF IInv, ChildrenOwned
<1>3. t = r
  BY <1>1, <1>2, SameTask DEF Owns
<1>4. tasks[r].kind = "recovery"
  BY DEF IInv, TasksFit, TaskFits
<1> QED BY <1>2, <1>3, <1>4 DEF Owns

LEMMA WakeKeeps == ASSUME IInv, NEW r \in TaskId, Wake(r) PROVE IInv'
<1> DEFINE promise == IF startPromise = r THEN None ELSE startPromise
           joined == IF promise = None THEN Len(tasks) + 1 ELSE promise
           w == [tasks[r] EXCEPT !.pc = "join", !.join = joined]
           ts == [tasks EXCEPT ![r] = w]
<1>1. /\ TypeInv /\ TaskFits(r) /\ Pending(r) /\ tasks[r] \in Task /\ tasks \in Seq(Task)
      /\ TaskId \subseteq Nat /\ generation \in Nat /\ generation >= generation
      /\ promise \in TaskId \cup {None} /\ joined \in Nat /\ tasks[r].pc = "sleep"
      /\ startPromise \in TaskId \cup {None} /\ process \in ChildId \cup {None}
      /\ tasks[r].gen \in Nat /\ Len(tasks) \in Nat
  BY TaskParts, Ids, LenProperties DEF IInv, TypeInv, TasksFit, Wake
<1>2. UNCHANGED <<process, endpoint, restartAttempt, stableTimer, children, command>>
  BY DEF Wake
<1>3. CASE tasks[r].gen # generation \/ intentionalStop
  <2> DEFINE d == [tasks[r] EXCEPT !.pc = "done"]
  <2>1. Goto(r, "done") /\ UNCHANGED <<generation, startPromise, intentionalStop>>
    BY <1>3 DEF Wake
  <2>2. /\ d \in Task /\ d.kind = tasks[r].kind /\ d.gen = tasks[r].gen /\ d.pc = "done"
        /\ d.child = tasks[r].child /\ d.victim = tasks[r].victim /\ d.join = tasks[r].join
        /\ d.tries = tasks[r].tries /\ tasks' = [tasks EXCEPT ![r] = d]
    BY <2>1, Relabelled
  <2>3. TaskId' = TaskId /\ tasks'[r] = d
    BY <2>2, Moved
  <2>4. ChildId' = ChildId
    BY <1>2 DEF ChildId
  <2>5. (TaskFits(r) /\ Pending(r))'
    BY <1>1, <2>1, <2>2, <2>3, <2>4 DEF TaskFits, Pending
  <2> QED BY <1>1, <1>2, <2>1, <2>2, <2>5, QuietMove
<1>4. CASE tasks[r].gen = generation /\ ~intentionalStop
  <2>1. w \in Task /\ w.kind = tasks[r].kind /\ w.gen = tasks[r].gen /\ w.pc = "join"
        /\ w.join = joined /\ w.child = tasks[r].child /\ w.victim = tasks[r].victim
        /\ w.tries = tasks[r].tries
    <3> HIDE DEF joined
    <3> QED BY <1>1 DEF Task
  <2>2. EnsureStarted([tasks EXCEPT ![r].pc = "join", ![r].join = joined], promise, generation)
    BY <1>4 DEF Wake
  <2>3. [tasks EXCEPT ![r].pc = "join", ![r].join = joined] = ts
    BY <1>1
  <2>4. EnsureStarted(ts, promise, generation)
    BY <2>2, <2>3
  <2>5. /\ ts \in Seq(Task) /\ Len(ts) = Len(tasks)
        /\ \A t \in TaskId : ts[t] = IF t = r THEN w ELSE tasks[t]
    BY <1>1, <2>1, ExceptSeq DEF TaskId
  <2>6. \A t \in TaskId : ts[t].kind = tasks[t].kind /\ ts[t].gen = tasks[t].gen
    BY <2>1, <2>5
  <2> HIDE DEF ts, promise, w
  <2>7. /\ KeepsTasks \/ AddsTask
        /\ tasks' \in Seq(Task) /\ TaskId \subseteq TaskId'
        /\ \A t \in TaskId : tasks'[t] = ts[t]
        /\ startPromise' \in TaskId' /\ intentionalStop' \in BOOLEAN
        /\ generation' \in Nat /\ generation' >= generation
        /\ promise = None => AddsTask
    BY <1>1, <2>4, <2>5, <2>6, EnsureStartedShape
  <2>8. TypeInv' /\ KeepsChildren /\ ChildId' = ChildId
    BY <1>1, <1>2, <2>7 DEF TypeInv, ChildId, KeepsChildren
  <2>9. joined \in TaskId'
    <3>1. promise = None => Len(tasks) + 1 \in TaskId'
      BY <1>1, <2>7 DEF AddsTask, TaskId
    <3> QED BY <1>1, <2>7, <3>1
  <2>10. \A t \in TaskId : t # r => (TaskFits(t) /\ Pending(t))'
    BY <1>2, <2>5, <2>7, <2>8, Unmoved
  <2>11. (TaskFits(r) /\ Pending(r))'
    <3>1. tasks'[r] = w
      BY <2>5, <2>7
    <3> QED BY <1>1, <2>1, <2>7, <2>8, <2>9, <3>1 DEF TaskFits, Pending
  <2>12. CommandFits'
    BY <1>2, <2>7, <2>8 DEF IInv, CommandFits
  <2>13. Retired'
    BY <1>1, <1>2, <1>4 DEF IInv, Retired
  <2>14. PublishedIsCurrent'
    BY <1>1, <1>2, <1>4, RecoveryPublishesNothing DEF PublishedIsCurrent
  <2> QED BY <2>7, <2>8, <2>10, <2>11, <2>12, <2>13, <2>14, Assemble
<1> QED BY <1>1, <1>3, <1>4 DEF IInv, TypeInv

LEMMA RecoveryStepKeeps == ASSUME IInv, NEW r \in TaskId, RecoveryStep(r) PROVE IInv'
<1>1. CASE Wake(r)
  BY <1>1, WakeKeeps
<1>2. CASE RecoveryJoined(r)
  <2> DEFINE d == [tasks[r] EXCEPT !.pc = "done"]
  <2>1. Goto(r, "done") /\ UNCHANGED <<supervisorVars, children, command>>
    BY <1>2 DEF RecoveryJoined
  <2>2. /\ d \in Task /\ d.kind = tasks[r].kind /\ d.gen = tasks[r].gen /\ d.pc = "done"
        /\ d.child = tasks[r].child /\ d.victim = tasks[r].victim /\ d.join = tasks[r].join
        /\ d.tries = tasks[r].tries /\ tasks' = [tasks EXCEPT ![r] = d]
    BY <2>1, Relabelled
  <2>3. TaskId' = TaskId /\ tasks'[r] = d
    BY <2>2, Moved
  <2>4. /\ UNCHANGED <<generation, process, endpoint, startPromise, intentionalStop,
                       restartAttempt, stableTimer, children, command>>
        /\ ChildId' = ChildId
    BY <2>1 DEF supervisorVars, ChildId
  <2>5. TaskFits(r) /\ process \in ChildId \cup {None} /\ startPromise \in TaskId \cup {None}
    BY DEF IInv, TypeInv, TasksFit
  <2>6. (TaskFits(r) /\ Pending(r))'
    BY <2>2, <2>3, <2>4, <2>5 DEF TaskFits, Pending
  <2> QED BY <2>2, <2>4, <2>5, <2>6, QuietMove
<1> QED BY <1>1, <1>2 DEF RecoveryStep

-----------------------------------------------------------------------------
(* Exits.                                                                   *)

LEMMA ChildExitsKeeps == ASSUME IInv, NEW c \in ChildId, ChildExits(c) PROVE IInv'
<1> DEFINE k == [children[c] EXCEPT !.alive = FALSE,
                                    !.phase = IF children[c].phase = "pending" THEN "disposed"
                                              ELSE children[c].phase]
<1>1. /\ TypeInv /\ children \in Seq(Child) /\ children[c] \in Child /\ generation \in Nat
      /\ tasks \in Seq(Task) /\ Len(tasks) \in Nat /\ TaskId \subseteq Nat
      /\ process \in ChildId \cup {None} /\ startPromise \in TaskId \cup {None}
  BY ChildParts, Ids, LenProperties DEF IInv, TypeInv
<1>2. k \in Child /\ k.gen = children[c].gen
      /\ k.phase = IF children[c].phase = "pending" THEN "disposed" ELSE children[c].phase
  BY <1>1 DEF Child
<1>3. children' = [children EXCEPT ![c] = k]
      /\ UNCHANGED <<intentionalStop, command>>
  BY DEF ChildExits
<1>4. /\ children' \in Seq(Child) /\ Len(children') = Len(children) /\ ChildId' = ChildId
      /\ \A d \in ChildId : children'[d] = IF d = c THEN k ELSE children[d]
  BY <1>1, <1>2, <1>3, ExceptSeq DEF ChildId
<1>5. KeepsChildren
  BY <1>2, <1>4 DEF KeepsChildren
<1>6. CASE children[c].phase = "ready" /\ children[c].gen = generation
  <2>1. /\ generation' = generation + 1 /\ stableTimer' = None
        /\ process' = None /\ endpoint' = None
        /\ \/ startPromise' = None /\ UNCHANGED <<restartAttempt, tasks>>
           \/ /\ restartAttempt < RestartLimit /\ restartAttempt' = restartAttempt + 1
              /\ tasks' = Append(tasks, Recovery(generation + 1))
              /\ startPromise' = Len(tasks) + 1
    BY <1>6, LimitsAssumption DEF ChildExits, HandleExit, IInv, TypeInv
  <2>2. /\ KeepsTasks \/ AddsTask
        /\ tasks' \in Seq(Task) /\ TaskId \subseteq TaskId'
        /\ \A t \in TaskId : tasks'[t] = tasks[t]
        /\ startPromise' \in TaskId' \cup {None}
    <3>1. CASE tasks' = tasks /\ startPromise' = None
      BY <1>1, <2>1, <3>1 DEF KeepsTasks, SameOwners, TaskId
    <3>2. CASE tasks' = Append(tasks, Recovery(generation + 1)) /\ startPromise' = Len(tasks) + 1
      <4>1. generation + 1 \in Nat /\ Fresh(Recovery(generation + 1), generation + 1)
        BY <1>1, FreshRecovery
      <4>2. Recovery(generation + 1) \in Task
        BY <4>1 DEF Fresh
      <4>3. /\ tasks' \in Seq(Task) /\ Len(tasks') = Len(tasks) + 1
            /\ \A t \in 1..Len(tasks) : tasks'[t] = tasks[t]
            /\ tasks'[Len(tasks) + 1] = Recovery(generation + 1)
        BY <1>1, <3>2, <4>2, AppendProperties
      <4>4. AddsTask
        BY <1>1, <2>1, <4>1, <4>3 DEF AddsTask, SameOwners, TaskId
      <4>5. TaskId \subseteq TaskId' /\ startPromise' \in TaskId'
        BY <1>1, <3>2, <4>3 DEF TaskId
      <4> QED BY <4>3, <4>4, <4>5 DEF TaskId
    <3> QED BY <2>1, <3>1, <3>2
  <2>3. restartAttempt' \in 0..RestartLimit
    BY <2>1, LimitsAssumption DEF IInv, TypeInv
  <2>4. TypeInv'
    BY <1>1, <1>3, <1>4, <2>1, <2>2, <2>3 DEF TypeInv
  <2>5. \A t \in TaskId : (TaskFits(t) /\ Pending(t))'
    <3> SUFFICES ASSUME NEW t \in TaskId PROVE (TaskFits(t) /\ Pending(t))'
      OBVIOUS
    <3>1. tasks[t].pc = "health" => tasks[t].child \in ChildId /\ tasks[t].child # c
      BY <1>6 DEF IInv, TasksFit, Pending
    <3>2. generation' \in Nat /\ generation' >= generation
      BY <1>1, <2>1
    <3> QED BY <1>4, <2>2, <3>1, <3>2, Unmoved
  <2>6. CommandFits' /\ PublishedIsCurrent'
    BY <1>3, <1>4, <2>1, <2>2 DEF IInv, CommandFits, PublishedIsCurrent
  <2>7. Retired'
    <3>1. PICK t \in TaskId : Owns(t, c)
      BY DEF IInv, ChildrenOwned
    <3> QED BY <1>1, <1>3, <1>6, <3>1 DEF IInv, Retired, Owns
  <2> QED BY <1>5, <2>2, <2>4, <2>5, <2>6, <2>7, Assemble
<1>7. CASE ~(children[c].phase = "ready" /\ children[c].gen = generation)
  <2> DEFINE waits(t) == tasks[t].pc = "health" /\ tasks[t].child = c
             moved(t) == IF waits(t) THEN [tasks[t] EXCEPT !.pc = "exited"] ELSE tasks[t]
  <2>1. /\ tasks' = [t \in TaskId |-> moved(t)] /\ process' \in {None, process}
        /\ UNCHANGED <<generation, endpoint, startPromise, restartAttempt, stableTimer>>
    BY <1>7 DEF ChildExits
  <2>2. \A t \in TaskId :
            /\ moved(t) \in Task /\ moved(t).kind = tasks[t].kind /\ moved(t).gen = tasks[t].gen
            /\ moved(t).child = tasks[t].child /\ moved(t).victim = tasks[t].victim
            /\ moved(t).join = tasks[t].join /\ moved(t).tries = tasks[t].tries
            /\ moved(t).pc = IF waits(t) THEN "exited" ELSE tasks[t].pc
    <3> SUFFICES ASSUME NEW t \in TaskId
                 PROVE /\ moved(t) \in Task /\ moved(t).kind = tasks[t].kind
                       /\ moved(t).gen = tasks[t].gen
                       /\ moved(t).child = tasks[t].child /\ moved(t).victim = tasks[t].victim
                       /\ moved(t).join = tasks[t].join /\ moved(t).tries = tasks[t].tries
                       /\ moved(t).pc = IF waits(t) THEN "exited" ELSE tasks[t].pc
      OBVIOUS
    <3>1. tasks[t] \in Task
      BY <1>1, TaskParts
    <3> QED BY <3>1 DEF Task
  <2> HIDE DEF moved
  <2>3. tasks' \in Seq(Task) /\ Len(tasks') = Len(tasks) /\ TaskId' = TaskId
        /\ \A t \in TaskId : tasks'[t] = moved(t)
    <3>1. tasks' \in [1..Len(tasks) -> Task]
      BY <2>1, <2>2 DEF TaskId
    <3>2. tasks' \in Seq(Task)
      BY <1>1, <3>1, SeqDef
    <3>3. Len(tasks') = Len(tasks)
      BY <1>1, <3>1, <3>2, LenProperties
    <3> QED BY <2>1, <3>2, <3>3 DEF TaskId
  <2>4. KeepsTasks
    BY <1>1, <2>1, <2>2, <2>3 DEF KeepsTasks, SameOwners
  <2>5. TypeInv'
    BY <1>1, <1>3, <1>4, <2>1, <2>3 DEF TypeInv
  <2>6. \A t \in TaskId : (TaskFits(t) /\ Pending(t))'
    <3> SUFFICES ASSUME NEW t \in TaskId PROVE (TaskFits(t) /\ Pending(t))'
      OBVIOUS
    <3>1. TaskFits(t) /\ Pending(t)
      BY DEF IInv, TasksFit
    <3>2. TaskFits(t)'
      BY <1>4, <2>1, <2>2, <2>3, <3>1 DEF TaskFits
    <3>3. Pending(t)'
      BY <1>4, <2>2, <2>3, <3>1 DEF Pending
    <3> QED BY <3>2, <3>3
  <2>7. CommandFits' /\ Retired'
    BY <1>3, <1>4, <2>1, <2>3, <2>4 DEF IInv, CommandFits, Retired, KeepsTasks, SameOwners
  <2>8. PublishedIsCurrent'
    BY <1>4, <1>7, <2>1 DEF IInv, TypeInv, PublishedIsCurrent
  <2> QED BY <1>5, <2>4, <2>5, <2>6, <2>7, <2>8, Assemble
<1> QED BY <1>6, <1>7

LEMMA StableRuntimeKeeps == ASSUME IInv, StableRuntime PROVE IInv'
<1>1. /\ restartAttempt' \in {0, restartAttempt} /\ stableTimer' = None
      /\ UNCHANGED <<generation, process, endpoint, startPromise, intentionalStop, tasks,
                     children, command>>
  BY DEF StableRuntime
<1>2. TypeInv'
  BY <1>1, LimitsAssumption DEF IInv, TypeInv, TaskId, ChildId
<1> QED BY <1>1, <1>2
        DEF IInv, TasksFit, TaskFits, Pending, CommandFits, InOrder, ChildrenOwned, Owns,
            Retired, PublishedIsCurrent, TaskId, ChildId

-----------------------------------------------------------------------------
(* The invariant holds initially and is kept by every step.                 *)
THEOREM Inductive == Spec => []IInv
<1>1. Init => IInv
  <2> SUFFICES ASSUME Init PROVE IInv
    OBVIOUS
  <2>1. TaskId = {} /\ ChildId = {} /\ tasks \in Seq(Task) /\ children \in Seq(Child)
    BY EmptySeq DEF Init, TaskId, ChildId
  <2>2. TypeInv
    <3>1. /\ generation \in Nat /\ intentionalStop \in BOOLEAN
          /\ process = None /\ endpoint = None /\ startPromise = None /\ stableTimer = None
      BY DEF Init
    <3>2. restartAttempt \in 0..RestartLimit
      BY LimitsAssumption DEF Init
    <3>3. command \in Command
      BY NoCommandParts DEF Init
    <3> QED BY <2>1, <3>1, <3>2, <3>3 DEF TypeInv
  <2> QED BY <2>1, <2>2, NoCommandParts
          DEF Init, IInv, TasksFit, CommandFits, InOrder, ChildrenOwned, Retired,
              PublishedIsCurrent
<1>2. IInv /\ [Next]_vars => IInv'
  <2> SUFFICES ASSUME IInv, [Next]_vars PROVE IInv'
    OBVIOUS
  <2>1. CASE GetEndpoint
    BY <2>1, GetEndpointKeeps
  <2>2. CASE UseRemote
    BY <2>2, UseRemoteKeeps
  <2>3. CASE Restart("restart") \/ Restart("repair")
    BY <2>3, RestartKeeps
  <2>4. CASE Stop
    BY <2>4, StopKeeps
  <2>5. CASE CommandStep
    BY <2>5, CommandStepKeeps
  <2>6. ASSUME NEW t \in TaskId, StartupStep(t) \/ RecoveryStep(t) PROVE IInv'
    BY <2>6, StartupStepKeeps, RecoveryStepKeeps
  <2>7. ASSUME NEW c \in ChildId, ChildExits(c) PROVE IInv'
    BY <2>7, ChildExitsKeeps
  <2>8. CASE StableRuntime
    BY <2>8, StableRuntimeKeeps
  <2>9. CASE UNCHANGED vars
    BY <2>9 DEF vars, supervisorVars, IInv, TypeInv, TasksFit, TaskFits, Pending, CommandFits,
                InOrder, ChildrenOwned, Owns, Retired, PublishedIsCurrent, TaskId, ChildId
  <2> QED BY <2>1, <2>2, <2>3, <2>4, <2>5, <2>6, <2>7, <2>8, <2>9 DEF Next
<1> QED BY <1>1, <1>2, PTL DEF Spec

(* Type correctness: the supervisor's handle, its published endpoint and    *)
(* its promise are ones that exist, crash budget and bind attempts stay     *)
(* inside their limits, and no task or child is younger than the            *)
(* generation.                                                              *)
THEOREM TypeCorrect == Spec => []TypeOK
<1>1. IInv => TypeOK
  <2> SUFFICES ASSUME IInv PROVE TypeOK
    OBVIOUS
  <2>1. TypeInv /\ generation \in Nat /\ BindLimit \in Nat
    BY LimitsAssumption DEF IInv, TypeInv
  <2>2. \A t \in TaskId :
           /\ tasks[t].kind \in {"startup", "recovery"} /\ tasks[t].gen \in 0..generation
           /\ tasks[t].pc \in {"verify", "port", "health", "exited", "stopping",
                               "sleep", "join", "done"}
           /\ tasks[t].tries \in 0..BindLimit
           /\ {tasks[t].child, tasks[t].victim} \subseteq ChildId \cup {None}
           /\ tasks[t].join \in TaskId \cup {None}
    <3> SUFFICES ASSUME NEW t \in TaskId
                 PROVE  /\ tasks[t].kind \in {"startup", "recovery"}
                        /\ tasks[t].gen \in 0..generation
                        /\ tasks[t].pc \in {"verify", "port", "health", "exited", "stopping",
                                            "sleep", "join", "done"}
                        /\ tasks[t].tries \in 0..BindLimit
                        /\ {tasks[t].child, tasks[t].victim} \subseteq ChildId \cup {None}
                        /\ tasks[t].join \in TaskId \cup {None}
      OBVIOUS
    <3>1. TaskFits(t) /\ tasks[t] \in Task /\ tasks[t].gen \in Nat /\ tasks[t].tries \in Nat
      BY <2>1, TaskParts DEF IInv, TasksFit
    <3>2. tasks[t].pc \in {"verify", "port", "health", "exited", "stopping",
                           "sleep", "join", "done"}
          /\ tasks[t].kind \in {"startup", "recovery"}
      BY <3>1 DEF Task
    <3> QED BY <2>1, <3>1, <3>2 DEF TaskFits
  <2>3. \A c \in ChildId :
           children[c] \in [alive : BOOLEAN, phase : {"pending", "ready", "disposed"},
                            gen : 0..generation, watched : BOOLEAN]
    <3> SUFFICES ASSUME NEW c \in ChildId
                 PROVE  children[c] \in [alive : BOOLEAN, phase : {"pending", "ready", "disposed"},
                                         gen : 0..generation, watched : BOOLEAN]
      OBVIOUS
    <3>1. PICK t \in TaskId : Owns(t, c)
      BY DEF IInv, ChildrenOwned
    <3>2. children[c].gen \in 0..generation
      BY <2>1, <2>2, <3>1 DEF Owns
    <3>3. children[c] \in Child
      BY <2>1, ChildParts
    <3> QED BY <3>2, <3>3 DEF Child
  <2> QED BY <2>1, <2>2, <2>3, CommandParts DEF TypeInv, TypeOK
<1> QED BY <1>1, Inductive, PTL

(* No obsolete startup ever publishes a core that a stop or a restart has   *)
(* retired, and a crash takes its address away: PublishedIsCurrent.         *)
THEOREM OnlyTheCurrentIsPublished == Spec => []PublishedIsCurrent
<1>1. IInv => PublishedIsCurrent
  BY DEF IInv
<1> QED BY <1>1, Inductive, PTL
=============================================================================
