------------------------ MODULE ArchiveSync_proofs ------------------------
(***************************************************************************)
(* Proofs about ArchiveSync, for any number of windows, edits, faults and  *)
(* decisions of the learner: no edit is lost on either side, because the   *)
(* version an archive is based on never claims more than it contains; and  *)
(* no upload goes before the learner's choice.  On a device with one       *)
(* window, moreover, the server applies one intent once.                   *)
(***************************************************************************)
EXTENDS ArchiveSync, WellFoundedInduction, TLAPS

-----------------------------------------------------------------------------
(* The inductive invariant.                                                 *)

Stage == {"idle", "replay", "replaying", "calibrate", "calibrating", "load",
          "assess", "wait", "ack"}
Tries == 0..MaxTries
After == {"idle", "load", "plain", "login", "replay"}
Task == [pc : Stage, purpose : Purpose \cup {None}, todo : SUBSET Record,
         snap : Archive \cup {None}, seen : State \cup {None},
         record : Record \cup {None}, reply : Answer \cup {None},
         tries : Tries, after : After \cup {None}]
Conflict == [server : Content, version : Nat, base : Archive]
Choice == [server : Content, version : Nat, base : Archive, pick : {"local", None}]
Receipt == [record : Record, answer : Answer]
Request == [to : Window, record : Record]

Memory ==
    /\ local \in Archive /\ journal \in SUBSET Record /\ nextId \in Nat
    /\ task \in [Window -> Task]
    /\ conflict \in [Window -> Conflict \cup {None}]
    /\ choice \in [Window -> Choice \cup {None}]
    /\ login \in SUBSET Window
    /\ server \in State /\ receipts \in SUBSET Receipt /\ net \in SUBSET Request
    /\ made \in SUBSET LocalEdit /\ accepted \in Content /\ waived \in Content

(* An archive of this content may call itself based on the version: the     *)
(* cloud is newer, or the content holds all the cloud has, given up or not. *)
Knows(s, lost, content, version) ==
    /\ version <= s.version
    /\ version = s.version => s.content \subseteq content \cup lost

(* A mutation is honest about its base, drops nothing of the archive it was *)
(* made for, and bears an id that was drawn.                                *)
Honest(s, lost, n, r) ==
    /\ Knows(s, lost, r.content, r.base)
    /\ r.expected.content \subseteq r.content \cup lost
    /\ r.id < n

(* What an answer says of the record it answers.                            *)
Answers(s, lost, r, a) ==
    /\ Knows(s, lost, a.content, a.version)
    /\ a.kind \in {"fast-forward", "resolved"} => a.content = r.content
    /\ a.kind = "merged" => r.content \subseteq a.content \cup lost

(* What a task may rely on at each of its awaits.                           *)
Prepared(t) ==
    /\ t.pc # "idle" => t.purpose \in Purpose
    /\ t.pc \in {"assess", "wait"} => t.snap \in Archive
    /\ t.pc = "calibrating" \/ (t.pc = "assess" /\ t.purpose # "plain") => t.seen \in State
    /\ IF t.pc \in {"wait", "replaying", "ack"} THEN t.record \in Record ELSE t.record = None
    /\ t.reply # None => t.pc \in {"wait", "replaying"}
    /\ t.pc = "ack" => t.after \in After
    /\ t.pc # "idle" /\ t.purpose \in {"resolve", "keepLocal"} =>
          \/ t.pc = "wait"
          \/ t.pc = "ack" /\ t.after \in {"idle", "plain", "login"}

Informed(s, lost, n, t) ==
    /\ \A r \in t.todo : Honest(s, lost, n, r)
    /\ t.pc = "assess" => Knows(s, lost, t.snap.content, t.snap.base)
    /\ t.pc = "calibrating" \/ (t.pc = "assess" /\ t.purpose # "plain") =>
          Knows(s, lost, t.seen.content, t.seen.version)
    /\ t.pc \in {"wait", "replaying", "ack"} => Honest(s, lost, n, t.record)
    /\ t.pc = "wait" => t.snap.content \subseteq t.record.content \cup lost
    /\ t.reply # None => Answers(s, lost, t.record, t.reply)

(* A login comes before every other purpose, a choice before every upload.  *)
Reconciled(w, t, open, logins) ==
    /\ w \in logins => open = None
    /\ t.pc = "assess" => open = None
    /\ t.pc # "idle" /\ t.purpose = "login" => open = None
    /\ t.pc = "ack" /\ t.after = "login" => open = None
    /\ w \in logins /\ t.pc # "idle" => t.purpose \notin {"plain", "compare"}

Tasks ==
    \A w \in Window :
        /\ Prepared(task[w])
        /\ Informed(server, waived, nextId, task[w])
        /\ Reconciled(w, task[w], choice[w], login)

Dialogs ==
    \A w \in Window :
        /\ conflict[w] # None => Knows(server, waived, conflict[w].server, conflict[w].version)
        /\ choice[w] # None => Knows(server, waived, choice[w].server, choice[w].version)

Mutations ==
    /\ \A r \in journal : Honest(server, waived, nextId, r)
    /\ \A m \in net : Honest(server, waived, nextId, m.record)
    /\ \A x \in receipts : Answers(server, waived, x.record, x.answer)

(* The device's base version never claims more than its archive holds.      *)
BaseIsHonest == Knows(server, waived, local.content, local.base)

IInv ==
    /\ Memory
    /\ Tasks
    /\ Dialogs
    /\ Mutations
    /\ BaseIsHonest
    /\ NoLocalEditLost
    /\ NoCloudEditLost

(* The server's versions go up, nothing given up is taken back, ids are     *)
(* drawn in order: what the invariant says of the past outlives a step.     *)
Advance(s, lost, n, s2, lost2, n2) ==
    /\ s2 = s \/ s2.version > s.version
    /\ lost \subseteq lost2
    /\ n2 >= n

LEMMA KnowsLater ==
    ASSUME NEW s \in State, NEW s2 \in State, NEW lost, NEW lost2, NEW n, NEW n2,
           Advance(s, lost, n, s2, lost2, n2),
           NEW c, NEW v \in Nat, Knows(s, lost, c, v)
    PROVE  Knows(s2, lost2, c, v)
BY DEF Advance, Knows, State

LEMMA HonestLater ==
    ASSUME NEW s \in State, NEW s2 \in State, NEW lost, NEW lost2, NEW n \in Nat, NEW n2 \in Nat,
           Advance(s, lost, n, s2, lost2, n2),
           NEW r \in Record, Honest(s, lost, n, r)
    PROVE  Honest(s2, lost2, n2, r)
<1>1. r.base \in Nat /\ r.id \in Nat
  BY DEF Record
<1>2. Knows(s2, lost2, r.content, r.base)
  BY <1>1, KnowsLater DEF Honest
<1>3. r.expected.content \subseteq r.content \cup lost2 /\ r.id < n2
  BY <1>1 DEF Honest, Advance
<1>4. QED
  BY <1>2, <1>3 DEF Honest

LEMMA AnswersLater ==
    ASSUME NEW s \in State, NEW s2 \in State, NEW lost, NEW lost2, NEW n, NEW n2,
           Advance(s, lost, n, s2, lost2, n2),
           NEW r, NEW a \in Answer, Answers(s, lost, r, a)
    PROVE  Answers(s2, lost2, r, a)
<1>1. a.version \in Nat
  BY DEF Answer
<1>2. Knows(s2, lost2, a.content, a.version)
  BY <1>1, KnowsLater DEF Answers
<1>3. QED
  BY <1>2 DEF Answers, Advance

(* What a task relies on stays true while others work.                      *)
LEMMA InformedLater ==
    ASSUME NEW s \in State, NEW s2 \in State, NEW lost, NEW lost2, NEW n \in Nat, NEW n2 \in Nat,
           Advance(s, lost, n, s2, lost2, n2),
           NEW t \in Task, Prepared(t), Informed(s, lost, n, t)
    PROVE  Informed(s2, lost2, n2, t)
<1>1. \A r \in t.todo : Honest(s2, lost2, n2, r)
  <2> TAKE r \in t.todo
  <2>1. r \in Record
    BY DEF Task
  <2>2. QED
    BY <2>1, HonestLater DEF Informed
<1>2. t.pc = "assess" => Knows(s2, lost2, t.snap.content, t.snap.base)
  <2> SUFFICES ASSUME t.pc = "assess" PROVE Knows(s2, lost2, t.snap.content, t.snap.base)
    OBVIOUS
  <2>1. t.snap.base \in Nat
    BY DEF Prepared, Archive
  <2>2. QED
    BY <2>1, KnowsLater DEF Informed
<1>3. t.pc = "calibrating" \/ (t.pc = "assess" /\ t.purpose # "plain") =>
          Knows(s2, lost2, t.seen.content, t.seen.version)
  <2> SUFFICES ASSUME t.pc = "calibrating" \/ (t.pc = "assess" /\ t.purpose # "plain")
               PROVE  Knows(s2, lost2, t.seen.content, t.seen.version)
    OBVIOUS
  <2>1. t.seen.version \in Nat
    BY DEF Prepared, State
  <2>2. QED
    BY <2>1, KnowsLater DEF Informed
<1>4. t.pc \in {"wait", "replaying", "ack"} => Honest(s2, lost2, n2, t.record)
  BY HonestLater DEF Informed, Prepared
<1>5. t.pc = "wait" => t.snap.content \subseteq t.record.content \cup lost2
  BY DEF Informed, Advance
<1>6. t.reply # None => Answers(s2, lost2, t.record, t.reply)
  <2>1. t.reply # None => t.reply \in Answer
    BY DEF Task
  <2>2. QED
    BY <2>1, AnswersLater DEF Informed
<1>7. QED
  BY <1>1, <1>2, <1>3, <1>4, <1>5, <1>6 DEF Informed

(* The step of one window: the others keep what they rely on.               *)
LEMMA OneWindow ==
    ASSUME Memory, Tasks, server' \in State, nextId' \in Nat,
           Advance(server, waived, nextId, server', waived', nextId'),
           NEW w \in Window, NEW t \in Task, task' = [task EXCEPT ![w] = t],
           Prepared(t), Informed(server', waived', nextId', t),
           Reconciled(w, t, choice'[w], login'),
           \A v \in Window \ {w} : choice'[v] = choice[v] /\ (v \in login' <=> v \in login)
    PROVE  Tasks'
<1> SUFFICES ASSUME NEW v \in Window
             PROVE  /\ Prepared(task'[v])
                    /\ Informed(server', waived', nextId', task'[v])
                    /\ Reconciled(v, task'[v], choice'[v], login')
  BY DEF Tasks, Prepared, Informed, Reconciled, Honest, Answers, Knows
<1>1. CASE v = w
  <2>1. task'[v] = t
    BY <1>1 DEF Memory
  <2>2. QED
    BY <1>1, <2>1
<1>2. CASE v # w
  <2>1. task'[v] = task[v] /\ task[v] \in Task
    BY <1>2 DEF Memory
  <2>2. Prepared(task[v]) /\ Informed(server, waived, nextId, task[v])
    BY DEF Tasks
  <2>3. Informed(server', waived', nextId', task[v])
    BY <2>1, <2>2, InformedLater DEF Memory
  <2>4. Reconciled(v, task[v], choice'[v], login')
    BY <1>2 DEF Tasks, Reconciled
  <2>5. QED
    BY <2>1, <2>2, <2>3, <2>4
<1>3. QED
  BY <1>1, <1>2

(* What dialogs, journal, network and server hold, where a step adds only   *)
(* what is as honest.                                                       *)
LEMMA Frame ==
    ASSUME Memory, Dialogs, Mutations, server' \in State, nextId' \in Nat,
           Advance(server, waived, nextId, server', waived', nextId'),
           \A v \in Window : \/ conflict'[v] \in {conflict[v], None}
                             \/ Knows(server', waived', conflict'[v].server, conflict'[v].version),
           \A v \in Window : \/ choice'[v] \in {choice[v], None}
                             \/ Knows(server', waived', choice'[v].server, choice'[v].version),
           \A r \in journal' : r \in journal \/ Honest(server', waived', nextId', r),
           \A m \in net' : m \in net \/ Honest(server', waived', nextId', m.record),
           \A x \in receipts' : x \in receipts \/ Answers(server', waived', x.record, x.answer)
    PROVE  Dialogs' /\ Mutations'
<1>1. \A v \in Window : conflict'[v] # None =>
          Knows(server', waived', conflict'[v].server, conflict'[v].version)
  <2> SUFFICES ASSUME NEW v \in Window, conflict'[v] # None, conflict'[v] = conflict[v]
               PROVE  Knows(server', waived', conflict[v].server, conflict[v].version)
    OBVIOUS
  <2>1. conflict[v].version \in Nat
    BY DEF Memory, Conflict
  <2>2. QED
    BY <2>1, KnowsLater DEF Dialogs, Memory
<1>2. \A v \in Window : choice'[v] # None =>
          Knows(server', waived', choice'[v].server, choice'[v].version)
  <2> SUFFICES ASSUME NEW v \in Window, choice'[v] # None, choice'[v] = choice[v]
               PROVE  Knows(server', waived', choice[v].server, choice[v].version)
    OBVIOUS
  <2>1. choice[v].version \in Nat
    BY DEF Memory, Choice
  <2>2. QED
    BY <2>1, KnowsLater DEF Dialogs, Memory
<1>3. \A r \in journal' : Honest(server', waived', nextId', r)
  <2> TAKE r \in journal'
  <2>1. CASE r \in journal
    BY <2>1, HonestLater DEF Mutations, Memory
  <2>2. QED
    BY <2>1
<1>4. \A m \in net' : Honest(server', waived', nextId', m.record)
  <2> TAKE m \in net'
  <2>1. CASE m \in net
    <3>1. m.record \in Record
      BY <2>1 DEF Memory, Request
    <3>2. QED
      BY <2>1, <3>1, HonestLater DEF Mutations, Memory
  <2>2. QED
    BY <2>1
<1>5. \A x \in receipts' : Answers(server', waived', x.record, x.answer)
  <2> TAKE x \in receipts'
  <2>1. CASE x \in receipts
    <3>1. x.answer \in Answer
      BY <2>1 DEF Memory, Receipt
    <3>2. QED
      BY <2>1, <3>1, AnswersLater DEF Mutations, Memory
  <2>2. QED
    BY <2>1
<1>6. Dialogs'
  BY <1>1, <1>2 DEF Dialogs, Knows
<1>7. Mutations'
  BY <1>3, <1>4, <1>5 DEF Mutations, Honest, Answers, Knows
<1>8. QED
  BY <1>6, <1>7

LEMMA EditsStay ==
    ASSUME IInv, made' = made, server' = server, accepted' = accepted, waived \subseteq waived',
           \/ local' = local
           \/ /\ Knows(server, waived', local'.content, local'.base)
              /\ local.content \subseteq local'.content \cup waived'
    PROVE  BaseIsHonest' /\ NoLocalEditLost' /\ NoCloudEditLost'
BY DEF IInv, BaseIsHonest, Knows, NoLocalEditLost, NoCloudEditLost

-----------------------------------------------------------------------------
(* The tasks the helpers of the model make.                                 *)

LEMMA IdleTask ==
    /\ Idle \in Task /\ Prepared(Idle)
    /\ \A s, lost, n : Informed(s, lost, n, Idle)
    /\ \A w, open, logins : (w \in logins => open = None) => Reconciled(w, Idle, open, logins)
<1>1. 0 \in Tries
  BY SyncBoundsAssumption DEF Tries
<1>2. Idle \in Task
  BY <1>1 DEF Idle, Task, Stage
<1>3. QED
  BY <1>2 DEF Idle, Prepared, Informed, Reconciled

LEMMA RoundTask ==
    ASSUME NEW s, NEW lost, NEW n, NEW p \in {"plain", "compare", "login"},
           NEW todo \in SUBSET Record, \A r \in todo : Honest(s, lost, n, r),
           NEW w, NEW open, NEW logins, w \in logins => open = None /\ p = "login",
           p = "login" => open = None
    PROVE  /\ Round(p, todo) \in Task /\ Prepared(Round(p, todo))
           /\ Informed(s, lost, n, Round(p, todo))
           /\ Reconciled(w, Round(p, todo), open, logins)
<1> DEFINE t == Round(p, todo)
<1>1. 0 \in Tries
  BY SyncBoundsAssumption DEF Tries
<1>2. /\ t.pc \in {"load", "replay"} /\ t.purpose = p /\ t.todo = todo
      /\ t.snap = None /\ t.seen = None /\ t.record = None /\ t.reply = None
      /\ t.tries = 0 /\ t.after = None
  BY DEF Round, Idle
<1>3. Idle \in Task
  BY IdleTask
<1>4. t \in Task
  BY <1>3 DEF Round, Task, Stage, Purpose
<1> HIDE DEF t
<1>5. Prepared(t)
  BY <1>2 DEF Prepared, Purpose
<1>6. Informed(s, lost, n, t)
  BY <1>2 DEF Informed
<1>7. Reconciled(w, t, open, logins)
  BY <1>2 DEF Reconciled
<1>8. QED
  BY <1>4, <1>5, <1>6, <1>7 DEF t

LEMMA AckTask ==
    ASSUME NEW s, NEW lost, NEW n, NEW t \in Task, t.pc \in {"wait", "replaying"},
           Prepared(t), Informed(s, lost, n, t), NEW label \in After,
           t.purpose \in {"resolve", "keepLocal"} => label \in {"idle", "plain", "login"},
           NEW w, NEW open, NEW open2, NEW logins, NEW logins2,
           Reconciled(w, t, open, logins),
           w \in logins2 => w \in logins, open2 \in {open, None},
           label = "login" => open2 = None
    PROVE  LET t2 == [t EXCEPT !.pc = "ack", !.reply = None, !.after = label]
           IN  /\ t2 \in Task /\ Prepared(t2) /\ Informed(s, lost, n, t2)
               /\ Reconciled(w, t2, open2, logins2)
<1> DEFINE t2 == [t EXCEPT !.pc = "ack", !.reply = None, !.after = label]
<1>1. t2 \in Task
  BY DEF Task, Stage
<1>2. /\ t2.pc = "ack" /\ t2.reply = None /\ t2.after = label
      /\ t2.purpose = t.purpose /\ t2.todo = t.todo /\ t2.record = t.record
  BY DEF Task
<1> HIDE DEF t2
<1>3. Prepared(t2)
  BY <1>2 DEF Prepared
<1>4. Informed(s, lost, n, t2)
  BY <1>2 DEF Informed
<1>5. Reconciled(w, t2, open2, logins2)
  BY <1>2 DEF Reconciled
<1>6. QED
  BY <1>1, <1>3, <1>4, <1>5 DEF t2

LEMMA SavedArchive ==
    ASSUME NEW a \in Answer, NEW c \in Content
    PROVE  /\ Result(a, c) \in Archive /\ Result(a, c).base = a.version
           /\ Result(a, c).content = IF a.kind = "merged" THEN a.content ELSE c
BY DEF Result, Answer, Archive

(* An answer to an honest record may be taken over: the new base knows what *)
(* the server holds, and nothing of the record is dropped.                  *)
LEMMA AnswerIsSafe ==
    ASSUME NEW s, NEW lost, NEW n, NEW r \in Record, NEW a \in Answer, a.kind # "conflict",
           Honest(s, lost, n, r), Answers(s, lost, r, a)
    PROVE  LET x == Result(a, r.content)
           IN  /\ x \in Archive /\ Knows(s, lost, x.content, x.base)
               /\ r.content \subseteq x.content \cup lost
<1>1. r.content \in Content /\ a.kind \in {"fast-forward", "merged", "resolved", "conflict"}
  BY DEF Record, Answer
<1>2. QED
  BY <1>1, SavedArchive DEF Answers

-----------------------------------------------------------------------------
(* Rounds.                                                                  *)

(* The step of a window: what it stores, sends and shows is as honest as    *)
(* what was there, and its task is prepared.                                *)
LEMMA WindowStep ==
    ASSUME IInv, NEW w \in Window, NEW t \in Task, task' = [task EXCEPT ![w] = t],
           server' = server, receipts' = receipts, made' = made, accepted' = accepted,
           waived' \in Content, waived \subseteq waived', nextId' \in Nat, nextId <= nextId',
           \/ local' = local
           \/ /\ local' \in Archive /\ Knows(server, waived', local'.content, local'.base)
              /\ local.content \subseteq local'.content \cup waived',
           journal' \in SUBSET Record,
           \A r \in journal' : r \in journal \/ Honest(server, waived', nextId', r),
           net' \in SUBSET Request,
           \A m \in net' : m \in net \/ Honest(server, waived', nextId', m.record),
           conflict' \in [Window -> Conflict \cup {None}],
           \A v \in Window : \/ conflict'[v] \in {conflict[v], None}
                             \/ Knows(server, waived', conflict'[v].server, conflict'[v].version),
           choice' \in [Window -> Choice \cup {None}],
           \A v \in Window : \/ choice'[v] \in {choice[v], None}
                             \/ Knows(server, waived', choice'[v].server, choice'[v].version),
           login' \in SUBSET Window,
           \A v \in Window \ {w} : choice'[v] = choice[v] /\ (v \in login' <=> v \in login),
           Prepared(t), Informed(server, waived', nextId', t),
           Reconciled(w, t, choice'[w], login')
    PROVE  IInv'
<1>1. Advance(server, waived, nextId, server', waived', nextId')
  BY DEF Advance, IInv, Memory
<1>2. Memory'
  BY DEF IInv, Memory
<1>3. Tasks'
  BY <1>1, OneWindow DEF IInv, Memory
<1>4. Dialogs' /\ Mutations'
  BY <1>1, Frame DEF IInv, Memory
<1>5. QED
  BY <1>2, <1>3, <1>4, EditsStay DEF IInv

(* Where nothing is stored or answered, only the task has to be right.      *)
LEMMA TaskStep ==
    ASSUME IInv, NEW w \in Window, NEW t \in Task, task' = [task EXCEPT ![w] = t],
           UNCHANGED <<storedVars, serverVars, made, accepted, waived>>,
           net' \in SUBSET Request, \A m \in net' : m \in net \/ Honest(server, waived, nextId, m.record),
           conflict' \in [Window -> Conflict \cup {None}],
           \A v \in Window : conflict'[v] \in {conflict[v], None},
           choice' \in [Window -> Choice \cup {None}],
           \A v \in Window : choice'[v] \in {choice[v], None} /\ (v # w => choice'[v] = choice[v]),
           login' \in SUBSET Window, \A v \in Window \ {w} : v \in login' <=> v \in login,
           Prepared(t), Informed(server, waived, nextId, t),
           Reconciled(w, t, choice'[w], login')
    PROVE  IInv'
<1>1. /\ server' = server /\ receipts' = receipts /\ made' = made /\ accepted' = accepted
      /\ waived' = waived /\ nextId' = nextId /\ local' = local /\ journal' = journal
      /\ waived \in Content /\ nextId \in Nat /\ nextId <= nextId /\ journal \in SUBSET Record
  BY DEF storedVars, serverVars, IInv, Memory
<1>2. QED
  BY <1>1, WindowStep

(* What the invariant says of a window.                                     *)
LEMMA OfWindow ==
    ASSUME IInv, NEW w \in Window
    PROVE  /\ task[w] \in Task /\ Prepared(task[w])
           /\ Informed(server, waived, nextId, task[w])
           /\ Reconciled(w, task[w], choice[w], login)
           /\ conflict[w] \in Conflict \cup {None} /\ choice[w] \in Choice \cup {None}
BY DEF IInv, Memory, Tasks

(* Closing the dialogs of a window.                                         *)
LEMMA Closed ==
    ASSUME IInv, NEW w \in Window
    PROVE  /\ CloseConflict(w) => /\ conflict' \in [Window -> Conflict \cup {None}]
                                  /\ \A v \in Window : conflict'[v] \in {conflict[v], None}
           /\ CloseChoice(w) => /\ choice' \in [Window -> Choice \cup {None}]
                                /\ choice'[w] = None
                                /\ \A v \in Window \ {w} : choice'[v] = choice[v]
BY DEF IInv, Memory, CloseConflict, CloseChoice

LEMMA StartTask ==
    ASSUME IInv, NEW w \in Window, NEW p \in {"plain", "compare"}, NEW todo \in SUBSET journal
    PROVE  LET t == Start(w, p, todo)
           IN  /\ t \in Task /\ Prepared(t) /\ Informed(server, waived, nextId, t)
               /\ \A open \in {choice[w], None} : Reconciled(w, t, open, login)
<1>1. \A r \in todo : Honest(server, waived, nextId, r)
  BY DEF IInv, Mutations
<1>2. w \in login => choice[w] = None
  BY DEF IInv, Tasks, Reconciled
<1>3. todo \in SUBSET Record
  BY DEF IInv, Memory
<1>4. CASE w \in login
  BY <1>1, <1>2, <1>3, <1>4, RoundTask DEF Start
<1>5. CASE w \notin login
  BY <1>1, <1>2, <1>3, <1>5, RoundTask DEF Start
<1>6. QED
  BY <1>4, <1>5

LEMMA BeginKeeps ==
    ASSUME IInv, NEW w \in Window, NEW p \in {"plain", "compare"}, Begin(w, p)
    PROVE  IInv'
<1> DEFINE t == Start(w, p, journal)
<1>1. /\ t \in Task /\ Prepared(t) /\ Informed(server, waived, nextId, t)
      /\ Reconciled(w, t, choice[w], login)
  BY StartTask
<1>2. /\ task' = [task EXCEPT ![w] = t]
      /\ UNCHANGED <<storedVars, dialogVars, serverVars, net, made, accepted, waived>>
  BY DEF Begin, Goto
<1> HIDE DEF t
<1>3. QED
  BY <1>1, <1>2, TaskStep DEF dialogVars, IInv, Memory

LEMMA LogInKeeps ==
    ASSUME IInv, NEW w \in Window, LogIn(w)
    PROVE  IInv'
<1> DEFINE t == Round("login", journal)
<1>1. /\ task' = [task EXCEPT ![w] = t]
      /\ UNCHANGED <<storedVars, serverVars, net, made, accepted, waived>>
      /\ CloseConflict(w) /\ CloseChoice(w) /\ login' = login \cup {w}
  BY DEF LogIn, Goto
<1>2. choice'[w] = None
  BY <1>1, Closed
<1>3. /\ t \in Task /\ Prepared(t) /\ Informed(server, waived, nextId, t)
      /\ Reconciled(w, t, choice'[w], login')
  BY <1>2, RoundTask DEF IInv, Memory, Mutations
<1> HIDE DEF t
<1>4. login' \in SUBSET Window /\ \A v \in Window \ {w} : v \in login' <=> v \in login
  BY <1>1 DEF IInv, Memory
<1>5. net' \in SUBSET Request /\ \A m \in net' : m \in net
  BY <1>1 DEF IInv, Memory
<1>6. QED
  BY <1>1, <1>2, <1>3, <1>4, <1>5, Closed, TaskStep

(* Of any mutations one is the oldest.                                      *)
LEMMA Oldest ==
    ASSUME NEW S \in SUBSET Record, S # {}
    PROVE  \E r \in S : \A s \in S : r.id <= s.id
<1> DEFINE Ids == {r.id : r \in S}
           Less == {p \in Nat \X Nat : p[1] < p[2]}
<1>1. Ids \subseteq Nat /\ Ids # {}
  BY DEF Record
<1>2. PICK i \in Ids : \A j \in Ids : <<j, i>> \notin Less
  <2>1. IsWellFoundedOn(Less, Nat)
    BY NatLessThanWellFounded DEF OpToRel
  <2> HIDE DEF Ids, Less
  <2>2. QED
    BY <1>1, <2>1, WFMin
<1>3. ASSUME NEW j \in Ids PROVE i <= j
  <2>1. i \in Nat /\ j \in Nat
    BY <1>1
  <2> HIDE DEF Ids
  <2>2. j < i => <<j, i>> \in Less
    BY <2>1
  <2>3. QED
    BY <1>2, <2>1, <2>2
<1>4. PICK r \in S : r.id = i
  OBVIOUS
<1>5. QED
  BY <1>3, <1>4

LEMMA ReplayKeeps ==
    ASSUME IInv, NEW w \in Window, Replay(w)
    PROVE  IInv'
<1> DEFINE t == task[w]
<1>1. /\ t \in Task /\ t.pc = "replay" /\ Prepared(t) /\ Informed(server, waived, nextId, t)
      /\ Reconciled(w, t, choice[w], login)
      /\ UNCHANGED <<storedVars, dialogVars, serverVars, made, accepted, waived>>
  BY DEF Replay, IInv, Memory, Tasks, ghostVars
<1>2. CASE t.todo = {}
  <2> DEFINE t2 == [t EXCEPT !.pc = "calibrate"]
  <2>1. task' = [task EXCEPT ![w] = t2] /\ net' = net
    BY <1>2 DEF Replay, Goto
  <2>2. /\ t2 \in Task /\ t2.pc = "calibrate" /\ t2.purpose = t.purpose /\ t2.todo = t.todo
        /\ t2.record = t.record /\ t2.reply = t.reply
    BY <1>1 DEF Task, Stage
  <2> HIDE DEF t2
  <2>3. Prepared(t2) /\ Informed(server, waived, nextId, t2) /\ Reconciled(w, t2, choice[w], login)
    BY <1>1, <2>2 DEF Prepared, Informed, Reconciled
  <2>4. QED
    BY <1>1, <2>1, <2>2, <2>3, TaskStep DEF dialogVars, IInv, Memory
<1>3. CASE t.todo # {}
  <2> DEFINE r == CHOOSE r \in t.todo : \A s \in t.todo : r.id <= s.id
             t2 == [t EXCEPT !.pc = "replaying", !.record = r, !.todo = @ \ {r}]
  <2>1. task' = [task EXCEPT ![w] = t2] /\ net' = net \cup {[to |-> w, record |-> r]}
    BY <1>3 DEF Replay, Goto
  <2>2. r \in t.todo
    BY <1>1, <1>3, Oldest DEF Task
  <2> HIDE DEF r
  <2>3. r \in Record /\ Honest(server, waived, nextId, r)
    BY <1>1, <2>2 DEF Task, Informed
  <2>4. /\ t2 \in Task /\ t2.pc = "replaying" /\ t2.purpose = t.purpose /\ t2.todo \subseteq t.todo
        /\ t2.record = r /\ t2.reply = t.reply
    BY <1>1, <2>3 DEF Task, Stage
  <2> HIDE DEF t2
  <2>5. Prepared(t2) /\ Informed(server, waived, nextId, t2) /\ Reconciled(w, t2, choice[w], login)
    BY <1>1, <2>3, <2>4 DEF Prepared, Informed, Reconciled
  <2>6. net' \in SUBSET Request /\ \A m \in net' : m \in net \/ Honest(server, waived, nextId, m.record)
    BY <2>1, <2>3 DEF IInv, Memory, Request
  <2>7. QED
    BY <1>1, <2>1, <2>4, <2>5, <2>6, TaskStep DEF dialogVars, IInv, Memory
<1>4. QED
  BY <1>2, <1>3

(* saveIfUnchanged on the archive a task expects.                           *)
LEMMA SaveKeeps ==
    ASSUME IInv, NEW expected, NEW next \in Archive, SaveIfUnchanged(expected, next),
           Knows(server, waived, next.content, next.base),
           expected.content \subseteq next.content \cup waived
    PROVE  \/ local' = local
           \/ /\ local' \in Archive /\ Knows(server, waived, local'.content, local'.base)
              /\ local.content \subseteq local'.content \cup waived
<1>1. CASE local = expected
  BY <1>1 DEF SaveIfUnchanged
<1>2. CASE local # expected
  BY <1>2 DEF SaveIfUnchanged
<1>3. QED
  BY <1>1, <1>2

(* A window that applies what it has learnt and sends nothing.              *)
LEMMA AppliedStep ==
    ASSUME IInv, NEW w \in Window, NEW t \in Task, task' = [task EXCEPT ![w] = t],
           UNCHANGED <<journal, nextId, serverVars, net, made, accepted>>,
           waived' \in Content, waived \subseteq waived',
           \/ local' = local
           \/ /\ local' \in Archive /\ Knows(server, waived', local'.content, local'.base)
              /\ local.content \subseteq local'.content \cup waived',
           \/ conflict' = conflict
           \/ CloseConflict(w)
           \/ \E d \in Conflict : /\ Knows(server, waived', d.server, d.version)
                                  /\ conflict' = [conflict EXCEPT ![w] = d],
           \/ choice' = choice
           \/ CloseChoice(w)
           \/ \E d \in Choice : /\ Knows(server, waived', d.server, d.version)
                                /\ choice' = [choice EXCEPT ![w] = d],
           login' \in {login, login \cup {w}, login \ {w}},
           Prepared(t), Informed(server, waived', nextId, t), Reconciled(w, t, choice'[w], login')
    PROVE  IInv'
<1>1. /\ server' = server /\ receipts' = receipts /\ made' = made /\ accepted' = accepted
      /\ nextId' \in Nat /\ nextId <= nextId' /\ nextId' = nextId
      /\ journal' \in SUBSET Record /\ (\A r \in journal' : r \in journal)
      /\ net' \in SUBSET Request /\ (\A m \in net' : m \in net)
      /\ login' \in SUBSET Window /\ \A v \in Window \ {w} : v \in login' <=> v \in login
  BY DEF serverVars, IInv, Memory
<1>2. /\ conflict' \in [Window -> Conflict \cup {None}]
      /\ \A v \in Window : \/ conflict'[v] \in {conflict[v], None}
                            \/ Knows(server, waived', conflict'[v].server, conflict'[v].version)
  BY DEF IInv, Memory, CloseConflict
<1>3. /\ choice' \in [Window -> Choice \cup {None}]
      /\ \A v \in Window \ {w} : choice'[v] = choice[v]
      /\ \A v \in Window : \/ choice'[v] \in {choice[v], None}
                            \/ Knows(server, waived', choice'[v].server, choice'[v].version)
  BY DEF IInv, Memory, CloseChoice
<1>4. Informed(server, waived', nextId', t)
  BY <1>1
<1>5. QED
  BY <1>1, <1>2, <1>3, <1>4, WindowStep

(* The receipt of a record, applied to the archive the record was made for. *)
LEMMA ReceiptKeeps ==
    ASSUME IInv, NEW r \in Record, NEW a \in Answer, NEW expected, a.kind # "conflict",
           Honest(server, waived, nextId, r), Answers(server, waived, r, a),
           expected.content \subseteq r.content \cup waived,
           SaveIfUnchanged(expected, Result(a, r.content))
    PROVE  \/ local' = local
           \/ /\ local' \in Archive /\ Knows(server, waived, local'.content, local'.base)
              /\ local.content \subseteq local'.content \cup waived
<1> DEFINE x == Result(a, r.content)
<1>1. x \in Archive /\ Knows(server, waived, x.content, x.base) /\ r.content \subseteq x.content \cup waived
  BY AnswerIsSafe
<1> HIDE DEF x
<1>2. expected.content \subseteq x.content \cup waived
  BY <1>1
<1>3. QED
  BY <1>1, <1>2, SaveKeeps DEF x

(* A conflict shows what the server's refusal said.                         *)
LEMMA OpenedConflict ==
    ASSUME NEW w, NEW a \in Answer, NEW r, NEW base \in Archive,
           Answers(server, waived, r, a), OpenConflict(w, a, base)
    PROVE  \E d \in Conflict : /\ Knows(server, waived, d.server, d.version)
                               /\ conflict' = [conflict EXCEPT ![w] = d]
<1> DEFINE d == [server |-> a.content, version |-> a.version, base |-> base]
<1>1. d \in Conflict /\ d.server = a.content /\ d.version = a.version
  BY DEF Answer, Conflict
<1>2. conflict' = [conflict EXCEPT ![w] = d]
  BY DEF OpenConflict
<1> HIDE DEF d
<1>3. QED
  BY <1>1, <1>2 DEF Answers

LEMMA ReplayedSyncKeeps ==
    ASSUME IInv, NEW w \in Window, ReplayedSync(w)
    PROVE  IInv'
<1> DEFINE t == task[w]
           t2 == [t EXCEPT !.pc = "ack", !.reply = None, !.after = "replay"]
<1>1. /\ t \in Task /\ Prepared(t) /\ Informed(server, waived, nextId, t)
      /\ Reconciled(w, t, choice[w], login) /\ t.pc = "replaying" /\ t.reply # None
      /\ UNCHANGED <<journal, nextId, dialogVars, serverVars, net, made, accepted, waived>>
      /\ task' = [task EXCEPT ![w] = t2]
  BY OfWindow DEF ReplayedSync, Acknowledge, Goto, ghostVars
<1>2. t.purpose \notin {"resolve", "keepLocal"} /\ "replay" \in After
  BY <1>1 DEF Prepared, After
<1>3. /\ t2 \in Task /\ Prepared(t2) /\ Informed(server, waived, nextId, t2)
      /\ Reconciled(w, t2, choice[w], login)
  BY <1>1, <1>2, AckTask
<1>4. \/ local' = local
      \/ /\ local' \in Archive /\ Knows(server, waived, local'.content, local'.base)
         /\ local.content \subseteq local'.content \cup waived
  <2>1. CASE t.reply.kind = "conflict"
    BY <2>1 DEF ReplayedSync
  <2>2. CASE t.reply.kind # "conflict"
    <3>1. t.record \in Record /\ t.reply \in Answer
      BY <1>1 DEF Prepared, Task
    <3>2. Honest(server, waived, nextId, t.record) /\ Answers(server, waived, t.record, t.reply)
      BY <1>1 DEF Informed
    <3>3. SaveIfUnchanged(t.record.expected, Result(t.reply, t.record.content))
      BY <2>2 DEF ReplayedSync
    <3>4. QED
      BY <2>2, <3>1, <3>2, <3>3, ReceiptKeeps DEF Honest
  <2>3. QED
    BY <2>1, <2>2
<1> HIDE DEF t2
<1>5. waived' \in Content /\ conflict' = conflict /\ choice' = choice /\ login' = login
  BY <1>1 DEF dialogVars, IInv, Memory
<1>6. QED
  BY <1>1, <1>3, <1>4, <1>5, AppliedStep

LEMMA ReplayedResolveKeeps ==
    ASSUME IInv, NEW w \in Window, ReplayedResolve(w)
    PROVE  IInv'
<1> DEFINE t == task[w]
           label == IF t.reply.kind = "conflict" /\ local = t.record.expected THEN "idle" ELSE "replay"
           t2 == [t EXCEPT !.pc = "ack", !.reply = None, !.after = label]
<1>1. /\ t \in Task /\ Prepared(t) /\ Informed(server, waived, nextId, t)
      /\ Reconciled(w, t, choice[w], login) /\ t.pc = "replaying" /\ t.reply # None
      /\ UNCHANGED <<journal, nextId, login, serverVars, net, made, accepted, waived>>
      /\ task' = [task EXCEPT ![w] = t2]
  BY OfWindow DEF ReplayedResolve, Acknowledge, Goto, ghostVars
<1>2. t.purpose \notin {"resolve", "keepLocal"} /\ label \in After /\ label # "login"
  BY <1>1 DEF Prepared, After
<1> HIDE DEF label
<1>3. (choice' = choice \/ CloseChoice(w)) /\ choice'[w] \in {choice[w], None}
  BY Closed DEF ReplayedResolve
<1>4. /\ t2 \in Task /\ Prepared(t2) /\ Informed(server, waived, nextId, t2)
      /\ Reconciled(w, t2, choice'[w], login)
  BY <1>1, <1>2, <1>3, AckTask
<1> HIDE DEF t2
<1>5. t.record \in Record /\ t.reply \in Answer
  BY <1>1 DEF Prepared, Task
<1>6. Honest(server, waived, nextId, t.record) /\ Answers(server, waived, t.record, t.reply)
  BY <1>1 DEF Informed
<1>7. \/ local' = local
      \/ /\ local' \in Archive /\ Knows(server, waived, local'.content, local'.base)
         /\ local.content \subseteq local'.content \cup waived
  <2>1. CASE t.reply.kind = "conflict"
    BY <2>1 DEF ReplayedResolve
  <2>2. CASE t.reply.kind # "conflict"
    <3>1. SaveIfUnchanged(t.record.expected, Result(t.reply, t.record.content))
      BY <2>2 DEF ReplayedResolve
    <3>2. QED
      BY <2>2, <3>1, <1>5, <1>6, ReceiptKeeps DEF Honest
  <2>3. QED
    BY <2>1, <2>2
<1>8. \/ CloseConflict(w)
      \/ \E d \in Conflict : /\ Knows(server, waived, d.server, d.version)
                             /\ conflict' = [conflict EXCEPT ![w] = d]
  <2>1. CASE t.reply.kind = "conflict" /\ local = t.record.expected
    <3>1. OpenConflict(w, t.reply, local)
      BY <2>1 DEF ReplayedResolve
    <3>2. QED
      BY <3>1, <1>5, <1>6, OpenedConflict DEF IInv, Memory
  <2>2. CASE ~(t.reply.kind = "conflict" /\ local = t.record.expected)
    BY <2>2 DEF ReplayedResolve
  <2>3. QED
    BY <2>1, <2>2
<1>9. waived' \in Content /\ waived' = waived /\ login' = login
  BY <1>1 DEF IInv, Memory
<1>10. QED
  BY <1>1, <1>3, <1>4, <1>7, <1>8, <1>9, AppliedStep

(* What the server holds now is known of itself.                            *)
LEMMA ReadState ==
    ASSUME IInv
    PROVE  server \in State /\ Knows(server, waived, server.content, server.version)
BY DEF IInv, Memory, State, Knows

LEMMA ReadForCalibrationKeeps ==
    ASSUME IInv, NEW w \in Window, ReadForCalibration(w)
    PROVE  IInv'
<1> DEFINE t == task[w]
           t2 == [t EXCEPT !.pc = "calibrating", !.seen = server]
<1>1. /\ t \in Task /\ Prepared(t) /\ Informed(server, waived, nextId, t)
      /\ Reconciled(w, t, choice[w], login) /\ t.pc = "calibrate"
      /\ UNCHANGED <<storedVars, dialogVars, serverVars, net, made, accepted, waived>>
      /\ task' = [task EXCEPT ![w] = t2]
  BY OfWindow DEF ReadForCalibration, Goto, ghostVars
<1>2. /\ t2 \in Task /\ t2.pc = "calibrating" /\ t2.purpose = t.purpose /\ t2.todo = t.todo
      /\ t2.record = t.record /\ t2.reply = t.reply /\ t2.seen = server
  BY <1>1, ReadState DEF Task, Stage
<1> HIDE DEF t2
<1>3. Prepared(t2) /\ Reconciled(w, t2, choice[w], login)
  BY <1>1, <1>2, ReadState DEF Prepared, Reconciled
<1>4. Informed(server, waived, nextId, t2)
  BY <1>1, <1>2, ReadState DEF Informed, Prepared
<1>5. QED
  BY <1>1, <1>2, <1>3, <1>4, TaskStep DEF dialogVars, IInv, Memory

LEMMA CalibrateKeeps ==
    ASSUME IInv, NEW w \in Window, Calibrate(w)
    PROVE  IInv'
<1> DEFINE t == task[w]
<1>1. /\ t \in Task /\ Prepared(t) /\ Informed(server, waived, nextId, t)
      /\ Reconciled(w, t, choice[w], login) /\ t.pc = "calibrating"
      /\ UNCHANGED <<journal, nextId, choice, serverVars, net, made, accepted, waived>>
  BY OfWindow DEF Calibrate, ghostVars
<1>2. waived' \in Content /\ waived' = waived /\ choice' = choice
  BY <1>1 DEF IInv, Memory
<1>3. CASE local.content = t.seen.content
  <2>1. task' = [task EXCEPT ![w] = Idle] /\ CloseConflict(w) /\ login' = login \ {w}
        /\ local' = [local EXCEPT !.base = t.seen.version]
    BY <1>3 DEF Calibrate, Finish, Goto
  <2>2. t.seen \in State /\ Knows(server, waived, t.seen.content, t.seen.version)
    BY <1>1 DEF Prepared, Informed
  <2>3. /\ local' \in Archive /\ local'.base = t.seen.version /\ local'.content = local.content
    BY <2>1, <2>2 DEF IInv, Memory, Archive, State
  <2>4. Knows(server, waived, local'.content, local'.base) /\ local.content \subseteq local'.content \cup waived
    BY <1>3, <2>2, <2>3
  <2>5. Reconciled(w, Idle, choice'[w], login')
    BY <1>2, <2>1, IdleTask
  <2>6. QED
    BY <1>1, <1>2, <2>1, <2>3, <2>4, <2>5, IdleTask, AppliedStep
<1>4. CASE local.content # t.seen.content
  <2> DEFINE t2 == [t EXCEPT !.pc = "load", !.seen = None]
  <2>1. task' = [task EXCEPT ![w] = t2] /\ UNCHANGED <<local, conflict, login>>
    BY <1>4 DEF Calibrate, Goto
  <2>2. /\ t2 \in Task /\ t2.pc = "load" /\ t2.purpose = t.purpose /\ t2.todo = t.todo
        /\ t2.record = t.record /\ t2.reply = t.reply
    BY <1>1 DEF Task, Stage
  <2> HIDE DEF t2
  <2>3. Prepared(t2) /\ Informed(server, waived, nextId, t2) /\ Reconciled(w, t2, choice'[w], login')
    BY <1>1, <1>2, <2>1, <2>2 DEF Prepared, Informed, Reconciled
  <2>4. QED
    BY <1>1, <1>2, <2>1, <2>2, <2>3, AppliedStep
<1>5. QED
  BY <1>3, <1>4

(* A window that only turns to something else.                              *)
LEMMA TurnStep ==
    ASSUME IInv, NEW w \in Window, NEW t \in Task, task' = [task EXCEPT ![w] = t],
           UNCHANGED <<storedVars, dialogVars, serverVars, net, made, accepted, waived>>,
           Prepared(t), Informed(server, waived, nextId, t), Reconciled(w, t, choice[w], login)
    PROVE  IInv'
BY TaskStep DEF dialogVars, IInv, Memory

LEMMA LoadKeeps ==
    ASSUME IInv, NEW w \in Window, Load(w)
    PROVE  IInv'
<1> DEFINE t == task[w]
           seen == IF t.purpose = "plain" THEN None ELSE server
           t2 == [t EXCEPT !.pc = "assess", !.snap = local, !.seen = seen, !.tries = @ + 1]
<1>1. /\ t \in Task /\ Prepared(t) /\ Informed(server, waived, nextId, t)
      /\ Reconciled(w, t, choice[w], login) /\ t.pc = "load"
      /\ UNCHANGED <<storedVars, dialogVars, serverVars, net, made, accepted, waived>>
  BY OfWindow DEF Load, ghostVars
<1>2. CASE Blocked(w) \/ t.tries = MaxTries
  <2>1. task' = [task EXCEPT ![w] = Idle]
    BY <1>2 DEF Load, Finish, Goto
  <2>2. Reconciled(w, Idle, choice[w], login)
    BY <1>1, IdleTask DEF Reconciled
  <2>3. QED
    BY <1>1, <2>1, <2>2, IdleTask, TurnStep
<1>3. CASE ~(Blocked(w) \/ t.tries = MaxTries)
  <2>1. task' = [task EXCEPT ![w] = t2]
    BY <1>3 DEF Load, Goto
  <2>2. t.tries + 1 \in Tries
    BY <1>1, <1>3, SyncBoundsAssumption DEF Task, Tries
  <2>3. seen \in State \cup {None} /\ (t.purpose # "plain" => seen = server)
    BY ReadState
  <2>4. local \in Archive /\ Knows(server, waived, local.content, local.base)
    BY DEF IInv, Memory, BaseIsHonest
  <2>5. t.purpose # "login" => choice[w] = None
    BY <1>3 DEF Blocked
  <2> HIDE DEF seen
  <2>6. /\ t2 \in Task /\ t2.pc = "assess" /\ t2.purpose = t.purpose /\ t2.todo = t.todo
        /\ t2.snap = local /\ t2.seen = seen /\ t2.record = t.record /\ t2.reply = t.reply
    BY <1>1, <2>2, <2>3, <2>4 DEF Task, Stage
  <2> HIDE DEF t2
  <2>7. Prepared(t2)
    BY <1>1, <2>3, <2>4, <2>6, ReadState DEF Prepared
  <2>8. Informed(server, waived, nextId, t2)
    BY <1>1, <2>3, <2>4, <2>6, ReadState DEF Informed, Prepared
  <2>9. Reconciled(w, t2, choice[w], login)
    BY <1>1, <2>5, <2>6 DEF Reconciled
  <2>10. QED
    BY <1>1, <2>1, <2>6, <2>7, <2>8, <2>9, TurnStep
<1>4. QED
  BY <1>2, <1>3

(* A round whose archive has changed loads it again.                        *)
LEMMA LoadAgain ==
    ASSUME NEW s, NEW lost, NEW n, NEW t \in Task, t.pc = "assess", Prepared(t),
           Informed(s, lost, n, t), NEW w, NEW open, NEW logins, Reconciled(w, t, open, logins)
    PROVE  LET t2 == [t EXCEPT !.pc = "load"]
           IN  t2 \in Task /\ Prepared(t2) /\ Informed(s, lost, n, t2) /\ Reconciled(w, t2, open, logins)
<1> DEFINE t2 == [t EXCEPT !.pc = "load"]
<1>1. /\ t2 \in Task /\ t2.pc = "load" /\ t2.purpose = t.purpose /\ t2.todo = t.todo
      /\ t2.record = t.record /\ t2.reply = t.reply
  BY DEF Task, Stage
<1> HIDE DEF t2
<1>2. Prepared(t2) /\ Informed(s, lost, n, t2) /\ Reconciled(w, t2, open, logins)
  BY <1>1 DEF Prepared, Informed, Reconciled
<1>3. QED
  BY <1>1, <1>2 DEF t2

LEMMA AdoptKeeps ==
    ASSUME IInv, NEW w \in Window, Adopt(w)
    PROVE  IInv'
<1> DEFINE t == task[w]
           next == [content |-> t.seen.content, base |-> t.seen.version]
<1>1. /\ t \in Task /\ Prepared(t) /\ Informed(server, waived, nextId, t)
      /\ Reconciled(w, t, choice[w], login) /\ t.pc = "assess" /\ t.purpose # "plain"
      /\ UNCHANGED <<journal, nextId, choice, serverVars, net, made, accepted, waived>>
      /\ t.snap.content = t.seen.content \/ t.snap.content = {}
      /\ SaveIfUnchanged(t.snap, next)
  BY OfWindow DEF Adopt, ghostVars
<1>2. waived' \in Content /\ waived' = waived /\ choice' = choice
  BY <1>1 DEF IInv, Memory
<1>3. t.seen \in State /\ Knows(server, waived, t.seen.content, t.seen.version)
  BY <1>1 DEF Prepared, Informed
<1>4. next \in Archive /\ next.content = t.seen.content /\ next.base = t.seen.version
  BY <1>3 DEF State, Archive
<1> HIDE DEF next
<1>5. \/ local' = local
      \/ /\ local' \in Archive /\ Knows(server, waived, local'.content, local'.base)
         /\ local.content \subseteq local'.content \cup waived
  BY <1>1, <1>3, <1>4, SaveKeeps
<1>6. conflict' = conflict \/ CloseConflict(w)
  BY DEF Adopt
<1>7. CASE local = t.snap
  <2>1. task' = [task EXCEPT ![w] = Idle] /\ login' = login \ {w}
    BY <1>7 DEF Adopt, Finish, Goto
  <2>2. Reconciled(w, Idle, choice'[w], login')
    BY <2>1, IdleTask
  <2>3. QED
    BY <1>1, <1>2, <1>5, <1>6, <2>1, <2>2, IdleTask, AppliedStep
<1>8. CASE local # t.snap
  <2> DEFINE t2 == [t EXCEPT !.pc = "load"]
  <2>1. task' = [task EXCEPT ![w] = t2] /\ login' = login
    BY <1>8 DEF Adopt, Goto
  <2>2. t2 \in Task /\ Prepared(t2) /\ Informed(server, waived, nextId, t2) /\ Reconciled(w, t2, choice[w], login)
    BY <1>1, LoadAgain
  <2> HIDE DEF t2
  <2>3. QED
    BY <1>1, <1>2, <1>5, <1>6, <2>1, <2>2, AppliedStep
<1>9. QED
  BY <1>7, <1>8

LEMMA OfferChoiceKeeps ==
    ASSUME IInv, NEW w \in Window, OfferChoice(w)
    PROVE  IInv'
<1> DEFINE t == task[w]
           d == [server |-> t.seen.content, version |-> t.seen.version, base |-> t.snap, pick |-> None]
<1>1. /\ t \in Task /\ Prepared(t) /\ Informed(server, waived, nextId, t)
      /\ Reconciled(w, t, choice[w], login) /\ t.pc = "assess" /\ t.purpose = "login"
      /\ UNCHANGED <<storedVars, conflict, serverVars, net, made, accepted, waived>>
  BY OfWindow DEF OfferChoice, ghostVars
<1>2. /\ waived' \in Content /\ waived' = waived /\ local' = local /\ conflict' = conflict
      /\ UNCHANGED <<journal, nextId, serverVars, net, made, accepted>>
  BY <1>1 DEF IInv, Memory, storedVars
<1>3. CASE local = t.snap
  <2>1. task' = [task EXCEPT ![w] = Idle] /\ login' = login \ {w} /\ choice' = [choice EXCEPT ![w] = d]
    BY <1>3 DEF OfferChoice, Finish, Goto
  <2>2. t.seen \in State /\ Knows(server, waived, t.seen.content, t.seen.version) /\ t.snap \in Archive
    BY <1>1 DEF Prepared, Informed
  <2>3. d \in Choice /\ Knows(server, waived, d.server, d.version)
    BY <2>2 DEF State, Choice
  <2>4. Reconciled(w, Idle, choice'[w], login')
    BY <2>1, IdleTask
  <2> HIDE DEF d
  <2>5. QED
    BY <1>1, <1>2, <2>1, <2>3, <2>4, IdleTask, AppliedStep
<1>4. CASE local # t.snap
  <2> DEFINE t2 == [t EXCEPT !.pc = "load"]
  <2>1. task' = [task EXCEPT ![w] = t2] /\ login' = login /\ choice' = choice
    BY <1>4 DEF OfferChoice, Goto
  <2>2. t2 \in Task /\ Prepared(t2) /\ Informed(server, waived, nextId, t2) /\ Reconciled(w, t2, choice[w], login)
    BY <1>1, LoadAgain
  <2> HIDE DEF t2
  <2>3. QED
    BY <1>2, <2>1, <2>2, AppliedStep
<1>5. QED
  BY <1>3, <1>4

LEMMA AnsweredKeeps ==
    ASSUME IInv, NEW w \in Window, Answered(w)
    PROVE  IInv'
<1> DEFINE t == task[w]
           label == CASE local = t.snap -> "idle"
                      [] t.purpose = "keepLocal" -> "login"
                      [] t.purpose = "resolve" -> "plain"
                      [] OTHER -> "load"
           t2 == [t EXCEPT !.pc = "ack", !.reply = None, !.after = label]
<1>1. /\ t \in Task /\ Prepared(t) /\ Informed(server, waived, nextId, t)
      /\ Reconciled(w, t, choice[w], login) /\ t.pc = "wait" /\ t.reply # None
      /\ t.reply.kind # "conflict"
      /\ UNCHANGED <<journal, nextId, serverVars, net, made, accepted, waived>>
      /\ SaveIfUnchanged(t.snap, Result(t.reply, t.record.content))
  BY OfWindow DEF Answered, ghostVars
<1>2. task' = [task EXCEPT ![w] = t2]
  BY DEF Answered, Acknowledge, Goto
<1>3. /\ label \in After
      /\ t.purpose \in {"resolve", "keepLocal"} => label \in {"idle", "plain", "login"}
      /\ label = "login" => t.purpose = "keepLocal"
  BY DEF After
<1> HIDE DEF label
<1>4. waived' \in Content /\ waived' = waived /\ login' \in {login, login \ {w}}
      /\ (conflict' = conflict \/ CloseConflict(w)) /\ (choice' = choice \/ CloseChoice(w))
      /\ (t.purpose = "keepLocal" => CloseChoice(w))
  BY <1>1 DEF Answered, IInv, Memory
<1>5. choice'[w] \in {choice[w], None} /\ (label = "login" => choice'[w] = None)
  BY <1>3, <1>4, Closed
<1>6. /\ t2 \in Task /\ Prepared(t2) /\ Informed(server, waived, nextId, t2)
      /\ Reconciled(w, t2, choice'[w], login')
  BY <1>1, <1>3, <1>4, <1>5, AckTask
<1> HIDE DEF t2
<1>7. \/ local' = local
      \/ /\ local' \in Archive /\ Knows(server, waived, local'.content, local'.base)
         /\ local.content \subseteq local'.content \cup waived
  <2>1. t.record \in Record /\ t.reply \in Answer
    BY <1>1 DEF Prepared, Task
  <2>2. /\ Honest(server, waived, nextId, t.record) /\ Answers(server, waived, t.record, t.reply)
        /\ t.snap.content \subseteq t.record.content \cup waived
    BY <1>1 DEF Informed
  <2>3. QED
    BY <1>1, <2>1, <2>2, ReceiptKeeps
<1>8. QED
  BY <1>1, <1>2, <1>4, <1>6, <1>7, AppliedStep

LEMMA ConflictedKeeps ==
    ASSUME IInv, NEW w \in Window, Conflicted(w)
    PROVE  IInv'
<1> DEFINE t == task[w]
           Ack(label) == [t EXCEPT !.pc = "ack", !.reply = None, !.after = label]
<1>1. /\ t \in Task /\ Prepared(t) /\ Informed(server, waived, nextId, t)
      /\ Reconciled(w, t, choice[w], login) /\ t.pc = "wait" /\ t.reply # None
      /\ UNCHANGED <<storedVars, serverVars, net, made, accepted, waived>>
  BY OfWindow DEF Conflicted, ghostVars
<1>2. /\ waived' \in Content /\ waived' = waived /\ local' = local
      /\ UNCHANGED <<journal, nextId, serverVars, net, made, accepted>>
  BY <1>1 DEF IInv, Memory, storedVars
<1>3. PICK label \in After :
         /\ task' = [task EXCEPT ![w] = Ack(label)]
         /\ t.purpose \in {"resolve", "keepLocal"} => label \in {"idle", "plain", "login"}
         /\ label = "login" => CloseChoice(w)
         /\ login' \in {login, login \ {w}} /\ (choice' = choice \/ CloseChoice(w))
         /\ conflict' = conflict \/ CloseConflict(w) \/ OpenConflict(w, t.reply, t.snap)
  <2>1. CASE t.purpose = "keepLocal"
    <3>1. CloseChoice(w) /\ UNCHANGED <<conflict, login>> /\ Acknowledge(w, "login")
      BY <2>1 DEF Conflicted
    <3>2. QED
      BY <2>1, <3>1 DEF Acknowledge, Goto, After
  <2>2. CASE t.purpose # "keepLocal" /\ local = t.snap
    <3>1. OpenConflict(w, t.reply, t.snap) /\ UNCHANGED choice /\ Acknowledge(w, "idle")
          /\ login' \in {login, login \ {w}}
      BY <2>2 DEF Conflicted
    <3>2. QED
      BY <3>1 DEF Acknowledge, Goto, After
  <2>3. CASE t.purpose = "resolve" /\ local # t.snap
    <3>1. CloseConflict(w) /\ UNCHANGED <<choice, login>> /\ Acknowledge(w, "plain")
      BY <2>3 DEF Conflicted
    <3>2. QED
      BY <3>1 DEF Acknowledge, Goto, After
  <2>4. CASE t.purpose \notin {"keepLocal", "resolve"} /\ local # t.snap
    <3>1. UNCHANGED dialogVars /\ Acknowledge(w, "load")
      BY <2>4 DEF Conflicted
    <3>2. QED
      BY <2>4, <3>1 DEF Acknowledge, Goto, After, dialogVars
  <2>5. QED
    BY <2>1, <2>2, <2>3, <2>4
<1>4. choice'[w] \in {choice[w], None} /\ (label = "login" => choice'[w] = None)
  BY <1>3, Closed
<1>5. /\ Ack(label) \in Task /\ Prepared(Ack(label)) /\ Informed(server, waived, nextId, Ack(label))
      /\ Reconciled(w, Ack(label), choice'[w], login')
  BY <1>1, <1>3, <1>4, AckTask
<1>6. \/ conflict' = conflict
      \/ CloseConflict(w)
      \/ \E d \in Conflict : /\ Knows(server, waived, d.server, d.version)
                             /\ conflict' = [conflict EXCEPT ![w] = d]
  <2>1. t.reply \in Answer /\ t.snap \in Archive /\ Answers(server, waived, t.record, t.reply)
    BY <1>1 DEF Prepared, Task, Informed
  <2>2. QED
    BY <1>3, <2>1, OpenedConflict
<1> HIDE DEF Ack
<1>7. QED
  BY <1>2, <1>3, <1>5, <1>6, AppliedStep

LEMMA CompleteKeeps ==
    ASSUME IInv, NEW w \in Window, Complete(w)
    PROVE  IInv'
<1> DEFINE t == task[w]
           pending == {r \in journal : r.id # t.record.id}
<1>1. /\ t \in Task /\ Prepared(t) /\ Informed(server, waived, nextId, t)
      /\ Reconciled(w, t, choice[w], login) /\ t.pc = "ack" /\ t.after \in After
      /\ UNCHANGED <<local, nextId, conflict, choice, serverVars, net, made, accepted, waived>>
      /\ journal' = pending
  BY OfWindow DEF Complete, ghostVars, Prepared
<1>2. pending \in SUBSET journal /\ journal \in SUBSET Record
  BY DEF IInv, Memory
<1> HIDE DEF pending
<1>3. PICK t2 \in Task : /\ task' = [task EXCEPT ![w] = t2]
                         /\ Prepared(t2) /\ Informed(server, waived, nextId, t2)
                         /\ Reconciled(w, t2, choice[w], login')
                         /\ login' \in {login, login \cup {w}}
  <2>1. CASE t.after = "idle"
    <3>1. task' = [task EXCEPT ![w] = Idle] /\ login' = login
      BY <2>1 DEF Complete, Goto
    <3>2. w \in login' => choice[w] = None
      BY <1>1, <3>1 DEF Reconciled
    <3>3. Reconciled(w, Idle, choice[w], login')
      BY <3>2, IdleTask
    <3>4. QED
      BY <3>1, <3>3, IdleTask
  <2>2. CASE t.after = "login"
    <3>1. task' = [task EXCEPT ![w] = Round("login", pending)] /\ login' = login \cup {w}
      BY <2>2 DEF Complete, Goto, pending
    <3>2. choice[w] = None
      BY <1>1, <2>2 DEF Reconciled
    <3>3. pending \in SUBSET Record /\ \A r \in pending : Honest(server, waived, nextId, r)
      BY <1>2 DEF IInv, Mutations
    <3>4. QED
      BY <3>1, <3>2, <3>3, RoundTask
  <2>3. CASE t.after = "plain"
    <3>1. task' = [task EXCEPT ![w] = Start(w, "plain", pending)] /\ login' = login
      BY <2>3 DEF Complete, Goto, pending
    <3>2. QED
      BY <1>2, <3>1, StartTask
  <2>4. CASE t.after \in {"load", "replay"}
    <3> DEFINE t2 == [t EXCEPT !.pc = t.after, !.record = None, !.after = None]
    <3>1. task' = [task EXCEPT ![w] = t2] /\ login' = login
      BY <2>4 DEF Complete, Goto
    <3>2. /\ t2 \in Task /\ t2.pc = t.after /\ t2.purpose = t.purpose /\ t2.todo = t.todo
          /\ t2.record = None /\ t2.reply = t.reply
      BY <1>1, <2>4 DEF Task, Stage
    <3> HIDE DEF t2
    <3>3. Prepared(t2) /\ Informed(server, waived, nextId, t2) /\ Reconciled(w, t2, choice[w], login)
      BY <1>1, <2>4, <3>2 DEF Prepared, Informed, Reconciled
    <3>4. QED
      BY <3>1, <3>2, <3>3
  <2>5. QED
    BY <1>1, <2>1, <2>2, <2>3, <2>4 DEF After
<1>4. /\ server' = server /\ receipts' = receipts /\ made' = made /\ accepted' = accepted
      /\ waived' = waived /\ waived' \in Content /\ nextId' \in Nat /\ nextId' = nextId /\ nextId <= nextId'
      /\ journal' \in SUBSET Record /\ (\A r \in journal' : r \in journal) /\ local' = local
      /\ net' \in SUBSET Request /\ (\A m \in net' : m \in net)
      /\ conflict' = conflict /\ choice' = choice
      /\ conflict' \in [Window -> Conflict \cup {None}] /\ choice' \in [Window -> Choice \cup {None}]
  BY <1>1, <1>2 DEF serverVars, IInv, Memory
<1>5. login' \in SUBSET Window /\ \A v \in Window \ {w} : v \in login' <=> v \in login
  BY <1>3 DEF IInv, Memory
<1>6. Informed(server, waived', nextId', t2) /\ Reconciled(w, t2, choice'[w], login')
  BY <1>3, <1>4
<1>7. QED
  BY <1>3, <1>4, <1>5, <1>6, WindowStep

-----------------------------------------------------------------------------
(* Submissions.                                                             *)

(* getOrCreate names the intent it was asked for, by the id it bore before  *)
(* or by one never drawn.                                                   *)
LEMMA Identity ==
    ASSUME journal \in SUBSET Record, nextId \in Nat, NEW op \in {"sync", "resolve"},
           NEW base \in Nat, NEW content \in Content, NEW expected \in Archive
    PROVE  LET r == GetOrCreate(op, base, content, expected)
           IN  /\ r \in Record /\ r.op = op /\ r.base = base /\ r.content = content
               /\ r \in journal \/ (r.id = nextId /\ r.expected = expected)
<1> DEFINE same == {r \in journal : r.op = op /\ r.base = base /\ r.content = content}
           new == [op |-> op, base |-> base, content |-> content, expected |-> expected, id |-> nextId]
<1>1. CASE same # {}
  <2>1. GetOrCreate(op, base, content, expected) \in same
    BY <1>1 DEF GetOrCreate
  <2>2. QED
    BY <2>1
<1>2. CASE same = {}
  <2>1. GetOrCreate(op, base, content, expected) = new
    BY <1>2 DEF GetOrCreate
  <2>2. new \in Record
    BY DEF Record
  <2>3. QED
    BY <2>1, <2>2
<1>3. QED
  BY <1>1, <1>2

LEMMA SubmitKeeps ==
    ASSUME IInv, NEW w \in Window, NEW t \in Task, NEW op \in {"sync", "resolve"},
           NEW base \in Nat, NEW content \in Content, NEW expected \in Archive,
           Submit(w, t, op, base, content, expected),
           UNCHANGED <<local, conflict, login, serverVars, made, accepted>>,
           waived' \in Content, waived \subseteq waived',
           Knows(server, waived', content, base), expected.content \subseteq content \cup waived',
           \/ choice' = choice
           \/ \E d \in Choice : /\ Knows(server, waived', d.server, d.version)
                                /\ choice' = [choice EXCEPT ![w] = d],
           t.purpose \in Purpose, t.snap \in Archive, t.snap.content \subseteq content \cup waived',
           t.reply = None, \A r \in t.todo : Honest(server, waived, nextId, r),
           w \in login => choice'[w] = None /\ t.purpose \notin {"plain", "compare"},
           t.purpose = "login" => choice'[w] = None
    PROVE  IInv'
<1> DEFINE r == GetOrCreate(op, base, content, expected)
           t2 == [t EXCEPT !.pc = "wait", !.record = r]
<1>1. /\ journal' = journal \cup {r} /\ nextId' = IF r \in journal THEN nextId ELSE nextId + 1
      /\ net' = net \cup {[to |-> w, record |-> r]} /\ task' = [task EXCEPT ![w] = t2]
  BY DEF Submit
<1>2. /\ r \in Record /\ r.base = base /\ r.content = content
      /\ r \in journal \/ (r.id = nextId /\ r.expected = expected)
  BY Identity DEF IInv, Memory
<1> HIDE DEF r
<1>3. /\ nextId \in Nat /\ nextId' \in Nat /\ nextId <= nextId'
      /\ r \notin journal => nextId' = nextId + 1
  BY <1>1 DEF IInv, Memory
<1>4. Advance(server, waived, nextId, server', waived', nextId') /\ server' = server
      /\ receipts' = receipts /\ made' = made /\ accepted' = accepted
  BY <1>3 DEF Advance, serverVars
<1>5. Honest(server, waived', nextId', r)
  <2>1. CASE r \in journal
    BY <1>3, <1>4, <2>1, HonestLater DEF IInv, Memory, Mutations
  <2>2. CASE r \notin journal
    BY <1>2, <1>3, <2>2 DEF Honest
  <2>3. QED
    BY <2>1, <2>2
<1>6. /\ journal' \in SUBSET Record /\ (\A x \in journal' : x \in journal \/ Honest(server, waived', nextId', x))
      /\ net' \in SUBSET Request /\ (\A m \in net' : m \in net \/ Honest(server, waived', nextId', m.record))
  BY <1>1, <1>2, <1>5 DEF IInv, Memory, Request
<1>7. /\ t2 \in Task /\ t2.pc = "wait" /\ t2.purpose = t.purpose /\ t2.todo = t.todo
      /\ t2.snap = t.snap /\ t2.record = r /\ t2.reply = None
  BY <1>2 DEF Task, Stage
<1> HIDE DEF t2
<1>8. Prepared(t2)
  BY <1>2, <1>7 DEF Prepared
<1>9. Informed(server, waived', nextId', t2)
  <2>1. \A x \in t2.todo : Honest(server, waived', nextId', x)
    <3> TAKE x \in t2.todo
    <3>1. x \in Record /\ Honest(server, waived, nextId, x)
      BY <1>7 DEF Task
    <3>2. QED
      BY <1>3, <1>4, <3>1, HonestLater DEF IInv, Memory
  <2>2. t2.snap.content \subseteq t2.record.content \cup waived'
    BY <1>2, <1>7
  <2>3. QED
    BY <1>5, <1>7, <2>1, <2>2 DEF Informed
<1>10. Reconciled(w, t2, choice'[w], login')
  BY <1>7 DEF Reconciled
<1>11. /\ choice' \in [Window -> Choice \cup {None}]
       /\ \A v \in Window \ {w} : choice'[v] = choice[v] /\ (v \in login' <=> v \in login)
       /\ \A v \in Window : \/ choice'[v] \in {choice[v], None}
                            \/ Knows(server, waived', choice'[v].server, choice'[v].version)
  BY DEF IInv, Memory
<1>12. /\ local' = local /\ login' \in SUBSET Window /\ conflict' \in [Window -> Conflict \cup {None}]
       /\ \A v \in Window : conflict'[v] = conflict[v]
  BY DEF IInv, Memory
<1>13. QED
  BY <1>1, <1>3, <1>4, <1>6, <1>7, <1>8, <1>9, <1>10, <1>11, <1>12, WindowStep

LEMMA UploadKeeps ==
    ASSUME IInv, NEW w \in Window, Upload(w)
    PROVE  IInv'
<1> DEFINE t == task[w]
           base == IF t.purpose = "login" THEN t.seen.version ELSE t.snap.base
           expected == [t.snap EXCEPT !.base = base]
<1>1. /\ t \in Task /\ Prepared(t) /\ Informed(server, waived, nextId, t)
      /\ Reconciled(w, t, choice[w], login) /\ t.pc = "assess"
      /\ UNCHANGED <<local, conflict, choice, login, serverVars, made, accepted, waived>>
      /\ Submit(w, t, "sync", base, t.snap.content, expected)
  BY OfWindow DEF Upload, ghostVars, dialogVars
<1>2. waived' \in Content /\ waived \subseteq waived' /\ choice' = choice /\ waived' = waived
  BY <1>1 DEF IInv, Memory
<1>3. t.snap \in Archive /\ t.snap.content \in Content /\ t.snap.base \in Nat
      /\ Knows(server, waived, t.snap.content, t.snap.base)
  BY <1>1 DEF Prepared, Informed, Archive
<1>4. base \in Nat /\ Knows(server, waived, t.snap.content, base)
  <2>1. CASE t.purpose = "login"
    <3>1. t.seen \in State /\ Knows(server, waived, t.seen.content, t.seen.version)
          /\ t.seen.version \in Nat
      BY <1>1, <2>1 DEF Prepared, Informed, State
    <3>2. t.seen.content = {}
      BY <2>1 DEF Upload
    <3>3. QED
      BY <2>1, <3>1, <3>2 DEF Knows
  <2>2. CASE t.purpose # "login"
    BY <1>3, <2>2
  <2>3. QED
    BY <2>1, <2>2
<1>5. expected \in Archive /\ expected.content = t.snap.content
  BY <1>3, <1>4 DEF Archive
<1>6. /\ t.purpose \in Purpose /\ t.reply = None
      /\ \A r \in t.todo : Honest(server, waived, nextId, r)
      /\ w \in login => choice[w] = None /\ t.purpose \notin {"plain", "compare"}
      /\ t.purpose = "login" => choice[w] = None
  BY <1>1 DEF Prepared, Informed, Reconciled
<1> HIDE DEF base, expected
<1>7. QED
  BY <1>1, <1>2, <1>3, <1>4, <1>5, <1>6, SubmitKeeps

(* A task that starts from a dialog.                                        *)
LEMMA DialogTask ==
    ASSUME NEW p \in {"keepLocal", "resolve"}, NEW a \in Archive
    PROVE  LET t == [Idle EXCEPT !.purpose = p, !.snap = a]
           IN  t \in Task /\ t.purpose = p /\ t.snap = a /\ t.todo = {} /\ t.reply = None
<1>1. Idle \in Task
  BY IdleTask
<1>2. [Idle EXCEPT !.purpose = p, !.snap = a] \in Task
  BY <1>1 DEF Task, Purpose
<1>3. QED
  BY <1>2 DEF Idle

LEMMA KeepLocalKeeps ==
    ASSUME IInv, NEW w \in Window, KeepLocal(w)
    PROVE  IInv'
<1> DEFINE c == choice[w]
           t == [Idle EXCEPT !.purpose = "keepLocal", !.snap = c.base]
           d == [c EXCEPT !.pick = "local"]
<1>1. /\ c \in Choice /\ c # None /\ choice' = [choice EXCEPT ![w] = d]
      /\ waived' = waived \cup (c.server \ c.base.content)
      /\ Submit(w, t, "resolve", c.version, c.base.content, c.base)
      /\ UNCHANGED <<local, conflict, login, serverVars, made, accepted>>
  BY OfWindow DEF KeepLocal
<1>2. /\ c.base \in Archive /\ c.base.content \in Content /\ c.version \in Nat /\ c.server \in Content
  BY <1>1 DEF Choice, Archive
<1>3. waived' \in Content /\ waived \subseteq waived'
  BY <1>1, <1>2 DEF IInv, Memory, Content
<1>4. Knows(server, waived, c.server, c.version) /\ w \notin login
  BY <1>1 DEF IInv, Dialogs, Tasks, Reconciled
<1>5. Knows(server, waived', c.base.content, c.version) /\ Knows(server, waived', c.server, c.version)
  BY <1>1, <1>4 DEF Knows
<1>6. d \in Choice /\ d.server = c.server /\ d.version = c.version
  BY <1>1 DEF Choice
<1>7. t \in Task /\ t.purpose = "keepLocal" /\ t.snap = c.base /\ t.todo = {} /\ t.reply = None
  BY <1>2, DialogTask
<1> HIDE DEF d, t, c
<1>8. t.purpose \in Purpose
  BY <1>7 DEF Purpose
<1>9. QED
  BY <1>1, <1>2, <1>3, <1>4, <1>5, <1>6, <1>7, <1>8, SubmitKeeps

LEMMA ResolveConflictKeeps ==
    ASSUME IInv, NEW w \in Window, NEW resolved \in Content, ResolveConflict(w, resolved)
    PROVE  IInv'
<1> DEFINE c == conflict[w]
           t == [Idle EXCEPT !.purpose = "resolve", !.snap = c.base]
<1>1. /\ c \in Conflict /\ c # None /\ choice' = choice
      /\ waived' = waived \cup ((c.base.content \cup c.server) \ resolved)
      /\ Submit(w, t, "resolve", c.version, resolved, c.base)
      /\ UNCHANGED <<local, conflict, login, serverVars, made, accepted>>
  BY OfWindow DEF ResolveConflict, dialogVars
<1>2. /\ c.base \in Archive /\ c.base.content \in Content /\ c.version \in Nat /\ c.server \in Content
  BY <1>1 DEF Conflict, Archive
<1>3. waived' \in Content /\ waived \subseteq waived'
  BY <1>1, <1>2 DEF IInv, Memory, Content
<1>4. Knows(server, waived, c.server, c.version) /\ (w \in login => choice[w] = None)
  BY <1>1 DEF IInv, Dialogs, Tasks, Reconciled
<1>5. Knows(server, waived', resolved, c.version) /\ c.base.content \subseteq resolved \cup waived'
  BY <1>1, <1>4 DEF Knows
<1>6. t \in Task /\ t.purpose = "resolve" /\ t.snap = c.base /\ t.todo = {} /\ t.reply = None
  BY <1>2, DialogTask
<1> HIDE DEF t, c
<1>7. t.purpose \in Purpose
  BY <1>6 DEF Purpose
<1>8. QED
  BY <1>1, <1>2, <1>3, <1>4, <1>5, <1>6, <1>7, SubmitKeeps

-----------------------------------------------------------------------------
(* The learner, the end of a window, the server.                            *)

(* A step that runs no task.                                                *)
LEMMA TasksLater ==
    ASSUME Memory, Tasks, server' \in State, nextId' \in Nat,
           Advance(server, waived, nextId, server', waived', nextId'),
           task' = task, login' = login, \A v \in Window : choice'[v] \in {choice[v], None}
    PROVE  Tasks'
<1> SUFFICES ASSUME NEW v \in Window
             PROVE  /\ Prepared(task[v])
                    /\ Informed(server', waived', nextId', task[v])
                    /\ Reconciled(v, task[v], choice'[v], login)
  BY DEF Tasks, Prepared, Informed, Reconciled, Honest, Answers, Knows
<1>1. Prepared(task[v]) /\ Informed(server, waived, nextId, task[v]) /\ task[v] \in Task
  BY DEF Tasks, Memory
<1>2. Informed(server', waived', nextId', task[v])
  BY <1>1, InformedLater DEF Memory
<1>3. Reconciled(v, task[v], choice'[v], login)
  BY DEF Tasks, Reconciled
<1>4. QED
  BY <1>1, <1>2, <1>3

LEMMA EditLocallyKeeps ==
    ASSUME IInv, NEW w \in Window, NEW e \in LocalEdit, EditLocally(w, e)
    PROVE  IInv'
<1>1. /\ local' = [local EXCEPT !.content = @ \cup {e}] /\ made' = made \cup {e}
      /\ UNCHANGED <<journal, nextId, task, dialogVars, serverVars, net, accepted, waived>>
  BY DEF EditLocally
<1>2. local' \in Archive /\ local'.content = local.content \cup {e} /\ local'.base = local.base
  BY <1>1 DEF IInv, Memory, Archive, Content, Edit
<1>3. Memory'
  BY <1>1, <1>2 DEF IInv, Memory, dialogVars, serverVars
<1>4. Advance(server, waived, nextId, server', waived', nextId')
  BY <1>1 DEF IInv, Memory, Advance, serverVars
<1>5. Tasks'
  BY <1>1, <1>3, <1>4, TasksLater DEF IInv, Memory, dialogVars
<1>6. Dialogs' /\ Mutations'
  BY <1>1, <1>3, <1>4, Frame DEF IInv, Memory, dialogVars, serverVars
<1>7. BaseIsHonest' /\ NoLocalEditLost' /\ NoCloudEditLost'
  BY <1>1, <1>2 DEF IInv, BaseIsHonest, Knows, NoLocalEditLost, NoCloudEditLost, serverVars
<1>8. QED
  BY <1>3, <1>5, <1>6, <1>7 DEF IInv

LEMMA PickServerKeeps ==
    ASSUME IInv, NEW w \in Window, PickServer(w)
    PROVE  IInv'
<1> DEFINE c == choice[w]
           next == [content |-> c.server, base |-> c.version]
<1>1. /\ task[w].pc = "idle" /\ c \in Choice /\ c # None /\ CloseChoice(w)
      /\ SaveIfUnchanged(c.base, next)
      /\ UNCHANGED <<journal, nextId, conflict, serverVars, net, made, accepted>>
  BY OfWindow DEF PickServer
<1>2. c.base \in Archive /\ c.server \in Content /\ c.version \in Nat /\ c.base.content \in Content
  BY <1>1 DEF Choice, Archive
<1>3. next \in Archive /\ next.content = c.server /\ next.base = c.version
  BY <1>2 DEF Archive
<1>4. Knows(server, waived, c.server, c.version)
  BY <1>1 DEF IInv, Dialogs
<1> HIDE DEF next
<1>5. choice'[w] = None
  BY <1>1, Closed
<1>6. conflict' = conflict
  BY <1>1
<1>7. CASE local = c.base
  <2>1. /\ waived' = waived \cup (c.base.content \ c.server) /\ task' = task /\ login' = login
        /\ local' = next
    BY <1>1, <1>7 DEF PickServer, SaveIfUnchanged
  <2>2. waived' \in Content /\ waived \subseteq waived'
    BY <1>2, <2>1 DEF IInv, Memory, Content
  <2>3. /\ local' \in Archive /\ Knows(server, waived', local'.content, local'.base)
        /\ local.content \subseteq local'.content \cup waived'
    BY <1>3, <1>4, <1>7, <2>1 DEF Knows
  <2>4. task[w] \in Task /\ task' = [task EXCEPT ![w] = task[w]]
    BY <2>1 DEF IInv, Memory
  <2>5. Prepared(task[w]) /\ Informed(server, waived', nextId, task[w])
    <3>1. Advance(server, waived, nextId, server, waived', nextId)
      BY <2>2 DEF Advance, IInv, Memory
    <3>2. QED
      BY <3>1, OfWindow, InformedLater, <2>2 DEF IInv, Memory
  <2>6. Reconciled(w, task[w], choice'[w], login')
    BY <1>1, <1>5, <2>1 DEF Reconciled
  <2>7. QED
    BY <1>1, <1>6, <2>1, <2>2, <2>3, <2>4, <2>5, <2>6, AppliedStep
<1>8. CASE local # c.base
  <2>1. /\ waived' = waived /\ task' = [task EXCEPT ![w] = Round("login", journal)]
        /\ login' = login \cup {w} /\ local' = local
    BY <1>1, <1>8 DEF PickServer, SaveIfUnchanged, Goto
  <2>2. waived' \in Content /\ waived \subseteq waived'
    BY <2>1 DEF IInv, Memory
  <2>3. /\ Round("login", journal) \in Task /\ Prepared(Round("login", journal))
        /\ Informed(server, waived', nextId, Round("login", journal))
        /\ Reconciled(w, Round("login", journal), choice'[w], login')
    BY <1>5, <2>1, RoundTask DEF IInv, Memory, Mutations
  <2>4. QED
    BY <1>1, <1>6, <2>1, <2>2, <2>3, AppliedStep
<1>9. QED
  BY <1>7, <1>8

LEMMA PickMergeKeeps ==
    ASSUME IInv, NEW w \in Window, PickMerge(w)
    PROVE  IInv'
<1> DEFINE t == Start(w, "plain", journal)
<1>1. /\ CloseChoice(w) /\ task' = [task EXCEPT ![w] = t]
      /\ UNCHANGED <<storedVars, conflict, login, serverVars, net, made, accepted, waived>>
  BY DEF PickMerge, Goto
<1>2. /\ t \in Task /\ Prepared(t) /\ Informed(server, waived, nextId, t)
      /\ Reconciled(w, t, None, login)
  BY StartTask
<1>3. choice'[w] = None
  BY <1>1, Closed
<1> HIDE DEF t
<1>4. /\ waived' \in Content /\ waived' = waived /\ local' = local /\ conflict' = conflict /\ login' = login
      /\ UNCHANGED <<journal, nextId, serverVars, net, made, accepted>>
  BY <1>1 DEF IInv, Memory, storedVars
<1>5. QED
  BY <1>1, <1>2, <1>3, <1>4, AppliedStep

LEMMA DismissKeeps ==
    ASSUME IInv, NEW w \in Window, Dismiss(w)
    PROVE  IInv'
<1>1. /\ (choice' = choice \/ CloseChoice(w)) /\ (conflict' = conflict \/ CloseConflict(w))
      /\ UNCHANGED <<storedVars, task, login, serverVars, net, made, accepted, waived>>
  BY DEF Dismiss
<1>2. choice'[w] \in {choice[w], None}
  BY <1>1, Closed
<1>3. task[w] \in Task /\ task' = [task EXCEPT ![w] = task[w]]
  BY <1>1 DEF IInv, Memory
<1>4. Prepared(task[w]) /\ Informed(server, waived, nextId, task[w])
      /\ Reconciled(w, task[w], choice'[w], login)
  BY <1>2, OfWindow DEF Reconciled
<1>5. /\ waived' \in Content /\ waived' = waived /\ local' = local /\ login' = login
      /\ UNCHANGED <<journal, nextId, serverVars, net, made, accepted>>
  BY <1>1 DEF IInv, Memory, storedVars
<1>6. QED
  BY <1>1, <1>3, <1>4, <1>5, AppliedStep

LEMMA GiveUpKeeps ==
    ASSUME IInv, NEW w \in Window, GiveUp(w)
    PROVE  IInv'
<1>1. /\ task' = [task EXCEPT ![w] = Idle]
      /\ UNCHANGED <<storedVars, dialogVars, serverVars, made, accepted, waived>>
      /\ net' \subseteq net
  BY DEF GiveUp, Finish, Goto
<1>2. net' \in SUBSET Request /\ \A m \in net' : m \in net
  BY <1>1 DEF IInv, Memory
<1>3. w \in login => choice[w] = None
  BY OfWindow DEF Reconciled
<1>4. Reconciled(w, Idle, choice[w], login)
  BY <1>3, IdleTask
<1>5. QED
  BY <1>1, <1>2, <1>4, IdleTask, TaskStep DEF dialogVars, IInv, Memory

LEMMA RestartKeeps ==
    ASSUME IInv, NEW w \in Window, Restart(w)
    PROVE  IInv'
<1>1. /\ task' = [task EXCEPT ![w] = Idle] /\ CloseConflict(w) /\ CloseChoice(w)
      /\ login' = login \ {w}
      /\ UNCHANGED <<storedVars, serverVars, net, made, accepted, waived>>
  BY DEF Restart, Finish, Goto
<1>2. Reconciled(w, Idle, choice'[w], login')
  BY <1>1, IdleTask
<1>3. /\ waived' \in Content /\ waived' = waived /\ local' = local
      /\ UNCHANGED <<journal, nextId, serverVars, net, made, accepted>>
  BY <1>1 DEF IInv, Memory, storedVars
<1>4. QED
  BY <1>1, <1>2, <1>3, IdleTask, AppliedStep

LEMMA RemoteWriteKeeps ==
    ASSUME IInv, NEW e \in RemoteEdit, RemoteWrite(e)
    PROVE  IInv'
<1>1. /\ server' = [content |-> server.content \cup {e}, version |-> server.version + 1]
      /\ accepted' = accepted \cup {e}
      /\ UNCHANGED <<storedVars, task, dialogVars, receipts, net, made, waived>>
  BY DEF RemoteWrite
<1>2. server' \in State /\ server'.version > server.version /\ server.content \subseteq server'.content
      /\ e \in server'.content
  BY <1>1 DEF IInv, Memory, State, Content, Edit
<1>3. Advance(server, waived, nextId, server', waived', nextId')
  BY <1>1, <1>2 DEF IInv, Memory, Advance, storedVars
<1>4. Memory'
  BY <1>1, <1>2 DEF IInv, Memory, dialogVars, storedVars, Content, Edit
<1>5. Tasks'
  BY <1>1, <1>3, <1>4, TasksLater DEF IInv, Memory, dialogVars
<1>6. Dialogs' /\ Mutations'
  BY <1>1, <1>3, <1>4, Frame DEF IInv, Memory, dialogVars, storedVars
<1>7. local.base \in Nat /\ Knows(server', waived', local.content, local.base)
  BY <1>2, <1>3, KnowsLater DEF IInv, Memory, Archive, BaseIsHonest
<1>8. local' = local /\ made' = made /\ waived' = waived
  BY <1>1 DEF storedVars
<1>9. BaseIsHonest' /\ NoLocalEditLost' /\ NoCloudEditLost'
  BY <1>1, <1>2, <1>7, <1>8 DEF IInv, BaseIsHonest, Knows, NoLocalEditLost, NoCloudEditLost
<1>10. QED
  BY <1>4, <1>5, <1>6, <1>9 DEF IInv

(* What the server may answer: a refusal shows its state, and whatever it   *)
(* applies becomes its next version.                                        *)
LEMMA ServerAnswerCases ==
    ASSUME server \in State, NEW r \in Record
    PROVE  LET a == ServerAnswer(r)
           IN  /\ a \in Answer
               /\ \/ a.kind = "conflict" /\ a.content = server.content /\ a.version = server.version
                  \/ /\ a.kind \in {"fast-forward", "resolved"} /\ a.content = r.content
                     /\ a.version = server.version + 1 /\ r.base = server.version
                  \/ a.kind = "merged" /\ a.version = server.version + 1
<1> DEFINE a == ServerAnswer(r)
           applied(kind, content) ==
               [kind |-> kind, content |-> content, version |-> server.version + 1]
           refused == [kind |-> "conflict", content |-> server.content, version |-> server.version]
<1>1. r.content \in Content /\ server.content \in Content /\ server.version \in Nat
  BY DEF Record, State
<1>2. r.op \in {"sync", "resolve"}
  BY DEF Record
<1>3. CASE r.base = server.version /\ r.op = "sync"
  <2>1. a = applied("fast-forward", r.content)
    BY <1>3 DEF ServerAnswer
  <2>2. QED
    BY <1>1, <1>3, <2>1 DEF Answer
<1>4. CASE r.base = server.version /\ r.op = "resolve"
  <2>1. a = applied("resolved", r.content)
    BY <1>4 DEF ServerAnswer
  <2>2. QED
    BY <1>1, <1>4, <2>1 DEF Answer
<1>5. CASE r.base # server.version /\ r.op = "sync" /\ ~Conflicting(r.content, server.content)
  <2>1. a = applied("merged", Merge(r.content, server.content))
    BY <1>5 DEF ServerAnswer
  <2>2. Merge(r.content, server.content) \in Content
    BY <1>1 DEF Merge, Content
  <2> HIDE DEF a
  <2>3. QED
    BY <1>1, <2>1, <2>2 DEF Answer, a
<1>6. CASE r.base # server.version /\ ~(r.op = "sync" /\ ~Conflicting(r.content, server.content))
  <2>1. a = refused
    BY <1>6 DEF ServerAnswer
  <2>2. QED
    BY <1>1, <2>1 DEF Answer
<1>7. QED
  BY <1>2, <1>3, <1>4, <1>5, <1>6

(* An answer reaches the window that waits for it, and nobody else.         *)
LEMMA DeliverTask ==
    ASSUME Memory, Tasks, server' \in State, nextId' \in Nat,
           Advance(server, waived, nextId, server', waived', nextId'),
           choice' = choice, login' = login,
           NEW m \in Request, NEW a \in Answer, Deliver(m, a), Answers(server', waived', m.record, a)
    PROVE  Tasks' /\ task' \in [Window -> Task]
<1>1. CASE ~Waiting(m)
  <2>1. task' = task
    BY <1>1 DEF Deliver
  <2>2. Tasks'
    BY <2>1, TasksLater
  <2>3. QED
    BY <2>1, <2>2 DEF Memory
<1>2. CASE Waiting(m)
  <2> DEFINE w == m.to
             t == task[w]
             t2 == [t EXCEPT !.reply = a]
  <2>1. w \in Window /\ t \in Task /\ Prepared(t) /\ Informed(server, waived, nextId, t)
        /\ Reconciled(w, t, choice[w], login)
    BY DEF Request, Memory, Tasks
  <2>2. t.pc \in {"wait", "replaying"} /\ t.record = m.record
    BY <1>2 DEF Waiting
  <2>3. task' = [task EXCEPT ![w] = t2]
    BY <1>2, <2>1 DEF Deliver, Memory
  <2>4. Informed(server', waived', nextId', t)
    BY <2>1, InformedLater DEF Memory
  <2>5. /\ t2 \in Task /\ t2.pc = t.pc /\ t2.purpose = t.purpose /\ t2.todo = t.todo /\ t2.snap = t.snap
        /\ t2.seen = t.seen /\ t2.record = t.record /\ t2.reply = a /\ t2.after = t.after
    BY <2>1 DEF Task
  <2> HIDE DEF t2
  <2>6. Prepared(t2) /\ Reconciled(w, t2, choice'[w], login')
    BY <2>1, <2>2, <2>5 DEF Prepared, Reconciled
  <2>7. Informed(server', waived', nextId', t2)
    BY <2>2, <2>4, <2>5 DEF Informed
  <2> HIDE DEF w, t
  <2>8. Tasks'
    BY <2>1, <2>3, <2>5, <2>6, <2>7, OneWindow
  <2>9. task' \in [Window -> Task]
    BY <2>3, <2>5 DEF Memory
  <2>10. QED
    BY <2>8, <2>9
<1>3. QED
  BY <1>1, <1>2

LEMMA ServeKeeps ==
    ASSUME IInv, NEW m \in net, Serve(m)
    PROVE  IInv'
<1> DEFINE r == m.record
<1>1. /\ m \in Request /\ r \in Record /\ Honest(server, waived, nextId, r)
      /\ net' = net \ {m} /\ UNCHANGED <<storedVars, dialogVars, made>>
  BY DEF Serve, IInv, Memory, Mutations, Request
<1>2. net' \in SUBSET Request /\ (\A x \in net' : x \in net) /\ local' = local /\ journal' = journal
      /\ nextId' = nextId /\ nextId \in Nat /\ conflict' = conflict /\ choice' = choice /\ login' = login
  BY <1>1 DEF storedVars, dialogVars, IInv, Memory
<1>3. CASE UNCHANGED <<serverVars, accepted, waived>> /\ \E a \in Answer : Deliver(m, a) /\ Answers(server, waived, r, a)
  <2>1. PICK a \in Answer : Deliver(m, a) /\ Answers(server, waived, r, a)
    BY <1>3
  <2>2. server' = server /\ receipts' = receipts /\ accepted' = accepted /\ waived' = waived
        /\ server' \in State /\ nextId' \in Nat
    BY <1>2, <1>3 DEF serverVars, IInv, Memory
  <2>3. Advance(server, waived, nextId, server', waived', nextId')
    BY <1>2, <2>2 DEF Advance
  <2>4. Tasks' /\ task' \in [Window -> Task]
    BY <1>1, <1>2, <2>1, <2>2, <2>3, DeliverTask DEF IInv
  <2>5. Dialogs' /\ Mutations'
    BY <1>2, <2>2, <2>3, Frame DEF IInv
  <2>6. Memory'
    BY <1>1, <1>2, <2>2, <2>4 DEF IInv, Memory
  <2>7. QED
    BY <1>1, <1>2, <2>2, <2>4, <2>5, <2>6, EditsStay DEF IInv
<1>4. CASE \E x \in receipts : x.record = r
  <2>1. PICK x \in receipts : x.record = r /\ Deliver(m, x.answer)
    BY <1>4 DEF Serve
  <2>2. x.answer \in Answer /\ Answers(server, waived, r, x.answer)
    BY <2>1 DEF IInv, Memory, Receipt, Mutations
  <2>3. UNCHANGED <<serverVars, accepted, waived>>
    BY <1>4 DEF Serve
  <2>4. QED
    BY <1>3, <2>1, <2>2, <2>3
<1>5. CASE ~\E x \in receipts : x.record = r
  <2> DEFINE a == ServerAnswer(r)
  <2>1. Deliver(m, a) /\ server \in State
    BY <1>5 DEF Serve, IInv, Memory
  <2>2. a \in Answer
    BY <1>1, <2>1, ServerAnswerCases
  <2>3. CASE a.kind = "conflict"
    <3>1. a.content = server.content /\ a.version = server.version
      BY <1>1, <2>1, <2>3, ServerAnswerCases
    <3>2. Answers(server, waived, r, a)
      BY <2>3, <3>1, ReadState DEF Answers
    <3>3. UNCHANGED <<serverVars, accepted, waived>>
      BY <1>5, <2>3 DEF Serve
    <3>4. QED
      BY <1>3, <2>1, <2>2, <3>2, <3>3
  <2>4. CASE a.kind # "conflict"
    <3>1. /\ server' = [content |-> a.content, version |-> a.version]
          /\ receipts' = receipts \cup {[record |-> r, answer |-> a]}
          /\ accepted' = accepted \cup a.content
          /\ waived' = IF a.kind # "merged" THEN waived
                       ELSE waived \cup ((r.content \cup server.content) \ a.content)
      BY <1>5, <2>4 DEF Serve
    <3>2. /\ \/ /\ a.kind \in {"fast-forward", "resolved"} /\ a.content = r.content
                /\ r.base = server.version /\ waived' = waived
             \/ /\ a.kind = "merged"
                /\ waived' = waived \cup ((r.content \cup server.content) \ a.content)
          /\ a.version = server.version + 1
      BY <1>1, <2>1, <2>4, <3>1, ServerAnswerCases
    <3> HIDE DEF a
    <3>3. /\ a.content \in Content /\ a.version \in Nat /\ server.version \in Nat
          /\ server.content \in Content /\ r.content \in Content
      BY <1>1, <2>1, <2>2 DEF Answer, State, Record
    <3>4. server' \in State /\ server'.version > server.version /\ server'.content = a.content
          /\ server'.version = a.version
      BY <3>1, <3>2, <3>3 DEF State
    <3>5. waived \subseteq waived' /\ waived' \in Content /\ r.content \subseteq a.content \cup waived'
          /\ server.content \subseteq a.content \cup waived'
      BY <1>1, <3>2, <3>3 DEF IInv, Memory, Content, Honest, Knows
    <3>6. Advance(server, waived, nextId, server', waived', nextId') /\ nextId' \in Nat
      BY <1>2, <3>4, <3>5 DEF Advance
    <3>7. Answers(server', waived', r, a)
      BY <3>2, <3>3, <3>4, <3>5 DEF Answers, Knows
    <3>8. Tasks' /\ task' \in [Window -> Task]
      BY <1>1, <1>2, <2>1, <2>2, <3>4, <3>6, <3>7, DeliverTask DEF IInv
    <3>9. Dialogs' /\ Mutations'
      <4>1. \A x \in receipts' : x \in receipts \/ Answers(server', waived', x.record, x.answer)
        BY <3>1, <3>7
      <4>2. QED
        BY <1>2, <3>4, <3>6, <4>1, Frame DEF IInv
    <3>10. Memory'
      BY <1>1, <1>2, <2>2, <3>1, <3>3, <3>4, <3>5, <3>8 DEF IInv, Memory, Receipt, Content
    <3>11. BaseIsHonest'
      <4>1. local.base \in Nat /\ Knows(server', waived', local.content, local.base)
        BY <2>1, <3>4, <3>6, KnowsLater DEF IInv, Memory, Archive, BaseIsHonest
      <4>2. QED
        BY <1>2, <4>1 DEF BaseIsHonest, Knows
    <3>12. NoLocalEditLost' /\ NoCloudEditLost'
      BY <1>1, <1>2, <3>1, <3>4, <3>5 DEF IInv, NoLocalEditLost, NoCloudEditLost
    <3>13. QED
      BY <3>8, <3>9, <3>10, <3>11, <3>12 DEF IInv
  <2>5. QED
    BY <2>3, <2>4
<1>6. QED
  BY <1>4, <1>5

-----------------------------------------------------------------------------
(* The invariant.                                                           *)

LEMMA InitEstablishes == Init => IInv
<1> SUFFICES ASSUME Init PROVE IInv
  OBVIOUS
<1>1. Memory
  BY IdleTask DEF Init, Memory, Archive, Content, State
<1>2. Tasks
  BY IdleTask DEF Init, Tasks
<1>3. Dialogs /\ Mutations /\ BaseIsHonest /\ NoLocalEditLost /\ NoCloudEditLost
  BY DEF Init, Dialogs, Mutations, BaseIsHonest, Knows, NoLocalEditLost, NoCloudEditLost
<1>4. QED
  BY <1>1, <1>2, <1>3 DEF IInv

LEMMA StutterKeeps ==
    ASSUME IInv, UNCHANGED vars
    PROVE  IInv'
<1>1. UNCHANGED <<local, journal, nextId, task, conflict, choice, login, server, receipts, net,
                  made, accepted, waived>>
  BY DEF vars, storedVars, dialogVars, serverVars, ghostVars
<1>2. QED
  BY <1>1 DEF IInv, Memory, Tasks, Dialogs, Mutations, BaseIsHonest, NoLocalEditLost, NoCloudEditLost,
              Prepared, Informed, Reconciled, Honest, Answers, Knows

LEMMA NextKeeps ==
    ASSUME IInv, [Next]_vars
    PROVE  IInv'
<1>1. CASE UNCHANGED vars
  BY <1>1, StutterKeeps
<1>2. ASSUME NEW w \in Window, Recover(w) \/ PlainRound(w) \/ LogIn(w)
      PROVE  IInv'
  <2>1. CASE Recover(w)
    BY <2>1, BeginKeeps DEF Recover
  <2>2. CASE PlainRound(w)
    BY <2>2, BeginKeeps DEF PlainRound
  <2>3. QED
    BY <1>2, <2>1, <2>2, LogInKeeps
<1>3. ASSUME NEW w \in Window, Work(w)
      PROVE  IInv'
  BY <1>3, ReplayKeeps, ReplayedSyncKeeps, ReplayedResolveKeeps, ReadForCalibrationKeeps,
     CalibrateKeeps, LoadKeeps, AdoptKeeps, OfferChoiceKeeps, UploadKeeps, AnsweredKeeps,
     ConflictedKeeps, CompleteKeeps DEF Work
<1>4. ASSUME NEW w \in Window, PickServer(w) \/ PickLocal(w) \/ RetryPick(w) \/ PickMerge(w) \/ Dismiss(w)
      PROVE  IInv'
  <2>1. CASE PickLocal(w)
    BY <2>1, KeepLocalKeeps DEF PickLocal
  <2>2. CASE RetryPick(w)
    BY <2>2, KeepLocalKeeps DEF RetryPick
  <2>3. QED
    BY <1>4, <2>1, <2>2, PickServerKeeps, PickMergeKeeps, DismissKeeps
<1>5. QED
  BY <1>1, <1>2, <1>3, <1>4, EditLocallyKeeps, ResolveConflictKeeps, GiveUpKeeps, RestartKeeps,
     RemoteWriteKeeps, ServeKeeps DEF Next

(* What every state of every device and server satisfies.                   *)
THEOREM Invariance == Spec => []IInv
<1>1. IInv /\ [Next]_vars => IInv'
  BY NextKeeps
<1>2. QED
  BY <1>1, InitEstablishes, PTL DEF Spec

(* What is left of a window's last failure changes by Leave alone.          *)
RecoveryOK == recovery \in [Window -> {"off", "due", "error", "closed"}]

LEMMA LeaveKeeps ==
    ASSUME RecoveryOK, NEW w, NEW what \in {"off", "due", "error", "closed"}, Leave(w, what)
    PROVE  RecoveryOK'
BY DEF RecoveryOK, Leave

LEMMA RecoveryKeeps ==
    ASSUME RecoveryOK, [Next]_vars
    PROVE  RecoveryOK'
<1>1. CASE UNCHANGED recovery
  BY <1>1 DEF RecoveryOK
<1>2. CASE UNCHANGED vars
  BY <1>1, <1>2 DEF vars
<1>3. ASSUME NEW w \in Window, Recover(w) \/ PlainRound(w) \/ LogIn(w)
      PROVE  RecoveryOK'
  BY <1>3, LeaveKeeps DEF Recover, PlainRound, LogIn, Begin
<1>4. ASSUME NEW w \in Window, Work(w)
      PROVE  RecoveryOK'
  BY <1>1, <1>4, LeaveKeeps DEF Work, Ends
<1>5. ASSUME NEW w \in Window,
             \/ PickServer(w) \/ PickLocal(w) \/ RetryPick(w) \/ PickMerge(w) \/ Dismiss(w)
             \/ \E resolved \in Content : ResolveConflict(w, resolved)
      PROVE  RecoveryOK'
  BY <1>5, LeaveKeeps
     DEF PickServer, PickLocal, RetryPick, KeepLocal, PickMerge, Dismiss, ResolveConflict
<1>6. ASSUME NEW w \in Window, GiveUp(w) \/ Restart(w)
      PROVE  RecoveryOK'
  BY <1>6, LeaveKeeps DEF GiveUp, Restart
<1>7. CASE \/ \E w \in Window, e \in LocalEdit : EditLocally(w, e)
           \/ \E e \in RemoteEdit : RemoteWrite(e)
           \/ \E m \in net : Serve(m)
  BY <1>1, <1>7 DEF EditLocally, RemoteWrite, Serve
<1>8. QED
  BY <1>2, <1>3, <1>4, <1>5, <1>6, <1>7 DEF Next

(* The values the windows, the journal and the server hold are of their     *)
(* kinds at every await.                                                    *)
THEOREM TypeCorrect == Spec => []TypeOK
<1>1. IInv /\ RecoveryOK => TypeOK
  BY DEF IInv, Memory, Task, Stage, After, Tries, TypeOK, RecoveryOK
<1>2. Init => RecoveryOK
  BY DEF Init, RecoveryOK
<1>3. RecoveryOK /\ [Next]_vars => RecoveryOK'
  BY RecoveryKeeps
<1>4. QED
  BY <1>1, <1>2, <1>3, Invariance, PTL DEF Spec

(* No answer, replayed receipt, adoption or calibration overwrites an edit  *)
(* made on this device while the server was asked.                          *)
THEOREM LocalEditsKept == Spec => []NoLocalEditLost
<1>1. IInv => NoLocalEditLost
  BY DEF IInv
<1>2. QED
  BY <1>1, Invariance, PTL

(* No upload overwrites an edit the server held and the upload did not know.*)
THEOREM CloudEditsKept == Spec => []NoCloudEditLost
<1>1. IInv => NoCloudEditLost
  BY DEF IInv
<1>2. QED
  BY <1>1, Invariance, PTL

(* Whenever the device claims the server's version, its archive holds all   *)
(* the server has: a fast-forward from it replaces nothing unseen.          *)
THEOREM BaseVersionHonest == Spec => []BaseIsHonest
<1>1. IInv => BaseIsHonest
  BY DEF IInv
<1>2. QED
  BY <1>1, Invariance, PTL

-----------------------------------------------------------------------------
(* No upload before the learner's choice.                                   *)

(* A record that is new to the journal is held by the window alone that     *)
(* submits it: every other record in a window's hands bears an older id.    *)
LEMMA HeldIsOld ==
    ASSUME IInv, NEW w \in Window, NEW r \in Record, r.id = nextId
    PROVE  task[w].record # r
<1>1. CASE task[w].pc \in {"wait", "replaying", "ack"}
  <2>1. task[w].record \in Record /\ task[w].record.id < nextId
    BY <1>1, OfWindow DEF Prepared, Informed, Honest
  <2>2. QED
    BY <2>1 DEF Record, IInv, Memory
<1>2. CASE task[w].pc \notin {"wait", "replaying", "ack"}
  <2>1. task[w].record = None
    BY <1>2, OfWindow DEF Prepared
  <2>2. QED
    BY <2>1, NoneAssumption
<1>3. QED
  BY <1>1, <1>2

LEMMA SubmitIsOwn ==
    ASSUME IInv, NEW w \in Window, NEW t, NEW op \in {"sync", "resolve"},
           NEW base \in Nat, NEW content \in Content, NEW expected \in Archive,
           Submit(w, t, op, base, content, expected),
           NEW v \in Window, NEW r \in journal' \ journal, task'[v].record = r
    PROVE  v = w /\ r.op = op
<1>1. r = GetOrCreate(op, base, content, expected)
  BY DEF Submit
<1>2. r \in Record /\ r.op = op /\ r.id = nextId
  BY <1>1, Identity DEF IInv, Memory
<1>3. ASSUME v # w PROVE FALSE
  <2>1. task'[v] = task[v]
    BY <1>3 DEF Submit, IInv, Memory
  <2>2. QED
    BY <1>2, <2>1, HeldIsOld
<1>4. QED
  BY <1>2, <1>3

ChoiceFirst(w) ==
    /\ choice[w] = None
    /\ w \in login => task[w].seen # None /\ task[w].seen.content = {}

LEMMA UploadChecksChoice ==
    ASSUME IInv, NEW w \in Window, Upload(w)
    PROVE  ChoiceFirst(w)
<1>1. /\ Prepared(task[w]) /\ Reconciled(w, task[w], choice[w], login) /\ task[w].pc = "assess"
  BY OfWindow DEF Upload
<1>2. choice[w] = None
  BY <1>1 DEF Reconciled
<1>3. ASSUME w \in login PROVE task[w].seen # None /\ task[w].seen.content = {}
  <2>1. task[w].purpose = "login"
    BY <1>1, <1>3 DEF Reconciled, Prepared, Purpose
  <2>2. task[w].seen \in State
    BY <1>1, <2>1 DEF Prepared
  <2>3. QED
    BY <2>1, <2>2, NoneAssumption DEF Upload
<1>4. QED
  BY <1>2, <1>3 DEF ChoiceFirst

LEMMA NoNewRecord ==
    ASSUME Next, NEW r \in journal' \ journal
    PROVE  \E w \in Window : \/ Upload(w) \/ KeepLocal(w)
                             \/ \E resolved \in Content : ResolveConflict(w, resolved)
<1> USE DEF storedVars, ghostVars
<1>1. ASSUME NEW w \in Window, Recover(w) \/ PlainRound(w) \/ LogIn(w) PROVE FALSE
  BY <1>1 DEF Recover, PlainRound, LogIn, Begin
<1>2. ASSUME NEW w \in Window, Work(w), ~Upload(w) PROVE FALSE
  BY <1>2 DEF Work, Replay, ReplayedSync, ReplayedResolve, ReadForCalibration, Calibrate, Load,
              Adopt, OfferChoice, Answered, Conflicted, Complete
<1>3. ASSUME NEW w \in Window, PickServer(w) \/ PickMerge(w) \/ Dismiss(w) \/ GiveUp(w) \/ Restart(w)
      PROVE FALSE
  BY <1>3 DEF PickServer, PickMerge, Dismiss, GiveUp, Restart
<1>4. ASSUME NEW w \in Window, NEW e \in LocalEdit, EditLocally(w, e) PROVE FALSE
  BY <1>4 DEF EditLocally
<1>5. ASSUME NEW e \in RemoteEdit, RemoteWrite(e) PROVE FALSE
  BY <1>5 DEF RemoteWrite
<1>6. ASSUME NEW m \in net, Serve(m) PROVE FALSE
  BY <1>6 DEF Serve
<1>7. ASSUME NEW w \in Window, PickLocal(w) \/ RetryPick(w) PROVE KeepLocal(w)
  BY <1>7 DEF PickLocal, RetryPick
<1>8. QED
  BY <1>1, <1>2, <1>3, <1>4, <1>5, <1>6, <1>7 DEF Next

LEMMA StepChecksChoice ==
    ASSUME IInv, [Next]_vars, NEW w \in Window, NEW r \in journal' \ journal,
           r.op = "sync", task'[w].record = r
    PROVE  ChoiceFirst(w)
<1>1. Next
  BY DEF vars, storedVars
<1>2. PICK v \in Window : \/ Upload(v) \/ KeepLocal(v)
                          \/ \E resolved \in Content : ResolveConflict(v, resolved)
  BY <1>1, NoNewRecord
<1>3. CASE Upload(v)
  <2> DEFINE t == task[v]
             base == IF t.purpose = "login" THEN t.seen.version ELSE t.snap.base
             expected == [t.snap EXCEPT !.base = base]
  <2>1. Submit(v, t, "sync", base, t.snap.content, expected) /\ t.pc = "assess" /\ Prepared(t)
    BY <1>3, OfWindow DEF Upload
  <2>2. t.snap \in Archive /\ t.snap.content \in Content /\ t.snap.base \in Nat
        /\ (t.purpose = "login" => t.seen.version \in Nat)
    BY <2>1 DEF Prepared, Archive, State
  <2>3. base \in Nat /\ expected \in Archive
    BY <2>2 DEF Archive
  <2> HIDE DEF base, expected
  <2>4. v = w
    BY <2>1, <2>2, <2>3, SubmitIsOwn
  <2>5. QED
    BY <1>3, <2>4, UploadChecksChoice
<1>4. CASE KeepLocal(v)
  <2>1. choice[v] \in Choice /\ Submit(v, [Idle EXCEPT !.purpose = "keepLocal", !.snap = choice[v].base],
             "resolve", choice[v].version, choice[v].base.content, choice[v].base)
    BY <1>4, OfWindow DEF KeepLocal
  <2>2. choice[v].version \in Nat /\ choice[v].base \in Archive /\ choice[v].base.content \in Content
    BY <2>1 DEF Choice, Archive
  <2>3. QED
    BY <2>1, <2>2, SubmitIsOwn
<1>5. CASE \E resolved \in Content : ResolveConflict(v, resolved)
  <2>1. PICK resolved \in Content : ResolveConflict(v, resolved)
    BY <1>5
  <2>2. conflict[v] \in Conflict /\ Submit(v, [Idle EXCEPT !.purpose = "resolve", !.snap = conflict[v].base],
             "resolve", conflict[v].version, resolved, conflict[v].base)
    BY <2>1, OfWindow DEF ResolveConflict
  <2>3. conflict[v].version \in Nat /\ conflict[v].base \in Archive
    BY <2>2 DEF Conflict
  <2>4. QED
    BY <2>2, <2>3, SubmitIsOwn
<1>6. QED
  BY <1>2, <1>3, <1>4, <1>5

(* While a login is not reconciled, or the learner has not chosen, no       *)
(* window starts an upload, except to a cloud that was empty.               *)
THEOREM ChoiceBeforeUpload == Spec => NoUploadBeforeChoice
<1>1. IInv /\ [Next]_vars =>
         [\A w \in Window, r \in journal' \ journal :
             r.op = "sync" /\ task'[w].record = r =>
                 /\ choice[w] = None
                 /\ w \in login => task[w].seen # None /\ task[w].seen.content = {}]_vars
  BY StepChecksChoice DEF ChoiceFirst
<1>2. QED
  BY <1>1, Invariance, PTL DEF Spec, NoUploadBeforeChoice
-----------------------------------------------------------------------------
(* One window applies an intent once.                                       *)
(*                                                                          *)
(* A second window may still hold the archive that the first has uploaded,  *)
(* and upload it again under a new identity once the first was answered.    *)
(* What follows is about a device with one window.                          *)

IsSync(r) == r.op = "sync"

(* The records whose answer is awaited, or that the server applied.         *)
Drawn == journal \cup {x.record : x \in receipts}

(* No upload so far was made from this version or a later one.              *)
Beyond(v) == \A r \in Drawn : IsSync(r) => r.base < v

(* Records are drawn in the order of their ids.  An upload is older than    *)
(* all that waits in the journal, since it was drawn when that was empty.   *)
InDrawingOrder ==
    /\ \A r, s \in Drawn : r.id = s.id => r = s
    /\ \A r \in Drawn : r.id < nextId
    /\ \A r \in Drawn, s \in journal : IsSync(r) => r.id <= s.id
    /\ \A r \in Drawn, x \in receipts : r.id <= x.record.id => r.base < x.answer.version

UploadsDiffer ==
    \A r, s \in Drawn : IsSync(r) /\ IsSync(s) /\ r.base = s.base /\ r.content = s.content => r = s

(* The server's receipts: one per record and per version.                   *)
OneReceipt ==
    /\ \A x, y \in receipts : x.answer.version = y.answer.version => x = y
    /\ \A x, y \in receipts : x.record = y.record => x = y
    /\ \A x \in receipts : /\ x.answer.kind # "conflict"
                           /\ x.answer.version <= server.version
                           /\ x.record.op = "resolve" => x.answer.version = x.record.base + 1

(* What is under way is in the journal; what was answered is not under way. *)
UnderWay(w) ==
    LET t == task[w]
    IN  /\ \A m \in net : m.record \in journal
        /\ t.todo \subseteq journal
        /\ t.pc \in {"wait", "replaying", "ack"} => t.record \in journal \ t.todo
        /\ t.reply # None \/ t.pc = "ack" => [to |-> w, record |-> t.record] \notin net
        /\ t.reply # None => IF t.reply.kind = "conflict"
                             THEN \A x \in receipts : x.record # t.record
                             ELSE \E x \in receipts : x.record = t.record /\ x.answer = t.reply

(* A round looks at the server's state once the journal is empty.           *)
Emptied(w) ==
    LET t == task[w]
    IN  /\ t.pc = "replay" => journal = t.todo
        /\ t.pc = "replaying" => journal = t.todo \cup {t.record}
        /\ t.pc \in {"calibrate", "calibrating", "load", "assess"} => journal = {}
        /\ t.pc = "assess" => local = t.snap
        /\ t.pc = "wait" => IF t.purpose \in {"resolve", "keepLocal"} THEN ~IsSync(t.record)
                            ELSE journal = {t.record} /\ local = t.snap
        /\ t.pc = "ack" /\ t.after = "load" => journal = {t.record}
        /\ t.pc = "ack" /\ t.after = "replay" => journal = t.todo \cup {t.record}

(* The archive holds what waits, and has left what the server has answered. *)
Left ==
    /\ \A r \in journal : IsSync(r) =>
          /\ r.expected = [content |-> r.content, base |-> r.base]
          /\ local.base = r.base => r.content \subseteq local.content
    /\ \A r \in Drawn \ journal : IsSync(r) /\ local.base = r.base
                                    => ~(local.content \subseteq r.content)

(* A version seen, or offered to the learner, is newer than every upload.   *)
Newer(w) ==
    LET t == task[w]
    IN  /\ t.pc = "calibrating" \/ (t.pc = "assess" /\ t.purpose # "plain") => Beyond(t.seen.version)
        /\ choice[w] # None => Beyond(choice[w].version) /\ \A r \in journal : ~IsSync(r)
        /\ t.pc = "ack" /\ IsSync(t.record) /\ (\E x \in receipts : x.record = t.record)
              => local # t.record.expected

Once(w) ==
    /\ InDrawingOrder /\ UploadsDiffer /\ OneReceipt
    /\ UnderWay(w) /\ Emptied(w) /\ Left /\ Newer(w)

Alone(w) == Window = {w} /\ IInv /\ Once(w)

LEMMA DrawnRecords ==
    ASSUME IInv
    PROVE  /\ \A r \in Drawn : r \in Record /\ r.id \in Nat /\ r.base \in Nat /\ r.content \in Content
           /\ \A x \in receipts : x.record \in Drawn /\ x.answer.version \in Nat /\ x.answer \in Answer
           /\ journal \subseteq Drawn /\ local \in Archive /\ local.base \in Nat
BY DEF IInv, Memory, Drawn, Receipt, Record, Answer, Archive

(* A step that draws and completes nothing.                                 *)
LEMMA NothingDrawn ==
    ASSUME NEW w, Alone(w), UNCHANGED <<journal, receipts, nextId>>,
           server' \in State, server.version <= server'.version,
           UnderWay(w)', Emptied(w)', Newer(w)', local' \in Archive,
           \/ local' = local
           \/ local'.base = local.base /\ local.content \subseteq local'.content
           \/ Beyond(local'.base)
    PROVE  Once(w)'
<1>1. Drawn' = Drawn /\ server \in State
  BY DEF Drawn, Alone, IInv, Memory
<1>2. InDrawingOrder' /\ UploadsDiffer'
  BY <1>1 DEF InDrawingOrder, UploadsDiffer, Alone, Once, IsSync
<1>3. OneReceipt'
  <2>1. \A x \in receipts : x.answer.version <= server'.version
    BY <1>1, DrawnRecords DEF OneReceipt, Alone, Once, State
  <2>2. QED
    BY <2>1 DEF OneReceipt, Alone, Once
<1>4. Left'
  <2>1. CASE local' = local
    BY <1>1, <2>1 DEF Left, Alone, Once, IsSync
  <2>2. CASE local'.base = local.base /\ local.content \subseteq local'.content
    BY <1>1, <2>2 DEF Left, Alone, Once, IsSync
  <2>3. CASE Beyond(local'.base)
    <3>1. \A r \in Drawn : IsSync(r) => r.base # local'.base
      BY <2>3, DrawnRecords DEF Beyond, Alone, Archive
    <3>2. QED
      BY <1>1, <3>1, DrawnRecords DEF Left, Alone, Once, IsSync
  <2>4. QED
    BY <2>1, <2>2, <2>3
<1>5. QED
  BY <1>2, <1>3, <1>4 DEF Once

LEMMA RoundFields ==
    ASSUME NEW p, NEW todo
    PROVE  LET t == Round(p, todo)
           IN  /\ t.pc = IF todo = {} THEN "load" ELSE "replay"
               /\ t.purpose = p /\ t.todo = todo /\ t.reply = None /\ t.tries = 0
BY DEF Round, Idle

(* A window that comes to rest, or begins a round.                          *)
LEMMA Rests ==
    ASSUME NEW w, Alone(w), UNCHANGED <<journal, receipts>>,
           net' \subseteq net, choice'[w] \in {choice[w], None},
           task'[w] = Idle \/ \E p : task'[w] = Round(p, journal)
    PROVE  UnderWay(w)' /\ Emptied(w)' /\ Newer(w)'
<1>1. Drawn' = Drawn
  BY DEF Drawn
<1>2. /\ task'[w].pc \in {"idle", "load", "replay"} /\ task'[w].reply = None
      /\ task'[w].todo \subseteq journal
      /\ task'[w].pc = "load" => journal = {}
      /\ task'[w].pc = "replay" => journal = task'[w].todo
  <2>1. CASE task'[w] = Idle
    BY <2>1 DEF Idle
  <2>2. CASE \E p : task'[w] = Round(p, journal)
    BY <2>2, RoundFields
  <2>3. QED
    BY <2>1, <2>2
<1>3. UnderWay(w)'
  BY <1>2 DEF UnderWay, Alone, Once
<1>4. Emptied(w)'
  BY <1>2 DEF Emptied
<1>5. Newer(w)'
  BY <1>1, <1>2 DEF Newer, Alone, Once, Beyond, IsSync
<1>6. QED
  BY <1>3, <1>4, <1>5

(* A window whose task goes on as it was.                                   *)
LEMMA GoesOn ==
    ASSUME NEW w, Alone(w), UNCHANGED <<journal, receipts>>,
           net' \subseteq net, choice'[w] \in {choice[w], None},
           task'[w] = task[w], local' = local \/ task[w].pc = "idle"
    PROVE  UnderWay(w)' /\ Emptied(w)' /\ Newer(w)'
<1>1. Drawn' = Drawn
  BY DEF Drawn
<1>2. UnderWay(w)'
  BY DEF UnderWay, Alone, Once
<1>3. Emptied(w)'
  BY DEF Emptied, Alone, Once, IsSync
<1>4. Newer(w)'
  BY <1>1 DEF Newer, Alone, Once, Beyond, IsSync
<1>5. QED
  BY <1>2, <1>3, <1>4

(* With an answer in hand, the window goes on to complete its record.       *)
LEMMA Acknowledged ==
    ASSUME NEW w, Alone(w), w \in Window, UNCHANGED <<journal, receipts>>,
           net' = net, choice'[w] \in {choice[w], None},
           NEW label \in After, Acknowledge(w, label),
           task[w].pc \in {"wait", "replaying"}, task[w].reply # None,
           label = "load" => journal = {task[w].record},
           label = "replay" => journal = task[w].todo \cup {task[w].record},
           IsSync(task[w].record) /\ task[w].reply.kind # "conflict"
              => local' # task[w].record.expected
    PROVE  UnderWay(w)' /\ Emptied(w)' /\ Newer(w)'
<1>1. Drawn' = Drawn
  BY DEF Drawn
<1>2. task'[w] = [task[w] EXCEPT !.pc = "ack", !.reply = None, !.after = label] /\ task[w] \in Task
  BY DEF Acknowledge, Goto, Alone, IInv, Memory
<1>3. /\ task'[w].pc = "ack" /\ task'[w].reply = None /\ task'[w].after = label
      /\ task'[w].todo = task[w].todo /\ task'[w].record = task[w].record
  BY <1>2 DEF Task
<1>4. UnderWay(w)'
  BY <1>3 DEF UnderWay, Alone, Once
<1>5. Emptied(w)'
  BY <1>3 DEF Emptied
<1>6. Newer(w)'
  <2>1. IsSync(task[w].record) /\ (\E x \in receipts : x.record = task[w].record)
            => local' # task[w].record.expected
    BY DEF UnderWay, Alone, Once
  <2>2. QED
    BY <1>1, <1>3, <2>1 DEF Newer, Alone, Once, Beyond, IsSync
<1>7. QED
  BY <1>4, <1>5, <1>6

(* What a window that is alone relies on.                                   *)
LEMMA OfAlone ==
    ASSUME NEW w, Alone(w)
    PROVE  /\ w \in Window /\ task[w] \in Task /\ Prepared(task[w])
           /\ Reconciled(w, task[w], choice[w], login)
           /\ choice[w] \in Choice \cup {None} /\ conflict[w] \in Conflict \cup {None}
           /\ server \in State /\ server.version \in Nat /\ local \in Archive
           /\ \A r \in journal : r \in Record /\ r.base <= server.version
           /\ \A t : (task' = [task EXCEPT ![w] = t]) => task'[w] = t
<1>1. w \in Window
  BY DEF Alone
<1>2. \A r \in journal : r \in Record /\ r.base <= server.version
  BY DEF Alone, IInv, Memory, Mutations, Honest, Knows
<1>3. QED
  BY <1>1, <1>2, OfWindow DEF Alone, IInv, Memory, State

(* Uploads are made from versions the server has reached, and those it      *)
(* applied from versions it has passed.                                     *)
LEMMA Reached ==
    ASSUME NEW w, Alone(w), \A r \in journal : ~IsSync(r)
    PROVE  Beyond(server.version)
<1> SUFFICES ASSUME NEW r \in Drawn, IsSync(r) PROVE r.base < server.version
  BY DEF Beyond
<1>1. PICK x \in receipts : x.record = r
  BY DEF Drawn
<1>2. r.base < x.answer.version
  <2>1. r.id <= x.record.id
    BY <1>1, DrawnRecords DEF Alone
  <2>2. QED
    BY <1>1, <2>1 DEF Alone, Once, InDrawingOrder
<1>3. QED
  BY <1>1, <1>2, DrawnRecords, OfAlone DEF Alone, Once, OneReceipt

(* An answer raises the base above every upload so far: those that wait are *)
(* no younger than the record it answers.                                   *)
LEMMA AnswerIsBeyond ==
    ASSUME NEW w, Alone(w), task[w].reply # None, task[w].reply.kind # "conflict"
    PROVE  Beyond(task[w].reply.version)
<1> DEFINE t == task[w]
<1>1. t.pc \in {"wait", "replaying"}
  BY OfAlone DEF Prepared
<1>2. t.record \in journal
  BY <1>1 DEF Alone, Once, UnderWay
<1>3. PICK x \in receipts : x.record = t.record /\ x.answer = t.reply
  BY DEF Alone, Once, UnderWay
<1>4. ASSUME NEW r \in Drawn, IsSync(r) PROVE r.base < t.reply.version
  <2>1. r.id <= x.record.id
    BY <1>2, <1>3, <1>4 DEF Alone, Once, InDrawingOrder
  <2>2. QED
    BY <1>3, <1>4, <2>1 DEF Alone, Once, InDrawingOrder
<1>5. QED
  BY <1>4 DEF Beyond

(* Taking over the answer to an upload leaves the archive that was sent.    *)
LEMMA AnswerLeaves ==
    ASSUME NEW w, Alone(w), task[w].reply # None, task[w].reply.kind # "conflict",
           NEW expected, SaveIfUnchanged(expected, Result(task[w].reply, task[w].record.content))
    PROVE  /\ local' = local \/ Beyond(local'.base)
           /\ local' \in Archive
           /\ expected \in {local, task[w].record.expected} /\ IsSync(task[w].record)
                 => local' # task[w].record.expected
<1> DEFINE t == task[w]
           next == Result(t.reply, t.record.content)
<1>1. t.pc \in {"wait", "replaying"} /\ t.reply \in Answer /\ t.record \in Record
  BY OfAlone DEF Prepared, Task
<1>2. t.record \in journal /\ t.record \in Drawn
  BY <1>1 DEF Alone, Once, UnderWay, Drawn
<1>3. next \in Archive /\ next.base = t.reply.version
  BY <1>1, SavedArchive DEF Record
<1>4. Beyond(next.base)
  BY <1>3, AnswerIsBeyond
<1>5. ASSUME IsSync(t.record) PROVE next # t.record.expected
  <2>1. t.record.base < next.base /\ t.record.base \in Nat
    BY <1>1, <1>2, <1>4, <1>5 DEF Beyond, Record
  <2>2. t.record.expected = [content |-> t.record.content, base |-> t.record.base]
    BY <1>2, <1>5 DEF Alone, Once, Left
  <2>3. next.base # t.record.expected.base
    BY <1>3, <2>1, <2>2 DEF Archive
  <2>4. QED
    BY <2>3
<1> HIDE DEF next
<1>6. local' = IF local = expected THEN next ELSE local
  BY DEF SaveIfUnchanged, next
<1>7. QED
  BY <1>3, <1>4, <1>5, <1>6, OfAlone

LEMMA BeginOnce ==
    ASSUME NEW w, Alone(w), NEW p, Begin(w, p)
    PROVE  Once(w)'
<1>1. /\ UNCHANGED <<storedVars, dialogVars, serverVars, net>>
      /\ task'[w] = Start(w, p, journal)
  BY OfAlone DEF Begin, Goto
<1>2. \E q : task'[w] = Round(q, journal)
  BY <1>1 DEF Start
<1>3. QED
  BY <1>1, <1>2, Rests, NothingDrawn, OfAlone DEF storedVars, dialogVars, serverVars

LEMMA LogInOnce ==
    ASSUME NEW w, Alone(w), LogIn(w)
    PROVE  Once(w)'
<1>1. /\ UNCHANGED <<storedVars, serverVars, net>> /\ choice'[w] = None
      /\ task'[w] = Round("login", journal)
  BY OfAlone, Closed DEF LogIn, Goto, Alone
<1>2. QED
  BY <1>1, Rests, NothingDrawn, OfAlone DEF storedVars, serverVars

LEMMA ReplayOnce ==
    ASSUME NEW w, Alone(w), Replay(w)
    PROVE  Once(w)'
<1> DEFINE t == task[w]
<1>1. /\ t.pc = "replay" /\ t \in Task /\ t.reply = None /\ journal = t.todo
      /\ UNCHANGED <<storedVars, dialogVars, serverVars>>
      /\ local' = local /\ journal' = journal /\ nextId' = nextId /\ choice' = choice
      /\ server' = server /\ receipts' = receipts
  BY OfAlone DEF Replay, Prepared, Alone, Once, Emptied, storedVars, dialogVars, serverVars
<1>2. Drawn' = Drawn
  BY <1>1 DEF Drawn
<1>3. CASE t.todo = {}
  <2>1. task' = [task EXCEPT ![w] = [t EXCEPT !.pc = "calibrate"]] /\ net' = net
    BY <1>3 DEF Replay, Goto
  <2>2. /\ task'[w].pc = "calibrate" /\ task'[w].todo = {} /\ task'[w].reply = None
    <3>1. task'[w] = [t EXCEPT !.pc = "calibrate"]
      BY <2>1, OfAlone
    <3>2. QED
      BY <1>1, <1>3, <3>1 DEF Task
  <2>3. UnderWay(w)'
    BY <1>1, <2>1, <2>2 DEF UnderWay, Alone, Once
  <2>4. Emptied(w)' /\ Newer(w)'
    BY <1>1, <1>2, <1>3, <2>2 DEF Emptied, Newer, Alone, Once, Beyond, IsSync
  <2>5. QED
    BY <1>1, <2>3, <2>4, NothingDrawn, OfAlone
<1>4. CASE t.todo # {}
  <2> DEFINE r == CHOOSE r \in t.todo : \A s \in t.todo : r.id <= s.id
  <2>1. /\ task' = [task EXCEPT ![w] = [t EXCEPT !.pc = "replaying", !.record = r, !.todo = @ \ {r}]]
        /\ net' = net \cup {[to |-> w, record |-> r]}
    BY <1>4 DEF Replay, Goto
  <2>2. r \in t.todo
    BY <1>1, <1>4, Oldest DEF Task
  <2> HIDE DEF r
  <2>3. /\ task'[w].pc = "replaying" /\ task'[w].todo = t.todo \ {r} /\ task'[w].reply = None
        /\ task'[w].record = r
    <3>1. task'[w] = [t EXCEPT !.pc = "replaying", !.record = r, !.todo = @ \ {r}]
      BY <2>1, OfAlone
    <3>2. QED
      BY <1>1, <3>1 DEF Task
  <2>4. UnderWay(w)'
    BY <1>1, <2>1, <2>2, <2>3 DEF UnderWay, Alone, Once
  <2>5. Emptied(w)' /\ Newer(w)'
    BY <1>1, <1>2, <2>2, <2>3 DEF Emptied, Newer, Alone, Once, Beyond, IsSync
  <2>6. QED
    BY <1>1, <2>4, <2>5, NothingDrawn, OfAlone
<1>5. QED
  BY <1>3, <1>4

LEMMA ReplayedSyncOnce ==
    ASSUME NEW w, Alone(w), ReplayedSync(w)
    PROVE  Once(w)'
<1> DEFINE t == task[w]
<1>1. /\ t.pc = "replaying" /\ t.reply # None /\ Acknowledge(w, "replay")
      /\ UNCHANGED <<journal, nextId, choice, server, receipts, net>>
      /\ IF t.reply.kind = "conflict" THEN local' = local
         ELSE SaveIfUnchanged(t.record.expected, Result(t.reply, t.record.content))
  BY DEF ReplayedSync, dialogVars, serverVars
<1>2. /\ local' = local \/ Beyond(local'.base)
      /\ local' \in Archive
      /\ IsSync(t.record) /\ t.reply.kind # "conflict" => local' # t.record.expected
  BY <1>1, AnswerLeaves, OfAlone
<1>3. journal = t.todo \cup {t.record}
  BY <1>1 DEF Alone, Once, Emptied
<1>4. UnderWay(w)' /\ Emptied(w)' /\ Newer(w)'
  BY <1>1, <1>2, <1>3, Acknowledged, OfAlone DEF After
<1>5. QED
  BY <1>1, <1>2, <1>4, NothingDrawn, OfAlone

LEMMA ReplayedResolveOnce ==
    ASSUME NEW w, Alone(w), ReplayedResolve(w)
    PROVE  Once(w)'
<1> DEFINE t == task[w]
<1>1. /\ t.pc = "replaying" /\ t.reply # None /\ t.record.op = "resolve"
      /\ UNCHANGED <<journal, nextId, server, receipts, net>>
      /\ IF t.reply.kind = "conflict" THEN local' = local
         ELSE SaveIfUnchanged(t.record.expected, Result(t.reply, t.record.content))
  BY DEF ReplayedResolve, serverVars
<1>2. choice'[w] \in {choice[w], None}
  <2>1. CloseChoice(w) \/ choice' = choice
    BY DEF ReplayedResolve
  <2>2. QED
    BY <2>1, Closed, OfAlone DEF Alone
<1>3. local' \in Archive /\ (local' = local \/ Beyond(local'.base))
  BY <1>1, AnswerLeaves, OfAlone
<1>4. journal = t.todo \cup {t.record} /\ ~IsSync(t.record)
  BY <1>1 DEF Alone, Once, Emptied, IsSync
<1>5. \E label \in {"idle", "replay"} : Acknowledge(w, label)
  BY DEF ReplayedResolve
<1>6. UnderWay(w)' /\ Emptied(w)' /\ Newer(w)'
  BY <1>1, <1>2, <1>4, <1>5, Acknowledged, OfAlone DEF After
<1>7. QED
  BY <1>1, <1>3, <1>6, NothingDrawn, OfAlone

LEMMA ReadForCalibrationOnce ==
    ASSUME NEW w, Alone(w), ReadForCalibration(w)
    PROVE  Once(w)'
<1> DEFINE t == task[w]
<1>1. /\ t.pc = "calibrate" /\ t \in Task /\ t.reply = None /\ journal = {}
      /\ local' = local /\ journal' = journal /\ nextId' = nextId /\ choice' = choice
      /\ server' = server /\ receipts' = receipts /\ net' = net
  BY OfAlone DEF ReadForCalibration, Prepared, Alone, Once, Emptied, storedVars, dialogVars, serverVars
<1>2. task'[w] = [t EXCEPT !.pc = "calibrating", !.seen = server]
  BY OfAlone DEF ReadForCalibration, Goto
<1>3. /\ task'[w].pc = "calibrating" /\ task'[w].seen = server /\ task'[w].reply = None
      /\ task'[w].todo = t.todo
  BY <1>1, <1>2 DEF Task
<1>4. Drawn' = Drawn /\ Beyond(server.version)
  BY <1>1, Reached DEF Drawn
<1>5. UnderWay(w)'
  BY <1>1, <1>3 DEF UnderWay, Alone, Once
<1>6. Emptied(w)' /\ Newer(w)'
  BY <1>1, <1>3, <1>4 DEF Emptied, Newer, Alone, Once, Beyond, IsSync
<1>7. QED
  BY <1>1, <1>5, <1>6, NothingDrawn, OfAlone

(* A round that goes on to load.                                            *)
LEMMA Loads ==
    ASSUME NEW w, Alone(w), UNCHANGED <<journal, receipts, net>>, choice'[w] \in {choice[w], None},
           task[w].pc \in {"calibrating", "assess"}, task'[w].pc = "load",
           task'[w].todo = task[w].todo, task'[w].reply = task[w].reply
    PROVE  UnderWay(w)' /\ Emptied(w)' /\ Newer(w)'
<1>1. Drawn' = Drawn /\ task[w].reply = None
  BY OfAlone DEF Drawn, Prepared
<1>2. UnderWay(w)'
  BY <1>1 DEF UnderWay, Alone, Once
<1>3. Emptied(w)' /\ Newer(w)'
  BY <1>1 DEF Emptied, Newer, Alone, Once, Beyond, IsSync
<1>4. QED
  BY <1>2, <1>3

LEMMA CalibrateOnce ==
    ASSUME NEW w, Alone(w), Calibrate(w)
    PROVE  Once(w)'
<1> DEFINE t == task[w]
<1>1. /\ t.pc = "calibrating" /\ t \in Task /\ t.seen \in State
      /\ UNCHANGED <<journal, nextId, choice, server, receipts, net>>
  BY OfAlone DEF Calibrate, Prepared, serverVars
<1>2. CASE local.content = t.seen.content
  <2>1. local' = [local EXCEPT !.base = t.seen.version] /\ task'[w] = Idle
    BY <1>2, OfAlone DEF Calibrate, Finish, Goto
  <2>2. local' \in Archive /\ local'.base = t.seen.version
    BY <1>1, <2>1, OfAlone DEF Archive, State
  <2>3. Beyond(local'.base)
    BY <1>1, <2>2 DEF Alone, Once, Newer
  <2>4. QED
    BY <1>1, <2>1, <2>2, <2>3, Rests, NothingDrawn, OfAlone
<1>3. CASE local.content # t.seen.content
  <2>1. local' = local /\ task'[w] = [t EXCEPT !.pc = "load", !.seen = None]
    BY <1>3, OfAlone DEF Calibrate, Goto
  <2>2. task'[w].pc = "load" /\ task'[w].todo = t.todo /\ task'[w].reply = t.reply
    BY <1>1, <2>1 DEF Task
  <2>3. UnderWay(w)' /\ Emptied(w)' /\ Newer(w)'
    BY <1>1, <2>2, Loads
  <2>4. QED
    BY <1>1, <2>1, <2>3, NothingDrawn, OfAlone
<1>4. QED
  BY <1>2, <1>3

LEMMA LoadOnce ==
    ASSUME NEW w, Alone(w), Load(w)
    PROVE  Once(w)'
<1> DEFINE t == task[w]
           seen == IF t.purpose = "plain" THEN None ELSE server
           t2 == [t EXCEPT !.pc = "assess", !.snap = local, !.seen = seen, !.tries = @ + 1]
<1>1. /\ t.pc = "load" /\ t \in Task /\ t.reply = None /\ journal = {}
      /\ local' = local /\ journal' = journal /\ nextId' = nextId /\ choice' = choice
      /\ server' = server /\ receipts' = receipts /\ net' = net
  BY OfAlone DEF Load, Prepared, Alone, Once, Emptied, storedVars, dialogVars, serverVars
<1>2. task'[w] = Idle \/ task'[w] = t2
  BY OfAlone DEF Load, Finish, Goto
<1>3. CASE task'[w] = Idle
  BY <1>1, <1>3, Rests, NothingDrawn, OfAlone
<1>4. CASE task'[w] = t2
  <2>1. /\ task'[w].pc = "assess" /\ task'[w].snap = local /\ task'[w].reply = None
        /\ task'[w].todo = t.todo /\ task'[w].purpose = t.purpose /\ task'[w].seen = seen
    BY <1>1, <1>4 DEF Task
  <2>2. Drawn' = Drawn /\ Beyond(server.version)
    BY <1>1, Reached DEF Drawn
  <2>3. UnderWay(w)'
    BY <1>1, <2>1 DEF UnderWay, Alone, Once
  <2>4. Emptied(w)' /\ Newer(w)'
    BY <1>1, <2>1, <2>2 DEF Emptied, Newer, Alone, Once, Beyond, IsSync
  <2>5. QED
    BY <1>1, <2>3, <2>4, NothingDrawn, OfAlone
<1>5. QED
  BY <1>2, <1>3, <1>4

LEMMA AdoptOnce ==
    ASSUME NEW w, Alone(w), Adopt(w)
    PROVE  Once(w)'
<1> DEFINE t == task[w]
           next == [content |-> t.seen.content, base |-> t.seen.version]
<1>1. /\ t.pc = "assess" /\ t \in Task /\ t.seen \in State /\ t.purpose # "plain" /\ local = t.snap
      /\ UNCHANGED <<journal, nextId, choice, server, receipts, net>>
      /\ SaveIfUnchanged(t.snap, next) /\ Finish(w)
  BY OfAlone DEF Adopt, Prepared, serverVars, Alone, Once, Emptied
<1>2. local' = next /\ next \in Archive /\ Beyond(next.base)
  BY <1>1 DEF SaveIfUnchanged, Archive, State, Alone, Once, Newer
<1>3. task'[w] = Idle
  BY <1>1, OfAlone DEF Finish, Goto
<1> HIDE DEF next
<1>4. QED
  BY <1>1, <1>2, <1>3, Rests, NothingDrawn, OfAlone

LEMMA OfferChoiceOnce ==
    ASSUME NEW w, Alone(w), OfferChoice(w)
    PROVE  Once(w)'
<1> DEFINE t == task[w]
           c == [server |-> t.seen.content, version |-> t.seen.version, base |-> t.snap, pick |-> None]
<1>1. /\ t.pc = "assess" /\ t.purpose = "login" /\ local = t.snap /\ journal = {}
      /\ journal' = journal /\ nextId' = nextId /\ local' = local
      /\ server' = server /\ receipts' = receipts /\ net' = net
      /\ choice' = [choice EXCEPT ![w] = c] /\ Finish(w)
  BY DEF OfferChoice, storedVars, serverVars, Alone, Once, Emptied
<1>2. task'[w] = Idle /\ choice'[w] = c /\ c.version = t.seen.version
  BY <1>1, OfAlone DEF Finish, Goto, Alone, IInv, Memory
<1> HIDE DEF c
<1>3. Beyond(choice'[w].version) /\ Drawn' = Drawn
  BY <1>1, <1>2 DEF Alone, Once, Newer, Drawn
<1>4. UnderWay(w)' /\ Emptied(w)'
  BY <1>1, <1>2 DEF UnderWay, Emptied, Idle, Alone, Once
<1>5. Newer(w)'
  BY <1>1, <1>2, <1>3 DEF Newer, Idle, Beyond, IsSync
<1>6. QED
  BY <1>1, <1>4, <1>5, NothingDrawn, OfAlone

LEMMA AnsweredOnce ==
    ASSUME NEW w, Alone(w), Answered(w)
    PROVE  Once(w)'
<1> DEFINE t == task[w]
           label == CASE local = t.snap -> "idle"
                      [] t.purpose = "keepLocal" -> "login"
                      [] t.purpose = "resolve" -> "plain"
                      [] OTHER -> "load"
<1>1. /\ t.pc = "wait" /\ t.reply # None /\ t.reply.kind # "conflict"
      /\ UNCHANGED <<journal, nextId, server, receipts, net>>
      /\ SaveIfUnchanged(t.snap, Result(t.reply, t.record.content))
      /\ Acknowledge(w, label)
  BY DEF Answered, serverVars
<1>2. choice'[w] \in {choice[w], None}
  <2>1. CloseChoice(w) \/ choice' = choice
    BY DEF Answered
  <2>2. QED
    BY <2>1, Closed, OfAlone DEF Alone
<1>3. IF t.purpose \in {"resolve", "keepLocal"} THEN ~IsSync(t.record)
      ELSE journal = {t.record} /\ local = t.snap
  BY <1>1 DEF Alone, Once, Emptied
<1>4. label \in After /\ label # "replay" /\ (label = "load" => journal = {t.record})
  BY <1>3 DEF After
<1> HIDE DEF label
<1>5. /\ local' = local \/ Beyond(local'.base)
      /\ local' \in Archive
      /\ IsSync(t.record) => local' # t.record.expected
  BY <1>1, <1>3, AnswerLeaves
<1>6. UnderWay(w)' /\ Emptied(w)' /\ Newer(w)'
  BY <1>1, <1>2, <1>4, <1>5, Acknowledged, OfAlone
<1>7. QED
  BY <1>1, <1>5, <1>6, NothingDrawn, OfAlone

LEMMA ConflictedOnce ==
    ASSUME NEW w, Alone(w), Conflicted(w)
    PROVE  Once(w)'
<1> DEFINE t == task[w]
<1>1. /\ t.pc = "wait" /\ t.reply # None /\ t.reply.kind = "conflict"
      /\ local' = local /\ journal' = journal /\ nextId' = nextId
      /\ server' = server /\ receipts' = receipts /\ net' = net
  BY DEF Conflicted, storedVars, serverVars
<1>2. IF t.purpose \in {"resolve", "keepLocal"} THEN ~IsSync(t.record)
      ELSE journal = {t.record} /\ local = t.snap
  BY <1>1 DEF Alone, Once, Emptied
<1>3. CloseChoice(w) \/ choice' = choice
  BY DEF Conflicted, dialogVars
<1>4. \E label \in {"login", "idle", "plain"} : Acknowledge(w, label)
  BY <1>2 DEF Conflicted
<1>5. choice'[w] \in {choice[w], None}
  BY <1>3, Closed, OfAlone DEF Alone
<1>6. UnderWay(w)' /\ Emptied(w)' /\ Newer(w)'
  BY <1>1, <1>4, <1>5, Acknowledged, OfAlone DEF After
<1>7. QED
  BY <1>1, <1>6, NothingDrawn, OfAlone

LEMMA EditLocallyOnce ==
    ASSUME NEW w, Alone(w), NEW e \in LocalEdit, EditLocally(w, e)
    PROVE  Once(w)'
<1>1. /\ task[w].pc = "idle" /\ local' = [local EXCEPT !.content = @ \cup {e}]
      /\ journal' = journal /\ nextId' = nextId /\ choice' = choice /\ task' = task
      /\ server' = server /\ receipts' = receipts /\ net' = net
  BY DEF EditLocally, dialogVars, serverVars
<1>2. local' \in Archive /\ local'.base = local.base /\ local.content \subseteq local'.content
  BY <1>1, OfAlone DEF Archive, Content, Edit
<1>3. UnderWay(w)' /\ Emptied(w)' /\ Newer(w)'
  BY <1>1, GoesOn
<1>4. UNCHANGED <<journal, receipts, nextId>> /\ server' \in State /\ server.version <= server'.version
  BY <1>1, OfAlone
<1>5. QED
  BY <1>2, <1>3, <1>4, NothingDrawn

LEMMA PickServerOnce ==
    ASSUME NEW w, Alone(w), PickServer(w)
    PROVE  Once(w)'
<1> DEFINE c == choice[w]
           next == [content |-> c.server, base |-> c.version]
<1>1. /\ c # None /\ SaveIfUnchanged(c.base, next) /\ CloseChoice(w)
      /\ UNCHANGED <<journal, nextId, server, receipts, net>>
      /\ \/ task' = task
         \/ task'[w] = Round("login", journal)
  BY OfAlone DEF PickServer, serverVars, Goto
<1>2. c \in Choice /\ choice'[w] = None
  BY <1>1, Closed, OfAlone DEF Alone
<1>3. next \in Archive /\ next.base = c.version
  BY <1>2 DEF Choice, Archive
<1>4. Beyond(next.base)
  BY <1>1, <1>3 DEF Alone, Once, Newer
<1> HIDE DEF next
<1>5. local' \in {local, next}
  BY <1>1 DEF SaveIfUnchanged
<1>6. UnderWay(w)' /\ Emptied(w)' /\ Newer(w)'
  <2>1. task[w].pc = "idle"
    BY DEF PickServer
  <2>2. CASE task' = task
    BY <1>1, <1>2, <2>1, <2>2, GoesOn
  <2>3. CASE task'[w] = Round("login", journal)
    BY <1>1, <1>2, <2>3, Rests
  <2>4. QED
    BY <1>1, <2>2, <2>3
<1>7. QED
  BY <1>1, <1>3, <1>4, <1>5, <1>6, NothingDrawn, OfAlone

LEMMA PickMergeOnce ==
    ASSUME NEW w, Alone(w), PickMerge(w)
    PROVE  Once(w)'
<1>1. /\ UNCHANGED <<storedVars, serverVars, net>> /\ CloseChoice(w)
      /\ task'[w] = Start(w, "plain", journal)
  BY OfAlone DEF PickMerge, Goto
<1>2. (\E q : task'[w] = Round(q, journal)) /\ choice'[w] = None
  BY <1>1, Closed, OfAlone DEF Start, Alone
<1>3. QED
  BY <1>1, <1>2, Rests, NothingDrawn, OfAlone DEF storedVars, serverVars

LEMMA DismissOnce ==
    ASSUME NEW w, Alone(w), Dismiss(w)
    PROVE  Once(w)'
<1>1. /\ UNCHANGED <<storedVars, serverVars, net>> /\ task' = task
      /\ CloseChoice(w) \/ choice' = choice
  BY DEF Dismiss
<1>2. choice'[w] \in {choice[w], None}
  BY <1>1, Closed, OfAlone DEF Alone
<1>3. QED
  BY <1>1, <1>2, GoesOn, NothingDrawn, OfAlone DEF storedVars, serverVars

LEMMA GiveUpOnce ==
    ASSUME NEW w, Alone(w), GiveUp(w)
    PROVE  Once(w)'
<1>1. /\ UNCHANGED <<storedVars, dialogVars, serverVars>> /\ net' \subseteq net
      /\ task'[w] = Idle
  BY OfAlone DEF GiveUp, Finish, Goto
<1>2. QED
  BY <1>1, Rests, NothingDrawn, OfAlone DEF storedVars, dialogVars, serverVars

LEMMA RestartOnce ==
    ASSUME NEW w, Alone(w), Restart(w)
    PROVE  Once(w)'
<1>1. /\ UNCHANGED <<storedVars, serverVars, net>> /\ choice'[w] = None
      /\ task'[w] = Idle
  BY OfAlone, Closed DEF Restart, Finish, Goto, Alone
<1>2. QED
  BY <1>1, Rests, NothingDrawn, OfAlone DEF storedVars, serverVars

LEMMA RemoteWriteOnce ==
    ASSUME NEW w, Alone(w), NEW e \in RemoteEdit, RemoteWrite(e)
    PROVE  Once(w)'
<1>1. /\ local' = local /\ journal' = journal /\ nextId' = nextId /\ choice' = choice
      /\ task' = task /\ receipts' = receipts /\ net' = net
      /\ server' = [content |-> server.content \cup {e}, version |-> server.version + 1]
  BY DEF RemoteWrite, storedVars, dialogVars
<1>2. server' \in State /\ server.version <= server'.version
  BY <1>1, OfAlone DEF State, Content, Edit
<1>3. QED
  BY <1>1, <1>2, GoesOn, NothingDrawn, OfAlone

(* A record that is new to the journal is younger than all before.          *)
LEMMA NewRecord ==
    ASSUME NEW w, Alone(w), NEW r \in Record, r \in journal \/ r.id = nextId,
           journal' = journal \cup {r}, receipts' = receipts,
           nextId' = IF r \in journal THEN nextId ELSE nextId + 1,
           IsSync(r) => journal = {} /\ r.id = nextId
    PROVE  InDrawingOrder' /\ Drawn' = Drawn \cup {r}
<1>1. Drawn' = Drawn \cup {r}
  BY DEF Drawn
<1>2. nextId \in Nat /\ nextId <= nextId' /\ r.id \in Nat /\ r.id < nextId'
  BY DrawnRecords DEF Alone, IInv, Memory, Record, Once, InDrawingOrder
<1>3. \A q \in Drawn : q.id \in Nat /\ q.id < nextId
  BY DrawnRecords DEF Alone, Once, InDrawingOrder
<1>4. r \in Drawn \/ r.id = nextId
  BY DEF Drawn
<1>5. \A q, s \in Drawn' : q.id = s.id => q = s
  BY <1>1, <1>2, <1>3, <1>4 DEF Alone, Once, InDrawingOrder
<1>6. \A q \in Drawn' : q.id < nextId'
  BY <1>1, <1>2, <1>3
<1>7. \A q \in Drawn', s \in journal' : IsSync(q) => q.id <= s.id
  <2> SUFFICES ASSUME NEW q \in Drawn', NEW s \in journal', IsSync(q) PROVE q.id <= s.id
    OBVIOUS
  <2>1. CASE q \in Drawn /\ s \in journal
    BY <2>1 DEF Alone, Once, InDrawingOrder
  <2>2. CASE q \in Drawn /\ s = r
    <3>1. CASE r \in journal
      BY <2>2, <3>1 DEF Alone, Once, InDrawingOrder
    <3>2. CASE r.id = nextId
      BY <1>3, <2>2, <3>2, <1>2
    <3>3. QED
      BY <3>1, <3>2
  <2>3. CASE q = r
    BY <1>2, <2>3
  <2>4. QED
    BY <1>1, <2>1, <2>2, <2>3
<1>8. \A q \in Drawn', x \in receipts' : q.id <= x.record.id => q.base < x.answer.version
  <2> SUFFICES ASSUME NEW q \in Drawn', NEW x \in receipts, q.id <= x.record.id
               PROVE  q.base < x.answer.version
    OBVIOUS
  <2>1. x.record \in Drawn
    BY DrawnRecords DEF Alone
  <2>2. q \in Drawn
    BY <1>1, <1>3, <1>4, <2>1, <1>2
  <2>3. QED
    BY <2>2 DEF Alone, Once, InDrawingOrder
<1>9. QED
  BY <1>1, <1>5, <1>6, <1>7, <1>8 DEF InDrawingOrder, IsSync

(* A window that sends a record it has just journaled.                      *)
LEMMA Sent ==
    ASSUME NEW w, Alone(w), NEW r, journal' = journal \cup {r}, receipts' = receipts,
           net' = net \cup {[to |-> w, record |-> r]},
           task'[w].pc = "wait", task'[w].record = r, task'[w].reply = None, task'[w].todo = {}
    PROVE  UnderWay(w)'
BY DEF UnderWay, Alone, Once

(* A decision of the learner is sent under its identity.                    *)
LEMMA DecisionOnce ==
    ASSUME NEW w, Alone(w), NEW c, NEW purpose \in {"resolve", "keepLocal"},
           NEW version \in Nat, NEW content \in Content, NEW expected \in Archive,
           Submit(w, [Idle EXCEPT !.purpose = purpose, !.snap = c],
                  "resolve", version, content, expected),
           UNCHANGED <<local, server, receipts>>,
           choice'[w] # None => choice[w] # None /\ choice'[w].version = choice[w].version
    PROVE  Once(w)'
<1> DEFINE r == GetOrCreate("resolve", version, content, expected)
           t2 == [[Idle EXCEPT !.purpose = purpose, !.snap = c] EXCEPT !.pc = "wait", !.record = r]
<1>1. r \in Record /\ r.op = "resolve" /\ (r \in journal \/ r.id = nextId)
  BY Identity DEF Alone, IInv, Memory
<1>2. /\ journal' = journal \cup {r}
      /\ nextId' = IF r \in journal THEN nextId ELSE nextId + 1
      /\ net' = net \cup {[to |-> w, record |-> r]}
      /\ task' = [task EXCEPT ![w] = t2]
  BY DEF Submit
<1> HIDE DEF r
<1>3. /\ task'[w].pc = "wait" /\ task'[w].record = r /\ task'[w].reply = None
      /\ task'[w].todo = {} /\ task'[w].purpose = purpose
  <2>1. task'[w] = t2
    BY <1>2, OfAlone
  <2>2. QED
    BY <2>1 DEF Idle
<1>4. ~IsSync(r)
  BY <1>1 DEF IsSync
<1>5. InDrawingOrder' /\ Drawn' = Drawn \cup {r}
  BY <1>1, <1>2, <1>4, NewRecord
<1>6. UploadsDiffer'
  BY <1>4, <1>5 DEF UploadsDiffer, Alone, Once, IsSync
<1>7. OneReceipt'
  BY DEF OneReceipt, Alone, Once
<1>8. UnderWay(w)'
  BY <1>2, <1>3, Sent
<1>9. Emptied(w)'
  BY <1>3, <1>4 DEF Emptied, IsSync
<1>10. Left'
  BY <1>2, <1>4, <1>5 DEF Left, Alone, Once, IsSync
<1>11. Newer(w)'
  BY <1>2, <1>3, <1>4, <1>5 DEF Newer, Alone, Once, Beyond, IsSync
<1>12. QED
  BY <1>5, <1>6, <1>7, <1>8, <1>9, <1>10, <1>11 DEF Once

LEMMA KeepLocalOnce ==
    ASSUME NEW w, Alone(w), KeepLocal(w)
    PROVE  Once(w)'
<1> DEFINE c == choice[w]
<1>1. c \in Choice /\ c # None
  BY OfAlone DEF KeepLocal
<1>2. c.version \in Nat /\ c.base \in Archive /\ c.base.content \in Content
  BY <1>1 DEF Choice, Archive
<1>3. choice'[w] = [c EXCEPT !.pick = "local"]
  BY OfAlone DEF KeepLocal, Alone, IInv, Memory
<1>4. choice'[w].version = c.version
  BY <1>1, <1>3 DEF Choice
<1>5. /\ Submit(w, [Idle EXCEPT !.purpose = "keepLocal", !.snap = c.base],
                "resolve", c.version, c.base.content, c.base)
      /\ UNCHANGED <<local, server, receipts>>
  BY DEF KeepLocal, serverVars
<1>6. QED
  BY <1>1, <1>2, <1>4, <1>5, DecisionOnce

LEMMA ResolveConflictOnce ==
    ASSUME NEW w, Alone(w), NEW resolved \in Content, ResolveConflict(w, resolved)
    PROVE  Once(w)'
<1> DEFINE c == conflict[w]
<1>1. c \in Conflict
  BY OfAlone DEF ResolveConflict
<1>2. c.version \in Nat /\ c.base \in Archive
  BY <1>1 DEF Conflict
<1>3. /\ Submit(w, [Idle EXCEPT !.purpose = "resolve", !.snap = c.base],
                "resolve", c.version, resolved, c.base)
      /\ UNCHANGED <<local, server, receipts>> /\ choice' = choice
  BY DEF ResolveConflict, serverVars, dialogVars
<1>4. QED
  BY <1>2, <1>3, DecisionOnce

(* An upload of the archive as it is, from a version that is newer than     *)
(* every earlier upload, or that the archive has outgrown.                  *)
LEMMA UploadOnce ==
    ASSUME NEW w, Alone(w), Upload(w)
    PROVE  Once(w)'
<1> DEFINE t == task[w]
           base == IF t.purpose = "login" THEN t.seen.version ELSE t.snap.base
           expected == [t.snap EXCEPT !.base = base]
           r == GetOrCreate("sync", base, t.snap.content, expected)
           t2 == [t EXCEPT !.pc = "wait", !.record = r]
<1>1. /\ t.pc = "assess" /\ t \in Task /\ t.reply = None /\ t.purpose \in {"plain", "compare", "login"}
      /\ t.snap \in Archive /\ local = t.snap /\ journal = {} /\ choice[w] = None
      /\ t.purpose = "login" => t.seen \in State /\ Beyond(t.seen.version)
      /\ Submit(w, t, "sync", base, t.snap.content, expected)
      /\ local' = local /\ server' = server /\ receipts' = receipts /\ choice' = choice
  <2>1. /\ t.pc = "assess" /\ Submit(w, t, "sync", base, t.snap.content, expected)
        /\ local' = local /\ server' = server /\ receipts' = receipts /\ choice' = choice
    BY DEF Upload, serverVars, dialogVars
  <2>2. t.purpose \in {"plain", "compare", "login"} /\ t.reply = None /\ t.snap \in Archive
    BY <2>1, OfAlone DEF Prepared, Purpose
  <2>3. t.purpose = "login" => t.seen \in State /\ Beyond(t.seen.version)
    BY <2>1, OfAlone DEF Prepared, Alone, Once, Newer
  <2>4. t \in Task /\ choice[w] = None /\ local = t.snap /\ journal = {}
    BY <2>1, OfAlone DEF Reconciled, Alone, Once, Emptied
  <2>5. QED
    BY <2>1, <2>2, <2>3, <2>4
<1>2. base \in Nat /\ t.snap.content \in Content /\ (base = local.base \/ Beyond(base))
  BY <1>1 DEF Archive, State
<1>3. expected = [content |-> local.content, base |-> base] /\ expected \in Archive
  BY <1>1, <1>2 DEF Archive
<1> HIDE DEF base, expected
<1>4. /\ r \in Record /\ r.op = "sync" /\ r.base = base /\ r.content = local.content
      /\ r.id = nextId /\ r.expected = expected
  BY <1>1, <1>2, <1>3, Identity DEF Alone, IInv, Memory
<1>5. /\ journal' = journal \cup {r}
      /\ nextId' = IF r \in journal THEN nextId ELSE nextId + 1
      /\ net' = net \cup {[to |-> w, record |-> r]}
      /\ task' = [task EXCEPT ![w] = t2]
  BY <1>1 DEF Submit
<1> HIDE DEF r
<1>6. /\ task'[w].pc = "wait" /\ task'[w].record = r /\ task'[w].reply = None
      /\ task'[w].todo = t.todo /\ task'[w].purpose = t.purpose /\ task'[w].snap = t.snap
  <2>1. task'[w] = t2
    BY <1>5, OfAlone
  <2>2. QED
    BY <1>1, <2>1 DEF Task
<1>7. t.todo = {}
  BY <1>1 DEF Alone, Once, UnderWay
<1>8. InDrawingOrder' /\ Drawn' = Drawn \cup {r}
  BY <1>1, <1>4, <1>5, NewRecord
<1>9. \A q \in Drawn : IsSync(q) => ~(q.base = r.base /\ q.content = r.content)
  <2> SUFFICES ASSUME NEW q \in Drawn, IsSync(q), q.base = r.base, q.content = r.content
               PROVE  FALSE
    OBVIOUS
  <2>1. base # local.base
    BY <1>1, <1>4 DEF Alone, Once, Left
  <2>2. q.base < base
    BY <1>2, <2>1 DEF Beyond
  <2>3. QED
    BY <1>2, <1>4, <2>2
<1>10. UploadsDiffer'
  BY <1>8, <1>9 DEF UploadsDiffer, Alone, Once, IsSync
<1>11. OneReceipt'
  BY <1>1 DEF OneReceipt, Alone, Once
<1>12. UnderWay(w)'
  BY <1>1, <1>5, <1>6, <1>7, Sent
<1>13. Emptied(w)'
  BY <1>1, <1>5, <1>6 DEF Emptied, IsSync
<1>14. Left'
  BY <1>1, <1>3, <1>4, <1>5, <1>8 DEF Left, Alone, Once, IsSync
<1>15. Newer(w)'
  BY <1>1, <1>6 DEF Newer
<1>16. QED
  BY <1>8, <1>10, <1>11, <1>12, <1>13, <1>14, <1>15 DEF Once

(* Completing a record: only the record that was answered leaves the        *)
(* journal, and the archive has left what it was made from.                 *)
LEMMA CompleteOnce ==
    ASSUME NEW w, Alone(w), Complete(w)
    PROVE  Once(w)'
<1> DEFINE t == task[w]
           pending == {r \in journal : r.id # t.record.id}
<1>1. /\ t.pc = "ack" /\ t \in Task /\ t.after \in After /\ t.reply = None
      /\ journal' = pending /\ local' = local /\ nextId' = nextId /\ choice' = choice
      /\ server' = server /\ receipts' = receipts /\ net' = net
  BY OfAlone DEF Complete, Prepared, serverVars
<1>2. /\ t.record \in journal \ t.todo /\ t.todo \subseteq journal
      /\ [to |-> w, record |-> t.record] \notin net
  BY <1>1 DEF Alone, Once, UnderWay
<1>3. pending = journal \ {t.record}
  BY <1>2, DrawnRecords DEF Alone, Once, InDrawingOrder
<1> HIDE DEF pending
<1>4. Drawn' \subseteq Drawn /\ Drawn' \ journal' \subseteq (Drawn \ journal) \cup {t.record}
      /\ journal' \subseteq journal
  BY <1>1, <1>3 DEF Drawn
<1>5. task'[w] = CASE t.after = "idle" -> Idle
                   [] t.after = "login" -> Round("login", pending)
                   [] t.after = "plain" -> Start(w, "plain", pending)
                   [] OTHER -> [t EXCEPT !.pc = t.after, !.record = None, !.after = None]
  BY OfAlone DEF Complete, Goto, pending
<1>6. InDrawingOrder' /\ UploadsDiffer'
  BY <1>1, <1>4 DEF InDrawingOrder, UploadsDiffer, Alone, Once, IsSync
<1>7. OneReceipt'
  BY <1>1 DEF OneReceipt, Alone, Once
<1>8. /\ task'[w].pc \in {"idle", "load", "replay"} /\ task'[w].reply = None
      /\ task'[w].todo \subseteq pending
      /\ task'[w].pc = "load" => pending = {}
      /\ task'[w].pc = "replay" => task'[w].todo = pending
  <2>1. CASE t.after = "idle"
    BY <1>5, <2>1 DEF Idle
  <2>2. CASE t.after \in {"login", "plain"}
    <3>1. \E p : task'[w] = Round(p, pending)
      BY <1>5, <2>2 DEF Start
    <3>2. QED
      BY <3>1, RoundFields
  <2>3. CASE t.after \in {"load", "replay"}
    <3>1. task'[w] = [t EXCEPT !.pc = t.after, !.record = None, !.after = None]
      BY <1>5, <2>3
    <3>2. task'[w].pc = t.after /\ task'[w].todo = t.todo /\ task'[w].reply = None
      BY <1>1, <3>1 DEF Task
    <3>3. /\ t.after = "load" => journal = {t.record}
          /\ t.after = "replay" => journal = t.todo \cup {t.record}
      BY <1>1 DEF Alone, Once, Emptied
    <3>4. QED
      BY <1>2, <1>3, <2>3, <3>2, <3>3
  <2>4. QED
    BY <1>1, <2>1, <2>2, <2>3 DEF After
<1>9. UnderWay(w)'
  <2>1. \A m \in net' : m.record \in journal'
    <3> SUFFICES ASSUME NEW m \in net PROVE m.record \in journal /\ m.record # t.record
      BY <1>1, <1>3
    <3>1. m.to = w /\ m = [to |-> m.to, record |-> m.record]
      BY DEF Alone, IInv, Memory, Request
    <3>2. QED
      BY <1>2, <3>1 DEF Alone, Once, UnderWay
  <2>2. QED
    BY <1>1, <1>8, <2>1 DEF UnderWay
<1>10. Emptied(w)'
  BY <1>1, <1>8 DEF Emptied
<1>11. Left'
  <2>1. ASSUME IsSync(t.record), t.record \notin journal', t.record \in Drawn', local.base = t.record.base,
               local.content \subseteq t.record.content
        PROVE  FALSE
    <3>1. \E x \in receipts : x.record = t.record
      BY <1>1, <2>1 DEF Drawn
    <3>2. local # t.record.expected
      BY <1>1, <2>1, <3>1 DEF Alone, Once, Newer
    <3>3. t.record.expected = [content |-> t.record.content, base |-> t.record.base]
          /\ t.record.content \subseteq local.content
      BY <1>2, <2>1 DEF Alone, Once, Left
    <3>4. local = [content |-> local.content, base |-> local.base]
      BY OfAlone DEF Archive
    <3>5. local.content = t.record.content
      BY <2>1, <3>3
    <3>6. QED
      BY <2>1, <3>2, <3>3, <3>4, <3>5
  <2>2. \A r \in Drawn' \ journal' : IsSync(r) /\ local.base = r.base => ~(local.content \subseteq r.content)
    BY <1>4, <2>1 DEF Alone, Once, Left
  <2>3. QED
    BY <1>1, <1>4, <2>2 DEF Left, Alone, Once, IsSync
<1>12. Newer(w)'
  BY <1>1, <1>4, <1>8 DEF Newer, Alone, Once, Beyond, IsSync
<1>13. QED
  BY <1>6, <1>7, <1>9, <1>10, <1>11, <1>12 DEF Once

(* An answer that is delivered changes the reply of a waiting task only.    *)
LEMMA Delivered ==
    ASSUME NEW w, Alone(w), NEW m \in net, NEW a, Deliver(m, a)
    PROVE  /\ m = [to |-> w, record |-> m.record] /\ m.record \in journal
           /\ \/ task'[w] = task[w]
              \/ /\ task[w].pc \in {"wait", "replaying"} /\ task[w].record = m.record
                 /\ task'[w].pc = task[w].pc /\ task'[w].record = task[w].record
                 /\ task'[w].todo = task[w].todo /\ task'[w].purpose = task[w].purpose
                 /\ task'[w].snap = task[w].snap /\ task'[w].reply = a
<1>1. m.to = w /\ m = [to |-> w, record |-> m.record] /\ m.record \in journal
  BY DEF Alone, IInv, Memory, Request, Once, UnderWay
<1>2. CASE Waiting(m)
  <2>1. task' = [task EXCEPT ![w].reply = a] /\ task[w] \in Task
    BY <1>1, <1>2, OfAlone DEF Deliver
  <2>2. task'[w] = [task[w] EXCEPT !.reply = a]
    BY <2>1 DEF Alone, IInv, Memory
  <2>3. /\ task'[w].pc = task[w].pc /\ task'[w].record = task[w].record
        /\ task'[w].todo = task[w].todo /\ task'[w].purpose = task[w].purpose
        /\ task'[w].snap = task[w].snap /\ task'[w].reply = a
    BY <2>1, <2>2 DEF Task
  <2>4. QED
    BY <1>1, <1>2, <2>3 DEF Waiting
<1>3. CASE ~Waiting(m)
  BY <1>1, <1>3 DEF Deliver
<1>4. QED
  BY <1>2, <1>3

(* Serving a request that is applied already, or refused.                   *)
LEMMA RepeatedOnce ==
    ASSUME NEW w, Alone(w), NEW m \in net, NEW a, Deliver(m, a), net' = net \ {m},
           UNCHANGED <<storedVars, dialogVars, serverVars>>,
           IF a.kind = "conflict" THEN \A x \in receipts : x.record # m.record
           ELSE \E x \in receipts : x.record = m.record /\ x.answer = a
    PROVE  Once(w)'
<1>1. /\ local' = local /\ journal' = journal /\ nextId' = nextId /\ choice' = choice
      /\ server' = server /\ receipts' = receipts /\ Drawn' = Drawn
  BY DEF storedVars, dialogVars, serverVars, Drawn
<1>2. CASE task'[w] = task[w]
  BY <1>1, <1>2, GoesOn, NothingDrawn, OfAlone
<1>3. CASE task'[w] # task[w]
  <2>1. /\ task[w].pc \in {"wait", "replaying"} /\ task[w].record = m.record
        /\ task'[w].pc = task[w].pc /\ task'[w].record = task[w].record
        /\ task'[w].todo = task[w].todo /\ task'[w].purpose = task[w].purpose
        /\ task'[w].snap = task[w].snap /\ task'[w].reply = a
        /\ m = [to |-> w, record |-> m.record]
    BY <1>3, Delivered
  <2>2. UnderWay(w)'
    BY <1>1, <2>1 DEF UnderWay, Alone, Once
  <2>3. Emptied(w)' /\ Newer(w)'
    BY <1>1, <2>1 DEF Emptied, Newer, Alone, Once, Beyond, IsSync
  <2>4. QED
    BY <1>1, <2>2, <2>3, NothingDrawn, OfAlone
<1>4. QED
  BY <1>2, <1>3

(* Serving a request that is applied: its record was drawn from a version   *)
(* the server had reached, so the receipt is younger than all others.       *)
LEMMA AppliedOnceMore ==
    ASSUME NEW w, Alone(w), NEW m \in net, NEW a \in Answer, Deliver(m, a), net' = net \ {m},
           UNCHANGED <<storedVars, dialogVars>>,
           \A x \in receipts : x.record # m.record, a.kind # "conflict",
           a.version = server.version + 1, server'.version = server.version + 1,
           m.record.op = "resolve" => m.record.base = server.version,
           receipts' = receipts \cup {[record |-> m.record, answer |-> a]}
    PROVE  Once(w)'
<1> DEFINE r == m.record
           x0 == [record |-> r, answer |-> a]
<1>1. /\ local' = local /\ journal' = journal /\ nextId' = nextId /\ choice' = choice
  BY DEF storedVars, dialogVars
<1>2. /\ m = [to |-> w, record |-> r] /\ r \in journal
      /\ \/ task'[w] = task[w]
         \/ /\ task[w].pc \in {"wait", "replaying"} /\ task[w].record = r
            /\ task'[w].pc = task[w].pc /\ task'[w].record = task[w].record
            /\ task'[w].todo = task[w].todo /\ task'[w].purpose = task[w].purpose
            /\ task'[w].snap = task[w].snap /\ task'[w].reply = a
  BY Delivered
<1>3. x0.record = r /\ x0.answer = a /\ receipts' = receipts \cup {x0}
  OBVIOUS
<1> HIDE DEF r, x0
<1>4. Drawn' = Drawn
  BY <1>1, <1>2, <1>3 DEF Drawn
<1>5. \A q \in Drawn : q.base < a.version /\ q.base \in Nat
  <2> SUFFICES ASSUME NEW q \in Drawn PROVE q.base <= server.version
    BY DrawnRecords, OfAlone DEF Alone
  <2>1. CASE q \in journal
    BY <2>1, OfAlone
  <2>2. CASE \E x \in receipts : x.record = q
    <3>1. PICK x \in receipts : x.record = q
      BY <2>2
    <3>2. q.base < x.answer.version
      <4>1. q.id <= x.record.id
        BY <3>1, DrawnRecords DEF Alone
      <4>2. QED
        BY <4>1 DEF Alone, Once, InDrawingOrder
    <3>3. QED
      BY <3>2, DrawnRecords, OfAlone DEF Alone, Once, OneReceipt
  <2>3. QED
    BY <2>1, <2>2 DEF Drawn
<1>6. InDrawingOrder'
  <2>1. \A q \in Drawn, x \in receipts' : q.id <= x.record.id => q.base < x.answer.version
    BY <1>3, <1>5 DEF Alone, Once, InDrawingOrder
  <2>2. QED
    BY <1>1, <1>4, <2>1 DEF InDrawingOrder, Alone, Once, IsSync
<1>7. UploadsDiffer'
  BY <1>4 DEF UploadsDiffer, Alone, Once, IsSync
<1>8. OneReceipt'
  <2>1. \A x \in receipts : x.answer.version \in Nat /\ x.answer.version <= server.version
    BY DrawnRecords DEF Alone, Once, OneReceipt
  <2>2. \A x, y \in receipts' : x.answer.version = y.answer.version => x = y
    BY <1>3, <2>1, OfAlone DEF Alone, Once, OneReceipt
  <2>3. \A x, y \in receipts' : x.record = y.record => x = y
    BY <1>3 DEF Alone, Once, OneReceipt, r
  <2>4. \A x \in receipts' : /\ x.answer.kind # "conflict"
                             /\ x.answer.version <= server'.version
                             /\ x.record.op = "resolve" => x.answer.version = x.record.base + 1
    BY <1>3, <2>1, OfAlone DEF Alone, Once, OneReceipt, r
  <2>5. QED
    BY <2>2, <2>3, <2>4 DEF OneReceipt
<1>9. UnderWay(w)'
  <2>1. CASE task'[w] = task[w]
    <3>1. task[w].reply # None => task[w].record # r
      BY <1>2 DEF Alone, Once, UnderWay
    <3>2. QED
      BY <1>1, <1>2, <1>3, <2>1, <3>1 DEF UnderWay, Alone, Once
  <2>2. CASE task'[w] # task[w]
    BY <1>1, <1>2, <1>3, <2>2 DEF UnderWay, Alone, Once
  <2>3. QED
    BY <2>1, <2>2
<1>10. Emptied(w)'
  BY <1>1, <1>2 DEF Emptied, Alone, Once, IsSync
<1>11. Left'
  BY <1>1, <1>4 DEF Left, Alone, Once, IsSync
<1>12. Newer(w)'
  <2>1. task[w].pc = "ack" => task[w].record # r
    BY <1>2 DEF Alone, Once, UnderWay
  <2>2. QED
    BY <1>1, <1>2, <1>3, <1>4, <2>1 DEF Newer, Alone, Once, Beyond, IsSync
<1>13. QED
  BY <1>6, <1>7, <1>8, <1>9, <1>10, <1>11, <1>12 DEF Once

LEMMA ServeOnce ==
    ASSUME NEW w, Alone(w), NEW m \in net, Serve(m)
    PROVE  Once(w)'
<1> DEFINE r == m.record
<1>1. net' = net \ {m} /\ UNCHANGED <<storedVars, dialogVars>>
  BY DEF Serve
<1>2. CASE \E x \in receipts : x.record = r
  <2>1. PICK x \in receipts : x.record = r /\ Deliver(m, x.answer)
    BY <1>2 DEF Serve
  <2>2. x.answer.kind # "conflict"
    BY DEF Alone, Once, OneReceipt
  <2>3. UNCHANGED serverVars
    BY <1>2 DEF Serve
  <2>4. QED
    BY <1>1, <2>1, <2>2, <2>3, RepeatedOnce
<1>3. CASE ~\E x \in receipts : x.record = r
  <2> DEFINE a == ServerAnswer(r)
  <2>1. Deliver(m, a) /\ r \in Record
    BY <1>3 DEF Serve, Alone, IInv, Memory, Request
  <2>2. CASE a.kind = "conflict"
    <3>1. UNCHANGED serverVars
      BY <1>3, <2>2 DEF Serve
    <3>2. QED
      BY <1>1, <1>3, <2>1, <2>2, <3>1, RepeatedOnce
  <2>3. CASE a.kind # "conflict"
    <3>1. /\ server' = [content |-> a.content, version |-> a.version]
          /\ receipts' = receipts \cup {[record |-> r, answer |-> a]}
      BY <1>3, <2>3 DEF Serve
    <3>2. a \in Answer /\ a.version = server.version + 1
      BY <2>1, <2>3, ServerAnswerCases, OfAlone
    <3>3. r.op = "resolve" => r.base = server.version
      BY <2>3 DEF ServerAnswer
    <3> HIDE DEF a
    <3>4. QED
      BY <1>1, <1>3, <2>1, <2>3, <3>1, <3>2, <3>3, AppliedOnceMore
  <2>4. QED
    BY <2>2, <2>3
<1>4. QED
  BY <1>2, <1>3

-----------------------------------------------------------------------------
(* The theorem about one window.                                            *)

LEMMA InitOnce ==
    ASSUME NEW w, Window = {w}, Init
    PROVE  Alone(w)
<1>1. IInv
  BY InitEstablishes
<1>2. Drawn = {} /\ task[w] = Idle /\ choice[w] = None
  BY DEF Init, Drawn
<1>3. InDrawingOrder /\ UploadsDiffer /\ OneReceipt /\ Left
  BY <1>2 DEF Init, InDrawingOrder, UploadsDiffer, OneReceipt, Left
<1>4. UnderWay(w) /\ Emptied(w) /\ Newer(w)
  BY <1>2 DEF Init, Idle, UnderWay, Emptied, Newer
<1>5. QED
  BY <1>1, <1>3, <1>4 DEF Alone, Once

LEMMA StepOnce ==
    ASSUME NEW w, Alone(w), [Next]_vars
    PROVE  Alone(w)'
<1>1. IInv' /\ (Window = {w})'
  BY NextKeeps DEF Alone
<1>2. CASE UNCHANGED vars
  BY <1>2, GoesOn, NothingDrawn, OfAlone, <1>1
     DEF Alone, vars, storedVars, dialogVars, serverVars
<1>3. CASE Recover(w) \/ PlainRound(w) \/ LogIn(w)
  BY <1>3, <1>1, BeginOnce, LogInOnce DEF Recover, PlainRound, Alone
<1>4. CASE Work(w)
  BY <1>4, <1>1, ReplayOnce, ReplayedSyncOnce, ReplayedResolveOnce, ReadForCalibrationOnce,
     CalibrateOnce, LoadOnce, AdoptOnce, OfferChoiceOnce, UploadOnce, AnsweredOnce,
     ConflictedOnce, CompleteOnce DEF Work, Alone
<1>5. CASE PickServer(w) \/ PickLocal(w) \/ RetryPick(w) \/ PickMerge(w) \/ Dismiss(w)
  BY <1>5, <1>1, PickServerOnce, KeepLocalOnce, PickMergeOnce, DismissOnce
     DEF PickLocal, RetryPick, Alone
<1>6. CASE \/ \E e \in LocalEdit : EditLocally(w, e)
           \/ \E resolved \in Content : ResolveConflict(w, resolved)
           \/ GiveUp(w) \/ Restart(w)
  BY <1>6, <1>1, EditLocallyOnce, ResolveConflictOnce, GiveUpOnce, RestartOnce DEF Alone
<1>7. CASE (\E e \in RemoteEdit : RemoteWrite(e)) \/ (\E m \in net : Serve(m))
  BY <1>7, <1>1, RemoteWriteOnce, ServeOnce DEF Alone
<1>8. QED
  <2>1. \A v \in Window : v = w
    BY DEF Alone
  <2>2. QED
    BY <1>2, <1>3, <1>4, <1>5, <1>6, <1>7, <2>1 DEF Next

LEMMA OnceMeansOnce ==
    ASSUME NEW w, Alone(w)
    PROVE  AppliedOnce
<1> SUFFICES ASSUME NEW x \in receipts, NEW y \in receipts, x.record.op = y.record.op,
                    x.record.base = y.record.base, x.record.content = y.record.content
             PROVE  x = y
  BY DEF AppliedOnce
<1>1. x.record \in Drawn /\ y.record \in Drawn /\ x.record.op \in {"sync", "resolve"}
  BY DrawnRecords DEF Alone, Record
<1>2. CASE x.record.op = "sync"
  <2>1. x.record = y.record
    BY <1>1, <1>2 DEF Alone, Once, UploadsDiffer, IsSync
  <2>2. QED
    BY <2>1 DEF Alone, Once, OneReceipt
<1>3. CASE x.record.op = "resolve"
  BY <1>3 DEF Alone, Once, OneReceipt
<1>4. QED
  BY <1>1, <1>2, <1>3

(* On a device with one window the server applies one intent once, however  *)
(* often its answer is lost, given up or late and the window restarted.     *)
THEOREM OneWindowAppliesOnce ==
    ASSUME NEW CONSTANT w, Window = {w}
    PROVE  Spec => []AppliedOnce
<1>1. Init => Alone(w)
  BY InitOnce
<1>2. Alone(w) /\ [Next]_vars => Alone(w)'
  BY StepOnce
<1>3. Alone(w) => AppliedOnce
  BY OnceMeansOnce
<1>4. QED
  BY <1>1, <1>2, <1>3, PTL DEF Spec
=============================================================================
