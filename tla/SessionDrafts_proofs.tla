------------------------ MODULE SessionDrafts_proofs ------------------------
(***************************************************************************)
(* Proofs about SessionDrafts, for any number of windows and any bounds:   *)
(* what a save reports as saved is stored, and a late save brings nothing  *)
(* back.                                                                   *)
(*                                                                         *)
(* Neither is inductive. What a window holds for a later save must not be  *)
(* newer than what is stored, unless the window typed it (Carried); what a *)
(* save brought back is what is stored, or has been replaced by another    *)
(* window (ResultOK); assessments are saved in order, and none waits while *)
(* the view shows one as saved (PicksOK, SelfKnown). A step acts in one    *)
(* window, w; the others see only its outcome for the stored programme     *)
(* (Outcome, OtherWindow). One lemma per action shows both (Stepped).      *)
(***************************************************************************)
EXTENDS SessionDrafts, TLAPS

-----------------------------------------------------------------------------
(* The queue as a sequence.                                                 *)

Tasks(q) == {q[i] : i \in 1..Len(q)}

(* At most one pipeline of drafts; assessments in the order they were made. *)
OnePipeline(q) == \A i, j \in 1..Len(q) : q[i].kind = "drafts" /\ q[j].kind = "drafts" => i = j
Ordered(q) == \A i, j \in 1..Len(q) :
    i < j /\ q[i].kind = "self" /\ q[j].kind = "self" => q[i].pick[2] < q[j].pick[2]

LEMMA TailFacts ==
    ASSUME NEW q \in Seq(Task), q # <<>>
    PROVE  /\ Head(q) = q[1] /\ Head(q) \in Task /\ 1 \in 1..Len(q)
           /\ Tail(q) \in Seq(Task)
           /\ Len(Tail(q)) = Len(q) - 1
           /\ \A i \in 1..Len(Tail(q)) : i + 1 \in 1..Len(q) /\ Tail(q)[i] = q[i + 1]
  OBVIOUS

(* What is appended is last.                                                *)
LEMMA AppendQueue ==
    ASSUME NEW q \in Seq(Task), OnePipeline(q), Ordered(q), NEW t \in Task,
           t.kind = "drafts" => \A u \in Tasks(q) : u.kind # "drafts",
           t.kind = "self" => \A u \in Tasks(q) : u.kind = "self" => u.pick[2] < t.pick[2]
    PROVE  /\ Append(q, t) \in Seq(Task) /\ OnePipeline(Append(q, t)) /\ Ordered(Append(q, t))
           /\ Tasks(Append(q, t)) = Tasks(q) \cup {t}
           /\ Append(q, t) # <<>> /\ (q # <<>> => Head(Append(q, t)) = Head(q))
  <1> DEFINE p == Append(q, t)
  <1>1. /\ p \in Seq(Task) /\ Len(p) = Len(q) + 1 /\ Len(q) \in Nat
        /\ \A i \in 1..Len(q) : p[i] = q[i]
        /\ p[Len(q) + 1] = t
    OBVIOUS
  <1>2. \A i \in 1..Len(q) : q[i] \in Tasks(q)  BY DEF Tasks
  <1> HIDE DEF p
  <1>3. \A i \in 1..Len(p) : (i \in 1..Len(q) /\ p[i] = q[i]) \/ (i = Len(q) + 1 /\ p[i] = t)
    BY <1>1
  <1>4. OnePipeline(p)  BY <1>2, <1>3 DEF OnePipeline
  <1>5. Ordered(p)  BY <1>1, <1>2, <1>3 DEF Ordered
  <1>6. Tasks(p) = Tasks(q) \cup {t}  BY <1>1, <1>3 DEF Tasks
  <1>7. p # <<>>  BY <1>1
  <1>8. q # <<>> => Head(p) = Head(q)  BY <1>1, <1>7, TailFacts
  <1> QED  BY <1>1, <1>4, <1>5, <1>6, <1>7, <1>8 DEF p

(* What is left after the first comes later than it.                        *)
LEMMA TailQueue ==
    ASSUME NEW q \in Seq(Task), OnePipeline(q), Ordered(q), q # <<>>
    PROVE  /\ Tail(q) \in Seq(Task) /\ OnePipeline(Tail(q)) /\ Ordered(Tail(q))
           /\ Tasks(Tail(q)) \subseteq Tasks(q) /\ Head(q) \in Tasks(q)
           /\ Head(q).kind = "drafts" => \A t \in Tasks(Tail(q)) : t.kind # "drafts"
           /\ Head(q).kind = "self" =>
                 \A t \in Tasks(Tail(q)) : t.kind = "self" => Head(q).pick[2] < t.pick[2]
  <1>1. /\ Head(q) = q[1] /\ 1 \in 1..Len(q) /\ Tail(q) \in Seq(Task)
        /\ \A i \in 1..Len(Tail(q)) : i + 1 \in 1..Len(q) /\ Tail(q)[i] = q[i + 1]
        /\ Len(Tail(q)) \in Nat
    BY TailFacts
  <1>2. OnePipeline(Tail(q))  BY <1>1 DEF OnePipeline
  <1>3. Ordered(Tail(q))  BY <1>1 DEF Ordered
  <1>4. Tasks(Tail(q)) \subseteq Tasks(q) /\ Head(q) \in Tasks(q)  BY <1>1 DEF Tasks
  <1>5. ASSUME NEW t \in Tasks(Tail(q))
        PROVE  /\ ~(Head(q).kind = "drafts" /\ t.kind = "drafts")
               /\ Head(q).kind = "self" /\ t.kind = "self" => Head(q).pick[2] < t.pick[2]
    <2>1. PICK i \in 1..Len(Tail(q)) : t = Tail(q)[i]  BY DEF Tasks
    <2>2. i + 1 \in 1..Len(q) /\ t = q[i + 1] /\ 1 < i + 1  BY <1>1, <2>1
    <2> QED  BY <1>1, <2>2 DEF OnePipeline, Ordered
  <1> QED  BY <1>1, <1>2, <1>3, <1>4, <1>5

(* A save that takes the place of another of its kind.                      *)
LEMMA ReplaceQueue ==
    ASSUME NEW q \in Seq(Task), OnePipeline(q), Ordered(q), NEW k \in 1..Len(q), NEW t \in Task,
           t.kind = "drafts", q[k].kind = "drafts"
    PROVE  LET p == [q EXCEPT ![k] = t]
           IN /\ p \in Seq(Task) /\ OnePipeline(p) /\ Ordered(p) /\ p # <<>>
              /\ Tasks(p) \subseteq Tasks(q) \cup {t}
  <1> DEFINE p == [q EXCEPT ![k] = t]
  <1>1. /\ p \in Seq(Task) /\ Len(p) = Len(q)
        /\ \A i \in 1..Len(q) : p[i] = IF i = k THEN t ELSE q[i]
    OBVIOUS
  <1> HIDE DEF p
  <1>2. OnePipeline(p)  BY <1>1 DEF OnePipeline
  <1>3. Ordered(p)  BY <1>1 DEF Ordered
  <1>4. Tasks(p) \subseteq Tasks(q) \cup {t}  BY <1>1 DEF Tasks
  <1>5. p # <<>>  BY <1>1
  <1> QED  BY <1>1, <1>2, <1>3, <1>4, <1>5 DEF p

LEMMA SingleQueue ==
    /\ <<>> \in Seq(Task) /\ OnePipeline(<<>>) /\ Ordered(<<>>) /\ Tasks(<<>>) = {}
    /\ \A t \in Task : /\ <<t>> \in Seq(Task) /\ OnePipeline(<<t>>) /\ Ordered(<<t>>)
                       /\ Tasks(<<t>>) = {t}
  <1>1. <<>> \in Seq(Task) /\ Len(<<>>) = 0  OBVIOUS
  <1>2. \A t \in Task : <<t>> \in Seq(Task) /\ Len(<<t>>) = 1 /\ <<t>>[1] = t  OBVIOUS
  <1>3. OnePipeline(<<>>) /\ Ordered(<<>>) /\ Tasks(<<>>) = {}
    BY <1>1 DEF OnePipeline, Ordered, Tasks
  <1>4. ASSUME NEW t \in Task
        PROVE  OnePipeline(<<t>>) /\ Ordered(<<t>>) /\ Tasks(<<t>>) = {t}
    <2> DEFINE p == <<t>>
    <2>1. Len(p) = 1 /\ p[1] = t  BY <1>2
    <2> HIDE DEF p
    <2>2. OnePipeline(p) /\ Ordered(p) /\ Tasks(p) = {t}
      BY <2>1 DEF OnePipeline, Ordered, Tasks
    <2> QED  BY <2>2 DEF p
  <1> QED  BY <1>1, <1>2, <1>3, <1>4

-----------------------------------------------------------------------------
(* Types.                                                                   *)

LEMMA SaveType ==
    ASSUME NEW kind \in {"drafts", "self", "evidence", "jump", "restore", "drain", "grade"},
           NEW snap \in Session
    PROVE  Save(kind, snap) \in Task
  BY DEF Save, Task

(* A copy of the programme with one part replaced.                          *)
LEMMA CopyType ==
    ASSUME NEW x \in Session, NEW d \in Draft, NEW b \in BOOLEAN
    PROVE  /\ [x EXCEPT !.answer = d] \in Session
           /\ [x EXCEPT !.self = d] \in Session
           /\ [x EXCEPT !.here = b] \in Session
  BY DEF Session

(* One window's part of the state.                                          *)
LEMMA WindowType ==
    ASSUME TypeOK, NEW w \in Window
    PROVE  /\ memory[w] \in Session /\ view[w] \in View /\ queue[w] \in Seq(Task)
           /\ memory[w].answer.rev + 1 \in Nat /\ memory[w].self.rev + 1 \in Nat
           /\ result[w] \in {None, Failed} \cup Session
  BY DEF TypeOK, Session, Draft

LEMMA ShownType ==
    ASSUME NEW copy \in Session
    PROVE  Shown(copy) \in View
  BY DEF Shown, Closed, Session, Draft, View

LEMMA MergedType ==
    ASSUME TypeOK, NEW snap \in Session
    PROVE  Merged(snap) \in Session
  BY DEF TypeOK, Session, Draft, Merged, MergeAnswer, MergeSelf, GradedPart, Later

(* The head of a queue that is not empty.                                   *)
LEMMA HeadType ==
    ASSUME TypeOK, NEW w \in Window, queue[w] # <<>>
    PROVE  /\ Head(queue[w]) \in Task /\ Head(queue[w]) \in Tasks(queue[w])
           /\ Head(queue[w]) = queue[w][1] /\ 1 \in 1..Len(queue[w])
  <1>1. queue[w] \in Seq(Task)  BY DEF TypeOK
  <1> QED  BY <1>1, TailFacts DEF Tasks

LEMMA NewTextType ==
    ASSUME TypeOK, NEW w \in Window, Typed
    PROVE  NewText(w) \in Text /\ texts' \in 0..MaxTexts
  BY BoundsAssumption DEF TypeOK, Typed, NewText, Text

LEMMA TypeInit == Init => TypeOK
  <1> SUFFICES ASSUME Init PROVE TypeOK  OBVIOUS
  <1>1. NewSession \in Session  BY DEF NewSession, NoDraft, Session, Draft
  <1>2. Closed \in View  BY DEF Closed, View
  <1>3. \A w \in Window : queue[w] \in Seq(Task) /\ Len(queue[w]) = 0
    <2>1. <<>> \in Seq(Task) /\ Len(<<>>) = 0  OBVIOUS
    <2> QED  BY <2>1 DEF Init
  <1>4. queue \in [Window -> Seq(Task)]  BY <1>3 DEF Init
  <1> QED  BY <1>1, <1>2, <1>3, <1>4, ShownType, BoundsAssumption DEF Init, TypeOK

(* A step changes the state of one window only.                             *)
Local(w, m, q, r, v) ==
    /\ memory' = [memory EXCEPT ![w] = m] /\ queue' = [queue EXCEPT ![w] = q]
    /\ result' = [result EXCEPT ![w] = r] /\ view' = [view EXCEPT ![w] = v]
Others(w) == \A u \in Window : u # w =>
    memory'[u] = memory[u] /\ queue'[u] = queue[u] /\ result'[u] = result[u] /\ view'[u] = view[u]
InTypes(m, q, r, v) ==
    /\ m \in Session /\ q \in Seq(Task) /\ r \in {None, Failed} \cup Session /\ v \in View
    /\ OnePipeline(q)

LEMMA LocalType ==
    ASSUME TypeOK, NEW w \in Window, NEW m, NEW q, NEW r, NEW v,
           Local(w, m, q, r, v), InTypes(m, q, r, v), stored' \in Session,
           texts' \in 0..MaxTexts, faults' \in 0..MaxFaults, saves' \in 0..MaxSaves,
           opens' \in 0..MaxOpens
    PROVE  /\ TypeOK'
           /\ memory'[w] = m /\ queue'[w] = q /\ result'[w] = r /\ view'[w] = v
           /\ Others(w)
  BY DEF TypeOK, Local, InTypes, OnePipeline, Others

(* What a window has not changed.                                           *)
LEMMA SameLocal ==
    ASSUME TypeOK, NEW w \in Window
    PROVE  /\ memory = [memory EXCEPT ![w] = memory[w]]
           /\ queue = [queue EXCEPT ![w] = queue[w]]
           /\ result = [result EXCEPT ![w] = result[w]]
           /\ view = [view EXCEPT ![w] = view[w]]
           /\ OnePipeline(queue[w])
           /\ stored \in Session /\ texts \in 0..MaxTexts /\ faults \in 0..MaxFaults
           /\ saves \in 0..MaxSaves /\ opens \in 0..MaxOpens
  BY DEF TypeOK, OnePipeline

-----------------------------------------------------------------------------
(* The inductive invariant.                                                 *)

StoredOK ==
    /\ stored.graded => stored.answer.text = None
    /\ ~stored.graded /\ stored.self.text = None => stored.self.rev = 0

(* A programme that w holds, in memory or for a later save, knows a grade   *)
(* only if memory does, carries a newer answer only if w typed it, and no   *)
(* newer assessment.                                                        *)
Carried(w, x) ==
    /\ x.graded => memory[w].graded
    /\ x.graded \/ x.answer.rev <= stored.answer.rev
                \/ (x.answer.text # None /\ x.answer.text[1] = w)
    /\ x.self.rev <= stored.self.rev

MemoryOK(w) ==
    /\ Carried(w, memory[w])
    /\ memory[w].graded => stored.graded
    /\ memory[w].self.rev = stored.self.rev => memory[w].self.text \in {None, stored.self.text}

TaskOK(w, t) ==
    /\ t.kind # "grade" => Carried(w, t.snap)
    /\ t.kind = "grade" => t.snap.graded
    /\ t.latest # None => Carried(w, t.latest)
TasksOK(w) == \A t \in Tasks(queue[w]) : TaskOK(w, t)

(* What a save brought back was stored, and has been replaced since only by *)
(* other windows.                                                           *)
ResultOK(w) == result[w] \notin {None, Failed} =>
    /\ memory[w].graded => result[w].graded
    /\ result[w].graded => stored.graded
    /\ result[w].answer.rev <= stored.answer.rev
    /\ result[w].self.rev <= stored.self.rev
    /\ result[w].self.rev = stored.self.rev => result[w].self = stored.self
    /\ result[w].self.rev < stored.self.rev /\ ~stored.graded =>
          stored.self.text # None /\ stored.self.text[1] # w

(* Assessments are saved in the order they were made, and while one waits   *)
(* the view does not show it as saved.                                      *)
PicksOK(w) ==
    /\ \A t \in Tasks(queue[w]) : t.kind = "self" =>
          /\ t.pick # None /\ t.pick[1] = w /\ t.pick[2] <= texts
          /\ ~stored.graded => /\ view[w].phase = "assessing" /\ ~view[w].durable
                               /\ t.pick[2] <= view[w].pick[2]
    /\ Ordered(queue[w])
    /\ view[w].phase = "assessing" => view[w].pick # None

(* A window knows the stored assessment if it is its own, or is saving it.  *)
SelfKnown(w) == ~stored.graded /\ view[w].phase # "closed" =>
    \/ stored.self.text = None
    \/ stored.self.text[1] # w
    \/ memory[w].self = stored.self
    \/ memory[w].self.rev = stored.self.rev /\ memory[w].self.text = None
    \/ memory[w].self.rev + 1 = stored.self.rev /\ view[w].phase = "assessing" /\ ~view[w].durable

SelfReported(w) ==
    ~stored.graded /\ Finished(w, "self") /\ result[w] # Failed /\ result[w].self.text # None =>
        Kept(stored.self.text, Head(queue[w]).pick, w)
AnswerReported(w) ==
    ~stored.graded /\ Finished(w, "drafts") /\ Saved(Head(queue[w]), result[w]) =>
        Kept(stored.answer.text, Head(queue[w]).snap.answer.text, w)
SelfShown(w) ==
    ~stored.graded /\ view[w].phase = "assessing" /\ view[w].durable =>
        Kept(stored.self.text, view[w].pick, w)

(* A save that runs or has run is the first of the queue; a closed window   *)
(* has none.                                                                *)
IdleOK(w) ==
    /\ queue[w] = <<>> => result[w] = None
    /\ view[w].phase = "closed" => queue[w] = <<>>

WindowInv(w) ==
    /\ IdleOK(w) /\ MemoryOK(w) /\ TasksOK(w) /\ ResultOK(w) /\ PicksOK(w) /\ SelfKnown(w)
    /\ SelfReported(w) /\ AnswerReported(w) /\ SelfShown(w)

IInv == TypeOK /\ StoredOK /\ \A w \in Window : WindowInv(w)

(* What a step of w may do to the stored programme.                         *)
NewSelf(w, next) ==
    /\ queue[w] # <<>> /\ Head(queue[w]).kind = "self"
    /\ next.self.rev = stored.self.rev + 1 /\ next.self.text = Head(queue[w]).pick
    /\ memory[w].self.rev = stored.self.rev
Outcome(w, next) ==
    /\ next \in Session
    /\ stored.graded => next.graded
    /\ next.graded => next.answer.text = None
    /\ stored.answer.rev <= next.answer.rev
    /\ \/ next.graded \/ next.answer = stored.answer
       \/ next.answer.text # None /\ next.answer.text[1] = w
    /\ \/ next.self = stored.self
       \/ stored.self.rev < next.self.rev /\ (next.graded \/ NewSelf(w, next))

LEMMA TextParts ==
    /\ \A t \in Text : t # None /\ t[1] \in Window /\ t[2] \in Nat
    /\ \A w \in Window : NewText(w)[1] = w /\ NewText(w)[2] = texts + 1
  BY ValuesAssumption DEF Text, NewText

LEMMA SessionParts ==
    ASSUME NEW x \in Session
    PROVE  /\ x # None /\ x # Failed
           /\ x.answer.rev \in Nat /\ x.self.rev \in Nat
           /\ x.answer.text \in Text \cup {None} /\ x.self.text \in Text \cup {None}
           /\ x.graded \in BOOLEAN /\ x.here \in BOOLEAN
           /\ x.answer = [rev |-> x.answer.rev, text |-> x.answer.text]
           /\ x.self = [rev |-> x.self.rev, text |-> x.self.text]
  BY ValuesAssumption DEF Session, Draft

LEMMA TaskParts ==
    ASSUME TypeOK, NEW w \in Window, NEW t \in Tasks(queue[w])
    PROVE  /\ t \in Task /\ t.snap \in Session
           /\ t.latest # None => t.latest \in Session
           /\ t.pick \in Text \cup {None}
  <1>1. queue[w] \in Seq(Task)  BY WindowType
  <1>2. t \in Task  BY <1>1 DEF Tasks
  <1> QED  BY <1>2 DEF Task

LEMMA ViewParts ==
    ASSUME TypeOK, NEW w \in Window
    PROVE  /\ view[w].typed \in Text \cup {None} /\ view[w].pick \in Text \cup {None}
           /\ view[w].durable \in BOOLEAN
  <1>1. view[w] \in View  BY WindowType
  <1> QED  BY <1>1 DEF View

(* A step of w leaves the others' part of the invariant.                    *)
LEMMA OtherWindow ==
    ASSUME IInv, NEW w \in Window, NEW u \in Window, u # w, Others(w), Outcome(w, stored'),
           texts' \in Nat, texts <= texts'
    PROVE  WindowInv(u)'
  <1>1. /\ memory'[u] = memory[u] /\ queue'[u] = queue[u]
        /\ result'[u] = result[u] /\ view'[u] = view[u]
    BY DEF Others
  <1>2. WindowInv(u) /\ WindowInv(w) /\ TypeOK /\ StoredOK  BY DEF IInv
  <1>3. stored \in Session /\ stored' \in Session /\ memory[u] \in Session
        /\ texts \in Nat /\ (result[u] \notin {None, Failed} => result[u] \in Session)
    BY <1>2, SameLocal, WindowType DEF Outcome
  <1>4. stored'.graded \/ stored'.self = stored.self
        \/ (stored'.self.text # None /\ stored'.self.text[1] = w)
    <2>1. CASE NewSelf(w, stored')
      BY <2>1, <1>2, HeadType DEF NewSelf, WindowInv, PicksOK
    <2> QED  BY <2>1 DEF Outcome
  <1>n. /\ stored.answer.rev \in Nat /\ stored.self.rev \in Nat
        /\ stored'.answer.rev \in Nat /\ stored'.self.rev \in Nat
        /\ memory[u].answer.rev \in Nat /\ memory[u].self.rev \in Nat
        /\ result[u] \notin {None, Failed} =>
              result[u].answer.rev \in Nat /\ result[u].self.rev \in Nat
    BY <1>3, SessionParts
  <1>5. /\ stored.answer.rev <= stored'.answer.rev /\ stored.self.rev <= stored'.self.rev
        /\ stored'.self = stored.self \/ stored.self.rev < stored'.self.rev
    BY <1>n DEF Outcome
  <1>0. IdleOK(u)'  BY <1>1, <1>2 DEF WindowInv, IdleOK
  <1>6. \A x \in Session : Carried(u, x) => Carried(u, x)'
    <2> TAKE x \in Session
    <2>1. x.answer.rev \in Nat /\ x.self.rev \in Nat  BY SessionParts
    <2> QED  BY <1>1, <1>n, <1>5, <2>1 DEF Carried
  <1>7. MemoryOK(u)'
    <2>1. Carried(u, memory[u])'  BY <1>1, <1>2, <1>3, <1>6 DEF WindowInv, MemoryOK
    <2>2. memory[u].self.rev <= stored.self.rev  BY <1>2 DEF WindowInv, MemoryOK, Carried
    <2> QED  BY <1>1, <1>2, <1>n, <1>5, <2>1, <2>2 DEF WindowInv, MemoryOK, Outcome
  <1>8. TasksOK(u)'
    BY <1>1, <1>2, <1>6, TaskParts DEF WindowInv, TasksOK, TaskOK
  <1>9. ResultOK(u)'
    BY <1>1, <1>2, <1>n, <1>4, <1>5 DEF WindowInv, ResultOK, Outcome
  <1>10. PicksOK(u)'
    <2>1. \A t \in Tasks(queue[u]) : t.kind = "self" => t.pick[2] \in Nat
      BY <1>2, TaskParts, TextParts DEF WindowInv, PicksOK
    <2> QED  BY <1>1, <1>2, <1>3, <2>1 DEF WindowInv, PicksOK, Outcome
  <1>11. SelfKnown(u)'
    BY <1>1, <1>2, <1>3, <1>4 DEF WindowInv, SelfKnown, Outcome
  <1>12. SelfReported(u)'
    BY <1>1, <1>2, <1>3, <1>4 DEF WindowInv, SelfReported, Outcome, Finished, Kept
  <1>13. AnswerReported(u)'
    BY <1>1, <1>2, <1>3 DEF WindowInv, AnswerReported, Outcome, Finished, Kept, Saved
  <1>14. SelfShown(u)'
    BY <1>1, <1>2, <1>3, <1>4 DEF WindowInv, SelfShown, Outcome, Kept
  <1> QED  BY <1>0, <1>7, <1>8, <1>9, <1>10, <1>11, <1>12, <1>13, <1>14 DEF WindowInv

-----------------------------------------------------------------------------
(* The saves that run: RunSave, RunSelf, RunGrade.                          *)

LEMMA StoredStays == ASSUME IInv, NEW w \in Window PROVE Outcome(w, stored)
  <1>1. stored \in Session /\ StoredOK  BY SameLocal DEF IInv
  <1>2. stored.answer.rev \in Nat  BY <1>1, SessionParts
  <1> QED  BY <1>1, <1>2 DEF Outcome, StoredOK

LEMMA MergedParts ==
    ASSUME NEW x \in Session
    PROVE  /\ Merged(x).answer = MergeAnswer(stored.answer, x.answer, stored.graded \/ x.graded)
           /\ Merged(x).self = IF x.self.rev > stored.self.rev THEN x.self ELSE stored.self
           /\ Merged(x).graded = (stored.graded \/ x.graded)
  BY DEF Merged, MergeSelf, GradedPart

(* What a merge does to the answer and the grade.                           *)
LEMMA MergedAnswer ==
    ASSUME IInv, NEW w \in Window, NEW x \in Session,
           \/ x.graded \/ x.answer.rev <= stored.answer.rev
           \/ x.answer.text # None /\ x.answer.text[1] = w
    PROVE  /\ Merged(x) \in Session
           /\ stored.graded => Merged(x).graded
           /\ Merged(x).graded => Merged(x).answer.text = None
           /\ stored.answer.rev <= Merged(x).answer.rev
           /\ \/ Merged(x).graded \/ Merged(x).answer = stored.answer
              \/ Merged(x).answer.text # None /\ Merged(x).answer.text[1] = w
  <1>1. TypeOK /\ Merged(x) \in Session /\ stored \in Session  BY MergedType, SameLocal DEF IInv
  <1>2. /\ stored.answer.rev \in Nat /\ x.answer.rev \in Nat
        /\ stored.graded \in BOOLEAN /\ x.graded \in BOOLEAN
        /\ x.answer = [rev |-> x.answer.rev, text |-> x.answer.text]
    BY <1>1, SessionParts
  <1>3. /\ Merged(x).answer = MergeAnswer(stored.answer, x.answer, stored.graded \/ x.graded)
        /\ Merged(x).graded = (stored.graded \/ x.graded)
    BY MergedParts
  <1>4. CASE stored.graded \/ x.graded
    BY <1>1, <1>2, <1>3, <1>4 DEF MergeAnswer, Later
  <1>5. CASE ~(stored.graded \/ x.graded)
    BY <1>1, <1>2, <1>3, <1>5 DEF MergeAnswer
  <1> QED  BY <1>4, <1>5

(* A save applies or it does not, whatever it reports.                      *)
LEMMA WriteOutcome ==
    ASSUME IInv, NEW w \in Window, NEW next, Outcome(w, next),
           Write(w, next) \/ Refuse(w)
    PROVE  /\ Outcome(w, stored') /\ faults' \in 0..MaxFaults
           /\ \E r \in {Failed, next} : result' = [result EXCEPT ![w] = r]
                                       /\ (r # Failed => r = stored')
  <1>1. Outcome(w, stored) /\ faults \in 0..MaxFaults  BY StoredStays, SameLocal DEF IInv
  <1>2. CASE Refuse(w)  BY <1>1, <1>2 DEF Refuse
  <1>3. CASE Write(w, next)
    <2>1. CASE stored' = next /\ result' = [result EXCEPT ![w] = next] /\ UNCHANGED faults
      BY <1>1, <2>1
    <2>2. CASE /\ faults < MaxFaults /\ faults' = faults + 1 /\ stored' \in {stored, next}
               /\ result' = [result EXCEPT ![w] = Failed]
      <3>1. Outcome(w, stored')  BY <1>1, <2>2
      <3>2. faults' \in 0..MaxFaults  BY <1>1, <2>2, BoundsAssumption
      <3> QED  BY <2>2, <3>1, <3>2
    <2> QED  BY <1>3, <2>1, <2>2 DEF Write
  <1> QED  BY <1>2, <1>3

LEMMA RunSaveOutcome ==
    ASSUME IInv, NEW w \in Window, RunSave(w)
    PROVE  \E next \in Session : Outcome(w, next) /\ (Write(w, next) \/ Refuse(w))
  <1> DEFINE x == Head(queue[w]).snap
  <1>1. queue[w] # <<>> /\ Head(queue[w]).kind # "grade"  BY DEF RunSave, Running
  <1>2. x \in Session /\ Carried(w, x) /\ MemoryOK(w)
    BY <1>1, HeadType, TaskParts DEF IInv, WindowInv, TasksOK, TaskOK
  <1>3. stored \in Session /\ stored.self.rev \in Nat /\ x.self.rev \in Nat
    BY <1>2, SameLocal, SessionParts DEF IInv
  <1>4. Write(w, Merged(x)) \/ Refuse(w)  BY DEF RunSave
  <1>5. Merged(x).self = stored.self  BY <1>2, <1>3, MergedParts DEF Carried
  <1>6. Outcome(w, Merged(x))  BY <1>2, <1>5, MergedAnswer DEF Carried, Outcome
  <1> QED  BY <1>4, <1>6 DEF Outcome

(* The assessment that is saved is the next one, or one already stored, or  *)
(* another window has saved a newer one.                                    *)
LEMMA RunSelfOutcome ==
    ASSUME IInv, NEW w \in Window, RunSelf(w)
    PROVE  \E next \in Session :
              /\ Outcome(w, next)
              /\ \/ Refuse(w)
                 \/ /\ Write(w, next)
                    /\ ~next.graded /\ next.self.text # None =>
                          Kept(next.self.text, Head(queue[w]).pick, w)
  <1> DEFINE p == Head(queue[w]).pick
             x == [memory[w] EXCEPT !.self = [rev |-> @.rev + 1, text |-> p]]
  <1>1. queue[w] # <<>> /\ Head(queue[w]).kind = "self"
        /\ Head(queue[w]) \in Tasks(queue[w]) /\ TypeOK /\ WindowInv(w) /\ StoredOK
    BY HeadType DEF RunSelf, Running, IInv
  <1>2. p \in Text /\ p # None /\ p[1] = w  BY <1>1, TaskParts DEF WindowInv, PicksOK
  <1>3. memory[w] \in Session /\ stored \in Session /\ MemoryOK(w)
    BY <1>1, WindowType, SameLocal DEF WindowInv
  <1>4. /\ memory[w].self.rev \in Nat /\ stored.self.rev \in Nat
        /\ stored.self = [rev |-> stored.self.rev, text |-> stored.self.text]
        /\ memory[w].self.rev <= stored.self.rev
    BY <1>3, SessionParts DEF MemoryOK, Carried
  <1>5. /\ x \in Session /\ x.answer = memory[w].answer /\ x.graded = memory[w].graded
        /\ x.self = [rev |-> memory[w].self.rev + 1, text |-> p]
    <2>1. [rev |-> memory[w].self.rev + 1, text |-> p] \in Draft  BY <1>2, <1>4 DEF Draft
    <2> QED  BY <1>3, <2>1, CopyType DEF Session
  <1>6. Refuse(w) \/ (Write(w, Merged(x)) /\ ~Refused(x))  BY DEF RunSelf
  <1> HIDE DEF x, p
  <1>7. Merged(x).self = IF memory[w].self.rev = stored.self.rev THEN x.self ELSE stored.self
    BY <1>4, <1>5, MergedParts
  <1>8. Outcome(w, Merged(x))
    <2>1. \/ x.graded \/ x.answer.rev <= stored.answer.rev
          \/ x.answer.text # None /\ x.answer.text[1] = w
      BY <1>3, <1>5 DEF MemoryOK, Carried
    <2>2. Merged(x).self = stored.self
          \/ (stored.self.rev < Merged(x).self.rev /\ NewSelf(w, Merged(x)))
      BY <1>1, <1>4, <1>5, <1>7 DEF NewSelf, p
    <2>3. /\ Merged(x) \in Session
          /\ stored.graded => Merged(x).graded
          /\ Merged(x).graded => Merged(x).answer.text = None
          /\ stored.answer.rev <= Merged(x).answer.rev
          /\ \/ Merged(x).graded \/ Merged(x).answer = stored.answer
             \/ Merged(x).answer.text # None /\ Merged(x).answer.text[1] = w
      BY <1>5, <2>1, MergedAnswer
    <2> QED  BY <2>2, <2>3 DEF Outcome
  <1>9. ASSUME ~Refused(x), ~Merged(x).graded, Merged(x).self.text # None
        PROVE  Kept(Merged(x).self.text, p, w)
    <2>1. CASE memory[w].self.rev = stored.self.rev
      BY <1>5, <1>7, <2>1 DEF Kept
    <2>2. CASE memory[w].self.rev # stored.self.rev
      <3>1. Merged(x).self = stored.self /\ ~stored.graded
        BY <1>7, <1>8, <1>9, <2>2 DEF Outcome
      <3>2. stored.self.rev # memory[w].self.rev + 1 \/ stored.self.text = p
        BY <1>4, <1>5, <1>9 DEF Refused, SelvesDiffer
      <3>3. view[w].phase = "assessing"  BY <1>1, <3>1 DEF WindowInv, PicksOK
      <3>4. stored.self.text[1] # w \/ stored.self.text = p
        BY <1>1, <1>3, <1>4, <1>9, <2>2, <3>1, <3>2, <3>3 DEF WindowInv, SelfKnown
      <3> QED  BY <1>9, <3>1, <3>4 DEF Kept
    <2> QED  BY <2>1, <2>2
  <1>10. CASE Refuse(w)  BY <1>3, <1>10, StoredStays
  <1>11. CASE Write(w, Merged(x)) /\ ~Refused(x)
    <2>1. Merged(x) \in Session  BY <1>8 DEF Outcome
    <2> QED  BY <1>8, <1>9, <1>11, <2>1 DEF p
  <1> QED  BY <1>6, <1>10, <1>11

LEMMA RunGradeOutcome ==
    ASSUME IInv, NEW w \in Window, RunGrade(w)
    PROVE  \E next \in Session : Outcome(w, next) /\ (Write(w, next) \/ Refuse(w))
  <1> DEFINE x == Head(queue[w]).snap
  <1>1. queue[w] # <<>> /\ Head(queue[w]).kind = "grade"  BY DEF RunGrade, Running
  <1>2. x \in Session /\ x.graded /\ TypeOK
    BY <1>1, HeadType, TaskParts DEF IInv, WindowInv, TasksOK, TaskOK
  <1>3. stored \in Session /\ stored.self.rev \in Nat /\ x.self.rev \in Nat
    BY <1>2, SameLocal, SessionParts
  <1>4. Write(w, stored) \/ Write(w, Merged(x)) \/ Refuse(w)  BY DEF RunGrade
  <1>5. Merged(x).graded /\ (Merged(x).self = stored.self \/ stored.self.rev < Merged(x).self.rev)
    BY <1>2, <1>3, MergedParts
  <1>6. Outcome(w, Merged(x))  BY <1>2, <1>5, MergedAnswer DEF Outcome
  <1>7. Outcome(w, stored)  BY StoredStays
  <1> QED  BY <1>4, <1>6, <1>7 DEF Outcome

(* A save that runs leaves its own window's part of the invariant.          *)
LEMMA SaveWindow ==
    ASSUME IInv, NEW w \in Window, queue[w] # <<>>, result[w] = None,
           UNCHANGED <<memory, queue, view, texts>>,
           Outcome(w, stored'), result'[w] = Failed \/ result'[w] = stored',
           (Head(queue[w]).kind = "self" /\ result'[w] # Failed
            /\ ~stored'.graded /\ stored'.self.text # None) =>
              Kept(stored'.self.text, Head(queue[w]).pick, w)
    PROVE  WindowInv(w)'
  <1>1. TypeOK /\ StoredOK /\ WindowInv(w)  BY DEF IInv
  <1>2. /\ memory[w] \in Session /\ stored \in Session /\ stored' \in Session
        /\ Head(queue[w]) \in Tasks(queue[w])
    BY <1>1, WindowType, SameLocal, HeadType DEF Outcome
  <1>3. /\ stored.answer.rev \in Nat /\ stored.self.rev \in Nat
        /\ stored'.answer.rev \in Nat /\ stored'.self.rev \in Nat
        /\ memory[w].answer.rev \in Nat /\ memory[w].self.rev \in Nat
        /\ stored' # None /\ stored' # Failed
    BY <1>2, SessionParts
  <1>4. /\ stored.answer.rev <= stored'.answer.rev /\ stored.self.rev <= stored'.self.rev
        /\ stored'.self = stored.self \/ stored.self.rev < stored'.self.rev
    BY <1>3 DEF Outcome
  <1>5. \A x \in Session : Carried(w, x) => Carried(w, x)'
    <2> TAKE x \in Session
    <2>1. x.answer.rev \in Nat /\ x.self.rev \in Nat  BY SessionParts
    <2> QED  BY <1>3, <1>4, <2>1 DEF Carried
  <1>0. IdleOK(w)'  BY <1>1 DEF WindowInv, IdleOK
  <1>6. MemoryOK(w)'
    <2>1. Carried(w, memory[w])'  BY <1>1, <1>2, <1>5 DEF WindowInv, MemoryOK
    <2>2. memory[w].self.rev <= stored.self.rev  BY <1>1 DEF WindowInv, MemoryOK, Carried
    <2> QED  BY <1>1, <1>3, <1>4, <2>1, <2>2 DEF WindowInv, MemoryOK, Outcome
  <1>7. TasksOK(w)'
    BY <1>1, <1>5, TaskParts DEF WindowInv, TasksOK, TaskOK
  <1>8. ResultOK(w)'
    BY <1>1, <1>3 DEF WindowInv, ResultOK, MemoryOK, Outcome
  <1>9. PicksOK(w)'
    BY <1>1 DEF WindowInv, PicksOK, Outcome
  <1>10. ~stored'.graded /\ stored'.self # stored.self =>
            /\ NewSelf(w, stored')
            /\ view[w].phase = "assessing" /\ ~view[w].durable
    BY <1>1, <1>2 DEF WindowInv, PicksOK, Outcome, NewSelf
  <1>11. SelfKnown(w)'
    BY <1>1, <1>3, <1>10 DEF WindowInv, SelfKnown, Outcome, NewSelf
  <1>12. SelfReported(w)'
    BY DEF SelfReported, Finished
  <1>13. AnswerReported(w)'
    BY DEF AnswerReported, Finished, Saved, Kept
  <1>14. SelfShown(w)'
    BY <1>1, <1>10 DEF WindowInv, SelfShown, Outcome, Kept
  <1> QED  BY <1>0, <1>6, <1>7, <1>8, <1>9, <1>11, <1>12, <1>13, <1>14 DEF WindowInv

(* What every step does: w acts, the others see its outcome.                *)
Stepped(w) == TypeOK' /\ Others(w) /\ Outcome(w, stored') /\ texts <= texts' /\ WindowInv(w)'

LEMMA SaveStep ==
    ASSUME IInv, NEW w \in Window, RunSave(w) \/ RunSelf(w) \/ RunGrade(w)
    PROVE  Stepped(w)
  <1>1. /\ queue[w] # <<>> /\ result[w] = None
        /\ UNCHANGED <<memory, queue, view, texts, saves, opens>>
        /\ TypeOK
    BY DEF RunSave, RunSelf, RunGrade, Running, IInv
  <1>2. \E next \in Session :
          /\ Outcome(w, next) /\ (Write(w, next) \/ Refuse(w))
          /\ Head(queue[w]).kind = "self" =>
                \/ Refuse(w)
                \/ ~next.graded /\ next.self.text # None =>
                          Kept(next.self.text, Head(queue[w]).pick, w)
    <2>1. CASE RunSave(w)
      <3>1. Head(queue[w]).kind # "self"  BY <2>1 DEF RunSave, Running
      <3> QED  BY <2>1, <3>1, RunSaveOutcome
    <2>2. CASE RunSelf(w)  BY <2>2, RunSelfOutcome
    <2>3. CASE RunGrade(w)
      <3>1. Head(queue[w]).kind # "self"  BY <2>3 DEF RunGrade, Running
      <3> QED  BY <2>3, <3>1, RunGradeOutcome
    <2> QED  BY <2>1, <2>2, <2>3
  <1>3. PICK next \in Session :
          /\ Outcome(w, next) /\ (Write(w, next) \/ Refuse(w))
          /\ Head(queue[w]).kind = "self" =>
                \/ Refuse(w)
                \/ ~next.graded /\ next.self.text # None =>
                          Kept(next.self.text, Head(queue[w]).pick, w)
    BY <1>2
  <1>4. PICK r \in {Failed, next} : /\ result' = [result EXCEPT ![w] = r]
                                    /\ (r # Failed => r = stored')
                                    /\ Outcome(w, stored') /\ faults' \in 0..MaxFaults
    <2>1. Outcome(w, next) /\ (Write(w, next) \/ Refuse(w))  BY <1>3
    <2> QED  BY <2>1, WriteOutcome
  <1>5. result[w] \in {None, Failed} \cup Session /\ result \in [Window -> {None, Failed} \cup Session]
    BY <1>1 DEF TypeOK
  <1>6. result'[w] = r  BY <1>4, <1>5
  <1>7. TypeOK' /\ Others(w)
    <2>1. Local(w, memory[w], queue[w], r, view[w])
      BY <1>1, <1>4, SameLocal DEF Local
    <2>2. InTypes(memory[w], queue[w], r, view[w])
      BY <1>1, <1>3, <1>4, WindowType, SameLocal DEF InTypes
    <2>3. /\ stored' \in Session /\ texts' \in 0..MaxTexts /\ saves' \in 0..MaxSaves
          /\ opens' \in 0..MaxOpens
      BY <1>1, <1>4, SameLocal DEF Outcome
    <2> QED  BY <1>1, <1>4, <2>1, <2>2, <2>3, LocalType
  <1>8. (Head(queue[w]).kind = "self" /\ result'[w] # Failed
         /\ ~stored'.graded /\ stored'.self.text # None) =>
           Kept(stored'.self.text, Head(queue[w]).pick, w)
    <2>1. CASE Refuse(w)  BY <1>5, <2>1 DEF Refuse
    <2>2. CASE ~Refuse(w)  BY <1>3, <1>4, <1>6, <2>2
    <2> QED  BY <2>1, <2>2
  <1>9. WindowInv(w)'  BY <1>1, <1>4, <1>6, <1>8, SaveWindow
  <1>10. texts <= texts'  BY <1>1, SameLocal
  <1> QED  BY <1>4, <1>7, <1>9, <1>10 DEF Stepped

-----------------------------------------------------------------------------
(* Steps that leave the stored programme alone.                             *)

LEMMA Own ==
    ASSUME IInv, NEW w \in Window
    PROVE  /\ TypeOK /\ WindowInv(w) /\ Outcome(w, stored)
           /\ memory[w] \in Session /\ view[w] \in View /\ stored \in Session
           /\ queue[w] \in Seq(Task) /\ OnePipeline(queue[w]) /\ Ordered(queue[w])
           /\ result[w] \in {None, Failed} \cup Session
           /\ texts \in 0..MaxTexts /\ faults \in 0..MaxFaults
           /\ saves \in 0..MaxSaves /\ opens \in 0..MaxOpens
  BY WindowType, SameLocal, StoredStays DEF IInv, WindowInv, PicksOK

LEMMA QuietStep ==
    ASSUME IInv, NEW w \in Window, NEW m \in Session, NEW q \in Seq(Task), OnePipeline(q),
           NEW r \in {None, Failed} \cup Session, NEW v \in View, Local(w, m, q, r, v),
           stored' = stored, texts' \in 0..MaxTexts, faults' = faults, saves' \in 0..MaxSaves,
           opens' \in 0..MaxOpens, texts <= texts'
    PROVE  /\ memory'[w] = m /\ queue'[w] = q /\ result'[w] = r /\ view'[w] = v
           /\ WindowInv(w)' => Stepped(w)
  <1>1. TypeOK /\ Outcome(w, stored') /\ stored' \in Session /\ faults' \in 0..MaxFaults  BY Own
  <1>2. InTypes(m, q, r, v)  BY DEF InTypes
  <1> QED  BY <1>1, <1>2, LocalType DEF Stepped

(* A step that queues a save, or gives one that waits a newer draft.        *)
LEMMA QueuedStep ==
    ASSUME IInv, NEW w \in Window, NEW m \in Session, NEW q \in Seq(Task), NEW v \in View,
           OnePipeline(q), Ordered(q), q # <<>>, Local(w, m, q, result[w], v),
           stored' = stored, texts' \in 0..MaxTexts, faults' = faults, saves' \in 0..MaxSaves,
           opens' = opens, texts <= texts',
           \A t \in Tasks(q) : t \in Tasks(queue[w]) \/ (TaskOK(w, t) /\ t.kind # "self"),
           queue[w] # <<>> => /\ Head(q).kind = Head(queue[w]).kind
                              /\ Head(q).pick = Head(queue[w]).pick
                              /\ Head(q).snap = Head(queue[w]).snap,
           m.graded = memory[w].graded, m.self = memory[w].self, Carried(w, m),
           view[w].phase # "closed", v.phase # "closed",
           \/ v.phase = view[w].phase /\ v.pick = view[w].pick /\ v.durable = view[w].durable
           \/ /\ view[w].phase = "assessing" => view[w].durable
              /\ v.phase = "assessing" =>
                    v.pick # None /\ (~stored.graded => Kept(stored.self.text, v.pick, w))
    PROVE  Stepped(w)
  <1>1. /\ memory'[w] = m /\ queue'[w] = q /\ result'[w] = result[w] /\ view'[w] = v
        /\ WindowInv(w)' => Stepped(w)
    BY Own, QuietStep
  <1>2. WindowInv(w) /\ texts \in Nat /\ texts' \in Nat  BY Own
  <1>3. \A t \in Tasks(queue[w]) : t.kind = "self" => t.pick[2] \in Nat
    BY Own, TaskParts, TextParts DEF WindowInv, PicksOK
  <1>4. MemoryOK(w)' /\ IdleOK(w)' /\ ResultOK(w)'
    BY <1>1, <1>2 DEF WindowInv, MemoryOK, IdleOK, ResultOK, Carried
  <1>5. TasksOK(w)'
    BY <1>1, <1>2 DEF WindowInv, TasksOK, TaskOK, Carried
  <1>6. PicksOK(w)'  BY <1>1, <1>2, <1>3 DEF WindowInv, PicksOK
  <1>7. SelfKnown(w)'  BY <1>1, <1>2 DEF WindowInv, SelfKnown
  <1>8. SelfShown(w)'  BY <1>1, <1>2 DEF WindowInv, SelfShown, Kept
  <1>9. SelfReported(w)' /\ AnswerReported(w)'
    BY <1>1, <1>2 DEF WindowInv, IdleOK, SelfReported, AnswerReported, Finished, Kept, Saved
  <1> QED  BY <1>1, <1>4, <1>5, <1>6, <1>7, <1>8, <1>9 DEF WindowInv

(* The usual case: a save at the end of the queue.                          *)
LEMMA AppendStep ==
    ASSUME IInv, NEW w \in Window, NEW m \in Session, NEW t \in Task, NEW v \in View,
           t.kind # "self", t.kind = "drafts" => Pipelines(w) = {}, TaskOK(w, t),
           Local(w, m, Append(queue[w], t), result[w], v),
           stored' = stored, texts' \in 0..MaxTexts, faults' = faults, saves' \in 0..MaxSaves,
           opens' = opens, texts <= texts',
           m.graded = memory[w].graded, m.self = memory[w].self, Carried(w, m),
           view[w].phase # "closed", v.phase # "closed",
           \/ v.phase = view[w].phase /\ v.pick = view[w].pick /\ v.durable = view[w].durable
           \/ /\ view[w].phase = "assessing" => view[w].durable
              /\ v.phase = "assessing" =>
                    v.pick # None /\ (~stored.graded => Kept(stored.self.text, v.pick, w))
    PROVE  Stepped(w)
  <1> DEFINE q == Append(queue[w], t)
  <1>1. t.kind = "drafts" => \A u \in Tasks(queue[w]) : u.kind # "drafts"
    BY DEF Pipelines, Tasks
  <1>2. q \in Seq(Task) /\ OnePipeline(q) /\ Ordered(q) /\ Tasks(q) = Tasks(queue[w]) \cup {t}
    BY <1>1, Own, AppendQueue
  <1>3. q # <<>> /\ (queue[w] # <<>> => Head(q) = Head(queue[w]))
    <2>1. queue[w] \in Seq(Task) /\ OnePipeline(queue[w]) /\ Ordered(queue[w])  BY Own
    <2> QED  BY <2>1, <1>1, AppendQueue
  <1>4. \A u \in Tasks(q) : u \in Tasks(queue[w]) \/ (TaskOK(w, u) /\ u.kind # "self")
    BY <1>2
  <1> HIDE DEF q
  <1>5. Local(w, m, q, result[w], v)  BY DEF q
  <1> QED  BY <1>2, <1>3, <1>4, <1>5, QueuedStep

LEMMA PersistStep == ASSUME IInv, NEW w \in Window, Persist(w) PROVE Stepped(w)
  <1> DEFINE t == Save("evidence", memory[w])
  <1>1. t \in Task /\ t.kind = "evidence" /\ t.snap = memory[w] /\ t.latest = None
    BY Own, SaveType DEF Save
  <1>2. Carried(w, memory[w]) /\ TaskOK(w, t)  BY <1>1, Own DEF WindowInv, MemoryOK, TaskOK
  <1>3. Local(w, memory[w], Append(queue[w], t), result[w], view[w])
    BY Own, SameLocal DEF Persist, Enqueue, Local
  <1>4. /\ stored' = stored /\ texts' \in 0..MaxTexts /\ faults' = faults /\ opens' = opens
        /\ saves' \in 0..MaxSaves /\ texts <= texts' /\ view[w].phase # "closed"
    BY Own, BoundsAssumption DEF Persist
  <1> HIDE DEF t
  <1> QED  BY <1>1, <1>2, <1>3, <1>4, Own, AppendStep

LEMMA GradeStep == ASSUME IInv, NEW w \in Window, Grade(w) PROVE Stepped(w)
  <1> DEFINE t == Save("drain", memory[w])
             v == [view[w] EXCEPT !.phase = "reviewed", !.error = FALSE]
  <1>1. t \in Task /\ t.kind = "drain" /\ t.snap = memory[w] /\ t.latest = None
    BY Own, SaveType DEF Save
  <1>2. v \in View /\ v.phase = "reviewed"  BY Own DEF View
  <1>3. Carried(w, memory[w]) /\ TaskOK(w, t)  BY <1>1, Own DEF WindowInv, MemoryOK, TaskOK
  <1>4. Local(w, memory[w], Append(queue[w], t), result[w], v)
    BY Own, SameLocal DEF Grade, Enqueue, Local, TypeOK
  <1>5. /\ stored' = stored /\ texts' \in 0..MaxTexts /\ faults' = faults /\ opens' = opens
        /\ saves' \in 0..MaxSaves /\ texts <= texts'
        /\ view[w].phase # "closed" /\ (view[w].phase = "assessing" => view[w].durable)
    BY Own DEF Grade, countVars
  <1> HIDE DEF t, v
  <1> QED  BY <1>1, <1>2, <1>3, <1>4, <1>5, Own, AppendStep

LEMMA ShownParts ==
    ASSUME NEW copy \in Session
    PROVE  LET v == Shown(copy)
           IN /\ v \in View /\ v.phase # "closed" /\ v.typed = None
              /\ v.phase = "assessing" => ~copy.graded /\ copy.self.text # None
                                          /\ v.pick = copy.self.text
  BY ShownType DEF Shown, Closed

LEMMA JumpStep == ASSUME IInv, NEW w \in Window, Jump(w) PROVE Stepped(w)
  <1> DEFINE m == [memory[w] EXCEPT !.here = ~@]
             t == Save("jump", m)
             v == [Shown(m) EXCEPT !.typed = view[w].typed]
  <1>1. /\ m \in Session /\ m.graded = memory[w].graded /\ m.self = memory[w].self
        /\ m.answer = memory[w].answer
    BY Own DEF Session
  <1>2. Shown(m) \in View /\ Shown(m).phase # "closed"
        /\ (Shown(m).phase = "assessing" => /\ ~m.graded /\ m.self.text # None
                                           /\ Shown(m).pick = m.self.text)
    BY <1>1, ShownParts
  <1>3. v \in View /\ v.phase = Shown(m).phase /\ v.pick = Shown(m).pick
    BY <1>2, Own, ViewParts DEF View
  <1>4. Local(w, m, Append(queue[w], t), result[w], v)
    BY Own, SameLocal DEF Jump, Enqueue, Local
  <1>5. /\ stored' = stored /\ texts' \in 0..MaxTexts /\ faults' = faults /\ opens' = opens
        /\ saves' \in 0..MaxSaves /\ texts <= texts'
        /\ view[w].phase # "closed" /\ (view[w].phase = "assessing" => view[w].durable)
    BY Own, BoundsAssumption DEF Jump
  <1> HIDE DEF m
  <1>6. t \in Task /\ t.kind = "jump" /\ t.snap = m /\ t.latest = None
    BY <1>1, SaveType DEF Save
  <1>7. Carried(w, m) /\ TaskOK(w, t)
    BY <1>1, <1>6, Own DEF WindowInv, MemoryOK, TaskOK, Carried
  <1> HIDE DEF t, v
  <1>8. ASSUME v.phase = "assessing"
        PROVE  v.pick # None /\ (~stored.graded => Kept(stored.self.text, v.pick, w))
    <2>1. v.pick = memory[w].self.text /\ v.pick # None  BY <1>1, <1>2, <1>3, <1>8
    <2>2. ASSUME ~stored.graded PROVE Kept(stored.self.text, v.pick, w)
      <3>1. stored.self.rev \in Nat /\ memory[w].self.rev \in Nat /\ StoredOK
        BY Own, SessionParts DEF IInv
      <3>2. stored.self.text # None
        BY <2>1, <2>2, <3>1, Own DEF StoredOK, WindowInv, MemoryOK, Carried
      <3> QED  BY <1>5, <2>1, <2>2, <3>2, Own DEF WindowInv, SelfKnown, Kept
    <2> QED  BY <2>1, <2>2
  <1> QED  BY <1>1, <1>3, <1>2, <1>4, <1>5, <1>6, <1>7, <1>8, Own, AppendStep

LEMMA TypeStep == ASSUME IInv, NEW w \in Window, Type(w) PROVE Stepped(w)
  <1>1. NewText(w) \in Text /\ texts' \in 0..MaxTexts /\ texts < texts' /\ NewText(w)[1] = w
        /\ NewText(w) # None
    BY Own, NewTextType, TextParts DEF Type, Typed
  <1>2. /\ stored' = stored /\ result' = result /\ faults' = faults /\ saves' \in 0..MaxSaves
        /\ opens' = opens /\ texts <= texts' /\ view[w].phase = "answering"
    BY <1>1, Own DEF Type
  <1>3. WindowInv(w) /\ Carried(w, memory[w])  BY Own DEF WindowInv, MemoryOK
  <1>4. CASE memory[w].graded
    <2> DEFINE v == [view[w] EXCEPT !.typed = NewText(w), !.error = TRUE]
    <2>1. v \in View /\ v.phase = view[w].phase /\ v.pick = view[w].pick
          /\ v.durable = view[w].durable
      BY <1>1, Own DEF View
    <2>2. Local(w, memory[w], queue[w], result[w], v)
      BY <1>4, Own, SameLocal DEF Type, Local, TypeOK
    <2> HIDE DEF v
    <2>3. /\ memory'[w] = memory[w] /\ queue'[w] = queue[w] /\ result'[w] = result[w]
          /\ view'[w] = v /\ (WindowInv(w)' => Stepped(w))
      BY <1>1, <1>2, <2>1, <2>2, Own, QuietStep
    <2>4. texts \in Nat /\ texts' \in Nat
          /\ \A t \in Tasks(queue[w]) : t.kind = "self" => t.pick[2] \in Nat
      BY <1>1, <1>3, Own, TaskParts, TextParts DEF WindowInv, PicksOK
    <2>5. MemoryOK(w)' /\ IdleOK(w)' /\ ResultOK(w)' /\ TasksOK(w)'
      BY <1>2, <1>3, <2>1, <2>3
      DEF WindowInv, MemoryOK, IdleOK, ResultOK, Carried, TasksOK, TaskOK
    <2>6. PicksOK(w)'  BY <1>2, <1>3, <2>1, <2>3, <2>4 DEF WindowInv, PicksOK
    <2>7. SelfKnown(w)' /\ SelfShown(w)' /\ SelfReported(w)' /\ AnswerReported(w)'
      BY <1>2, <1>3, <2>1, <2>3
      DEF WindowInv, SelfKnown, SelfShown, SelfReported, AnswerReported, Finished, Kept, Saved
    <2> QED  BY <2>3, <2>5, <2>6, <2>7 DEF WindowInv
  <1>5. CASE ~memory[w].graded
    <2> DEFINE m == [memory[w] EXCEPT !.answer = [rev |-> @.rev + 1, text |-> NewText(w)]]
               v == [view[w] EXCEPT !.typed = NewText(w), !.busy = TRUE, !.error = FALSE]
    <2>1. v \in View /\ v.phase = view[w].phase /\ v.pick = view[w].pick
          /\ v.durable = view[w].durable
      BY <1>1, Own DEF View
    <2>2. /\ m \in Session /\ m.graded = memory[w].graded /\ m.self = memory[w].self
          /\ m.answer.text = NewText(w)
      <3>1. [rev |-> memory[w].answer.rev + 1, text |-> NewText(w)] \in Draft
        BY <1>1, Own, WindowType DEF Draft
      <3> QED  BY <3>1, Own, CopyType DEF Session
    <2>3. memory' = [memory EXCEPT ![w] = m] /\ view' = [view EXCEPT ![w] = v]
      BY <1>5, Own DEF Type, TypeOK
    <2>4. Carried(w, m)  BY <1>1, <1>3, <2>2 DEF Carried
    <2>5. CASE Pipelines(w) = {}
      <3> DEFINE t == Save("drafts", m)
      <3>1. queue' = [queue EXCEPT ![w] = Append(queue[w], t)]
        BY <1>5, <2>5, Own DEF Type, Enqueue, TypeOK
      <3> HIDE DEF m, v
      <3>2. t \in Task /\ t.kind = "drafts" /\ t.snap = m /\ t.latest = None
        BY <2>2, SaveType DEF Save
      <3>3. TaskOK(w, t)  BY <2>4, <3>2 DEF TaskOK
      <3> HIDE DEF t
      <3>4. Local(w, m, Append(queue[w], t), result[w], v)
        BY <1>2, <2>3, <3>1, Own, SameLocal DEF Local
      <3> QED  BY <1>1, <1>2, <2>1, <2>2, <2>4, <2>5, <3>2, <3>3, <3>4, Own, AppendStep
    <2>6. CASE Pipelines(w) # {}
      <3>1. PICK k \in Pipelines(w) : queue' = [queue EXCEPT ![w][k].latest = m]
        BY <1>5, <2>6 DEF Type
      <3> DEFINE t == [queue[w][k] EXCEPT !.latest = m]
                 q == [queue[w] EXCEPT ![k] = t]
      <3>2. queue[w] \in Seq(Task) /\ OnePipeline(queue[w]) /\ Ordered(queue[w])  BY Own
      <3>3. k \in 1..Len(queue[w]) /\ queue[w][k] \in Task /\ queue[w][k] \in Tasks(queue[w])
            /\ queue[w][k].kind = "drafts"
        BY <3>2 DEF Pipelines, Tasks
      <3>4. queue' = [queue EXCEPT ![w] = q]  BY <3>1, Own DEF TypeOK
      <3> HIDE DEF m, v
      <3>5. /\ t \in Task /\ t.kind = queue[w][k].kind /\ t.pick = queue[w][k].pick
            /\ t.snap = queue[w][k].snap /\ t.latest = m
        BY <2>2, <3>3 DEF Task
      <3>6. TaskOK(w, t)  BY <1>3, <2>4, <3>3, <3>5 DEF TaskOK, WindowInv, TasksOK
      <3> HIDE DEF t
      <3>7. /\ q \in Seq(Task) /\ OnePipeline(q) /\ Ordered(q) /\ q # <<>>
            /\ Tasks(q) \subseteq Tasks(queue[w]) \cup {t}
        BY <3>2, <3>3, <3>5, ReplaceQueue
      <3>8. /\ Head(q).kind = Head(queue[w]).kind /\ Head(q).pick = Head(queue[w]).pick
            /\ Head(q).snap = Head(queue[w]).snap
        <4>1. Head(queue[w]) = queue[w][1] /\ Head(q) = IF k = 1 THEN t ELSE queue[w][1]
          BY <3>2, <3>3, <3>5
        <4> QED  BY <3>5, <4>1
      <3> HIDE DEF q
      <3>9. Local(w, m, q, result[w], v)
        BY <1>2, <2>3, <3>4, Own, SameLocal DEF Local
      <3>10. \A u \in Tasks(q) : u \in Tasks(queue[w]) \/ (TaskOK(w, u) /\ u.kind # "self")
        BY <3>3, <3>5, <3>6, <3>7
      <3> QED
        BY <1>1, <1>2, <2>1, <2>2, <2>4, <3>7, <3>8, <3>9, <3>10, Own, QueuedStep
    <2> QED  BY <2>5, <2>6
  <1> QED  BY <1>4, <1>5

LEMMA AssessStep == ASSUME IInv, NEW w \in Window, Assess(w) PROVE Stepped(w)
  <1> DEFINE t == [Save("self", memory[w]) EXCEPT !.pick = NewText(w)]
             q == Append(queue[w], t)
             v == [view[w] EXCEPT !.phase = "assessing", !.pick = NewText(w), !.durable = FALSE]
  <1>1. /\ NewText(w) \in Text /\ texts' \in 0..MaxTexts /\ texts' = texts + 1
        /\ NewText(w)[1] = w /\ NewText(w)[2] = texts' /\ NewText(w) # None
        /\ texts \in Nat /\ texts' \in Nat /\ texts < texts' /\ texts <= texts'
    BY Own, NewTextType, TextParts DEF Assess, Typed
  <1>2. /\ stored' = stored /\ faults' = faults /\ saves' \in 0..MaxSaves /\ opens' = opens
        /\ view[w].phase \in {"answering", "assessing"}
    BY Own DEF Assess
  <1>3. /\ t \in Task /\ t.kind = "self" /\ t.snap = memory[w] /\ t.latest = None
        /\ t.pick = NewText(w)
    <2>1. Save("self", memory[w]) \in Task  BY Own, SaveType
    <2> QED  BY <1>1, <2>1 DEF Task, Save
  <1>4. /\ v \in View /\ v.phase = "assessing" /\ v.pick = NewText(w) /\ ~v.durable
    BY <1>1, Own DEF View
  <1>5. Local(w, memory[w], q, result[w], v)
    BY Own, SameLocal DEF Assess, Enqueue, Local, TypeOK
  <1> HIDE DEF t, v
  <1>6. WindowInv(w)  BY Own
  <1>7. \A u \in Tasks(queue[w]) : u.kind = "self" => u.pick[2] \in Nat /\ u.pick[2] < t.pick[2]
    BY <1>1, <1>3, <1>6, Own, TaskParts, TextParts DEF WindowInv, PicksOK
  <1>8. /\ q \in Seq(Task) /\ OnePipeline(q) /\ Ordered(q)
        /\ Tasks(q) = Tasks(queue[w]) \cup {t}
    BY <1>3, <1>7, Own, AppendQueue
  <1>9. q # <<>> /\ (queue[w] # <<>> => Head(q) = Head(queue[w]))
    <2>1. queue[w] \in Seq(Task) /\ OnePipeline(queue[w]) /\ Ordered(queue[w])  BY Own
    <2> QED  BY <2>1, <1>3, <1>7, AppendQueue
  <1> HIDE DEF q
  <1>10. /\ memory'[w] = memory[w] /\ queue'[w] = q /\ result'[w] = result[w]
         /\ view'[w] = v /\ (WindowInv(w)' => Stepped(w))
    <2>1. memory[w] \in Session /\ result[w] \in {None, Failed} \cup Session
          /\ opens' \in 0..MaxOpens
      BY <1>2, Own
    <2> QED  BY <1>1, <1>2, <1>4, <1>5, <1>8, <2>1, QuietStep
  <1>11. MemoryOK(w)' /\ IdleOK(w)' /\ ResultOK(w)'
    BY <1>2, <1>4, <1>6, <1>9, <1>10 DEF WindowInv, MemoryOK, IdleOK, ResultOK, Carried
  <1>12. TasksOK(w)'
    BY <1>2, <1>3, <1>6, <1>8, <1>10 DEF WindowInv, MemoryOK, TasksOK, TaskOK, Carried
  <1>13. PicksOK(w)'
    BY <1>1, <1>2, <1>3, <1>4, <1>6, <1>7, <1>8, <1>10 DEF WindowInv, PicksOK
  <1>14. SelfKnown(w)' /\ SelfShown(w)'
    BY <1>2, <1>4, <1>6, <1>10 DEF WindowInv, SelfKnown, SelfShown
  <1>15. SelfReported(w)' /\ AnswerReported(w)'
    BY <1>2, <1>6, <1>9, <1>10
    DEF WindowInv, IdleOK, SelfReported, AnswerReported, Finished, Kept, Saved
  <1> QED  BY <1>10, <1>11, <1>12, <1>13, <1>14, <1>15 DEF WindowInv

-----------------------------------------------------------------------------
(* The results that a window takes.                                         *)

(* A programme that memory may hold.                                        *)
Fits(w, m) ==
    /\ m.graded \/ m.answer.rev <= stored.answer.rev
                \/ (m.answer.text # None /\ m.answer.text[1] = w)
    /\ m.self.rev <= stored.self.rev
    /\ memory[w].graded => m.graded
    /\ m.graded => stored.graded
    /\ m.self.rev = stored.self.rev => m.self.text \in {None, stored.self.text}
    /\ \/ m.self = memory[w].self \/ stored.graded \/ m.self = stored.self
       \/ stored.self.text # None /\ stored.self.text[1] # w

(* A step that ends a save.                                                 *)
LEMMA DoneStep ==
    ASSUME IInv, NEW w \in Window, NEW m \in Session, NEW q \in Seq(Task), NEW v \in View,
           OnePipeline(q), Ordered(q), queue[w] # <<>>, Local(w, m, q, None, v),
           stored' = stored, UNCHANGED countVars, Fits(w, m),
           \A t \in Tasks(q) : t \in Tasks(queue[w]) \/ (TaskOK(w, t) /\ t.kind # "self"),
           v.phase # "closed",
           \/ v.phase = view[w].phase /\ v.pick = view[w].pick /\ v.durable = view[w].durable
           \/ stored.graded /\ v.phase # "assessing"
    PROVE  Stepped(w)
  <1>1. /\ memory'[w] = m /\ queue'[w] = q /\ result'[w] = None /\ view'[w] = v
        /\ texts' = texts /\ (WindowInv(w)' => Stepped(w))
    <2>1. /\ None \in {None, Failed} \cup Session /\ texts' = texts /\ faults' = faults
          /\ texts' \in 0..MaxTexts /\ saves' \in 0..MaxSaves /\ opens' \in 0..MaxOpens
          /\ texts <= texts'
      BY Own DEF countVars
    <2> QED  BY <2>1, QuietStep
  <1>2. WindowInv(w) /\ view[w].phase # "closed"  BY Own DEF WindowInv, IdleOK
  <1>3. MemoryOK(w)' /\ IdleOK(w)' /\ ResultOK(w)'
    BY <1>1 DEF Fits, MemoryOK, IdleOK, ResultOK, Carried
  <1>4. TasksOK(w)'
    BY <1>1, <1>2 DEF WindowInv, TasksOK, TaskOK, Carried, Fits
  <1>5. PicksOK(w)'  BY <1>1, <1>2 DEF WindowInv, PicksOK
  <1>6. SelfKnown(w)' /\ SelfShown(w)'
    BY <1>1, <1>2 DEF WindowInv, SelfKnown, SelfShown, Kept, Fits
  <1>7. SelfReported(w)' /\ AnswerReported(w)'
    BY <1>1 DEF SelfReported, AnswerReported, Finished
  <1> QED  BY <1>1, <1>3, <1>4, <1>5, <1>6, <1>7 DEF WindowInv

(* The usual case: the first save leaves the queue.                         *)
LEMMA DequeuedStep ==
    ASSUME IInv, NEW w \in Window, NEW m \in Session, NEW v \in View, queue[w] # <<>>,
           memory' = [memory EXCEPT ![w] = m], view' = [view EXCEPT ![w] = v], Dequeue(w),
           stored' = stored, UNCHANGED countVars, Fits(w, m), v.phase # "closed",
           \/ v.phase = view[w].phase /\ v.pick = view[w].pick /\ v.durable = view[w].durable
           \/ stored.graded /\ v.phase # "assessing"
    PROVE  Stepped(w)
  <1> DEFINE q == Tail(queue[w])
  <1>1. /\ q \in Seq(Task) /\ OnePipeline(q) /\ Ordered(q)
        /\ Tasks(q) \subseteq Tasks(queue[w])
    BY Own, TailQueue
  <1>2. Local(w, m, q, None, v)  BY Own DEF Dequeue, Local, TypeOK
  <1> HIDE DEF q
  <1> QED  BY <1>1, <1>2, DoneStep

LEMMA SameFits ==
    ASSUME IInv, NEW w \in Window
    PROVE  Fits(w, memory[w])
  BY Own DEF WindowInv, MemoryOK, Carried, Fits

(* What a save brought back fits.                                           *)
LEMMA AdoptFits ==
    ASSUME IInv, NEW w \in Window, result[w] # None, result[w] # Failed
    PROVE  LET m == [result[w] EXCEPT !.here = memory[w].here]
           IN m \in Session /\ Fits(w, m)
  <1> DEFINE m == [result[w] EXCEPT !.here = memory[w].here]
  <1>1. result[w] \in Session /\ WindowInv(w)  BY Own
  <1>2. /\ m \in Session /\ m.answer = result[w].answer /\ m.self = result[w].self
        /\ m.graded = result[w].graded
    BY <1>1, Own DEF Session
  <1>3. stored.self.rev \in Nat /\ result[w].self.rev \in Nat  BY <1>1, Own, SessionParts
  <1> HIDE DEF m
  <1>4. Fits(w, m)  BY <1>1, <1>2, <1>3 DEF WindowInv, ResultOK, Fits
  <1> QED  BY <1>2, <1>4 DEF m

LEMMA Shows ==
    ASSUME IInv, NEW w \in Window, queue[w] # <<>>
    PROVE  view[w].phase # "closed"
  BY Own DEF WindowInv, IdleOK

LEMMA DrainedStep == ASSUME IInv, NEW w \in Window, Drained(w) PROVE Stepped(w)
  <1> DEFINE m == memory[w]
             snap == [m EXCEPT !.graded = TRUE,
                               !.answer = [rev |-> @.rev + 1, text |-> None],
                               !.self = IF @.text = None THEN @
                                        ELSE [rev |-> @.rev + 1, text |-> None]]
             t == Save("grade", snap)
             p == Tail(queue[w])
             q == Append(p, t)
  <1>1. queue[w] # <<>> /\ result[w] = None  BY DEF Drained, Running
  <1>2. /\ p \in Seq(Task) /\ OnePipeline(p) /\ Ordered(p)
        /\ Tasks(p) \subseteq Tasks(queue[w])
    BY <1>1, Own, TailQueue
  <1>3. snap \in Session /\ snap.graded
    BY Own, WindowType, SessionParts DEF Session, Draft
  <1>4. Local(w, memory[w], q, None, view[w]) /\ stored' = stored /\ UNCHANGED countVars
    BY <1>1, Own, SameLocal DEF Drained, Local
  <1> HIDE DEF snap, p
  <1>5. t \in Task /\ t.kind = "grade" /\ t.snap = snap /\ t.latest = None
    BY <1>3, SaveType DEF Save
  <1> HIDE DEF t
  <1>6. /\ q \in Seq(Task) /\ OnePipeline(q) /\ Ordered(q) /\ Tasks(q) = Tasks(p) \cup {t}
    BY <1>2, <1>5, AppendQueue
  <1>7. TaskOK(w, t)  BY <1>3, <1>5 DEF TaskOK
  <1> HIDE DEF q
  <1>8. \A u \in Tasks(q) : u \in Tasks(queue[w]) \/ (TaskOK(w, u) /\ u.kind # "self")
    BY <1>2, <1>5, <1>6, <1>7
  <1> QED  BY <1>1, <1>4, <1>6, <1>8, Own, SameFits, Shows, DoneStep

LEMMA TakeDraftsStep == ASSUME IInv, NEW w \in Window, TakeDrafts(w) PROVE Stepped(w)
  <1> DEFINE task == Head(queue[w])
             next == result[w]
             saved == Saved(task, next)
  <1>1. /\ queue[w] # <<>> /\ task.kind = "drafts" /\ next # None
        /\ stored' = stored /\ UNCHANGED countVars /\ view[w].phase # "closed"
    BY Shows DEF TakeDrafts, Finished
  <1>2. CASE saved /\ ~next.graded /\ task.latest # None
    <2> DEFINE t == Save("drafts", task.latest)
               q == [queue[w] EXCEPT ![1] = t]
    <2>1. /\ task \in Tasks(queue[w]) /\ task = queue[w][1] /\ 1 \in 1..Len(queue[w])
          /\ task.latest \in Session
      BY <1>1, <1>2, Own, HeadType, TaskParts
    <2>2. Local(w, memory[w], q, None, view[w])
      BY <1>2, Own, SameLocal DEF TakeDrafts, Local, TypeOK
    <2>3. t \in Task /\ t.kind = "drafts" /\ t.snap = task.latest /\ t.latest = None
      BY <2>1, SaveType DEF Save
    <2>4. TaskOK(w, t)  BY <1>2, <2>1, <2>3, Own DEF WindowInv, TasksOK, TaskOK
    <2> HIDE DEF t
    <2>5. /\ q \in Seq(Task) /\ OnePipeline(q) /\ Ordered(q)
          /\ Tasks(q) \subseteq Tasks(queue[w]) \cup {t}
      BY <1>1, <2>1, <2>3, Own, ReplaceQueue
    <2> HIDE DEF q
    <2>6. \A u \in Tasks(q) : u \in Tasks(queue[w]) \/ (TaskOK(w, u) /\ u.kind # "self")
      BY <2>3, <2>4, <2>5
    <2> QED  BY <1>1, <2>2, <2>5, <2>6, Own, SameFits, DoneStep
  <1>3. CASE saved /\ ~(~next.graded /\ task.latest # None)
    <2> DEFINE m == [next EXCEPT !.here = memory[w].here]
               v == [view[w] EXCEPT !.phase = IF next.graded /\ @ # "away" THEN "reviewed" ELSE @,
                                    !.busy = FALSE, !.error = FALSE]
    <2>1. next # Failed  BY <1>3 DEF Saved
    <2>2. m \in Session /\ Fits(w, m)  BY <1>1, <2>1, AdoptFits
    <2>3. memory' = [memory EXCEPT ![w] = m] /\ view' = [view EXCEPT ![w] = v] /\ Dequeue(w)
      BY <1>3, Own DEF TakeDrafts, TypeOK
    <2>4. next.graded => stored.graded  BY <1>1, <2>1, Own DEF WindowInv, ResultOK
    <2>5. /\ v \in View /\ v.phase # "closed" /\ v.pick = view[w].pick
          /\ v.durable = view[w].durable
          /\ v.phase = view[w].phase \/ (next.graded /\ v.phase = "reviewed")
      BY <1>1, Own DEF View
    <2> HIDE DEF m, v
    <2> QED  BY <1>1, <2>2, <2>3, <2>4, <2>5, DequeuedStep
  <1>4. CASE ~saved
    <2> DEFINE v == [view[w] EXCEPT !.busy = FALSE, !.error = TRUE]
    <2>1. memory' = memory /\ view' = [view EXCEPT ![w] = v] /\ Dequeue(w)
      BY <1>4, Own DEF TakeDrafts, TypeOK
    <2>2. /\ v \in View /\ v.phase = view[w].phase /\ v.pick = view[w].pick
          /\ v.durable = view[w].durable
      BY Own DEF View
    <2> HIDE DEF v
    <2>3. memory' = [memory EXCEPT ![w] = memory[w]]  BY <2>1, Own, SameLocal
    <2> QED  BY <1>1, <2>1, <2>2, <2>3, Own, SameFits, DequeuedStep
  <1> QED  BY <1>2, <1>3, <1>4

(* A window that is closed, or a restore that ends, forgets everything.     *)
LEMMA ResetStep ==
    ASSUME IInv, NEW w \in Window, Local(w, NewSession, <<>>, None, Closed),
           stored' = stored, UNCHANGED countVars
    PROVE  Stepped(w)
  <1>1. /\ NewSession \in Session /\ Closed \in View
        /\ NewSession.answer.rev = 0 /\ NewSession.self.rev = 0 /\ ~NewSession.graded
        /\ NewSession.self.text = None /\ Closed.phase = "closed"
    BY DEF NewSession, NoDraft, Session, Draft, Closed, View
  <1>2. /\ None \in {None, Failed} \cup Session /\ texts' = texts /\ faults' = faults
        /\ texts' \in 0..MaxTexts /\ saves' \in 0..MaxSaves /\ opens' \in 0..MaxOpens
        /\ texts <= texts'
    BY Own DEF countVars
  <1>n. stored.answer.rev \in Nat /\ stored.self.rev \in Nat  BY Own, SessionParts
  <1>3. /\ memory'[w] = NewSession /\ queue'[w] = <<>> /\ result'[w] = None /\ view'[w] = Closed
        /\ (WindowInv(w)' => Stepped(w))
    <2> DEFINE m == NewSession
               q == <<>>
               v == Closed
    <2>1. /\ m \in Session /\ v \in View /\ q \in Seq(Task) /\ OnePipeline(q)
          /\ Local(w, m, q, None, v)
      BY <1>1, SingleQueue
    <2> HIDE DEF m, q, v
    <2>2. /\ memory'[w] = m /\ queue'[w] = q /\ result'[w] = None /\ view'[w] = v
          /\ (WindowInv(w)' => Stepped(w))
      BY <1>2, <2>1, QuietStep
    <2> QED  BY <2>2 DEF m, q, v
  <1>4. MemoryOK(w)' /\ IdleOK(w)' /\ ResultOK(w)'
    BY <1>1, <1>2, <1>n, <1>3 DEF MemoryOK, IdleOK, ResultOK, Carried
  <1>5. TasksOK(w)' /\ PicksOK(w)'
    BY <1>1, <1>3, SingleQueue DEF TasksOK, PicksOK
  <1>6. SelfKnown(w)' /\ SelfShown(w)' /\ SelfReported(w)' /\ AnswerReported(w)'
    BY <1>1, <1>3 DEF SelfKnown, SelfShown, SelfReported, AnswerReported, Finished
  <1> QED  BY <1>3, <1>4, <1>5, <1>6 DEF WindowInv

LEMMA CloseStep == ASSUME IInv, NEW w \in Window, Close(w) PROVE Stepped(w)
  <1>1. Local(w, NewSession, <<>>, None, Closed) /\ stored' = stored /\ UNCHANGED countVars
    BY DEF Close, Local
  <1> QED  BY <1>1, ResetStep

LEMMA TakeSaveStep == ASSUME IInv, NEW w \in Window, TakeSave(w) PROVE Stepped(w)
  <1> DEFINE task == Head(queue[w])
             next == result[w]
  <1>1. /\ queue[w] # <<>> /\ task.kind \in {"evidence", "jump", "restore"} /\ next # None
        /\ stored' = stored /\ UNCHANGED countVars /\ view[w].phase # "closed"
    BY Shows DEF TakeSave, Finished
  <1>2. view[w] \in View /\ view = [view EXCEPT ![w] = view[w]]  BY Own, SameLocal
  <1>3. CASE next # Failed
    <2> DEFINE m == [next EXCEPT !.here = memory[w].here]
    <2>1. m \in Session /\ Fits(w, m)  BY <1>1, <1>3, AdoptFits
    <2>2. memory' = [memory EXCEPT ![w] = m] /\ view' = [view EXCEPT ![w] = view[w]] /\ Dequeue(w)
      BY <1>2, <1>3 DEF TakeSave
    <2> HIDE DEF m
    <2> QED  BY <1>1, <1>2, <2>1, <2>2, DequeuedStep
  <1>4. CASE next = Failed /\ task.kind = "restore"
    <2>1. Local(w, NewSession, <<>>, None, Closed)  BY <1>4 DEF TakeSave, Local
    <2> QED  BY <1>1, <2>1, ResetStep
  <1>5. CASE next = Failed /\ task.kind = "jump"
    <2>1. memory' = memory /\ view' = [view EXCEPT ![w] = view[w]] /\ Dequeue(w)
      BY <1>2, <1>5 DEF TakeSave
    <2>2. memory' = [memory EXCEPT ![w] = memory[w]]  BY <2>1, Own, SameLocal
    <2> QED  BY <1>1, <1>2, <2>1, <2>2, Own, SameFits, DequeuedStep
  <1>6. CASE next = Failed /\ task.kind = "evidence"
    <2> DEFINE m == [memory[w] EXCEPT !.answer = task.snap.answer]
    <2>1. task \in Tasks(queue[w]) /\ task.snap \in Session
      BY <1>1, Own, HeadType, TaskParts
    <2>2. Carried(w, task.snap)  BY <1>6, <2>1, Own DEF WindowInv, TasksOK, TaskOK
    <2>3. /\ m \in Session /\ m.answer = task.snap.answer /\ m.self = memory[w].self
          /\ m.graded = memory[w].graded
      <3>1. task.snap.answer \in Draft  BY <2>1 DEF Session
      <3> QED  BY <3>1, Own, CopyType DEF Session
    <2>4. memory' = [memory EXCEPT ![w] = m] /\ view' = [view EXCEPT ![w] = view[w]] /\ Dequeue(w)
      BY <1>2, <1>6, Own DEF TakeSave, TypeOK
    <2> HIDE DEF m
    <2>5. Fits(w, m)
      BY <2>2, <2>3, Own DEF WindowInv, MemoryOK, Carried, Fits
    <2> QED  BY <1>1, <1>2, <2>3, <2>4, <2>5, DequeuedStep
  <1> QED  BY <1>1, <1>3, <1>4, <1>5, <1>6

LEMMA TakeGradeStep == ASSUME IInv, NEW w \in Window, TakeGrade(w) PROVE Stepped(w)
  <1> DEFINE next == result[w]
  <1>1. /\ queue[w] # <<>> /\ next # None /\ Dequeue(w)
        /\ stored' = stored /\ UNCHANGED countVars /\ view[w].phase # "closed"
    BY Shows DEF TakeGrade, Finished
  <1>2. CASE next = Failed
    <2> DEFINE v == [view[w] EXCEPT !.error = TRUE]
    <2>1. view' = [view EXCEPT ![w] = v] /\ memory' = [memory EXCEPT ![w] = memory[w]]
      BY <1>2, Own, SameLocal DEF TakeGrade, TypeOK
    <2>2. /\ v \in View /\ v.phase = view[w].phase /\ v.pick = view[w].pick
          /\ v.durable = view[w].durable
      BY Own DEF View
    <2> HIDE DEF v
    <2> QED  BY <1>1, <2>1, <2>2, Own, SameFits, DequeuedStep
  <1>3. CASE next # Failed
    <2> DEFINE m == [next EXCEPT !.here = memory[w].here]
               v == [view[w] EXCEPT !.busy = FALSE, !.error = FALSE]
    <2>1. m \in Session /\ Fits(w, m)  BY <1>1, <1>3, AdoptFits
    <2>2. memory' = [memory EXCEPT ![w] = m] /\ view' = [view EXCEPT ![w] = v]
      BY <1>3, Own DEF TakeGrade, TypeOK
    <2>3. /\ v \in View /\ v.phase = view[w].phase /\ v.pick = view[w].pick
          /\ v.durable = view[w].durable
      BY Own DEF View
    <2> HIDE DEF m, v
    <2> QED  BY <1>1, <2>1, <2>2, <2>3, DequeuedStep
  <1> QED  BY <1>2, <1>3

(* The assessment that is reported is the one that was saved, and the view  *)
(* believes only the report of its latest.                                  *)
LEMMA TakeSelfStep == ASSUME IInv, NEW w \in Window, TakeSelf(w) PROVE Stepped(w)
  <1> DEFINE task == Head(queue[w])
             next == result[w]
             q == Tail(queue[w])
             m == IF next = Failed THEN memory[w] ELSE [memory[w] EXCEPT !.self = next.self]
             v == IF task.pick # view[w].pick THEN view[w]
                  ELSE [view[w] EXCEPT !.durable = next # Failed /\ next.self.text # None]
  <1>1. /\ queue[w] # <<>> /\ task.kind = "self" /\ next # None /\ Finished(w, "self")
        /\ stored' = stored /\ UNCHANGED countVars /\ view[w].phase # "closed"
    BY Shows DEF TakeSelf, Finished
  <1>2. /\ next # Failed => next \in Session
        /\ WindowInv(w) /\ task \in Tasks(queue[w])
    BY <1>1, Own, HeadType
  <1>3. /\ m \in Session /\ m.answer = memory[w].answer /\ m.graded = memory[w].graded
        /\ m.self = IF next = Failed THEN memory[w].self ELSE next.self
    <2>1. CASE next = Failed  BY <2>1, Own
    <2>2. CASE next # Failed
      <3>1. next.self \in Draft  BY <1>2, <2>2 DEF Session
      <3> QED  BY <2>2, <3>1, Own, CopyType DEF Session
    <2> QED  BY <2>1, <2>2
  <1>4. /\ v \in View /\ v.phase = view[w].phase /\ v.pick = view[w].pick
        /\ v.durable # view[w].durable => task.pick = view[w].pick
        /\ v.durable => \/ view[w].durable /\ (task.pick # view[w].pick)
                        \/ task.pick = view[w].pick /\ next # Failed /\ next.self.text # None
    <2>1. [view[w] EXCEPT !.durable = next # Failed /\ next.self.text # None] \in View
      BY Own DEF View
    <2> QED  BY <2>1, Own DEF View
  <1>5. /\ q \in Seq(Task) /\ OnePipeline(q) /\ Ordered(q)
        /\ Tasks(q) \subseteq Tasks(queue[w])
        /\ \A t \in Tasks(q) : t.kind = "self" => task.pick[2] < t.pick[2]
    BY <1>1, Own, TailQueue
  <1>6. Local(w, m, q, None, v)
    <2>1. memory' = [memory EXCEPT ![w] = m]
      BY Own, SameLocal DEF TakeSelf, TypeOK
    <2>2. view' = [view EXCEPT ![w] = v]
      BY Own, SameLocal DEF TakeSelf, TypeOK
    <2> QED  BY <2>1, <2>2 DEF TakeSelf, Dequeue, Local
  <1>7. /\ None \in {None, Failed} \cup Session /\ texts' = texts /\ faults' = faults
        /\ texts' \in 0..MaxTexts /\ saves' \in 0..MaxSaves /\ opens' \in 0..MaxOpens
        /\ texts <= texts'
    BY <1>1, Own DEF countVars
  <1> HIDE DEF m, v, q
  <1>8. /\ memory'[w] = m /\ queue'[w] = q /\ result'[w] = None /\ view'[w] = v
        /\ (WindowInv(w)' => Stepped(w))
    BY <1>1, <1>3, <1>4, <1>5, <1>6, <1>7, QuietStep
  <1>9. /\ stored.self.rev \in Nat /\ memory[w].self.rev \in Nat
        /\ next # Failed => next.self.rev \in Nat
    BY <1>2, Own, SessionParts
  <1>10. MemoryOK(w)' /\ IdleOK(w)' /\ ResultOK(w)'
    <2>1. next # Failed =>
            /\ next.self.rev <= stored.self.rev
            /\ next.self.rev = stored.self.rev => next.self = stored.self
      BY <1>1, <1>2 DEF WindowInv, ResultOK
    <2> QED  BY <1>1, <1>2, <1>3, <1>4, <1>8, <2>1 DEF WindowInv, MemoryOK, IdleOK, ResultOK, Carried
  <1>11. TasksOK(w)'
    BY <1>1, <1>2, <1>3, <1>5, <1>8 DEF WindowInv, TasksOK, TaskOK, Carried
  <1>12. PicksOK(w)'
    <2>1. \A t \in Tasks(queue[w]) : t.kind = "self" => t.pick \in Text /\ t.pick[2] \in Nat
      BY <1>2, Own, TaskParts, TextParts DEF WindowInv, PicksOK
    <2>2. ASSUME NEW t \in Tasks(q), t.kind = "self", ~stored.graded
          PROVE  v.durable = view[w].durable
      <3>1. t.pick[2] <= view[w].pick[2] /\ task.pick[2] < t.pick[2]
        BY <1>2, <1>5, <2>2 DEF WindowInv, PicksOK
      <3>2. t.pick[2] \in Nat /\ task.pick[2] \in Nat  BY <1>1, <1>2, <1>5, <2>1, <2>2
      <3>3. task.pick # view[w].pick  BY <3>1, <3>2
      <3> QED  BY <1>4, <3>3
    <2> QED  BY <1>1, <1>2, <1>4, <1>5, <1>7, <1>8, <2>2 DEF WindowInv, PicksOK
  <1>13. SelfKnown(w)'
    <2>1. next # Failed /\ ~stored.graded =>
             next.self = stored.self \/ (stored.self.text # None /\ stored.self.text[1] # w)
      BY <1>1, <1>2, <1>9 DEF WindowInv, ResultOK
    <2>2. next = Failed /\ v.durable => view[w].durable  BY <1>4
    <2> QED
      BY <1>1, <1>2, <1>3, <1>4, <1>8, <2>1, <2>2 DEF WindowInv, SelfKnown
  <1>14. SelfShown(w)'
    BY <1>1, <1>2, <1>4, <1>8 DEF WindowInv, SelfShown, SelfReported, Kept
  <1>15. SelfReported(w)' /\ AnswerReported(w)'
    BY <1>8 DEF SelfReported, AnswerReported, Finished
  <1> QED  BY <1>8, <1>10, <1>11, <1>12, <1>13, <1>14, <1>15 DEF WindowInv

LEMMA RestoreStep == ASSUME IInv, NEW w \in Window, Restore(w) PROVE Stepped(w)
  <1> DEFINE m == [stored EXCEPT !.self.text = IF stored.graded \/ ~stored.here THEN None ELSE @]
             t == Save("restore", m)
             v == Shown(m)
  <1>1. WindowInv(w) /\ view[w].phase = "closed" /\ queue[w] = <<>> /\ result[w] = None
    BY Own DEF Restore, WindowInv, IdleOK
  <1>2. /\ m \in Session /\ m.answer = stored.answer /\ m.graded = stored.graded
        /\ m.self.rev = stored.self.rev /\ m.self.text \in {None, stored.self.text}
    BY Own DEF Session, Draft
  <1>3. /\ stored' = stored /\ texts' = texts /\ faults' = faults
        /\ texts' \in 0..MaxTexts /\ saves' \in 0..MaxSaves /\ opens' \in 0..MaxOpens
        /\ texts <= texts'
    BY Own, BoundsAssumption DEF Restore
  <1>4. Local(w, m, <<t>>, None, v)
    BY <1>1, Own, SameLocal DEF Restore, Local
  <1> HIDE DEF m
  <1>5. /\ v \in View /\ v.phase # "closed"
        /\ v.phase = "assessing" => m.self.text # None /\ v.pick = m.self.text
    BY <1>2, ShownParts
  <1>6. t \in Task /\ t.kind = "restore" /\ t.snap = m /\ t.latest = None
    BY <1>2, SaveType DEF Save
  <1> HIDE DEF t, v
  <1>7. /\ <<t>> \in Seq(Task) /\ OnePipeline(<<t>>) /\ Ordered(<<t>>) /\ Tasks(<<t>>) = {t}
        /\ <<t>> # <<>>
    BY <1>6, SingleQueue
  <1>8. /\ memory'[w] = m /\ queue'[w] = <<t>> /\ result'[w] = None /\ view'[w] = v
        /\ (WindowInv(w)' => Stepped(w))
    <2>1. None \in {None, Failed} \cup Session  OBVIOUS
    <2> QED  BY <1>2, <1>3, <1>4, <1>5, <1>7, <2>1, QuietStep
  <1>9. stored.answer.rev \in Nat /\ stored.self.rev \in Nat  BY Own, SessionParts
  <1>10. MemoryOK(w)' /\ IdleOK(w)' /\ ResultOK(w)'
    BY <1>2, <1>3, <1>5, <1>7, <1>8, <1>9 DEF MemoryOK, IdleOK, ResultOK, Carried
  <1>11. TasksOK(w)'
    BY <1>2, <1>3, <1>6, <1>7, <1>8, <1>9 DEF TasksOK, TaskOK, Carried
  <1>12. PicksOK(w)'  BY <1>5, <1>6, <1>7, <1>8 DEF PicksOK
  <1>13. SelfKnown(w)' /\ SelfShown(w)'
    <2>1. m.self = [rev |-> m.self.rev, text |-> m.self.text]
          /\ stored.self = [rev |-> stored.self.rev, text |-> stored.self.text]
      BY <1>2, Own, SessionParts
    <2>2. m.self = stored.self \/ m.self.text = None  BY <1>2, <2>1
    <2> QED  BY <1>2, <1>3, <1>5, <1>8, <2>2 DEF SelfKnown, SelfShown, Kept
  <1>14. SelfReported(w)' /\ AnswerReported(w)'
    BY <1>8 DEF SelfReported, AnswerReported, Finished
  <1> QED  BY <1>8, <1>10, <1>11, <1>12, <1>13, <1>14 DEF WindowInv

-----------------------------------------------------------------------------
(* The theorems.                                                            *)

LEMMA InitInv == Init => IInv
  <1> SUFFICES ASSUME Init PROVE IInv  OBVIOUS
  <1>1. TypeOK  BY TypeInit
  <1>2. /\ NewSession.answer.rev = 0 /\ NewSession.self.rev = 0 /\ ~NewSession.graded
        /\ NewSession.self.text = None /\ NewSession.answer.text = None /\ NewSession \in Session
    BY DEF NewSession, NoDraft, Session, Draft
  <1>3. StoredOK  BY <1>2 DEF Init, StoredOK
  <1>4. ASSUME NEW w \in Window PROVE WindowInv(w)
    <2>1. /\ memory[w] = NewSession /\ stored = NewSession /\ queue[w] = <<>> /\ result[w] = None
          /\ view[w].phase \in {"closed", "answering"}
      <3>1. Shown(NewSession) \in View /\ Closed.phase = "closed"  BY <1>2, ShownType DEF Closed
      <3>2. Shown(NewSession).phase = "answering"
        <4>1. NewSession.here  BY DEF NewSession
        <4> QED  BY <1>2, <4>1 DEF Shown, Closed
      <3> QED  BY <3>1, <3>2 DEF Init
    <2>2. MemoryOK(w) /\ IdleOK(w) /\ ResultOK(w)
      BY <1>2, <2>1 DEF MemoryOK, IdleOK, ResultOK, Carried
    <2>3. TasksOK(w) /\ PicksOK(w)  BY <2>1, SingleQueue DEF TasksOK, PicksOK
    <2>4. SelfKnown(w) /\ SelfShown(w) /\ SelfReported(w) /\ AnswerReported(w)
      BY <1>2, <2>1 DEF SelfKnown, SelfShown, SelfReported, AnswerReported, Finished
    <2> QED  BY <2>2, <2>3, <2>4 DEF WindowInv
  <1> QED  BY <1>1, <1>3, <1>4 DEF IInv

(* Every step is a step of one window.                                      *)
LEMMA NextStep == ASSUME IInv, Next PROVE \E w \in Window : Stepped(w)
  <1> PICK w \in Window : \/ Type(w) \/ Assess(w) \/ Persist(w) \/ Jump(w) \/ Grade(w)
                         \/ Close(w) \/ Restore(w) \/ QueueStep(w)
    BY DEF Next
  <1>1. CASE Type(w)  BY <1>1, TypeStep
  <1>2. CASE Assess(w)  BY <1>2, AssessStep
  <1>3. CASE Persist(w)  BY <1>3, PersistStep
  <1>4. CASE Jump(w)  BY <1>4, JumpStep
  <1>5. CASE Grade(w)  BY <1>5, GradeStep
  <1>6. CASE Close(w)  BY <1>6, CloseStep
  <1>7. CASE Restore(w)  BY <1>7, RestoreStep
  <1>8. CASE RunSave(w) \/ RunSelf(w) \/ RunGrade(w)  BY <1>8, SaveStep
  <1>9. CASE Drained(w)  BY <1>9, DrainedStep
  <1>10. CASE TakeDrafts(w)  BY <1>10, TakeDraftsStep
  <1>11. CASE TakeSave(w)  BY <1>11, TakeSaveStep
  <1>12. CASE TakeSelf(w)  BY <1>12, TakeSelfStep
  <1>13. CASE TakeGrade(w)  BY <1>13, TakeGradeStep
  <1> QED
    BY <1>1, <1>2, <1>3, <1>4, <1>5, <1>6, <1>7, <1>8, <1>9, <1>10, <1>11, <1>12, <1>13
    DEF QueueStep

LEMMA StepInv == ASSUME IInv, NEW w \in Window, Stepped(w) PROVE IInv'
  <1>1. TypeOK' /\ Others(w) /\ Outcome(w, stored') /\ texts <= texts' /\ WindowInv(w)'
    BY DEF Stepped
  <1>2. texts' \in Nat  BY <1>1 DEF TypeOK
  <1>3. \A u \in Window : WindowInv(u)'  BY <1>1, <1>2, OtherWindow
  <1>4. StoredOK'
    <2>1. stored'.graded => stored'.answer.text = None  BY <1>1 DEF Outcome
    <2>2. ASSUME ~stored'.graded, stored'.self.text = None PROVE stored'.self.rev = 0
      <3>1. CASE stored'.self = stored.self  BY <1>1, <2>2, <3>1 DEF IInv, StoredOK, Outcome
      <3>2. CASE NewSelf(w, stored')
        <4>1. Head(queue[w]).pick # None
          BY <3>2, Own, HeadType DEF NewSelf, WindowInv, PicksOK
        <4> QED  BY <2>2, <3>2, <4>1 DEF NewSelf
      <3> QED  BY <1>1, <2>2, <3>1, <3>2 DEF Outcome
    <2> QED  BY <2>1, <2>2 DEF StoredOK
  <1> QED  BY <1>1, <1>3, <1>4 DEF IInv

LEMMA StutterInv == ASSUME IInv, UNCHANGED vars PROVE IInv'
  <1> USE DEF vars, windowVars, countVars
  <1>1. TypeOK' /\ StoredOK'  BY DEF IInv, TypeOK, StoredOK
  <1>2. ASSUME NEW w \in Window PROVE WindowInv(w)'
    <2>1. WindowInv(w)  BY DEF IInv
    <2>2. MemoryOK(w)' /\ IdleOK(w)' /\ ResultOK(w)' /\ TasksOK(w)' /\ PicksOK(w)'
      BY <2>1 DEF WindowInv, MemoryOK, IdleOK, ResultOK, TasksOK, TaskOK, PicksOK, Carried
    <2>3. SelfKnown(w)' /\ SelfShown(w)' /\ SelfReported(w)' /\ AnswerReported(w)'
      BY <2>1 DEF WindowInv, SelfKnown, SelfShown, SelfReported, AnswerReported, Finished, Kept,
                  Saved
    <2> QED  BY <2>2, <2>3 DEF WindowInv
  <1> QED  BY <1>1, <1>2 DEF IInv

(* The invariant holds in every state, whatever the windows do and whatever *)
(* saves fail.                                                              *)
THEOREM Inductive == Spec => []IInv
  <1>1. IInv /\ [Next]_vars => IInv'  BY NextStep, StepInv, StutterInv
  <1> QED  BY <1>1, InitInv, PTL DEF Spec

(* Type correctness, with one pipeline of drafts in each queue.             *)
THEOREM TypeCorrect == Spec => []TypeOK
  <1>1. IInv => TypeOK  BY DEF IInv
  <1> QED  BY <1>1, Inductive, PTL

(* What a save reports as saved is stored, until the answer is graded or    *)
(* another window saves (saveAnswerDraft, saveSelfAssessmentDraft).         *)
THEOREM ReportsAreTrue == Spec => []ReportedIsStored
  <1>1. IInv => ReportedIsStored
    BY DEF IInv, WindowInv, AnswerReported, SelfShown, ReportedIsStored
  <1> QED  BY <1>1, Inductive, PTL

(* A late save brings back neither a draft over a grade nor the draft of    *)
(* another window over a newer one (commitSessionSnapshot).                 *)
THEOREM LateSavesAreHarmless == Spec => LateSavesYield
  <1> DEFINE A == /\ stored.graded => stored'.graded /\ stored'.answer.text = None
                  /\ \A w \in Window :
                        result'[w] # result[w] /\ stored'.answer.text \notin {stored.answer.text, None}
                        => stored'.answer.text[1] = w
  <1>1. IInv /\ [Next]_vars => [A]_<<stored, result>>
    <2> SUFFICES ASSUME IInv, [Next]_vars PROVE [A]_<<stored, result>>  OBVIOUS
    <2>1. CASE Next
      <3>1. PICK w \in Window : Stepped(w)  BY <2>1, NextStep
      <3>2. Others(w) /\ Outcome(w, stored') /\ TypeOK  BY <3>1 DEF Stepped, IInv
      <3>3. \A u \in Window : result'[u] # result[u] => u = w  BY <3>2 DEF Others
      <3> QED  BY <3>2, <3>3 DEF Outcome
    <2>2. CASE UNCHANGED vars  BY <2>2 DEF vars, windowVars
    <2> QED  BY <2>1, <2>2
  <1> QED  BY <1>1, Inductive, PTL DEF Spec, LateSavesYield
=============================================================================
