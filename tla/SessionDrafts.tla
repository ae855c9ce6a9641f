--------------------------- MODULE SessionDrafts ----------------------------
(***************************************************************************)
(* The drafts of an answer in a running practice programme                 *)
(* (web/src/stores/practice.ts, web/src/routes/PracticeView.vue): what the *)
(* learner types, and later how they assess it, is saved into the stored   *)
(* programme while it is typed. Every window has its own copy of the       *)
(* programme in memory, a queue of saves that run one at a time, one       *)
(* pipeline in it that writes only the latest of the drafts that wait, and *)
(* a view that says whether what is on the screen is saved. Several        *)
(* windows save, grade and restore the same programme, each save merging   *)
(* with what it finds.                                                     *)
(*                                                                         *)
(* One part of a programme with others to jump to. A save is a read and a  *)
(* conditional write that is repeated on conflict; it is one step here,    *)
(* and reaches its window in a later one. A text is named by the window    *)
(* that typed it and its number. Left out: drafts of other parts, ending   *)
(* the programme, the closed review, a save of an assessment that is       *)
(* already in memory, and what a grade writes besides the programme        *)
(* (module GradeCommit).                                                   *)
(***************************************************************************)
EXTENDS Naturals, Sequences

CONSTANTS Window, None,
          Failed,        \* a save that reports an error
          MaxTexts,      \* bound: texts typed
          MaxFaults,     \* bound: saves that fail or whose answer is lost
          MaxSaves,      \* bound: saves of hints, help and positions
          MaxOpens       \* bound: windows opened on the programme

ASSUME BoundsAssumption ==
    MaxTexts \in Nat /\ MaxFaults \in Nat /\ MaxSaves \in Nat /\ MaxOpens \in Nat

VARIABLES stored,        \* the durable programme
          memory,        \* each window's copy of it
          queue,         \* each window's saves, the first one running
          result,        \* what the running save brought back
          view,          \* each window's screen
          texts, faults, saves, opens

windowVars == <<memory, queue, result, view>>
countVars == <<texts, faults, saves, opens>>
vars == <<stored, windowVars, countVars>>

Text == Window \X (1..MaxTexts)
Draft == [rev : Nat, text : Text \cup {None}]
Session == [answer : Draft, self : Draft, graded : BOOLEAN, here : BOOLEAN]
Task == [kind : {"drafts", "self", "evidence", "jump", "restore", "drain", "grade"},
         snap : Session, latest : Session \cup {None}, pick : Text \cup {None}]
View == [phase : {"closed", "answering", "assessing", "reviewed", "away"},
         typed : Text \cup {None}, busy : BOOLEAN, error : BOOLEAN,
         pick : Text \cup {None}, durable : BOOLEAN]

ASSUME ValuesAssumption == None \notin Text \cup Session /\ Failed \notin {None} \cup Session

NoDraft == [rev |-> 0, text |-> None]
NewSession == [answer |-> NoDraft, self |-> NoDraft, graded |-> FALSE, here |-> TRUE]
Closed == [phase |-> "closed", typed |-> None, busy |-> FALSE, error |-> FALSE, pick |-> None,
           durable |-> FALSE]
Save(kind, snap) == [kind |-> kind, snap |-> snap, latest |-> None, pick |-> None]

TypeOK ==
    /\ stored \in Session /\ memory \in [Window -> Session]
    /\ queue \in [Window -> Seq(Task)] /\ view \in [Window -> View]
    /\ result \in [Window -> {None, Failed} \cup Session]
    /\ texts \in 0..MaxTexts /\ faults \in 0..MaxFaults
    /\ saves \in 0..MaxSaves /\ opens \in 0..MaxOpens
    /\ \A w \in Window : \A i, j \in 1..Len(queue[w]) :
          queue[w][i].kind = "drafts" /\ queue[w][j].kind = "drafts" => i = j

-----------------------------------------------------------------------------
(* Merging a save into what is stored.                                      *)

Later(m, n) == IF m > n THEN m ELSE n

\* Faulty variant: the draft being saved wins.
PendingWins(current, pending, graded) ==
    IF graded THEN [rev |-> current.rev, text |-> None] ELSE pending

(* mergeAnswerDraft: the higher revision wins; a graded answer keeps none.  *)
MergeAnswer(current, pending, graded) ==
    IF graded THEN [rev |-> Later(current.rev, pending.rev), text |-> None]
    ELSE IF pending.rev > current.rev THEN pending ELSE current
AnswersDiffer(current, pending, graded) ==
    ~graded /\ current.rev = pending.rev /\ current # pending

(* mergeSessionDraft: an older draft is ignored, the next one is taken.     *)
SelvesDiffer(current, pending) ==
    \/ current.rev = pending.rev /\ current # pending
    \/ pending.rev > current.rev + 1
MergeSelf(current, pending) == IF pending.rev > current.rev THEN pending ELSE current

\* Faulty variant: only the saving window's own grades settle a draft.
GradedThere(current, pending) == pending.graded

GradedPart(current, pending) == current.graded \/ pending.graded

(* commitSessionSnapshot, one round.                                        *)
Refused(snap) ==
    \/ AnswersDiffer(stored.answer, snap.answer, GradedPart(stored, snap))
    \/ SelvesDiffer(stored.self, snap.self)
Merged(snap) ==
    [answer |-> MergeAnswer(stored.answer, snap.answer, GradedPart(stored, snap)),
     self |-> MergeSelf(stored.self, snap.self),
     graded |-> stored.graded \/ snap.graded, here |-> snap.here]

(* A write applies and is confirmed, or fails, or applies and its answer    *)
(* and the read that should confirm it are lost.                            *)
Write(w, next) ==
    \/ stored' = next /\ result' = [result EXCEPT ![w] = next] /\ UNCHANGED faults
    \/ /\ faults < MaxFaults /\ faults' = faults + 1
       /\ stored' \in {stored, next}
       /\ result' = [result EXCEPT ![w] = Failed]
Refuse(w) == result' = [result EXCEPT ![w] = Failed] /\ UNCHANGED <<stored, faults>>

-----------------------------------------------------------------------------
(* What the learner does.                                                   *)

NewText(w) == <<w, texts + 1>>
Typed == texts < MaxTexts /\ texts' = texts + 1
Enqueue(w, task) == queue' = [queue EXCEPT ![w] = Append(@, task)]
Pipelines(w) == {i \in 1..Len(queue[w]) : queue[w][i].kind = "drafts"}

(* onAnswerDraft and saveAnswerDraft: the draft takes the next revision in  *)
(* memory; it joins the pipeline as its latest draft or starts one.         *)
Type(w) ==
    /\ view[w].phase = "answering" /\ Typed
    /\ IF memory[w].graded
       THEN /\ view' = [view EXCEPT ![w].typed = NewText(w), ![w].error = TRUE]
            /\ UNCHANGED <<memory, queue>>
       ELSE LET snap == [memory[w] EXCEPT !.answer = [rev |-> @.rev + 1, text |-> NewText(w)]]
            IN /\ memory' = [memory EXCEPT ![w] = snap]
               /\ IF Pipelines(w) = {} THEN Enqueue(w, Save("drafts", snap))
                  ELSE \E i \in Pipelines(w) : queue' = [queue EXCEPT ![w][i].latest = snap]
               /\ view' = [view EXCEPT ![w].typed = NewText(w), ![w].busy = TRUE,
                                       ![w].error = FALSE]
    /\ UNCHANGED <<stored, result, faults, saves, opens>>

(* Submitting an open answer, or changing its assessment, saves a draft of  *)
(* the assessment (onPlayerDraft).                                          *)
Assess(w) ==
    /\ \/ view[w].phase = "answering" /\ ~view[w].busy /\ ~view[w].error
       \/ view[w].phase = "assessing"
    /\ Typed
    /\ view' = [view EXCEPT ![w].phase = "assessing", ![w].pick = NewText(w),
                            ![w].durable = FALSE]
    /\ Enqueue(w, [Save("self", memory[w]) EXCEPT !.pick = NewText(w)])
    /\ UNCHANGED <<stored, memory, result, faults, saves, opens>>

(* savePendingGrading, a hint or help: persistSession with the memory of    *)
(* this moment.                                                             *)
Persist(w) ==
    /\ view[w].phase # "closed"
    /\ saves < MaxSaves /\ saves' = saves + 1
    /\ Enqueue(w, Save("evidence", memory[w]))
    /\ UNCHANGED <<stored, memory, result, view, texts, faults, opens>>

(* How the part is shown: the player starts from what memory holds.         *)
Shown(copy) ==
    LET assessing == ~copy.graded /\ copy.self.text # None
    IN [Closed EXCEPT !.phase = IF ~copy.here THEN "away"
                                ELSE IF copy.graded THEN "reviewed"
                                ELSE IF assessing THEN "assessing" ELSE "answering",
                      !.pick = IF copy.here /\ assessing THEN copy.self.text ELSE None,
                      !.durable = copy.here /\ assessing]

(* jumpTo another part, once everything typed is saved, or back to this one *)
(* if it is not graded; either way the position is saved.                   *)
Jump(w) ==
    /\ saves < MaxSaves /\ saves' = saves + 1
    /\ \/ view[w].phase = "answering" /\ ~view[w].busy /\ ~view[w].error
       \/ view[w].phase = "assessing" /\ view[w].durable
       \/ view[w].phase = "away" /\ ~memory[w].graded
    /\ LET copy == [memory[w] EXCEPT !.here = ~@]
       IN /\ memory' = [memory EXCEPT ![w] = copy]
          /\ view' = [view EXCEPT ![w] = [Shown(copy) EXCEPT !.typed = view[w].typed]]
          /\ Enqueue(w, Save("jump", copy))
    /\ UNCHANGED <<stored, result, texts, faults, opens>>

(* recordGraded, first or again: waits for the saves queued so far.         *)
Grade(w) ==
    /\ \/ view[w].phase = "answering" /\ ~view[w].busy /\ ~view[w].error
       \/ view[w].phase = "assessing" /\ view[w].durable
       \/ view[w].phase = "reviewed" /\ view[w].error
    /\ view' = [view EXCEPT ![w].phase = "reviewed", ![w].error = FALSE]
    /\ Enqueue(w, Save("drain", memory[w]))
    /\ UNCHANGED <<stored, memory, result, countVars>>

(* The window is closed or dies; a save that runs has applied or not.       *)
Close(w) ==
    /\ view[w].phase # "closed"
    /\ view' = [view EXCEPT ![w] = Closed]
    /\ memory' = [memory EXCEPT ![w] = NewSession]
    /\ queue' = [queue EXCEPT ![w] = <<>>] /\ result' = [result EXCEPT ![w] = None]
    /\ UNCHANGED <<stored, countVars>>

(* restoreSession, hydratePersistedSession: the stored drafts are shown and *)
(* the programme saved again. A draft of the assessment that is not of the  *)
(* part on the screen, or of a graded part, is left behind.                 *)
Restore(w) ==
    /\ view[w].phase = "closed" /\ opens < MaxOpens
    /\ opens' = opens + 1
    /\ LET copy == [stored EXCEPT !.self.text = IF stored.graded \/ ~stored.here THEN None ELSE @]
       IN /\ memory' = [memory EXCEPT ![w] = copy]
          /\ queue' = [queue EXCEPT ![w] = <<Save("restore", copy)>>]
          /\ view' = [view EXCEPT ![w] = Shown(copy)]
    /\ UNCHANGED <<stored, result, texts, faults, saves>>

-----------------------------------------------------------------------------
(* The queue. The first save runs, then its result is taken.                *)

Running(w, kind) == queue[w] # <<>> /\ Head(queue[w]).kind = kind /\ result[w] = None
Finished(w, kind) == queue[w] # <<>> /\ Head(queue[w]).kind = kind /\ result[w] # None
Dequeue(w) == queue' = [queue EXCEPT ![w] = Tail(@)] /\ result' = [result EXCEPT ![w] = None]

(* Drafts, positions and evidence: commitSessionSnapshot.                   *)
RunSave(w) ==
    /\ \E kind \in {"drafts", "evidence", "jump", "restore"} : Running(w, kind)
    /\ LET snap == Head(queue[w]).snap
       IN IF Refused(snap) THEN Refuse(w) ELSE Write(w, Merged(snap))
    /\ UNCHANGED <<memory, queue, view, texts, saves, opens>>

(* saveSelfAssessmentDraft builds its programme when its turn comes.        *)
RunSelf(w) ==
    /\ Running(w, "self")
    /\ LET snap == [memory[w] EXCEPT !.self = [rev |-> @.rev + 1, text |-> Head(queue[w]).pick]]
       IN IF memory[w].graded \/ ~memory[w].here \/ Refused(snap) THEN Refuse(w)
          ELSE Write(w, Merged(snap))
    /\ UNCHANGED <<memory, queue, view, texts, saves, opens>>

(* The saves queued before the grade are done: the programme with the grade *)
(* is built, and queued behind those that came since.                       *)
Drained(w) ==
    /\ Running(w, "drain")
    /\ LET m == memory[w]
           snap == [m EXCEPT !.graded = TRUE,
                             !.answer = [rev |-> @.rev + 1, text |-> None],
                             !.self = IF @.text = None THEN @
                                      ELSE [rev |-> @.rev + 1, text |-> None]]
       IN queue' = [queue EXCEPT ![w] = Append(Tail(@), Save("grade", snap))]
    /\ UNCHANGED <<stored, memory, result, view, countVars>>

(* commitGradeEvent: another window's grade is adopted, a draft of the      *)
(* assessment that this window does not know refuses.                       *)
RunGrade(w) ==
    /\ Running(w, "grade")
    /\ LET snap == Head(queue[w]).snap
       IN IF stored.graded THEN Write(w, stored)
          ELSE IF \/ SelvesDiffer(stored.self, snap.self)
                  \/ MergeSelf(stored.self, snap.self).text # None
               THEN Refuse(w)
          ELSE Write(w, Merged(snap))
    /\ UNCHANGED <<memory, queue, view, texts, saves, opens>>

(* commitAnswerDraftIntent, its outcome.                                    *)
Saved(task, next) ==
    next # Failed /\ (next.graded \/ next.answer.text = task.snap.answer.text)

(* A draft that was saved makes way for the latest one, and the pipeline    *)
(* ends with the programme in memory. Any other outcome drops the latest.   *)
TakeDrafts(w) ==
    /\ Finished(w, "drafts")
    /\ LET task == Head(queue[w])
           next == result[w]
           saved == Saved(task, next)
       IN IF saved /\ ~next.graded /\ task.latest # None
          THEN /\ queue' = [queue EXCEPT ![w][1] = Save("drafts", task.latest)]
               /\ result' = [result EXCEPT ![w] = None]
               /\ UNCHANGED <<memory, view>>
          ELSE /\ Dequeue(w)
               /\ IF saved
                  THEN /\ memory' = [memory EXCEPT ![w] = [next EXCEPT !.here = memory[w].here]]
                       /\ view' = [view EXCEPT
                             ![w].phase = IF next.graded /\ @ # "away" THEN "reviewed" ELSE @,
                             ![w].busy = FALSE, ![w].error = FALSE]
                  ELSE /\ view' = [view EXCEPT ![w].busy = FALSE, ![w].error = TRUE]
                       /\ UNCHANGED memory
    /\ UNCHANGED <<stored, countVars>>

(* persistSession adopts the merged programme. Evidence that was not saved  *)
(* takes back the items as they were; a restore that was not saved ends.    *)
TakeSave(w) ==
    /\ \E kind \in {"evidence", "jump", "restore"} : Finished(w, kind)
    /\ LET task == Head(queue[w])
           next == result[w]
       IN IF next # Failed
          THEN /\ memory' = [memory EXCEPT ![w] = [next EXCEPT !.here = memory[w].here]]
               /\ Dequeue(w) /\ UNCHANGED view
          ELSE IF task.kind = "restore"
          THEN /\ memory' = [memory EXCEPT ![w] = NewSession]
               /\ view' = [view EXCEPT ![w] = Closed]
               /\ queue' = [queue EXCEPT ![w] = <<>>] /\ result' = [result EXCEPT ![w] = None]
          ELSE /\ memory' = IF task.kind = "evidence"
                            THEN [memory EXCEPT ![w].answer = task.snap.answer] ELSE memory
               /\ Dequeue(w) /\ UNCHANGED view
    /\ UNCHANGED <<stored, countVars>>

(* The view believes the latest save of its assessment.                     *)
TakeSelf(w) ==
    /\ Finished(w, "self")
    /\ LET task == Head(queue[w])
           next == result[w]
       IN /\ memory' = IF next = Failed THEN memory
                       ELSE [memory EXCEPT ![w].self = next.self]
          /\ view' = IF task.pick # view[w].pick THEN view
                     ELSE [view EXCEPT ![w].durable = next # Failed /\ next.self.text # None]
    /\ Dequeue(w)
    /\ UNCHANGED <<stored, countVars>>

TakeGrade(w) ==
    /\ Finished(w, "grade")
    /\ LET next == result[w]
       IN IF next = Failed
          THEN view' = [view EXCEPT ![w].error = TRUE] /\ UNCHANGED memory
          ELSE /\ memory' = [memory EXCEPT ![w] = [next EXCEPT !.here = memory[w].here]]
               /\ view' = [view EXCEPT ![w].busy = FALSE, ![w].error = FALSE]
    /\ Dequeue(w)
    /\ UNCHANGED <<stored, countVars>>

-----------------------------------------------------------------------------
Init ==
    /\ stored = NewSession
    /\ memory = [w \in Window |-> NewSession]
    /\ queue = [w \in Window |-> <<>>] /\ result = [w \in Window |-> None]
    /\ \E first \in Window :
          view = [w \in Window |-> IF w = first THEN Shown(NewSession) ELSE Closed]
    /\ texts = 0 /\ faults = 0 /\ saves = 0 /\ opens = 0

QueueStep(w) ==
    \/ RunSave(w) \/ RunSelf(w) \/ Drained(w) \/ RunGrade(w)
    \/ TakeDrafts(w) \/ TakeSave(w) \/ TakeSelf(w) \/ TakeGrade(w)

Next == \E w \in Window :
    \/ Type(w) \/ Assess(w) \/ Persist(w) \/ Jump(w) \/ Grade(w) \/ Close(w) \/ Restore(w)
    \/ QueueStep(w)

Spec == Init /\ [][Next]_vars

-----------------------------------------------------------------------------
Kept(text, own, w) == text = own \/ (text # None /\ text[1] # w)

(* The draft that a pipeline reports as saved, and the assessment that the  *)
(* view shows as saved, is stored, unless the answer is graded or another   *)
(* window has saved one since: it is not lost to a save that another window *)
(* built earlier and runs later, nor to a latest draft that the pipeline    *)
(* drops, nor to a reply that never came (saveAnswerDraft,                  *)
(* saveSelfAssessmentDraft, PracticeView.vue onPlayerDraft).                *)
ReportedIsStored == \A w \in Window : ~stored.graded =>
    /\ Finished(w, "drafts") /\ Saved(Head(queue[w]), result[w]) =>
          Kept(stored.answer.text, Head(queue[w]).snap.answer.text, w)
    /\ view[w].phase = "assessing" /\ view[w].durable =>
          Kept(stored.self.text, view[w].pick, w)

(* A late save yields. Once the programme has the grade, no window that has *)
(* not heard of it brings a draft of the answer back or takes the grade     *)
(* away; and no window brings back a draft of another window that it once   *)
(* read (mergeAnswerDraft, mergeSessionGradeRecords).                       *)
LateSavesYield ==
    [][/\ stored.graded => stored'.graded /\ stored'.answer.text = None
       /\ \A w \in Window :
             result'[w] # result[w] /\ stored'.answer.text \notin {stored.answer.text, None}
             => stored'.answer.text[1] = w]_<<stored, result>>

(* What the learner typed last stays stored while the view shows it as      *)
(* saved. The code does not keep this: see the README.                      *)
TypedStaysStored == \A w \in Window :
    /\ ~stored.graded
    /\ view[w].phase = "answering" /\ ~view[w].busy /\ ~view[w].error /\ view[w].typed # None
    => Kept(stored.answer.text, view[w].typed, w)
=============================================================================
