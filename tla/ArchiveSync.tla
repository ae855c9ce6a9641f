---------------------------- MODULE ArchiveSync ----------------------------
(***************************************************************************)
(* Synchronising the learner's archive (progress.ts runSyncRound,          *)
(* reconcileOnLogin, resolveArchiveChoice, resolveConflict and             *)
(* recoverPendingMutations over sync-engine.ts, SyncMutationJournal and    *)
(* ArchiveStore.saveIfUnchanged).  Windows of one account share the local  *)
(* archive and the journal of unanswered uploads; each runs one archive    *)
(* task at a time and never holds a lock while the server is asked.        *)
(* Requests are delayed, lost or answered after their window gave up.      *)
(*                                                                         *)
(* The content of an archive is the set of edits it reflects.  The server  *)
(* is external: versioned, idempotent by clientMutationId, merging what    *)
(* arrives on an old base or answering with a conflict.                    *)
(***************************************************************************)
EXTENDS Integers, FiniteSets

CONSTANTS Window,
          LocalEdit,   \* edits made on this device
          RemoteEdit,  \* edits other devices send to the server
          Clash,       \* pairs of edits of one entry that the server cannot order
          Older,       \* pairs <<e, f>> of one entry in which f bears the later stamp
          None,
          MaxTries,    \* contention attempts of one round
          MaxFaults,   \* bound: requests that fail and windows restarted
          MaxUser      \* bound: logins, unhinted rounds, picks and dismissals

ASSUME EditsAssumption == LocalEdit \cap RemoteEdit = {} /\ None \notin LocalEdit \cup RemoteEdit
ASSUME SyncBoundsAssumption == MaxTries \in Nat \ {0} /\ MaxFaults \in Nat /\ MaxUser \in Nat

VARIABLES local,     \* the archive of the account's profile on this device
          journal,   \* mutations whose answer is not known yet
          task,      \* per window, the archive task that is running
          conflict,  \* per window, the open conflict dialog
          choice,    \* per window, the open archive choice
          login,     \* windows with a pending login reconciliation
          recovery   \* per window, what the last failure left: a recovery that is
                     \* due, an error on the screen, a closed window, or nothing

VARIABLES server,    \* external: the account's archive in the cloud
          receipts,  \* external: what it applied, with the answers
          net,       \* external: requests under way
          nextId

VARIABLES made,      \* edits made on this device so far
          accepted,  \* edits the server has held
          waived,    \* edits the learner or the server's merge gave up
          faults, actions

storedVars == <<local, journal, nextId>>
dialogVars == <<conflict, choice, login>>
serverVars == <<server, receipts>>
ghostVars == <<made, accepted, waived, faults, actions>>
vars == <<storedVars, task, dialogVars, recovery, serverVars, net, ghostVars>>

Edit == LocalEdit \cup RemoteEdit
Content == SUBSET Edit
Archive == [content : Content, base : Nat]
State == [content : Content, version : Nat]
Record == [op : {"sync", "resolve"}, base : Nat, content : Content,
           expected : Archive, id : Nat]
Answer == [kind : {"fast-forward", "merged", "resolved", "conflict"},
           content : Content, version : Nat]
Idle == [pc |-> "idle", purpose |-> None, todo |-> {}, snap |-> None, seen |-> None,
         record |-> None, reply |-> None, tries |-> 0, after |-> None]

(* The absence of a record or of a state is told apart from all of them.     *)
ASSUME NoneAssumption == None \notin State /\ None \notin Record

Purpose == {"plain", "compare", "login", "resolve", "keepLocal"}
TypeOK ==
    /\ local \in Archive
    /\ journal \in SUBSET Record
    /\ \A w \in Window :
          LET t == task[w]
          IN /\ t.pc \in {"idle", "replay", "replaying", "calibrate", "calibrating", "load",
                          "assess", "wait", "ack"}
             /\ t.purpose \in Purpose \cup {None}
             /\ t.todo \in SUBSET Record
             /\ t.snap \in Archive \cup {None} /\ t.seen \in State \cup {None}
             /\ t.record \in Record \cup {None} /\ t.reply \in Answer \cup {None}
             /\ t.tries \in 0..MaxTries
             /\ t.after \in {"idle", "load", "plain", "login", "replay", None}
    /\ server \in State
    /\ login \in SUBSET Window
    /\ recovery \in [Window -> {"off", "due", "error", "closed"}]
    /\ made \in SUBSET LocalEdit /\ accepted \in Content /\ waived \in Content

Init ==
    /\ local = [content |-> {}, base |-> 0]
    /\ journal = {} /\ nextId = 0
    /\ task = [w \in Window |-> Idle]
    /\ conflict = [w \in Window |-> None]
    /\ choice = [w \in Window |-> None]
    /\ login = {}
    /\ recovery = [w \in Window |-> "off"]
    /\ server = [content |-> {}, version |-> 0]
    /\ receipts = {}
    /\ net = {}
    /\ made = {} /\ accepted = {} /\ waived = {}
    /\ faults = 0 /\ actions = 0

-----------------------------------------------------------------------------
(* The helpers of progress.ts.                                              *)

(* Faulty variant: the answer is written without looking at the archive.    *)
SaveBlindly(expected, next) == local' = next

(* saveIfUnchanged: the archive moves on only from the one expected.        *)
SaveIfUnchanged(expected, next) == local' = IF local = expected THEN next ELSE local

(* getOrCreate: one identity per operation, version and content.            *)
GetOrCreate(op, base, content, expected) ==
    LET same == {r \in journal : r.op = op /\ r.base = base /\ r.content = content}
    IN IF same # {} THEN CHOOSE r \in same : TRUE
       ELSE [op |-> op, base |-> base, content |-> content, expected |-> expected,
             id |-> nextId]

(* A fingerprint that is bound to another local archive is refused.         *)
Refused(op, base, content, expected) ==
    GetOrCreate(op, base, content, expected).expected # expected

(* Faulty variant: nothing is remembered of a request.                      *)
SubmitUnjournaled(w, t, op, base, content, expected) ==
    LET r == GetOrCreate(op, base, content, expected)
    IN /\ UNCHANGED journal
       /\ nextId' = nextId + 1
       /\ net' = net \cup {[to |-> w, record |-> r]}
       /\ task' = [task EXCEPT ![w] = [t EXCEPT !.pc = "wait", !.record = r]]

(* The journal keeps the record before the request leaves the window.       *)
Submit(w, t, op, base, content, expected) ==
    LET r == GetOrCreate(op, base, content, expected)
    IN /\ journal' = journal \cup {r}
       /\ nextId' = IF r \in journal THEN nextId ELSE nextId + 1
       /\ net' = net \cup {[to |-> w, record |-> r]}
       /\ task' = [task EXCEPT ![w] = [t EXCEPT !.pc = "wait", !.record = r]]

(* A round first replays what an earlier one left unanswered.               *)
Round(purpose, pending) ==
    [Idle EXCEPT !.purpose = purpose, !.todo = pending,
                 !.pc = IF pending = {} THEN "load" ELSE "replay"]

(* Faulty variant: a round uploads while the login is not reconciled.       *)
StartAnyway(w, purpose, pending) == Round(purpose, pending)

(* runSyncRound: a pending login reconciliation comes before any upload.    *)
Start(w, purpose, pending) == Round(IF w \in login THEN "login" ELSE purpose, pending)

Goto(w, t) == task' = [task EXCEPT ![w] = t]
Finish(w) == Goto(w, Idle)
Acknowledge(w, label) == Goto(w, [task[w] EXCEPT !.pc = "ack", !.reply = None, !.after = label])

Result(answer, sent) ==
    [content |-> IF answer.kind = "merged" THEN answer.content ELSE sent,
     base |-> answer.version]

(* The timer of scheduleCloudRecovery is armed by what may succeed later    *)
(* and by nothing else: no edit arms it, no error the server would repeat,  *)
(* no round that ended well.  A recovery is due while, moreover, no task    *)
(* has begun since and resumeCloudRecovery would arm the timer again after  *)
(* a refresh of the login.                                                  *)
Leave(w, what) == recovery' = [recovery EXCEPT ![w] = what]

CloseConflict(w) == conflict' = [conflict EXCEPT ![w] = None]
CloseChoice(w) == choice' = [choice EXCEPT ![w] = None]
OpenConflict(w, answer, base) ==
    conflict' = [conflict EXCEPT ![w] = [server |-> answer.content,
                                         version |-> answer.version, base |-> base]]

-----------------------------------------------------------------------------
(* Rounds.                                                                  *)

(* Rounds from recovery and recommendations compare checksums, those after  *)
(* some answers and at the end of a session upload without asking.  A       *)
(* recovery need not be due: the network, a resume of the device or a start *)
(* of the app expedites it.                                                 *)
Begin(w, purpose) ==
    /\ task[w].pc = "idle"
    /\ Goto(w, Start(w, purpose, journal)) /\ Leave(w, "off")
    /\ UNCHANGED <<storedVars, dialogVars, serverVars, net, made, accepted, waived, faults>>

Recover(w) == Begin(w, "compare") /\ UNCHANGED actions
PlainRound(w) == actions < MaxUser /\ Begin(w, "plain") /\ actions' = actions + 1
LogIn(w) ==
    /\ actions < MaxUser /\ actions' = actions + 1
    /\ task[w].pc = "idle"
    /\ login' = login \cup {w} /\ CloseConflict(w) /\ CloseChoice(w)
    /\ Goto(w, Round("login", journal)) /\ Leave(w, "off")
    /\ UNCHANGED <<storedVars, serverVars, net, made, accepted, waived, faults>>

(* recoverPendingMutations: oldest first, under the identity of old.        *)
Replay(w) ==
    LET t == task[w]
    IN /\ t.pc = "replay"
       /\ IF t.todo = {}
          THEN Goto(w, [t EXCEPT !.pc = "calibrate"]) /\ UNCHANGED net
          ELSE LET r == CHOOSE r \in t.todo : \A s \in t.todo : r.id <= s.id
               IN /\ net' = net \cup {[to |-> w, record |-> r]}
                  /\ Goto(w, [t EXCEPT !.pc = "replaying", !.record = r, !.todo = @ \ {r}])
       /\ UNCHANGED <<storedVars, dialogVars, serverVars, ghostVars>>

(* Faulty variant: a replayed conflict stays in the journal.                *)
ReplayedSyncStuck(w) ==
    LET t == task[w]
    IN /\ t.pc = "replaying" /\ t.reply # None /\ t.record.op = "sync"
       /\ IF t.reply.kind = "conflict" THEN UNCHANGED local /\ Finish(w)
          ELSE /\ SaveIfUnchanged(t.record.expected, Result(t.reply, t.record.content))
               /\ Acknowledge(w, "replay")
       /\ UNCHANGED <<journal, nextId, dialogVars, serverVars, net, ghostVars>>

(* The receipt of an old mutation is applied only to the archive it was     *)
(* made for; newer edits wait for the round that follows.                   *)
ReplayedSync(w) ==
    LET t == task[w]
    IN /\ t.pc = "replaying" /\ t.reply # None /\ t.record.op = "sync"
       /\ IF t.reply.kind = "conflict" THEN UNCHANGED local
          ELSE SaveIfUnchanged(t.record.expected, Result(t.reply, t.record.content))
       /\ Acknowledge(w, "replay")
       /\ UNCHANGED <<journal, nextId, dialogVars, serverVars, net, ghostVars>>

ReplayedChoice(w) ==
    /\ choice[w] # None /\ choice[w].pick = "local"
    /\ choice[w].version = task[w].record.base /\ choice[w].base = task[w].record.expected

ReplayedResolve(w) ==
    LET t == task[w]
    IN /\ t.pc = "replaying" /\ t.reply # None /\ t.record.op = "resolve"
       /\ IF ReplayedChoice(w) THEN CloseChoice(w) ELSE UNCHANGED choice
       /\ IF t.reply.kind = "conflict" /\ local = t.record.expected
          THEN OpenConflict(w, t.reply, local) /\ Acknowledge(w, "idle")
          ELSE CloseConflict(w) /\ Acknowledge(w, "replay")
       /\ IF t.reply.kind = "conflict" THEN UNCHANGED local
          ELSE SaveIfUnchanged(t.record.expected, Result(t.reply, t.record.content))
       /\ UNCHANGED <<journal, nextId, login, serverVars, net, ghostVars>>

(* Receipts do not say in which order the server applied them: only its     *)
(* state tells whether the local archive is what it holds.                  *)
ReadForCalibration(w) ==
    /\ task[w].pc = "calibrate"
    /\ Goto(w, [task[w] EXCEPT !.pc = "calibrating", !.seen = server])
    /\ UNCHANGED <<storedVars, dialogVars, serverVars, net, ghostVars>>

(* Faulty variant: the version is taken over whatever the content.          *)
CalibrateAnyway(w) ==
    LET t == task[w]
    IN /\ t.pc = "calibrating"
       /\ local' = [local EXCEPT !.base = t.seen.version]
       /\ CloseConflict(w) /\ login' = login \ {w} /\ Finish(w)
       /\ UNCHANGED <<journal, nextId, choice, serverVars, net, ghostVars>>

Calibrate(w) ==
    LET t == task[w]
    IN /\ t.pc = "calibrating"
       /\ IF local.content = t.seen.content
          THEN /\ local' = [local EXCEPT !.base = t.seen.version]
               /\ CloseConflict(w) /\ login' = login \ {w} /\ Finish(w)
          ELSE /\ Goto(w, [t EXCEPT !.pc = "load", !.seen = None])
               /\ UNCHANGED <<local, conflict, login>>
       /\ UNCHANGED <<journal, nextId, choice, serverVars, net, ghostVars>>

Blocked(w) == task[w].purpose # "login" /\ (conflict[w] # None \/ choice[w] # None)

(* Faulty variant: a round that is outpaced by other windows goes on.       *)
LoadForever(w) ==
    LET t == task[w]
        seen == IF t.purpose = "plain" THEN None ELSE server
    IN /\ t.pc = "load"
       /\ IF Blocked(w) THEN Finish(w)
          ELSE Goto(w, [t EXCEPT !.pc = "assess", !.snap = local, !.seen = seen, !.tries = @ + 1])
       /\ UNCHANGED <<storedVars, dialogVars, serverVars, net, ghostVars>>

(* One turn of a round's loop: the archive is read, then, unless the round  *)
(* uploads without asking, the server's state.  An open dialog blocks an    *)
(* upload, and after MaxTries archives that changed meanwhile the round is  *)
(* left to a later one.                                                     *)
Load(w) ==
    LET t == task[w]
        seen == IF t.purpose = "plain" THEN None ELSE server
    IN /\ t.pc = "load"
       /\ IF Blocked(w) \/ t.tries = MaxTries THEN Finish(w)
          ELSE Goto(w, [t EXCEPT !.pc = "assess", !.snap = local, !.seen = seen, !.tries = @ + 1])
       /\ UNCHANGED <<storedVars, dialogVars, serverVars, net, ghostVars>>

(* Equal checksums, or nothing local at login: take over the server's       *)
(* version without an upload.                                               *)
Adopt(w) ==
    LET t == task[w]
        unchanged == local = t.snap
    IN /\ t.pc = "assess" /\ t.purpose # "plain"
       /\ \/ t.snap.content = t.seen.content
          \/ t.purpose = "login" /\ t.snap.content = {}
       /\ SaveIfUnchanged(t.snap, [content |-> t.seen.content, base |-> t.seen.version])
       /\ IF unchanged THEN Finish(w) ELSE Goto(w, [t EXCEPT !.pc = "load"])
       /\ IF unchanged /\ t.purpose = "compare" THEN CloseConflict(w) ELSE UNCHANGED conflict
       /\ login' = IF unchanged THEN login \ {w} ELSE login
       /\ UNCHANGED <<journal, nextId, choice, serverVars, net, ghostVars>>

(* Both sides hold different data at login: the learner has to choose.      *)
OfferChoice(w) ==
    LET t == task[w]
        unchanged == local = t.snap
    IN /\ t.pc = "assess" /\ t.purpose = "login"
       /\ t.snap.content # {} /\ t.seen.content # {} /\ t.snap.content # t.seen.content
       /\ IF unchanged
          THEN /\ choice' = [choice EXCEPT ![w] = [server |-> t.seen.content,
                                version |-> t.seen.version, base |-> t.snap, pick |-> None]]
               /\ login' = login \ {w}
               /\ Finish(w)
          ELSE Goto(w, [t EXCEPT !.pc = "load"]) /\ UNCHANGED <<choice, login>>
       /\ UNCHANGED <<storedVars, conflict, serverVars, net, ghostVars>>

(* performJournaledSync.  A login uploads to an empty cloud from the        *)
(* version the cloud has, any other round from the archive's own base.      *)
Upload(w) ==
    LET t == task[w]
        base == IF t.purpose = "login" THEN t.seen.version ELSE t.snap.base
    IN /\ t.pc = "assess"
       /\ CASE t.purpose = "plain"   -> TRUE
            [] t.purpose = "compare" -> t.snap.content # t.seen.content
            [] t.purpose = "login"   -> t.snap.content # {} /\ t.seen.content = {}
       /\ Submit(w, t, "sync", base, t.snap.content, [t.snap EXCEPT !.base = base])
       /\ UNCHANGED <<local, dialogVars, serverVars, ghostVars>>

(* The answer is committed only over the archive that was sent.             *)
Answered(w) ==
    LET t == task[w]
        unchanged == local = t.snap
    IN /\ t.pc = "wait" /\ t.reply # None /\ t.reply.kind # "conflict"
       /\ SaveIfUnchanged(t.snap, Result(t.reply, t.record.content))
       /\ Acknowledge(w, CASE unchanged -> "idle"
                           [] t.purpose = "keepLocal" -> "login"
                           [] t.purpose = "resolve" -> "plain"
                           [] OTHER -> "load")
       /\ IF t.purpose = "resolve" \/ (unchanged /\ t.purpose \in {"plain", "compare"})
          THEN CloseConflict(w) ELSE UNCHANGED conflict
       /\ IF t.purpose = "keepLocal" THEN CloseChoice(w) ELSE UNCHANGED choice
       /\ login' = IF unchanged /\ t.purpose = "login" THEN login \ {w} ELSE login
       /\ UNCHANGED <<journal, nextId, serverVars, net, ghostVars>>

(* A conflict is shown for an archive that is still the current one.        *)
Conflicted(w) ==
    LET t == task[w]
        unchanged == local = t.snap
    IN /\ t.pc = "wait" /\ t.reply # None /\ t.reply.kind = "conflict"
       /\ CASE t.purpose = "keepLocal" ->
                 CloseChoice(w) /\ UNCHANGED <<conflict, login>> /\ Acknowledge(w, "login")
            [] t.purpose # "keepLocal" /\ unchanged ->
                 /\ OpenConflict(w, t.reply, t.snap)
                 /\ login' = IF t.purpose = "login" THEN login \ {w} ELSE login
                 /\ UNCHANGED choice
                 /\ Acknowledge(w, "idle")
            [] t.purpose = "resolve" /\ ~unchanged ->
                 CloseConflict(w) /\ UNCHANGED <<choice, login>> /\ Acknowledge(w, "plain")
            [] OTHER -> UNCHANGED dialogVars /\ Acknowledge(w, "load")
       /\ UNCHANGED <<storedVars, serverVars, net, ghostVars>>

(* completeJournal, then whatever the task goes on with.                    *)
Complete(w) ==
    LET t == task[w]
        pending == {r \in journal : r.id # t.record.id}
    IN /\ t.pc = "ack"
       /\ journal' = pending
       /\ Goto(w, CASE t.after = "idle" -> Idle
                    [] t.after = "login" -> Round("login", pending)
                    [] t.after = "plain" -> Start(w, "plain", pending)
                    [] OTHER -> [t EXCEPT !.pc = t.after, !.record = None, !.after = None])
       /\ login' = IF t.after = "login" THEN login \cup {w} ELSE login
       /\ UNCHANGED <<local, nextId, conflict, choice, serverVars, net, ghostVars>>

-----------------------------------------------------------------------------
(* The learner.                                                             *)

(* Grading, starring and self grading wait for the window's own task.       *)
EditLocally(w, e) ==
    /\ task[w].pc = "idle" /\ e \notin made
    /\ local' = [local EXCEPT !.content = @ \cup {e}]
    /\ made' = made \cup {e}
    /\ UNCHANGED <<journal, nextId, task, dialogVars, recovery, serverVars, net, accepted,
                   waived, faults, actions>>

(* resolveArchiveChoice.                                                    *)
PickServer(w) ==
    LET c == choice[w]
    IN /\ task[w].pc = "idle" /\ c # None
       /\ actions < MaxUser /\ actions' = actions + 1
       /\ SaveIfUnchanged(c.base, [content |-> c.server, base |-> c.version])
       /\ CloseChoice(w)
       /\ IF local = c.base
          THEN waived' = waived \cup (c.base.content \ c.server) /\ UNCHANGED <<task, login>>
          ELSE Goto(w, Round("login", journal)) /\ login' = login \cup {w} /\ UNCHANGED waived
       /\ Leave(w, "off")
       /\ UNCHANGED <<journal, nextId, conflict, serverVars, net, made, accepted, faults>>

KeepLocal(w) ==
    LET c == choice[w]
    IN /\ task[w].pc = "idle" /\ c # None
       /\ ~Refused("resolve", c.version, c.base.content, c.base)
       /\ choice' = [choice EXCEPT ![w].pick = "local"]
       /\ waived' = waived \cup (c.server \ c.base.content)
       /\ Submit(w, [Idle EXCEPT !.purpose = "keepLocal", !.snap = c.base],
                 "resolve", c.version, c.base.content, c.base)
       /\ Leave(w, "off")
       /\ UNCHANGED <<local, conflict, login, serverVars, made, accepted, faults>>

PickLocal(w) == actions < MaxUser /\ KeepLocal(w) /\ actions' = actions + 1
(* A pick whose answer was lost is carried on by the recovery timer.        *)
RetryPick(w) ==
    /\ choice[w] # None /\ choice[w].pick = "local"
    /\ KeepLocal(w) /\ UNCHANGED actions

PickMerge(w) ==
    /\ task[w].pc = "idle" /\ choice[w] # None
    /\ actions < MaxUser /\ actions' = actions + 1
    /\ CloseChoice(w) /\ Goto(w, Start(w, "plain", journal)) /\ Leave(w, "off")
    /\ UNCHANGED <<storedVars, conflict, login, serverVars, net, made, accepted, waived, faults>>

(* What the picks of a conflict dialog can leave (buildResolvedArchive).    *)
Resolutions(mine, theirs) == {mine \cup theirs, mine, theirs}

ResolveConflict(w, resolved) ==
    LET c == conflict[w]
    IN /\ task[w].pc = "idle" /\ c # None
       /\ actions < MaxUser /\ actions' = actions + 1
       /\ resolved \in Resolutions(c.base.content, c.server)
       /\ ~Refused("resolve", c.version, resolved, c.base)
       /\ waived' = waived \cup ((c.base.content \cup c.server) \ resolved)
       /\ Submit(w, [Idle EXCEPT !.purpose = "resolve", !.snap = c.base],
                 "resolve", c.version, resolved, c.base)
       /\ Leave(w, "off")
       /\ UNCHANGED <<local, dialogVars, serverVars, made, accepted, faults>>

Dismiss(w) ==
    /\ actions < MaxUser /\ actions' = actions + 1
    /\ \/ conflict[w] # None /\ CloseConflict(w) /\ UNCHANGED choice
       \/ choice[w] # None /\ CloseChoice(w) /\ UNCHANGED conflict
    /\ Leave(w, "off")
    /\ UNCHANGED <<storedVars, task, login, serverVars, net, made, accepted, waived, faults>>

-----------------------------------------------------------------------------
(* The network and the server (external).                                   *)

(* A request fails, for now (no network, a timeout, a busy server) or for   *)
(* good (any other answer); it may still reach the server.                  *)
GiveUp(w) ==
    LET t == task[w]
    IN /\ faults < MaxFaults /\ faults' = faults + 1
       /\ t.pc \in {"wait", "replaying", "load", "calibrate"}
       /\ \/ UNCHANGED net
          \/ t.record # None /\ net' = net \ {[to |-> w, record |-> t.record]}
       /\ Finish(w)
       /\ Leave(w, "due") \/ Leave(w, "error")
       /\ UNCHANGED <<storedVars, dialogVars, serverVars, made, accepted, waived, actions>>

(* The renderer dies or the account leaves the window, at any await.  A     *)
(* start of the app arms the timer; but the window may stay closed, or a    *)
(* refresh of the login may disarm the timer first.                         *)
Restart(w) ==
    /\ faults < MaxFaults /\ faults' = faults + 1
    /\ Finish(w) /\ CloseConflict(w) /\ CloseChoice(w) /\ login' = login \ {w}
    /\ Leave(w, "due") \/ Leave(w, "closed")
    /\ UNCHANGED <<storedVars, serverVars, net, made, accepted, waived, actions>>

RemoteWrite(e) ==
    /\ e \notin accepted
    /\ server' = [content |-> server.content \cup {e}, version |-> server.version + 1]
    /\ accepted' = accepted \cup {e}
    /\ UNCHANGED <<storedVars, task, dialogVars, recovery, receipts, net, made, waived,
                   faults, actions>>

(* Entry by entry, the later stamp wins; equal stamps with different data   *)
(* are a conflict.                                                          *)
Superseded(mine, theirs) == {e \in mine \ theirs : \E f \in theirs \ mine : <<e, f>> \in Older}
Merge(mine, theirs) ==
    (mine \cup theirs) \ (Superseded(mine, theirs) \cup Superseded(theirs, mine))
Conflicting(mine, theirs) ==
    \E e \in mine \ theirs, f \in theirs \ mine : {<<e, f>>, <<f, e>>} \cap Clash # {}

(* The answer to a record the server has not applied yet.                   *)
ServerAnswer(r) ==
    LET applied(kind, content) ==
            [kind |-> kind, content |-> content, version |-> server.version + 1]
        refused == [kind |-> "conflict", content |-> server.content, version |-> server.version]
    IN CASE r.base = server.version /\ r.op = "sync"    -> applied("fast-forward", r.content)
         [] r.base = server.version /\ r.op = "resolve" -> applied("resolved", r.content)
         [] r.base # server.version /\ r.op = "sync" /\ ~Conflicting(r.content, server.content) ->
                applied("merged", Merge(r.content, server.content))
         [] OTHER -> refused

Waiting(m) ==
    /\ task[m.to].pc \in {"wait", "replaying"}
    /\ task[m.to].record = m.record /\ task[m.to].reply = None

Deliver(m, answer) ==
    task' = IF Waiting(m) THEN [task EXCEPT ![m.to].reply = answer] ELSE task

Serve(m) ==
    /\ m \in net /\ net' = net \ {m}
    /\ IF \E x \in receipts : x.record = m.record
       THEN /\ \E x \in receipts : x.record = m.record /\ Deliver(m, x.answer)
            /\ UNCHANGED <<serverVars, accepted, waived>>
       ELSE LET a == ServerAnswer(m.record) IN
              /\ Deliver(m, a)
              /\ IF a.kind = "conflict" THEN UNCHANGED <<serverVars, accepted, waived>>
                 ELSE /\ server' = [content |-> a.content, version |-> a.version]
                      /\ receipts' = receipts \cup {[record |-> m.record, answer |-> a]}
                      /\ accepted' = accepted \cup a.content
                      /\ waived' = IF a.kind # "merged" THEN waived
                                   ELSE waived \cup ((m.record.content \cup server.content)
                                                     \ a.content)
    /\ UNCHANGED <<storedVars, dialogVars, recovery, made, faults, actions>>

-----------------------------------------------------------------------------
(* A round that ends without failing leaves nothing due, except when other  *)
(* windows outpaced it.                                                     *)
Outpaced(w) == task[w].pc = "load" /\ ~Blocked(w)
Ends(w) ==
    IF task'[w].pc # "idle" THEN UNCHANGED recovery
    ELSE Leave(w, IF Outpaced(w) THEN "due" ELSE "off")

Work(w) ==
    /\ \/ Replay(w) \/ ReplayedSync(w) \/ ReplayedResolve(w)
       \/ ReadForCalibration(w) \/ Calibrate(w)
       \/ Load(w) \/ Adopt(w) \/ OfferChoice(w) \/ Upload(w)
       \/ Answered(w) \/ Conflicted(w) \/ Complete(w)
    /\ Ends(w)

Next ==
    \/ \E w \in Window :
          \/ Recover(w) \/ PlainRound(w) \/ LogIn(w) \/ Work(w)
          \/ \E e \in LocalEdit : EditLocally(w, e)
          \/ PickServer(w) \/ PickLocal(w) \/ RetryPick(w) \/ PickMerge(w) \/ Dismiss(w)
          \/ \E resolved \in Content : ResolveConflict(w, resolved)
          \/ GiveUp(w) \/ Restart(w)
    \/ \E e \in RemoteEdit : RemoteWrite(e)
    \/ \E m \in net : Serve(m)

Spec == Init /\ [][Next]_vars

(* A timer that is due fires, tasks go on, the server answers what reaches  *)
(* it.  No other round is owed, and the learner owes nothing.               *)
Fairness ==
    \A w \in Window :
        /\ WF_vars(recovery[w] = "due" /\ (Recover(w) \/ RetryPick(w)))
        /\ WF_vars(Work(w))
        /\ WF_vars(\E m \in net : m.to = w /\ Serve(m))
FairSpec == Spec /\ Fairness

-----------------------------------------------------------------------------
(* An edit made on this device stays in its archive until the learner or    *)
(* the server's merge gives it up: no answer, replayed receipt, adoption or *)
(* calibration overwrites an edit that another window made while the server *)
(* was asked (comment at archiveMutationTail, commitArchiveIfUnchanged).    *)
NoLocalEditLost == made \subseteq local.content \cup waived

(* An edit the server has held is never overwritten by an upload that did   *)
(* not know it: a fast-forward replaces the cloud archive, so the base      *)
(* version must never claim more than the local content reflects            *)
(* (recoverPendingMutations, performSync, assessLoginArchives).             *)
NoCloudEditLost == accepted \subseteq server.content \cup waived

(* An upload whose answer was lost is repeated under its old identity, so   *)
(* that the server applies one intent once (getOrCreate and                 *)
(* recoverPendingMutations: replayed "before creating any newer one").      *)
AppliedOnce ==
    \A x, y \in receipts :
        /\ x.record.op = y.record.op /\ x.record.base = y.record.base
        /\ x.record.content = y.record.content
        => x = y

(* While a login is not reconciled, or the learner has not chosen between   *)
(* two archives, the window starts no upload of its own, except to a cloud  *)
(* that was empty (runSyncRound: "a retry/manual upload must not make the   *)
(* user's pending archive choice").                                         *)
NoUploadBeforeChoice ==
    [][\A w \in Window, r \in journal' \ journal :
          r.op = "sync" /\ task'[w].record = r =>
              /\ choice[w] = None
              /\ w \in login => task[w].seen # None /\ task[w].seen.content = {}]_vars

(* What the device holds while a recovery is due reaches the cloud, unless  *)
(* the learner or the server's merge gives it up, the learner is asked or   *)
(* shown an error, or a window is closed: however the recovery is outpaced, *)
(* whatever an earlier window left in the journal, and even if the requests *)
(* of the recovery fail once more (scheduleCloudRecovery: "a bounded,       *)
(* jittered retry therefore continues").                                    *)
Attention ==
    \E w \in Window : \/ conflict[w] # None \/ choice[w] # None
                      \/ recovery[w] \in {"error", "closed"}
RecoveryUploads ==
    \A e \in LocalEdit :
        e \in local.content /\ (\E w \in Window : recovery[w] = "due")
        ~> e \in accepted \cup waived \/ Attention
=============================================================================
