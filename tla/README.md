# QED2 client: TLA+ models, checks and proofs

QED2 is a practice application for the Austrian Matura, built as a PWA (`packages/web`) and as an
Electron program (`packages/desktop`) over one TypeScript core (`packages/core-logic`). Almost
everything it must get right happens on the device: answers given in several windows, by a guest who may
later become an account, on storage whose replies can be lost, uploaded to a server that may or may
not have received them; a local core process that is started, crashes and is stopped; updates that
are downloaded in pieces. This directory holds the TLA+ models of that behaviour, the TLC runs that
check them on small instances, and TLAPS proofs of main properties for instances of any size.

Paths below are relative to `src/packages/`.

## 1. Inventory

| Component | State it keeps | Operations | Talks to | What makes it correct | Modelled in |
|---|---|---|---|---|---|
| Atomic storage: `web/src/platform/web-storage.ts` (IndexedDB), `desktop/src/main/storage.ts` (SQLite), contract in `core-logic/src/ports/index.ts` | value and revision per address; desktop: session-only secrets in memory | `get` `set` `delete` `clear` `readBatch` `commitBatch`, isolation of damaged records | everything below | a batch applies as a whole, only on a snapshot nobody has written to; revisions outlive values | `AtomicStorage` |
| Local grade commit: `core-logic/src/store/local-grade-commit.ts` | none of its own; writes archive, history row, upload row, session | `commit` (a retry loop), `prepare`, `confirmFromSnapshots` | storage, ownership, practice session | one answer is recorded in all four documents or in none, once, for its owner | `GradeCommit` |
| Guest ownership: `core-logic/src/store/local-profile-store.ts`, first half of `attempt-outbox.ts` | profile state (active and guest profile, routes, recovery list); claim state (generation, routes, pending) | `claimGuestForUser`, `quarantineGuest`, `activate`, `initialize`, `prepareGuestClaim`, `finishGuestClaim` | grade commit, archive, outbox, registration | the two documents agree on who owns a guest's work; no guest's work reaches a stranger | `GuestOwnership`, `GradeCommit`, `InviteRegistration` |
| Attempt outbox: `core-logic/src/store/attempt-outbox.ts` | one row per owner and attempt | `stage`, `list`, `remove`, `claim`, legacy migration | upload in `progress.ts` | a recorded answer waits in its owner's queue until the server has it | `GradeCommit`, `InviteRegistration` |
| Local archive: `core-logic/src/store/archive-store.ts` | FSRS state, grading, star per part; sync base version | `prepareArchiveGrade`, `setGrading`, `setStarred`, `saveIfUnchanged` | grade commit, sync | no write is lost to another | `GradeCommit`, `ArchiveSync` |
| Practice session: `web/src/stores/practice.ts` | programme in memory, its stored document, drafts, pending grade records, queue of saves, epochs | start, resume, type, assess, hint, jump, grade, save, clear, abort | grade commit, progress, view | windows that share a programme converge; what is shown as saved is stored; neither overwrites the other's programme | `GradeCommit`, `SessionDrafts` |
| Progress store: `web/src/stores/progress.ts` | reactive archive, sync status, conflict and archive choice, flush list, recovery timers | `captureAttemptOwner`, `commitGradeEvent`, upload, claims, sync rounds, conflict resolution | all stores, server | nothing of one account is shown, sent or merged under another | `GradeCommit`, `InviteRegistration`, `ArchiveSync` |
| Archive sync: `core-logic/src/sync/*`, `sync-mutation-journal.ts` | journalled mutation per account | `performSync`, `getOrCreate`, `complete` | server | a retried mutation has its old id; edits of both sides survive the round trip | `ArchiveSync` |
| Cloud recovery: `web/src/platform/cloud-recovery.ts`, timers in `progress.ts` | backoff timer, context | schedule, run, cancel | upload, sync | failed work is retried eventually, never for another account | `ArchiveSync`, its archive rounds only |
| Authentication and registration: `web/src/stores/auth.ts`, `registration-journal.ts` | stored login, registration intent, published session per window | redeem, login, logout, start-up, refresh, `reserve`, `markRedeemed`, `complete` | ownership, outbox, server | a redeemed invitation is never lost nor claimed twice | `InviteRegistration` |
| AI: `ai-cache.ts`, `ai-request-generation-journal.ts`, `web/src/stores/ai.ts`; `ai-credential-test-journal.ts` | cache rows, epochs, generations, window memory | `explain`, `assess`, `set`, `clear`, prune, `advance` | provider, view | no cleared answer comes back, each loss is paid for once | `AiCache`, `AiAnswers` |
| Core supervisor: `desktop/src/main/core-supervisor.ts` | child process, generation, restart count, shared promise | `getEndpoint`, restart, repair, stop, exit handling | process launcher | a late exit never revives a stopped core; the published address is of a live core | `CoreSupervisor` |
| Resumable download: `resumable-downloader.ts` | journal, partial file, finished file | stage, truncate, fetch, checkpoint, verify, discard | disk, server | bytes are only resumed for their own release, and only the durable ones | `ResumableDownload` |
| Desktop updates: `update-coordinator.ts`, `update-recovery-journal.ts` | phase, pending intent, attempt counter, cache lock | check, download, pause, cancel, resume, install, recover | downloader, feed, installer | nothing runs against the learner's last word; retries end in a decision | `UpdateCoordinator` |
| History log, learning events, local recovery export: `history-log.ts`, `learning-event-store.ts`, `local-recovery-store.ts` | rows per attempt, preserved profiles | append, compact, export | grade commit | compaction never drops or duplicates an attempt | history row only |
| FSRS, answer grading: `core-logic/src/fsrs`, `core-logic/src/grading` | none (pure) | next schedule, scoring | archive | arithmetic | "advanced once" only |
| Question and config stores, API clients, desktop shell, views | little protocol state | I/O, presentation | | | drafts and AI help of `PracticeView.vue` only |

What is hard here:

* **Interleaving without a lock.** Several tabs share IndexedDB. `runStorageMutation` is a mutex on the
  desktop (Web Locks, `web/src/platform/desktop-storage.ts`) and nothing at all on the Web. Safety rests
  on `commitBatch` revisions alone. The models take the Web case, which has more behaviours.
* **State read before an await.** Ownership, reservations, cache epochs, generations of a startup and the
  programme in memory are read by one step and used by a later one.
* **Lost replies.** A commit may be applied although its promise rejects (`local-grade-commit.ts:281`);
  so may an upload, a redeem and a paid request.
* **Crashes between transactions.** Rows are moved one at a time; a file and its journal are written
  separately; windows close at any await.
* **Duplicate and reordered delivery.** Uploads are repeated after an unknown outcome or an account
  switch, and reach the server in another order than they were begun.
* **Something must happen in the end.** Uploads converge, commands return, a stage ends.

`PROJECT.json` lists each such hazard at its line, with the properties that cover it.

## 2. Modules

| Module | What it is |
|---|---|
| `SnapshotStore` | abstract: the promise of the storage port. A snapshot remembers which of its addresses have become stale; there are no revisions |
| `AtomicStorage` | the revisioned store; `Promise == INSTANCE SnapshotStore` with `stale` computed from the revisions, `KeepsPromise` is the refinement |
| `GuestOwnership` | the two ownership documents and the steps that rotate them |
| `GradeCommit` | the commit protocol over `GuestOwnership`, with every other writer of its documents |
| `AnswerLedger` | abstract: an attempt is answered once, for good, told only when recorded, and received only under the account that owns it; `KeepsLedger` is the refinement |
| `SessionDrafts` | the drafts of a programme: typing, the queue of saves, merging, adoption, the view's save status |
| `InviteRegistration` | over `GuestOwnership`: redeem, login, logout, start-up and refresh in several windows around the registration journal |
| `ArchiveSync` | sync rounds, login reconciliation, archive choice and conflicts of several windows against a versioned server |
| `AiCache`, `AiAnswers` | the cache of paid answers, and the requests of several windows over it |
| `CoreSupervisor` | lifecycle commands, startups and crash recoveries of the local core |
| `ResumableDownload` | bytes, journal and stages of an update's download |
| `UpdateCoordinator` | the learner's and the program's requests around that download |
| `StoreAndRegistration_proofs`, `GradeCommit_proofs`, `ArchiveSync_proofs`, `AiAnswers_proofs`, `ResumableDownload_proofs`, `SessionDrafts_proofs`, `CoreSupervisor_proofs`, `UpdateCoordinator_proofs` | their theorems |
| `MC...` | instances for TLC |

`GradeCommit` and `AiCache` use the *promise* of the store, not its revisions: a task is stale when
another write has touched an address it read, exactly the `stale` of `SnapshotStore`. That
`AtomicStorage` implements this promise is checked and proved separately, which keeps revision
numbers out of the larger state spaces. `SessionDrafts`, `ArchiveSync` and `InviteRegistration` go one
step further: a compare-and-swap loop over one document is one step, since its read and write are
atomic by the same promise.

### AtomicStorage and the code

`value` and `revision` are the value collections and the revision collection (IndexedDB `META_STORE`, the
SQLite revision table). A missing revision is 0. `reads`, `seen`, `seenRevision` are the result of
the last `readBatch` of a renderer that it has not yet used. `MutateOne` is `set` and `delete`, `Clear`
bumps present keys only, `QuarantineRecord` is the SQLite read path that moves a damaged row aside,
`Restart` loses `volatileRows` but not their revisions. `CommitBatch` answers `committed` or, when
the reply is lost, `rejected`; `CommitAborted` answers `rejected` with nothing applied, so a client cannot
tell the two apart. Values are opaque: encoding, size limits and address validation are left out.

### GuestOwnership and the code

`guest`, `active`, `profileRoute`, `recovery` are `LocalProfileState`; `generation`, `claimRoute`, `pending`
are `GuestClaimState`. Random identities are members of `Guest` and `Generation` that no document mentions; a
claim needs a fresh one of each. `ClaimGuestForUser` and `QuarantineGuest` are the effect of a successful
compare-and-swap: their other outcomes (retry, no-op for the same account, refusal) leave no trace.

### GradeCommit and the code

| Variable | Code |
|---|---|
| `archive`, `history`, `outbox`, `document` | archive per profile, history row per attempt, queue per owner, stored session per captured profile |
| `captured` | the `AttemptOwnerSnapshot` a programme starts with |
| `delivered` | external: the accounts under which the server has filed an attempt |
| `open`, `memory` | the programme a window shows and its in-memory graded list |
| `pc`, `attempt`, `tries`, `route`, `batch`, `stale` | locals of `commit`: where it stands between two awaits, the loop counter, the preview's addresses, the prepared mutations |
| `listed` | the rows in the list of some `AttemptOutbox.claim` that runs, each with where it takes it |
| `told`, `dropped`, `overtaken`, `edited`, `lost`, `clears` | history: results shown as recorded, attempts whose marker was deleted with its session, generations whose claim the mover of another one finished, the edits made, and counters |

One iteration of the loop in `commit` is `Preview` → `Read` → `CommitApplied`, `CommitConflict` or
`CommitRejected` → (`Confirm`). Each action is the code between two awaits. `Read` contains the whole
decision: ownership moved since the preview → try again; `confirmFromSnapshots` finds the same answer →
done; a different answer → throw; otherwise `prepare`. `CommitRejected` either applied the batch or did not.
`Confirm` may find the answer, or find nothing (or its own read fails, which the code treats alike) and go
round. `Adopt` is the `catch` of `recordGraded`: the stored programme's answer wins, or the error is
shown and the learner may submit again. `Crash` ends a window at any of these points.

The other writers: `StartSession`, `OpenSession`, `SaveSession`, `ClearSession` (`practice.ts`),
`EditArchive` (`setGrading`, `setStarred`), `ClaimGuest`, `Quarantine`, the hand-over `ListRows`, `CopyRow`, `DropRow`,
`FinishMove`, and the upload `Deliver`, `RemoveRow`.

A hand-over is four kinds of step, with anything in between and in any number of windows: a mover that saw the claim of a
generation pending lists that generation's rows, copies a row, deletes the original, and in the end calls
`finishGuestClaim`, which looks at nothing but the destination account. So a mover may go on, and finish, long after its claim
was finished by another and the next guest of the same account was claimed; then it clears that newer claim
(`overtaken`), whose rows nobody has moved.

An answer is represented by the window that gave it. Two windows may answer the same reserved attempt,
with different answers; within one window `pendingGradeRecords` keeps the answer fixed for retries. An
archive is the schedule reviews and the edits it reflects, each edit with its own identity.

Abstractions, and why they are harmless:

* `StartSession` joins the capture of an owner and the first save. `captureAttemptOwner` reads two documents
  and double-checks; what happens between its reads is in `InviteRegistration` (`CapturedOneOwner`).
* `abort` during a commit takes effect after it: `enqueueSessionPersistence` puts the window's clear behind
  its commit, and the epoch guard keeps the old commit from touching the new programme's memory.
* Legacy migrations and the caps of 128 routes and of recovery profiles are left out; drafts and archive sync
  have modules of their own.

### SessionDrafts and the code

`stored` is the stored programme as far as one part of it goes: its answer draft and its
self-assessment draft with their revisions, whether it is graded, and whether it is the part on the
screen. Each window has a copy (`memory`), a `queue` (`sessionPersistenceTail`), the `result` of the save
that runs, and a `view` (`answerDraftSaveBusy`, `answerDraftSaveError`, `selfAssessmentDraftDurable`,
PartPlayer's phase). `Type` is `saveAnswerDraft` up to its queueing, with the pipeline that keeps
only the latest waiting draft; `Assess`, `Persist`, `Jump`, `Grade`, `Restore`, `Close` are the others. `RunSave`,
`RunSelf`, `RunGrade` are `commitSessionSnapshot` and its two variants: they merge with what is stored
(`MergeAnswer`, `MergeSelf`), refuse, or write; a write may fail, or apply with its reply lost. The `Take...` actions
are what the window does with the result, adoption into memory included. Left out: drafts of other
parts, ending the programme, the closed review, and the records a grade writes elsewhere (`GradeCommit`).

### InviteRegistration and the code

`intent` is the reservation (`registration-journal.ts`), `auth` the stored login, `win` each window's
published session, profile and locks, `job` its two tasks: an account action (redeem, login, logout,
start-up) and the refresh after another window's change. The later of the two owns the transition; the
other notices at its next check. A step is what a task does up to its next durable operation, so the steps of
`redeem` are: reserve, send, answer, mark redeemed, store and verify the login, claim the guest, move the queue,
finish the claim, complete the reservation, publish. `Fault` is a dying window or a rejected storage call;
both may come at any step, and `Boot` carries on from what is stored. The server accepts an id once. Left out:
changing the server, expiring tokens, the archive reconciliation after a login, legacy documents, a second
form while a superseded one waits, an account window's capture.

### ArchiveSync and the code

The content of an archive is the set of edits it reflects. `local` is the archive of the account on this device
with its base version, `journal` the unanswered mutations, `task` the round a window runs:
replay the journal, calibrate, load, assess, send, wait, acknowledge. `conflict` and `choice` are the two dialogs,
`login` the pending reconciliation. The server is external: `server`, `receipts` (its idempotency table,
`types.ts:269-272`) and `net`, the requests under way. It merges entry by entry, the later stamp wins, equal
stamps with different data are a conflict, as `e2e-live.spec.ts:56-118` expects of it. `GiveUp`
is a request that times out while the server may still serve it; `Restart` a window that loses its task.
`recovery` is what a window's recovery timer will do: a failure that may pass, an archive that changed too often and a start
of the app leave a recovery `due` (`scheduleCloudRecovery`, `installCloudRecovery`); a permanent refusal leaves an `error` and
no timer; a round that ends well resets it; and `setGrading` and `setStarred`, which are `EditLocally`, arm nothing. Timers may
also fire when nothing is due (`Recover` has no such guard), since the network and a wake of the device start them at once.
`RemoteWrite` is another device. Checksums and fingerprints are equality of contents.

### AiCache, AiAnswers and the code

`AiCache` has a row per route (a cache key: account, payer, model, settings and question), an epoch per account,
and the tasks that set, clear and prune, each a loop of reads and commits. `AiAnswers` adds the windows:
`memory` (`explainCache`, `assessCache`), the request under way, the replacement offered, the notices of other windows' clears,
and the `journal` of request generations. `charged` is external: a provider charges an identity once. The offer to pay again
is a bare generation in the code (`learningRenewGeneration`, `PracticeView.vue:514`), kept over changes of payer, model and
settings and used for whatever request the window would send then; `Replace` does that. The route in `offered` and the field
`after` of an identity only remember which loss was shown.
Merged, soundly, since nothing others see lies between them: identity with asking, memory with cache lookup, token
with sending, receiving with the start of storing, a refused commit with the reread.

### CoreSupervisor and the code

The variables carry the names of the fields: `generation`, `process`, `endpoint`, `startPromise`, `intentionalStop`,
`restartAttempt`, `stableTimer`. `tasks` are the startups and recoveries, each at one of its awaits; `children` every
core process launched; `command` the lifecycle command that `runLifecycle` serves. `ChildExits` runs the exit
listener, `HandleExit` the decision to recover. A stop may find that the child survives SIGTERM and SIGKILL.

### ResumableDownload and the code

A byte is the content it comes from and its position. `journal`, `part`, `ready` are what is on disk, `stage` the task
in memory; `part.synced` is how much of the file a crash leaves, the rest being any prefix of what was written with a tail of
junk. The server may change the content behind a name, ignore a range, omit a validator, end a body early
or send too much. `Crash` may come at any step, in the middle of a discard too, which removes its files one by one.

### UpdateCoordinator and the code

`pending` and `journal` are the two durable records, `m` the coordinator's memory (phase, flags, the cache lock, the running
download, the control in progress), `calls` the learner's call and the automatic resume. An action is what one task
does between two awaits. `intent` and `failures` are history: what the learner last asked for, and failures on record since.
`Reads` is `readJournal`: the journal as it is, or none, in which case the file is set aside or, if that fails too, stays. A
cancel is two durable steps, `CancelDiscards` and `CancelDone`, with a crash, a failure or a reader between, and
`ClearPending` is a clear that may fail without a word. `Recall` and `OnRecord` keep the history honest: a stop whose
record is lost becomes `forgotten`, and failures whose journal is lost count no more.

## 3. Runs

| Run | Instance | States | Checks |
|---|---|---|---|
| `atomic_storage` | 2 renderers, 2 addresses (one session-only), 1 value, revisions to 3 | 28,633 | `StoreTypeOK`, `SnapshotCurrent`, `RevisionTellsWrites`, `KeepsPromise` |
| `grade_commit` | 1 answer, 2 windows, 1 account, 3 guest profiles, 3 generations, 2 tries, 1 lost reply, 1 edit, 1 deletion | 2,610,787 | `TypeOK`, `SnapshotsCoherent`, `ReviewedOnce`, `NoEditLost`, `NeverStranded`, `SameAnswer`, `OneOwner`, `AnswersAreFinal`, `KeepsLedger` |
| `grade_pair` | 2 answers of one programme, a second programme, 2 windows, no account, 3 tries, 2 lost replies, 2 edits, 1 deletion | 2,067,349 | `NoEditLost` |
| `grade_lost` | the instance of `grade_commit` | violated at depth 12 | `AnswerCountedOnce` |
| `session_drafts` | 2 windows, 3 texts, 1 failed or unconfirmed save, 2 hints or jumps, 1 restore | 4,544,889 | `ReportedIsStored`, `LateSavesYield` |
| `registration` | 2 windows, 2 accounts, 4 guests, 2 account actions, 1 mishap | 2,959,071 | `TypeOK`, `CapturedOneOwner`, `RedeemedIsKept` |
| `archive_sync` | 2 windows, 1 local and 1 remote edit, 2 tries, 2 lost or late answers or restarts | 613,027 | `TypeOK`, `NoLocalEditLost`, `NoCloudEditLost`, `RecoveryUploads` |
| `archive_choice` | 1 window, 2 local edits and 1 remote, 3 decisions of the learner, 1 fault | 149,475 | `AppliedOnce`, `NoUploadBeforeChoice` |
| `ai_answers` | 2 windows, 3 routes of 2 accounts, a cache of 1 per account, 3 requests, 1 clear, 1 failure or prune, 4 acts | 2,370,296 | `TypeOK`, `ClearedStaysCleared`, `PaidOnce`, `PaidIsKept` |
| `core_supervisor` | 3 lifecycle commands, 2 crashes, 1 automatic restart, 2 bind attempts | 593,249 | `TypeOK`, `PublishedIsCurrent`, `CommandsReturn` |
| `resumable_download` | 3 contents of sizes 3, 3 and 4 | 6,598 | `TypeOK`, `BytesInPlace`, `CheckpointIsDurable`, `StageEnds` |
| `update_coordinator` | 2 releases, a budget of 3 attempts, 2 retries per run, 1 restart | 496,958 | `TypeOK`, `AutoNeedsIntent`, `BudgetHolds`, `CallsReturn` |

What they say:

* `SnapshotCurrent`: a revision that still matches vouches for the value read with it. No delete and
  rewrite, clear, quarantine or restart defeats the comparison. `KeepsPromise`: what `ports/index.ts` promises
  of `commitBatch` holds, whatever the reply says.
* `SnapshotsCoherent`: the six addresses of a commit cover everything `prepare` looked at, so a commit
  that applies writes what it would prepare at that moment, for the profile and queue that own the answer
  at that moment.
* `ReviewedOnce`: a recorded answer has advanced the schedule of one archive once, after any number of
  retries and lost replies, in the archive to which a claim has moved it. It excludes answers whose
  stored session was deleted or replaced; those are the subject of the finding.
* `NoEditLost`: no archive edit disappears under a commit, a claim or another edit. `NeverStranded`: a recorded
  answer is in its owner's queue, or at the server, or still in the guest queue, and then its own claim is pending unless
  the mover of another guest of the same account has finished it; that exception is the code's (see the observations), and
  nothing else leaves a row behind a claim that is over. `SameAnswer`,
  `OneOwner`, `AnswersAreFinal`: history, queue and session agree; archive and queue belong to the same owner;
  what was reported as recorded stays recorded. `KeepsLedger`: together they implement `AnswerLedger`, so the
  server never receives an answer under an account that does not own it.
* `ReportedIsStored`: a draft that its pipeline reports as saved, and an assessment shown as saved, is
  stored, or has given way to a grade or to another window. `LateSavesYield`: a save from older memory brings back
  neither a draft over a grade, nor the draft of another window over its newer one.
* `CapturedOneOwner`: the two readings of `captureAttemptOwner` never mix a profile and a generation that
  parted between them. `RedeemedIsKept`: the record of a redeemed invitation outlives every crash until
  its guest is claimed or set aside.
* `NoLocalEditLost`, `NoCloudEditLost`: neither side of a sync overwrites what it did not know. `AppliedOnce`,
  `NoUploadBeforeChoice`: a repeated upload keeps its identity, and nothing is uploaded past the learner's choice.
  `RecoveryUploads`: what the device holds while a recovery is due reaches the cloud or is given up, or the learner sees a
  dialog or an error, or a window stays closed. It promises nothing for an edit made while no timer is armed.
* `ClearedStaysCleared`, `PaidOnce`, `PaidIsKept`: a late store does not revive a cleared answer; windows agree on the
  identity of each paid generation and pay for a next one only where a loss of the generation before was shown in the same
  account (of the same request, unless payer, model or settings changed meanwhile, see the observations); a readable answer is
  deleted only if newer answers to as many other requests as the cache keeps were stored since the last clear.
* `PublishedIsCurrent`: a published address is that of the live core of the current generation. `CommandsReturn`: no
  lifecycle command waits for ever.
* `BytesInPlace`, `CheckpointIsDurable`, `StageEnds`: a resumed file is one release's; a crash costs only what
  came after the checkpoint; a stage ends.
* `AutoNeedsIntent`, `BudgetHolds`, `CallsReturn`: timers respect a pause or cancel across restarts as long as it is on
  record, and within one run of the app also when it is not; two durable counters hold one budget of attempts, counted anew
  once a journal is lost or missed; every request of the learner returns.

### Bounds

* `GradeCommit`: three guest identities give two rotations, claims or quarantines, with answers given before, between
  and after them, so that the mover of the first claim meets the second. `MCInit` names the first guest and generation:
  fresh identities are interchangeable. Two windows suffice for each race named above, since each
  involves one commit and one other writer. At two tries (of 6 in the code) a first try, a retry and
  exhaustion occur. `grade_pair` leaves claims out and spends its states on a second attempt and programme.
* `SessionDrafts`: with three texts a pipeline runs one, keeps one and drops one while the other
  window saves. Also checked outside the listed run: four texts with one hint; two restores without
  faults; one window with six texts, two hints, one fault and one restore. No other result appeared.
* `InviteRegistration`: two actions put every pair of account actions and refreshes beside each other, with a
  mishap between any two steps; four guests are enough for two rotations.
* `ArchiveSync`: every race is between one edit of each side and one round. `AppliedOnce` is stated for one window,
  see section 4.
* `AiAnswers`: the third route, of the same account, makes the cache of one overflow.
* `CoreSupervisor`: the limits are 1 restart of 3 and 2 bind attempts of 8, each with the exhaustion that ends it.
* `UpdateCoordinator`: the retry limit of a run stays below the budget as in the code (4 and 8).
* `ResumableDownload` is finite without bounds.

Deadlock is checked in `atomic_storage` only. Elsewhere identities, actions and faults are finite and a learner
may stop, or the program may have been closed.

### Fairness

Liveness is stated where the code has a bounded wait behind every await:

* `ArchiveSync`: a recovery that is due fires (`setTimeout`, and `scheduleCloudRecovery` after a run that failed), tasks go on,
  and the server serves what reaches it. No round is owed after an edit, a success or a permanent error. The learner and
  faults are not fair and are bounded: a network that fails for ever delivers nothing. The second fault of `archive_sync` is
  a recovery that fails too.
* `CoreSupervisor`: verification, port probes, the health deadline (20 s), the stop timeouts (2 s and 1 s) and back-offs are
  timers, so a step of a command or a startup happens in the end. A core need never exit by itself.
* `ResumableDownload`: a body that is idle ends after 30 s and a stage makes two requests at most.
* `UpdateCoordinator`: downloads, checks, resumes, cache work and controls go on; the learner, the timers, the feed and
  the installer owe nothing.

All are weak fairness of steps that stay enabled. The other modules assume none and claim no liveness.

### Finding

`grade_lost` shows that `AnswerCountedOnce` does not hold although `local-grade-commit.ts:157` and
`practice.ts:2535` say so. A commit is applied and its reply lost. Before the confirmation reads, another window
opens the same programme, finds it complete (`hydratePersistedSession`, `practice.ts:3251`) or aborts it,
and deletes the stored session. `confirmFromSnapshots` requires the marker in the session, finds none and
returns `undefined`; `prepare` accepts the identical history row, computes a second review from the advanced
archive and commits it. The learner gave one answer and FSRS has two. `ReviewedOnce`, which excludes
exactly these attempts, is checked and proved.

### Properties the code does not keep

These are stated in the modules, were violated when checked, and belong to no run. Each is a trace of the model that was
read back against the code.

* **Drafts** (`TypedStaysStored`). One window, nothing fails. A hint save is in flight; three texts
  are typed and the third waits in the pipeline at revision 3; a second hint save is queued, which carries it. The
  first hint save returns, and `persistSession` adopts what it committed (`practice.ts:1842`), which takes the revision in
  memory back to 0. Two more texts get revisions 1 and 2 and are saved, so the view shows the last as
  saved. Then the second hint save runs: `mergeAnswerDraft` takes the higher revision, 3, and the older text
  overwrites the newer. `practice-session-persistence.spec.ts:1188` promises that a burst "persists only the latest text".
* **Core** (`OneCore`). `core-supervisor.ts:670`: "never launch a second Core beside an unconfirmed one". A restart
  that cannot kill the core keeps its handle and throws; the next `getEndpoint` starts another, since `ensureStarted` (340)
  never looks at the handle. A startup that waits for its port (391) while a restart supersedes it also launches its child.
* **AI cache** (`CacheStaysFull`). One could expect that a prune never leaves fewer answers than the limit, here 1. A window
  waits to store its answer to b, dated when `set` was called (`ai-cache.ts:234`). Another stores an answer to a, then a newer
  answer to b, and its prune (411-415) decides to delete a. Now the late `set` overwrites b with its older answer, and its prune decides to
  delete b. Both deletions run and nothing is left. The statement that does hold is `PaidIsKept`.
* **Registration** (`RedeemedNotQuarantined`; comment at `auth.ts:687`). A window reads the reservation as
  reserved, another marks it redeemed, the first quarantines its guest (`auth.ts:692`).

Smaller observations from modelling, at their lines:

* Drafts: a saved assessment whose part is not on the screen makes every later restore fail, since
  `hydratePersistedSession` drops the draft and keeps its revision (`practice.ts:3238-3242`), and the merge refuses
  equal revisions with different drafts (1536). After an adoption one window alone can get "changed in another
  window" (1591); a retry heals it. A failed save leaves the revision in memory ahead, so that a later one overwrites
  another window's draft. An assessment whose confirmation is lost leaves memory one revision behind: further
  saves and the grade refuse until a save adopts. A window that adopts another's grade keeps
  its question open, and typing fails for ever. A hint save that fails takes a newer draft out of memory, though it is stored.
* Registration: a crash between the quarantine for a second invitation and the release of its reservation leads to a
  redeemed reservation of a quarantined guest, whose claim always throws. A refused answer can release the reservation of another
  window's request with the same id. `activateProfileForAuth` (`progress.ts:787`) can claim the next guest after
  another window finished the claim. A logout that a refresh supersedes does not re-check before clearing the login.
* Hand-over: `finishGuestClaim` (`attempt-outbox.ts:1198`) compares the account only. Two windows move the rows of a claimed guest;
  one finishes, the next guest answers and is claimed for the same account, and the other window's finish clears this claim
  before its rows are moved. They stay in the guest queue: `recoverGuestAttemptClaim` (`progress.ts:1144`) finds nothing pending.
* Sync: an edit of `setGrading` or `setStarred` (`progress.ts:1229-1258`) starts no sync, so on an idle device it waits for the
  next answers, session end, start, wake or reconnection. A refresh of the login cancels the recovery timer (`auth.ts:245`, 390), and
  `resumeCloudRecovery` (193-199) arms it again only for work it knows is pending: one that comes before the recovery
  of a start has fired drops that recovery, with what an earlier run left in the mutation journal.
* AI: the offer to pay again is not bound to a request. A window is told that generation 0 of a request is gone; another window
  changes payer, model or settings; the learner pays again, and `explain` recomputes the request (`ai.ts:1374-1389`). A
  missing row accepts generation 0 (journal 113-119) and a row at 0 moves to 1, so that generation 1 of a request is paid whose own
  answer was not lost, and may just be under way in the other window: two payments. `ai.ts:113` speaks of "the previous receipt".
* AI: an `explain` that begins reading between `beginCacheClear` and the commit of the epoch keeps the old answer in
  memory (`ai.ts:1250-1253`). The legacy import can overwrite a newer answer (`ai-cache.ts:193`). `testCredential`
  reads the journal twice, and a second window may pay again (`ai.ts:575-594`).
* Updates: a cancel empties the cache and then clears the intent (`update-coordinator.ts:372-373`). After a crash between the
  two, or a clear that fails silently (`update-recovery-journal.ts:143-149`), the next start finds an intent and no journal, and downloads what the learner
  has cancelled. A journal that cannot be read is set aside (`resumable-downloader.ts:684-691`), its pause and its counter with it, and the
  resume goes on, although `update-storage-maintenance.ts:27` takes care not to touch such a file.
* Updates: an unknown failure needs "an explicit retry" (`update-error-policy.ts:284`), which only the self-update loop keeps. An
  install that meets a recovery's inspection takes BUSY for a broken file (`update-coordinator.ts:956-979`). After a
  restart and a cancel, the offered release cannot be applied until a check (379).

## 4. Proofs

All proofs but `OneWindowAppliesOnce` hold for any number of windows, and all for any number of attempts, programmes, accounts, guests, routes, releases and texts and for any
bound. They assume only what the modules state: distinct constants, values that are no records, every attempt of one session, bounds that are natural
numbers, sizes that are positive, and fewer retries in one run of a download than its budget has (4 of 8).

`StoreAndRegistration_proofs`, first part, on `AtomicStorage`: the invariant `Safe` joins `StoreTypeOK` and `SnapshotCurrent`. Every write goes through
`Write`, so the step lemmas speak of a write to a set of addresses (`WriteSafe`) and of dropping a
snapshot (`ForgetSafe`); `Restart` is safe because it drops all snapshots. `StorePromise` maps each
action to an action of `SnapshotStore`. The heart is `StaleAfterWrite`: after a write, the addresses whose
revisions differ are exactly those that differed before plus those just written and read.

`GradeCommit_proofs`: none of the properties is inductive alone, so `Inductive` proves `IInv`:

* `OwnershipInv`, `CaptureInv`: the current guest is unclaimed, and a programme's captured profile and generation
  share their fate. This gives `OneOwner`.
* `DocumentInv`, `WindowInv`: stored and shown programmes grade only their own attempts; a window at work is
  inside its programme and its limits.
* `AnswerInv`: every copy of an answer equals the history row. Gives `SameAnswer` and `Finality`.
* `MarkerInv`: while the session was not deleted it carries the marker of each recorded answer. This is why a
  retry recognises its own commit, and what the finding breaks.
* `ArchiveInv`, `QueueInv`: a recorded answer has its archive, and its row is where routing says, at the server, or in the guest
  queue; what a mover has listed is the recorded answer and its owner.
* `LeftBehindInv`: a guest row whose generation is routed has its claim pending or overtaken, for a mover
  that finishes has no row of its own generation left. With `QueueInv` it gives `NeverStranded`.
* `SnapshotsCoherent`: with no stale address nothing that `prepare` reads has changed (`SameView`). It is what
  makes the effect of an applied commit known, on which all the others rest.
* `ReviewedOnce`: by `SnapshotsCoherent`, a commit that applies finds the answer unrecorded.

Each has one lemma of the form `IInv /\ [Next]_vars => Part'`, with a step per action that disturbs it.
`EditsKept` proves `NoEditLost`: an edit is in the archive it was made to or in the one that archive was merged into.
`LedgerKept` maps each step to `AnswerLedger`, using `QueueInv` for deliveries.

`StoreAndRegistration_proofs`, second part, on `InviteRegistration`: one inductive invariant `IInv`, preserved by one lemma per
action. What a stage of a task has in hand (`JobOK`) was true when the stage began; it stays true because
reservations, accepted invitations, routes and generations only accumulate (`Facts`, `Grows`), whatever the other windows do in
between. `RedeemedIsKept` then rests on two facts: an account owns a guest only if that guest was reserved for the one
invitation the server accepted for it (`Founded`), so a claim that a task finds already done is the reserved one; and a
guest is released only by the set-aside or the completion that the same task saw through. For `CapturedOneOwner`,
the guest profile and the claim's generation rotate together and neither comes back (`CaptureOK`), so a window that captured
both is refused by `stage` or still holds the owner it captured.

`SessionDrafts_proofs`: a step acts in one window and the others see only its `Outcome` for the stored programme. What a
window holds for a later save is no newer than what is stored unless the window typed it (`Carried`), so a late save changes the
answer only to the saver's own text (`LateSavesAreHarmless`). A result is what is stored or has been replaced by another
window (`ResultOK`), assessments are saved in order and none waits while one is shown as saved (`PicksOK`), and a window
knows the stored assessment if it is its own (`SelfKnown`); hence `ReportsAreTrue`.

`ResumableDownload_proofs`: `RInv` says how journal, partial file and stage agree: the file is as long as
what was written while a body is received (`Receiving`), was cut to its checkpoint before the request (`Positions`), and
what the journal counts is durable and of one content (`Durable`). Gives `BytesNeverMix`, `CheckpointsAreDurable`.

`ArchiveSync_proofs`: a state that overwrites an archive may come from a task that read long ago, from the journal, from the net or
from a dialog left open, so what must hold of the archives must hold of all of these. A base version never claims more than the
content holds: who carries base version v carries every cloud edit up to v (`Knows`), and local edits are known by whoever is newer in
the same window (`Honest`, `Answers`). From this `LocalEditsKept`, `CloudEditsKept` and `BaseVersionHonest` follow; `Reconciled`
says that an upload while a choice is due belongs to the learner's choice, which gives `ChoiceBeforeUpload`.

`OneWindowAppliesOnce`, in the same module, proves `AppliedOnce` for a device with one window; with two it is
false: the second may still hold the archive it read before the first's upload was answered, and uploads it again
under a new identity, which merges to itself. A round looks at the server's state only
with an empty journal (`Emptied`), so an upload is older than all that waits, and every answer taken over raises the base above
all uploads so far (`AnswerIsBeyond`). Once an upload is answered the archive has left what it was made from, and what is offered to
the learner is newer (`Left`, `Newer`); so it can never be made again.

`AiAnswers_proofs`: identities come from the journal (`IssuedOK`), and the journal moves only from a loss that the window was
shown in the account it still has (`OfferedOK`, `Bought`), which gives `LossesReplacedOnce`. Every answer on its way carries the epoch of its question or an older one, and
a stale epoch makes its commit fail (`ClearsAreFinal`). For `PrunesOnlyExcess`, `WorkOK` says of each planned deletion that enough
newer answers were stored in the epoch of its plan (`ExcessIsOld`); the attempt to prove the stronger `CacheStaysFull`
is what showed it false. `TypeCorrect` counts the clears that have not yet reached the cache, which keeps the epochs in their range; that the
counted sets are finite is part of the invariant, not an assumption.

`CoreSupervisor_proofs`: generations are not reused, so no two tasks carry the current one (`InOrder`); a child carries the
generation of the startup that launched it (`ChildrenOwned`); and between a stop and the next startup no task has
the current generation (`Retired`). Hence whoever passes the comparison before publishing is the startup of the current child,
and only that child's address is published (`OnlyTheCurrentIsPublished`), for any number of commands, crashes and
retries. It says nothing of how many cores run, which is where `OneCore` fails.

`UpdateCoordinator_proofs`: `LockInv` says which operation holds the coordinator and its cache, and `DownloadInv` that a running
download has its intent. After a pause or a cancel that is on record nothing is left that could be resumed (`AtRest`) and no
call is about to begin a download (`StopInv`), also after a restart; where the record failed, or a damaged journal was set
aside, the memory of the process still holds the stop until it ends (`PauseInv`). Together they give `StopsAreRespected`. For
`BudgetIsKept` the two counters take turns: the journal counts every failure where a package is opened by hand
(`JournalCounts`; a journal that is set aside takes its count with it), the intent where the updater downloads
(`PendingCounts`), and a resume that waits for a check began while there was room (`AutoApplies`). The updater's loop compares
with the budget only in an automatic run; a run that the learner asked for is limited by its delays alone, so the proof
needs that one run cannot spend the budget.

Every safety property that a passing run checks is proved. Only model-checked: the violation of `AnswerCountedOnce`, and liveness
under fairness (`RecoveryUploads`, `CommandsReturn`, `StageEnds`, `CallsReturn`), which is out of the prover's reach.

## 5. Not modelled, and what is next

Not modelled: the delays of the recovery timers, the events that hurry them and what cancels them, the credential
test journal, AI preferences, local recovery export, compaction of the history log, learning events, the question and
configuration stores, FSRS arithmetic, answer grading, HTTP clients, the Electron shell, and the views apart from the drafts and AI help of
`PracticeView.vue`. Most of them hold no state that two actors share, or compute with strings and floating-point
numbers.

Next, in this order:

1. The recovery timers with what cancels them: refreshes of the login and account switches.
2. Drafts of several parts, ending a programme and the closed review, in `SessionDrafts`.
3. The credential-test journal beside `AiAnswers`.
4. History compaction and the merge of sessions as functions against reference definitions.
