---------------------------- MODULE GradeCommit ----------------------------
(***************************************************************************)
(* Recording one answer (LocalGradeCommitStore.commit, called by           *)
(* practice.ts recordGraded through progress.ts commitGradeEvent).  Four   *)
(* durable documents change together: the FSRS archive, the history row,   *)
(* the upload row and the practice session.  Windows share them without a  *)
(* lock; each commit takes a snapshot of six addresses and applies only    *)
(* while none of them has been written since (the promise of               *)
(* SnapshotStore, which AtomicStorage implements).  Meanwhile the guest's  *)
(* work can be claimed or quarantined, rows are moved and uploaded,        *)
(* answers to commits are lost and windows die.                            *)
(***************************************************************************)
EXTENDS GuestOwnership, Integers

CONSTANTS Window,     \* renderer lifetimes; a restarted renderer is a new one
          Attempt,    \* clientAttemptIds, reserved by the items of a session
          Session,    \* practice sessions (programmes)
          SessionOf,  \* the session that reserved an attempt
          MaxTries,   \* MAX_CAS_ATTEMPTS
          MaxLost,    \* bound: commits that answer with an error
          MaxEdits,   \* bound: archive writes other than answers
          MaxClears   \* bound: sessions deleted from storage

ASSUME SessionOfAssumption == SessionOf \in [Attempt -> Session]
ASSUME BoundsAssumption ==
    /\ MaxTries \in Nat \ {0}
    /\ MaxLost \in Nat /\ MaxEdits \in Nat /\ MaxClears \in Nat
ASSUME NoneAssumption == None \notin Window \cup Session \cup Attempt

VARIABLES archive,   \* per profile, None or its FSRS state
          history,   \* the history row of an attempt
          outbox,    \* per owner, the rows waiting for upload
          document,  \* per captured profile, the stored practice session
          captured,  \* the AttemptOwnerSnapshot a session started with
          delivered  \* accounts under which the server has filed an attempt

VARIABLES open,      \* the session a window has loaded
          memory,    \* its in-memory graded list
          pc,        \* where its commit stands
          attempt,   \* the attempt being committed
          tries,     \* iterations of the commit loop
          route,     \* archive profile and queue owner of the preview read
          batch,     \* the mutations prepared from the snapshot
          stale      \* snapshot addresses written since the snapshot

VARIABLES listed,    \* guest rows in the list of some mover, and where it takes them
          overtaken  \* generations whose claim the mover of another one finished

VARIABLES told,      \* attempts whose result was shown as recorded
          dropped,   \* attempts whose stored session marker was deleted
          edited, lost, clears

storageVars == <<archive, history, outbox, document>>
programVars == <<captured, open, memory>>
commitVars == <<pc, attempt, tries, route, batch>>
moverVars == <<listed, overtaken>>
countVars == <<edited, lost, clears>>
vars == <<ownershipVars, storageVars, programVars, delivered, commitVars, stale,
          told, dropped, moverVars, countVars>>

Owner == User \cup {GuestOwner, Ambiguous}
Graded == [Attempt -> Window \cup {None}]
Archive == [reviews : [Attempt -> Nat], edits : SUBSET Nat]
Document == [session : Session, graded : Graded]
Capture == [owner : User \cup {GuestOwner}, profile : Profile,
            generation : Generation \cup {None}]
Move == [row : Window, owner : Destination]
ASSUME NoneIsNoRecord == None \notin Archive \cup Document \cup Capture \cup Move

Ungraded == [a \in Attempt |-> None]
EmptyArchive == [reviews |-> [a \in Attempt |-> 0], edits |-> {}]
NoRoute == [profile |-> None, owner |-> None]
NoBatch == [archive |-> EmptyArchive, graded |-> Ungraded, writes |-> {}]

-----------------------------------------------------------------------------
(* The storage addresses of a commit.                                       *)
ArchiveOf(p) == <<"archive", p>>
HistoryOf(a) == <<"history", a>>
RowOf(o, a) == <<"outbox", o, a>>
SessionKey(p) == <<"session", p>>
Claims == <<"claims">>
Profiles == <<"profiles">>

Address ==
    {ArchiveOf(p) : p \in Profile} \cup {HistoryOf(a) : a \in Attempt}
    \cup {RowOf(o, a) : o \in Owner, a \in Attempt}
    \cup {SessionKey(p) : p \in Profile} \cup {Claims, Profiles}

ProfileOf(a) == captured[SessionOf[a]].profile

(* Where an attempt belongs now: the queue of its captured owner and the    *)
(* archive of its captured profile, both after claims.                      *)
OwnerNow(s) ==
    IF captured[s].owner = GuestOwner THEN ResolveGeneration(captured[s].generation)
                                      ELSE captured[s].owner
RouteNow(s) == [profile |-> ResolveProfile(captured[s].profile), owner |-> OwnerNow(s)]

(* Faulty variants: a snapshot that leaves out an address.                  *)
ReadSetWithoutOwners(w) ==
    {ArchiveOf(route[w].profile), HistoryOf(attempt[w]),
     RowOf(route[w].owner, attempt[w]), SessionKey(ProfileOf(attempt[w]))}
ReadSetWithoutArchive(w) ==
    {HistoryOf(attempt[w]), RowOf(route[w].owner, attempt[w]), Claims, Profiles,
     SessionKey(ProfileOf(attempt[w]))}

(* readBatch(addresses) in commit.                                          *)
ReadSet(w) ==
    {ArchiveOf(route[w].profile), HistoryOf(attempt[w]),
     RowOf(route[w].owner, attempt[w]), Claims, Profiles,
     SessionKey(ProfileOf(attempt[w]))}

(* A write to the addresses of A makes them stale in every open snapshot.   *)
Outdated(A) ==
    [w \in Window |-> IF pc[w] = "commit" THEN stale[w] \cup (A \cap ReadSet(w))
                                          ELSE stale[w]]
Touch(A) == stale' = Outdated(A)

Marker(a) ==
    IF document[ProfileOf(a)] = None THEN None ELSE document[ProfileOf(a)].graded[a]

(* mergeSessionGradeRecords: what is stored wins over what is offered.      *)
Merged(stored, offered) ==
    [a \in Attempt |-> IF stored[a] # None THEN stored[a] ELSE offered[a]]

TypeOK ==
    /\ OwnershipTypeOK
    /\ archive \in [Profile -> Archive \cup {None}]
    /\ history \in Graded
    /\ outbox \in [Owner -> Graded]
    /\ document \in [Profile -> Document \cup {None}]
    /\ captured \in [Session -> Capture \cup {None}]
    /\ delivered \in [Attempt -> SUBSET User]
    /\ open \in [Window -> Session \cup {None}]
    /\ memory \in [Window -> Graded]
    /\ pc \in [Window -> {"idle", "preview", "read", "commit", "confirm", "threw", "dead"}]
    /\ attempt \in [Window -> Attempt \cup {None}]
    /\ tries \in [Window -> 0..MaxTries]
    /\ route \in [Window -> [profile : Profile, owner : Owner] \cup {NoRoute}]
    /\ batch \in [Window -> [archive : Archive, graded : Graded, writes : SUBSET Address]]
    /\ stale \in [Window -> SUBSET Address]
    /\ listed \in [Attempt -> Move \cup {None}]
    /\ overtaken \in SUBSET Generation
    /\ told \in SUBSET Attempt
    /\ dropped \in SUBSET Attempt
    /\ edited \in Nat /\ lost \in Nat /\ clears \in Nat

Init ==
    /\ OwnershipInit
    /\ archive = [p \in Profile |-> None]
    /\ history = Ungraded
    /\ outbox = [o \in Owner |-> Ungraded]
    /\ document = [p \in Profile |-> None]
    /\ captured = [s \in Session |-> None]
    /\ delivered = [a \in Attempt |-> {}]
    /\ open = [w \in Window |-> None]
    /\ memory = [w \in Window |-> Ungraded]
    /\ pc = [w \in Window |-> "idle"]
    /\ attempt = [w \in Window |-> None]
    /\ tries = [w \in Window |-> 0]
    /\ route = [w \in Window |-> NoRoute]
    /\ batch = [w \in Window |-> NoBatch]
    /\ stale = [w \in Window |-> {}]
    /\ listed = [a \in Attempt |-> None]
    /\ overtaken = {}
    /\ told = {}
    /\ dropped = {}
    /\ edited = 0 /\ lost = 0 /\ clears = 0

-----------------------------------------------------------------------------
(* Sessions.                                                                *)

(* captureAttemptOwner: a guest session fixes the current guest profile and *)
(* generation together, an account's session its own profile.               *)
CaptureOf(o) ==
    IF o = GuestOwner THEN [owner |-> o, profile |-> guest, generation |-> generation]
                      ELSE [owner |-> o, profile |-> o, generation |-> None]

MarkersIn(p) ==
    IF document[p] = None THEN {} ELSE {a \in Attempt : document[p].graded[a] # None}

(* beginSession: new reserved attempts replace whatever programme the       *)
(* profile had stored; a failed save leaves the programme in memory only.   *)
StartSession(w, s, o) ==
    LET capture == CaptureOf(o)
    IN /\ pc[w] = "idle"
       /\ captured[s] = None
       /\ captured' = [captured EXCEPT ![s] = capture]
       /\ open' = [open EXCEPT ![w] = s]
       /\ memory' = [memory EXCEPT ![w] = Ungraded]
       /\ \/ /\ document' = [document EXCEPT ![capture.profile] =
                                [session |-> s, graded |-> Ungraded]]
             /\ dropped' = dropped \cup MarkersIn(capture.profile)
             /\ Touch({SessionKey(capture.profile)})
          \/ UNCHANGED <<document, dropped, stale>>
       /\ UNCHANGED <<ownershipVars, archive, history, outbox, delivered, commitVars,
                      told, moverVars, countVars>>

(* resumePersistedSession: load the stored programme and save it back.      *)
OpenSession(w, p) ==
    /\ pc[w] = "idle"
    /\ document[p] # None
    /\ open' = [open EXCEPT ![w] = document[p].session]
    /\ memory' = [memory EXCEPT ![w] = document[p].graded]
    /\ Touch({SessionKey(p)})
    /\ UNCHANGED <<ownershipVars, storageVars, captured, delivered, commitVars,
                   told, dropped, moverVars, countVars>>

(* persistSession merges the window's programme into the stored one, and    *)
(* writes it anew when it is gone; it never replaces another programme.     *)
SaveSession(w) ==
    LET p == captured[open[w]].profile
        graded == IF document[p] = None THEN memory[w]
                                        ELSE Merged(document[p].graded, memory[w])
    IN /\ pc[w] = "idle"
       /\ open[w] # None
       /\ document[p] # None => document[p].session = open[w]
       /\ document' = [document EXCEPT ![p] = [session |-> open[w], graded |-> graded]]
       /\ memory' = [memory EXCEPT ![w] = graded]
       /\ Touch({SessionKey(p)})
       /\ UNCHANGED <<ownershipVars, archive, history, outbox, captured, open, delivered,
                      commitVars, told, dropped, moverVars, countVars>>

(* clearPersistedSession, from abort and from the end of a session: only    *)
(* the window's own programme is deleted.                                   *)
ClearSession(w) ==
    LET p == captured[open[w]].profile
    IN /\ pc[w] = "idle"
       /\ open[w] # None
       /\ open' = [open EXCEPT ![w] = None]
       /\ memory' = [memory EXCEPT ![w] = Ungraded]
       /\ IF document[p] # None /\ document[p].session = open[w]
          THEN /\ clears < MaxClears
               /\ document' = [document EXCEPT ![p] = None]
               /\ dropped' = dropped \cup MarkersIn(p)
               /\ clears' = clears + 1
               /\ Touch({SessionKey(p)})
          ELSE UNCHANGED <<document, dropped, clears, stale>>
       /\ UNCHANGED <<ownershipVars, archive, history, outbox, captured, delivered,
                      commitVars, told, moverVars, edited, lost>>

-----------------------------------------------------------------------------
(* The commit loop.                                                         *)

Begin(w, a) ==
    /\ pc[w] = "idle"
    /\ open[w] = SessionOf[a]
    /\ memory[w][a] = None
    /\ pc' = [pc EXCEPT ![w] = "preview"]
    /\ attempt' = [attempt EXCEPT ![w] = a]
    /\ UNCHANGED <<ownershipVars, storageVars, programVars, delivered, tries, route, batch,
                   stale, told, dropped, moverVars, countVars>>

(* The preview read resolves both ownership maps.                           *)
Preview(w) ==
    /\ pc[w] = "preview"
    /\ pc' = [pc EXCEPT ![w] = "read"]
    /\ tries' = [tries EXCEPT ![w] = @ + 1]
    /\ route' = [route EXCEPT ![w] = RouteNow(SessionOf[attempt[w]])]
    /\ UNCHANGED <<ownershipVars, storageVars, programVars, delivered, attempt, batch,
                   stale, told, dropped, moverVars, countVars>>

(* Faulty variant: only another window's answer is recognised.              *)
OutcomeUnconfirmed(w) ==
    IF history[attempt[w]] # None /\ history[attempt[w]] # w THEN "foreign" ELSE "absent"

(* confirmFromSnapshots: is this answer, or another one, already recorded?  *)
Outcome(w) ==
    LET a == attempt[w]
        row == outbox[route[w].owner][a]
    IN CASE history[a] = None \/ Marker(a) = None     -> "absent"
         [] {history[a], Marker(a)} # {w}             -> "foreign"
         [] archive[route[w].profile] = None          -> "absent"
         [] row # None /\ (row # w \/ route[w].owner # OwnerNow(SessionOf[a])) -> "foreign"
         [] OTHER                                     -> "recorded"

(* The checks of prepare and of the session's own prepare callback.         *)
StoredGraded(w) ==
    IF document[ProfileOf(attempt[w])] = None THEN Ungraded
    ELSE document[ProfileOf(attempt[w])].graded

(* Faulty variant: prepare trusts the session and not the history row.      *)
PreparableAnyHistory(w) ==
    LET stored == document[ProfileOf(attempt[w])]
    IN /\ stored # None => stored.session = SessionOf[attempt[w]]
       /\ StoredGraded(w)[attempt[w]] \in {None, w}

Preparable(w) ==
    LET a == attempt[w]
        stored == document[ProfileOf(a)]
    IN /\ history[a] \in {None, w}
       /\ outbox[route[w].owner][a] \in {None, w}
       /\ stored # None => stored.session = SessionOf[a]
       /\ StoredGraded(w)[a] \in {None, w}

(* prepare: the archive advances by one review of this attempt, the session *)
(* gains its marker, and missing history and upload rows are written.       *)
Advanced(w) ==
    LET old == archive[route[w].profile]
        base == IF old = None THEN EmptyArchive ELSE old
    IN [base EXCEPT !.reviews[attempt[w]] = @ + 1]

(* Faulty variant: the window's own programme replaces the stored one.      *)
PrepareUnmerged(w) ==
    [archive |-> Advanced(w),
     graded  |-> [memory[w] EXCEPT ![attempt[w]] = w],
     writes  |-> {ArchiveOf(route[w].profile), SessionKey(ProfileOf(attempt[w])),
                  HistoryOf(attempt[w]), RowOf(route[w].owner, attempt[w])}]

Prepare(w) ==
    LET a == attempt[w]
    IN [archive |-> Advanced(w),
        graded  |-> Merged(StoredGraded(w), [memory[w] EXCEPT ![a] = w]),
        writes  |-> {ArchiveOf(route[w].profile), SessionKey(ProfileOf(a))}
                    \cup (IF history[a] = None THEN {HistoryOf(a)} ELSE {})
                    \cup (IF outbox[route[w].owner][a] = None
                          THEN {RowOf(route[w].owner, a)} ELSE {})]

(* The three ways a commit leaves its loop or goes round it.  A renderer    *)
(* only reports success after it has taken over the stored session.         *)
Finish(w, graded) ==
    /\ pc' = [pc EXCEPT ![w] = "idle"]
    /\ memory' = [memory EXCEPT ![w] = graded]
    /\ told' = told \cup {attempt[w]}
    /\ attempt' = [attempt EXCEPT ![w] = None]
    /\ tries' = [tries EXCEPT ![w] = 0]
    /\ route' = [route EXCEPT ![w] = NoRoute]
    /\ batch' = [batch EXCEPT ![w] = NoBatch]

Goto(w, l) ==
    /\ pc' = [pc EXCEPT ![w] = l]
    /\ batch' = [batch EXCEPT ![w] = NoBatch]
    /\ UNCHANGED <<memory, told, attempt, tries, route>>

(* Faulty variant: the loop is left one iteration late.                     *)
TryAgainLate(w) == Goto(w, IF tries[w] <= MaxTries THEN "preview" ELSE "threw")
TryAgain(w) == Goto(w, IF tries[w] < MaxTries THEN "preview" ELSE "threw")

(* The snapshot read: retry when ownership moved since the preview, stop    *)
(* when the answer is already recorded or clashes, else prepare the batch.  *)
Read(w) ==
    /\ pc[w] = "read"
    /\ IF route[w] # RouteNow(SessionOf[attempt[w]]) THEN TryAgain(w)
       ELSE CASE Outcome(w) = "recorded" -> Finish(w, StoredGraded(w))
              [] Outcome(w) = "foreign"  -> Goto(w, "threw")
              [] Outcome(w) = "absent" /\ ~Preparable(w) -> Goto(w, "threw")
              [] OTHER -> /\ pc' = [pc EXCEPT ![w] = "commit"]
                          /\ batch' = [batch EXCEPT ![w] = Prepare(w)]
                          /\ UNCHANGED <<memory, told, attempt, tries, route>>
    /\ UNCHANGED <<ownershipVars, storageVars, captured, open, delivered, stale, dropped,
                   moverVars, countVars>>

(* Faulty variant: the commit carries no preconditions.                     *)
RevisionsUnchecked(w) == TRUE
RevisionsMatch(w) == stale[w] = {}

ApplyBatch(w) ==
    LET a == attempt[w]
        p == ProfileOf(a)
        r == route[w]
    IN /\ archive' = [archive EXCEPT ![r.profile] = batch[w].archive]
       /\ document' = [document EXCEPT ![p] =
                          [session |-> SessionOf[a], graded |-> batch[w].graded]]
       /\ history' = IF HistoryOf(a) \in batch[w].writes
                     THEN [history EXCEPT ![a] = w] ELSE history
       /\ outbox' = IF RowOf(r.owner, a) \in batch[w].writes
                    THEN [outbox EXCEPT ![r.owner][a] = w] ELSE outbox
       /\ stale' = [Outdated(batch[w].writes) EXCEPT ![w] = {}]

CommitApplied(w) ==
    /\ pc[w] = "commit"
    /\ RevisionsMatch(w)
    /\ ApplyBatch(w)
    /\ Finish(w, batch[w].graded)
    /\ UNCHANGED <<ownershipVars, captured, open, delivered, dropped,
                   moverVars, countVars>>

CommitConflict(w) ==
    /\ pc[w] = "commit"
    /\ ~RevisionsMatch(w)
    /\ TryAgain(w)
    /\ stale' = [stale EXCEPT ![w] = {}]
    /\ UNCHANGED <<ownershipVars, storageVars, captured, open, delivered, dropped,
                   moverVars, countVars>>

(* The call rejects: the batch was applied and its answer lost, or it never *)
(* was applied.                                                             *)
CommitRejected(w) ==
    /\ pc[w] = "commit"
    /\ lost < MaxLost
    /\ lost' = lost + 1
    /\ \/ RevisionsMatch(w) /\ ApplyBatch(w)
       \/ /\ stale' = [stale EXCEPT ![w] = {}]
          /\ UNCHANGED storageVars
    /\ Goto(w, "confirm")
    /\ UNCHANGED <<ownershipVars, captured, open, delivered, dropped,
                   moverVars, edited, clears>>

(* Faulty variant: a rejected commit counts as recorded unless it clashes.  *)
ConfirmOptimistic(w) ==
    /\ pc[w] = "confirm"
    /\ IF Outcome(w) = "foreign" THEN Goto(w, "threw") ELSE Finish(w, StoredGraded(w))
    /\ UNCHANGED <<ownershipVars, storageVars, captured, open, delivered, stale, dropped,
                   moverVars, countVars>>

(* The confirmation read goes to the old addresses.  When it finds nothing, *)
(* or fails itself, the loop resolves the addresses once more.              *)
Confirm(w) ==
    /\ pc[w] = "confirm"
    /\ \/ Outcome(w) = "recorded" /\ Finish(w, StoredGraded(w))
       \/ Outcome(w) = "foreign" /\ Goto(w, "threw")
       \/ TryAgain(w)
    /\ UNCHANGED <<ownershipVars, storageVars, captured, open, delivered, stale, dropped,
                   moverVars, countVars>>

(* The catch of recordGraded: when the stored programme holds an answer to  *)
(* this attempt, whoever gave it, that answer is shown.  Otherwise the      *)
(* error is, and the learner may submit again.                              *)
Rethrow(w) ==
    /\ pc' = [pc EXCEPT ![w] = "idle"]
    /\ attempt' = [attempt EXCEPT ![w] = None]
    /\ tries' = [tries EXCEPT ![w] = 0]
    /\ route' = [route EXCEPT ![w] = NoRoute]
    /\ UNCHANGED <<memory, told, batch>>

Adopt(w) ==
    /\ pc[w] = "threw"
    /\ \/ /\ Marker(attempt[w]) # None
          /\ document[ProfileOf(attempt[w])].session = SessionOf[attempt[w]]
          /\ Finish(w, StoredGraded(w))
       \/ Rethrow(w)
    /\ UNCHANGED <<ownershipVars, storageVars, captured, open, delivered, stale, dropped,
                   moverVars, countVars>>

(* The window is closed or its process dies, at any point.                  *)
Crash(w) ==
    /\ pc[w] # "dead"
    /\ pc' = [pc EXCEPT ![w] = "dead"]
    /\ open' = [open EXCEPT ![w] = None]
    /\ memory' = [memory EXCEPT ![w] = Ungraded]
    /\ attempt' = [attempt EXCEPT ![w] = None]
    /\ tries' = [tries EXCEPT ![w] = 0]
    /\ route' = [route EXCEPT ![w] = NoRoute]
    /\ batch' = [batch EXCEPT ![w] = NoBatch]
    /\ stale' = [stale EXCEPT ![w] = {}]
    /\ UNCHANGED <<ownershipVars, storageVars, captured, delivered, told, dropped,
                   moverVars, countVars>>

-----------------------------------------------------------------------------
(* Everything else that writes these documents.                             *)

(* setGrading and setStarred, through mutateWithCas: a window edits the     *)
(* archive of the profile it selected, wherever that profile lives by now.  *)
EditArchive(selected) ==
    LET p == ResolveProfile(selected)
        base == IF archive[p] = None THEN EmptyArchive ELSE archive[p]
    IN /\ edited < MaxEdits
       /\ selected \notin FreshGuest
       /\ edited' = edited + 1
       /\ archive' = [archive EXCEPT ![p] = [base EXCEPT !.edits = @ \cup {edited'}]]
       /\ Touch({ArchiveOf(p)})
       /\ UNCHANGED <<ownershipVars, history, outbox, document, programVars, delivered,
                      commitVars, told, dropped, moverVars, lost, clears>>

(* The claim moves the guest's archive with the ownership, in one batch,    *)
(* and refuses an account that already has progress here.                   *)
ClaimGuest(u) ==
    /\ ClaimGuestForUser(u)
    /\ archive[guest] # None => archive[u] \in {None, EmptyArchive}
    /\ IF archive[guest] = None
       THEN UNCHANGED archive /\ Touch({Claims, Profiles})
       ELSE /\ archive' = [archive EXCEPT ![u] = archive[guest], ![guest] = None]
            /\ Touch({Claims, Profiles, ArchiveOf(u), ArchiveOf(guest)})
    /\ UNCHANGED <<history, outbox, document, programVars, delivered, commitVars,
                   told, dropped, moverVars, countVars>>

Quarantine ==
    /\ QuarantineGuest
    /\ Touch({Claims, Profiles})
    /\ UNCHANGED <<storageVars, programVars, delivered, commitVars, told, dropped,
                   moverVars, countVars>>

(* Faulty variant: a claim moves every guest's rows.                        *)
GuestRowOfAny(n, a) ==
    /\ outbox[GuestOwner][a] # None
    /\ captured[SessionOf[a]] # None
    /\ captured[SessionOf[a]].owner = GuestOwner

(* The rows of the guest queue that belong to a generation.                 *)
GuestRow(n, a) ==
    /\ outbox[GuestOwner][a] # None
    /\ captured[SessionOf[a]] # None
    /\ captured[SessionOf[a]].generation = n

(* recoverGuestAttemptClaim and quarantineInviteRegistration.  Any number   *)
(* of them, in any window, read a claim while it was pending and are still  *)
(* at work on it; none knows whether that claim is pending by now.          *)
(* AttemptOutbox.claim lists the rows of its generation once ...            *)
ListRows(n) ==
    /\ claimRoute[n] # None
    /\ \E a \in Attempt : GuestRow(n, a)
    /\ listed' = [a \in Attempt |->
                     IF GuestRow(n, a)
                     THEN [row |-> outbox[GuestOwner][a], owner |-> claimRoute[n]]
                     ELSE listed[a]]
    /\ UNCHANGED <<ownershipVars, storageVars, programVars, delivered, commitVars, stale,
                   told, dropped, overtaken, countVars>>

(* ... and takes them one by one: copy to the new owner unless a row is     *)
(* there, even one that another mover copied and the server has taken, ...  *)
CopyRow(a) ==
    /\ listed[a] # None
    /\ outbox[listed[a].owner][a] = None
    /\ outbox' = [outbox EXCEPT ![listed[a].owner][a] = listed[a].row]
    /\ Touch({RowOf(listed[a].owner, a)})
    /\ UNCHANGED <<ownershipVars, archive, history, document, programVars, delivered,
                   commitVars, told, dropped, moverVars, countVars>>

(* Faulty variant: the original is deleted before its copy is written.      *)
DropRowFirst(a) ==
    /\ listed[a] # None
    /\ outbox' = [outbox EXCEPT ![GuestOwner][a] = None]
    /\ Touch({RowOf(GuestOwner, a)})
    /\ UNCHANGED <<ownershipVars, archive, history, document, programVars, delivered,
                   commitVars, told, dropped, moverVars, countVars>>

(* ... then delete the original, even when the copy has been uploaded and   *)
(* removed meanwhile.  The delete carries no revision.                      *)
DropRow(a) ==
    /\ listed[a] # None
    /\ outbox[GuestOwner][a] # None
    /\ \/ outbox[listed[a].owner][a] = listed[a].row
       \/ listed[a].owner \in delivered[a]
    /\ outbox' = [outbox EXCEPT ![GuestOwner][a] = None]
    /\ Touch({RowOf(GuestOwner, a)})
    /\ UNCHANGED <<ownershipVars, archive, history, document, programVars, delivered,
                   commitVars, told, dropped, moverVars, countVars>>

(* A mover whose list is done, so that no row of its own generation is      *)
(* left, finishes whatever claim of the same destination is pending then,   *)
(* its own or a newer one.                                                  *)
FinishMove(n) ==
    /\ claimRoute[n] # None
    /\ \A a \in Attempt : ~GuestRow(n, a)
    /\ pending # None /\ pending.destination = claimRoute[n]
    /\ FinishGuestClaim(claimRoute[n])
    /\ overtaken' = overtaken \cup ({pending.source} \ {n})
    /\ Touch({Claims})
    /\ UNCHANGED <<storageVars, programVars, delivered, commitVars, told, dropped, listed,
                   countVars>>

(* flushAttemptOutbox: the server files an attempt under the uploading      *)
(* account; the row goes once the server has answered.                      *)
Deliver(u, a) ==
    /\ outbox[u][a] # None
    /\ delivered' = [delivered EXCEPT ![a] = @ \cup {u}]
    /\ UNCHANGED <<ownershipVars, storageVars, programVars, commitVars, stale, told,
                   dropped, moverVars, countVars>>

RemoveRow(u, a) ==
    /\ outbox[u][a] # None
    /\ u \in delivered[a]
    /\ outbox' = [outbox EXCEPT ![u][a] = None]
    /\ Touch({RowOf(u, a)})
    /\ UNCHANGED <<ownershipVars, archive, history, document, programVars, delivered,
                   commitVars, told, dropped, moverVars, countVars>>

Next ==
    \/ \E w \in Window :
          \/ \E s \in Session, o \in User \cup {GuestOwner} : StartSession(w, s, o)
          \/ \E p \in Profile : OpenSession(w, p)
          \/ SaveSession(w) \/ ClearSession(w)
          \/ \E a \in Attempt : Begin(w, a)
          \/ Preview(w) \/ Read(w)
          \/ CommitApplied(w) \/ CommitConflict(w) \/ CommitRejected(w)
          \/ Confirm(w) \/ Adopt(w) \/ Crash(w)
    \/ \E p \in Profile : EditArchive(p)
    \/ \E u \in User : ClaimGuest(u)
    \/ Quarantine
    \/ \E n \in Generation : ListRows(n) \/ FinishMove(n)
    \/ \E a \in Attempt : CopyRow(a) \/ DropRow(a)
    \/ \E u \in User, a \in Attempt : Deliver(u, a) \/ RemoveRow(u, a)

Spec == Init /\ [][Next]_vars

-----------------------------------------------------------------------------
(* Whatever a window has prepared and nobody has written over since is what *)
(* it would prepare now: the revisions of commit cover everything that      *)
(* prepare looked at.                                                       *)
SnapshotsCoherent ==
    \A w \in Window :
        pc[w] = "commit" /\ RevisionsMatch(w) =>
            /\ route[w] = RouteNow(SessionOf[attempt[w]])
            /\ Outcome(w) = "absent"
            /\ Preparable(w)
            /\ batch[w] = Prepare(w)

(* An answer advances the schedule of exactly one archive, exactly once,    *)
(* however often the commit was retried and wherever a claim has moved that *)
(* archive meanwhile; an unrecorded answer advances none.  The stored       *)
(* session is what tells a retry that the answer is in, so this excludes    *)
(* the attempts whose session was deleted or replaced.                      *)
ReviewedOnce ==
    \A a \in Attempt \ dropped : \A p \in Profile :
        archive[p] # None =>
            archive[p].reviews[a] =
                IF history[a] # None /\ p = RouteNow(SessionOf[a]).profile THEN 1 ELSE 0

(* What the code says of every answer: the shared clientAttemptId resolves  *)
(* a commit whose reply was lost (local-grade-commit.ts, commit), so that   *)
(* no retry advances FSRS a second time (practice.ts, recordGraded).        *)
AnswerCountedOnce ==
    \A a \in Attempt : \A p \in Profile :
        archive[p] # None => archive[p].reviews[a] <= 1

(* No archive write is lost to a commit, a claim or another write: every    *)
(* edit ever made is still in an archive.                                   *)
NoEditLost ==
    \A e \in 1..edited : \E p \in Profile : archive[p] # None /\ e \in archive[p].edits

(* A recorded answer is never forgotten by the upload queue: it waits in    *)
(* its owner's queue, or the server has it, or it is still in the guest     *)
(* queue and its claim is pending, so that the next start or login of the   *)
(* account resumes the move.  The exception is a claim that the mover of    *)
(* an older guest of the same account finished in its place: finishing      *)
(* compares the destination only (attempt-outbox.ts, finishGuestClaim).     *)
(* Even then the row is still there.                                        *)
NeverStranded ==
    \A a \in Attempt : history[a] # None =>
        LET o == OwnerNow(SessionOf[a])
            n == captured[SessionOf[a]].generation
        IN \/ outbox[o][a] # None
           \/ o \in delivered[a]
           \/ /\ outbox[GuestOwner][a] # None
              /\ pending = [source |-> n, destination |-> o] \/ n \in overtaken

(* All copies of an answer are the same answer: the history row, the upload *)
(* rows and the marker of the stored session.                               *)
SameAnswer ==
    \A a \in Attempt : \A v \in Window :
        \/ \E o \in Owner : outbox[o][a] = v
        \/ captured[SessionOf[a]] # None /\ Marker(a) = v
        => history[a] = v

(* The archive and the upload queue of one answer belong to the same owner: *)
(* profile and generation of a guest session were claimed together, for the *)
(* same account, or neither was; a quarantined guest keeps its archive.     *)
OneOwner ==
    \A s \in Session : captured[s] # None =>
        LET r == RouteNow(s)
        IN \/ r.owner \in User /\ r.profile = r.owner
           \/ r.owner = GuestOwner /\ r.profile = guest
           \/ r.owner = Ambiguous /\ r.profile \in recovery

(* What a window reported as recorded is in storage for good, and the owner *)
(* of an answer never changes from one account to another.                  *)
AnswersAreFinal ==
    [][\A a \in Attempt :
          /\ history[a] # None => history'[a] = history[a]
          /\ a \in told => a \in told' /\ history[a] # None]_vars

Ledger == INSTANCE AnswerLedger WITH
    Answer <- Window,
    answer <- history,
    home <- [a \in Attempt |->
               IF captured[SessionOf[a]] = None THEN None ELSE OwnerNow(SessionOf[a])],
    confirmed <- told,
    received <- delivered

(* The commit protocol, its retries and the hand-over keep the promise of   *)
(* AnswerLedger.                                                            *)
KeepsLedger == Ledger!Spec

-----------------------------------------------------------------------------
(* The inductive invariant behind the properties above.                     *)

(* The current guest and generation are unclaimed, a quarantined guest is   *)
(* never routed, and a pending claim is one that was routed.                *)
OwnershipInv ==
    /\ profileRoute[guest] = None /\ guest \notin recovery
    /\ claimRoute[generation] = None
    /\ \A g \in recovery : profileRoute[g] = None
    /\ pending # None => claimRoute[pending.source] = pending.destination

(* A session is captured by one account, or by one guest whose profile and  *)
(* generation share their fate.                                             *)
CaptureInv ==
    \A s \in Session : captured[s] # None =>
        LET c == captured[s]
        IN IF c.owner # GuestOwner
           THEN c.profile = c.owner /\ c.generation = None
           ELSE /\ c.profile \in Guest /\ c.generation \in Generation
                /\ claimRoute[c.generation] = None =>
                       c.generation = generation /\ c.profile = guest
                /\ claimRoute[c.generation] \in User =>
                       profileRoute[c.profile] = claimRoute[c.generation]
                /\ claimRoute[c.generation] = Ambiguous => c.profile \in recovery

(* Stored and loaded sessions are captured ones, and grade their own        *)
(* attempts; a window is at work exactly on an attempt of its session.      *)
DocumentInv ==
    \A p \in Profile : document[p] # None =>
        /\ captured[document[p].session] # None
        /\ captured[document[p].session].profile = p
        /\ \A a \in Attempt : document[p].graded[a] # None =>
              SessionOf[a] = document[p].session

AtWork(w) ==
    /\ open[w] # None => captured[open[w]] # None
    /\ \A a \in Attempt : memory[w][a] # None => open[w] = SessionOf[a]
    /\ pc[w] \in {"idle", "dead"} => attempt[w] = None /\ tries[w] = 0
    /\ pc[w] = "preview" => tries[w] < MaxTries
    /\ pc[w] \notin {"idle", "dead"} =>
          attempt[w] # None /\ open[w] = SessionOf[attempt[w]]
    /\ pc[w] \in {"read", "commit", "confirm"} => route[w] # NoRoute
    /\ pc[w] # "commit" => stale[w] = {}
WindowInv == \A w \in Window : AtWork(w)

SessionInv == DocumentInv /\ WindowInv

(* Every copy of an answer is the answer of the history row.                *)
AnswerInv ==
    \A a \in Attempt :
        /\ \A o \in Owner : outbox[o][a] # None => outbox[o][a] = history[a]
        /\ \A p \in Profile : document[p] # None /\ document[p].graded[a] # None =>
              document[p].graded[a] = history[a]
        /\ \A w \in Window : memory[w][a] # None => memory[w][a] = history[a]
        /\ history[a] # None => captured[SessionOf[a]] # None
        /\ a \in told => history[a] # None

(* While the stored session was not deleted it carries the marker.          *)
MarkerInv ==
    \A a \in Attempt \ dropped : history[a] # None =>
        LET d == document[ProfileOf(a)]
        IN d # None /\ d.session = SessionOf[a] /\ d.graded[a] = history[a]

(* A recorded answer has its archive.                                       *)
ArchiveInv ==
    \A a \in Attempt : history[a] # None => archive[RouteNow(SessionOf[a]).profile] # None

(* Where the upload rows of an answer are, and what keeps them there: a     *)
(* mover has listed what the guest queue held and takes it to where its     *)
(* claim went, and a row is left behind only with its claim still pending   *)
(* or overtaken.                                                            *)
QueueInv ==
    \A a \in Attempt :
        /\ \A o \in Owner : outbox[o][a] # None =>
              \/ o = OwnerNow(SessionOf[a])
              \/ o = GuestOwner /\ captured[SessionOf[a]].owner = GuestOwner
        /\ history[a] # None =>
              \/ outbox[OwnerNow(SessionOf[a])][a] # None
              \/ OwnerNow(SessionOf[a]) \in delivered[a]
              \/ outbox[GuestOwner][a] # None
        /\ listed[a] # None =>
              /\ captured[SessionOf[a]] # None /\ captured[SessionOf[a]].owner = GuestOwner
              /\ listed[a] = [row |-> history[a], owner |-> OwnerNow(SessionOf[a])]
              /\ claimRoute[captured[SessionOf[a]].generation] # None

LeftBehindInv ==
    \A n \in Generation :
        claimRoute[n] # None /\ (\E a \in Attempt : GuestRow(n, a)) =>
            \/ pending = [source |-> n, destination |-> claimRoute[n]]
            \/ n \in overtaken

IInv ==
    /\ TypeOK /\ OwnershipInv /\ CaptureInv /\ SessionInv /\ AnswerInv
    /\ MarkerInv /\ ArchiveInv /\ QueueInv /\ LeftBehindInv
    /\ SnapshotsCoherent /\ ReviewedOnce
=============================================================================
