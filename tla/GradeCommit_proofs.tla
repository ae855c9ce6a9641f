------------------------- MODULE GradeCommit_proofs -------------------------
(***************************************************************************)
(* Proofs about GradeCommit.                                               *)
(***************************************************************************)
EXTENDS GradeCommit, TLAPS

USE DEF ownershipVars, profileVars, claimVars, storageVars, programVars, commitVars, moverVars,
        countVars, AtWork

-----------------------------------------------------------------------------
(* Helpers.                                                                 *)

(* While an unused identity is left, the one a rotation chooses is unused.  *)
LEMMA FreshIdentities ==
    /\ FreshGuest # {} => (CHOOSE g \in FreshGuest : TRUE) \in FreshGuest
    /\ FreshGeneration # {} => (CHOOSE n \in FreshGeneration : TRUE) \in FreshGeneration
  OBVIOUS

(* A claim, a quarantine and the end of a claim keep the ownership          *)
(* documents well typed.                                                    *)
LEMMA OwnershipTypes ==
  ASSUME OwnershipTypeOK
  PROVE  /\ \A u \in User : ClaimGuestForUser(u) => OwnershipTypeOK'
         /\ QuarantineGuest => OwnershipTypeOK'
         /\ \A d \in Destination : FinishGuestClaim(d) => OwnershipTypeOK'
  <1>1. ASSUME NEW u \in User, ClaimGuestForUser(u)
        PROVE  OwnershipTypeOK'
    BY <1>1, FreshIdentities
       DEF OwnershipTypeOK, ClaimGuestForUser, RotateGeneration, RotateGuest, FreshGuest,
           FreshGeneration, Profile, Destination, PendingClaim
  <1>2. ASSUME QuarantineGuest
        PROVE  OwnershipTypeOK'
    BY <1>2, FreshIdentities
       DEF OwnershipTypeOK, QuarantineGuest, RotateGeneration, RotateGuest, FreshGuest,
           FreshGeneration, Profile, Destination, PendingClaim
  <1>3. ASSUME NEW d \in Destination, FinishGuestClaim(d)
        PROVE  OwnershipTypeOK'
    BY <1>3 DEF OwnershipTypeOK, FinishGuestClaim
  <1> QED BY <1>1, <1>2, <1>3

(* Steps that leave the ownership documents alone keep them well typed.     *)
LEMMA OwnershipStaysTyped ==
  ASSUME OwnershipTypeOK, UNCHANGED ownershipVars
  PROVE  OwnershipTypeOK'
  BY DEF OwnershipTypeOK

(* Marking addresses as stale only ever adds addresses of storage.          *)
LEMMA OutdatedType ==
  ASSUME TypeOK, NEW A \in SUBSET Address
  PROVE  Outdated(A) \in [Window -> SUBSET Address]
  BY DEF TypeOK, Outdated

(* The owner and the profile of a captured session resolve to an owner and  *)
(* a profile.                                                               *)
LEMMA RouteNowType ==
  ASSUME TypeOK, CaptureInv, NEW s \in Session, captured[s] # None
  PROVE  RouteNow(s) \in [profile : Profile, owner : Owner]
  <1>1. captured[s] \in Capture
    BY DEF TypeOK
  <1>2. ResolveProfile(captured[s].profile) \in Profile
    BY <1>1 DEF TypeOK, OwnershipTypeOK, Capture, ResolveProfile, Profile
  <1>3. OwnerNow(s) \in Owner
    <2>1. CASE captured[s].owner = GuestOwner
      BY <1>1, <2>1
         DEF TypeOK, OwnershipTypeOK, CaptureInv, OwnerNow, ResolveGeneration, Owner, Destination
    <2>2. CASE captured[s].owner # GuestOwner
      BY <1>1, <2>2 DEF Capture, OwnerNow, Owner
    <2> QED BY <2>1, <2>2
  <1> QED BY <1>2, <1>3 DEF RouteNow

-----------------------------------------------------------------------------
(* Type correctness of each step.                                           *)

(* The empty graded list, archive and batch are well typed.                 *)
LEMMA EmptyTypes ==
    /\ Ungraded \in Graded
    /\ EmptyArchive \in Archive
    /\ NoBatch \in [archive : Archive, graded : Graded, writes : SUBSET Address]
  BY DEF Ungraded, Graded, EmptyArchive, Archive, NoBatch

(* Merging two graded lists gives a graded list.                            *)
LEMMA MergedType ==
  ASSUME NEW stored \in Graded, NEW offered \in Graded
  PROVE  Merged(stored, offered) \in Graded
  BY DEF Merged, Graded

(* Starting a programme, saved or not, keeps the state well typed.          *)
LEMMA StartSessionType ==
  ASSUME TypeOK, NEW w \in Window, NEW s \in Session, NEW o \in User \cup {GuestOwner},
         StartSession(w, s, o)
  PROVE  TypeOK'
  <1>1. CaptureOf(o) \in Capture
    BY DEF TypeOK, OwnershipTypeOK, CaptureOf, Capture, Profile
  <1>2. CaptureOf(o).profile \in Profile
    BY <1>1 DEF Capture
  <1>3. {SessionKey(CaptureOf(o).profile)} \in SUBSET Address
    BY <1>2 DEF Address
  <1>4. stale' \in [Window -> SUBSET Address]
    BY <1>3, OutdatedType DEF StartSession, Touch, TypeOK
  <1>5. document' \in [Profile -> Document \cup {None}]
    BY <1>2, EmptyTypes DEF StartSession, TypeOK, Document
  <1>6. dropped' \in SUBSET Attempt
    BY <1>2 DEF StartSession, TypeOK, MarkersIn
  <1>7. captured' \in [Session -> Capture \cup {None}]
    BY <1>1 DEF StartSession, TypeOK
  <1>8. OwnershipTypeOK'
    BY OwnershipStaysTyped DEF StartSession, TypeOK
  <1>9. memory' \in [Window -> Graded] /\ open' \in [Window -> Session \cup {None}]
    BY EmptyTypes DEF StartSession, TypeOK
  <1> QED
    BY <1>4, <1>5, <1>6, <1>7, <1>8, <1>9 DEF StartSession, TypeOK

(* Opening, saving and clearing a programme keep the state well typed.      *)
LEMMA SessionTypes ==
  ASSUME IInv, NEW w \in Window
  PROVE  /\ \A p \in Profile : OpenSession(w, p) => TypeOK'
         /\ SaveSession(w) => TypeOK'
         /\ ClearSession(w) => TypeOK'
  <1> USE DEF IInv
  <1>1. ASSUME NEW p \in Profile, OpenSession(w, p)
        PROVE  TypeOK'
    <2>1. document[p] \in Document
      BY <1>1 DEF OpenSession, TypeOK
    <2>2. {SessionKey(p)} \in SUBSET Address
      BY DEF Address
    <2>3. stale' \in [Window -> SUBSET Address]
      BY <1>1, <2>2, OutdatedType DEF OpenSession, Touch
    <2>4. OwnershipTypeOK'
      BY <1>1, OwnershipStaysTyped DEF OpenSession, TypeOK
    <2> QED
      BY <1>1, <2>1, <2>3, <2>4 DEF OpenSession, TypeOK, Document
  <1>2. ASSUME SaveSession(w)
        PROVE  TypeOK'
    <2> DEFINE p == captured[open[w]].profile
               graded == IF document[p] = None THEN memory[w]
                                               ELSE Merged(document[p].graded, memory[w])
    <2>1. open[w] \in Session /\ captured[open[w]] \in Capture
      BY <1>2 DEF SaveSession, TypeOK, SessionInv, WindowInv
    <2>2. p \in Profile
      BY <2>1 DEF Capture
    <2>3. graded \in Graded
      BY <2>2, MergedType DEF TypeOK, Document
    <2>4. {SessionKey(p)} \in SUBSET Address
      BY <2>2 DEF Address
    <2>5. stale' \in [Window -> SUBSET Address]
      BY <1>2, <2>4, OutdatedType DEF SaveSession, Touch
    <2>6. document' \in [Profile -> Document \cup {None}]
      BY <1>2, <2>1, <2>2, <2>3 DEF SaveSession, TypeOK, Document
    <2>7. OwnershipTypeOK'
      BY <1>2, OwnershipStaysTyped DEF SaveSession, TypeOK
    <2>8. memory' \in [Window -> Graded]
      BY <1>2, <2>3 DEF SaveSession, TypeOK
    <2> QED
      BY <1>2, <2>5, <2>6, <2>7, <2>8 DEF SaveSession, TypeOK
  <1>3. ASSUME ClearSession(w)
        PROVE  TypeOK'
    <2> DEFINE p == captured[open[w]].profile
    <2>1. p \in Profile
      BY <1>3 DEF ClearSession, TypeOK, SessionInv, WindowInv, Capture
    <2>2. {SessionKey(p)} \in SUBSET Address
      BY <2>1 DEF Address
    <2>3. stale' \in [Window -> SUBSET Address]
      BY <1>3, <2>2, OutdatedType DEF ClearSession, Touch, TypeOK
    <2>4. document' \in [Profile -> Document \cup {None}]
      BY <1>3, <2>1 DEF ClearSession, TypeOK
    <2>5. dropped' \in SUBSET Attempt /\ clears' \in Nat
      BY <1>3, <2>1 DEF ClearSession, TypeOK, MarkersIn
    <2>6. OwnershipTypeOK'
      BY <1>3, OwnershipStaysTyped DEF ClearSession, TypeOK
    <2> QED
      BY <1>3, <2>3, <2>4, <2>5, <2>6, EmptyTypes DEF ClearSession, TypeOK
  <1> QED BY <1>1, <1>2, <1>3

(* A window in the middle of a commit has an attempt, of the captured       *)
(* session it has open, and a route to real addresses.                      *)
LEMMA BusyWindow ==
  ASSUME TypeOK, CaptureInv, SessionInv, NEW w \in Window, pc[w] \notin {"idle", "dead"}
  PROVE  /\ attempt[w] \in Attempt
         /\ SessionOf[attempt[w]] \in Session
         /\ open[w] = SessionOf[attempt[w]]
         /\ captured[SessionOf[attempt[w]]] \in Capture
         /\ ProfileOf(attempt[w]) \in Profile
         /\ RouteNow(SessionOf[attempt[w]]) \in [profile : Profile, owner : Owner]
         /\ pc[w] \in {"read", "commit", "confirm"} =>
                route[w] \in [profile : Profile, owner : Owner]
         /\ StoredGraded(w) \in Graded
  <1>1. attempt[w] \in Attempt /\ open[w] = SessionOf[attempt[w]]
    BY DEF TypeOK, SessionInv, WindowInv
  <1>2. SessionOf[attempt[w]] \in Session
    BY <1>1, SessionOfAssumption
  <1>3. captured[SessionOf[attempt[w]]] # None
    BY <1>1, <1>2, NoneAssumption DEF SessionInv, WindowInv
  <1>4. captured[SessionOf[attempt[w]]] \in Capture
    BY <1>2, <1>3 DEF TypeOK
  <1>5. ProfileOf(attempt[w]) \in Profile
    BY <1>4 DEF ProfileOf, Capture
  <1>6. StoredGraded(w) \in Graded
    BY <1>5, EmptyTypes DEF StoredGraded, TypeOK, Document
  <1>7. pc[w] \in {"read", "commit", "confirm"} =>
                route[w] \in [profile : Profile, owner : Owner]
    BY DEF TypeOK, SessionInv, WindowInv
  <1> QED
    BY <1>1, <1>2, <1>3, <1>4, <1>5, <1>6, <1>7, RouteNowType

(* Reporting an answer as recorded keeps the window's own state well typed. *)
LEMMA FinishType ==
  ASSUME TypeOK, NEW w \in Window, attempt[w] \in Attempt, NEW graded \in Graded,
         Finish(w, graded)
  PROVE  /\ pc' \in [Window -> {"idle", "preview", "read", "commit", "confirm", "threw", "dead"}]
         /\ memory' \in [Window -> Graded]
         /\ told' \in SUBSET Attempt
         /\ attempt' \in [Window -> Attempt \cup {None}]
         /\ tries' \in [Window -> 0..MaxTries]
         /\ route' \in [Window -> [profile : Profile, owner : Owner] \cup {NoRoute}]
         /\ batch' \in [Window -> [archive : Archive, graded : Graded, writes : SUBSET Address]]
  BY EmptyTypes, BoundsAssumption DEF TypeOK, Finish

(* Moving to another place of the commit loop keeps the window's own state  *)
(* well typed.                                                              *)
LEMMA GotoType ==
  ASSUME TypeOK, NEW w \in Window,
         NEW l \in {"idle", "preview", "read", "commit", "confirm", "threw", "dead"},
         Goto(w, l)
  PROVE  /\ pc' \in [Window -> {"idle", "preview", "read", "commit", "confirm", "threw", "dead"}]
         /\ memory' \in [Window -> Graded]
         /\ told' \in SUBSET Attempt
         /\ attempt' \in [Window -> Attempt \cup {None}]
         /\ tries' \in [Window -> 0..MaxTries]
         /\ route' \in [Window -> [profile : Profile, owner : Owner] \cup {NoRoute}]
         /\ batch' \in [Window -> [archive : Archive, graded : Graded, writes : SUBSET Address]]
  BY EmptyTypes DEF TypeOK, Goto

(* The addresses of a commit are addresses of storage.                      *)
LEMMA AddressTypes ==
    /\ \A p \in Profile : ArchiveOf(p) \in Address /\ SessionKey(p) \in Address
    /\ \A a \in Attempt : HistoryOf(a) \in Address
    /\ \A o \in Owner, a \in Attempt : RowOf(o, a) \in Address
    /\ Claims \in Address /\ Profiles \in Address
  BY DEF Address

(* The batch prepared from a snapshot is well typed.                        *)
LEMMA PrepareType ==
  ASSUME TypeOK, CaptureInv, SessionInv, NEW w \in Window, pc[w] = "read"
  PROVE  Prepare(w) \in [archive : Archive, graded : Graded, writes : SUBSET Address]
  <1> DEFINE a == attempt[w]
             p == route[w].profile
  <1>1. /\ a \in Attempt /\ p \in Profile /\ route[w].owner \in Owner
        /\ ProfileOf(a) \in Profile /\ StoredGraded(w) \in Graded
    BY BusyWindow
  <1>2. Advanced(w) \in Archive
    <2> DEFINE base == IF archive[p] = None THEN EmptyArchive ELSE archive[p]
    <2>1. base \in Archive
      BY <1>1, EmptyTypes DEF TypeOK
    <2>2. [base EXCEPT !.reviews[a] = @ + 1] \in Archive
      BY <1>1, <2>1 DEF Archive
    <2> QED BY <2>2 DEF Advanced
  <1>3. [memory[w] EXCEPT ![a] = w] \in Graded
    BY <1>1 DEF TypeOK, Graded
  <1>4. Prepare(w).graded \in Graded
    BY <1>1, <1>3, MergedType DEF Prepare
  <1>5. Prepare(w).writes \in SUBSET Address
    BY <1>1, AddressTypes DEF Prepare
  <1> QED BY <1>2, <1>4, <1>5 DEF Prepare

(* The steps of a commit that write nothing durable keep the state well     *)
(* typed.                                                                   *)
LEMMA CommitStepTypes ==
  ASSUME IInv, NEW w \in Window
  PROVE  /\ \A a \in Attempt : Begin(w, a) => TypeOK'
         /\ Preview(w) => TypeOK'
         /\ Read(w) => TypeOK'
         /\ Confirm(w) => TypeOK'
         /\ Adopt(w) => TypeOK'
         /\ Crash(w) => TypeOK'
         /\ CommitConflict(w) => TypeOK'
  <1> USE DEF IInv
  <1>1. ASSUME NEW a \in Attempt, Begin(w, a)
        PROVE  TypeOK'
    <2>1. OwnershipTypeOK'
      BY <1>1, OwnershipStaysTyped DEF Begin, TypeOK
    <2> QED BY <1>1, <2>1 DEF Begin, TypeOK
  <1>2. ASSUME Preview(w)
        PROVE  TypeOK'
    <2>1. OwnershipTypeOK'
      BY <1>2, OwnershipStaysTyped DEF Preview, TypeOK
    <2>2. RouteNow(SessionOf[attempt[w]]) \in [profile : Profile, owner : Owner]
      BY <1>2, BusyWindow DEF Preview
    <2>3. tries[w] + 1 \in 0..MaxTries
      BY <1>2, BoundsAssumption DEF Preview, SessionInv, WindowInv, TypeOK
    <2> QED BY <1>2, <2>1, <2>2, <2>3 DEF Preview, TypeOK
  <1>3. ASSUME Read(w)
        PROVE  TypeOK'
    <2>1. OwnershipTypeOK'
      BY <1>3, OwnershipStaysTyped DEF Read, TypeOK
    <2>2. attempt[w] \in Attempt /\ StoredGraded(w) \in Graded
      BY <1>3, BusyWindow DEF Read
    <2>3. Prepare(w) \in [archive : Archive, graded : Graded, writes : SUBSET Address]
      BY <1>3, PrepareType DEF Read
    <2>4. CASE TryAgain(w)
      BY <1>3, <2>1, <2>4, GotoType DEF Read, TryAgain, TypeOK
    <2>5. CASE Finish(w, StoredGraded(w))
      BY <1>3, <2>1, <2>2, <2>5, FinishType DEF Read, TypeOK
    <2>6. CASE Goto(w, "threw")
      BY <1>3, <2>1, <2>6, GotoType DEF Read, TypeOK
    <2>7. CASE /\ pc' = [pc EXCEPT ![w] = "commit"]
               /\ batch' = [batch EXCEPT ![w] = Prepare(w)]
               /\ UNCHANGED <<memory, told, attempt, tries, route>>
      BY <1>3, <2>1, <2>3, <2>7 DEF Read, TypeOK
    <2> QED BY <1>3, <2>4, <2>5, <2>6, <2>7 DEF Read
  <1>4. ASSUME Confirm(w)
        PROVE  TypeOK'
    <2>1. OwnershipTypeOK'
      BY <1>4, OwnershipStaysTyped DEF Confirm, TypeOK
    <2>2. attempt[w] \in Attempt /\ StoredGraded(w) \in Graded
      BY <1>4, BusyWindow DEF Confirm
    <2>3. CASE Finish(w, StoredGraded(w))
      BY <1>4, <2>1, <2>2, <2>3, FinishType DEF Confirm, TypeOK
    <2>4. CASE Goto(w, "threw") \/ TryAgain(w)
      BY <1>4, <2>1, <2>4, GotoType DEF Confirm, TryAgain, TypeOK
    <2> QED BY <1>4, <2>3, <2>4 DEF Confirm
  <1>5. ASSUME Adopt(w)
        PROVE  TypeOK'
    <2>1. OwnershipTypeOK'
      BY <1>5, OwnershipStaysTyped DEF Adopt, TypeOK
    <2>2. attempt[w] \in Attempt /\ StoredGraded(w) \in Graded
      BY <1>5, BusyWindow DEF Adopt
    <2>3. CASE Finish(w, StoredGraded(w))
      BY <1>5, <2>1, <2>2, <2>3, FinishType DEF Adopt, TypeOK
    <2>4. CASE Rethrow(w)
      BY <1>5, <2>1, <2>4, BoundsAssumption DEF Adopt, Rethrow, TypeOK
    <2> QED BY <1>5, <2>3, <2>4 DEF Adopt
  <1>6. ASSUME Crash(w)
        PROVE  TypeOK'
    <2>1. OwnershipTypeOK'
      BY <1>6, OwnershipStaysTyped DEF Crash, TypeOK
    <2> QED BY <1>6, <2>1, EmptyTypes, BoundsAssumption DEF Crash, TypeOK
  <1>7. ASSUME CommitConflict(w)
        PROVE  TypeOK'
    <2>1. OwnershipTypeOK'
      BY <1>7, OwnershipStaysTyped DEF CommitConflict, TypeOK
    <2> QED BY <1>7, <2>1, GotoType DEF CommitConflict, TryAgain, TypeOK
  <1> QED BY <1>1, <1>2, <1>3, <1>4, <1>5, <1>6, <1>7

(* Applying a prepared batch keeps the documents well typed.                *)
LEMMA ApplyBatchType ==
  ASSUME IInv, NEW w \in Window, pc[w] = "commit", ApplyBatch(w)
  PROVE  /\ archive' \in [Profile -> Archive \cup {None}]
         /\ history' \in Graded
         /\ outbox' \in [Owner -> Graded]
         /\ document' \in [Profile -> Document \cup {None}]
         /\ stale' \in [Window -> SUBSET Address]
         /\ batch[w].graded \in Graded
  <1> USE DEF IInv
  <1> DEFINE a == attempt[w]
             p == ProfileOf(a)
             o == route[w].owner
  <1>1. /\ a \in Attempt /\ p \in Profile /\ o \in Owner /\ route[w].profile \in Profile
        /\ SessionOf[a] \in Session
    BY BusyWindow
  <1>2. /\ batch[w].archive \in Archive /\ batch[w].graded \in Graded
        /\ batch[w].writes \in SUBSET Address
    BY DEF TypeOK
  <1>3. archive' \in [Profile -> Archive \cup {None}]
    BY <1>1, <1>2 DEF ApplyBatch, TypeOK
  <1>4. history' \in Graded
    BY <1>1 DEF ApplyBatch, TypeOK, Graded
  <1>5. outbox' \in [Owner -> Graded]
    BY <1>1 DEF ApplyBatch, TypeOK, Graded
  <1>6. document' \in [Profile -> Document \cup {None}]
    BY <1>1, <1>2 DEF ApplyBatch, TypeOK, Document
  <1>7. stale' \in [Window -> SUBSET Address]
    BY <1>2, OutdatedType DEF ApplyBatch
  <1> QED BY <1>2, <1>3, <1>4, <1>5, <1>6, <1>7

(* A commit keeps the state well typed, whether its reply arrives or is     *)
(* lost.                                                                    *)
LEMMA CommitTypes ==
  ASSUME IInv, NEW w \in Window
  PROVE  /\ CommitApplied(w) => TypeOK'
         /\ CommitRejected(w) => TypeOK'
  <1> USE DEF IInv
  <1>1. ASSUME CommitApplied(w)
        PROVE  TypeOK'
    <2>1. OwnershipTypeOK'
      BY <1>1, OwnershipStaysTyped DEF CommitApplied, TypeOK
    <2>2. attempt[w] \in Attempt
      BY <1>1, BusyWindow DEF CommitApplied
    <2> QED
      BY <1>1, <2>1, <2>2, ApplyBatchType, FinishType DEF CommitApplied, TypeOK
  <1>2. ASSUME CommitRejected(w)
        PROVE  TypeOK'
    <2>1. OwnershipTypeOK'
      BY <1>2, OwnershipStaysTyped DEF CommitRejected, TypeOK
    <2>2. CASE ApplyBatch(w)
      BY <1>2, <2>1, <2>2, ApplyBatchType, GotoType DEF CommitRejected, TypeOK
    <2>3. CASE stale' = [stale EXCEPT ![w] = {}] /\ UNCHANGED storageVars
      BY <1>2, <2>1, <2>3, GotoType DEF CommitRejected, TypeOK
    <2> QED BY <1>2, <2>2, <2>3 DEF CommitRejected
  <1> QED BY <1>1, <1>2

(* Archive edits, claims, quarantines, moves and uploads keep the state     *)
(* well typed.                                                              *)
LEMMA OtherWriterTypes ==
  ASSUME IInv
  PROVE  /\ \A p \in Profile : EditArchive(p) => TypeOK'
         /\ \A u \in User : ClaimGuest(u) => TypeOK'
         /\ Quarantine => TypeOK'
         /\ \A a \in Attempt : CopyRow(a) => TypeOK'
         /\ \A a \in Attempt : DropRow(a) => TypeOK'
         /\ \A n \in Generation : ListRows(n) => TypeOK'
         /\ \A n \in Generation : FinishMove(n) => TypeOK'
         /\ \A u \in User, a \in Attempt : Deliver(u, a) => TypeOK'
         /\ \A u \in User, a \in Attempt : RemoveRow(u, a) => TypeOK'
  <1> USE DEF IInv
  <1> USE AddressTypes, OutdatedType
  <1>1. ASSUME NEW selected \in Profile, EditArchive(selected)
        PROVE  TypeOK'
    <2> DEFINE p == ResolveProfile(selected)
               base == IF archive[p] = None THEN EmptyArchive ELSE archive[p]
    <2>1. OwnershipTypeOK'
      BY <1>1, OwnershipStaysTyped DEF EditArchive, TypeOK
    <2>2. p \in Profile
      BY DEF TypeOK, OwnershipTypeOK, ResolveProfile, Profile
    <2>3. base \in Archive
      BY <2>2, EmptyTypes DEF TypeOK
    <2>7. edited' \in Nat
      BY <1>1 DEF EditArchive, TypeOK
    <2> HIDE DEF base
    <2>4. [base EXCEPT !.edits = @ \cup {edited'}] \in Archive
      BY <2>3, <2>7 DEF Archive
    <2> USE DEF base
    <2>5. archive' \in [Profile -> Archive \cup {None}] /\ edited' \in Nat
      BY <1>1, <2>2, <2>4, <2>7 DEF EditArchive, TypeOK
    <2>6. stale' \in [Window -> SUBSET Address]
      BY <1>1, <2>2 DEF EditArchive, Touch
    <2> QED BY <1>1, <2>1, <2>5, <2>6 DEF EditArchive, TypeOK
  <1>2. ASSUME NEW u \in User, ClaimGuest(u)
        PROVE  TypeOK'
    <2>1. OwnershipTypeOK'
      BY <1>2, OwnershipTypes DEF ClaimGuest, TypeOK
    <2>2. guest \in Profile /\ u \in Profile
      BY DEF TypeOK, OwnershipTypeOK, Profile
    <2>3. stale' \in [Window -> SUBSET Address]
      BY <1>2, <2>2 DEF ClaimGuest, Touch
    <2>4. archive' \in [Profile -> Archive \cup {None}]
      BY <1>2, <2>2 DEF ClaimGuest, TypeOK
    <2> QED BY <1>2, <2>1, <2>3, <2>4 DEF ClaimGuest, TypeOK
  <1>3. ASSUME Quarantine
        PROVE  TypeOK'
    <2>1. OwnershipTypeOK'
      BY <1>3, OwnershipTypes DEF Quarantine, TypeOK
    <2>2. stale' \in [Window -> SUBSET Address]
      BY <1>3 DEF Quarantine, Touch
    <2> QED BY <1>3, <2>1, <2>2 DEF Quarantine, TypeOK
  <1>4. ASSUME NEW a \in Attempt, CopyRow(a)
        PROVE  TypeOK'
    <2>1. OwnershipTypeOK'
      BY <1>4, OwnershipStaysTyped DEF CopyRow, TypeOK
    <2>2. listed[a].owner \in Owner /\ listed[a].row \in Window
      BY <1>4 DEF CopyRow, TypeOK, Move, Destination, Owner
    <2>3. outbox' \in [Owner -> Graded]
      BY <1>4, <2>2 DEF CopyRow, TypeOK, Graded
    <2>4. stale' \in [Window -> SUBSET Address]
      BY <1>4, <2>2 DEF CopyRow, Touch
    <2> QED BY <1>4, <2>1, <2>3, <2>4 DEF CopyRow, TypeOK
  <1>5. ASSUME NEW a \in Attempt, DropRow(a)
        PROVE  TypeOK'
    <2>1. OwnershipTypeOK'
      BY <1>5, OwnershipStaysTyped DEF DropRow, TypeOK
    <2>2. GuestOwner \in Owner
      BY DEF Owner
    <2>3. outbox' \in [Owner -> Graded]
      BY <1>5, <2>2 DEF DropRow, TypeOK, Graded
    <2>4. stale' \in [Window -> SUBSET Address]
      BY <1>5, <2>2 DEF DropRow, Touch
    <2> QED BY <1>5, <2>1, <2>3, <2>4 DEF DropRow, TypeOK
  <1>6. ASSUME NEW n \in Generation, FinishMove(n)
        PROVE  TypeOK'
    <2>1. claimRoute[n] \in Destination /\ pending.source \in Generation
      BY <1>6 DEF FinishMove, TypeOK, OwnershipTypeOK, PendingClaim
    <2>2. OwnershipTypeOK'
      BY <1>6, <2>1, OwnershipTypes DEF FinishMove, TypeOK
    <2>3. stale' \in [Window -> SUBSET Address]
      BY <1>6 DEF FinishMove, Touch
    <2>4. overtaken' \in SUBSET Generation
      BY <1>6, <2>1 DEF FinishMove, TypeOK
    <2> QED BY <1>6, <2>2, <2>3, <2>4 DEF FinishMove, TypeOK
  <1>7. ASSUME NEW u \in User, NEW a \in Attempt, Deliver(u, a)
        PROVE  TypeOK'
    <2>1. OwnershipTypeOK'
      BY <1>7, OwnershipStaysTyped DEF Deliver, TypeOK
    <2> QED BY <1>7, <2>1 DEF Deliver, TypeOK
  <1>8. ASSUME NEW u \in User, NEW a \in Attempt, RemoveRow(u, a)
        PROVE  TypeOK'
    <2>1. OwnershipTypeOK'
      BY <1>8, OwnershipStaysTyped DEF RemoveRow, TypeOK
    <2>2. u \in Owner
      BY DEF Owner
    <2>3. outbox' \in [Owner -> Graded]
      BY <1>8, <2>2 DEF RemoveRow, TypeOK, Graded
    <2>4. stale' \in [Window -> SUBSET Address]
      BY <1>8, <2>2 DEF RemoveRow, Touch
    <2> QED BY <1>8, <2>1, <2>3, <2>4 DEF RemoveRow, TypeOK
  <1>9. ASSUME NEW n \in Generation, ListRows(n)
        PROVE  TypeOK'
    <2>1. OwnershipTypeOK'
      BY <1>9, OwnershipStaysTyped DEF ListRows, TypeOK
    <2>2. claimRoute[n] \in Destination
      BY <1>9 DEF ListRows, TypeOK, OwnershipTypeOK
    <2>3. \A a \in Attempt : GuestRow(n, a) => outbox[GuestOwner][a] \in Window
      BY DEF GuestRow, TypeOK, Graded, Owner
    <2>4. listed' \in [Attempt -> Move \cup {None}]
      BY <1>9, <2>2, <2>3 DEF ListRows, TypeOK, Move
    <2> QED BY <1>9, <2>1, <2>4 DEF ListRows, TypeOK
  <1> QED BY <1>1, <1>2, <1>3, <1>4, <1>5, <1>6, <1>7, <1>8, <1>9

(* Every step keeps the state well typed.                                   *)
LEMMA NextTypeOK ==
  ASSUME IInv, [Next]_vars
  PROVE  TypeOK'
  <1>1. CASE UNCHANGED vars
    BY <1>1 DEF IInv, vars, TypeOK, OwnershipTypeOK
  <1>2. CASE Next
    BY <1>2, StartSessionType, SessionTypes, CommitStepTypes, CommitTypes, OtherWriterTypes
       DEF Next, IInv
  <1> QED BY <1>1, <1>2

-----------------------------------------------------------------------------
(* Ownership: the identities of a guest are rotated together.               *)

(* Only the start of a programme, a claim, a quarantine and the end of a    *)
(* claim change who owns what.                                              *)
LEMMA OwnershipMoves ==
  ASSUME Next
  PROVE  \/ \E w \in Window, s \in Session, o \in User \cup {GuestOwner} : StartSession(w, s, o)
         \/ \E u \in User : ClaimGuest(u)
         \/ Quarantine
         \/ \E n \in Generation : FinishMove(n)
         \/ UNCHANGED <<ownershipVars, captured>>
  <1>1. ASSUME NEW w \in Window,
               \/ \E p \in Profile : OpenSession(w, p)
               \/ SaveSession(w) \/ ClearSession(w)
               \/ \E a \in Attempt : Begin(w, a)
               \/ Preview(w) \/ Read(w)
        PROVE  UNCHANGED <<ownershipVars, captured>>
    BY <1>1 DEF OpenSession, SaveSession, ClearSession, Begin, Preview, Read
  <1>2. ASSUME NEW w \in Window,
               \/ CommitApplied(w) \/ CommitConflict(w) \/ CommitRejected(w)
               \/ Confirm(w) \/ Adopt(w) \/ Crash(w)
        PROVE  UNCHANGED <<ownershipVars, captured>>
    BY <1>2 DEF CommitApplied, CommitConflict, CommitRejected, Confirm, Adopt, Crash
  <1>3. ASSUME \/ \E p \in Profile : EditArchive(p)
               \/ \E n \in Generation : ListRows(n)
               \/ \E a \in Attempt : CopyRow(a) \/ DropRow(a)
               \/ \E u \in User, a \in Attempt : Deliver(u, a) \/ RemoveRow(u, a)
        PROVE  UNCHANGED <<ownershipVars, captured>>
    BY <1>3 DEF EditArchive, ListRows, CopyRow, DropRow, Deliver, RemoveRow
  <1> QED BY <1>1, <1>2, <1>3 DEF Next

(* Every step leaves the current guest identities unclaimed.                *)
LEMMA NextOwnershipInv ==
  ASSUME IInv, [Next]_vars
  PROVE  OwnershipInv'
  <1> USE DEF IInv
  <1>1. ASSUME NEW u \in User, ClaimGuestForUser(u)
        PROVE  OwnershipInv'
    BY <1>1, FreshIdentities, DistinctAssumption
       DEF OwnershipInv, TypeOK, OwnershipTypeOK, ClaimGuestForUser, RotateGeneration,
           RotateGuest, FreshGuest, FreshGeneration, PendingClaim
  <1>2. ASSUME QuarantineGuest
        PROVE  OwnershipInv'
    BY <1>2, FreshIdentities, DistinctAssumption
       DEF OwnershipInv, TypeOK, OwnershipTypeOK, QuarantineGuest, RotateGeneration,
           RotateGuest, FreshGuest, FreshGeneration, PendingClaim
  <1>3. ASSUME NEW n \in Generation, FinishMove(n)
        PROVE  OwnershipInv'
    BY <1>3 DEF OwnershipInv, FinishMove, FinishGuestClaim
  <1>4. CASE UNCHANGED ownershipVars
    BY <1>4 DEF OwnershipInv
  <1> QED
    BY <1>1, <1>2, <1>3, <1>4, OwnershipMoves
       DEF vars, StartSession, ClaimGuest, Quarantine

(* Every step keeps profile and generation of a captured guest together.    *)
LEMMA NextCaptureInv ==
  ASSUME IInv, [Next]_vars
  PROVE  CaptureInv'
  <1> USE DEF IInv
  <1>1. ASSUME NEW w \in Window, NEW s \in Session, NEW o \in User \cup {GuestOwner},
               StartSession(w, s, o)
        PROVE  CaptureInv'
    <2>1. CaptureOf(o) = [owner |-> o,
                          profile |-> IF o = GuestOwner THEN guest ELSE o,
                          generation |-> IF o = GuestOwner THEN generation ELSE None]
      BY DEF CaptureOf
    <2> SUFFICES ASSUME NEW t \in Session, captured'[t] # None
                 PROVE  (LET c == captured[t]
                         IN IF c.owner # GuestOwner
                            THEN c.profile = c.owner /\ c.generation = None
                            ELSE /\ c.profile \in Guest /\ c.generation \in Generation
                                 /\ claimRoute[c.generation] = None =>
                                        c.generation = generation /\ c.profile = guest
                                 /\ claimRoute[c.generation] \in User =>
                                        profileRoute[c.profile] = claimRoute[c.generation]
                                 /\ claimRoute[c.generation] = Ambiguous =>
                                        c.profile \in recovery)'
      BY DEF CaptureInv
    <2>2. CASE t = s
      BY <1>1, <2>1, <2>2, DistinctAssumption
         DEF StartSession, TypeOK, OwnershipTypeOK, OwnershipInv
    <2>3. CASE t # s
      BY <1>1, <2>3 DEF StartSession, TypeOK, CaptureInv
    <2> QED BY <2>2, <2>3
  <1>2. ASSUME NEW u \in User, ClaimGuest(u)
        PROVE  CaptureInv'
    <2> SUFFICES ASSUME NEW s \in Session, captured[s] # None,
                        captured[s].owner = GuestOwner
                 PROVE  (LET c == captured[s]
                         IN /\ c.profile \in Guest /\ c.generation \in Generation
                            /\ claimRoute[c.generation] = None =>
                                   c.generation = generation /\ c.profile = guest
                            /\ claimRoute[c.generation] \in User =>
                                   profileRoute[c.profile] = claimRoute[c.generation]
                            /\ claimRoute[c.generation] = Ambiguous =>
                                   c.profile \in recovery)'
      BY <1>2 DEF CaptureInv, ClaimGuest
    <2> DEFINE c == captured[s]
    <2>1. captured' = captured /\ recovery' = recovery
      BY <1>2 DEF ClaimGuest, ClaimGuestForUser
    <2>2. /\ claimRoute' = [claimRoute EXCEPT ![generation] = u]
          /\ profileRoute' = [profileRoute EXCEPT ![guest] = u]
      BY <1>2 DEF ClaimGuest, ClaimGuestForUser, RotateGeneration
    <2>3. u \notin {None, Ambiguous}
      BY DistinctAssumption
    <2>4. CASE c.generation = generation
      BY <2>1, <2>2, <2>3, <2>4 DEF CaptureInv, OwnershipInv, TypeOK, OwnershipTypeOK
    <2>5. CASE c.generation # generation
      BY <2>1, <2>2, <2>5, DistinctAssumption
         DEF CaptureInv, OwnershipInv, TypeOK, OwnershipTypeOK
    <2> QED BY <2>4, <2>5
  <1>3. ASSUME Quarantine
        PROVE  CaptureInv'
    <2> SUFFICES ASSUME NEW s \in Session, captured[s] # None,
                        captured[s].owner = GuestOwner
                 PROVE  (LET c == captured[s]
                         IN /\ c.profile \in Guest /\ c.generation \in Generation
                            /\ claimRoute[c.generation] = None =>
                                   c.generation = generation /\ c.profile = guest
                            /\ claimRoute[c.generation] \in User =>
                                   profileRoute[c.profile] = claimRoute[c.generation]
                            /\ claimRoute[c.generation] = Ambiguous =>
                                   c.profile \in recovery)'
      BY <1>3 DEF CaptureInv, Quarantine
    <2> DEFINE c == captured[s]
    <2>1. /\ captured' = captured /\ profileRoute' = profileRoute
          /\ recovery' = recovery \cup {guest}
          /\ claimRoute' = [claimRoute EXCEPT ![generation] = Ambiguous]
      BY <1>3 DEF Quarantine, QuarantineGuest, RotateGeneration
    <2>2. Ambiguous \notin User \cup {None}
      BY DistinctAssumption
    <2>3. CASE c.generation = generation
      BY <2>1, <2>2, <2>3 DEF CaptureInv, OwnershipInv, TypeOK, OwnershipTypeOK
    <2>4. CASE c.generation # generation
      BY <2>1, <2>2, <2>4 DEF CaptureInv, OwnershipInv, TypeOK, OwnershipTypeOK
    <2> QED BY <2>3, <2>4
  <1>4. ASSUME NEW n \in Generation, FinishMove(n)
        PROVE  CaptureInv'
    BY <1>4 DEF CaptureInv, FinishMove, FinishGuestClaim
  <1>5. CASE UNCHANGED <<ownershipVars, captured>>
    BY <1>5 DEF CaptureInv
  <1> QED BY <1>1, <1>2, <1>3, <1>4, <1>5, OwnershipMoves DEF vars

(* What a claim or a quarantine does to the routes, and that nothing else   *)
(* changes the route of a session that has started.                         *)
LEMMA StableRoutes ==
  ASSUME IInv, UNCHANGED <<profileRoute, claimRoute>>, NEW s \in Session, captured'[s] = captured[s]
  PROVE  RouteNow(s)' = RouteNow(s) /\ OwnerNow(s)' = OwnerNow(s)
  BY DEF RouteNow, OwnerNow, ResolveProfile, ResolveGeneration

-----------------------------------------------------------------------------
(* The effect of a commit.                                                  *)

(* A batch writes the history and the upload row exactly when the snapshot  *)
(* has none.                                                                *)
LEMMA WriteSet ==
  ASSUME NEW w \in Window
  PROVE  /\ HistoryOf(attempt[w]) \in Prepare(w).writes <=> history[attempt[w]] = None
         /\ RowOf(route[w].owner, attempt[w]) \in Prepare(w).writes
                <=> outbox[route[w].owner][attempt[w]] = None
  BY DEF Prepare, ArchiveOf, HistoryOf, RowOf, SessionKey

(* A commit that applies leaves its window's answer in the history, in the  *)
(* owner's queue and in the session, and one more review in the archive.    *)
LEMMA CommitEffect ==
  ASSUME IInv, NEW w \in Window, pc[w] = "commit", RevisionsMatch(w), ApplyBatch(w)
  PROVE  LET a == attempt[w]
             s == SessionOf[a]
             p == ProfileOf(a)
         IN /\ a \in Attempt /\ s \in Session /\ p \in Profile
            /\ captured[s] \in Capture /\ open[w] = s
            /\ route[w] = RouteNow(s)
            /\ route[w].profile \in Profile /\ route[w].owner \in Owner
            /\ history[a] \in {None, w}
            /\ a \notin dropped => history[a] = None
            /\ document[p] # None => document[p].session = s
            /\ StoredGraded(w)[a] \in {None, w}
            /\ archive' = [archive EXCEPT ![route[w].profile] = Advanced(w)]
            /\ history' = [history EXCEPT ![a] = w]
            /\ outbox' = [outbox EXCEPT ![route[w].owner][a] = w]
            /\ document' = [document EXCEPT ![p] = [session |-> s, graded |-> batch[w].graded]]
            /\ batch[w].graded = Merged(StoredGraded(w), [memory[w] EXCEPT ![a] = w])
  <1> USE DEF IInv
  <1> DEFINE a == attempt[w]
             s == SessionOf[a]
             p == ProfileOf(a)
             o == route[w].owner
  <1>1. /\ a \in Attempt /\ s \in Session /\ p \in Profile /\ captured[s] \in Capture
        /\ open[w] = s /\ route[w].profile \in Profile /\ o \in Owner
    BY BusyWindow
  <1>2. /\ route[w] = RouteNow(s) /\ Outcome(w) = "absent" /\ Preparable(w)
        /\ batch[w] = Prepare(w)
    BY DEF SnapshotsCoherent
  <1>3. /\ history[a] \in {None, w} /\ outbox[o][a] \in {None, w}
        /\ document[p] # None => document[p].session = s
        /\ StoredGraded(w)[a] \in {None, w}
    BY <1>2 DEF Preparable
  <1>4. a \notin dropped => history[a] = None
    <2> SUFFICES ASSUME a \notin dropped, history[a] # None
                 PROVE  FALSE
      OBVIOUS
    <2>1. Marker(a) = w /\ history[a] = w
      BY <1>1, <1>3 DEF MarkerInv, Marker
    <2>2. archive[route[w].profile] # None
      BY <1>1, <1>2 DEF ArchiveInv
    <2>3. {history[a], Marker(a)} = {w} /\ w # None
      BY <2>1, NoneAssumption
    <2>4. outbox[o][a] = None \/ (outbox[o][a] = w /\ o = OwnerNow(s))
      BY <1>2, <1>3 DEF RouteNow
    <2> QED BY <1>2, <2>1, <2>2, <2>3, <2>4 DEF Outcome
  <1>5. /\ archive' = [archive EXCEPT ![route[w].profile] = Advanced(w)]
        /\ document' = [document EXCEPT ![p] = [session |-> s, graded |-> batch[w].graded]]
    BY <1>2 DEF ApplyBatch, Prepare
  <1>6. history' = [history EXCEPT ![a] = w]
    <2>1. CASE history[a] = None
      BY <1>2, <2>1, WriteSet DEF ApplyBatch
    <2>2. CASE history[a] = w
      BY <1>1, <1>2, <2>2, WriteSet, NoneAssumption DEF ApplyBatch, TypeOK, Graded
    <2> QED BY <1>3, <2>1, <2>2
  <1>7. outbox' = [outbox EXCEPT ![o][a] = w]
    <2>1. CASE outbox[o][a] = None
      BY <1>2, <2>1, WriteSet DEF ApplyBatch
    <2>2. CASE outbox[o][a] = w
      <3>1. [outbox EXCEPT ![o][a] = w] = outbox
        BY <1>1, <2>2 DEF TypeOK, Graded
      <3> QED BY <1>2, <2>2, <3>1, WriteSet, NoneAssumption DEF ApplyBatch
    <2> QED BY <1>3, <2>1, <2>2
  <1>8. batch[w].graded = Merged(StoredGraded(w), [memory[w] EXCEPT ![a] = w])
    BY <1>2 DEF Prepare
  <1> QED BY <1>1, <1>2, <1>3, <1>4, <1>5, <1>6, <1>7, <1>8

-----------------------------------------------------------------------------
(* Answers, sessions and windows.                                           *)

(* At one attempt, the stored grade wins over the offered one.              *)
LEMMA MergedAt ==
  ASSUME NEW stored, NEW offered, NEW a \in Attempt
  PROVE  Merged(stored, offered)[a] = IF stored[a] # None THEN stored[a] ELSE offered[a]
  BY DEF Merged

(* The stored grades of a window's own session, as it takes them over.      *)
LEMMA StoredGrades ==
  ASSUME IInv, NEW w \in Window, pc[w] \notin {"idle", "dead"}
  PROVE  /\ \A a \in Attempt : StoredGraded(w)[a] # None => StoredGraded(w)[a] = history[a]
         /\ Marker(attempt[w]) = StoredGraded(w)[attempt[w]]
         /\ Marker(attempt[w]) # None =>
                /\ history[attempt[w]] # None
                /\ \A a \in Attempt : StoredGraded(w)[a] # None => SessionOf[a] = open[w]
  <1> USE DEF IInv
  <1>1. attempt[w] \in Attempt /\ ProfileOf(attempt[w]) \in Profile
        /\ open[w] = SessionOf[attempt[w]]
    BY BusyWindow
  <1>2. \A a \in Attempt : StoredGraded(w)[a] # None => StoredGraded(w)[a] = history[a]
    BY <1>1 DEF StoredGraded, AnswerInv, Ungraded
  <1>3. Marker(attempt[w]) = StoredGraded(w)[attempt[w]]
    BY <1>1 DEF Marker, StoredGraded, Ungraded
  <1>4. ASSUME Marker(attempt[w]) # None
        PROVE  /\ history[attempt[w]] # None
               /\ \A a \in Attempt : StoredGraded(w)[a] # None => SessionOf[a] = open[w]
    BY <1>1, <1>2, <1>3, <1>4 DEF Marker, StoredGraded, SessionInv, DocumentInv
  <1> QED BY <1>2, <1>3, <1>4

(* An answer recognised as recorded has its marker in the stored session.   *)
LEMMA OutcomeRecorded ==
  ASSUME NEW w \in Window, Outcome(w) = "recorded"
  PROVE  Marker(attempt[w]) # None
  BY DEF Outcome

(* The ways a step can end a window's commit without writing storage.       *)
LEMMA QuietSteps ==
  ASSUME IInv, NEW w \in Window, Read(w) \/ Confirm(w) \/ Adopt(w) \/ CommitConflict(w)
  PROVE  /\ UNCHANGED <<storageVars, captured, open, dropped, delivered, ownershipVars>>
         /\ \/ /\ Finish(w, StoredGraded(w)) /\ Marker(attempt[w]) # None
               /\ pc[w] \in {"read", "confirm", "threw"}
            \/ UNCHANGED <<memory, told>>
  <1>1. CASE Read(w)
    BY <1>1, OutcomeRecorded DEF Read, TryAgain, Goto
  <1>2. CASE Confirm(w)
    BY <1>2, OutcomeRecorded DEF Confirm, TryAgain, Goto
  <1>3. CASE Adopt(w)
    BY <1>3 DEF Adopt, Rethrow
  <1>4. CASE CommitConflict(w)
    BY <1>4 DEF CommitConflict, TryAgain, Goto
  <1> QED BY <1>1, <1>2, <1>3, <1>4

(* A commit applies its whole batch on a current snapshot, or changes no    *)
(* document.                                                                *)
LEMMA CommitSteps ==
  ASSUME NEW w \in Window, CommitApplied(w) \/ CommitRejected(w)
  PROVE  /\ pc[w] = "commit"
         /\ UNCHANGED <<captured, open, dropped, delivered, ownershipVars>>
         /\ \/ /\ RevisionsMatch(w) /\ ApplyBatch(w)
               /\ Finish(w, batch[w].graded) \/ UNCHANGED <<memory, told>>
            \/ UNCHANGED <<storageVars, memory, told>> /\ stale' = [stale EXCEPT ![w] = {}]
  BY DEF CommitApplied, CommitRejected, Goto

(* Taking over the stored session as the result keeps all copies of an      *)
(* answer equal.                                                            *)
LEMMA FinishAnswers ==
  ASSUME IInv, NEW w \in Window, Finish(w, StoredGraded(w)), Marker(attempt[w]) # None,
         pc[w] \notin {"idle", "dead"}, UNCHANGED <<storageVars, captured>>
  PROVE  AnswerInv'
  BY StoredGrades DEF IInv, AnswerInv, Finish, TypeOK

(* Every step keeps all copies of an answer equal to its history row.       *)
LEMMA NextAnswerInv ==
  ASSUME IInv, [Next]_vars
  PROVE  AnswerInv'
  <1> USE DEF IInv
  <1>1. ASSUME NEW w \in Window, NEW s \in Session, NEW o \in User \cup {GuestOwner},
               StartSession(w, s, o)
        PROVE  AnswerInv'
    <2>1. history' = history /\ outbox' = outbox /\ told' = told
          /\ memory' = [memory EXCEPT ![w] = Ungraded]
          /\ captured' = [captured EXCEPT ![s] = CaptureOf(o)] /\ captured[s] = None
      BY <1>1 DEF StartSession
    <2>2. CaptureOf(o) # None
      <3>1. CaptureOf(o) \in Capture
        BY DEF TypeOK, OwnershipTypeOK, CaptureOf, Capture, Profile
      <3> QED BY <1>1, <3>1, NoneIsNoRecord
    <2>3. \A p \in Profile : document'[p] = document[p]
             \/ document'[p] = [session |-> s, graded |-> Ungraded]
      BY <1>1 DEF StartSession, TypeOK
    <2>4. /\ \A v \in Window, a \in Attempt : memory'[v][a] \in {memory[v][a], None}
          /\ \A p \in Profile, a \in Attempt :
                document'[p] # None => \/ document'[p].graded[a] = None
                                       \/ document'[p] = document[p]
      BY <2>1, <2>3 DEF TypeOK, Ungraded
    <2>5. \A a \in Attempt : captured[SessionOf[a]] # None => captured'[SessionOf[a]] # None
      BY <2>1, <2>2, SessionOfAssumption DEF TypeOK
    <2> QED
      BY <2>1, <2>4, <2>5 DEF AnswerInv
  <1>2. ASSUME NEW w \in Window,
               (\E p \in Profile : OpenSession(w, p)) \/ SaveSession(w) \/ ClearSession(w)
        PROVE  AnswerInv'
    <2>1. ASSUME NEW p \in Profile, OpenSession(w, p)
          PROVE  AnswerInv'
      BY <2>1 DEF AnswerInv, OpenSession, TypeOK
    <2>2. ASSUME SaveSession(w)
          PROVE  AnswerInv'
      <3> DEFINE p == captured[open[w]].profile
                 graded == IF document[p] = None THEN memory[w]
                                                 ELSE Merged(document[p].graded, memory[w])
      <3>1. p \in Profile
        BY <2>2 DEF SaveSession, TypeOK, SessionInv, WindowInv, Capture
      <3>2. \A a \in Attempt : graded[a] # None => graded[a] = history[a]
        <4>1. CASE document[p] = None
          BY <4>1 DEF AnswerInv
        <4>2. CASE document[p] # None
          <5> TAKE a \in Attempt
          <5>1. graded[a] = IF document[p].graded[a] # None THEN document[p].graded[a]
                                                            ELSE memory[w][a]
            BY <4>2, MergedAt
          <5> QED BY <3>1, <4>2, <5>1 DEF AnswerInv
        <4> QED BY <4>1, <4>2
      <3> HIDE DEF graded
      <3>3. /\ \A q \in Profile : document'[q] = document[q] \/ document'[q].graded = graded
            /\ \A v \in Window : memory'[v] = memory[v] \/ memory'[v] = graded
            /\ UNCHANGED <<history, outbox, told, captured>>
        BY <2>2, <3>1 DEF SaveSession, TypeOK, graded
      <3> SUFFICES ASSUME NEW a \in Attempt
                   PROVE  (/\ \A o \in Owner : outbox[o][a] # None => outbox[o][a] = history[a]
                           /\ \A q \in Profile :
                                 document[q] # None /\ document[q].graded[a] # None =>
                                     document[q].graded[a] = history[a]
                           /\ \A v \in Window : memory[v][a] # None => memory[v][a] = history[a]
                           /\ history[a] # None => captured[SessionOf[a]] # None
                           /\ a \in told => history[a] # None)'
        BY DEF AnswerInv
      <3>4. \A q \in Profile : document'[q] # None /\ document'[q].graded[a] # None =>
                                 document'[q].graded[a] = history[a]
        BY <3>2, <3>3 DEF AnswerInv
      <3>5. \A v \in Window : memory'[v][a] # None => memory'[v][a] = history[a]
        BY <3>2, <3>3 DEF AnswerInv
      <3> QED BY <3>3, <3>4, <3>5 DEF AnswerInv
    <2>3. ASSUME ClearSession(w)
          PROVE  AnswerInv'
      <3>1. /\ \A q \in Profile : document'[q] = document[q] \/ document'[q] = None
            /\ UNCHANGED <<history, outbox, told, captured>>
        BY <2>3 DEF ClearSession, TypeOK
      <3>2. \A v \in Window, a \in Attempt :
               memory'[v][a] = memory[v][a] \/ memory'[v][a] = None
        BY <2>3 DEF ClearSession, TypeOK, Ungraded
      <3> QED BY <3>1, <3>2 DEF AnswerInv
    <2> QED BY <1>2, <2>1, <2>2, <2>3
  <1>3. ASSUME NEW w \in Window, Read(w) \/ Confirm(w) \/ Adopt(w) \/ CommitConflict(w)
        PROVE  AnswerInv'
    BY <1>3, QuietSteps, FinishAnswers DEF AnswerInv
  <1>4. ASSUME NEW w \in Window, CommitApplied(w) \/ CommitRejected(w)
        PROVE  AnswerInv'
    <2> DEFINE a == attempt[w]
               p == ProfileOf(a)
    <2>1. CASE UNCHANGED <<storageVars, memory, told>>
      BY <1>4, <2>1, CommitSteps DEF AnswerInv
    <2>2. CASE RevisionsMatch(w) /\ ApplyBatch(w)
      <3>1. /\ a \in Attempt /\ p \in Profile /\ captured[SessionOf[a]] \in Capture
            /\ history[a] \in {None, w}
            /\ history' = [history EXCEPT ![a] = w]
            /\ outbox' = [outbox EXCEPT ![route[w].owner][a] = w]
            /\ document' = [document EXCEPT ![p] =
                              [session |-> SessionOf[a], graded |-> batch[w].graded]]
            /\ batch[w].graded = Merged(StoredGraded(w), [memory[w] EXCEPT ![a] = w])
        BY <1>4, <2>2, CommitEffect, CommitSteps
      <3>2. history' \in Graded /\ history'[a] = w
            /\ \A b \in Attempt : b # a => history'[b] = history[b]
        BY <3>1 DEF TypeOK, Graded
      <3>3. \A b \in Attempt : batch[w].graded[b] # None => batch[w].graded[b] = history'[b]
        <4> TAKE b \in Attempt
        <4>1. /\ StoredGraded(w)[b] # None => StoredGraded(w)[b] = history[b]
              /\ memory[w][b] # None => memory[w][b] = history[b]
          BY <1>4, StoredGrades, CommitSteps DEF AnswerInv
        <4>2. [memory[w] EXCEPT ![a] = w][b] = IF b = a THEN w ELSE memory[w][b]
          BY <3>1 DEF TypeOK, Graded
        <4>3. batch[w].graded[b] = IF StoredGraded(w)[b] # None
                                   THEN StoredGraded(w)[b]
                                   ELSE [memory[w] EXCEPT ![a] = w][b]
          BY <3>1 DEF Merged
        <4>4. CASE b = a
          BY <3>1, <3>2, <4>1, <4>2, <4>3, <4>4
        <4>5. CASE b # a
          BY <3>2, <4>1, <4>2, <4>3, <4>5
        <4> QED BY <4>4, <4>5
      <3>4. \A b \in Attempt : history[b] # None => history'[b] = history[b]
        BY <3>1, <3>2
      <3>5. \A b \in Attempt, v \in Window : memory'[v] = memory[v] \/ memory'[v] = batch[w].graded
        BY <1>4, CommitSteps DEF Finish, TypeOK
      <3>6. told' \in {told, told \cup {a}}
        BY <1>4, CommitSteps DEF Finish
      <3>7. captured' = captured
        BY <1>4, CommitSteps
      <3>8. \A b \in Attempt, o \in Owner : outbox'[o][b] # None => outbox'[o][b] = history'[b]
        BY <3>1, <3>2, <3>4 DEF AnswerInv, TypeOK, Graded
      <3>9. \A b \in Attempt, q \in Profile :
               document'[q] # None /\ document'[q].graded[b] # None =>
                   document'[q].graded[b] = history'[b]
        BY <3>1, <3>3, <3>4 DEF AnswerInv, TypeOK
      <3>10. \A b \in Attempt, v \in Window : memory'[v][b] # None => memory'[v][b] = history'[b]
        BY <3>3, <3>4, <3>5 DEF AnswerInv
      <3>11. \A b \in Attempt :
                /\ history'[b] # None => captured'[SessionOf[b]] # None
                /\ b \in told' => history'[b] # None
        BY <3>1, <3>2, <3>6, <3>7, NoneAssumption, NoneIsNoRecord DEF AnswerInv
      <3> QED BY <3>8, <3>9, <3>10, <3>11 DEF AnswerInv
    <2> QED BY <1>4, <2>1, <2>2, CommitSteps
  <1>5. ASSUME NEW w \in Window, Preview(w) \/ Crash(w) \/ \E a \in Attempt : Begin(w, a)
        PROVE  AnswerInv'
    <2>1. UNCHANGED <<history, outbox, document, captured, told>>
      BY <1>5 DEF Preview, Crash, Begin
    <2>2. \A v \in Window : memory'[v] = memory[v] \/ memory'[v] = Ungraded
      <3>1. memory' = memory \/ memory' = [memory EXCEPT ![w] = Ungraded]
        BY <1>5 DEF Preview, Crash, Begin
      <3> QED BY <3>1 DEF TypeOK
    <2>3. \A a \in Attempt : Ungraded[a] = None
      BY DEF Ungraded
    <2> QED BY <2>1, <2>2, <2>3 DEF AnswerInv
  <1>6. ASSUME \/ \E p \in Profile : EditArchive(p)
               \/ \E u \in User : ClaimGuest(u)
               \/ Quarantine
               \/ \E n \in Generation : ListRows(n) \/ FinishMove(n)
               \/ \E u \in User, a \in Attempt : Deliver(u, a)
               \/ UNCHANGED vars
        PROVE  AnswerInv'
    <2>1. UNCHANGED <<history, outbox, document, memory, captured, told>>
      BY <1>6 DEF EditArchive, ClaimGuest, Quarantine, ListRows, FinishMove, Deliver, vars
    <2> QED BY <2>1 DEF AnswerInv
  <1>7. ASSUME NEW a \in Attempt, CopyRow(a) \/ DropRow(a) \/ \E u \in User : RemoveRow(u, a)
        PROVE  AnswerInv'
    <2>1. UNCHANGED <<history, document, memory, captured, told>>
      BY <1>7 DEF CopyRow, DropRow, RemoveRow
    <2> DEFINE Kept == \A o \in Owner, b \in Attempt :
                          \/ outbox'[o][b] = None
                          \/ outbox'[o][b] = outbox[o][b]
                          \/ outbox'[o][b] = history[b]
    <2>2. GuestOwner \in Owner
      BY DEF Owner
    <2>3. ASSUME CopyRow(a)
          PROVE  Kept
      <3>1. listed[a].owner \in Owner /\ listed[a].row = history[a]
        BY <2>3 DEF CopyRow, QueueInv, TypeOK, Move, Destination, Owner
      <3> QED BY <2>2, <2>3, <3>1 DEF CopyRow, TypeOK, Graded
    <2>4. ASSUME DropRow(a)
          PROVE  Kept
      BY <2>2, <2>4 DEF DropRow, TypeOK, Graded
    <2>5. ASSUME NEW u \in User, RemoveRow(u, a)
          PROVE  Kept
      <3>1. u \in Owner
        BY DEF Owner
      <3> QED BY <2>5, <3>1 DEF RemoveRow, TypeOK, Graded
    <2>6. Kept
      BY <1>7, <2>3, <2>4, <2>5
    <2> QED BY <2>1, <2>2, <2>6 DEF AnswerInv
  <1> QED BY <1>1, <1>2, <1>3, <1>4, <1>5, <1>6, <1>7 DEF Next

(* Only sessions and commits write the stored session.                      *)
LEMMA DocumentMoves ==
  ASSUME Next
  PROVE  \/ \E w \in Window, s \in Session, o \in User \cup {GuestOwner} : StartSession(w, s, o)
         \/ \E w \in Window : SaveSession(w) \/ ClearSession(w)
                               \/ CommitApplied(w) \/ CommitRejected(w)
         \/ UNCHANGED <<document, captured, dropped>>
  <1>1. ASSUME NEW w \in Window,
               \/ \E p \in Profile : OpenSession(w, p)
               \/ \E a \in Attempt : Begin(w, a)
               \/ Preview(w) \/ Read(w) \/ CommitConflict(w) \/ Confirm(w) \/ Adopt(w)
               \/ Crash(w)
        PROVE  UNCHANGED <<document, captured, dropped>>
    BY <1>1 DEF OpenSession, Begin, Preview, Read, CommitConflict, Confirm, Adopt, Crash
  <1>2. ASSUME \/ \E p \in Profile : EditArchive(p)
               \/ \E u \in User : ClaimGuest(u)
               \/ Quarantine
               \/ \E n \in Generation : ListRows(n) \/ FinishMove(n)
               \/ \E a \in Attempt : CopyRow(a) \/ DropRow(a)
               \/ \E u \in User, a \in Attempt : Deliver(u, a) \/ RemoveRow(u, a)
        PROVE  UNCHANGED <<document, captured, dropped>>
    BY <1>2 DEF EditArchive, ClaimGuest, Quarantine, ListRows, FinishMove, CopyRow, DropRow, Deliver,
                RemoveRow
  <1> QED BY <1>1, <1>2 DEF Next

(* The programme a commit stores grades its own attempts only.              *)
LEMMA BatchGrades ==
  ASSUME IInv, NEW w \in Window, pc[w] = "commit", RevisionsMatch(w)
  PROVE  \A b \in Attempt : batch[w].graded[b] # None => SessionOf[b] = open[w]
  <1> USE DEF IInv, SessionInv
  <1> DEFINE a == attempt[w]
  <1>1. /\ a \in Attempt /\ ProfileOf(a) \in Profile /\ open[w] = SessionOf[a]
    BY BusyWindow
  <1>2. Preparable(w) /\ batch[w] = Prepare(w)
    BY DEF SnapshotsCoherent
  <1> TAKE b \in Attempt
  <1>3. batch[w].graded[b] = IF StoredGraded(w)[b] # None
                             THEN StoredGraded(w)[b]
                             ELSE [memory[w] EXCEPT ![a] = w][b]
    BY <1>2 DEF Merged, Prepare
  <1>4. StoredGraded(w)[b] # None => SessionOf[b] = open[w]
    BY <1>1, <1>2 DEF StoredGraded, DocumentInv, Ungraded, Preparable
  <1>5. CASE b = a
    BY <1>1, <1>5
  <1>6. CASE b # a
    <2>1. [memory[w] EXCEPT ![a] = w][b] = memory[w][b]
      BY <1>6 DEF TypeOK, Graded
    <2> QED BY <1>3, <1>4, <2>1 DEF WindowInv
  <1> QED BY <1>5, <1>6

(* Every step leaves stored programmes captured, at their own profile,      *)
(* grading only their own attempts.                                         *)
LEMMA NextDocumentInv ==
  ASSUME IInv, [Next]_vars
  PROVE  DocumentInv'
  <1> USE DEF IInv, SessionInv
  <1>1. ASSUME NEW w \in Window, NEW s \in Session, NEW o \in User \cup {GuestOwner},
               StartSession(w, s, o)
        PROVE  DocumentInv'
    <2> DEFINE c == CaptureOf(o)
    <2>1. c \in Capture
      BY DEF TypeOK, OwnershipTypeOK, CaptureOf, Capture, Profile
    <2> HIDE DEF c
    <2>2. c # None /\ c.profile \in Profile
      BY <2>1, NoneIsNoRecord DEF Capture
    <2>3. captured' = [captured EXCEPT ![s] = c] /\ captured[s] = None
      BY <1>1 DEF StartSession, c
    <2>4. \/ document' = [document EXCEPT ![c.profile] = [session |-> s, graded |-> Ungraded]]
          \/ document' = document
      BY <1>1 DEF StartSession, c
    <2> SUFFICES ASSUME NEW p \in Profile, document'[p] # None
                 PROVE  (/\ captured[document[p].session] # None
                         /\ captured[document[p].session].profile = p
                         /\ \A a \in Attempt : document[p].graded[a] # None =>
                               SessionOf[a] = document[p].session)'
      BY DEF DocumentInv
    <2>5. CASE document'[p] = document[p]
      <3>1. document[p].session \in Session /\ document[p].session # s
        BY <2>3, <2>5 DEF TypeOK, Document, DocumentInv
      <3> QED BY <2>3, <2>5, <3>1 DEF TypeOK, DocumentInv
    <2>6. CASE p = c.profile /\ document'[p] = [session |-> s, graded |-> Ungraded]
      BY <2>2, <2>3, <2>6 DEF TypeOK, Ungraded
    <2> QED BY <2>4, <2>5, <2>6 DEF TypeOK
  <1>2. ASSUME NEW w \in Window, SaveSession(w)
        PROVE  DocumentInv'
    <2> DEFINE p == captured[open[w]].profile
               graded == IF document[p] = None THEN memory[w]
                                               ELSE Merged(document[p].graded, memory[w])
    <2>1. p \in Profile /\ open[w] \in Session /\ captured[open[w]] # None
      BY <1>2 DEF SaveSession, TypeOK, WindowInv, Capture
    <2>2. \A a \in Attempt : graded[a] # None => SessionOf[a] = open[w]
      <3> TAKE a \in Attempt
      <3>1. CASE document[p] = None
        BY <3>1 DEF WindowInv
      <3>2. CASE document[p] # None
        <4>1. document[p].session = open[w]
          BY <1>2, <3>2 DEF SaveSession
        <4>2. graded[a] = IF document[p].graded[a] # None THEN document[p].graded[a]
                                                          ELSE memory[w][a]
          BY <3>2, MergedAt
        <4> QED BY <2>1, <3>2, <4>1, <4>2 DEF WindowInv, DocumentInv
      <3> QED BY <3>1, <3>2
    <2> HIDE DEF graded
    <2>3. /\ document' = [document EXCEPT ![p] = [session |-> open[w], graded |-> graded]]
          /\ captured' = captured
      BY <1>2 DEF SaveSession, graded
    <2> QED BY <2>1, <2>2, <2>3 DEF DocumentInv, TypeOK
  <1>3. ASSUME NEW w \in Window, ClearSession(w)
        PROVE  DocumentInv'
    <2>1. /\ \A q \in Profile : document'[q] = document[q] \/ document'[q] = None
          /\ captured' = captured
      BY <1>3 DEF ClearSession, TypeOK
    <2> QED BY <2>1 DEF DocumentInv
  <1>4. ASSUME NEW w \in Window, CommitApplied(w) \/ CommitRejected(w)
        PROVE  DocumentInv'
    <2> DEFINE a == attempt[w]
               s == SessionOf[a]
               p == ProfileOf(a)
    <2>1. CASE UNCHANGED document
      BY <1>4, <2>1, CommitSteps DEF DocumentInv
    <2>2. CASE RevisionsMatch(w) /\ ApplyBatch(w)
      <3>1. /\ a \in Attempt /\ s \in Session /\ p \in Profile /\ open[w] = s
            /\ captured[s] \in Capture
            /\ document[p] # None => document[p].session = s
            /\ document' = [document EXCEPT ![p] = [session |-> s, graded |-> batch[w].graded]]
            /\ batch[w].graded = Merged(StoredGraded(w), [memory[w] EXCEPT ![a] = w])
        BY <1>4, <2>2, CommitEffect, CommitSteps
      <3>2. captured[s] # None /\ captured' = captured
        BY <1>4, <3>1, NoneIsNoRecord, CommitSteps
      <3>3. \A b \in Attempt : batch[w].graded[b] # None => SessionOf[b] = s
        BY <1>4, <2>2, <3>1, BatchGrades, CommitSteps
      <3> QED BY <3>1, <3>2, <3>3 DEF DocumentInv, ProfileOf, TypeOK
    <2> QED BY <1>4, <2>1, <2>2, CommitSteps
  <1>5. CASE UNCHANGED <<document, captured>>
    BY <1>5 DEF DocumentInv
  <1> QED BY <1>1, <1>2, <1>3, <1>4, <1>5, DocumentMoves DEF vars

(* A session that has started keeps what it captured.                       *)
LEMMA CapturedStays ==
  ASSUME IInv, [Next]_vars, NEW s \in Session, captured[s] # None
  PROVE  captured'[s] = captured[s]
  BY DocumentMoves
     DEF IInv, TypeOK, StartSession, SaveSession, ClearSession, CommitApplied, CommitRejected, vars

(* A write makes nothing stale for a window that has no snapshot open.      *)
LEMMA TouchElsewhere ==
  ASSUME TypeOK, NEW A, Touch(A), NEW v \in Window
  PROVE  pc[v] = "commit" \/ stale'[v] = stale[v]
  BY DEF Outdated, Touch

(* A step of one window, or of no window, leaves the others where they are. *)
LEMMA Bystander ==
  ASSUME IInv, [Next]_vars, NEW v \in Window,
         open'[v] = open[v], memory'[v] = memory[v], pc'[v] = pc[v],
         attempt'[v] = attempt[v], tries'[v] = tries[v], route'[v] = route[v],
         pc[v] = "commit" \/ stale'[v] = stale[v]
  PROVE  AtWork(v)'
  BY CapturedStays DEF IInv, SessionInv, WindowInv, TypeOK

(* Every write of another writer outdates the snapshots that read there.    *)
LEMMA OtherWrites ==
  ASSUME IInv,
         \/ \E p \in Profile : EditArchive(p)
         \/ \E u \in User : ClaimGuest(u)
         \/ Quarantine
         \/ \E n \in Generation : FinishMove(n)
         \/ \E a \in Attempt : CopyRow(a) \/ DropRow(a)
         \/ \E u \in User, a \in Attempt : RemoveRow(u, a)
  PROVE  \E A : Touch(A)
  BY DEF EditArchive, ClaimGuest, Quarantine, FinishMove, CopyRow, DropRow, RemoveRow

(* A window that has reported its answer is idle with a well-formed         *)
(* programme.                                                               *)
LEMMA FinishAtWork ==
  ASSUME IInv, NEW w \in Window, NEW graded, Finish(w, graded), pc[w] \notin {"idle", "dead"},
         UNCHANGED <<open, captured>>, stale'[w] = {},
         \A a \in Attempt : graded[a] # None => SessionOf[a] = open[w]
  PROVE  AtWork(w)'
  BY DEF IInv, SessionInv, WindowInv, TypeOK, Finish

(* Every step leaves a busy window at work on an attempt of the programme   *)
(* it has open.                                                             *)
LEMMA NextWindowInv ==
  ASSUME IInv, [Next]_vars
  PROVE  WindowInv'
  <1> USE DEF IInv, SessionInv
  <1>w. \A w \in Window : AtWork(w)
    BY DEF WindowInv
  <1> SUFFICES ASSUME NEW v \in Window
               PROVE  AtWork(v)'
    BY DEF WindowInv
  <1> DEFINE Same == /\ open'[v] = open[v] /\ memory'[v] = memory[v] /\ pc'[v] = pc[v]
                     /\ attempt'[v] = attempt[v] /\ tries'[v] = tries[v]
                     /\ route'[v] = route[v]
                     /\ pc[v] = "commit" \/ stale'[v] = stale[v]
  <1>s. Same => AtWork(v)'
    BY Bystander
  <1> HIDE DEF AtWork
  <1>1. ASSUME NEW w \in Window, NEW s \in Session, NEW o \in User \cup {GuestOwner},
               StartSession(w, s, o)
        PROVE  AtWork(v)'
    <2>1. stale' = stale \/ Touch({SessionKey(CaptureOf(o).profile)})
      BY <1>1 DEF StartSession
    <2>2. pc[v] = "commit" \/ stale'[v] = stale[v]
      BY <2>1, TouchElsewhere
    <2>3. CASE v # w
      BY <1>s, <1>1, <2>2, <2>3 DEF StartSession, TypeOK
    <2>4. CASE v = w
      <3>1. CaptureOf(o) \in Capture
        BY DEF TypeOK, OwnershipTypeOK, CaptureOf, Capture, Profile
      <3>2. captured'[s] # None
        BY <1>1, <3>1, NoneIsNoRecord DEF StartSession, TypeOK
      <3> QED
        BY <1>w, <1>1, <2>2, <2>4, <3>2 DEF StartSession, TypeOK, Ungraded, AtWork
    <2> QED BY <2>3, <2>4
  <1>2. ASSUME NEW w \in Window, NEW p \in Profile, OpenSession(w, p)
        PROVE  AtWork(v)'
    <2>1. pc[v] = "commit" \/ stale'[v] = stale[v]
      BY <1>2, TouchElsewhere DEF OpenSession
    <2>2. CASE v # w
      BY <1>s, <1>2, <2>1, <2>2 DEF OpenSession, TypeOK
    <2>3. CASE v = w
      BY <1>w, <1>2, <2>1, <2>3 DEF OpenSession, TypeOK, DocumentInv, AtWork
    <2> QED BY <2>2, <2>3
  <1>3. ASSUME NEW w \in Window, SaveSession(w)
        PROVE  AtWork(v)'
    <2>1. pc[v] = "commit" \/ stale'[v] = stale[v]
      BY <1>3, TouchElsewhere DEF SaveSession
    <2>2. CASE v # w
      BY <1>s, <1>3, <2>1, <2>2 DEF SaveSession, TypeOK
    <2>3. CASE v = w
      <3> DEFINE p == captured[open[w]].profile
      <3>1. p \in Profile /\ open[w] \in Session
        BY <1>w, <1>3 DEF SaveSession, TypeOK, Capture, AtWork
      <3>2. document'[p] = [session |-> open[w], graded |-> memory'[w]]
        BY <1>3, <3>1 DEF SaveSession, TypeOK
      <3>3. document'[p] \in Document
        BY <3>1, <3>2, NextTypeOK DEF TypeOK, Document
      <3>4. \A a \in Attempt : memory'[w][a] # None => open[w] = SessionOf[a]
        BY <3>1, <3>2, <3>3, NextDocumentInv, NoneIsNoRecord DEF DocumentInv
      <3> QED
        BY <1>w, <1>3, <2>1, <2>3, <3>4 DEF SaveSession, TypeOK, AtWork
    <2> QED BY <2>2, <2>3
  <1>4. ASSUME NEW w \in Window, ClearSession(w)
        PROVE  AtWork(v)'
    <2>1. stale' = stale \/ Touch({SessionKey(captured[open[w]].profile)})
      BY <1>4 DEF ClearSession
    <2>2. pc[v] = "commit" \/ stale'[v] = stale[v]
      BY <2>1, TouchElsewhere
    <2>3. CASE v # w
      BY <1>s, <1>4, <2>2, <2>3 DEF ClearSession, TypeOK
    <2>4. CASE v = w
      BY <1>w, <1>4, <2>2, <2>4 DEF ClearSession, TypeOK, Ungraded, AtWork
    <2> QED BY <2>3, <2>4
  <1>5. ASSUME NEW w \in Window, NEW a \in Attempt, Begin(w, a)
        PROVE  AtWork(v)'
    <2>1. a # None
      BY <1>5, NoneAssumption
    <2>2. CASE v # w
      BY <1>s, <1>5, <2>2 DEF Begin, TypeOK
    <2>3. CASE v = w
      BY <1>w, <1>5, <2>1, <2>3, BoundsAssumption DEF Begin, TypeOK, AtWork
    <2> QED BY <2>2, <2>3
  <1>6. ASSUME NEW w \in Window, Preview(w)
        PROVE  AtWork(v)'
    <2>1. CASE v # w
      BY <1>s, <1>6, <2>1 DEF Preview, TypeOK
    <2>2. CASE v = w
      <3>1. RouteNow(SessionOf[attempt[w]]) # NoRoute
        BY <1>6, BusyWindow, DistinctAssumption DEF Preview, NoRoute, Profile
      <3> QED BY <1>w, <1>6, <2>2, <3>1 DEF Preview, TypeOK, AtWork
    <2> QED BY <2>1, <2>2
  <1>7. ASSUME NEW w \in Window, Read(w) \/ Confirm(w) \/ Adopt(w) \/ CommitConflict(w)
        PROVE  AtWork(v)'
    <2>1. UNCHANGED <<open, captured>> /\ pc[w] \in {"read", "confirm", "threw", "commit"}
      BY <1>7 DEF Read, Confirm, Adopt, CommitConflict
    <2>2. stale' = stale \/ stale' = [stale EXCEPT ![w] = {}]
      BY <1>7 DEF Read, Confirm, Adopt, CommitConflict
    <2>3. CASE v # w
      BY <1>s, <1>7, <2>2, <2>3
         DEF Read, Confirm, Adopt, CommitConflict, TypeOK, Finish, Goto, TryAgain, Rethrow
    <2>4. CASE v = w /\ Finish(w, StoredGraded(w)) /\ Marker(attempt[w]) # None
                    /\ pc[w] \in {"read", "confirm", "threw"}
      <3>1. \A a \in Attempt : StoredGraded(w)[a] # None => SessionOf[a] = open[w]
        BY <2>4, StoredGrades
      <3>2. stale'[w] = {}
        BY <1>w, <2>2, <2>4 DEF AtWork, TypeOK
      <3> QED BY <2>1, <2>4, <3>1, <3>2, FinishAtWork
    <2>5. CASE v = w /\ UNCHANGED <<memory, told>>
      BY <1>w, <1>7, <2>1, <2>2, <2>5, BoundsAssumption
         DEF Read, Confirm, Adopt, CommitConflict, TypeOK, Goto, TryAgain, Rethrow, AtWork,
             Finish
    <2> QED BY <1>7, <2>3, <2>4, <2>5, QuietSteps
  <1>8. ASSUME NEW w \in Window, CommitApplied(w) \/ CommitRejected(w)
        PROVE  AtWork(v)'
    <2>1. CASE v # w
      <3>1. pc[v] = "commit" \/ stale'[v] = stale[v]
        BY <1>8, <2>1 DEF CommitApplied, CommitRejected, ApplyBatch, Outdated, TypeOK
      <3> QED
        BY <1>s, <1>8, <2>1, <3>1 DEF CommitApplied, CommitRejected, Finish, Goto, TypeOK
    <2>2. CASE v = w
      <3>1. stale'[w] = {}
        BY <1>8 DEF CommitApplied, CommitRejected, ApplyBatch, Outdated, TypeOK
      <3>2. CASE CommitApplied(w)
        BY <2>2, <3>1, <3>2, BatchGrades, FinishAtWork DEF CommitApplied
      <3>3. CASE CommitRejected(w)
        BY <1>w, <2>2, <3>1, <3>3 DEF CommitRejected, Goto, TypeOK, AtWork
      <3> QED BY <1>8, <3>2, <3>3
    <2> QED BY <2>1, <2>2
  <1>9. ASSUME NEW w \in Window, Crash(w)
        PROVE  AtWork(v)'
    <2>1. CASE v # w
      BY <1>s, <1>9, <2>1 DEF Crash, TypeOK
    <2>2. CASE v = w
      BY <1>9, <2>2 DEF Crash, TypeOK, Ungraded, AtWork
    <2> QED BY <2>1, <2>2
  <1>10. ASSUME \/ \E p \in Profile : EditArchive(p)
                \/ \E u \in User : ClaimGuest(u)
                \/ Quarantine
                \/ \E n \in Generation : ListRows(n) \/ FinishMove(n)
                \/ \E a \in Attempt : CopyRow(a) \/ DropRow(a)
                \/ \E u \in User, a \in Attempt : Deliver(u, a) \/ RemoveRow(u, a)
                \/ UNCHANGED vars
         PROVE  AtWork(v)'
    <2>1. UNCHANGED <<open, memory, pc, attempt, tries, route>>
      BY <1>10 DEF EditArchive, ClaimGuest, Quarantine, ListRows, FinishMove, CopyRow, DropRow, Deliver,
                   RemoveRow, vars
    <2>2. stale' = stale \/ \E A : Touch(A)
      BY <1>10, OtherWrites DEF ListRows, Deliver, vars
    <2>3. pc[v] = "commit" \/ stale'[v] = stale[v]
      BY <2>2, TouchElsewhere
    <2> QED BY <1>s, <2>1, <2>3
  <1> QED BY <1>1, <1>2, <1>3, <1>4, <1>5, <1>6, <1>7, <1>8, <1>9, <1>10 DEF Next

-----------------------------------------------------------------------------
(* The stored session of an answer carries its marker.                      *)

(* Only commits write the history.                                          *)
LEMMA HistoryMoves ==
  ASSUME [Next]_vars
  PROVE  history' = history \/ \E w \in Window : CommitApplied(w) \/ CommitRejected(w)
  <1>1. ASSUME NEW w \in Window,
               \/ \E s \in Session, o \in User \cup {GuestOwner} : StartSession(w, s, o)
               \/ \E p \in Profile : OpenSession(w, p)
               \/ SaveSession(w) \/ ClearSession(w)
               \/ \E a \in Attempt : Begin(w, a)
               \/ Preview(w) \/ Read(w) \/ CommitConflict(w) \/ Confirm(w) \/ Adopt(w)
               \/ Crash(w)
        PROVE  history' = history
    BY <1>1 DEF StartSession, OpenSession, SaveSession, ClearSession, Begin, Preview, Read,
                CommitConflict, Confirm, Adopt, Crash
  <1>2. ASSUME \/ \E p \in Profile : EditArchive(p)
               \/ \E u \in User : ClaimGuest(u)
               \/ Quarantine
               \/ \E n \in Generation : ListRows(n) \/ FinishMove(n)
               \/ \E a \in Attempt : CopyRow(a) \/ DropRow(a)
               \/ \E u \in User, a \in Attempt : Deliver(u, a) \/ RemoveRow(u, a)
        PROVE  history' = history
    BY <1>2 DEF EditArchive, ClaimGuest, Quarantine, ListRows, FinishMove, CopyRow, DropRow, Deliver,
                RemoveRow
  <1> QED BY <1>1, <1>2 DEF Next, vars

(* What a commit that applies does to the stored grades.                    *)
LEMMA CommitMarks ==
  ASSUME IInv, NEW w \in Window, pc[w] = "commit", RevisionsMatch(w), ApplyBatch(w)
  PROVE  LET p == ProfileOf(attempt[w])
         IN /\ document'[p] # None
            /\ document'[p].session = SessionOf[attempt[w]]
            /\ document'[p].graded[attempt[w]] = w
            /\ \A b \in Attempt : document[p] # None /\ document[p].graded[b] # None =>
                                     document'[p].graded[b] = document[p].graded[b]
  <1> USE DEF IInv
  <1> DEFINE a == attempt[w]
             p == ProfileOf(a)
  <1>1. /\ a \in Attempt /\ SessionOf[a] \in Session /\ p \in Profile
        /\ StoredGraded(w)[a] \in {None, w}
        /\ document' = [document EXCEPT ![p] =
                          [session |-> SessionOf[a], graded |-> batch[w].graded]]
        /\ batch[w].graded = Merged(StoredGraded(w), [memory[w] EXCEPT ![a] = w])
    BY CommitEffect
  <1>2. batch[w].graded \in Graded
    BY DEF TypeOK
  <1>3. document'[p] = [session |-> SessionOf[a], graded |-> batch[w].graded]
    BY <1>1 DEF TypeOK
  <1>4. document'[p] # None
    BY <1>1, <1>2, <1>3, NoneIsNoRecord DEF Document
  <1>5. batch[w].graded[a] = w
    <2>1. batch[w].graded[a] = IF StoredGraded(w)[a] # None THEN StoredGraded(w)[a]
                                 ELSE [memory[w] EXCEPT ![a] = w][a]
      BY <1>1 DEF Merged
    <2>2. [memory[w] EXCEPT ![a] = w][a] = w
      BY <1>1 DEF TypeOK, Graded
    <2> QED BY <1>1, <2>1, <2>2
  <1>6. \A b \in Attempt : document[p] # None /\ document[p].graded[b] # None =>
                             batch[w].graded[b] = document[p].graded[b]
    BY <1>1 DEF Merged, StoredGraded
  <1> QED BY <1>3, <1>4, <1>5, <1>6

(* Every step leaves a recorded answer marked in its stored session, unless *)
(* that session is deleted.                                                 *)
LEMMA NextMarkerInv ==
  ASSUME IInv, [Next]_vars
  PROVE  MarkerInv'
  <1> USE DEF IInv
  <1> SUFFICES ASSUME NEW a \in Attempt, a \notin dropped', history'[a] # None
               PROVE  /\ document'[ProfileOf(a)'] # None
                      /\ document'[ProfileOf(a)'].session = SessionOf[a]
                      /\ document'[ProfileOf(a)'].graded[a] = history'[a]
    BY DEF MarkerInv
  <1>a. SessionOf[a] \in Session
    BY SessionOfAssumption
  <1> DEFINE d == document[ProfileOf(a)]
  <1>b. history[a] # None =>
            /\ captured[SessionOf[a]] \in Capture /\ ProfileOf(a) \in Profile
            /\ ProfileOf(a)' = ProfileOf(a)
            /\ a \notin dropped =>
                  d # None /\ d.session = SessionOf[a] /\ d.graded[a] = history[a]
    <2> SUFFICES ASSUME history[a] # None
                 PROVE  /\ captured[SessionOf[a]] \in Capture /\ ProfileOf(a) \in Profile
                        /\ ProfileOf(a)' = ProfileOf(a)
                        /\ a \notin dropped =>
                              d # None /\ d.session = SessionOf[a] /\ d.graded[a] = history[a]
      OBVIOUS
    <2>1. captured[SessionOf[a]] # None
      BY DEF AnswerInv
    <2>2. captured[SessionOf[a]] \in Capture
      BY <1>a, <2>1 DEF TypeOK
    <2>3. captured'[SessionOf[a]] = captured[SessionOf[a]]
      BY <1>a, <2>1, CapturedStays
    <2> QED BY <2>2, <2>3 DEF Capture, ProfileOf, MarkerInv
  <1>1. ASSUME NEW w \in Window, NEW s \in Session, NEW o \in User \cup {GuestOwner},
               StartSession(w, s, o)
        PROVE  /\ document'[ProfileOf(a)'] = d /\ history'[a] = history[a] /\ a \notin dropped
    <2> DEFINE p == CaptureOf(o).profile
    <2>1. history'[a] = history[a] /\ dropped \subseteq dropped'
      BY <1>1 DEF StartSession
    <2>2. \/ document' = document
          \/ /\ document' = [document EXCEPT ![p] = [session |-> s, graded |-> Ungraded]]
             /\ dropped' = dropped \cup MarkersIn(p)
      BY <1>1 DEF StartSession
    <2>3. a \notin dropped
      BY <2>1
    <2>4. ProfileOf(a) # p \/ document' = document
      BY <1>b, <2>1, <2>2, <2>3 DEF MarkersIn
    <2> QED BY <1>b, <2>1, <2>2, <2>3, <2>4 DEF TypeOK
  <1>2. ASSUME NEW w \in Window, SaveSession(w)
        PROVE  /\ document'[ProfileOf(a)'] # None
               /\ document'[ProfileOf(a)'].session = SessionOf[a]
               /\ document'[ProfileOf(a)'].graded[a] = history'[a]
    <2> DEFINE p == captured[open[w]].profile
               graded == IF document[p] = None THEN memory[w]
                                               ELSE Merged(document[p].graded, memory[w])
    <2>1. history'[a] = history[a] /\ dropped' = dropped
      BY <1>2 DEF SaveSession
    <2>2. document' = [document EXCEPT ![p] = [session |-> open[w], graded |-> graded]]
      BY <1>2 DEF SaveSession
    <2>3. document[p] # None => document[p].session = open[w]
      BY <1>2 DEF SaveSession
    <2>4. CASE p # ProfileOf(a)
      BY <1>b, <2>1, <2>2, <2>4 DEF TypeOK
    <2>5. CASE p = ProfileOf(a)
      <3>1. d # None /\ open[w] = SessionOf[a] /\ d.graded[a] = history[a]
        BY <1>b, <2>1, <2>3, <2>5
      <3>2. graded[a] = history[a]
        BY <2>1, <2>5, <3>1 DEF Merged
      <3>3. document'[p] = [session |-> open[w], graded |-> graded]
        BY <1>b, <2>1, <2>2, <2>5 DEF TypeOK
      <3>4. document'[p] \in Document
        <4>1. document'[p] # None
          <5>1. graded \in Graded
            BY <1>b, <2>1, <2>5, <3>1, MergedType DEF TypeOK, Document
          <5> QED BY <1>a, <3>1, <3>3, <5>1, NoneIsNoRecord DEF Document
        <4> QED BY <1>b, <2>1, <2>5, <4>1, NextTypeOK DEF TypeOK
      <3> QED BY <1>b, <2>1, <2>5, <3>1, <3>2, <3>3, <3>4, NoneIsNoRecord
    <2> QED BY <2>4, <2>5
  <1>3. ASSUME NEW w \in Window, ClearSession(w)
        PROVE  /\ document'[ProfileOf(a)'] = d /\ history'[a] = history[a] /\ a \notin dropped
    <2> DEFINE p == captured[open[w]].profile
    <2>1. history'[a] = history[a] /\ dropped \subseteq dropped'
      BY <1>3 DEF ClearSession
    <2>2. \/ document' = document
          \/ /\ document' = [document EXCEPT ![p] = None]
             /\ dropped' = dropped \cup MarkersIn(p)
      BY <1>3 DEF ClearSession
    <2>3. a \notin dropped
      BY <2>1
    <2>4. ProfileOf(a) # p \/ document' = document
      BY <1>b, <2>1, <2>2, <2>3 DEF MarkersIn
    <2> QED BY <1>b, <2>1, <2>2, <2>3, <2>4 DEF TypeOK
  <1>4. ASSUME NEW w \in Window, CommitApplied(w) \/ CommitRejected(w)
        PROVE  /\ document'[ProfileOf(a)'] # None
               /\ document'[ProfileOf(a)'].session = SessionOf[a]
               /\ document'[ProfileOf(a)'].graded[a] = history'[a]
    <2>1. pc[w] = "commit" /\ UNCHANGED <<captured, dropped>>
      BY <1>4, CommitSteps
    <2>2. CASE UNCHANGED storageVars
      BY <1>b, <2>1, <2>2
    <2>3. CASE RevisionsMatch(w) /\ ApplyBatch(w)
      <3> DEFINE p == ProfileOf(attempt[w])
      <3>1. /\ attempt[w] \in Attempt
            /\ document[p] # None => document[p].session = SessionOf[attempt[w]]
            /\ history' = [history EXCEPT ![attempt[w]] = w]
            /\ document' = [document EXCEPT ![p] =
                               [session |-> SessionOf[attempt[w]], graded |-> batch[w].graded]]
        BY <2>1, <2>3, CommitEffect
      <3>2. /\ document'[p] # None
            /\ document'[p].session = SessionOf[attempt[w]]
            /\ document'[p].graded[attempt[w]] = w
            /\ \A b \in Attempt : document[p] # None /\ document[p].graded[b] # None =>
                                     document'[p].graded[b] = document[p].graded[b]
        BY <2>1, <2>3, CommitMarks
      <3>3. ProfileOf(a)' = ProfileOf(a)
        BY <2>1 DEF ProfileOf
      <3>4. CASE a = attempt[w]
        BY <3>1, <3>2, <3>3, <3>4 DEF TypeOK, Graded
      <3>5. CASE a # attempt[w]
        <4>1. history'[a] = history[a] /\ a \notin dropped
          BY <2>1, <3>1, <3>5 DEF TypeOK, Graded
        <4>2. d # None /\ d.session = SessionOf[a] /\ d.graded[a] = history[a]
          BY <1>b, <4>1
        <4>3. CASE ProfileOf(a) = p
          BY <3>1, <3>2, <3>3, <4>1, <4>2, <4>3
        <4>4. CASE ProfileOf(a) # p
          BY <1>b, <3>1, <3>3, <4>1, <4>2, <4>4 DEF TypeOK
        <4> QED BY <4>3, <4>4
      <3> QED BY <3>4, <3>5
    <2> QED BY <1>4, <2>2, <2>3, CommitSteps
  <1>5. CASE UNCHANGED <<document, captured, dropped>> /\ history'[a] = history[a]
    BY <1>b, <1>5
  <1>6. history'[a] = history[a] \/ \E w \in Window : CommitApplied(w) \/ CommitRejected(w)
    BY HistoryMoves
  <1> QED BY <1>b, <1>1, <1>2, <1>3, <1>4, <1>5, <1>6, DocumentMoves DEF vars

-----------------------------------------------------------------------------
(* Where answers belong, and how claims move that.                          *)

(* The current guest's sessions are the ones a claim or a quarantine moves; *)
(* every other session keeps its archive and its queue, and the archive is  *)
(* not the current guest's.                                                 *)
LEMMA RotationRoutes ==
  ASSUME IInv, NEW s \in Session, captured[s] # None, UNCHANGED captured
  PROVE  /\ \A u \in User : ClaimGuestForUser(u) =>
               \/ /\ captured[s].owner = GuestOwner /\ captured[s].generation = generation
                  /\ RouteNow(s) = [profile |-> guest, owner |-> GuestOwner]
                  /\ RouteNow(s)' = [profile |-> u, owner |-> u]
               \/ /\ RouteNow(s)' = RouteNow(s)
                  /\ RouteNow(s).profile # guest /\ RouteNow(s).owner # GuestOwner
         /\ QuarantineGuest =>
               \/ /\ captured[s].owner = GuestOwner /\ captured[s].generation = generation
                  /\ RouteNow(s) = [profile |-> guest, owner |-> GuestOwner]
                  /\ RouteNow(s)' = [profile |-> guest, owner |-> Ambiguous]
               \/ /\ RouteNow(s)' = RouteNow(s)
                  /\ RouteNow(s).profile # guest /\ RouteNow(s).owner # GuestOwner
  <1> USE DEF IInv
  <1> DEFINE c == captured[s]
  <1>1. c \in Capture
    BY DEF TypeOK
  <1>2. /\ profileRoute[guest] = None /\ claimRoute[generation] = None
        /\ guest \in Guest /\ generation \in Generation
        /\ claimRoute \in [Generation -> User \cup {Ambiguous, None}]
        /\ profileRoute \in [Guest -> User \cup {None}]
        /\ guest \notin recovery /\ \A g \in recovery : profileRoute[g] = None
    BY DEF OwnershipInv, TypeOK, OwnershipTypeOK, Destination
  <1>3. ASSUME NEW u \in User, ClaimGuestForUser(u)
        PROVE  /\ claimRoute' = [claimRoute EXCEPT ![generation] = u]
               /\ profileRoute' = [profileRoute EXCEPT ![guest] = u]
    BY <1>3 DEF ClaimGuestForUser, RotateGeneration
  <1>4. ASSUME QuarantineGuest
        PROVE  /\ claimRoute' = [claimRoute EXCEPT ![generation] = Ambiguous]
               /\ profileRoute' = profileRoute
    BY <1>4 DEF QuarantineGuest, RotateGeneration
  <1>5. CASE c.owner # GuestOwner
    <2>1. c.profile = c.owner /\ c.owner \in User /\ c.profile \notin Guest
      BY <1>1, <1>5, DistinctAssumption DEF CaptureInv, Capture
    <2>2. /\ RouteNow(s) = [profile |-> c.profile, owner |-> c.owner]
          /\ RouteNow(s)' = [profile |-> c.profile, owner |-> c.owner]
      BY <1>5, <2>1 DEF RouteNow, OwnerNow, ResolveProfile
    <2> QED BY <1>2, <1>5, <2>1, <2>2
  <1>6. CASE c.owner = GuestOwner
    <2>1. /\ c.profile \in Guest /\ c.generation \in Generation
          /\ claimRoute[c.generation] = None => c.generation = generation /\ c.profile = guest
          /\ claimRoute[c.generation] \in User =>
                 profileRoute[c.profile] = claimRoute[c.generation]
          /\ claimRoute[c.generation] = Ambiguous => c.profile \in recovery
      BY <1>6 DEF CaptureInv
    <2>2. /\ RouteNow(s).profile = IF profileRoute[c.profile] # None
                                    THEN profileRoute[c.profile] ELSE c.profile
          /\ RouteNow(s).owner = IF claimRoute[c.generation] # None
                                  THEN claimRoute[c.generation] ELSE GuestOwner
          /\ RouteNow(s) = [profile |-> RouteNow(s).profile, owner |-> RouteNow(s).owner]
          /\ RouteNow(s)'.profile = IF profileRoute'[c.profile] # None
                                     THEN profileRoute'[c.profile] ELSE c.profile
          /\ RouteNow(s)'.owner = IF claimRoute'[c.generation] # None
                                   THEN claimRoute'[c.generation] ELSE GuestOwner
          /\ RouteNow(s)' = [profile |-> RouteNow(s)'.profile, owner |-> RouteNow(s)'.owner]
      BY <1>6, <2>1 DEF RouteNow, OwnerNow, ResolveProfile, ResolveGeneration
    <2>3. CASE c.generation = generation
      <3>1. RouteNow(s) = [profile |-> guest, owner |-> GuestOwner] /\ c.profile = guest
        BY <1>2, <2>1, <2>2, <2>3
      <3>2. ASSUME NEW u \in User, ClaimGuestForUser(u)
            PROVE  RouteNow(s)' = [profile |-> u, owner |-> u]
        BY <1>2, <1>3, <2>2, <2>3, <3>1, <3>2, DistinctAssumption
      <3>3. ASSUME QuarantineGuest
            PROVE  RouteNow(s)' = [profile |-> guest, owner |-> Ambiguous]
        BY <1>2, <1>4, <2>2, <2>3, <3>1, <3>3, DistinctAssumption
      <3> QED BY <1>6, <2>3, <3>1, <3>2, <3>3
    <2>4. CASE c.generation # generation
      <3>1. c.profile # guest /\ claimRoute[c.generation] # None
        BY <1>2, <2>1, <2>4, DistinctAssumption
      <3>2. RouteNow(s).profile # guest /\ RouteNow(s).owner # GuestOwner
        BY <1>2, <2>1, <2>2, <3>1, DistinctAssumption
      <3>3. ASSUME NEW u \in User, ClaimGuestForUser(u)
            PROVE  RouteNow(s)' = RouteNow(s)
        BY <1>2, <1>3, <2>1, <2>2, <2>4, <3>1, <3>3
      <3>4. ASSUME QuarantineGuest
            PROVE  RouteNow(s)' = RouteNow(s)
        BY <1>2, <1>4, <2>1, <2>2, <2>4, <3>1, <3>4
      <3> QED BY <3>2, <3>3, <3>4
    <2> QED BY <2>3, <2>4
  <1> QED BY <1>5, <1>6

(* Nothing but a claim or a quarantine moves an answer.                     *)
LEMMA RoutesStay ==
  ASSUME IInv, [Next]_vars, NEW s \in Session, captured[s] # None,
         ~\E u \in User : ClaimGuest(u), ~Quarantine
  PROVE  RouteNow(s)' = RouteNow(s) /\ OwnerNow(s)' = OwnerNow(s)
  <1>1. captured'[s] = captured[s]
    BY CapturedStays
  <1>2. UNCHANGED <<profileRoute, claimRoute>>
    BY OwnershipMoves DEF vars, StartSession, FinishMove, FinishGuestClaim
  <1> QED BY <1>1, <1>2, StableRoutes

(* Commits, edits and claims are all that writes archives.                  *)
LEMMA ArchiveMoves ==
  ASSUME [Next]_vars
  PROVE  \/ archive' = archive /\ ~\E u \in User : ClaimGuest(u)
         \/ \E w \in Window : CommitApplied(w) \/ CommitRejected(w)
         \/ \E p \in Profile : EditArchive(p)
         \/ \E u \in User : ClaimGuest(u)
  <1>1. ASSUME NEW w \in Window,
               \/ \E s \in Session, o \in User \cup {GuestOwner} : StartSession(w, s, o)
               \/ \E p \in Profile : OpenSession(w, p)
               \/ SaveSession(w) \/ ClearSession(w)
               \/ \E a \in Attempt : Begin(w, a)
               \/ Preview(w) \/ Read(w) \/ CommitConflict(w) \/ Confirm(w) \/ Adopt(w)
               \/ Crash(w)
        PROVE  archive' = archive
    BY <1>1 DEF StartSession, OpenSession, SaveSession, ClearSession, Begin, Preview, Read,
                CommitConflict, Confirm, Adopt, Crash
  <1>2. ASSUME \/ Quarantine
               \/ \E n \in Generation : ListRows(n) \/ FinishMove(n)
               \/ \E a \in Attempt : CopyRow(a) \/ DropRow(a)
               \/ \E u \in User, a \in Attempt : Deliver(u, a) \/ RemoveRow(u, a)
        PROVE  archive' = archive
    BY <1>2 DEF Quarantine, ListRows, FinishMove, CopyRow, DropRow, Deliver, RemoveRow
  <1> QED BY <1>1, <1>2 DEF Next, vars

-----------------------------------------------------------------------------
(* The archives.                                                            *)

(* The archive writes of each step, in one place.                           *)
LEMMA CommitArchive ==
  ASSUME IInv, NEW w \in Window, CommitApplied(w) \/ CommitRejected(w)
  PROVE  \/ UNCHANGED <<archive, history>>
         \/ /\ attempt[w] \in Attempt /\ route[w] = RouteNow(SessionOf[attempt[w]])
            /\ route[w].profile \in Profile
            /\ captured[SessionOf[attempt[w]]] # None
            /\ attempt[w] \notin dropped => history[attempt[w]] = None
            /\ history' = [history EXCEPT ![attempt[w]] = w]
            /\ archive' = [archive EXCEPT ![route[w].profile] = Advanced(w)]
            /\ Advanced(w) \in Archive /\ Advanced(w) # None
            /\ \A a \in Attempt : Advanced(w).reviews[a] =
                  (IF archive[route[w].profile] = None THEN 0
                   ELSE archive[route[w].profile].reviews[a])
                  + (IF a = attempt[w] THEN 1 ELSE 0)
            /\ archive[route[w].profile] # None =>
                  Advanced(w).edits = archive[route[w].profile].edits
  <1> USE DEF IInv
  <1> DEFINE p == route[w].profile
  <1>1. CASE UNCHANGED storageVars
    BY <1>1
  <1>2. CASE RevisionsMatch(w) /\ ApplyBatch(w)
    <2>1. pc[w] = "commit"
      BY CommitSteps
    <2>2. /\ attempt[w] \in Attempt /\ SessionOf[attempt[w]] \in Session
          /\ route[w] = RouteNow(SessionOf[attempt[w]]) /\ p \in Profile
          /\ captured[SessionOf[attempt[w]]] \in Capture
          /\ attempt[w] \notin dropped => history[attempt[w]] = None
          /\ history' = [history EXCEPT ![attempt[w]] = w]
          /\ archive' = [archive EXCEPT ![p] = Advanced(w)]
      BY <1>2, <2>1, CommitEffect
    <2> DEFINE base == IF archive[p] = None THEN EmptyArchive ELSE archive[p]
    <2>3. base \in Archive
      BY <2>2, EmptyTypes DEF TypeOK
    <2>4. Advanced(w) = [base EXCEPT !.reviews[attempt[w]] = @ + 1]
      BY DEF Advanced
    <2>5. \A a \in Attempt : base.reviews[a] = IF archive[p] = None THEN 0 ELSE archive[p].reviews[a]
      BY DEF EmptyArchive
    <2> HIDE DEF base
    <2>6. Advanced(w) \in Archive
      BY <2>2, <2>3, <2>4 DEF Archive
    <2>7. \A a \in Attempt :
             Advanced(w).reviews[a] = base.reviews[a] + (IF a = attempt[w] THEN 1 ELSE 0)
      BY <2>2, <2>3, <2>4 DEF Archive
    <2>8. Advanced(w).edits = base.edits
      BY <2>3, <2>4 DEF Archive
    <2>9. archive[p] # None => Advanced(w).edits = archive[p].edits
      BY <2>8 DEF base
    <2> QED BY <2>2, <2>5, <2>6, <2>7, <2>9, NoneIsNoRecord
  <1> QED BY <1>1, <1>2, CommitSteps

(* An edit of settings changes one archive and none of its reviews.         *)
LEMMA EditedArchive ==
  ASSUME IInv, NEW selected \in Profile, EditArchive(selected)
  PROVE  \E p \in Profile, new \in Archive :
            /\ archive' = [archive EXCEPT ![p] = new] /\ new # None
            /\ new.reviews = IF archive[p] = None THEN [a \in Attempt |-> 0]
                              ELSE archive[p].reviews
            /\ new.edits = {edited'} \cup (IF archive[p] = None THEN {} ELSE archive[p].edits)
  <1> USE DEF IInv
  <1> DEFINE p == ResolveProfile(selected)
             base == IF archive[p] = None THEN EmptyArchive ELSE archive[p]
             new == [base EXCEPT !.edits = @ \cup {edited'}]
  <1>1. p \in Profile
    BY DEF TypeOK, OwnershipTypeOK, ResolveProfile, Profile
  <1>2. base \in Archive
    BY <1>1, EmptyTypes DEF TypeOK
  <1>3. base.reviews = IF archive[p] = None THEN [a \in Attempt |-> 0] ELSE archive[p].reviews
    BY DEF EmptyArchive
  <1>4. archive' = [archive EXCEPT ![p] = new] /\ edited' \in Nat
    BY DEF EditArchive, TypeOK
  <1>5. base.edits = IF archive[p] = None THEN {} ELSE archive[p].edits
    BY DEF EmptyArchive
  <1> HIDE DEF base, p
  <1>6. /\ new \in Archive /\ new.reviews = base.reviews
        /\ new.edits = {edited'} \cup base.edits
    BY <1>2, <1>4 DEF Archive
  <1> QED BY <1>1, <1>3, <1>4, <1>5, <1>6, NoneIsNoRecord

(* A claim moves the guest's archive to an account that has no progress, or *)
(* moves none.                                                              *)
LEMMA ClaimedArchive ==
  ASSUME IInv, NEW u \in User, ClaimGuest(u)
  PROVE  /\ ClaimGuestForUser(u) /\ UNCHANGED <<captured, history, dropped>>
         /\ u \in Profile /\ guest \in Profile /\ u # guest
         /\ \/ archive[guest] = None /\ archive' = archive
            \/ /\ archive[guest] # None /\ (archive[u] = None \/ archive[u] = EmptyArchive)
               /\ archive'[u] = archive[guest] /\ archive'[guest] = None
               /\ \A p \in Profile : p # u /\ p # guest => archive'[p] = archive[p]
  BY DistinctAssumption DEF IInv, TypeOK, OwnershipTypeOK, ClaimGuest, Profile

(* Nothing but an edit counts as one.                                       *)
LEMMA EditsCounted ==
  ASSUME [Next]_vars
  PROVE  edited' = edited \/ \E p \in Profile : EditArchive(p)
  <1>1. ASSUME NEW w \in Window,
               \/ \E s \in Session, o \in User \cup {GuestOwner} : StartSession(w, s, o)
               \/ \E p \in Profile : OpenSession(w, p)
               \/ SaveSession(w) \/ ClearSession(w)
               \/ \E a \in Attempt : Begin(w, a)
               \/ Preview(w) \/ Read(w) \/ CommitConflict(w) \/ Confirm(w) \/ Adopt(w)
               \/ Crash(w) \/ CommitApplied(w) \/ CommitRejected(w)
        PROVE  edited' = edited
    BY <1>1 DEF StartSession, OpenSession, SaveSession, ClearSession, Begin, Preview, Read,
                CommitConflict, Confirm, Adopt, Crash, CommitApplied, CommitRejected, countVars
  <1>2. ASSUME \/ \E u \in User : ClaimGuest(u)
               \/ Quarantine
               \/ \E n \in Generation : ListRows(n) \/ FinishMove(n)
               \/ \E a \in Attempt : CopyRow(a) \/ DropRow(a)
               \/ \E u \in User, a \in Attempt : Deliver(u, a) \/ RemoveRow(u, a)
        PROVE  edited' = edited
    BY <1>2 DEF ClaimGuest, Quarantine, ListRows, FinishMove, CopyRow, DropRow, Deliver, RemoveRow, countVars
  <1> QED BY <1>1, <1>2 DEF Next, vars, countVars

(* No step loses an edit. A commit keeps those of the archive it advances,  *)
(* for no other write came between its snapshot and its batch; a claim      *)
(* overwrites an empty archive only.                                        *)
LEMMA NextNoEditLost ==
  ASSUME IInv, NoEditLost, [Next]_vars
  PROVE  NoEditLost'
  <1> USE DEF IInv
  <1> DEFINE Holds(e) == \E p \in Profile : archive[p] # None /\ e \in archive[p].edits
  <1>1. edited \in Nat /\ archive \in [Profile -> Archive \cup {None}]
    BY DEF TypeOK
  <1>2. ASSUME NEW e, Holds(e), ~\E p \in Profile : EditArchive(p)
        PROVE  Holds(e)'
    <2>1. PICK q \in Profile : archive[q] # None /\ e \in archive[q].edits
      BY <1>2
    <2>2. ASSUME NEW w \in Window, CommitApplied(w) \/ CommitRejected(w)
          PROVE  Holds(e)'
      <3> DEFINE p == route[w].profile
      <3>1. CASE archive' = archive
        BY <2>1, <3>1
      <3>2. CASE archive' # archive
        <4>1. /\ p \in Profile /\ archive' = [archive EXCEPT ![p] = Advanced(w)]
              /\ Advanced(w) # None
              /\ archive[p] # None => Advanced(w).edits = archive[p].edits
          BY <2>2, <3>2, CommitArchive
        <4> HIDE DEF p
        <4>2. archive'[q] # None /\ e \in archive'[q].edits
          BY <1>1, <2>1, <4>1
        <4> QED BY <2>1, <4>2
      <3> QED BY <3>1, <3>2
    <2>3. ASSUME NEW u \in User, ClaimGuest(u)
          PROVE  Holds(e)'
      <3>1. /\ u \in Profile /\ guest \in Profile
            /\ \/ archive' = archive
               \/ /\ archive[u] = None \/ archive[u] = EmptyArchive
                  /\ archive[guest] # None
                  /\ archive'[u] = archive[guest]
                  /\ \A p \in Profile : p # u /\ p # guest => archive'[p] = archive[p]
        BY <2>3, ClaimedArchive
      <3>2. q # u \/ archive' = archive
        BY <2>1, <3>1 DEF EmptyArchive
      <3> QED BY <2>1, <3>1, <3>2
    <2> QED BY <1>2, <2>1, <2>2, <2>3, ArchiveMoves
  <1>3. ASSUME NEW selected \in Profile, EditArchive(selected)
        PROVE  NoEditLost'
    <2>1. edited' = edited + 1
      BY <1>3 DEF EditArchive
    <2>2. PICK p \in Profile, new \in Archive :
             /\ archive' = [archive EXCEPT ![p] = new] /\ new # None
             /\ new.edits = {edited'} \cup (IF archive[p] = None THEN {} ELSE archive[p].edits)
      BY <1>3, EditedArchive
    <2>3. archive'[p] # None /\ edited' \in archive'[p].edits
      BY <1>1, <2>2
    <2>4. ASSUME NEW e, Holds(e)
          PROVE  Holds(e)'
      <3>1. PICK q \in Profile : archive[q] # None /\ e \in archive[q].edits
        BY <2>4
      <3>2. archive'[q] # None /\ e \in archive'[q].edits
        BY <1>1, <2>2, <3>1
      <3> QED BY <3>1, <3>2
    <2>5. ASSUME NEW e \in 1..edited'
          PROVE  Holds(e)'
      <3>1. CASE e \in 1..edited
        BY <2>4, <3>1 DEF NoEditLost
      <3>2. CASE e = edited'
        BY <2>3, <3>2
      <3> QED BY <1>1, <2>1, <3>1, <3>2
    <2> QED BY <2>5 DEF NoEditLost
  <1>4. CASE ~\E p \in Profile : EditArchive(p)
    BY <1>2, <1>4, EditsCounted DEF NoEditLost
  <1> QED BY <1>3, <1>4

(* Every step leaves a recorded answer with an archive where its session's  *)
(* profile resolves to.                                                     *)
LEMMA NextArchiveInv ==
  ASSUME IInv, [Next]_vars
  PROVE  ArchiveInv'
  <1> USE DEF IInv
  <1> SUFFICES ASSUME NEW a \in Attempt, history'[a] # None
               PROVE  archive'[RouteNow(SessionOf[a])'.profile] # None
    BY DEF ArchiveInv
  <1> DEFINE s == SessionOf[a]
  <1>1. s \in Session
    BY SessionOfAssumption
  <1>2. history[a] # None => captured[s] # None /\ archive[RouteNow(s).profile] # None
                             /\ RouteNow(s).profile \in Profile
    BY <1>1, RouteNowType DEF AnswerInv, ArchiveInv
  <1>3. ASSUME NEW u \in User, ClaimGuest(u)
        PROVE  archive'[RouteNow(s)'.profile] # None
    <2>1. history[a] # None
      BY <1>3, ClaimedArchive
    <2>2. \/ RouteNow(s).profile = guest /\ RouteNow(s)'.profile = u
          \/ RouteNow(s)' = RouteNow(s) /\ RouteNow(s).profile # guest
      BY <1>1, <1>2, <1>3, <2>1, ClaimedArchive, RotationRoutes
    <2>3. CASE archive[guest] = None /\ archive' = archive
      BY <1>2, <2>1, <2>2, <2>3
    <2>4. CASE /\ archive[guest] # None /\ archive'[u] = archive[guest]
               /\ \A p \in Profile : p # u /\ p # guest => archive'[p] = archive[p]
      BY <1>2, <2>1, <2>2, <2>4
    <2> QED BY <1>3, <2>3, <2>4, ClaimedArchive
  <1>4. ASSUME Quarantine
        PROVE  archive'[RouteNow(s)'.profile] # None
    <2>1. UNCHANGED <<archive, history, captured>> /\ QuarantineGuest
      BY <1>4 DEF Quarantine
    <2>2. RouteNow(s)'.profile = RouteNow(s).profile
      BY <1>1, <1>2, <2>1, RotationRoutes
    <2> QED BY <1>2, <2>1, <2>2
  <1>5. ASSUME ~Quarantine, ~\E u \in User : ClaimGuest(u)
        PROVE  archive'[RouteNow(s)'.profile] # None
    <2>1. captured[s] # None => RouteNow(s)' = RouteNow(s)
      BY <1>1, <1>5, RoutesStay
    <2>2. ASSUME NEW w \in Window, CommitApplied(w) \/ CommitRejected(w)
          PROVE  archive'[RouteNow(s)'.profile] # None
      <3>1. CASE UNCHANGED <<archive, history>>
        BY <1>2, <2>1, <3>1
      <3>2. CASE ~UNCHANGED <<archive, history>>
        <4>1. /\ attempt[w] \in Attempt /\ route[w] = RouteNow(SessionOf[attempt[w]])
              /\ route[w].profile \in Profile /\ captured[SessionOf[attempt[w]]] # None
              /\ history' = [history EXCEPT ![attempt[w]] = w]
              /\ archive' = [archive EXCEPT ![route[w].profile] = Advanced(w)]
              /\ Advanced(w) # None
          BY <2>2, <3>2, CommitArchive
        <4>2. CASE a = attempt[w]
          <5>1. RouteNow(s)' = route[w]
            BY <2>1, <4>1, <4>2
          <5>2. archive'[route[w].profile] = Advanced(w)
            BY <4>1 DEF TypeOK
          <5> QED BY <4>1, <5>1, <5>2
        <4>3. CASE a # attempt[w]
          BY <1>2, <2>1, <4>1, <4>3 DEF TypeOK, Graded
        <4> QED BY <4>2, <4>3
      <3> QED BY <3>1, <3>2
    <2>3. CASE ~\E w \in Window : CommitApplied(w) \/ CommitRejected(w)
      <3>1. history' = history
        BY <2>3, HistoryMoves
      <3>2. archive' = archive \/ \E p \in Profile : EditArchive(p)
        BY <1>5, <2>3, ArchiveMoves
      <3>3. ASSUME NEW q \in Profile, EditArchive(q)
            PROVE  archive'[RouteNow(s)'.profile] # None
        <4>1. PICK p \in Profile, new \in Archive :
                      archive' = [archive EXCEPT ![p] = new] /\ new # None
          BY <3>3, EditedArchive
        <4> QED BY <1>2, <2>1, <3>1, <4>1 DEF TypeOK
      <3> QED BY <1>2, <2>1, <3>1, <3>2, <3>3
    <2> QED BY <2>2, <2>3
  <1> QED BY <1>3, <1>4, <1>5

(* A deleted session is never undeleted.                                    *)
LEMMA DroppedStays ==
  ASSUME [Next]_vars
  PROVE  dropped \subseteq dropped'
  BY DocumentMoves
     DEF StartSession, SaveSession, ClearSession, CommitApplied, CommitRejected, vars

(* Every step leaves each answer counted once, in the archive its profile   *)
(* resolves to.                                                             *)
LEMMA NextReviewedOnce ==
  ASSUME IInv, [Next]_vars
  PROVE  ReviewedOnce'
  <1> USE DEF IInv
  <1> SUFFICES ASSUME NEW a \in Attempt, a \notin dropped', NEW p \in Profile, archive'[p] # None
               PROVE  archive'[p].reviews[a] =
                         IF history'[a] # None /\ p = RouteNow(SessionOf[a])'.profile
                         THEN 1 ELSE 0
    BY DEF ReviewedOnce
  <1> DEFINE s == SessionOf[a]
             Goal == archive'[p].reviews[a] =
                         IF history'[a] # None /\ p = RouteNow(s)'.profile THEN 1 ELSE 0
  <1>1. s \in Session /\ a \notin dropped
    BY SessionOfAssumption, DroppedStays
  <1>2. history[a] # None => captured[s] # None /\ archive[RouteNow(s).profile] # None
                             /\ RouteNow(s).profile \in Profile
    BY <1>1, RouteNowType DEF AnswerInv, ArchiveInv
  <1>3. \A q \in Profile : archive[q] # None =>
            archive[q].reviews[a] =
                IF history[a] # None /\ q = RouteNow(s).profile THEN 1 ELSE 0
    BY <1>1 DEF ReviewedOnce
  <1>4. ASSUME NEW u \in User, ClaimGuest(u)
        PROVE  Goal
    <2>1. /\ ClaimGuestForUser(u) /\ captured' = captured /\ history' = history
          /\ u \in Profile /\ guest \in Profile /\ u # guest
      BY <1>4, ClaimedArchive
    <2>2. history[a] # None =>
             \/ RouteNow(s).profile = guest /\ RouteNow(s)'.profile = u
             \/ RouteNow(s)' = RouteNow(s) /\ RouteNow(s).profile # guest
      BY <1>1, <1>2, <2>1, RotationRoutes
    <2>3. CASE archive[guest] = None /\ archive' = archive
      <3>1. history[a] # None => RouteNow(s)' = RouteNow(s)
        BY <1>2, <2>2, <2>3
      <3> QED BY <1>3, <2>1, <2>3, <3>1
    <2>4. CASE /\ archive[guest] # None /\ (archive[u] = None \/ archive[u] = EmptyArchive)
               /\ archive'[u] = archive[guest] /\ archive'[guest] = None
               /\ \A q \in Profile : q # u /\ q # guest => archive'[q] = archive[q]
      <3>1. history[a] # None => RouteNow(s).profile # u
        <4> SUFFICES ASSUME history[a] # None, RouteNow(s).profile = u
                     PROVE  FALSE
          OBVIOUS
        <4>1. archive[u] = EmptyArchive /\ archive[u].reviews[a] = 1
          BY <1>2, <1>3, <2>1, <2>4
        <4> QED BY <4>1 DEF EmptyArchive
      <3>2. CASE p = u
        BY <1>2, <1>3, <2>1, <2>2, <2>4, <3>1, <3>2
      <3>3. CASE p # u
        BY <1>2, <1>3, <2>1, <2>2, <2>4, <3>1, <3>3
      <3> QED BY <3>2, <3>3
    <2> QED BY <1>4, <2>3, <2>4, ClaimedArchive
  <1>5. ASSUME Quarantine
        PROVE  Goal
    <2>1. UNCHANGED <<archive, history, captured>> /\ QuarantineGuest
      BY <1>5 DEF Quarantine
    <2>2. history[a] # None => RouteNow(s)'.profile = RouteNow(s).profile
      BY <1>1, <1>2, <2>1, RotationRoutes
    <2> QED BY <1>3, <2>1, <2>2
  <1>6. ASSUME ~Quarantine, ~\E u \in User : ClaimGuest(u)
        PROVE  Goal
    <2>1. captured[s] # None => RouteNow(s)' = RouteNow(s)
      BY <1>1, <1>6, RoutesStay
    <2>2. ASSUME NEW w \in Window, CommitApplied(w) \/ CommitRejected(w)
          PROVE  Goal
      <3>1. CASE UNCHANGED <<archive, history>>
        BY <1>2, <1>3, <2>1, <3>1
      <3>2. CASE ~UNCHANGED <<archive, history>>
        <4> DEFINE q == route[w].profile
        <4>1. /\ attempt[w] \in Attempt /\ route[w] = RouteNow(SessionOf[attempt[w]])
              /\ q \in Profile /\ captured[SessionOf[attempt[w]]] # None
              /\ attempt[w] \notin dropped => history[attempt[w]] = None
              /\ history' = [history EXCEPT ![attempt[w]] = w]
              /\ archive' = [archive EXCEPT ![q] = Advanced(w)]
              /\ Advanced(w).reviews[a] =
                    (IF archive[q] = None THEN 0 ELSE archive[q].reviews[a])
                    + (IF a = attempt[w] THEN 1 ELSE 0)
          BY <2>2, <3>2, CommitArchive
        <4>2. p # q => archive'[p] = archive[p]
          BY <4>1 DEF TypeOK
        <4>3. p = q => archive'[p] = Advanced(w)
          BY <4>1 DEF TypeOK
        <4>4. CASE a = attempt[w]
          <5>1. history[a] = None /\ history'[a] = w /\ w # None /\ q = RouteNow(s)'.profile
            BY <1>1, <2>1, <4>1, <4>4, NoneAssumption DEF TypeOK, Graded
          <5> QED BY <1>3, <4>1, <4>2, <4>3, <4>4, <5>1
        <4>5. CASE a # attempt[w]
          <5>1. history'[a] = history[a]
            BY <4>1, <4>5 DEF TypeOK, Graded
          <5> QED BY <1>2, <1>3, <2>1, <4>1, <4>2, <4>3, <4>5, <5>1
        <4> QED BY <4>4, <4>5
      <3> QED BY <3>1, <3>2
    <2>3. CASE ~\E w \in Window : CommitApplied(w) \/ CommitRejected(w)
      <3>1. history' = history
        BY <2>3, HistoryMoves
      <3>2. archive' = archive \/ \E q \in Profile : EditArchive(q)
        BY <1>6, <2>3, ArchiveMoves
      <3>3. ASSUME NEW selected \in Profile, EditArchive(selected)
            PROVE  Goal
        <4>1. PICK q \in Profile, new \in Archive :
                      /\ archive' = [archive EXCEPT ![q] = new] /\ new # None
                      /\ new.reviews = IF archive[q] = None THEN [b \in Attempt |-> 0]
                                        ELSE archive[q].reviews
          BY <3>3, EditedArchive
        <4>2. CASE p = q
          <5>1. archive'[p].reviews[a] = IF archive[p] = None THEN 0 ELSE archive[p].reviews[a]
            BY <4>1, <4>2 DEF TypeOK
          <5> QED BY <1>2, <1>3, <2>1, <3>1, <5>1
        <4>3. CASE p # q
          BY <1>2, <1>3, <2>1, <3>1, <4>1, <4>3 DEF TypeOK
        <4> QED BY <4>2, <4>3
      <3> QED BY <1>2, <1>3, <2>1, <3>1, <3>2, <3>3
    <2> QED BY <2>2, <2>3
  <1> QED BY <1>4, <1>5, <1>6

-----------------------------------------------------------------------------
(* The upload queues.                                                       *)

(* Every step that leaves the queues, the deliveries and the claim alone.   *)
LEMMA QueueMoves ==
  ASSUME [Next]_vars
  PROVE  \/ UNCHANGED <<outbox, delivered, pending, listed, overtaken>>
            /\ (~\E u \in User : ClaimGuest(u)) /\ ~Quarantine
         \/ \E w \in Window : CommitApplied(w) \/ CommitRejected(w)
         \/ \E u \in User : ClaimGuest(u)
         \/ Quarantine
         \/ \E n \in Generation : ListRows(n) \/ FinishMove(n)
         \/ \E a \in Attempt : CopyRow(a) \/ DropRow(a)
         \/ \E u \in User, a \in Attempt : Deliver(u, a) \/ RemoveRow(u, a)
  <1>1. ASSUME NEW w \in Window,
               \/ \E s \in Session, o \in User \cup {GuestOwner} : StartSession(w, s, o)
               \/ \E p \in Profile : OpenSession(w, p)
               \/ SaveSession(w) \/ ClearSession(w)
               \/ \E a \in Attempt : Begin(w, a)
               \/ Preview(w) \/ Read(w) \/ CommitConflict(w) \/ Confirm(w) \/ Adopt(w)
               \/ Crash(w)
        PROVE  UNCHANGED <<outbox, delivered, pending, listed, overtaken>>
    BY <1>1 DEF StartSession, OpenSession, SaveSession, ClearSession, Begin, Preview, Read,
                CommitConflict, Confirm, Adopt, Crash
  <1>2. ASSUME NEW p \in Profile, EditArchive(p)
        PROVE  UNCHANGED <<outbox, delivered, pending, listed, overtaken>>
    BY <1>2 DEF EditArchive
  <1> QED BY <1>1, <1>2 DEF Next, vars

(* A row in a mover's list goes where its session belongs now.              *)
LEMMA MovingTo ==
  ASSUME IInv, NEW a \in Attempt, listed[a] # None
  PROVE  /\ listed[a].owner = OwnerNow(SessionOf[a]) /\ listed[a].row = history[a]
         /\ listed[a].owner \in Owner /\ listed[a].owner # GuestOwner
         /\ history[a] # None /\ captured[SessionOf[a]] # None
  <1>1. /\ listed[a] = [row |-> history[a], owner |-> OwnerNow(SessionOf[a])]
        /\ captured[SessionOf[a]] # None
    BY DEF IInv, QueueInv
  <1>2. listed[a].row \in Window /\ listed[a].owner \in User \cup {Ambiguous}
    BY DEF IInv, TypeOK, Move, Destination
  <1> QED BY <1>1, <1>2, DistinctAssumption, NoneAssumption DEF Owner

(* A row of a claimed generation belongs to where the claim went.           *)
LEMMA GuestRowBelongs ==
  ASSUME IInv, NEW n \in Generation, NEW a \in Attempt, GuestRow(n, a)
  PROVE  /\ captured[SessionOf[a]].owner = GuestOwner
         /\ outbox[GuestOwner][a] = history[a]
         /\ claimRoute[n] # None => OwnerNow(SessionOf[a]) = claimRoute[n]
  <1>1. captured[SessionOf[a]] # None /\ captured[SessionOf[a]].generation = n
    BY DEF GuestRow
  <1>2. captured[SessionOf[a]].owner = GuestOwner
    BY <1>1, SessionOfAssumption, DistinctAssumption DEF IInv, CaptureInv
  <1>3. outbox[GuestOwner][a] = history[a]
    BY DEF GuestRow, IInv, AnswerInv, Owner
  <1> QED BY <1>1, <1>2, <1>3 DEF OwnerNow, ResolveGeneration

(* Every step leaves a recorded answer queued for its owner, delivered to   *)
(* it, or still in the guest queue, and the movers' lists true.             *)
LEMMA NextQueueInv ==
  ASSUME IInv, [Next]_vars
  PROVE  QueueInv'
  <1> USE DEF IInv
  <1> DEFINE Now(a) == OwnerNow(SessionOf[a])
             Placed(a) == \A o \in Owner : outbox[o][a] # None =>
                            \/ o = Now(a)
                            \/ o = GuestOwner /\ captured[SessionOf[a]].owner = GuestOwner
             Waiting(a) == history[a] # None =>
                            \/ outbox[Now(a)][a] # None
                            \/ Now(a) \in delivered[a]
                            \/ outbox[GuestOwner][a] # None
             Listed(a) == listed[a] # None =>
                            /\ captured[SessionOf[a]] # None
                            /\ captured[SessionOf[a]].owner = GuestOwner
                            /\ listed[a] = [row |-> history[a], owner |-> Now(a)]
                            /\ claimRoute[captured[SessionOf[a]].generation] # None
             Queued(a) == Placed(a) /\ Waiting(a) /\ Listed(a)
  <1> SUFFICES ASSUME NEW a \in Attempt
               PROVE  Queued(a)'
    BY DEF QueueInv
  <1> DEFINE s == SessionOf[a]
  <1>1. s \in Session
    BY SessionOfAssumption
  <1>2. Placed(a) /\ Waiting(a) /\ Listed(a)
    BY DEF QueueInv
  <1>3. history[a] # None => captured[s] # None
    BY DEF AnswerInv
  <1>4. \A o \in Owner : outbox[o][a] # None => history[a] # None
    BY DEF AnswerInv
  <1>5. /\ delivered[a] \subseteq User /\ GuestOwner \notin User /\ GuestOwner \in Owner
        /\ \A u \in User : u \in Owner
    BY DistinctAssumption DEF TypeOK, Owner
  <1>6. captured[s] # None => OwnerNow(s) = RouteNow(s).owner /\ OwnerNow(s)' = RouteNow(s)'.owner
    BY DEF RouteNow
  <1>7. ASSUME \/ \E u \in User : ClaimGuest(u)
               \/ Quarantine
        PROVE  Queued(a)'
    <2>1. /\ UNCHANGED <<outbox, history, delivered, captured, listed>>
          /\ \/ QuarantineGuest
             \/ \E u \in User : ClaimGuestForUser(u)
      BY <1>7 DEF ClaimGuest, ClaimGuestForUser, Quarantine, QuarantineGuest
    <2>2. \A n \in Generation : claimRoute[n] # None => claimRoute'[n] = claimRoute[n]
      <3>1. claimRoute[generation] = None /\ claimRoute \in [Generation -> Destination \cup {None}]
        BY DEF OwnershipInv, TypeOK, OwnershipTypeOK
      <3> QED BY <2>1, <3>1 DEF QuarantineGuest, ClaimGuestForUser, RotateGeneration
    <2>3. CASE captured[s] = None
      BY <1>2, <1>3, <1>4, <2>1, <2>3
    <2>4. CASE captured[s] # None /\ RouteNow(s)' = RouteNow(s)
      <3>1. OwnerNow(s)' = OwnerNow(s)
        BY <1>6, <2>4
      <3>2. listed[a] # None => captured[s].generation \in Generation
        BY <1>1, <1>2 DEF CaptureInv
      <3> QED BY <1>2, <2>1, <2>2, <3>1, <3>2
    <2>5. CASE captured[s] # None /\ RouteNow(s)' # RouteNow(s)
      <3>1. /\ captured[s].owner = GuestOwner /\ captured[s].generation = generation
            /\ RouteNow(s).owner = GuestOwner
        BY <1>1, <2>1, <2>5, RotationRoutes
      <3>2. OwnerNow(s) = GuestOwner /\ GuestOwner \notin delivered[a]
        BY <1>5, <1>6, <2>5, <3>1
      <3>3. history[a] # None => outbox[GuestOwner][a] # None
        BY <1>2, <3>2
      <3>4. listed[a] = None
        BY <1>2, <3>1 DEF OwnershipInv
      <3>5. Placed(a)'
        BY <1>2, <2>1, <3>1, <3>2
      <3> QED BY <2>1, <3>3, <3>4, <3>5
    <2> QED BY <2>3, <2>4, <2>5
  <1>8. ASSUME ~Quarantine, ~\E u \in User : ClaimGuest(u)
        PROVE  Queued(a)'
    <2>1. captured[s] # None => /\ OwnerNow(s)' = OwnerNow(s)
                                /\ captured'[s] = captured[s]
      BY <1>1, <1>8, RoutesStay, CapturedStays
    <2>2. claimRoute' = claimRoute
      BY <1>8, OwnershipMoves DEF vars, StartSession, FinishMove, FinishGuestClaim
    <2>3. captured[s] # None => OwnerNow(s) \in Owner
      BY <1>1, <1>6, RouteNowType
    <2>4. ASSUME ~\E w \in Window : CommitApplied(w) \/ CommitRejected(w)
          PROVE  history'[a] = history[a]
      BY <2>4, HistoryMoves
    <2>5. CASE UNCHANGED <<outbox, delivered, listed>> /\ history'[a] = history[a]
      BY <1>2, <1>3, <1>4, <2>1, <2>2, <2>5
    <2>6. ASSUME NEW w \in Window, CommitApplied(w) \/ CommitRejected(w)
          PROVE  Queued(a)'
      <3>1. pc[w] = "commit" /\ UNCHANGED <<delivered, listed, captured>>
        BY <2>6, CommitSteps DEF CommitApplied, CommitRejected
      <3>2. CASE UNCHANGED storageVars
        BY <2>5, <3>1, <3>2
      <3>3. CASE RevisionsMatch(w) /\ ApplyBatch(w)
        <4> DEFINE b == attempt[w]
        <4>1. /\ b \in Attempt /\ SessionOf[b] \in Session /\ captured[SessionOf[b]] \in Capture
              /\ route[w] = RouteNow(SessionOf[b]) /\ route[w].owner \in Owner
              /\ history[b] \in {None, w}
              /\ history' = [history EXCEPT ![b] = w]
              /\ outbox' = [outbox EXCEPT ![route[w].owner][b] = w]
          BY <3>1, <3>3, CommitEffect
        <4>2. captured[SessionOf[b]] # None /\ route[w].owner = OwnerNow(SessionOf[b])
              /\ w # None
          BY <4>1, NoneIsNoRecord, NoneAssumption DEF RouteNow
        <4>3. \A q \in Owner, c \in Attempt :
                 outbox'[q][c] = IF q = route[w].owner /\ c = b THEN w ELSE outbox[q][c]
          BY <4>1 DEF TypeOK, Graded
        <4>4. CASE a = b
          <5>1. history'[a] = w
            BY <4>1, <4>4 DEF TypeOK, Graded
          <5>2. listed[a] # None => history[a] = w
            BY <4>1, <4>4, MovingTo
          <5>3. Listed(a)'
            BY <1>2, <2>1, <2>2, <3>1, <5>1, <5>2
          <5>4. Placed(a)' /\ Waiting(a)'
            BY <1>2, <2>1, <3>1, <4>1, <4>2, <4>3, <4>4
          <5> QED BY <5>3, <5>4
        <4>5. CASE a # b
          <5>1. /\ \A q \in Owner : outbox'[q][a] = outbox[q][a]
                /\ history'[a] = history[a]
            BY <4>1, <4>3, <4>5 DEF TypeOK, Graded
          <5> QED BY <1>2, <1>3, <1>4, <1>5, <2>1, <2>2, <2>3, <3>1, <5>1
        <4> QED BY <4>4, <4>5
      <3> QED BY <2>6, <3>2, <3>3, CommitSteps
    <2>7. ASSUME NEW b \in Attempt, CopyRow(b)
          PROVE  Queued(a)'
      <3>1. /\ listed[b] # None /\ UNCHANGED <<history, delivered, captured, listed>>
            /\ outbox' = [outbox EXCEPT ![listed[b].owner][b] = listed[b].row]
        BY <2>7 DEF CopyRow
      <3>2. /\ listed[b].owner = Now(b) /\ listed[b].owner \in Owner
            /\ listed[b].owner # GuestOwner
            /\ listed[b].row # None /\ captured[SessionOf[b]] # None
        BY <3>1, MovingTo
      <3>3. \A q \in Owner, c \in Attempt :
               outbox'[q][c] = IF q = listed[b].owner /\ c = b THEN listed[b].row
                               ELSE outbox[q][c]
        BY <3>1, <3>2 DEF TypeOK, Graded
      <3>4. Listed(a)'
        BY <1>2, <2>1, <2>2, <3>1
      <3>5. CASE a = b
        <4>1. Placed(a)'
          BY <1>2, <2>1, <3>1, <3>2, <3>3, <3>5
        <4>2. outbox'[Now(a)][a] # None
          BY <3>2, <3>3, <3>5
        <4> QED BY <2>1, <3>2, <3>4, <3>5, <4>1, <4>2
      <3>6. CASE a # b
        BY <1>2, <1>3, <1>4, <1>5, <2>1, <2>3, <3>1, <3>3, <3>4, <3>6
      <3> QED BY <3>5, <3>6
    <2>8. ASSUME NEW b \in Attempt, DropRow(b)
          PROVE  Queued(a)'
      <3>1. /\ listed[b] # None /\ UNCHANGED <<history, delivered, captured, listed>>
            /\ \/ outbox[listed[b].owner][b] = listed[b].row
               \/ listed[b].owner \in delivered[b]
            /\ outbox' = [outbox EXCEPT ![GuestOwner][b] = None]
        BY <2>8 DEF DropRow
      <3>2. /\ listed[b].owner = Now(b) /\ listed[b].owner \in Owner
            /\ listed[b].owner # GuestOwner
            /\ listed[b].row # None /\ captured[SessionOf[b]] # None
        BY <3>1, MovingTo
      <3>3. \A q \in Owner, c \in Attempt :
               outbox'[q][c] = IF q = GuestOwner /\ c = b THEN None ELSE outbox[q][c]
        BY <1>5, <3>1 DEF TypeOK, Graded
      <3>4. Listed(a)'
        BY <1>2, <2>1, <2>2, <3>1
      <3>5. CASE a = b
        <4>1. Placed(a)'
          BY <1>2, <2>1, <3>1, <3>2, <3>3, <3>5
        <4>2. outbox'[Now(a)][a] # None \/ Now(a) \in delivered'[a]
          BY <3>1, <3>2, <3>3, <3>5
        <4> QED BY <2>1, <3>2, <3>4, <3>5, <4>1, <4>2
      <3>6. CASE a # b
        BY <1>2, <1>3, <1>4, <1>5, <2>1, <2>3, <3>1, <3>3, <3>4, <3>6
      <3> QED BY <3>5, <3>6
    <2>9. ASSUME NEW n \in Generation, FinishMove(n)
          PROVE  Queued(a)'
      BY <2>5, <2>9 DEF FinishMove
    <2>10. ASSUME NEW n \in Generation, ListRows(n)
           PROVE  Queued(a)'
      <3>1. /\ UNCHANGED <<outbox, history, delivered, captured>> /\ claimRoute[n] # None
            /\ listed'[a] = IF GuestRow(n, a)
                            THEN [row |-> outbox[GuestOwner][a], owner |-> claimRoute[n]]
                            ELSE listed[a]
        BY <2>10 DEF ListRows
      <3>2. CASE GuestRow(n, a)
        <4>1. /\ listed'[a] = [row |-> history[a], owner |-> Now(a)]
              /\ captured[s].owner = GuestOwner /\ captured[s] # None
              /\ captured[s].generation = n
          BY <3>1, <3>2, GuestRowBelongs DEF GuestRow
        <4> QED BY <1>2, <2>1, <2>2, <3>1, <4>1
      <3>3. CASE ~GuestRow(n, a)
        BY <1>2, <1>3, <1>4, <2>1, <2>2, <3>1, <3>3
      <3> QED BY <3>2, <3>3
    <2>11. ASSUME NEW u \in User, NEW b \in Attempt, Deliver(u, b)
           PROVE  Queued(a)'
      <3>1. UNCHANGED <<outbox, history, listed, captured>> /\ delivered[a] \subseteq delivered'[a]
        BY <2>11 DEF Deliver, TypeOK
      <3> QED BY <1>2, <1>3, <1>4, <2>1, <2>2, <3>1
    <2>12. ASSUME NEW u \in User, NEW b \in Attempt, RemoveRow(u, b)
           PROVE  Queued(a)'
      <3>1. /\ UNCHANGED <<history, delivered, listed, captured>> /\ u \in delivered[b]
            /\ outbox' = [outbox EXCEPT ![u][b] = None]
        BY <2>12 DEF RemoveRow
      <3>2. \A q \in Owner, c \in Attempt :
               outbox'[q][c] = IF q = u /\ c = b THEN None ELSE outbox[q][c]
        BY <1>5, <3>1 DEF TypeOK, Graded
      <3>3. Listed(a)'
        BY <1>2, <2>1, <2>2, <3>1
      <3> QED BY <1>2, <1>3, <1>4, <1>5, <2>1, <2>3, <3>1, <3>2, <3>3
    <2> QED
      BY <1>8, <2>4, <2>5, <2>6, <2>7, <2>8, <2>9, <2>10, <2>11, <2>12, QueueMoves
  <1> QED BY <1>7, <1>8

(* Only a commit adds a row to the guest queue, and only for the current,   *)
(* unclaimed generation.                                                    *)
LEMMA GuestRowsShrink ==
  ASSUME IInv, [Next]_vars, NEW n \in Generation, claimRoute[n] # None, NEW a \in Attempt,
         GuestRow(n, a)'
  PROVE  GuestRow(n, a)
  <1> USE DEF IInv
  <1>1. GuestOwner \in Owner /\ SessionOf[a] \in Session /\ GuestOwner \notin User
    BY SessionOfAssumption, DistinctAssumption DEF Owner
  <1>2. SUFFICES outbox[GuestOwner][a] # None
    <2>1. captured[SessionOf[a]] # None
      BY <1>1, <1>2 DEF AnswerInv
    <2>2. captured'[SessionOf[a]] = captured[SessionOf[a]]
      BY <1>1, <2>1, CapturedStays
    <2> QED BY <1>2, <2>1, <2>2 DEF GuestRow
  <1>3. outbox'[GuestOwner][a] # None /\ captured'[SessionOf[a]].generation = n
    BY DEF GuestRow
  <1>4. ASSUME NEW w \in Window, CommitApplied(w) \/ CommitRejected(w)
        PROVE  outbox[GuestOwner][a] # None
    <2>1. pc[w] = "commit" /\ captured' = captured
      BY <1>4, CommitSteps
    <2>2. CASE UNCHANGED storageVars
      BY <1>3, <2>2
    <2>3. CASE RevisionsMatch(w) /\ ApplyBatch(w)
      <3> DEFINE b == attempt[w]
      <3>1. /\ b \in Attempt /\ SessionOf[b] \in Session /\ captured[SessionOf[b]] \in Capture
            /\ route[w] = RouteNow(SessionOf[b]) /\ route[w].owner \in Owner
            /\ outbox' = [outbox EXCEPT ![route[w].owner][b] = w]
        BY <2>1, <2>3, CommitEffect
      <3>2. route[w].owner = OwnerNow(SessionOf[b])
        BY <3>1 DEF RouteNow
      <3>3. outbox'[GuestOwner][a] = IF route[w].owner = GuestOwner /\ a = b THEN w
                                     ELSE outbox[GuestOwner][a]
        BY <1>1, <3>1 DEF TypeOK, Graded
      <3>4. ~(route[w].owner = GuestOwner /\ a = b)
        <4> SUFFICES ASSUME route[w].owner = GuestOwner, a = b
                     PROVE  FALSE
          OBVIOUS
        <4>1. captured[SessionOf[a]] # None /\ captured[SessionOf[a]].generation = n
          BY <1>3, <2>1, <3>1, NoneIsNoRecord
        <4>2. captured[SessionOf[a]].owner = GuestOwner
          BY <1>1, <4>1, DistinctAssumption DEF CaptureInv
        <4>3. OwnerNow(SessionOf[a]) = claimRoute[n]
          BY <4>1, <4>2 DEF OwnerNow, ResolveGeneration
        <4>4. claimRoute[n] \in User \cup {Ambiguous}
          BY DEF TypeOK, OwnershipTypeOK, Destination
        <4> QED BY <3>2, <4>3, <4>4, DistinctAssumption
      <3> QED BY <1>3, <3>3, <3>4
    <2> QED BY <1>4, <2>2, <2>3, CommitSteps
  <1>5. ASSUME NEW b \in Attempt, CopyRow(b)
        PROVE  outbox[GuestOwner][a] # None
    <2>1. /\ listed[b] # None
          /\ outbox' = [outbox EXCEPT ![listed[b].owner][b] = listed[b].row]
      BY <1>5 DEF CopyRow
    <2>2. listed[b].owner \in Owner /\ listed[b].owner # GuestOwner
      BY <2>1, MovingTo
    <2> QED BY <1>1, <1>3, <2>1, <2>2 DEF TypeOK, Graded
  <1>6. ASSUME NEW b \in Attempt, DropRow(b) \/ \E u \in User : RemoveRow(u, b)
        PROVE  outbox[GuestOwner][a] # None
    <2>1. CASE DropRow(b)
      BY <1>1, <1>3, <2>1 DEF DropRow, TypeOK, Graded
    <2>2. ASSUME NEW u \in User, RemoveRow(u, b)
          PROVE  outbox[GuestOwner][a] # None
      <3>1. u \in Owner /\ u # GuestOwner
        BY <1>1 DEF Owner
      <3> QED BY <1>1, <1>3, <2>2, <3>1 DEF RemoveRow, TypeOK, Graded
    <2> QED BY <1>6, <2>1, <2>2
  <1>7. ASSUME \/ \E u \in User : ClaimGuest(u)
               \/ Quarantine
               \/ \E m \in Generation : ListRows(m) \/ FinishMove(m)
               \/ \E u \in User, b \in Attempt : Deliver(u, b)
        PROVE  outbox[GuestOwner][a] # None
    BY <1>3, <1>7 DEF ClaimGuest, Quarantine, ListRows, FinishMove, Deliver
  <1> QED BY <1>3, <1>4, <1>5, <1>6, <1>7, QueueMoves

(* Every step leaves a row behind in the guest queue only with its claim    *)
(* still pending, or overtaken by another mover's finish.                   *)
LEMMA NextLeftBehindInv ==
  ASSUME IInv, [Next]_vars
  PROVE  LeftBehindInv'
  <1> USE DEF IInv
  <1> SUFFICES ASSUME NEW n \in Generation, claimRoute'[n] # None,
                      NEW a \in Attempt, GuestRow(n, a)'
               PROVE  \/ pending' = [source |-> n, destination |-> claimRoute'[n]]
                      \/ n \in overtaken'
    BY DEF LeftBehindInv
  <1>1. CASE claimRoute[n] = None
    <2>1. /\ \/ QuarantineGuest
             \/ \E u \in User : ClaimGuestForUser(u)
          /\ generation \in Generation
          /\ claimRoute \in [Generation -> Destination \cup {None}]
      BY <1>1, OwnershipMoves
         DEF vars, StartSession, ClaimGuest, Quarantine, FinishMove, FinishGuestClaim, TypeOK,
             OwnershipTypeOK
    <2>2. \E d : /\ claimRoute' = [claimRoute EXCEPT ![generation] = d]
                 /\ pending' = [source |-> generation, destination |-> d]
      BY <2>1 DEF QuarantineGuest, ClaimGuestForUser, RotateGeneration
    <2> QED BY <1>1, <2>1, <2>2
  <1>2. CASE claimRoute[n] # None
    <2>1. GuestRow(n, a)
      BY <1>2, GuestRowsShrink
    <2>2. \/ pending = [source |-> n, destination |-> claimRoute[n]]
          \/ n \in overtaken
      BY <1>2, <2>1 DEF LeftBehindInv
    <2>3. claimRoute[generation] = None /\ claimRoute \in [Generation -> Destination \cup {None}]
      BY DEF OwnershipInv, TypeOK, OwnershipTypeOK
    <2>4. ASSUME \/ \E u \in User : ClaimGuest(u)
                 \/ Quarantine
          PROVE  n \in overtaken'
      <3>1. pending = None /\ overtaken' = overtaken
        BY <2>4 DEF ClaimGuest, ClaimGuestForUser, Quarantine, QuarantineGuest
      <3>2. None # [source |-> n, destination |-> claimRoute[n]]
        BY <1>2, <2>3, NoPendingAssumption DEF PendingClaim
      <3> QED BY <2>2, <3>1, <3>2
    <2>5. ASSUME NEW m \in Generation, FinishMove(m)
          PROVE  n \in overtaken'
      <3>1. /\ ~GuestRow(m, a) /\ overtaken' = overtaken \cup ({pending.source} \ {m})
        BY <2>5 DEF FinishMove
      <3>2. m # n
        BY <2>1, <3>1
      <3> QED BY <2>2, <3>1, <3>2
    <2>6. ASSUME ~Quarantine, ~\E u \in User : ClaimGuest(u)
          PROVE  claimRoute' = claimRoute
      BY <2>6, OwnershipMoves DEF vars, StartSession, FinishMove, FinishGuestClaim
    <2>7. ASSUME \/ \E w \in Window : CommitApplied(w) \/ CommitRejected(w)
                 \/ \E m \in Generation : ListRows(m)
                 \/ \E b \in Attempt : CopyRow(b) \/ DropRow(b)
                 \/ \E u \in User, b \in Attempt : Deliver(u, b) \/ RemoveRow(u, b)
          PROVE  UNCHANGED <<pending, overtaken, claimRoute>>
      BY <2>7 DEF CommitApplied, CommitRejected, ListRows, CopyRow, DropRow, Deliver, RemoveRow
    <2> QED BY <1>2, <2>2, <2>4, <2>5, <2>6, <2>7, QueueMoves
  <1> QED BY <1>1, <1>2

-----------------------------------------------------------------------------
(* Snapshots.                                                               *)

(* What a commit prepares depends on nothing but the window's own state and *)
(* the values at the addresses of its snapshot.                             *)
LEMMA SameView ==
  ASSUME IInv, NEW v \in Window, pc[v] = "commit",
         attempt'[v] = attempt[v], route'[v] = route[v], memory'[v] = memory[v],
         captured'[SessionOf[attempt[v]]] = captured[SessionOf[attempt[v]]],
         RouteNow(SessionOf[attempt[v]])' = RouteNow(SessionOf[attempt[v]]),
         archive'[route[v].profile] = archive[route[v].profile],
         history'[attempt[v]] = history[attempt[v]],
         outbox'[route[v].owner][attempt[v]] = outbox[route[v].owner][attempt[v]],
         document'[ProfileOf(attempt[v])] = document[ProfileOf(attempt[v])]
  PROVE  /\ Outcome(v)' = Outcome(v)
         /\ Preparable(v)' = Preparable(v)
         /\ Prepare(v)' = Prepare(v)
  <1> DEFINE a == attempt[v]
             s == SessionOf[a]
  <1>1. ProfileOf(attempt[v])' = ProfileOf(attempt[v])
    BY DEF ProfileOf
  <1>2. /\ Marker(attempt[v])' = Marker(attempt[v])
        /\ StoredGraded(v)' = StoredGraded(v)
    BY <1>1 DEF Marker, StoredGraded
  <1>3. OwnerNow(SessionOf[attempt[v]])' = OwnerNow(SessionOf[attempt[v]])
    BY DEF RouteNow
  <1>4. Outcome(v)' = Outcome(v)
    BY <1>2, <1>3 DEF Outcome
  <1>5. Preparable(v)' = Preparable(v)
    BY <1>1, <1>2 DEF Preparable
  <1>6. Advanced(v)' = Advanced(v)
    BY DEF Advanced
  <1>7. Prepare(v)' = Prepare(v)
    BY <1>1, <1>2, <1>6 DEF Prepare, ArchiveOf, SessionKey, HistoryOf, RowOf
  <1> QED BY <1>4, <1>5, <1>7

(* A snapshot that a write leaves untouched does not read what was written. *)
LEMMA Untouched ==
  ASSUME TypeOK, NEW A, NEW v \in Window, pc[v] = "commit",
         stale'[v] = {}, stale'[v] = Outdated(A)[v]
  PROVE  /\ stale[v] = {}
         /\ ArchiveOf(route[v].profile) \notin A
         /\ HistoryOf(attempt[v]) \notin A
         /\ RowOf(route[v].owner, attempt[v]) \notin A
         /\ Claims \notin A /\ Profiles \notin A
         /\ SessionKey(ProfileOf(attempt[v])) \notin A
  <1>1. Outdated(A)[v] = stale[v] \cup (A \cap ReadSet(v))
    BY DEF Outdated
  <1>2. stale[v] = {} /\ A \cap ReadSet(v) = {}
    BY <1>1
  <1> QED BY <1>2 DEF ReadSet

(* Every step leaves the batches on current snapshots what they would be if *)
(* prepared now.                                                            *)
LEMMA NextSnapshotsCoherent ==
  ASSUME IInv, [Next]_vars
  PROVE  SnapshotsCoherent'
  <1> USE DEF IInv
  <1> SUFFICES ASSUME NEW v \in Window, pc'[v] = "commit", stale'[v] = {}
               PROVE  (/\ route[v] = RouteNow(SessionOf[attempt[v]])
                       /\ Outcome(v) = "absent"
                       /\ Preparable(v)
                       /\ batch[v] = Prepare(v))'
    BY DEF SnapshotsCoherent, RevisionsMatch
  <1> DEFINE a == attempt[v]
             s == SessionOf[a]
             p == ProfileOf(a)
             Coherent == /\ route[v] = RouteNow(s)
                         /\ Outcome(v) = "absent"
                         /\ Preparable(v)
                         /\ batch[v] = Prepare(v)
             Kept == /\ attempt'[v] = a /\ route'[v] = route[v] /\ memory'[v] = memory[v]
                     /\ batch'[v] = batch[v]
             Claimed == Quarantine \/ \E u \in User : ClaimGuest(u)
             SameRead == /\ archive'[route[v].profile] = archive[route[v].profile]
                         /\ history'[a] = history[a]
                         /\ outbox'[route[v].owner][a] = outbox[route[v].owner][a]
                         /\ document'[p] = document[p]
  <1>1. ASSUME pc[v] = "commit", stale[v] = {}, Kept, SameRead,
               UNCHANGED <<profileRoute, claimRoute>>
        PROVE  Coherent'
    <2>1. Coherent
      BY <1>1 DEF SnapshotsCoherent, RevisionsMatch
    <2>2. s \in Session /\ captured[s] # None
      BY <1>1, BusyWindow, NoneIsNoRecord
    <2>3. captured'[s] = captured[s] /\ RouteNow(s)' = RouteNow(s)
      BY <1>1, <2>2, CapturedStays, StableRoutes
    <2>4. Outcome(v)' = Outcome(v) /\ Preparable(v)' = Preparable(v) /\ Prepare(v)' = Prepare(v)
      BY <1>1, <2>3, SameView
    <2>5. RouteNow(SessionOf[attempt[v]])' = RouteNow(s)
      BY <1>1, <2>3 DEF RouteNow, OwnerNow, ResolveProfile, ResolveGeneration
    <2> QED BY <1>1, <2>1, <2>4, <2>5
  <1> HIDE DEF Coherent
  <1>2. ASSUME NEW A, Touch(A)
        PROVE  pc[v] = "commit" => stale'[v] = Outdated(A)[v]
    BY <1>2 DEF Touch
  <1>3. pc[v] = "commit" => a \in Attempt /\ route[v].profile \in Profile /\ route[v].owner \in Owner
                            /\ p \in Profile
    BY BusyWindow
  <1>4. ASSUME NEW w \in Window,
               \/ \E t \in Session, o \in User \cup {GuestOwner} : StartSession(w, t, o)
               \/ SaveSession(w) \/ ClearSession(w)
               \/ \E q \in Profile : OpenSession(w, q)
        PROVE  Coherent'
    <2>1. /\ pc' = pc /\ pc[w] = "idle" /\ pc[v] = "commit" /\ v # w
          /\ UNCHANGED <<archive, history, outbox, attempt, route, batch>>
      BY <1>4 DEF StartSession, SaveSession, ClearSession, OpenSession
    <2>2. memory'[v] = memory[v] /\ UNCHANGED <<profileRoute, claimRoute>>
      BY <1>4, <2>1 DEF StartSession, SaveSession, ClearSession, OpenSession, TypeOK
    <2>3. \/ document' = document /\ stale' = stale
          \/ \E q : /\ Touch({SessionKey(q)})
                    /\ document' = document \/ \E d : document' = [document EXCEPT ![q] = d]
      BY <1>4 DEF StartSession, SaveSession, ClearSession, OpenSession
    <2>4. stale[v] = {} /\ document'[p] = document[p]
      <3>1. CASE document' = document /\ stale' = stale
        BY <3>1
      <3>2. ASSUME NEW q, Touch({SessionKey(q)}),
                   document' = document \/ \E d : document' = [document EXCEPT ![q] = d]
            PROVE  stale[v] = {} /\ document'[p] = document[p]
        <4>1. stale[v] = {} /\ SessionKey(p) \notin {SessionKey(q)}
          BY <1>2, <2>1, <3>2, Untouched
        <4>2. p # q
          BY <4>1
        <4> QED BY <1>3, <2>1, <3>2, <4>1, <4>2 DEF TypeOK
      <3> QED BY <2>3, <3>1, <3>2
    <2> QED BY <1>1, <2>1, <2>2, <2>4
  <1>5. ASSUME NEW w \in Window, CommitApplied(w) \/ CommitRejected(w)
        PROVE  Coherent'
    <2>1. /\ pc[w] = "commit" /\ v # w /\ pc[v] = "commit"
          /\ UNCHANGED <<captured, profileRoute, claimRoute>> /\ Kept
      BY <1>5 DEF CommitApplied, CommitRejected, Finish, Goto, TypeOK
    <2>2. CASE UNCHANGED storageVars /\ stale' = [stale EXCEPT ![w] = {}]
      BY <1>1, <2>1, <2>2 DEF TypeOK
    <2>3. CASE RevisionsMatch(w) /\ ApplyBatch(w)
      <3> DEFINE b == attempt[w]
                 W == batch[w].writes
      <3>1. /\ b \in Attempt /\ ProfileOf(b) \in Profile
            /\ route[w].profile \in Profile /\ route[w].owner \in Owner
        BY <2>1, BusyWindow
      <3>2. stale'[v] = Outdated(W)[v]
        BY <2>1, <2>3 DEF ApplyBatch, Outdated
      <3>3. /\ stale[v] = {} /\ ArchiveOf(route[v].profile) \notin W /\ HistoryOf(a) \notin W
            /\ RowOf(route[v].owner, a) \notin W /\ SessionKey(p) \notin W
        BY <2>1, <3>2, Untouched
      <3>4. ArchiveOf(route[w].profile) \in W /\ SessionKey(ProfileOf(b)) \in W
        <4>1. batch[w] = Prepare(w)
          BY <2>1, <2>3 DEF SnapshotsCoherent
        <4> QED BY <4>1 DEF Prepare
      <3>5. archive'[route[v].profile] = archive[route[v].profile] /\ document'[p] = document[p]
        <4>1. route[w].profile # route[v].profile /\ ProfileOf(b) # p
          BY <3>3, <3>4
        <4> HIDE DEF W
        <4> QED BY <1>3, <2>1, <2>3, <3>1, <4>1 DEF ApplyBatch, TypeOK
      <3>6. history'[a] = history[a]
        <4>1. CASE HistoryOf(b) \in W
          <5>1. a # b
            BY <3>3, <4>1
          <5> QED BY <1>3, <2>1, <2>3, <3>1, <5>1 DEF ApplyBatch, TypeOK, Graded
        <4>2. CASE HistoryOf(b) \notin W
          BY <2>3, <4>2 DEF ApplyBatch
        <4> QED BY <4>1, <4>2
      <3>7. outbox'[route[v].owner][a] = outbox[route[v].owner][a]
        <4>1. CASE RowOf(route[w].owner, b) \in W
          <5>1. ~(route[v].owner = route[w].owner /\ a = b)
            BY <3>3, <4>1
          <5>2. outbox' = [outbox EXCEPT ![route[w].owner][b] = w]
            BY <2>3, <4>1 DEF ApplyBatch
          <5> QED BY <1>3, <2>1, <3>1, <5>1, <5>2 DEF TypeOK, Graded
        <4>2. CASE RowOf(route[w].owner, b) \notin W
          BY <2>3, <4>2 DEF ApplyBatch
        <4> QED BY <4>1, <4>2
      <3> QED BY <1>1, <2>1, <3>3, <3>5, <3>6, <3>7
    <2> QED BY <1>5, <2>2, <2>3, CommitSteps
  <1>6. ASSUME NEW w \in Window,
               \/ \E b \in Attempt : Begin(w, b)
               \/ Preview(w) \/ CommitConflict(w) \/ Confirm(w) \/ Adopt(w) \/ Crash(w)
               \/ Read(w) /\ v # w
        PROVE  Coherent'
    <2>1. UNCHANGED <<storageVars, profileRoute, claimRoute>>
      BY <1>6 DEF Begin, Preview, CommitConflict, Confirm, Adopt, Crash, Read
    <2>2. v # w
      BY <1>6 DEF Begin, Preview, CommitConflict, Confirm, Adopt, Crash, TryAgain, Goto, Finish,
                  Rethrow, TypeOK
    <2>3. pc[v] = "commit" /\ stale[v] = {} /\ Kept
      BY <1>6, <2>2 DEF Begin, Preview, CommitConflict, Confirm, Adopt, Crash, TryAgain, Goto,
                        Finish, Rethrow, TypeOK, Read
    <2> QED BY <1>1, <2>1, <2>3
  <1>7. ASSUME Read(v)
        PROVE  Coherent'
    <2>1. /\ UNCHANGED <<storageVars, captured, ownershipVars>>
          /\ pc[v] = "read" /\ UNCHANGED <<attempt, route, memory>>
          /\ batch' = [batch EXCEPT ![v] = Prepare(v)]
          /\ route[v] = RouteNow(s)
          /\ Outcome(v) # "recorded" /\ Outcome(v) # "foreign"
          /\ ~(Outcome(v) = "absent" /\ ~Preparable(v))
      BY <1>7 DEF Read, TryAgain, Goto, Finish, TypeOK
    <2>2. Outcome(v) = "absent"
      BY <2>1 DEF Outcome
    <2>3. batch'[v] = Prepare(v)
      BY <2>1 DEF TypeOK
    <2>4. /\ Outcome(v)' = Outcome(v) /\ Preparable(v)' = Preparable(v) /\ Prepare(v)' = Prepare(v)
          /\ RouteNow(SessionOf[attempt[v]])' = RouteNow(s)
      BY <2>1 DEF Outcome, Preparable, Prepare, Advanced, Marker, StoredGraded, RouteNow, OwnerNow,
                  ResolveProfile, ResolveGeneration, ProfileOf
    <2> QED BY <2>1, <2>2, <2>3, <2>4 DEF Coherent
  <1>8. ASSUME Claimed \/ \E n \in Generation : FinishMove(n)
        PROVE  Coherent'
    <2>1. pc' = pc
      BY <1>8 DEF ClaimGuest, Quarantine, FinishMove
    <2>2. \E A : Touch(A) /\ Claims \in A
      BY <1>8 DEF ClaimGuest, Quarantine, FinishMove
    <2> QED BY <1>2, <2>1, <2>2, Untouched
  <1>9. ASSUME \/ \E q \in Profile : EditArchive(q)
               \/ \E n \in Generation : ListRows(n)
               \/ \E b \in Attempt : CopyRow(b) \/ DropRow(b)
               \/ \E u \in User, b \in Attempt : Deliver(u, b) \/ RemoveRow(u, b)
               \/ UNCHANGED vars
        PROVE  Coherent'
    <2>1. /\ UNCHANGED <<profileRoute, claimRoute, history, document, memory, pc, attempt, route,
                         batch>>
          /\ pc[v] = "commit" /\ Kept
      BY <1>9 DEF EditArchive, ListRows, CopyRow, DropRow, Deliver, RemoveRow, vars
    <2>2. ASSUME NEW q \in Profile, EditArchive(q)
          PROVE  Coherent'
      <3> DEFINE r == ResolveProfile(q)
      <3>1. Touch({ArchiveOf(r)}) /\ outbox' = outbox
            /\ \E new : archive' = [archive EXCEPT ![r] = new]
        BY <2>2 DEF EditArchive
      <3>2. stale[v] = {} /\ ArchiveOf(route[v].profile) \notin {ArchiveOf(r)}
        BY <1>2, <2>1, <3>1, Untouched
      <3>3. route[v].profile # r
        BY <3>2
      <3> HIDE DEF r
      <3>4. archive'[route[v].profile] = archive[route[v].profile]
        BY <1>3, <2>1, <3>1, <3>3 DEF TypeOK
      <3> QED BY <1>1, <2>1, <3>1, <3>2, <3>4
    <2>3. ASSUME NEW o, NEW b, NEW x, Touch({RowOf(o, b)}), outbox' = [outbox EXCEPT ![o][b] = x],
                 archive' = archive
          PROVE  Coherent'
      <3>1. stale[v] = {} /\ RowOf(route[v].owner, a) \notin {RowOf(o, b)}
        BY <1>2, <2>1, <2>3, Untouched
      <3>2. ~(route[v].owner = o /\ a = b)
        BY <3>1
      <3>3. outbox'[route[v].owner][a] = outbox[route[v].owner][a]
        BY <1>3, <2>1, <2>3, <3>2 DEF TypeOK, Graded
      <3> QED BY <1>1, <2>1, <2>3, <3>1, <3>3
    <2>4. ASSUME UNCHANGED <<archive, outbox, stale>>
          PROVE  Coherent'
      BY <1>1, <2>1, <2>4
    <2>5. ASSUME NEW b \in Attempt, CopyRow(b) \/ DropRow(b) \/ \E u \in User : RemoveRow(u, b)
          PROVE  Coherent'
      <3>1. CASE CopyRow(b)
        BY <2>3, <3>1 DEF CopyRow
      <3>2. CASE DropRow(b)
        BY <2>3, <3>2 DEF DropRow
      <3>3. ASSUME NEW u \in User, RemoveRow(u, b)
            PROVE  Coherent'
        BY <2>3, <3>3 DEF RemoveRow
      <3> QED BY <2>5, <3>1, <3>2, <3>3
    <2>6. ASSUME NEW u \in User, NEW b \in Attempt, Deliver(u, b)
          PROVE  Coherent'
      BY <2>4, <2>6 DEF Deliver
    <2>7. CASE UNCHANGED vars \/ \E n \in Generation : ListRows(n)
      BY <2>4, <2>7 DEF vars, ListRows
    <2> QED BY <1>9, <2>2, <2>5, <2>6, <2>7
  <1> QED
    BY <1>4, <1>5, <1>6, <1>7, <1>8, <1>9 DEF Next, Coherent

-----------------------------------------------------------------------------
(* The inductive invariant.                                                 *)

(* What was reported as recorded stays reported.                            *)
LEMMA ToldGrows ==
  ASSUME [Next]_vars
  PROVE  told \subseteq told'
  <1>1. ASSUME NEW w \in Window,
               \/ \E s \in Session, o \in User \cup {GuestOwner} : StartSession(w, s, o)
               \/ \E p \in Profile : OpenSession(w, p)
               \/ SaveSession(w) \/ ClearSession(w)
               \/ \E a \in Attempt : Begin(w, a)
               \/ Preview(w) \/ Read(w) \/ CommitConflict(w) \/ Confirm(w) \/ Adopt(w)
               \/ Crash(w) \/ CommitApplied(w) \/ CommitRejected(w)
        PROVE  told \subseteq told'
    BY <1>1 DEF StartSession, OpenSession, SaveSession, ClearSession, Begin, Preview, Read,
                CommitConflict, Confirm, Adopt, Crash, CommitApplied, CommitRejected, Finish, Goto,
                TryAgain, Rethrow
  <1>2. ASSUME \/ \E p \in Profile : EditArchive(p)
               \/ \E u \in User : ClaimGuest(u)
               \/ Quarantine
               \/ \E n \in Generation : ListRows(n) \/ FinishMove(n)
               \/ \E a \in Attempt : CopyRow(a) \/ DropRow(a)
               \/ \E u \in User, a \in Attempt : Deliver(u, a) \/ RemoveRow(u, a)
        PROVE  told \subseteq told'
    BY <1>2 DEF EditArchive, ClaimGuest, Quarantine, ListRows, FinishMove, CopyRow, DropRow, Deliver,
                RemoveRow
  <1> QED BY <1>1, <1>2 DEF Next, vars

(* The inductive invariant holds initially.                                 *)
LEMMA InitIInv ==
  ASSUME Init
  PROVE  IInv
  <1>1. OwnershipTypeOK
    BY DEF Init, OwnershipInit, OwnershipTypeOK, Profile, Destination
  <1>2. TypeOK
    BY <1>1, EmptyTypes, BoundsAssumption DEF Init, TypeOK
  <1>3. OwnershipInv
    BY DEF Init, OwnershipInit, OwnershipInv
  <1>4. CaptureInv
    BY DEF Init, CaptureInv
  <1>5. SessionInv
    BY DEF Init, SessionInv, DocumentInv, WindowInv, Ungraded
  <1>6. AnswerInv /\ MarkerInv /\ ArchiveInv /\ QueueInv /\ LeftBehindInv
    BY DEF Init, OwnershipInit, AnswerInv, MarkerInv, ArchiveInv, QueueInv, LeftBehindInv, Ungraded
  <1>7. SnapshotsCoherent /\ ReviewedOnce
    BY DEF Init, SnapshotsCoherent, ReviewedOnce
  <1> QED BY <1>2, <1>3, <1>4, <1>5, <1>6, <1>7 DEF IInv

(* Every step keeps the inductive invariant.                                *)
LEMMA NextIInv ==
  ASSUME IInv, [Next]_vars
  PROVE  IInv'
  BY NextTypeOK, NextOwnershipInv, NextCaptureInv, NextDocumentInv, NextWindowInv, NextAnswerInv,
     NextMarkerInv, NextArchiveInv, NextQueueInv, NextLeftBehindInv, NextSnapshotsCoherent,
     NextReviewedOnce
     DEF IInv, SessionInv

(* Every reachable state satisfies the inductive invariant, for any number  *)
(* of windows, accounts, guests, sessions and answers and every bound.      *)
THEOREM Inductive == Spec => []IInv
  <1>1. Init => IInv
    BY InitIInv
  <1>2. IInv /\ [Next]_vars => IInv'
    BY NextIInv
  <1> QED BY <1>1, <1>2, PTL DEF Spec

(* The variables keep their types.                                          *)
THEOREM TypeCorrect == Spec => []TypeOK
  <1>1. IInv => TypeOK
    BY DEF IInv
  <1> QED BY <1>1, Inductive, PTL

(* The revisions of commit cover everything prepare looked at: a batch that *)
(* may still be applied is the batch the current state would produce.       *)
THEOREM CommitsAreCurrent == Spec => []SnapshotsCoherent
  <1>1. IInv => SnapshotsCoherent
    BY DEF IInv
  <1> QED BY <1>1, Inductive, PTL

(* An answer of a session that is still stored advances one archive once.   *)
THEOREM CountedOnce == Spec => []ReviewedOnce
  <1>1. IInv => ReviewedOnce
    BY DEF IInv
  <1> QED BY <1>1, Inductive, PTL

(* No archive edit is lost under any commit, claim or other edit.           *)
THEOREM EditsKept == Spec => []NoEditLost
  <1>1. Init => NoEditLost
    BY DEF Init, NoEditLost
  <1>2. IInv /\ NoEditLost /\ [Next]_vars => NoEditLost'
    BY NextNoEditLost
  <1> QED BY <1>1, <1>2, Inductive, PTL DEF Spec

(* History row, upload rows and session marker of an attempt agree.         *)
THEOREM CopiesAgree == Spec => []SameAnswer
  <1>1. IInv => SameAnswer
    <2> SUFFICES ASSUME IInv, NEW a \in Attempt, NEW v \in Window,
                        \/ \E o \in Owner : outbox[o][a] = v
                        \/ captured[SessionOf[a]] # None /\ Marker(a) = v
                 PROVE  history[a] = v
      BY DEF SameAnswer
    <2> USE DEF IInv
    <2>1. v # None
      BY NoneAssumption
    <2>2. CASE \E o \in Owner : outbox[o][a] = v
      BY <2>1, <2>2 DEF AnswerInv
    <2>3. CASE captured[SessionOf[a]] # None /\ Marker(a) = v
      <3>1. ProfileOf(a) \in Profile
        BY <2>3, SessionOfAssumption DEF TypeOK, Capture, ProfileOf
      <3> QED BY <2>1, <2>3, <3>1 DEF Marker, AnswerInv
    <2> QED BY <2>2, <2>3
  <1> QED BY <1>1, Inductive, PTL

(* A recorded answer waits in its owner's queue, was delivered, or is in    *)
(* the guest queue with its claim pending, unless the mover of an older     *)
(* guest of the same account finished that claim.                           *)
THEOREM NothingStranded == Spec => []NeverStranded
  <1>1. IInv => NeverStranded
    <2> SUFFICES ASSUME IInv, NEW a \in Attempt, history[a] # None
                 PROVE  LET o == OwnerNow(SessionOf[a])
                            n == captured[SessionOf[a]].generation
                        IN \/ outbox[o][a] # None
                           \/ o \in delivered[a]
                           \/ /\ outbox[GuestOwner][a] # None
                              /\ pending = [source |-> n, destination |-> o] \/ n \in overtaken
      BY DEF NeverStranded
    <2> DEFINE c == captured[SessionOf[a]]
               o == OwnerNow(SessionOf[a])
    <2>1. c # None /\ SessionOf[a] \in Session
      BY SessionOfAssumption DEF IInv, AnswerInv
    <2>2. \/ outbox[o][a] # None
          \/ o \in delivered[a]
          \/ outbox[GuestOwner][a] # None
      BY DEF IInv, QueueInv
    <2>3. CASE outbox[GuestOwner][a] # None /\ o # GuestOwner
      <3>1. c.owner = GuestOwner
        BY <2>3, DistinctAssumption DEF IInv, QueueInv, Owner
      <3>2. c.generation \in Generation
        BY <2>1, <3>1 DEF IInv, CaptureInv
      <3>3. o = claimRoute[c.generation] /\ claimRoute[c.generation] # None
        BY <2>3, <3>1 DEF OwnerNow, ResolveGeneration
      <3>4. GuestRow(c.generation, a)
        BY <2>1, <2>3 DEF GuestRow
      <3> QED BY <2>3, <3>2, <3>3, <3>4 DEF IInv, LeftBehindInv
    <2> QED BY <2>2, <2>3
  <1> QED BY <1>1, Inductive, PTL

(* Archive and upload queue of a session always have the same owner.        *)
THEOREM SingleOwner == Spec => []OneOwner
  <1>1. IInv => OneOwner
    <2> SUFFICES ASSUME IInv, NEW s \in Session, captured[s] # None
                 PROVE  LET r == RouteNow(s)
                        IN \/ r.owner \in User /\ r.profile = r.owner
                           \/ r.owner = GuestOwner /\ r.profile = guest
                           \/ r.owner = Ambiguous /\ r.profile \in recovery
      BY DEF OneOwner
    <2> USE DEF IInv
    <2> DEFINE c == captured[s]
    <2>1. c \in Capture
      BY DEF TypeOK
    <2>2. CASE c.owner # GuestOwner
      BY <2>1, <2>2, DistinctAssumption
         DEF CaptureInv, Capture, RouteNow, OwnerNow, ResolveProfile
    <2>3. CASE c.owner = GuestOwner
      BY <2>3, DistinctAssumption
         DEF CaptureInv, OwnershipInv, TypeOK, OwnershipTypeOK, Destination, RouteNow, OwnerNow,
             ResolveProfile, ResolveGeneration
    <2> QED BY <2>2, <2>3
  <1> QED BY <1>1, Inductive, PTL

(* No step unrecords or replaces an answer, or takes back a success that a  *)
(* window has shown.                                                        *)
THEOREM Finality == Spec => AnswersAreFinal
  <1>1. ASSUME IInv, [Next]_vars
        PROVE  \A a \in Attempt :
                  /\ history[a] # None => history'[a] = history[a]
                  /\ a \in told => a \in told' /\ history[a] # None
    <2> USE <1>1 DEF IInv
    <2> TAKE a \in Attempt
    <2>1. history[a] # None => history'[a] = history[a]
      <3>1. CASE history' = history
        BY <3>1
      <3>2. ASSUME NEW w \in Window, CommitApplied(w) \/ CommitRejected(w)
            PROVE  history[a] # None => history'[a] = history[a]
        <4>1. CASE RevisionsMatch(w) /\ ApplyBatch(w)
          <5>1. /\ attempt[w] \in Attempt
                /\ history[attempt[w]] = None \/ history[attempt[w]] = w
                /\ history' = [history EXCEPT ![attempt[w]] = w]
            BY <3>2, <4>1, CommitEffect, CommitSteps
          <5> QED BY <5>1 DEF TypeOK, Graded
        <4> QED BY <3>2, <4>1, CommitSteps
      <3> QED BY <3>1, <3>2, HistoryMoves
    <2>2. a \in told => a \in told'
      BY ToldGrows
    <2> QED BY <2>1, <2>2 DEF AnswerInv
  <1>2. IInv /\ [Next]_vars =>
          [\A a \in Attempt :
              /\ history[a] # None => history'[a] = history[a]
              /\ a \in told => a \in told' /\ history[a] # None]_vars
    BY <1>1
  <1> QED BY <1>2, Inductive, PTL DEF Spec, AnswersAreFinal

-----------------------------------------------------------------------------
(* The promise of AnswerLedger.                                             *)

HomeNow == [a \in Attempt |->
              IF captured[SessionOf[a]] = None THEN None ELSE OwnerNow(SessionOf[a])]

(* Without a claim, a quarantine or a new session, every answer keeps its   *)
(* owner.                                                                   *)
LEMMA HomeStays ==
  ASSUME IInv, [Next]_vars, captured' = captured, ~Quarantine, ~\E u \in User : ClaimGuest(u)
  PROVE  HomeNow' = HomeNow
  <1>1. \A a \in Attempt : captured[SessionOf[a]] # None =>
                             OwnerNow(SessionOf[a])' = OwnerNow(SessionOf[a])
    BY RoutesStay, SessionOfAssumption
  <1> QED BY <1>1 DEF HomeNow

(* A claim or a quarantine hands over the attempts of one guest, together.  *)
LEMMA Hands ==
  ASSUME IInv, captured' = captured, NEW d,
         \/ d \in User /\ ClaimGuestForUser(d)
         \/ d = Ambiguous /\ QuarantineGuest
  PROVE  \E A \in SUBSET Attempt :
            /\ \A a \in A : HomeNow[a] = GuestOwner
            /\ HomeNow' = [a \in Attempt |-> IF a \in A THEN d ELSE HomeNow[a]]
  <1> USE DEF IInv
  <1> DEFINE A == {a \in Attempt : captured[SessionOf[a]] # None
                                    /\ OwnerNow(SessionOf[a]) = GuestOwner}
             B == {a \in A : OwnerNow(SessionOf[a])' # GuestOwner}
  <1>1. \A a \in Attempt : captured[SessionOf[a]] # None =>
           \/ OwnerNow(SessionOf[a]) = GuestOwner /\ OwnerNow(SessionOf[a])' = d
           \/ OwnerNow(SessionOf[a])' = OwnerNow(SessionOf[a])
              /\ OwnerNow(SessionOf[a]) # GuestOwner
    <2> SUFFICES ASSUME NEW a \in Attempt, captured[SessionOf[a]] # None
                 PROVE  \/ OwnerNow(SessionOf[a]) = GuestOwner /\ OwnerNow(SessionOf[a])' = d
                        \/ OwnerNow(SessionOf[a])' = OwnerNow(SessionOf[a])
                           /\ OwnerNow(SessionOf[a]) # GuestOwner
      OBVIOUS
    <2>1. /\ OwnerNow(SessionOf[a]) = RouteNow(SessionOf[a]).owner
          /\ OwnerNow(SessionOf[a])' = RouteNow(SessionOf[a])'.owner
      BY DEF RouteNow
    <2> QED BY <2>1, RotationRoutes, SessionOfAssumption
  <1>2. \A a \in A : HomeNow[a] = GuestOwner
    BY DEF HomeNow
  <1>3. HomeNow' = [a \in Attempt |-> IF a \in A THEN d ELSE HomeNow[a]]
    BY <1>1 DEF HomeNow
  <1>4. A \in SUBSET Attempt
    OBVIOUS
  <1> QED BY <1>2, <1>3, <1>4

(* A new session gives its owner to attempts that had none.                 *)
LEMMA Reservations ==
  ASSUME IInv, NEW w \in Window, NEW s \in Session, NEW o \in User \cup {GuestOwner},
         StartSession(w, s, o)
  PROVE  \E A \in SUBSET Attempt :
            /\ \A a \in A : HomeNow[a] = None
            /\ HomeNow' = [a \in Attempt |-> IF a \in A THEN o ELSE HomeNow[a]]
  <1> USE DEF IInv
  <1> DEFINE A == {a \in Attempt : SessionOf[a] = s}
             c == CaptureOf(o)
  <1>1. c \in Capture
    BY DEF TypeOK, OwnershipTypeOK, CaptureOf, Capture, Profile
  <1>2. c # None /\ c.owner = o /\ (o = GuestOwner => c.generation = generation)
    BY <1>1, NoneIsNoRecord DEF CaptureOf
  <1> HIDE DEF c
  <1>3. /\ captured' = [captured EXCEPT ![s] = c] /\ captured[s] = None
        /\ claimRoute' = claimRoute
    BY DEF StartSession, c
  <1>4. claimRoute[generation] = None
    BY DEF OwnershipInv
  <1>5. OwnerNow(s)' = o
    BY <1>2, <1>3, <1>4 DEF OwnerNow, ResolveGeneration, TypeOK
  <1>6. \A t \in Session : t # s => captured'[t] = captured[t] /\ OwnerNow(t)' = OwnerNow(t)
    BY <1>3 DEF OwnerNow, ResolveGeneration, TypeOK
  <1>7. captured'[s] = c
    BY <1>3 DEF TypeOK
  <1>8. \A a \in A : HomeNow[a] = None
    BY <1>3 DEF HomeNow
  <1>9. HomeNow' = [a \in Attempt |-> IF a \in A THEN o ELSE HomeNow[a]]
    BY <1>2, <1>5, <1>6, <1>7, SessionOfAssumption DEF HomeNow
  <1>10. A \in SUBSET Attempt
    OBVIOUS
  <1> QED BY <1>8, <1>9, <1>10

(* Every step of the commit protocol is a step of the ledger, or none.      *)
LEMMA LedgerStep ==
  ASSUME IInv, [Next]_vars
  PROVE  [Ledger!Next]_(Ledger!vars)
  <1> USE DEF IInv
  <1>1. ASSUME NEW w \in Window, NEW s \in Session, NEW o \in User \cup {GuestOwner},
               StartSession(w, s, o)
        PROVE  Ledger!Next
    <2>1. UNCHANGED <<history, told, delivered>>
      BY <1>1 DEF StartSession
    <2>2. PICK A \in SUBSET Attempt :
             /\ \A a \in A : HomeNow[a] = None
             /\ HomeNow' = [a \in Attempt |-> IF a \in A THEN o ELSE HomeNow[a]]
      BY <1>1, Reservations
    <2>3. Ledger!Reserve(A, o)
      BY <2>1, <2>2 DEF Ledger!Reserve, HomeNow
    <2> QED BY <2>3 DEF Ledger!Next
  <1>2. ASSUME NEW u \in User, ClaimGuest(u)
        PROVE  Ledger!Next
    <2>1. UNCHANGED <<history, told, delivered, captured>> /\ ClaimGuestForUser(u)
      BY <1>2 DEF ClaimGuest
    <2>2. PICK A \in SUBSET Attempt :
             /\ \A a \in A : HomeNow[a] = GuestOwner
             /\ HomeNow' = [a \in Attempt |-> IF a \in A THEN u ELSE HomeNow[a]]
      BY <2>1, Hands
    <2>3. Ledger!HandOver(A, u)
      BY <2>1, <2>2 DEF Ledger!HandOver, HomeNow
    <2> QED BY <2>3 DEF Ledger!Next
  <1>3. ASSUME Quarantine
        PROVE  Ledger!Next
    <2>1. UNCHANGED <<history, told, delivered, captured>> /\ QuarantineGuest
      BY <1>3 DEF Quarantine
    <2>2. PICK A \in SUBSET Attempt :
             /\ \A a \in A : HomeNow[a] = GuestOwner
             /\ HomeNow' = [a \in Attempt |-> IF a \in A THEN Ambiguous ELSE HomeNow[a]]
      BY <2>1, Hands
    <2>3. Ledger!HandOver(A, Ambiguous)
      BY <2>1, <2>2 DEF Ledger!HandOver, HomeNow
    <2> QED BY <2>3 DEF Ledger!Next
  <1>4. ASSUME captured' = captured, ~Quarantine, ~\E u \in User : ClaimGuest(u)
        PROVE  [Ledger!Next]_(Ledger!vars)
    <2>1. HomeNow' = HomeNow
      BY <1>4, HomeStays
    <2>2. CASE UNCHANGED <<history, told, delivered>>
      BY <2>1, <2>2 DEF Ledger!vars, HomeNow
    <2>3. ASSUME NEW a \in Attempt, history[a] # None, told' = told \cup {a},
                 UNCHANGED <<history, delivered>>
          PROVE  Ledger!Next
      <3>1. Ledger!Confirm(a)
        BY <2>1, <2>3 DEF Ledger!Confirm, HomeNow
      <3> QED BY <3>1 DEF Ledger!Next
    <2>4. ASSUME NEW w \in Window, CommitApplied(w) \/ CommitRejected(w)
          PROVE  [Ledger!Next]_(Ledger!vars)
      <3> DEFINE a == attempt[w]
      <3>1. delivered' = delivered /\ (told' = told \/ told' = told \cup {a})
        BY <2>4 DEF CommitApplied, CommitRejected, Finish, Goto
      <3>2. CASE UNCHANGED <<storageVars, told>>
        BY <2>2, <3>1, <3>2
      <3>3. CASE RevisionsMatch(w) /\ ApplyBatch(w)
        <4>1. /\ a \in Attempt /\ captured[SessionOf[a]] \in Capture
              /\ history[a] = None \/ history[a] = w
              /\ history' = [history EXCEPT ![a] = w]
          BY <2>4, <3>3, CommitEffect, CommitSteps
        <4>2. w # None /\ captured[SessionOf[a]] # None
          BY <4>1, NoneAssumption, NoneIsNoRecord
        <4>3. CASE history[a] = None
          <5>1. HomeNow[a] # None
            <6>1. OwnerNow(SessionOf[a]) \in Owner
              BY <4>1, <4>2, SessionOfAssumption, RouteNowType DEF RouteNow
            <6>2. None \notin Owner
              BY DistinctAssumption DEF Owner
            <6> QED BY <4>1, <4>2, <6>1, <6>2 DEF HomeNow
          <5>2. Ledger!Record(a, w)
            BY <2>1, <3>1, <4>1, <4>3, <5>1 DEF Ledger!Record, HomeNow
          <5> QED BY <4>1, <5>2 DEF Ledger!Next
        <4>4. CASE history[a] = w
          <5>1. history' = history
            BY <4>1, <4>4 DEF TypeOK, Graded
          <5> QED BY <2>2, <2>3, <3>1, <4>1, <4>2, <4>4, <5>1
        <4> QED BY <4>1, <4>3, <4>4
      <3> QED BY <2>4, <3>2, <3>3, CommitSteps
    <2>5. ASSUME NEW w \in Window, Read(w) \/ Confirm(w) \/ Adopt(w) \/ CommitConflict(w)
          PROVE  [Ledger!Next]_(Ledger!vars)
      <3>1. /\ UNCHANGED <<history, delivered>>
            /\ \/ /\ Finish(w, StoredGraded(w)) /\ Marker(attempt[w]) # None
                  /\ pc[w] \in {"read", "confirm", "threw"}
               \/ told' = told
        BY <2>5, QuietSteps
      <3>2. CASE told' = told
        BY <2>2, <3>1, <3>2
      <3>3. CASE told' # told
        <4>1. attempt[w] \in Attempt /\ history[attempt[w]] # None
          BY <3>1, <3>3, BusyWindow, StoredGrades
        <4>2. told' = told \cup {attempt[w]}
          BY <3>1, <3>3 DEF Finish
        <4> QED BY <2>3, <3>1, <4>1, <4>2
      <3> QED BY <3>2, <3>3
    <2>6. ASSUME NEW u \in User, NEW a \in Attempt, Deliver(u, a)
          PROVE  Ledger!Next
      <3>1. /\ outbox[u][a] # None /\ UNCHANGED <<history, told>>
            /\ delivered' = [delivered EXCEPT ![a] = @ \cup {u}]
        BY <2>6 DEF Deliver
      <3>2. u \in Owner /\ u # GuestOwner
        BY DistinctAssumption DEF Owner
      <3>3. history[a] # None /\ u = OwnerNow(SessionOf[a]) /\ captured[SessionOf[a]] # None
        BY <3>1, <3>2 DEF AnswerInv, QueueInv
      <3>4. HomeNow[a] = u
        BY <3>3 DEF HomeNow
      <3>5. Ledger!Receive(a, u)
        BY <2>1, <3>1, <3>3, <3>4 DEF Ledger!Receive, HomeNow
      <3> QED BY <3>5 DEF Ledger!Next
    <2>7. ASSUME NEW w \in Window,
                 \/ \E p \in Profile : OpenSession(w, p)
                 \/ SaveSession(w) \/ ClearSession(w)
                 \/ \E a \in Attempt : Begin(w, a)
                 \/ Preview(w) \/ Crash(w)
                 \/ \E s \in Session, o \in User \cup {GuestOwner} : StartSession(w, s, o)
          PROVE  UNCHANGED <<history, told, delivered>>
      BY <2>7 DEF OpenSession, SaveSession, ClearSession, Begin, Preview, Crash, StartSession
    <2>8. ASSUME \/ \E p \in Profile : EditArchive(p)
                 \/ \E a \in Attempt : CopyRow(a) \/ DropRow(a)
                 \/ \E n \in Generation : ListRows(n) \/ FinishMove(n)
                 \/ \E u \in User, a \in Attempt : RemoveRow(u, a)
                 \/ UNCHANGED vars
          PROVE  UNCHANGED <<history, told, delivered>>
      BY <2>8 DEF EditArchive, ListRows, CopyRow, DropRow, FinishMove, RemoveRow, vars
    <2> QED BY <1>4, <2>2, <2>4, <2>5, <2>6, <2>7, <2>8 DEF Next
  <1>5. \/ captured' = captured
        \/ \E w \in Window, s \in Session, o \in User \cup {GuestOwner} : StartSession(w, s, o)
    BY DocumentMoves DEF SaveSession, ClearSession, CommitApplied, CommitRejected, vars
  <1> QED BY <1>1, <1>2, <1>3, <1>4, <1>5

(* The commit protocol, its retries and the hand-over implement the promise *)
(* of AnswerLedger.                                                         *)
THEOREM LedgerKept == Spec => KeepsLedger
  <1>1. Init => Ledger!Init
    BY SessionOfAssumption DEF Init, Ledger!Init, Ungraded
  <1>2. IInv /\ [Next]_vars => [Ledger!Next]_(Ledger!vars)
    BY LedgerStep
  <1> QED BY <1>1, <1>2, Inductive, PTL DEF Spec, KeepsLedger, Ledger!Spec
=============================================================================
