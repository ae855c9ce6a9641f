--------------------- MODULE StoreAndRegistration_proofs ---------------------
(***************************************************************************)
(* Proofs about the revisioned store and about the registration protocol   *)
(* that keeps its journal, the profiles and the claims there, for any sets *)
(* of clients, addresses and values, and of windows, accounts, guests and  *)
(* client mutation ids.                                                    *)
(*                                                                         *)
(* The store: every write moves the revisions of what it writes (Advanced),*)
(* so a snapshot that still matches is current (Safe), and each operation  *)
(* is one of the promised store's.                                         *)
(*                                                                         *)
(* The registration: what a task has in hand stays true while other tasks  *)
(* and windows work, because reservations, acceptances and routes only     *)
(* accumulate (Facts, Grows, JobOK). An account owns a guest only if it    *)
(* owns the one its invitation was redeemed for (Founded), hence a claim   *)
(* found done is the reserved guest's. One lemma per action.               *)
(***************************************************************************)
EXTENDS InviteRegistration, AtomicStorage, TLAPS

-----------------------------------------------------------------------------
(* The revisioned store (AtomicStorage).                                    *)
Safe == StoreTypeOK /\ SnapshotCurrent

(* A write over W moves exactly the revisions of W, each by one.            *)
LEMMA AdvancedRevision ==
  ASSUME StoreTypeOK, NEW W \in SUBSET Address, Writable(W)
  PROVE  /\ Advanced(W) \in [Address -> 0..MaxRevision]
         /\ \A a \in W : Advanced(W)[a] = revision[a] + 1
         /\ \A a \in Address \ W : Advanced(W)[a] = revision[a]
  BY MaxRevisionAssumption DEF StoreTypeOK, Writable, Advanced

(* A write step keeps the store well typed and leaves the open snapshots    *)
(* consistent: a snapshot of a written address no longer matches.           *)
LEMMA WriteSafe ==
  ASSUME Safe, NEW W \in SUBSET Address, NEW new \in [W -> Stored],
         Writable(W), Write(W, new),
         UNCHANGED <<reads, seen, seenRevision>>,
         reply' \in [Client -> {"none", "committed", "conflict", "rejected"}]
  PROVE  Safe'
<1> USE DEF Safe
<1>1. StoreTypeOK'
  BY AdvancedRevision DEF StoreTypeOK, Write, Stored
<1>2. SnapshotCurrent'
  <2> SUFFICES ASSUME NEW c \in Client, NEW a \in reads[c]
               PROVE  /\ seenRevision[c][a] <= revision'[a]
                      /\ seenRevision[c][a] = revision'[a] => seen[c][a] = value'[a]
    BY DEF SnapshotCurrent
  <2>0. /\ a \in Address
        /\ seenRevision[c][a] \in Int /\ revision[a] \in Int
        /\ seenRevision[c][a] <= revision[a]
        /\ seenRevision[c][a] = revision[a] => seen[c][a] = value[a]
    BY MaxRevisionAssumption DEF StoreTypeOK, SnapshotCurrent
  <2>1. CASE a \in W
    <3>1. revision'[a] = revision[a] + 1
      BY <2>1, AdvancedRevision DEF Write
    <3> QED BY <2>0, <3>1
  <2>2. CASE a \notin W
    <3>1. revision'[a] = revision[a] /\ value'[a] = value[a]
      BY <2>0, <2>2, AdvancedRevision DEF Write
    <3> QED BY <2>0, <3>1
  <2> QED BY <2>1, <2>2
<1> QED BY <1>1, <1>2

(* Dropping the snapshot of one client keeps the others consistent.         *)
LEMMA ForgetSafe ==
  ASSUME Safe, NEW c \in Client, Forget(c), UNCHANGED <<value, revision>>,
         reply' \in [Client -> {"none", "committed", "conflict", "rejected"}]
  PROVE  Safe'
<1>1. StoreTypeOK'
  <2>1. Nothing \in [Address -> Stored] /\ Untouched \in [Address -> 0..MaxRevision]
    BY MaxRevisionAssumption DEF Nothing, Untouched, Stored
  <2>2. value' \in [Address -> Stored] /\ revision' \in [Address -> 0..MaxRevision]
    BY DEF Safe, StoreTypeOK
  <2>3. /\ reads' \in [Client -> SUBSET Address]
        /\ seen' \in [Client -> [Address -> Stored]]
        /\ seenRevision' \in [Client -> [Address -> 0..MaxRevision]]
    BY <2>1 DEF Safe, StoreTypeOK, Forget
  <2> QED BY <2>2, <2>3 DEF StoreTypeOK
<1>2. SnapshotCurrent'
  BY DEF Safe, StoreTypeOK, SnapshotCurrent, Forget
<1> QED BY <1>1, <1>2 DEF Safe

(* A committed batch keeps every other snapshot consistent.                 *)
LEMMA CommitSafe ==
  ASSUME Safe, NEW c \in Client, NEW W \in SUBSET Address, NEW new \in [W -> Stored],
         CommitBatch(c, W, new)
  PROVE  Safe'
<1>1. Writable(W) /\ Write(W, new) /\ Forget(c)
  BY DEF CommitBatch
<1>2. StoreTypeOK'
  <2>1. value' \in [Address -> Stored] /\ revision' \in [Address -> 0..MaxRevision]
    BY <1>1, AdvancedRevision DEF Write, Safe, StoreTypeOK
  <2>2. /\ reads' \in [Client -> SUBSET Address]
        /\ seen' \in [Client -> [Address -> Stored]]
        /\ seenRevision' \in [Client -> [Address -> 0..MaxRevision]]
    BY <1>1, MaxRevisionAssumption DEF Forget, Safe, StoreTypeOK, Nothing, Untouched, Stored
  <2>3. reply' \in [Client -> {"none", "committed", "conflict", "rejected"}]
    BY DEF CommitBatch, Safe, StoreTypeOK
  <2> QED BY <2>1, <2>2, <2>3 DEF StoreTypeOK
<1>3. SnapshotCurrent'
  <2> SUFFICES ASSUME NEW d \in Client, NEW a \in reads'[d]
               PROVE  /\ seenRevision'[d][a] <= revision'[a]
                      /\ seenRevision'[d][a] = revision'[a] => seen'[d][a] = value'[a]
    BY DEF SnapshotCurrent
  <2>1. d # c /\ a \in reads[d] /\ a \in Address
        /\ seenRevision'[d] = seenRevision[d] /\ seen'[d] = seen[d]
    BY <1>1 DEF Forget, Safe, StoreTypeOK
  <2>2. /\ seenRevision[d][a] \in Int /\ revision[a] \in Int
        /\ seenRevision[d][a] <= revision[a]
        /\ seenRevision[d][a] = revision[a] => seen[d][a] = value[a]
    BY <2>1, MaxRevisionAssumption DEF Safe, StoreTypeOK, SnapshotCurrent
  <2>3. \/ revision'[a] = revision[a] + 1
        \/ revision'[a] = revision[a] /\ value'[a] = value[a]
    BY <1>1, <2>1, AdvancedRevision DEF Write, Safe
  <2> QED BY <2>1, <2>2, <2>3
<1> QED BY <1>2, <1>3 DEF Safe

(* An empty store is safe.                                                  *)
LEMMA InitSafe == StoreInit => Safe
  BY MaxRevisionAssumption
     DEF StoreInit, Safe, StoreTypeOK, SnapshotCurrent, Nothing, Untouched, Stored

(* Every step keeps types and revisions safe.                               *)
LEMMA NextSafe == Safe /\ [StoreNext]_storeVars => Safe'
<1> SUFFICES ASSUME Safe, [StoreNext]_storeVars PROVE Safe'
  OBVIOUS
<1>1. ASSUME NEW c \in Client, NEW A \in SUBSET Address, ReadBatch(c, A)
      PROVE  Safe'
  <2>1. StoreTypeOK'
    BY <1>1, MaxRevisionAssumption DEF ReadBatch, Safe, StoreTypeOK, Stored
  <2>2. SnapshotCurrent'
    <3> SUFFICES ASSUME NEW d \in Client, NEW a \in reads'[d]
                 PROVE  /\ seenRevision'[d][a] <= revision[a]
                        /\ seenRevision'[d][a] = revision[a] => seen'[d][a] = value[a]
      BY <1>1 DEF SnapshotCurrent, ReadBatch
    <3>1. CASE d = c
      BY <1>1, <3>1, MaxRevisionAssumption DEF ReadBatch, Safe, StoreTypeOK
    <3>2. CASE d # c
      BY <1>1, <3>2 DEF ReadBatch, Safe, StoreTypeOK, SnapshotCurrent
    <3> QED BY <3>1, <3>2
  <2> QED BY <2>1, <2>2 DEF Safe
<1>2. ASSUME NEW a \in Address, NEW v \in Stored, MutateOne(a, v)
      PROVE  Safe'
  <2>1. [x \in {a} |-> v] \in [{a} -> Stored] /\ {a} \in SUBSET Address
    OBVIOUS
  <2> QED BY <1>2, <2>1, WriteSafe DEF MutateOne, Safe, StoreTypeOK
<1>3. ASSUME Clear
      PROVE  Safe'
  <2> DEFINE present == {a \in Address : value[a] # Absent}
  <2>1. [a \in present |-> Absent] \in [present -> Stored] /\ present \in SUBSET Address
    BY DEF Stored
  <2>2. Writable(present) /\ Write(present, [a \in present |-> Absent])
        /\ UNCHANGED <<reads, seen, seenRevision, reply>>
    BY <1>3 DEF Clear
  <2> HIDE DEF present
  <2> QED BY <2>1, <2>2, WriteSafe DEF Safe, StoreTypeOK
<1>4. ASSUME NEW a \in Address, QuarantineRecord(a)
      PROVE  Safe'
  <2>1. [x \in {a} |-> Absent] \in [{a} -> Stored] /\ {a} \in SUBSET Address
    BY DEF Stored
  <2> QED BY <1>4, <2>1, WriteSafe DEF QuarantineRecord, Safe, StoreTypeOK
<1>5. ASSUME NEW c \in Client, NEW W \in SUBSET Address, NEW new \in [W -> Stored],
             CommitBatch(c, W, new)
      PROVE  Safe'
  BY <1>5, CommitSafe
<1>6. ASSUME NEW c \in Client, CommitConflict(c)
      PROVE  Safe'
  BY <1>6, ForgetSafe DEF CommitConflict, Safe, StoreTypeOK
<1>7. ASSUME NEW c \in Client, CommitAborted(c)
      PROVE  Safe'
  BY <1>7, ForgetSafe DEF CommitAborted, Safe, StoreTypeOK
<1>8. ASSUME Restart
      PROVE  Safe'
  BY <1>8, MaxRevisionAssumption
     DEF Restart, Safe, StoreTypeOK, SnapshotCurrent, Nothing, Untouched, Stored
<1>9. CASE UNCHANGED storeVars
  BY <1>9 DEF storeVars, Safe, StoreTypeOK, SnapshotCurrent
<1> QED BY <1>1, <1>2, <1>3, <1>4, <1>5, <1>6, <1>7, <1>8, <1>9 DEF StoreNext

(* Every reachable state of the store is well typed.                        *)
THEOREM StoreTypeCorrect == StoreSpec => []StoreTypeOK
<1>1. Safe => StoreTypeOK
  BY DEF Safe
<1> QED BY <1>1, InitSafe, NextSafe, PTL DEF StoreSpec

(* A revision that still matches vouches for the value read with it.        *)
THEOREM SnapshotSafe == StoreSpec => []SnapshotCurrent
<1>1. Safe => SnapshotCurrent
  BY DEF Safe
<1> QED BY <1>1, InitSafe, NextSafe, PTL DEF StoreSpec

(* A value changes only together with its revision, and no revision ever    *)
(* goes back, except that a restart loses what was kept in memory.          *)
THEOREM RevisionsTellWrites == StoreSpec => RevisionTellsWrites
<1> DEFINE Tells ==
      \A a \in Address :
          /\ revision'[a] >= revision[a]
          /\ value'[a] # value[a] => revision'[a] > revision[a] \/ Restart
<1>1. ASSUME Safe, NEW W \in SUBSET Address, NEW new, Writable(W), Write(W, new)
      PROVE  Tells
  <2> SUFFICES ASSUME NEW a \in Address
               PROVE  /\ revision'[a] >= revision[a]
                      /\ value'[a] # value[a] => revision'[a] > revision[a]
    OBVIOUS
  <2>1. revision[a] \in Int
    BY <1>1, MaxRevisionAssumption DEF Safe, StoreTypeOK
  <2>2. CASE a \in W
    BY <1>1, <2>1, <2>2, AdvancedRevision DEF Write, Safe
  <2>3. CASE a \notin W
    BY <1>1, <2>1, <2>3, AdvancedRevision DEF Write, Safe
  <2> QED BY <2>2, <2>3
<1>2. ASSUME Safe, UNCHANGED revision, UNCHANGED value \/ Restart
      PROVE  Tells
  BY <1>2, MaxRevisionAssumption DEF Safe, StoreTypeOK
<1>3. Safe /\ [StoreNext]_storeVars => Tells
  <2> SUFFICES ASSUME Safe, [StoreNext]_storeVars PROVE Tells
    OBVIOUS
  <2> HIDE DEF Tells
  <2>1. ASSUME NEW a \in Address, NEW v \in Stored, MutateOne(a, v) PROVE Tells
    BY <2>1, <1>1 DEF MutateOne
  <2>2. ASSUME Clear PROVE Tells
    <3> DEFINE present == {a \in Address : value[a] # Absent}
    <3>1. /\ Writable(present) /\ Write(present, [a \in present |-> Absent])
          /\ present \in SUBSET Address
      BY <2>2 DEF Clear
    <3> HIDE DEF present
    <3> QED BY <3>1, <1>1
  <2>3. ASSUME NEW a \in Address, QuarantineRecord(a) PROVE Tells
    BY <2>3, <1>1 DEF QuarantineRecord
  <2>4. ASSUME NEW c \in Client, NEW W \in SUBSET Address, NEW new, CommitBatch(c, W, new)
        PROVE  Tells
    BY <2>4, <1>1 DEF CommitBatch
  <2>5. CASE \/ \E c \in Client, A \in SUBSET Address : ReadBatch(c, A)
             \/ \E c \in Client : CommitConflict(c) \/ CommitAborted(c)
             \/ Restart \/ UNCHANGED storeVars
    BY <2>5, <1>2 DEF ReadBatch, CommitConflict, CommitAborted, Restart, storeVars
  <2> QED BY <2>1, <2>2, <2>3, <2>4, <2>5 DEF StoreNext
<1>4. Safe /\ [StoreNext]_storeVars => [Tells]_storeVars
  BY <1>3
<1> QED BY <1>4, InitSafe, NextSafe, PTL DEF StoreSpec, RevisionTellsWrites

-----------------------------------------------------------------------------
(* Refinement: a step of the revisioned store is a step of SnapshotStore.   *)

(* Addresses written by a step become stale in the snapshots that read them *)
(* and in no other.                                                         *)
LEMMA StaleAfterWrite ==
  ASSUME Safe, NEW W \in SUBSET Address, NEW new, Writable(W), Write(W, new),
         NEW c \in Client, reads'[c] = reads[c], seenRevision'[c] = seenRevision[c]
  PROVE  staleNow'[c] = staleNow[c] \cup (W \cap reads[c])
<1>1. /\ reads[c] \subseteq Address
      /\ staleNow[c] = {a \in reads[c] : seenRevision[c][a] # revision[a]}
      /\ staleNow'[c] = {a \in reads[c] : seenRevision[c][a] # revision'[a]}
  BY DEF staleNow, Safe, StoreTypeOK
<1>2. ASSUME NEW a \in reads[c]
      PROVE  seenRevision[c][a] # revision'[a]
               <=> (seenRevision[c][a] # revision[a] \/ a \in W)
  <2>1. /\ seenRevision[c][a] \in Int /\ revision[a] \in Int
        /\ seenRevision[c][a] <= revision[a]
    BY <1>1, MaxRevisionAssumption DEF Safe, StoreTypeOK, SnapshotCurrent
  <2>2. a \in W => revision'[a] = revision[a] + 1
    BY AdvancedRevision DEF Write, Safe
  <2>3. a \notin W => revision'[a] = revision[a]
    BY <1>1, AdvancedRevision DEF Write, Safe
  <2> QED BY <2>1, <2>2, <2>3
<1> QED BY <1>1, <1>2

(* A write outside a batch is an Overwrite of the promised store.           *)
LEMMA OverwriteRefined ==
  ASSUME Safe, NEW W \in SUBSET Address, NEW new \in [W -> Stored],
         Writable(W), Write(W, new), UNCHANGED <<reads, seen, seenRevision, reply>>
  PROVE  Promise!Overwrite(W, new)
<1>1. staleNow' = Promise!Outdate(W)
  <2>1. ASSUME NEW c \in Client
        PROVE  staleNow'[c] = staleNow[c] \cup (W \cap reads[c])
    BY StaleAfterWrite
  <2> QED BY <2>1 DEF staleNow, Promise!Outdate
<1> QED BY <1>1 DEF Promise!Overwrite, Write

(* An applied batch is a Commit of the promised store.                      *)
LEMMA CommitRefined ==
  ASSUME Safe, NEW c \in Client, NEW W \in SUBSET Address, NEW new \in [W -> Stored],
         CommitBatch(c, W, new)
  PROVE  Promise!Commit(c, W, new)
<1>1. staleNow[c] = {}
  BY DEF CommitBatch, RevisionsMatch, staleNow
<1>2. staleNow' = [Promise!Outdate(W) EXCEPT ![c] = {}]
  <2>1. ASSUME NEW d \in Client, d # c
        PROVE  staleNow'[d] = staleNow[d] \cup (W \cap reads[d])
    BY <2>1, StaleAfterWrite DEF CommitBatch, Forget, Safe, StoreTypeOK
  <2>2. staleNow'[c] = {}
    BY DEF CommitBatch, Forget, staleNow, Safe, StoreTypeOK
  <2> QED BY <2>1, <2>2 DEF staleNow, Promise!Outdate
<1> QED BY <1>1, <1>2 DEF CommitBatch, Write, Forget, Promise!Commit, Nothing, Promise!Nothing

(* A snapshot that is dropped has nothing stale in it.                      *)
LEMMA StaleAfterForget ==
  ASSUME Safe, NEW c \in Client, Forget(c), UNCHANGED revision
  PROVE  staleNow' = [staleNow EXCEPT ![c] = {}]
<1>1. staleNow'[c] = {}
  BY DEF Forget, staleNow, Safe, StoreTypeOK
<1>2. ASSUME NEW d \in Client, d # c
      PROVE  staleNow'[d] = staleNow[d]
  BY <1>2 DEF Forget, staleNow, Safe, StoreTypeOK
<1> QED BY <1>1, <1>2 DEF staleNow

(* A conflict and an aborted transaction are refusals of the promised       *)
(* store.                                                                   *)
LEMMA RefusalRefined ==
  ASSUME Safe, NEW c \in Client, CommitConflict(c) \/ CommitAborted(c)
  PROVE  Promise!Refuse(c)
<1>1. /\ Forget(c) /\ UNCHANGED <<value, revision>> /\ reads[c] # {}
      /\ \/ ~RevisionsMatch(c) /\ reply' = [reply EXCEPT ![c] = "conflict"]
         \/ reply' = [reply EXCEPT ![c] = "rejected"]
  BY DEF CommitConflict, CommitAborted
<1>2. ~RevisionsMatch(c) => staleNow[c] # {}
  BY DEF RevisionsMatch, staleNow
<1>3. staleNow' = [staleNow EXCEPT ![c] = {}]
  BY <1>1, StaleAfterForget
<1> QED BY <1>1, <1>2, <1>3 DEF Promise!Refuse, Forget, Nothing, Promise!Nothing

(* readBatch takes a snapshot of the promised store.                        *)
LEMMA ReadRefined ==
  ASSUME Safe, NEW c \in Client, NEW A \in SUBSET Address, ReadBatch(c, A)
  PROVE  Promise!Read(c, A)
<1>1. staleNow'[c] = {}
  BY DEF ReadBatch, staleNow, Safe, StoreTypeOK
<1>2. ASSUME NEW d \in Client, d # c
      PROVE  staleNow'[d] = staleNow[d]
  BY <1>2 DEF ReadBatch, staleNow, Safe, StoreTypeOK
<1>3. staleNow' = [staleNow EXCEPT ![c] = {}]
  BY <1>1, <1>2 DEF staleNow
<1> QED BY <1>3 DEF ReadBatch, Promise!Read

(* The death of the process is a Restart of the promised store.             *)
LEMMA RestartRefined ==
  ASSUME Safe, Restart
  PROVE  Promise!Restart
<1>1. staleNow' = [c \in Client |-> {}]
  BY DEF Restart, staleNow
<1> QED BY <1>1 DEF Restart, Promise!Restart, Nothing, Promise!Nothing

(* Every step is a step of the promised store or leaves it unchanged.       *)
LEMMA StepRefined == Safe /\ [StoreNext]_storeVars => [Promise!Next]_(Promise!vars)
<1> SUFFICES ASSUME Safe, [StoreNext]_storeVars PROVE Promise!Next \/ UNCHANGED Promise!vars
  OBVIOUS
<1>1. ASSUME NEW c \in Client, NEW A \in SUBSET Address, ReadBatch(c, A)
      PROVE  Promise!Next
  BY <1>1, ReadRefined DEF Promise!Next
<1>2. ASSUME NEW a \in Address, NEW v \in Stored, MutateOne(a, v)
      PROVE  Promise!Next
  <2>1. [x \in {a} |-> v] \in [{a} -> Stored] /\ {a} \in SUBSET Address
    OBVIOUS
  <2>2. Promise!Overwrite({a}, [x \in {a} |-> v])
    BY <1>2, <2>1, OverwriteRefined DEF MutateOne
  <2> QED BY <2>1, <2>2 DEF Promise!Next, Stored
<1>3. ASSUME Clear
      PROVE  Promise!Next
  <2> DEFINE present == {a \in Address : value[a] # Absent}
  <2> DEFINE gone == [a \in present |-> Absent]
  <2>1. gone \in [present -> Stored] /\ present \in SUBSET Address
    BY DEF Stored
  <2>2. Writable(present) /\ Write(present, gone)
        /\ UNCHANGED <<reads, seen, seenRevision, reply>>
    BY <1>3 DEF Clear
  <2> HIDE DEF present, gone
  <2>3. Promise!Overwrite(present, gone)
    BY <2>1, <2>2, OverwriteRefined
  <2> QED BY <2>1, <2>3 DEF Promise!Next, Stored
<1>4. ASSUME NEW a \in Address, QuarantineRecord(a)
      PROVE  Promise!Next
  <2>1. [x \in {a} |-> Absent] \in [{a} -> Stored] /\ {a} \in SUBSET Address
    BY DEF Stored
  <2>2. Promise!Overwrite({a}, [x \in {a} |-> Absent])
    BY <1>4, <2>1, OverwriteRefined DEF QuarantineRecord
  <2> QED BY <2>1, <2>2 DEF Promise!Next, Stored
<1>5. ASSUME NEW c \in Client, NEW W \in SUBSET Address, NEW new \in [W -> Stored],
             CommitBatch(c, W, new)
      PROVE  Promise!Next
  BY <1>5, CommitRefined DEF Promise!Next, Stored
<1>6. ASSUME NEW c \in Client, CommitConflict(c) \/ CommitAborted(c)
      PROVE  Promise!Next
  BY <1>6, RefusalRefined DEF Promise!Next
<1>7. ASSUME Restart
      PROVE  Promise!Next
  BY <1>7, RestartRefined DEF Promise!Next
<1>8. CASE UNCHANGED storeVars
  BY <1>8 DEF storeVars, Promise!vars, staleNow
<1> QED BY <1>1, <1>2, <1>3, <1>4, <1>5, <1>6, <1>7, <1>8 DEF StoreNext

(* An empty store is an empty promised store.                               *)
LEMMA InitRefined == StoreInit => Promise!Init
  BY DEF StoreInit, Promise!Init, Nothing, Promise!Nothing, staleNow

(* The revisioned store implements the promise of the storage port.         *)
THEOREM StorePromise == StoreSpec => KeepsPromise
  BY InitRefined, StepRefined, InitSafe, NextSafe, PTL
     DEF StoreSpec, KeepsPromise, Promise!Spec

-----------------------------------------------------------------------------
(* The registration (InviteRegistration).                                   *)

(* What a task knows about reservations and claims only grows: no id is     *)
(* reserved twice, no acceptance is taken back, no routed guest or          *)
(* generation is routed again, no guest leaves the recovery list.           *)
Facts == [reserved |-> reserved, accepted |-> accepted, owner |-> profileRoute,
          claim |-> claimRoute, recovery |-> recovery]

FactsType == [reserved : [Id -> Reservation \cup {None}], accepted : SUBSET Id,
              owner : [Guest -> User \cup {None}],
              claim : [Generation -> Destination \cup {None}], recovery : SUBSET Guest]

Grows(o, p) ==
    /\ o \in FactsType /\ p \in FactsType
    /\ \A i \in Id : o.reserved[i] # None => p.reserved[i] = o.reserved[i]
    /\ o.accepted \subseteq p.accepted
    /\ \A g \in Guest : o.owner[g] # None => p.owner[g] = o.owner[g]
    /\ \A n \in Generation : o.claim[n] # None => p.claim[n] = o.claim[n]
    /\ o.recovery \subseteq p.recovery

View == [shown : StoredLogin \cup {None}, selected : Profile,
         epoch : Task \cup {"none", "locked", "closed"}, again : BOOLEAN]

Kind == {"none", "redeem", "login", "logout", "refresh", "init", "undo"}
Job == [pc : Pc, kind : Kind, user : User \cup {None}, id : Id \cup {None},
        guest : Guest \cup {None}, gen : Generation \cup {None}, fresh : BOOLEAN,
        stored : StoredLogin \cup {None}, verified : BOOLEAN, behind : BOOLEAN]

(* The stages in which a task acts for an account, those in which it has no *)
(* reservation in hand, and those in which it may have one.                 *)
ForAccount == {"reserve", "quarantine", "moveOld", "finishOld", "release", "send", "accepted",
               "refused", "drop", "lost", "match", "store", "verify", "profile", "activate",
               "claimAny", "claim", "journal", "route", "move", "finish", "complete"}
NoReservation == {"idle", "start", "reserve", "match", "profile", "activate", "claimAny", "guest",
                  "selectGuest", "journal", "sync", "clear"}
Asking == {"send", "accepted", "refused", "drop", "lost"}
SettingAside == {"quarantine", "moveOld", "finishOld", "release"}
Opening == {"store", "verify", "claim", "route", "move", "finish", "complete"}
Claiming == {"route", "move", "finish", "complete"}

(* The job's reservation, as it was made.                                   *)
Holds(j, o) ==
    /\ j.id \in Id /\ o.reserved[j.id] # None
    /\ o.reserved[j.id].guest = j.guest

JobOK(j, o) ==
    /\ j.pc \in ForAccount => j.user \in User
    /\ j.pc \in {"guest", "selectGuest"} =>
          \/ j.kind \in {"undo", "logout"}
          \/ j.kind \in {"refresh", "init"} /\ j.user = None
    /\ j.pc = "sync" => j.kind = "logout"
    /\ j.pc = "start" => j.kind \in {"refresh", "init"}
    /\ j.pc = "selectGuest" => j.guest \in Guest
    /\ j.pc \in NoReservation => j.id = None
    /\ j.pc \in {"claim", "complete"} => j.id # None
    /\ j.pc \in Asking => Holds(j, o) /\ o.reserved[j.id].user = j.user
    /\ j.pc = "accepted" => j.id \in o.accepted
    /\ j.pc \in SettingAside => Holds(j, o) /\ o.reserved[j.id].gen = j.gen
    /\ j.pc \in SettingAside \ {"quarantine"} =>
          j.guest \in o.recovery /\ o.claim[j.gen] = Ambiguous
    /\ j.pc \in Opening /\ j.id # None =>
          Holds(j, o) /\ o.reserved[j.id].user = j.user /\ j.id \in o.accepted
    /\ j.pc \in Claiming /\ j.id # None => o.owner[j.guest] = j.user
    /\ j.pc = "claimAny" => \E h \in Guest : o.owner[h] = j.user
    /\ j.pc = "move" => j.gen \in Generation /\ o.claim[j.gen] # None

(* Beside an action of the learner runs at most a refresh.                  *)
KindOK(t, j) == t = "refresh" /\ j.pc # "idle" => j.kind = "refresh"

JobsOK == /\ job \in [Window -> [Task -> Job]]
          /\ \A w \in Window, t \in Task : JobOK(job[w][t], Facts) /\ KindOK(t, job[w][t])

(* An account owns a guest only if it owns the guest for whom its           *)
(* invitation was redeemed; and an invitation is redeemed once.             *)
Founded(u, o) ==
    \E i \in o.accepted : o.reserved[i].user = u /\ o.owner[o.reserved[i].guest] = u

Accounts ==
    /\ \A i \in accepted : reserved[i] # None
    /\ \A i, k \in accepted : reserved[i].user = reserved[k].user => i = k
    /\ \A h \in Guest : profileRoute[h] # None => Founded(profileRoute[h], Facts)

(* The guest who is here belongs to nobody yet.                             *)
CurrentOK ==
    /\ profileRoute[guest] = None /\ guest \notin recovery
    /\ claimRoute[generation] = None
    /\ pending # None =>
          /\ claimRoute[pending.source] # None
          /\ pending.destination # Ambiguous => \E h \in Guest : profileRoute[h] = pending.destination
    /\ moved \subseteq {n \in Generation : claimRoute[n] # None}

IntentOK ==
    /\ intent \in Intent \cup {None}
    /\ intent # None => /\ reserved[intent.id] = [user |-> intent.user, guest |-> intent.guest,
                                                  gen |-> intent.gen]
                        /\ intent.status = "redeemed" => intent.id \in accepted

Windows ==
    /\ win \in [Window -> View]
    /\ note \in [Window -> BOOLEAN]
    /\ \A w \in Window : win[w].epoch = "closed" => ~note[w] /\ \A t \in Task : job[w][t] = Idle

(* A capture whose profile is still the current guest read this guest's     *)
(* generation, since the two rotate together and neither comes back.        *)
CaptureOK ==
    /\ capture \in Captured \cup {None}
    /\ capture # None =>
          IF capture.profile = guest THEN capture.gen \in {generation, None}
          ELSE profileRoute[capture.profile] # None \/ capture.profile \in recovery

IInv ==
    /\ OwnershipTypeOK
    /\ Facts \in FactsType
    /\ auth \in StoredLogin \cup {None}
    /\ Accounts /\ CurrentOK /\ IntentOK /\ JobsOK /\ Windows /\ CaptureOK
-----------------------------------------------------------------------------
LEMMA Quiet == ASSUME NEW o \in FactsType PROVE Grows(o, o)
  BY DEF Grows

LEMMA JobGrows ==
  ASSUME NEW o, NEW p, Grows(o, p), NEW j \in Job, JobOK(j, o)
  PROVE JobOK(j, p)
<1>1. o \in FactsType /\ p \in FactsType /\ o.accepted \subseteq p.accepted
      /\ o.recovery \subseteq p.recovery
  BY DEF Grows
<1>2. \A i \in Id : o.reserved[i] # None => p.reserved[i] = o.reserved[i]
  BY DEF Grows
<1>3. \A g \in Guest : o.owner[g] # None => p.owner[g] = o.owner[g]
  BY DEF Grows
<1>4. \A n \in Generation : o.claim[n] # None => p.claim[n] = o.claim[n]
  BY DEF Grows
<1>5. Holds(j, o) => Holds(j, p) /\ p.reserved[j.id] = o.reserved[j.id]
  BY <1>2 DEF Holds
<1>6. ASSUME Holds(j, o)
      PROVE /\ j.guest \in Guest
            /\ o.reserved[j.id].gen = j.gen => j.gen \in Generation
            /\ o.reserved[j.id].user = j.user => j.user \in User
  <2>1. o.reserved[j.id] \in Reservation
    BY <1>1, <1>6 DEF Holds, FactsType
  <2> QED BY <2>1, <1>6 DEF Holds, Reservation
<1>7. j.pc \in SettingAside \ {"quarantine"} => j.guest \in p.recovery /\ p.claim[j.gen] = Ambiguous
  BY <1>1, <1>4, <1>6, DistinctAssumption DEF JobOK, SettingAside
<1>8. j.pc \in Claiming /\ j.id # None => p.owner[j.guest] = j.user
  BY <1>3, <1>6, DistinctAssumption DEF JobOK, Claiming, Opening, ForAccount
<1>9. j.pc = "claimAny" => \E h \in Guest : p.owner[h] = j.user
  BY <1>3, DistinctAssumption DEF JobOK, ForAccount
<1>10. j.pc = "move" => j.gen \in Generation /\ p.claim[j.gen] # None
  BY <1>4 DEF JobOK
<1> QED BY <1>1, <1>5, <1>7, <1>8, <1>9, <1>10 DEF JobOK

(* Whether a task's snapshot of the login is fresh, what it will restore,   *)
(* and whom it waits for do not matter.                                     *)
Alike(j, k) ==
    /\ k.pc = j.pc /\ k.kind = j.kind /\ k.user = j.user
    /\ k.id = j.id /\ k.guest = j.guest /\ k.gen = j.gen

LEMMA JobAlike ==
  ASSUME NEW o, NEW j, NEW k, JobOK(j, o), Alike(j, k)
  PROVE JobOK(k, o)
  BY DEF JobOK, Holds, Alike

LEMMA KindAlike ==
  ASSUME NEW t, NEW j, NEW k, KindOK(t, j), Alike(j, k)
  PROVE KindOK(t, k)
  BY DEF KindOK, Alike

LEMMA IdleJob == Idle \in Job
  BY DEF Idle, Job, Pc, Kind

LEMMA NotFresh == ASSUME NEW j \in Job, j.fresh = FALSE PROVE [j EXCEPT !.fresh = FALSE] = j
  BY DEF Job

LEMMA IdleOK == ASSUME NEW o PROVE JobOK(Idle, o) /\ \A t \in Task : KindOK(t, Idle)
  BY DEF Idle, KindOK, JobOK, ForAccount, NoReservation, Asking, SettingAside, Opening, Claiming

StartJob(kind) == [Idle EXCEPT !.pc = "start", !.kind = kind]

LEMMA StartOK ==
  ASSUME NEW kind \in {"refresh", "init"}, NEW o
  PROVE StartJob(kind) \in Job /\ JobOK(StartJob(kind), o)
  BY DEF StartJob, Idle, Job, Pc, Kind, JobOK, ForAccount, NoReservation, Asking, SettingAside,
         Opening, Claiming

LEMMA DoneOK ==
  ASSUME NEW w \in Window, NEW t \in Task, NEW o
  PROVE Done(w, t) \in Job /\ JobOK(Done(w, t), o) /\ KindOK(t, Done(w, t))
  BY IdleJob, IdleOK, StartOK DEF Done, StartJob, KindOK

-----------------------------------------------------------------------------
LEMMA QueueOK ==
  ASSUME JobsOK, NEW w \in Window, NEW t \in Task, NEW p, Grows(Facts, p), NEW j \in Job, JobOK(j, p),
         KindOK(t, j)
  PROVE /\ Queue(w, t, j) \in [Window -> [Task -> Job]]
        /\ \A v \in Window, s \in Task :
              JobOK(Queue(w, t, j)[v][s], p) /\ KindOK(s, Queue(w, t, j)[v][s])
        /\ \A v \in Window \ {w} : Queue(w, t, j)[v] = job[v]
<1> DEFINE mine == [j EXCEPT !.behind = /\ j.pc \in Queued \ Held
                                        /\ job[w][Other(t)].pc \in Queued]
           theirs(s) == IF j.pc \in Held THEN job[w][s] ELSE [job[w][s] EXCEPT !.behind = FALSE]
           here == [s \in Task |-> IF s = t THEN mine ELSE theirs(s)]
<1>1. job \in [Window -> [Task -> Job]]
  BY DEF JobsOK
<1>2. mine \in Job /\ Alike(j, mine)
  BY DEF Job, Alike
<1>3. ASSUME NEW s \in Task PROVE theirs(s) \in Job /\ Alike(job[w][s], theirs(s))
  <2>1. job[w][s] \in Job
    BY <1>1
  <2> QED BY <2>1 DEF Job, Alike
<1>4. Queue(w, t, j) = [job EXCEPT ![w] = here]
  BY DEF Queue
<1> HIDE DEF mine, theirs
<1>5. \A s \in Task : JobOK(here[s], p) /\ KindOK(s, here[s])
  <2>1. JobOK(mine, p) /\ KindOK(t, mine)
    BY <1>2, JobAlike, KindAlike
  <2>2. ASSUME NEW s \in Task PROVE JobOK(theirs(s), p) /\ KindOK(s, theirs(s))
    <3>1. job[w][s] \in Job /\ JobOK(job[w][s], Facts) /\ KindOK(s, job[w][s])
      BY <1>1 DEF JobsOK
    <3>2. JobOK(job[w][s], p)
      BY <3>1, JobGrows
    <3> QED BY <3>1, <3>2, <1>3, JobAlike, KindAlike
  <2> QED BY <2>1, <2>2
<1>6. \A v \in Window, s \in Task : JobOK(job[v][s], p) /\ KindOK(s, job[v][s])
  <2> SUFFICES ASSUME NEW v \in Window, NEW s \in Task
               PROVE JobOK(job[v][s], p) /\ KindOK(s, job[v][s])
    OBVIOUS
  <2>1. job[v][s] \in Job /\ JobOK(job[v][s], Facts) /\ KindOK(s, job[v][s])
    BY <1>1 DEF JobsOK
  <2> QED BY <2>1, JobGrows
<1>7. here \in [Task -> Job]
  BY <1>2, <1>3
<1> HIDE DEF here
<1> QED BY <1>1, <1>4, <1>5, <1>6, <1>7

(* After a write of the login.                                              *)
Outdated(jobs, w) ==
    [v \in Window |-> [t \in Task |->
        IF v = w /\ t = "action" THEN jobs[v][t] ELSE [jobs[v][t] EXCEPT !.fresh = FALSE]]]

LEMMA OutdatedOK ==
  ASSUME NEW jobs \in [Window -> [Task -> Job]], NEW w \in Window, NEW p,
         \A v \in Window, s \in Task : JobOK(jobs[v][s], p) /\ KindOK(s, jobs[v][s])
  PROVE /\ Outdated(jobs, w) \in [Window -> [Task -> Job]]
        /\ \A v \in Window, s \in Task :
              JobOK(Outdated(jobs, w)[v][s], p) /\ KindOK(s, Outdated(jobs, w)[v][s])
        /\ \A v \in Window \ {w}, s \in Task :
              jobs[v][s] = Idle => Outdated(jobs, w)[v][s] = Idle
<1>1. ASSUME NEW v \in Window, NEW s \in Task
      PROVE /\ Outdated(jobs, w)[v][s] \in Job
            /\ JobOK(Outdated(jobs, w)[v][s], p) /\ KindOK(s, Outdated(jobs, w)[v][s])
            /\ jobs[v][s] = Idle /\ v # w => Outdated(jobs, w)[v][s] = Idle
  <2>1. jobs[v][s] \in Job
    OBVIOUS
  <2>2. Outdated(jobs, w)[v][s] \in {jobs[v][s], [jobs[v][s] EXCEPT !.fresh = FALSE]}
    BY DEF Outdated
  <2>3. [jobs[v][s] EXCEPT !.fresh = FALSE] \in Job
        /\ Alike(jobs[v][s], [jobs[v][s] EXCEPT !.fresh = FALSE])
    BY <2>1 DEF Job, Alike
  <2>4. [Idle EXCEPT !.fresh = FALSE] = Idle
    <3>1. Idle.fresh = FALSE
      BY DEF Idle
    <3> QED BY <3>1, IdleJob, NotFresh
  <2>5. JobOK([jobs[v][s] EXCEPT !.fresh = FALSE], p)
        /\ KindOK(s, [jobs[v][s] EXCEPT !.fresh = FALSE])
    BY <2>3, JobAlike, KindAlike
  <2> QED BY <2>1, <2>2, <2>3, <2>4, <2>5
<1>2. Outdated(jobs, w) \in [Window -> [Task -> Job]]
  BY <1>1 DEF Outdated
<1> QED BY <1>1, <1>2
-----------------------------------------------------------------------------
(* What a step of window w may make of jobs and windows.                    *)
Lane(w) ==
    /\ job' \in [Window -> [Task -> Job]]
    /\ \A v \in Window, s \in Task : JobOK(job'[v][s], Facts') /\ KindOK(s, job'[v][s])
    /\ win' \in [Window -> View]
    /\ win'[w].epoch # "closed"
    /\ \A v \in Window \ {w} :
          /\ win'[v] = win[v]
          /\ \A s \in Task : job[v][s] = Idle => job'[v][s] = Idle

(* Task t of window w is at work.                                           *)
Busy(w, t) == /\ w \in Window /\ t \in Task
              /\ IInv /\ Grows(Facts, Facts')
              /\ job[w][t].pc # "idle"

LEMMA BusyFacts ==
  ASSUME NEW w, NEW t, Busy(w, t)
  PROVE /\ JobsOK
        /\ job \in [Window -> [Task -> Job]] /\ job[w] \in [Task -> Job] /\ job[w][t] \in Job
        /\ JobOK(job[w][t], Facts) /\ JobOK(job[w][t], Facts') /\ KindOK(t, job[w][t])
        /\ win \in [Window -> View] /\ win[w] \in View /\ win[w].epoch # "closed"
<1>1. JobsOK /\ Windows /\ w \in Window /\ t \in Task /\ Grows(Facts, Facts')
  BY DEF Busy, IInv
<1>2. job \in [Window -> [Task -> Job]] /\ JobOK(job[w][t], Facts) /\ KindOK(t, job[w][t])
  BY <1>1 DEF JobsOK
<1>3. job[w] \in [Task -> Job] /\ job[w][t] \in Job
  BY <1>1, <1>2
<1>4. JobOK(job[w][t], Facts')
  BY <1>1, <1>2, <1>3, JobGrows
<1>5. win \in [Window -> View] /\ win[w] \in View
  BY <1>1 DEF Windows
<1>6. job[w][t] # Idle
  BY DEF Busy, Idle
<1>7. win[w].epoch # "closed"
  BY <1>1, <1>6 DEF Windows
<1> QED BY <1>1, <1>2, <1>3, <1>4, <1>5, <1>7

LEMMA BeLane ==
  ASSUME NEW w, NEW t, Busy(w, t), NEW j \in Job, JobOK(j, Facts'), KindOK(t, j), Be(w, t, j),
         NEW v \in View, v.epoch # "closed", win' = [win EXCEPT ![w] = v]
  PROVE Lane(w)
<1>1. JobsOK /\ w \in Window /\ t \in Task /\ Grows(Facts, Facts')
  BY BusyFacts DEF Busy
<1>2. /\ job' \in [Window -> [Task -> Job]]
      /\ \A u \in Window, s \in Task : JobOK(job'[u][s], Facts') /\ KindOK(s, job'[u][s])
      /\ \A u \in Window \ {w} : job'[u] = job[u]
  BY <1>1, QueueOK DEF Be
<1>3. /\ win' \in [Window -> View] /\ win'[w].epoch # "closed"
      /\ \A u \in Window \ {w} : win'[u] = win[u]
  BY <1>1, BusyFacts
<1> QED BY <1>2, <1>3 DEF Lane

LEMMA StayLane ==
  ASSUME NEW w, NEW t, Busy(w, t), NEW j \in Job, JobOK(j, Facts'), KindOK(t, j), Be(w, t, j), UNCHANGED win
  PROVE Lane(w)
<1>1. win' = [win EXCEPT ![w] = win[w]]
  BY BusyFacts
<1> QED BY <1>1, BusyFacts, BeLane

LEMMA ViewEnded ==
  ASSUME NEW v \in View, v.epoch # "closed", NEW t
  PROVE Ended(v, t) \in View /\ Ended(v, t).epoch # "closed"
  BY DEF Ended, View

LEMMA QuitLane == ASSUME NEW w, NEW t, Busy(w, t), Quit(w, t) PROVE Lane(w)
<1>1. w \in Window /\ t \in Task
  BY DEF Busy
<1>2. Done(w, t) \in Job /\ JobOK(Done(w, t), Facts') /\ KindOK(t, Done(w, t))
  BY <1>1, DoneOK
<1>3. Ended(win[w], t) \in View /\ Ended(win[w], t).epoch # "closed"
  BY BusyFacts, ViewEnded
<1>4. win' = [win EXCEPT ![w] = Ended(win[w], t)] /\ Be(w, t, Done(w, t))
  BY DEF Quit
<1> QED BY <1>2, <1>3, <1>4, BeLane

LEMMA ViewEpoch == ASSUME NEW v \in View PROVE v.epoch \in Task \cup {"none", "locked", "closed"}
  BY DEF View

LEMMA FinishLane ==
  ASSUME NEW w, NEW t, Busy(w, t), NEW v \in View, v.epoch # "closed", Finish(w, t, v)
  PROVE Lane(w)
<1>1. w \in Window /\ t \in Task
  BY DEF Busy
<1>2. Done(w, t) \in Job /\ JobOK(Done(w, t), Facts') /\ KindOK(t, Done(w, t))
  BY <1>1, DoneOK
<1> DEFINE u == [v EXCEPT !.epoch = IF Current(w, t) THEN "none" ELSE @]
<1>3. u \in View /\ u.epoch # "closed"
  BY DEF View
<1>4. win' = [win EXCEPT ![w] = Ended(u, t)] /\ Be(w, t, Done(w, t))
  BY DEF Finish
<1> HIDE DEF u
<1>5. Ended(u, t) \in View /\ Ended(u, t).epoch # "closed"
  BY <1>3, ViewEnded
<1> QED BY <1>2, <1>4, <1>5, BeLane

LEMMA LockLane == ASSUME NEW w, NEW t, Busy(w, t), Lock(w, t) PROVE Lane(w)
<1>1. w \in Window /\ t \in Task
  BY DEF Busy
<1>2. Done(w, t) \in Job /\ JobOK(Done(w, t), Facts') /\ KindOK(t, Done(w, t))
  BY <1>1, DoneOK
<1> DEFINE u == [win[w] EXCEPT !.epoch = IF Current(w, t) THEN "locked" ELSE @]
<1>3. u \in View /\ u.epoch # "closed"
  BY BusyFacts DEF View
<1>4. win' = [win EXCEPT ![w] = Ended(u, t)] /\ Be(w, t, Done(w, t))
  BY DEF Lock
<1> HIDE DEF u
<1>5. Ended(u, t) \in View /\ Ended(u, t).epoch # "closed"
  BY <1>3, ViewEnded
<1> QED BY <1>2, <1>4, <1>5, BeLane

LEMMA GotoLane ==
  ASSUME NEW w, NEW t, Busy(w, t), NEW pc \in Pc, JobOK([job[w][t] EXCEPT !.pc = pc], Facts'),
         Goto(w, t, pc), UNCHANGED win
  PROVE Lane(w)
<1>1. job[w][t] \in Job /\ KindOK(t, job[w][t]) /\ job[w][t].pc # "idle"
  BY BusyFacts DEF Busy
<1>2. [job[w][t] EXCEPT !.pc = pc] \in Job /\ KindOK(t, [job[w][t] EXCEPT !.pc = pc])
  BY <1>1 DEF Job, KindOK
<1> QED BY <1>2, StayLane DEF Goto

LEMMA UserOfOK == ASSUME NEW l \in StoredLogin \cup {None} PROVE UserOf(l) \in User \cup {None}
  BY DEF UserOf, StoredLogin

LEMMA UndoJob ==
  ASSUME NEW u \in User \cup {None}, NEW l \in StoredLogin \cup {None}, NEW pc \in Pc
  PROVE [Idle EXCEPT !.kind = "undo", !.user = u, !.stored = l, !.pc = pc] \in Job
  BY IdleJob DEF Job, Kind

LEMMA RestoreLane == ASSUME NEW w, Busy(w, "action"), Restore(w) PROVE Lane(w)
<1> DEFINE k == [Idle EXCEPT !.kind = "undo", !.user = UserOf(win[w].shown), !.stored = win[w].shown,
                             !.pc = IF win[w].shown = None THEN "guest" ELSE "profile"]
<1>1. CASE ~Current(w, "action")
  BY <1>1, QuitLane DEF Restore
<1>2. CASE Current(w, "action")
  <2>1. win[w].shown \in StoredLogin \cup {None}
    BY BusyFacts DEF View
  <2>2. UserOf(win[w].shown) \in User \cup {None}
    BY <2>1, UserOfOK
  <2>3. win[w].shown # None => UserOf(win[w].shown) \in User
    BY <2>1 DEF UserOf, StoredLogin
  <2>4. /\ k.pc = IF win[w].shown = None THEN "guest" ELSE "profile"
        /\ k.kind = "undo" /\ k.user = UserOf(win[w].shown) /\ k.id = None
    BY DEF Idle
  <2>5. k \in Job
    <3>1. (IF win[w].shown = None THEN "guest" ELSE "profile") \in Pc
      BY DEF Pc, Queued
    <3> QED BY <3>1, <2>1, <2>2, UndoJob
  <2>6. JobOK(k, Facts') /\ KindOK("action", k)
    BY <2>3, <2>4 DEF JobOK, KindOK, ForAccount, NoReservation, Asking, SettingAside, Opening, Claiming
  <2>7. Be(w, "action", k) /\ UNCHANGED win
    BY <1>2 DEF Restore
  <2> HIDE DEF k
  <2> QED BY <2>5, <2>6, <2>7, StayLane
<1> QED BY <1>1, <1>2

LEMMA ThrowLane ==
  ASSUME NEW w, NEW t, Busy(w, t), Throw(w, t)
  PROVE Lane(w)
<1>1. CASE job[w][t].kind \in {"refresh", "init", "undo"} \/ job[w][t].pc = "verify"
  BY <1>1, LockLane DEF Throw
<1>2. CASE ~(job[w][t].kind \in {"refresh", "init", "undo"} \/ job[w][t].pc = "verify")
  <2>0. t = "action"
    BY <1>2, BusyFacts DEF Busy, Task, KindOK
  <2>1. CASE job[w][t].verified /\ Current(w, t)
    <3>1. Goto(w, t, "rollback") /\ UNCHANGED win
      BY <1>2, <2>1 DEF Throw
    <3>2. JobOK([job[w][t] EXCEPT !.pc = "rollback"], Facts')
      BY BusyFacts DEF Job, JobOK, ForAccount, NoReservation, Asking, SettingAside, Opening, Claiming
    <3>3. "rollback" \in Pc
      BY DEF Pc
    <3> QED BY <3>1, <3>2, <3>3, GotoLane
  <2>2. CASE ~(job[w][t].verified /\ Current(w, t))
    <3>1. Restore(w)
      BY <1>2, <2>2 DEF Throw
    <3> QED BY <3>1, <2>0, RestoreLane
  <2> QED BY <2>1, <2>2
<1> QED BY <1>1, <1>2

LEMMA GiveWayLane == ASSUME NEW w, Busy(w, "action"), GiveWay(w) PROVE Lane(w)
<1> DEFINE jobs == Queue(w, "action", Idle)
           v == [[win[w] EXCEPT !.epoch = "refresh"] EXCEPT !.again = job[w]["refresh"].pc # "idle"]
<1>1. JobsOK /\ w \in Window /\ "action" \in Task /\ "refresh" \in Task /\ Grows(Facts, Facts')
  BY BusyFacts DEF Busy, Task
<1>2. /\ jobs \in [Window -> [Task -> Job]]
      /\ \A u \in Window, s \in Task : JobOK(jobs[u][s], Facts') /\ KindOK(s, jobs[u][s])
      /\ \A u \in Window \ {w} : jobs[u] = job[u]
  BY <1>1, QueueOK, IdleJob, IdleOK
<1>0. win[w] \in View /\ win[w].epoch # "closed"
  BY BusyFacts
<1>3. v \in View /\ v.epoch # "closed"
  BY <1>0, <1>1 DEF View
<1>4. win' = [win EXCEPT ![w] = v]
  BY <1>1, BusyFacts DEF GiveWay, Refreshing
<1>5. /\ win' \in [Window -> View] /\ win'[w].epoch # "closed"
      /\ \A u \in Window \ {w} : win'[u] = win[u]
  BY <1>1, <1>3, <1>4, BusyFacts
<1> HIDE DEF v
<1>6. job' = Refreshed(w, jobs)
  BY DEF GiveWay
<1> HIDE DEF jobs
<1>7. job' \in {jobs, [jobs EXCEPT ![w]["refresh"] = StartJob("refresh")]}
  BY <1>6 DEF Refreshed, StartJob
<1>8. StartJob("refresh") \in Job /\ JobOK(StartJob("refresh"), Facts')
      /\ KindOK("refresh", StartJob("refresh"))
  BY StartOK DEF KindOK, StartJob
<1>9. /\ job' \in [Window -> [Task -> Job]]
      /\ \A u \in Window, s \in Task : JobOK(job'[u][s], Facts') /\ KindOK(s, job'[u][s])
      /\ \A u \in Window \ {w} : job'[u] = job[u]
  BY <1>1, <1>2, <1>7, <1>8
<1> QED BY <1>5, <1>9 DEF Lane
LEMMA ShowLane ==
  ASSUME NEW w, NEW t, Busy(w, t), NEW v \in View, v.epoch # "closed",
         NEW login \in StoredLogin \cup {None}, Show(w, t, v, login)
  PROVE Lane(w)
<1>1. w \in Window /\ t \in Task
  BY DEF Busy
<1>2. CASE t = "refresh" /\ ~Current(w, t)
  <2>1. Done(w, t) \in Job /\ JobOK(Done(w, t), Facts') /\ KindOK(t, Done(w, t))
    BY <1>1, DoneOK
  <2>2. Ended(v, t) \in View /\ Ended(v, t).epoch # "closed"
    BY ViewEnded
  <2>3. Be(w, t, Done(w, t)) /\ win' = [win EXCEPT ![w] = Ended(v, t)]
    BY <1>2 DEF Show
  <2> QED BY <2>1, <2>2, <2>3, BeLane
<1>3. CASE ~(t = "refresh" /\ ~Current(w, t))
  <2>1. [v EXCEPT !.shown = login] \in View /\ [v EXCEPT !.shown = login].epoch # "closed"
    BY DEF View
  <2>2. Finish(w, t, [v EXCEPT !.shown = login])
    BY <1>3 DEF Show
  <2> QED BY <2>1, <2>2, FinishLane
<1> QED BY <1>2, <1>3

LEMMA ViewSelected ==
  ASSUME NEW v \in View, v.epoch # "closed", NEW p \in Profile
  PROVE [v EXCEPT !.selected = p] \in View /\ [v EXCEPT !.selected = p].epoch # "closed"
  BY DEF View

LEMMA OpenedJob ==
  ASSUME NEW o, NEW j \in Job, JobOK(j, o), j.pc \in {"activate", "claimAny", "guest", "selectGuest"},
         NEW pc, \/ pc = "clear"
                 \/ pc \in {"journal", "route"} /\ j.pc \in {"activate", "claimAny"}
  PROVE pc \in Pc /\ JobOK([j EXCEPT !.pc = pc], o)
<1>1. j.id = None
  BY DEF JobOK, NoReservation
<1>2. pc \in {"journal", "route"} => j.user \in User
  BY DEF JobOK, ForAccount
<1>3. pc \in Pc
  BY DEF Pc, Queued
<1> DEFINE k == [j EXCEPT !.pc = pc]
<1>4. k.pc = pc /\ k.kind = j.kind /\ k.id = j.id /\ k.user = j.user
  BY DEF Job
<1> HIDE DEF k
<1>5. JobOK(k, o)
  BY <1>1, <1>2, <1>4
     DEF JobOK, ForAccount, NoReservation, Asking, SettingAside, Opening, Claiming
<1> QED BY <1>3, <1>5 DEF k

LEMMA OpenedLane ==
  ASSUME NEW w, NEW t, Busy(w, t), NEW p \in Profile, Opened(w, t, p),
         job[w][t].pc \in {"activate", "claimAny", "guest", "selectGuest"}
  PROVE Lane(w)
<1> DEFINE j == job[w][t]
           view == [win[w] EXCEPT !.selected = p]
           shows == j.kind = "undo" \/ (j.kind = "refresh" /\ j.user = None)
           ends == j.kind = "init" /\ j.user = None
           next == IF j.kind = "logout" THEN "clear"
                   ELSE IF j.kind \in {"refresh", "init"} THEN "journal" ELSE "route"
<1>1. j \in Job /\ JobOK(j, Facts) /\ JobOK(j, Facts') /\ win[w] \in View /\ win[w].epoch # "closed"
  BY BusyFacts
<1>2. view \in View /\ view.epoch # "closed"
  BY <1>1, ViewSelected
<1>3. CASE shows
  <2>1. Show(w, t, view, j.stored)
    BY <1>3 DEF Opened
  <2>2. j.stored \in StoredLogin \cup {None}
    BY <1>1 DEF Job
  <2> HIDE DEF view, j
  <2> QED BY <1>2, <2>1, <2>2, ShowLane
<1>4. CASE ~shows /\ ends
  <2>1. Show(w, t, view, None)
    BY <1>4 DEF Opened
  <2> HIDE DEF view
  <2> QED BY <1>2, <2>1, ShowLane
<1>5. CASE ~shows /\ ~ends
  <2>1. win' = [win EXCEPT ![w] = view] /\ Goto(w, t, next)
    BY <1>5 DEF Opened
  <2>2. \/ next = "clear"
        \/ next \in {"journal", "route"} /\ j.pc \in {"activate", "claimAny"}
    <3>1. CASE j.pc \in {"guest", "selectGuest"}
      <4>1. j.kind = "logout"
        BY <1>1, <1>5, <3>1 DEF JobOK
      <4>2. next = "clear"
        BY <4>1
      <4> QED BY <4>2
    <3>2. CASE j.pc \in {"activate", "claimAny"}
      BY <3>2
    <3> QED BY <3>1, <3>2
  <2> HIDE DEF next, view
  <2>3. next \in Pc /\ JobOK([j EXCEPT !.pc = next], Facts')
    BY <1>1, <2>2, OpenedJob
  <2>4. [j EXCEPT !.pc = next] \in Job
    BY <1>1, <2>3 DEF Job
  <2>5. KindOK(t, [j EXCEPT !.pc = next])
    BY <1>1, BusyFacts DEF KindOK, Job, Busy
  <2>6. Be(w, t, [j EXCEPT !.pc = next])
    BY <2>1 DEF Goto
  <2> QED BY <1>2, <2>1, <2>3, <2>4, <2>5, <2>6, BeLane
<1> QED BY <1>3, <1>4, <1>5

LEMMA SettledLane == ASSUME NEW w, NEW t, Busy(w, t), Settled(w, t) PROVE Lane(w)
<1>1. job[w][t] \in Job /\ win[w] \in View /\ win[w].epoch # "closed" /\ JobOK(job[w][t], Facts')
  BY BusyFacts
<1>2. CASE job[w][t].kind = "refresh"
  <2>1. Show(w, t, win[w], job[w][t].stored)
    BY <1>2 DEF Settled
  <2>2. job[w][t].stored \in StoredLogin \cup {None}
    BY <1>1 DEF Job
  <2> QED BY <1>1, <2>1, <2>2, ShowLane
<1>3. CASE job[w][t].kind # "refresh"
  <2>1. Goto(w, t, "publish") /\ UNCHANGED win
    BY <1>3 DEF Settled
  <2>2. "publish" \in Pc
    BY DEF Pc
  <2>3. JobOK([job[w][t] EXCEPT !.pc = "publish"], Facts')
    BY <1>1 DEF Job, JobOK, ForAccount, NoReservation, Asking, SettingAside, Opening, Claiming
  <2> QED BY <2>1, <2>2, <2>3, GotoLane
<1> QED BY <1>2, <1>3

(* A step within the stages that follow a claim.                            *)
LEMMA OnwardJob ==
  ASSUME NEW o, NEW j \in Job, JobOK(j, o), j.pc \in Claiming, NEW pc \in {"finish", "complete"},
         pc = "complete" => j.id # None
  PROVE pc \in Pc /\ JobOK([j EXCEPT !.pc = pc], o)
<1> DEFINE k == [j EXCEPT !.pc = pc]
<1>1. k.pc = pc /\ Alike(j, [k EXCEPT !.pc = j.pc]) /\ k.id = j.id /\ k.user = j.user
      /\ k.guest = j.guest /\ k.kind = j.kind
  BY DEF Job, Alike
<1>2. pc \in Pc
  BY DEF Pc
<1>3. j.user \in User /\ (j.id # None => Holds(j, o) /\ o.reserved[j.id].user = j.user
                                     /\ j.id \in o.accepted /\ o.owner[j.guest] = j.user)
  BY DEF JobOK, ForAccount, Claiming, Opening
<1>4. Holds(j, o) => Holds(k, o)
  BY <1>1 DEF Holds
<1> HIDE DEF k
<1>5. JobOK(k, o)
  BY <1>1, <1>3, <1>4
     DEF JobOK, ForAccount, NoReservation, Asking, SettingAside, Opening, Claiming
<1> QED BY <1>2, <1>5 DEF k

LEMMA AfterMoveLane ==
  ASSUME NEW w, NEW t, Busy(w, t), AfterMove(w, t), job[w][t].pc \in Claiming
  PROVE Lane(w)
<1>1. job[w][t] \in Job /\ JobOK(job[w][t], Facts')
  BY BusyFacts
<1>2. CASE job[w][t].id # None
  <2>1. Goto(w, t, "complete") /\ UNCHANGED win
    BY <1>2 DEF AfterMove
  <2>2. "complete" \in Pc /\ JobOK([job[w][t] EXCEPT !.pc = "complete"], Facts')
    BY <1>1, <1>2, OnwardJob
  <2> QED BY <2>1, <2>2, GotoLane
<1>3. CASE job[w][t].id = None
  BY <1>3, SettledLane DEF AfterMove
<1> QED BY <1>2, <1>3

-----------------------------------------------------------------------------
(* What a step may make of the ownership.                                   *)
Owned == /\ OwnershipTypeOK' /\ Grows(Facts, Facts')
         /\ Accounts' /\ CurrentOK' /\ CaptureOK'

LEMMA Keeps ==
  ASSUME IInv, Owned, NEW w \in Window, Lane(w), IntentOK', auth' \in StoredLogin \cup {None},
         note' \in [Window -> BOOLEAN], \A v \in Window : win[v].epoch = "closed" => ~note'[v]
  PROVE IInv'
<1>1. Facts' \in FactsType
  BY DEF Owned, Grows
<1>2. JobsOK'
  BY DEF Lane, JobsOK
<1>3. Windows'
  <2>1. win' \in [Window -> View] /\ win'[w].epoch # "closed"
    BY DEF Lane
  <2>2. ASSUME NEW v \in Window, win'[v].epoch = "closed"
        PROVE ~note'[v] /\ \A t \in Task : job'[v][t] = Idle
    <3>1. v # w
      BY <2>1, <2>2
    <3>2. win'[v] = win[v] /\ \A s \in Task : job[v][s] = Idle => job'[v][s] = Idle
      BY <3>1 DEF Lane
    <3> QED BY <2>2, <3>2 DEF IInv, Windows
  <2> QED BY <2>1, <2>2 DEF Windows
<1> QED BY <1>1, <1>2, <1>3 DEF IInv, Owned

StillOwned == UNCHANGED <<ownershipVars, reserved, accepted, moved, capture>>

LEMMA StillSame == ASSUME StillOwned PROVE Facts' = Facts /\ UNCHANGED ownershipVars
  BY DEF StillOwned, Facts, ownershipVars, profileVars, claimVars

LEMMA StillIsOwned == ASSUME IInv, StillOwned PROVE Owned
<1>1. Facts' = Facts
  BY StillSame
<1>2. Grows(Facts, Facts')
  BY <1>1, Quiet DEF IInv
<1>3. OwnershipTypeOK'
  BY DEF IInv, StillOwned, OwnershipTypeOK, ownershipVars, profileVars, claimVars
<1>4. Accounts'
  BY <1>1 DEF IInv, StillOwned, Accounts, ownershipVars, profileVars
<1>5. CurrentOK'
  BY DEF IInv, StillOwned, CurrentOK, ownershipVars, profileVars, claimVars
<1>6. CaptureOK'
  BY DEF IInv, StillOwned, CaptureOK, ownershipVars, profileVars, claimVars
<1> QED BY <1>2, <1>3, <1>4, <1>5, <1>6 DEF Owned

LEMMA BusyStill ==
  ASSUME IInv, StillOwned, NEW w \in Window, NEW t \in Task, job[w][t].pc # "idle"
  PROVE Busy(w, t)
  BY StillSame, StillIsOwned DEF Busy, Owned

(* A step that changes jobs and windows only.                               *)
Inside == UNCHANGED <<ownershipVars, intent, auth, reserved, accepted, moved, note, capture>>

LEMMA InsideStill == ASSUME Inside PROVE StillOwned
  BY DEF Inside, StillOwned

LEMMA InsideKeeps == ASSUME IInv, Inside, NEW w \in Window, Lane(w) PROVE IInv'
<1>1. Owned
  BY InsideStill, StillIsOwned
<1>2. IntentOK'
  BY DEF IInv, Inside, IntentOK
<1>3. auth' \in StoredLogin \cup {None}
  BY DEF IInv, Inside
<1>4. note' \in [Window -> BOOLEAN] /\ \A v \in Window : win[v].epoch = "closed" => ~note'[v]
  BY DEF IInv, Inside, Windows
<1> QED BY <1>1, <1>2, <1>3, <1>4, Keeps
-----------------------------------------------------------------------------
LEMMA ReadPendingKeeps ==
  ASSUME IInv, NEW w \in Window, NEW t \in Task, ReadPending(w, t)
  PROVE IInv'
<1> DEFINE pc == IF pending # None /\ pending.destination = job[w][t].user
                 THEN "claimAny" ELSE "activate"
           k == [job[w][t] EXCEPT !.pc = pc]
<1>1. Inside /\ job[w][t].pc = "profile" /\ Goto(w, t, pc) /\ UNCHANGED win
  BY DEF ReadPending, Inside
<1>2. Busy(w, t) /\ Facts' = Facts
  BY <1>1, InsideStill, StillSame, BusyStill
<1>3. job[w][t] \in Job /\ JobOK(job[w][t], Facts)
  BY <1>2, BusyFacts
<1>4. job[w][t].user \in User /\ job[w][t].id = None
  BY <1>1, <1>3 DEF JobOK, ForAccount, NoReservation
<1>5. pc = "claimAny" => \E h \in Guest : Facts.owner[h] = job[w][t].user
  BY <1>4, DistinctAssumption DEF IInv, CurrentOK, Facts
<1>6. pc \in Pc
  BY DEF Pc, Queued
<1>7. pc \in {"claimAny", "activate"}
  OBVIOUS
<1> HIDE DEF pc
<1>8. k.pc = pc /\ k.id = None /\ k.user = job[w][t].user
  BY <1>3, <1>4 DEF Job
<1>9. JobOK(k, Facts)
  <2> HIDE DEF k
  <2> QED BY <1>4, <1>5, <1>7, <1>8
          DEF JobOK, ForAccount, NoReservation, Asking, SettingAside, Opening, Claiming
<1>10. Lane(w)
  BY <1>1, <1>2, <1>6, <1>9, GotoLane
<1> QED BY <1>1, <1>10, InsideKeeps

LEMMA ActivateGuestKeeps ==
  ASSUME IInv, NEW w \in Window, NEW t \in Task, ActivateGuest(w, t)
  PROVE IInv'
<1> DEFINE k == [job[w][t] EXCEPT !.pc = "selectGuest", !.guest = guest]
           v == [win[w] EXCEPT !.selected = Followed(win[w].selected)]
<1>1. Inside /\ job[w][t].pc = "guest"
  BY DEF ActivateGuest, Inside
<1>2. Busy(w, t) /\ Facts' = Facts
  BY <1>1, InsideStill, StillSame, BusyStill
<1>3. /\ job[w][t] \in Job /\ JobOK(job[w][t], Facts) /\ KindOK(t, job[w][t])
      /\ win[w] \in View /\ win[w].epoch # "closed" /\ win \in [Window -> View]
  BY <1>2, BusyFacts
<1>4. guest \in Guest /\ guest \in Profile
  BY DEF IInv, OwnershipTypeOK, Profile
<1>5. Followed(win[w].selected) \in Profile
  BY <1>3, <1>4 DEF Followed, View
<1>6. CASE Followed(win[w].selected) = guest /\ active = guest
  <2>1. Opened(w, t, guest)
    BY <1>6 DEF ActivateGuest
  <2>2. Lane(w)
    BY <1>1, <1>2, <1>4, <2>1, OpenedLane
  <2> QED BY <1>1, <2>2, InsideKeeps
<1>7. CASE ~(Followed(win[w].selected) = guest /\ active = guest)
  <2>1. Be(w, t, k) /\ win' = [win EXCEPT ![w].selected = Followed(@)]
    BY <1>7 DEF ActivateGuest
  <2>2. win' = [win EXCEPT ![w] = v]
    BY <1>3, <2>1
  <2>3. k.pc = "selectGuest" /\ k.guest = guest /\ k.kind = job[w][t].kind
        /\ k.user = job[w][t].user /\ k.id = None
    BY <1>1, <1>3 DEF Job, JobOK, NoReservation
  <2>4. k \in Job /\ KindOK(t, k)
    BY <1>1, <1>3, <1>4 DEF Job, Pc, Queued, KindOK
  <2>5. v \in View /\ v.epoch # "closed"
    BY <1>3, <1>5, ViewSelected
  <2>6. JobOK(k, Facts)
    <3> HIDE DEF k
    <3> QED BY <1>1, <1>3, <1>4, <2>3
            DEF JobOK, ForAccount, NoReservation, Asking, SettingAside, Opening, Claiming
  <2> HIDE DEF k, v
  <2>7. Lane(w)
    BY <1>2, <2>1, <2>2, <2>4, <2>5, <2>6, BeLane
  <2> QED BY <1>1, <2>7, InsideKeeps
<1> QED BY <1>6, <1>7

LEMMA IntentFacts ==
  ASSUME IInv, NEW u, Matches(u)
  PROVE /\ intent \in Intent /\ intent.user = u /\ intent.id \in Id /\ intent.id # None
        /\ reserved[intent.id] # None
        /\ reserved[intent.id].user = u /\ reserved[intent.id].guest = intent.guest
        /\ reserved[intent.id].gen = intent.gen
        /\ intent.guest \in Guest /\ intent.gen \in Generation
        /\ intent.id \in accepted
<1>1. intent \in Intent /\ intent.user = u /\ intent.id \in accepted
      /\ reserved[intent.id] = [user |-> intent.user, guest |-> intent.guest, gen |-> intent.gen]
  BY DEF IInv, IntentOK, Matches
<1>2. intent.id \in Id /\ intent.guest \in Guest /\ intent.gen \in Generation /\ intent.user \in User
  BY <1>1 DEF Intent
<1>3. reserved[intent.id] \in Reservation
  BY <1>1, <1>2 DEF Reservation
<1> QED BY <1>1, <1>2, <1>3, NamesAssumption, NoRecordAssumption

(* A task takes up the redeemed reservation of its account, to store the    *)
(* login first or to claim the guest.                                       *)
LEMMA TakeUp ==
  ASSUME IInv, NEW j \in Job, j.user \in User, Matches(j.user), NEW pc \in {"store", "claim"}
  PROVE LET k == [j EXCEPT !.pc = pc, !.id = intent.id, !.guest = intent.guest, !.gen = intent.gen]
        IN k \in Job /\ JobOK(k, Facts) /\ k.kind = j.kind
<1> DEFINE k == [j EXCEPT !.pc = pc, !.id = intent.id, !.guest = intent.guest, !.gen = intent.gen]
<1>1. /\ intent \in Intent /\ intent.user = j.user /\ intent.id \in Id /\ intent.id # None
      /\ reserved[intent.id] # None
      /\ reserved[intent.id].user = j.user /\ reserved[intent.id].guest = intent.guest
      /\ intent.guest \in Guest /\ intent.gen \in Generation
      /\ intent.id \in accepted
  BY IntentFacts
<1>2. k \in Job
  BY <1>1 DEF Job, Pc, Queued
<1>3. k.pc = pc /\ k.kind = j.kind /\ k.id = intent.id /\ k.guest = intent.guest
      /\ k.gen = intent.gen /\ k.user = j.user
  BY DEF Job
<1> HIDE DEF k
<1>4. Holds(k, Facts)
  BY <1>1, <1>3 DEF Holds, Facts
<1>5. Facts.reserved[k.id].user = k.user /\ k.id \in Facts.accepted
  BY <1>1, <1>3 DEF Facts
<1>6. JobOK(k, Facts)
  BY <1>1, <1>3, <1>4, <1>5
     DEF JobOK, ForAccount, NoReservation, Asking, SettingAside, Opening, Claiming
<1> QED BY <1>2, <1>3, <1>6 DEF k

LEMMA ReadJournalKeeps ==
  ASSUME IInv, NEW w \in Window, NEW t \in Task, ReadJournal(w, t)
  PROVE IInv'
<1> DEFINE j == job[w][t]
           k == IF Matches(j.user)
                THEN [j EXCEPT !.pc = "claim", !.id = intent.id, !.guest = intent.guest, !.gen = intent.gen]
                ELSE [j EXCEPT !.pc = "route"]
<1>1. Inside /\ job[w][t].pc = "journal"
  BY DEF ReadJournal, Inside
<1>2. Busy(w, t) /\ Facts' = Facts
  BY <1>1, InsideStill, StillSame, BusyStill
<1>3. j \in Job /\ JobOK(j, Facts) /\ KindOK(t, j)
  BY <1>2, BusyFacts
<1>4. j.user \in User /\ j.id = None
  BY <1>1, <1>3 DEF JobOK, ForAccount, NoReservation
<1>5. CASE j.kind = "init" /\ ~Current(w, t)
  BY <1>1, <1>2, <1>5, QuitLane, InsideKeeps DEF ReadJournal
<1>6. CASE ~(j.kind = "init" /\ ~Current(w, t))
  <2>1. Be(w, t, k) /\ UNCHANGED win
    BY <1>6 DEF ReadJournal
  <2>2. k \in Job /\ JobOK(k, Facts) /\ k.kind = j.kind
    <3>1. CASE Matches(j.user)
      BY <1>3, <1>4, <3>1, TakeUp
    <3>2. CASE ~Matches(j.user)
      <4> DEFINE l == [j EXCEPT !.pc = "route"]
      <4>1. l \in Job /\ l.pc = "route" /\ l.id = None /\ l.user = j.user /\ l.kind = j.kind
        BY <1>3, <1>4 DEF Job, Pc
      <4>2. k = l
        BY <3>2
      <4> HIDE DEF l, k, j
      <4>3. JobOK(l, Facts)
        BY <1>4, <4>1
           DEF JobOK, ForAccount, NoReservation, Asking, SettingAside, Opening, Claiming
      <4> QED BY <4>1, <4>2, <4>3
    <3> QED BY <3>1, <3>2
  <2> HIDE DEF k
  <2>3. KindOK(t, k)
    BY <1>1, <1>3, <2>2 DEF KindOK
  <2>4. Lane(w)
    BY <1>2, <2>1, <2>2, <2>3, StayLane
  <2> QED BY <1>1, <2>4, InsideKeeps
<1> QED BY <1>5, <1>6

LEMMA ReadRouteKeeps ==
  ASSUME IInv, NEW w \in Window, NEW t \in Task, ReadRoute(w, t)
  PROVE IInv'
<1> DEFINE j == job[w][t]
           k == [j EXCEPT !.pc = "move", !.gen = Owed(j.user)]
<1>1. Inside /\ job[w][t].pc = "route"
  BY DEF ReadRoute, Inside
<1>2. Busy(w, t) /\ Facts' = Facts
  BY <1>1, InsideStill, StillSame, BusyStill
<1>3. j \in Job /\ JobOK(j, Facts) /\ KindOK(t, j)
  BY <1>2, BusyFacts
<1>4. CASE Owed(j.user) # None
  <2>1. Be(w, t, k) /\ UNCHANGED win
    BY <1>4 DEF ReadRoute
  <2>2. Owed(j.user) \in Generation /\ claimRoute[Owed(j.user)] # None
    <3>1. pending # None /\ Owed(j.user) = pending.source
      BY <1>4 DEF Owed
    <3>2. pending \in PendingClaim
      BY <3>1 DEF IInv, OwnershipTypeOK
    <3> QED BY <3>1, <3>2 DEF IInv, CurrentOK, PendingClaim
  <2>3. /\ k \in Job /\ k.pc = "move" /\ k.gen = Owed(j.user) /\ k.id = j.id /\ k.user = j.user
        /\ k.kind = j.kind /\ k.guest = j.guest
    BY <1>3, <2>2 DEF Job, Pc
  <2>4. /\ j.user \in User
        /\ j.id # None => /\ Holds(j, Facts) /\ Facts.reserved[j.id].user = j.user
                          /\ j.id \in Facts.accepted /\ Facts.owner[j.guest] = j.user
    BY <1>1, <1>3 DEF JobOK, ForAccount, Opening, Claiming
  <2> HIDE DEF k, j
  <2>5. Holds(j, Facts) => Holds(k, Facts)
    BY <2>3 DEF Holds
  <2>6. Facts.claim[k.gen] # None
    BY <2>2, <2>3 DEF Facts
  <2>7. JobOK(k, Facts)
    BY <2>2, <2>3, <2>4, <2>5, <2>6
       DEF JobOK, ForAccount, NoReservation, Asking, SettingAside, Opening, Claiming
  <2>8. KindOK(t, k)
    BY <1>1, <1>3, <2>3 DEF KindOK, j
  <2>9. Lane(w)
    BY <1>2, <2>1, <2>3, <2>7, <2>8, StayLane
  <2> QED BY <1>1, <2>9, InsideKeeps
<1>5. CASE Owed(j.user) = None
  <2>1. AfterMove(w, t) /\ job[w][t].pc \in Claiming
    BY <1>1, <1>5 DEF ReadRoute, Claiming
  <2>2. Lane(w)
    BY <1>2, <2>1, AfterMoveLane
  <2> QED BY <1>1, <2>2, InsideKeeps
<1> QED BY <1>4, <1>5

LEMMA PublishKeeps ==
  ASSUME IInv, NEW w \in Window, NEW t \in Task, Publish(w, t)
  PROVE IInv'
<1>1. Inside /\ job[w][t].pc = "publish"
  BY DEF Publish, Inside
<1>2. Busy(w, t)
  BY <1>1, InsideStill, BusyStill
<1>3. win[w] \in View /\ win[w].epoch # "closed" /\ auth \in StoredLogin \cup {None}
  BY <1>2, BusyFacts DEF IInv
<1>4. \/ Quit(w, t) \/ Show(w, t, win[w], auth) \/ Throw(w, t)
      \/ GiveWay(w) /\ job[w][t].kind = "init"
  BY DEF Publish
<1>5. CASE GiveWay(w) /\ job[w][t].kind = "init"
  <2>1. t = "action"
    BY <1>1, <1>2, <1>5, BusyFacts DEF KindOK, Task
  <2> QED BY <1>1, <1>2, <1>5, <2>1, GiveWayLane, InsideKeeps
<1>6. CASE Quit(w, t) \/ Throw(w, t)
  BY <1>1, <1>2, <1>6, QuitLane, ThrowLane, InsideKeeps
<1>7. CASE Show(w, t, win[w], auth)
  <2>1. Lane(w)
    BY <1>2, <1>3, <1>7, ShowLane
  <2> QED BY <1>1, <2>1, InsideKeeps
<1> QED BY <1>4, <1>5, <1>6, <1>7

LEMMA ReadLoginKeeps ==
  ASSUME IInv, NEW w \in Window, NEW t \in Task, ReadLogin(w, t)
  PROVE IInv'
<1> DEFINE j == job[w][t]
           pc == IF auth = None THEN "guest" ELSE "profile"
           k == [j EXCEPT !.stored = auth, !.user = UserOf(auth), !.pc = pc]
<1>1. Inside /\ job[w][t].pc = "start"
  BY DEF ReadLogin, Inside
<1>2. Busy(w, t) /\ Facts' = Facts
  BY <1>1, InsideStill, StillSame, BusyStill
<1>3. j \in Job /\ JobOK(j, Facts) /\ KindOK(t, j)
  BY <1>2, BusyFacts
<1>4. auth \in StoredLogin \cup {None}
  BY DEF IInv
<1>5. CASE t = "refresh" /\ ~Current(w, t)
  BY <1>1, <1>2, <1>5, QuitLane, InsideKeeps DEF ReadLogin
<1>6. CASE ~(t = "refresh" /\ ~Current(w, t))
  <2>1. Be(w, t, k) /\ UNCHANGED win
    BY <1>6 DEF ReadLogin
  <2>2. UserOf(auth) \in User \cup {None} /\ (auth # None => UserOf(auth) \in User)
        /\ (auth = None => UserOf(auth) = None)
    BY <1>4 DEF UserOf, StoredLogin
  <2>3. pc \in Pc
    BY DEF Pc, Queued
  <2>4. /\ k \in Job /\ k.pc = pc /\ k.user = UserOf(auth) /\ k.kind = j.kind /\ k.id = None
    BY <1>1, <1>3, <1>4, <2>2, <2>3 DEF Job, JobOK, NoReservation
  <2>5. j.kind \in {"refresh", "init"}
    BY <1>1, <1>3 DEF JobOK
  <2> HIDE DEF k, j
  <2>6. JobOK(k, Facts)
    BY <2>2, <2>4, <2>5
       DEF JobOK, ForAccount, NoReservation, Asking, SettingAside, Opening, Claiming
  <2>7. KindOK(t, k)
    BY <1>1, <1>3, <2>4 DEF KindOK, j
  <2>8. Lane(w)
    BY <1>2, <2>1, <2>4, <2>6, <2>7, StayLane
  <2> QED BY <1>1, <2>8, InsideKeeps
<1> QED BY <1>5, <1>6
-----------------------------------------------------------------------------
LEMMA BeginKeeps ==
  ASSUME IInv, NEW w \in Window, NEW kind \in {"redeem", "login", "logout"},
         NEW u \in User \cup {None}, NEW pc \in {"reserve", "match", "sync"},
         pc # "sync" => u \in User, pc = "sync" => kind = "logout", Begin(w, kind, u, pc)
  PROVE IInv'
<1> DEFINE k == [Idle EXCEPT !.pc = pc, !.kind = kind, !.user = u, !.fresh = TRUE, !.stored = auth]
           v == [win[w] EXCEPT !.epoch = "action"]
<1>1. Inside
  BY DEF Begin, Inside
<1>2. Facts' = Facts /\ Owned
  BY <1>1, InsideStill, StillSame, StillIsOwned
<1>3. /\ win \in [Window -> View] /\ win[w].epoch = "none" /\ JobsOK
      /\ auth \in StoredLogin \cup {None} /\ Grows(Facts, Facts)
  BY <1>2 DEF IInv, Windows, Begin, Owned
<1>4. Be(w, "action", k) /\ win' = [win EXCEPT ![w] = v]
  BY <1>3 DEF Begin
<1>5. k \in Job
  BY <1>3, IdleJob DEF Job, Pc, Kind
<1>6. k.pc = pc /\ k.id = None /\ k.user = u /\ k.kind = kind
  BY DEF Idle
<1>7. v \in View /\ v.epoch # "closed"
  BY <1>3 DEF View, Task
<1> HIDE DEF k, v
<1>8. JobOK(k, Facts) /\ KindOK("action", k)
  BY <1>6 DEF JobOK, KindOK, ForAccount, NoReservation, Asking, SettingAside, Opening, Claiming
<1>9. "action" \in Task
  BY DEF Task
<1>10. /\ job' \in [Window -> [Task -> Job]]
       /\ \A x \in Window, s \in Task : JobOK(job'[x][s], Facts) /\ KindOK(s, job'[x][s])
       /\ \A x \in Window \ {w} : job'[x] = job[x]
  BY <1>3, <1>4, <1>5, <1>8, <1>9, QueueOK DEF Be
<1>11. Lane(w)
  BY <1>2, <1>3, <1>4, <1>7, <1>10 DEF Lane
<1> QED BY <1>1, <1>11, InsideKeeps

LEMMA RestoreKeeps ==
  ASSUME IInv, NEW w \in Window, Inside, Restore(w), job[w]["action"].pc # "idle"
  PROVE IInv'
<1>1. Busy(w, "action")
  BY InsideStill, BusyStill DEF Task
<1> QED BY <1>1, RestoreLane, InsideKeeps

LEMMA RefusedKeeps ==
  ASSUME IInv, NEW w \in Window, NoAnswer(w) \/ Refused(w)
  PROVE IInv'
<1> DEFINE j == job[w]["action"]
<1>1. Inside /\ j.pc \in {"lost", "refused"}
  BY DEF NoAnswer, Refused, Inside
<1>2. CASE Restore(w)
  BY <1>1, <1>2, RestoreKeeps
<1>3. CASE j.pc = "refused" /\ Goto(w, "action", "drop") /\ UNCHANGED win
  <2>1. Busy(w, "action") /\ Facts' = Facts
    BY <1>1, InsideStill, StillSame, BusyStill DEF Task
  <2>2. j \in Job /\ JobOK(j, Facts)
    BY <2>1, BusyFacts
  <2> DEFINE k == [j EXCEPT !.pc = "drop"]
  <2>3. k.pc = "drop" /\ k.id = j.id /\ k.user = j.user /\ k.guest = j.guest
    BY <2>2 DEF Job
  <2>4. j.user \in User /\ Holds(j, Facts) /\ Facts.reserved[j.id].user = j.user
    BY <1>3, <2>2 DEF JobOK, ForAccount, Asking
  <2>5. "drop" \in Pc
    BY DEF Pc
  <2> HIDE DEF k
  <2>6. Holds(k, Facts)
    BY <2>3, <2>4 DEF Holds
  <2>7. JobOK(k, Facts)
    BY <2>3, <2>4, <2>6
       DEF JobOK, ForAccount, NoReservation, Asking, SettingAside, Opening, Claiming
  <2>8. Lane(w)
    BY <1>3, <2>1, <2>5, <2>7, GotoLane DEF k
  <2> QED BY <1>1, <2>8, InsideKeeps
<1> QED BY <1>2, <1>3 DEF NoAnswer, Refused

LEMMA LeaveAccountKeeps ==
  ASSUME IInv, NEW w \in Window, LeaveAccount(w)
  PROVE IInv'
<1> DEFINE j == job[w]["action"]
<1>1. Inside /\ j.pc = "sync"
  BY DEF LeaveAccount, Inside
<1>2. Busy(w, "action") /\ Facts' = Facts
  BY <1>1, InsideStill, StillSame, BusyStill DEF Task
<1>3. CASE Quit(w, "action")
  BY <1>1, <1>2, <1>3, QuitLane, InsideKeeps
<1>4. CASE Goto(w, "action", "guest") /\ UNCHANGED win
  <2>1. j \in Job /\ JobOK(j, Facts)
    BY <1>2, BusyFacts
  <2> DEFINE k == [j EXCEPT !.pc = "guest"]
  <2>2. k.pc = "guest" /\ k.id = None /\ k.kind = "logout"
    BY <1>1, <2>1 DEF Job, JobOK, NoReservation
  <2>3. "guest" \in Pc
    BY DEF Pc, Queued
  <2> HIDE DEF k
  <2>4. JobOK(k, Facts)
    BY <2>2 DEF JobOK, ForAccount, NoReservation, Asking, SettingAside, Opening, Claiming
  <2>5. Lane(w)
    BY <1>2, <1>4, <2>3, <2>4, GotoLane DEF k
  <2> QED BY <1>1, <2>5, InsideKeeps
<1> QED BY <1>3, <1>4 DEF LeaveAccount

LEMMA MatchKeeps ==
  ASSUME IInv, NEW w \in Window, Match(w)
  PROVE IInv'
<1> DEFINE j == job[w]["action"]
           k == IF Matches(j.user)
                THEN [j EXCEPT !.pc = "store", !.id = intent.id, !.guest = intent.guest, !.gen = intent.gen]
                ELSE [j EXCEPT !.pc = "store"]
<1>1. Inside /\ j.pc = "match"
  BY DEF Match, Inside
<1>2. Busy(w, "action") /\ Facts' = Facts
  BY <1>1, InsideStill, StillSame, BusyStill DEF Task
<1>3. j \in Job /\ JobOK(j, Facts)
  BY <1>2, BusyFacts
<1>4. j.user \in User /\ j.id = None
  BY <1>1, <1>3 DEF JobOK, ForAccount, NoReservation
<1>5. CASE Restore(w)
  BY <1>1, <1>5, RestoreKeeps
<1>6. CASE Be(w, "action", k) /\ UNCHANGED win
  <2>1. k \in Job /\ JobOK(k, Facts)
    <3>1. CASE Matches(j.user)
      BY <1>3, <1>4, <3>1, TakeUp
    <3>2. CASE ~Matches(j.user)
      <4> DEFINE l == [j EXCEPT !.pc = "store"]
      <4>1. l \in Job /\ l.pc = "store" /\ l.id = None /\ l.user = j.user
        BY <1>3, <1>4 DEF Job, Pc
      <4>2. k = l
        BY <3>2
      <4> HIDE DEF l, k, j
      <4>3. JobOK(l, Facts)
        BY <1>4, <4>1
           DEF JobOK, ForAccount, NoReservation, Asking, SettingAside, Opening, Claiming
      <4> QED BY <4>1, <4>2, <4>3
    <3> QED BY <3>1, <3>2
  <2> HIDE DEF k
  <2>2. Lane(w)
    BY <1>2, <1>6, <2>1, StayLane DEF KindOK
  <2> QED BY <1>1, <2>2, InsideKeeps
<1> QED BY <1>5, <1>6 DEF Match

LEMMA VerifyKeeps ==
  ASSUME IInv, NEW w \in Window, Verify(w)
  PROVE IInv'
<1> DEFINE j == job[w]["action"]
           l == [j EXCEPT !.fresh = TRUE, !.verified = TRUE]
           pc == IF auth # Login(l.user, w) THEN "rollback"
                 ELSE IF l.id # None THEN "claim" ELSE "profile"
           k == [l EXCEPT !.pc = pc]
<1>1. Inside /\ j.pc = "verify"
  BY DEF Verify, Inside
<1>2. Busy(w, "action") /\ Facts' = Facts
  BY <1>1, InsideStill, StillSame, BusyStill DEF Task
<1>3. j \in Job /\ JobOK(j, Facts)
  BY <1>2, BusyFacts
<1>4. /\ j.user \in User
      /\ j.id # None => /\ Holds(j, Facts) /\ Facts.reserved[j.id].user = j.user
                        /\ j.id \in Facts.accepted
  BY <1>1, <1>3 DEF JobOK, ForAccount, Opening
<1>5. CASE Quit(w, "action")
  BY <1>1, <1>2, <1>5, QuitLane, InsideKeeps
<1>6. CASE Be(w, "action", k) /\ UNCHANGED win
  <2>1. l \in Job /\ l.id = j.id /\ l.user = j.user /\ l.guest = j.guest
    BY <1>3 DEF Job
  <2>2. pc \in {"rollback", "claim", "profile"} /\ (pc = "claim" => j.id # None)
        /\ (pc = "profile" => j.id = None)
    BY <2>1
  <2> HIDE DEF pc, l
  <2>3. k \in Job /\ k.pc = pc /\ k.id = j.id /\ k.user = j.user /\ k.guest = j.guest
    BY <2>1, <2>2 DEF Job, Pc, Queued
  <2> HIDE DEF k, j
  <2>4. Holds(j, Facts) => Holds(k, Facts)
    BY <2>3 DEF Holds
  <2>5. JobOK(k, Facts)
    BY <1>4, <2>2, <2>3, <2>4
       DEF JobOK, ForAccount, NoReservation, Asking, SettingAside, Opening, Claiming
  <2>6. Lane(w)
    BY <1>2, <1>6, <2>3, <2>5, StayLane DEF KindOK
  <2> QED BY <1>1, <2>6, InsideKeeps
<1> QED BY <1>5, <1>6 DEF Verify

LEMMA StorageFailsKeeps ==
  ASSUME IInv, NEW w \in Window, NEW t \in Task, StorageFails(w, t)
  PROVE IInv'
<1>1. Inside /\ job[w][t].pc # "idle" /\ Throw(w, t)
  BY DEF StorageFails, Inside
<1>2. Busy(w, t)
  BY <1>1, InsideStill, BusyStill
<1> QED BY <1>1, <1>2, ThrowLane, InsideKeeps

-----------------------------------------------------------------------------
(* Steps that write the login.                                              *)
LEMMA WriteKeeps ==
  ASSUME IInv, NEW w \in Window, Busy(w, "action"), NEW login \in StoredLogin \cup {None},
         NEW j \in Job, JobOK(j, Facts), WriteAuth(w, login, Queue(w, "action", j)),
         NEW v \in View, v.epoch # "closed", win' = [win EXCEPT ![w] = v],
         UNCHANGED <<ownershipVars, intent, reserved, accepted, moved, capture>>
  PROVE IInv'
<1> DEFINE jobs == Queue(w, "action", j)
<1>1. StillOwned /\ Facts' = Facts /\ Owned
  BY StillSame, StillIsOwned DEF StillOwned
<1>2. JobsOK /\ Grows(Facts, Facts) /\ KindOK("action", j) /\ "action" \in Task
      /\ win \in [Window -> View]
  BY <1>1 DEF IInv, Owned, KindOK, Task, Windows
<1>3. /\ jobs \in [Window -> [Task -> Job]]
      /\ \A x \in Window, s \in Task : JobOK(jobs[x][s], Facts) /\ KindOK(s, jobs[x][s])
      /\ \A x \in Window \ {w} : jobs[x] = job[x]
  BY <1>2, QueueOK
<1>4. job' = Outdated(jobs, w)
  BY DEF WriteAuth, Outdated
<1> HIDE DEF jobs
<1>5. /\ job' \in [Window -> [Task -> Job]]
      /\ \A x \in Window, s \in Task : JobOK(job'[x][s], Facts) /\ KindOK(s, job'[x][s])
      /\ \A x \in Window \ {w}, s \in Task : jobs[x][s] = Idle => job'[x][s] = Idle
  BY <1>3, <1>4, OutdatedOK
<1>6. Lane(w)
  BY <1>1, <1>2, <1>3, <1>5 DEF Lane
<1>7. IntentOK'
  BY DEF IInv, IntentOK
<1>8. auth' \in StoredLogin \cup {None}
  BY DEF WriteAuth
<1>9. note' \in [Window -> BOOLEAN] /\ \A x \in Window : win[x].epoch = "closed" => ~note'[x]
  <2>1. note \in [Window -> BOOLEAN] /\ win[w].epoch # "closed"
    BY BusyFacts DEF IInv, Windows
  <2>2. note' = [x \in Window |-> note[x] \/ (x # w /\ win[x].epoch # "closed")]
    BY DEF WriteAuth
  <2> QED BY <2>1, <2>2 DEF IInv, Windows
<1> QED BY <1>1, <1>6, <1>7, <1>8, <1>9, Keeps

LEMMA NoWriteKeeps ==
  ASSUME IInv, NEW w \in Window, Lane(w), UNCHANGED <<auth, note>>,
         UNCHANGED <<ownershipVars, intent, reserved, accepted, moved, capture>>
  PROVE IInv'
  BY InsideKeeps DEF Inside

LEMMA StoreKeeps ==
  ASSUME IInv, NEW w \in Window, Store(w)
  PROVE IInv'
<1> DEFINE j == job[w]["action"]
           k == [j EXCEPT !.pc = "verify"]
<1>1. UNCHANGED <<ownershipVars, intent, reserved, accepted, moved, capture>> /\ j.pc = "store"
  BY DEF Store
<1>2. Busy(w, "action") /\ Facts' = Facts
  BY <1>1, StillSame, BusyStill DEF Task, StillOwned
<1>3. j \in Job /\ JobOK(j, Facts) /\ win \in [Window -> View] /\ win[w] \in View
      /\ win[w].epoch # "closed"
  BY <1>2, BusyFacts
<1>4. CASE (Quit(w, "action") \/ GiveWay(w)) /\ UNCHANGED <<auth, note>>
  BY <1>1, <1>2, <1>4, QuitLane, GiveWayLane, NoWriteKeeps
<1>5. CASE WriteAuth(w, Login(j.user, w), Queue(w, "action", k)) /\ UNCHANGED win
  <2>1. /\ j.user \in User
        /\ j.id # None => /\ Holds(j, Facts) /\ Facts.reserved[j.id].user = j.user
                          /\ j.id \in Facts.accepted
    BY <1>1, <1>3 DEF JobOK, ForAccount, Opening
  <2>2. k \in Job /\ k.pc = "verify" /\ k.id = j.id /\ k.user = j.user /\ k.guest = j.guest
    BY <1>3 DEF Job, Pc
  <2>3. Login(j.user, w) \in StoredLogin
    BY <2>1 DEF Login, StoredLogin
  <2> HIDE DEF k, j
  <2>4. Holds(j, Facts) => Holds(k, Facts)
    BY <2>2 DEF Holds
  <2>5. JobOK(k, Facts)
    BY <2>1, <2>2, <2>4
       DEF JobOK, ForAccount, NoReservation, Asking, SettingAside, Opening, Claiming
  <2>6. win' = [win EXCEPT ![w] = win[w]]
    BY <1>3, <1>5
  <2> QED BY <1>1, <1>2, <1>3, <1>5, <2>2, <2>3, <2>5, <2>6, WriteKeeps
<1> QED BY <1>4, <1>5 DEF Store

LEMMA RollbackKeeps ==
  ASSUME IInv, NEW w \in Window, Rollback(w)
  PROVE IInv'
<1> DEFINE j == job[w]["action"]
           undo == [Idle EXCEPT !.kind = "undo", !.pc = IF Current(w, "action") THEN "guest" ELSE "idle"]
           k == IF Current(w, "action") THEN undo ELSE Idle
<1>1. UNCHANGED <<ownershipVars, intent, reserved, accepted, moved, capture>> /\ j.pc = "rollback"
  BY DEF Rollback
<1>2. Busy(w, "action") /\ Facts' = Facts
  BY <1>1, StillSame, BusyStill DEF Task, StillOwned
<1>3. j \in Job /\ win \in [Window -> View] /\ win[w] \in View /\ win[w].epoch # "closed"
  BY <1>2, BusyFacts
<1>4. CASE Lock(w, "action") /\ UNCHANGED <<auth, note>>
  BY <1>1, <1>2, <1>4, LockLane, NoWriteKeeps
<1>5. CASE WriteAuth(w, j.stored, Queue(w, "action", k)) /\ UNCHANGED win
  <2>1. j.stored \in StoredLogin \cup {None}
    BY <1>3 DEF Job
  <2>2. k \in Job /\ JobOK(k, Facts)
    <3>1. CASE Current(w, "action")
      <4> DEFINE l == [Idle EXCEPT !.kind = "undo", !.pc = "guest"]
      <4>1. l \in Job
        BY IdleJob DEF Job, Kind, Pc, Queued
      <4>2. l.pc = "guest" /\ l.kind = "undo" /\ l.id = None
        BY DEF Idle
      <4>3. k = l
        BY <3>1
      <4> HIDE DEF l, k
      <4>4. JobOK(l, Facts)
        BY <4>2 DEF JobOK, ForAccount, NoReservation, Asking, SettingAside, Opening, Claiming
      <4> QED BY <4>1, <4>3, <4>4
    <3>2. CASE ~Current(w, "action")
      BY <3>2, IdleJob, IdleOK
    <3> QED BY <3>1, <3>2
  <2>3. win' = [win EXCEPT ![w] = win[w]]
    BY <1>3, <1>5
  <2> HIDE DEF k, j
  <2> QED BY <1>1, <1>2, <1>3, <1>5, <2>1, <2>2, <2>3, WriteKeeps
<1> QED BY <1>4, <1>5 DEF Rollback

LEMMA ClearLoginKeeps ==
  ASSUME IInv, NEW w \in Window, ClearLogin(w)
  PROVE IInv'
<1> DEFINE j == job[w]["action"]
           e == IF Current(w, "action") THEN "none" ELSE win[w].epoch
           v == [win[w] EXCEPT !.shown = None, !.epoch = e]
<1>1. UNCHANGED <<ownershipVars, intent, reserved, accepted, moved, capture>> /\ j.pc = "clear"
  BY DEF ClearLogin
<1>2. Busy(w, "action") /\ Facts' = Facts
  BY <1>1, StillSame, BusyStill DEF Task, StillOwned
<1>3. win \in [Window -> View] /\ win[w] \in View /\ win[w].epoch # "closed"
  BY <1>2, BusyFacts
<1>4. CASE GiveWay(w) /\ UNCHANGED <<auth, note>>
  BY <1>1, <1>2, <1>4, GiveWayLane, NoWriteKeeps
<1>5. CASE /\ WriteAuth(w, None, Queue(w, "action", Idle))
           /\ win' = [win EXCEPT ![w].shown = None,
                                 ![w].epoch = IF Current(w, "action") THEN "none" ELSE @]
  <2>1. e \in Task \cup {"none", "locked", "closed"} /\ e # "closed"
    BY <1>3, ViewEpoch
  <2>2. win' = [win EXCEPT ![w] = v]
    BY <1>3, <1>5
  <2> HIDE DEF e
  <2>3. v \in View /\ v.epoch # "closed"
    BY <1>3, <2>1 DEF View
  <2> HIDE DEF v
  <2> QED BY <1>1, <1>2, <1>5, <2>2, <2>3, IdleJob, IdleOK, WriteKeeps
<1> QED BY <1>4, <1>5 DEF ClearLogin
-----------------------------------------------------------------------------
(* Steps around the reservation.                                            *)
LEMMA IntentTaken ==
  ASSUME IInv, intent # None
  PROVE /\ intent \in Intent /\ intent.id \in Id /\ intent.guest \in Guest
        /\ intent.gen \in Generation /\ intent.user \in User
        /\ intent.id # None /\ reserved[intent.id] # None
        /\ reserved[intent.id].user = intent.user /\ reserved[intent.id].guest = intent.guest
        /\ reserved[intent.id].gen = intent.gen
<1>1. intent \in Intent
      /\ reserved[intent.id] = [user |-> intent.user, guest |-> intent.guest, gen |-> intent.gen]
  BY DEF IInv, IntentOK
<1>2. intent.id \in Id /\ intent.guest \in Guest /\ intent.gen \in Generation /\ intent.user \in User
  BY <1>1 DEF Intent
<1>3. reserved[intent.id] \in Reservation
  BY <1>1, <1>2 DEF Reservation
<1> QED BY <1>1, <1>2, <1>3, NamesAssumption, NoRecordAssumption

LEMMA ReserveAgain ==
  ASSUME IInv, NEW w \in Window, job[w]["action"].pc = "reserve", Inside, intent # None,
         LET j == job[w]["action"] IN
         Be(w, "action", [j EXCEPT !.pc = IF intent.user = j.user THEN "send" ELSE "quarantine",
                                   !.id = intent.id, !.guest = intent.guest, !.gen = intent.gen]),
         win' = [win EXCEPT ![w].selected = guest]
  PROVE IInv'
<1> DEFINE j == job[w]["action"]
           pc == IF intent.user = j.user THEN "send" ELSE "quarantine"
           k == [j EXCEPT !.pc = pc, !.id = intent.id, !.guest = intent.guest, !.gen = intent.gen]
           v == [win[w] EXCEPT !.selected = guest]
<1>1. Busy(w, "action") /\ Facts' = Facts
  BY InsideStill, StillSame, BusyStill DEF Task
<1>2. /\ j \in Job /\ JobOK(j, Facts)
      /\ win[w] \in View /\ win[w].epoch # "closed" /\ win \in [Window -> View]
  BY <1>1, BusyFacts
<1>3. j.user \in User
  BY <1>2 DEF JobOK, ForAccount
<1>4. pc \in {"send", "quarantine"} /\ (pc = "send" => intent.user = j.user)
  OBVIOUS
<1> HIDE DEF pc
<1>5. pc \in Pc
  BY <1>4 DEF Pc, Queued
<1>6. k \in Job /\ k.pc = pc /\ k.id = intent.id /\ k.guest = intent.guest /\ k.gen = intent.gen
      /\ k.user = j.user
  BY <1>2, <1>5, IntentTaken DEF Job
<1>7. guest \in Profile
  BY DEF IInv, OwnershipTypeOK, Profile
<1>8. v \in View /\ v.epoch # "closed" /\ win' = [win EXCEPT ![w] = v]
  BY <1>2, <1>7, ViewSelected
<1>9. Be(w, "action", k)
  BY DEF pc
<1> HIDE DEF k, j, v
<1>10. Holds(k, Facts) /\ Facts.reserved[k.id].gen = k.gen /\ Facts.reserved[k.id].user = intent.user
  BY <1>6, IntentTaken DEF Holds, Facts
<1>11. JobOK(k, Facts)
  BY <1>3, <1>4, <1>6, <1>10
     DEF JobOK, ForAccount, NoReservation, Asking, SettingAside, Opening, Claiming
<1>12. Lane(w)
  BY <1>1, <1>6, <1>8, <1>9, <1>11, BeLane DEF KindOK
<1> QED BY <1>12, InsideKeeps

(* A new reservation.                                                       *)
LEMMA ReserveFirst ==
  ASSUME IInv, NEW w \in Window, job[w]["action"].pc = "reserve", intent = None,
         NEW i \in NewId,
         UNCHANGED <<ownershipVars, auth, accepted, moved, note, capture>>,
         reserved' = [reserved EXCEPT ![i] = [user |-> job[w]["action"].user, guest |-> guest,
                                              gen |-> generation]],
         intent' = [id |-> i, status |-> "reserved", user |-> job[w]["action"].user,
                    guest |-> guest, gen |-> generation],
         Be(w, "action", [job[w]["action"] EXCEPT !.pc = "send", !.id = i, !.guest = guest,
                                                  !.gen = generation]),
         win' = [win EXCEPT ![w].selected = guest]
  PROVE IInv'
<1> DEFINE j == job[w]["action"]
           r == [user |-> j.user, guest |-> guest, gen |-> generation]
           k == [j EXCEPT !.pc = "send", !.id = i, !.guest = guest, !.gen = generation]
           v == [win[w] EXCEPT !.selected = guest]
<1>1. guest \in Guest /\ generation \in Generation /\ guest \in Profile
  BY DEF IInv, OwnershipTypeOK, Profile
<1>2. /\ j \in Job /\ JobOK(j, Facts) /\ "action" \in Task
      /\ win[w] \in View /\ win \in [Window -> View]
  BY DEF IInv, JobsOK, Windows, Task
<1>3. j.user \in User
  BY <1>2 DEF JobOK, ForAccount
<1>4. r \in Reservation /\ r # None
  BY <1>1, <1>3, NoRecordAssumption DEF Reservation
<1>5. i \in Id /\ reserved[i] = None /\ reserved \in [Id -> Reservation \cup {None}]
      /\ Facts \in FactsType
  BY DEF NewId, IInv, FactsType, Facts
<1>6. reserved' = [reserved EXCEPT ![i] = r] /\ reserved' \in [Id -> Reservation \cup {None}]
      /\ \A x \in Id : reserved[x] # None => reserved'[x] = reserved[x]
  BY <1>4, <1>5
<1>7. Facts' = [Facts EXCEPT !.reserved = reserved']
  BY DEF Facts, ownershipVars, profileVars, claimVars
<1>8. Grows(Facts, Facts')
  <2>1. Facts' \in FactsType
    BY <1>5, <1>6, <1>7 DEF FactsType
  <2>2. /\ Facts'.reserved = reserved' /\ Facts'.accepted = Facts.accepted
        /\ Facts'.owner = Facts.owner /\ Facts'.claim = Facts.claim
        /\ Facts'.recovery = Facts.recovery /\ Facts.reserved = reserved
    BY <1>7 DEF Facts
  <2> HIDE DEF r
  <2> QED BY <1>5, <1>6, <2>1, <2>2 DEF Grows
<1>9. Busy(w, "action")
  BY <1>2, <1>8 DEF Busy
<1>10. Owned
  <2>1. OwnershipTypeOK' /\ CurrentOK' /\ CaptureOK'
    BY DEF IInv, OwnershipTypeOK, CurrentOK, CaptureOK, ownershipVars, profileVars, claimVars
  <2>2. \A x \in accepted : reserved[x] # None /\ reserved'[x] = reserved[x]
    BY <1>5, <1>6 DEF IInv, Accounts, FactsType, Facts
  <2>3. ASSUME NEW u, Founded(u, Facts) PROVE Founded(u, Facts')
    <3>1. PICK x \in accepted : reserved[x].user = u /\ profileRoute[reserved[x].guest] = u
      BY <2>3 DEF Founded, Facts
    <3>2. accepted' = accepted /\ profileRoute' = profileRoute
      BY DEF ownershipVars, profileVars
    <3> QED BY <2>2, <3>1, <3>2 DEF Founded, Facts
  <2>4. profileRoute' = profileRoute
    BY DEF ownershipVars, profileVars
  <2>5. Accounts'
    <3> HIDE DEF r
    <3> QED BY <2>2, <2>3, <2>4 DEF IInv, Accounts
  <2> QED BY <1>8, <2>1, <2>5 DEF Owned
<1>11. k \in Job /\ k.pc = "send" /\ k.id = i /\ k.guest = guest /\ k.user = j.user
  BY <1>1, <1>2, <1>5 DEF Job, Pc
<1>12. Facts'.reserved[i] = r /\ r.guest = guest /\ r.user = j.user
  BY <1>5, <1>6, <1>7 DEF Facts
<1>13. v \in View /\ win' = [win EXCEPT ![w] = v]
  BY <1>1, <1>2 DEF View
<1>14. v.epoch # "closed"
  BY <1>9, BusyFacts DEF View
<1>15. Be(w, "action", k)
  OBVIOUS
<1>16. IntentOK'
  <2>1. intent' \in Intent
    BY <1>1, <1>3, <1>5 DEF Intent
  <2>2. intent'.id = i /\ intent'.status = "reserved" /\ intent'.user = j.user
        /\ intent'.guest = guest /\ intent'.gen = generation
    OBVIOUS
  <2>3. guest' = guest /\ reserved'[intent'.id] = r
    BY <1>5, <1>6, <2>2 DEF ownershipVars, profileVars
  <2> QED BY <2>1, <2>2, <2>3 DEF IntentOK
<1> HIDE DEF k, j, v, r
<1>17. Holds(k, Facts') /\ Facts'.reserved[k.id].user = k.user
  BY <1>4, <1>5, <1>11, <1>12 DEF Holds
<1>18. JobOK(k, Facts')
  BY <1>3, <1>11, <1>17
     DEF JobOK, ForAccount, NoReservation, Asking, SettingAside, Opening, Claiming
<1>19. Lane(w)
  BY <1>9, <1>11, <1>13, <1>14, <1>15, <1>18, BeLane DEF KindOK
<1> QED BY <1>10, <1>16, <1>19, Keeps DEF IInv, Windows

LEMMA ReserveKeeps == ASSUME IInv, NEW w \in Window, Reserve(w) PROVE IInv'
<1> DEFINE j == job[w]["action"]
           k == [j EXCEPT !.pc = IF intent.user = j.user THEN "send" ELSE "quarantine",
                          !.id = intent.id, !.guest = intent.guest, !.gen = intent.gen]
<1>1. j.pc = "reserve"
  BY DEF Reserve
<1>2. CASE Restore(w) /\ UNCHANGED <<intent, reserved>>
  <2>1. Inside
    BY <1>2 DEF Reserve, Inside
  <2> QED BY <1>1, <1>2, <2>1, RestoreKeeps
<1>3. CASE /\ Followed(win[w].selected) = guest /\ intent # None
           /\ Be(w, "action", k)
           /\ win' = [win EXCEPT ![w].selected = Followed(win[w].selected)]
           /\ UNCHANGED <<intent, reserved>>
  <2>1. Inside
    BY <1>3 DEF Reserve, Inside
  <2> QED BY <1>1, <1>3, <2>1, ReserveAgain
<1>4. CASE /\ Followed(win[w].selected) = guest /\ intent = None /\ NewId # {}
           /\ LET i == CHOOSE i \in NewId : TRUE IN
              /\ reserved' = [reserved EXCEPT ![i] = [user |-> j.user, guest |-> guest,
                                                      gen |-> generation]]
              /\ intent' = [id |-> i, status |-> "reserved", user |-> j.user,
                            guest |-> guest, gen |-> generation]
              /\ Be(w, "action", [j EXCEPT !.pc = "send", !.id = i, !.guest = guest,
                                           !.gen = generation])
           /\ win' = [win EXCEPT ![w].selected = Followed(win[w].selected)]
  <2> DEFINE i == CHOOSE i \in NewId : TRUE
  <2>1. i \in NewId
    BY <1>4
  <2>2. UNCHANGED <<ownershipVars, auth, accepted, moved, note, capture>>
    BY DEF Reserve
  <2>3. /\ reserved' = [reserved EXCEPT ![i] = [user |-> j.user, guest |-> guest,
                                                gen |-> generation]]
        /\ intent' = [id |-> i, status |-> "reserved", user |-> j.user,
                      guest |-> guest, gen |-> generation]
        /\ Be(w, "action", [j EXCEPT !.pc = "send", !.id = i, !.guest = guest,
                                     !.gen = generation])
        /\ win' = [win EXCEPT ![w].selected = guest]
    BY <1>4
  <2> HIDE DEF i
  <2> QED BY <1>1, <1>4, <2>1, <2>2, <2>3, ReserveFirst
<1> QED BY <1>2, <1>3, <1>4 DEF Reserve

LEMMA ReleasedOK == ASSUME IInv, NEW i, intent' = Released(i), UNCHANGED <<reserved, accepted>>
                    PROVE IntentOK'
  BY DEF IInv, IntentOK, Released

(* A step that changes the reservation but not what was reserved.           *)
LEMMA IntentKeeps ==
  ASSUME IInv, NEW w \in Window, Lane(w), IntentOK',
         UNCHANGED <<ownershipVars, auth, reserved, accepted, moved, note, capture>>
  PROVE IInv'
<1>1. Owned
  BY StillIsOwned DEF StillOwned
<1> QED BY <1>1, Keeps DEF IInv, Windows

LEMMA ReleaseKeeps == ASSUME IInv, NEW w \in Window, Release(w) PROVE IInv'
<1> DEFINE j == job[w]["action"]
           k == [j EXCEPT !.pc = "reserve", !.id = None, !.guest = None, !.gen = None]
<1>1. /\ UNCHANGED <<ownershipVars, auth, reserved, accepted, moved, note, capture>>
      /\ j.pc = "release" /\ intent' = Released(j.id) /\ Be(w, "action", k) /\ UNCHANGED win
  BY DEF Release
<1>2. Busy(w, "action") /\ Facts' = Facts
  BY <1>1, StillSame, BusyStill DEF Task, StillOwned
<1>3. j \in Job /\ JobOK(j, Facts)
  BY <1>2, BusyFacts
<1>4. k \in Job /\ k.pc = "reserve" /\ k.id = None /\ k.user = j.user
  BY <1>3 DEF Job, Pc
<1>5. j.user \in User
  BY <1>1, <1>3 DEF JobOK, ForAccount
<1>6. IntentOK'
  BY <1>1, ReleasedOK
<1> HIDE DEF k, j
<1>7. JobOK(k, Facts)
  BY <1>4, <1>5 DEF JobOK, ForAccount, NoReservation, Asking, SettingAside, Opening, Claiming
<1>8. Lane(w)
  BY <1>1, <1>2, <1>4, <1>7, StayLane DEF KindOK
<1> QED BY <1>1, <1>6, <1>8, IntentKeeps

LEMMA DropKeeps == ASSUME IInv, NEW w \in Window, Drop(w) PROVE IInv'
<1>1. /\ UNCHANGED <<ownershipVars, auth, reserved, accepted, moved, note, capture>>
      /\ job[w]["action"].pc = "drop" /\ intent' = Released(job[w]["action"].id) /\ Restore(w)
  BY DEF Drop
<1>2. Busy(w, "action")
  BY <1>1, BusyStill DEF Task, StillOwned
<1>3. Lane(w)
  BY <1>1, <1>2, RestoreLane
<1>4. IntentOK'
  BY <1>1, ReleasedOK
<1> QED BY <1>1, <1>3, <1>4, IntentKeeps

LEMMA CompleteKeeps == ASSUME IInv, NEW w \in Window, NEW t \in Task, Complete(w, t) PROVE IInv'
<1>1. /\ UNCHANGED <<ownershipVars, auth, reserved, accepted, moved, note, capture>>
      /\ job[w][t].pc = "complete" /\ intent' = Released(job[w][t].id) /\ Settled(w, t)
  BY DEF Complete
<1>2. Busy(w, t)
  BY <1>1, BusyStill DEF StillOwned
<1>3. Lane(w)
  BY <1>2, <1>1, SettledLane
<1>4. IntentOK'
  BY <1>1, ReleasedOK
<1> QED BY <1>1, <1>3, <1>4, IntentKeeps

LEMMA AcceptedKeeps == ASSUME IInv, NEW w \in Window, Accepted(w) PROVE IInv'
<1> DEFINE j == job[w]["action"]
           k == [j EXCEPT !.pc = "store"]
<1>1. /\ UNCHANGED <<ownershipVars, auth, reserved, accepted, moved, note, capture>>
      /\ j.pc = "accepted"
  BY DEF Accepted
<1>2. Busy(w, "action") /\ Facts' = Facts
  BY <1>1, StillSame, BusyStill DEF Task, StillOwned
<1>3. j \in Job /\ JobOK(j, Facts)
  BY <1>2, BusyFacts
<1>4. j.user \in User /\ Holds(j, Facts) /\ Facts.reserved[j.id].user = j.user
      /\ j.id \in Facts.accepted
  BY <1>1, <1>3 DEF JobOK, ForAccount, Asking
<1>5. CASE Restore(w) /\ UNCHANGED intent
  BY <1>1, <1>5, RestoreKeeps DEF Inside
<1>6. CASE /\ ~(~Current(w, "action") \/ intent = None \/ intent.id # j.id)
           /\ intent' = [intent EXCEPT !.status = "redeemed"]
           /\ Goto(w, "action", "store") /\ UNCHANGED win
  <2>1. k.pc = "store" /\ k.id = j.id /\ k.user = j.user /\ k.guest = j.guest
    BY <1>3 DEF Job
  <2>2. "store" \in Pc
    BY DEF Pc
  <2>3. IntentOK'
    <3>1. /\ intent \in Intent /\ intent.id \in accepted
          /\ reserved[intent.id] = [user |-> intent.user, guest |-> intent.guest, gen |-> intent.gen]
      BY <1>4, <1>6 DEF IInv, IntentOK, Facts
    <3>2. /\ intent' \in Intent /\ intent'.id = intent.id /\ intent'.user = intent.user
          /\ intent'.guest = intent.guest /\ intent'.gen = intent.gen
      BY <1>6, <3>1 DEF Intent
    <3> QED BY <1>1, <3>1, <3>2 DEF IntentOK
  <2> HIDE DEF k, j
  <2>4. Holds(k, Facts)
    BY <1>4, <2>1 DEF Holds
  <2>5. JobOK(k, Facts)
    BY <1>4, <2>1, <2>4
       DEF JobOK, ForAccount, NoReservation, Asking, SettingAside, Opening, Claiming
  <2>6. Lane(w)
    BY <1>2, <1>6, <2>2, <2>5, GotoLane DEF k, j
  <2> QED BY <1>1, <2>3, <2>6, IntentKeeps
<1> QED BY <1>5, <1>6 DEF Accepted
LEMMA RequestKeeps == ASSUME IInv, NEW w \in Window, Request(w) PROVE IInv'
<1> DEFINE j == job[w]["action"]
<1>1. UNCHANGED <<ownershipVars, intent, auth, reserved, moved, win, note, capture>> /\ j.pc = "send"
  BY DEF Request
<1>2. /\ j \in Job /\ JobOK(j, Facts) /\ "action" \in Task
      /\ Facts \in FactsType /\ accepted \subseteq Id
  BY DEF IInv, JobsOK, Task, FactsType, Facts
<1>3. /\ j.user \in User /\ j.id \in Id /\ reserved[j.id] # None /\ reserved[j.id].user = j.user
      /\ Holds(j, Facts)
  BY <1>1, <1>2 DEF JobOK, ForAccount, Asking, Holds, Facts
<1>4. PICK pc \in {"accepted", "lost", "refused"} :
         /\ Goto(w, "action", pc)
         /\ accepted' \in {accepted, accepted \cup {j.id}}
         /\ accepted' # accepted => ~HasAccount(j.user)
         /\ pc = "accepted" => j.id \in accepted'
  BY DEF Request
<1>5. Facts' = [Facts EXCEPT !.accepted = accepted']
  BY <1>1 DEF Facts, ownershipVars, profileVars, claimVars
<1>6. Grows(Facts, Facts')
  <2>1. accepted' \subseteq Id /\ accepted \subseteq accepted'
    BY <1>2, <1>3, <1>4
  <2>2. Facts' \in FactsType
    BY <1>2, <1>5, <2>1 DEF FactsType
  <2>3. /\ Facts'.accepted = accepted' /\ Facts'.reserved = Facts.reserved
        /\ Facts'.owner = Facts.owner /\ Facts'.claim = Facts.claim
        /\ Facts'.recovery = Facts.recovery /\ Facts.accepted = accepted
    BY <1>5 DEF Facts
  <2> QED BY <1>2, <2>1, <2>2, <2>3 DEF Grows
<1>7. Owned
  <2>1. OwnershipTypeOK' /\ CurrentOK' /\ CaptureOK'
    BY <1>1 DEF IInv, OwnershipTypeOK, CurrentOK, CaptureOK, ownershipVars, profileVars, claimVars
  <2>2. reserved' = reserved /\ profileRoute' = profileRoute
    BY <1>1 DEF ownershipVars, profileVars
  <2>3. ASSUME NEW u, Founded(u, Facts) PROVE Founded(u, Facts')
    BY <1>4, <2>2, <2>3 DEF Founded, Facts
  <2>4. \A x, y \in accepted' : reserved[x].user = reserved[y].user => x = y
    <3>1. CASE accepted' = accepted
      BY <3>1 DEF IInv, Accounts
    <3>2. CASE accepted' = accepted \cup {j.id} /\ ~HasAccount(j.user)
      <4> HIDE DEF j
      <4> QED BY <1>3, <3>2 DEF IInv, Accounts, HasAccount
    <3> QED BY <1>4, <3>1, <3>2
  <2>5. \A x \in accepted' : reserved[x] # None
    BY <1>3, <1>4 DEF IInv, Accounts
  <2>6. Accounts'
    BY <2>2, <2>3, <2>4, <2>5 DEF IInv, Accounts
  <2> QED BY <1>6, <2>1, <2>6 DEF Owned
<1>8. Busy(w, "action")
  BY <1>1, <1>2, <1>6 DEF Busy
<1>9. Lane(w)
  <2> DEFINE k == [j EXCEPT !.pc = pc]
  <2>1. k.pc = pc /\ k.id = j.id /\ k.user = j.user /\ k.guest = j.guest
    BY <1>2 DEF Job
  <2>2. pc \in Pc
    BY DEF Pc
  <2>3. Facts'.reserved = reserved /\ Facts'.accepted = accepted' /\ Facts.reserved = reserved
    BY <1>1 DEF Facts
  <2> HIDE DEF k, j
  <2>4. Holds(k, Facts') /\ Facts'.reserved[k.id].user = k.user
    BY <1>3, <2>1, <2>3 DEF Holds
  <2>5. JobOK(k, Facts')
    BY <1>3, <1>4, <2>1, <2>3, <2>4
       DEF JobOK, ForAccount, NoReservation, Asking, SettingAside, Opening, Claiming
  <2> QED BY <1>1, <1>4, <1>8, <2>2, <2>5, GotoLane DEF k, j
<1>10. IntentOK'
  BY <1>1, <1>4 DEF IInv, IntentOK
<1> QED BY <1>1, <1>7, <1>9, <1>10, Keeps DEF IInv, Windows

-----------------------------------------------------------------------------
(* Steps that change who owns what.                                         *)
LEMMA OwnedKeeps ==
  ASSUME IInv, Owned, NEW w \in Window, Lane(w), UNCHANGED <<intent, auth, reserved, accepted, note>>
  PROVE IInv'
<1>1. IntentOK'
  BY DEF IInv, IntentOK
<1> QED BY <1>1, Keeps DEF IInv, Windows

LEMMA BusyOwned ==
  ASSUME IInv, Owned, NEW w \in Window, NEW t \in Task, job[w][t].pc # "idle"
  PROVE Busy(w, t)
  BY DEF Busy, Owned

LEMMA FinishOwned ==
  ASSUME IInv, NEW d, FinishGuestClaim(d), UNCHANGED <<reserved, accepted, moved, capture>>
  PROVE Owned
<1>1. UNCHANGED <<generation, claimRoute, profileVars>> /\ pending' \in {pending, None}
  BY DEF FinishGuestClaim
<1>2. Facts' = Facts /\ Grows(Facts, Facts')
  BY <1>1, Quiet DEF IInv, Facts, profileVars
<1>3. OwnershipTypeOK' /\ CurrentOK' /\ CaptureOK'
  BY <1>1 DEF IInv, OwnershipTypeOK, CurrentOK, CaptureOK, profileVars
<1>4. Accounts'
  BY <1>1, <1>2 DEF IInv, Accounts, profileVars
<1> QED BY <1>2, <1>3, <1>4 DEF Owned

LEMMA MovedOwned ==
  ASSUME IInv, NEW n \in Generation, claimRoute[n] # None, moved' = moved \cup {n},
         UNCHANGED <<ownershipVars, reserved, accepted, capture>>
  PROVE Owned
<1>1. Facts' = Facts /\ Grows(Facts, Facts')
  BY Quiet DEF IInv, Facts, ownershipVars, profileVars, claimVars
<1>2. OwnershipTypeOK' /\ CurrentOK' /\ CaptureOK'
  BY DEF IInv, OwnershipTypeOK, CurrentOK, CaptureOK, ownershipVars, profileVars, claimVars
<1>3. Accounts'
  BY <1>1 DEF IInv, Accounts, ownershipVars, profileVars
<1> QED BY <1>1, <1>2, <1>3 DEF Owned

LEMMA SelectOwned ==
  ASSUME IInv, active' \in Profile,
         UNCHANGED <<guest, profileRoute, recovery, claimVars, reserved, accepted, moved, capture>>
  PROVE Owned
<1>1. Facts' = Facts /\ Grows(Facts, Facts')
  BY Quiet DEF IInv, Facts, claimVars
<1>2. OwnershipTypeOK' /\ CurrentOK' /\ CaptureOK'
  BY DEF IInv, OwnershipTypeOK, CurrentOK, CaptureOK, claimVars
<1>3. Accounts'
  BY <1>1 DEF IInv, Accounts
<1> QED BY <1>1, <1>2, <1>3 DEF Owned

LEMMA Rotates ==
  ASSUME IInv, NEW d \in Destination, RotateGeneration(d), RotateGuest
  PROVE /\ claimRoute' \in [Generation -> Destination \cup {None}]
        /\ claimRoute'[generation] = d /\ d # None
        /\ \A n \in Generation : claimRoute[n] # None => claimRoute'[n] = claimRoute[n]
        /\ generation' \in Generation /\ generation' # generation /\ claimRoute'[generation'] = None
        /\ pending' \in PendingClaim /\ pending'.source = generation /\ pending'.destination = d
        /\ guest' \in Guest /\ guest' # guest /\ guest' \notin recovery /\ profileRoute[guest'] = None
        /\ generation \in Generation
<1>1. /\ claimRoute \in [Generation -> Destination \cup {None}] /\ generation \in Generation
      /\ claimRoute[generation] = None /\ None \notin Destination
  BY DistinctAssumption DEF IInv, OwnershipTypeOK, CurrentOK, Destination
<1>2. generation' \in FreshGeneration /\ guest' \in FreshGuest
  BY DEF RotateGeneration, RotateGuest
<1>3. claimRoute' = [claimRoute EXCEPT ![generation] = d]
      /\ pending' = [source |-> generation, destination |-> d]
  BY DEF RotateGeneration
<1> QED BY <1>1, <1>2, <1>3 DEF FreshGeneration, FreshGuest, PendingClaim

LEMMA ClaimOwned ==
  ASSUME IInv, NEW u \in User, ClaimGuestForUser(u),
         UNCHANGED <<reserved, accepted, moved, capture>>,
         NEW i \in accepted, reserved[i].user = u,
         reserved[i].guest = guest \/ profileRoute[reserved[i].guest] = u
  PROVE Owned /\ profileRoute' = [profileRoute EXCEPT ![guest] = u]
<1>1. u \in Destination /\ u # Ambiguous /\ u # None
  BY DistinctAssumption DEF Destination
<1>2. /\ claimRoute' \in [Generation -> Destination \cup {None}]
      /\ claimRoute'[generation] = u
      /\ \A n \in Generation : claimRoute[n] # None => claimRoute'[n] = claimRoute[n]
      /\ generation' \in Generation /\ generation' # generation /\ claimRoute'[generation'] = None
      /\ pending' \in PendingClaim /\ pending'.source = generation /\ pending'.destination = u
      /\ guest' \in Guest /\ guest' # guest /\ guest' \notin recovery /\ profileRoute[guest'] = None
      /\ generation \in Generation
  BY <1>1, Rotates DEF ClaimGuestForUser
<1>3. profileRoute' = [profileRoute EXCEPT ![guest] = u] /\ active' = u /\ recovery' = recovery
  BY DEF ClaimGuestForUser
<1>4. /\ guest \in Guest /\ profileRoute \in [Guest -> User \cup {None}] /\ profileRoute[guest] = None
      /\ recovery \in SUBSET Guest
  BY DEF IInv, OwnershipTypeOK, CurrentOK
<1>5. /\ profileRoute' \in [Guest -> User \cup {None}] /\ profileRoute'[guest] = u
      /\ \A g \in Guest : profileRoute[g] # None => profileRoute'[g] = profileRoute[g]
      /\ \A g \in Guest \ {guest} : profileRoute'[g] = profileRoute[g]
  BY <1>3, <1>4
<1>6. OwnershipTypeOK'
  BY <1>2, <1>3, <1>4, <1>5 DEF OwnershipTypeOK, Profile
<1>7. Grows(Facts, Facts')
  <2>1. Facts \in FactsType
    BY DEF IInv
  <2>2. Facts' \in FactsType
    BY <1>2, <1>3, <1>4, <1>5, <2>1 DEF Facts, FactsType
  <2>3. /\ Facts'.accepted = Facts.accepted /\ Facts'.reserved = Facts.reserved
        /\ Facts'.recovery = Facts.recovery /\ Facts.owner = profileRoute
        /\ Facts'.owner = profileRoute' /\ Facts.claim = claimRoute /\ Facts'.claim = claimRoute'
    BY <1>3 DEF Facts
  <2> QED BY <1>2, <1>5, <2>1, <2>2, <2>3 DEF Grows
<1>8. CurrentOK'
  <2>1. profileRoute'[guest'] = None /\ guest' \notin recovery'
    BY <1>2, <1>3, <1>5
  <2>2. claimRoute'[pending'.source] # None
    BY <1>1, <1>2
  <2>3. \E h \in Guest : profileRoute'[h] = pending'.destination
    BY <1>2, <1>4, <1>5
  <2>4. moved' \subseteq {n \in Generation : claimRoute'[n] # None}
    BY <1>2 DEF IInv, CurrentOK
  <2> QED BY <1>2, <2>1, <2>2, <2>3, <2>4 DEF CurrentOK
<1>9. CaptureOK'
  <2>1. CASE capture = None
    BY <2>1 DEF CaptureOK
  <2>2. CASE capture # None
    <3>1. capture \in Captured /\ capture.profile \in Guest
      BY <2>2 DEF IInv, CaptureOK, Captured
    <3>2. profileRoute'[capture.profile] # None \/ capture.profile \in recovery'
      BY <1>1, <1>3, <1>5, <2>2, <3>1 DEF IInv, CaptureOK
    <3>3. capture.profile # guest'
      BY <1>2, <1>3, <1>5, <3>2
    <3> QED BY <3>1, <3>2, <3>3 DEF CaptureOK
  <2> QED BY <2>1, <2>2
<1>10. Accounts'
  <2>1. reserved[i].guest \in Guest
    <3>1. reserved[i] \in Reservation
      BY DEF IInv, Accounts, FactsType, Facts
    <3> QED BY <3>1 DEF Reservation
  <2>2. Founded(u, Facts')
    BY <1>4, <1>5, <1>1, <2>1 DEF Founded, Facts
  <2>3. ASSUME NEW x \in User, Founded(x, Facts) PROVE Founded(x, Facts')
    <3>1. PICK k \in accepted : reserved[k].user = x /\ profileRoute[reserved[k].guest] = x
      BY <2>3 DEF Founded, Facts
    <3>2. reserved[k] \in Reservation /\ x # None
      BY DistinctAssumption DEF IInv, Accounts, FactsType, Facts
    <3>3. profileRoute'[reserved[k].guest] = x
      BY <1>5, <3>1, <3>2 DEF Reservation
    <3> QED BY <3>1, <3>3 DEF Founded, Facts
  <2>4. ASSUME NEW h \in Guest, profileRoute'[h] # None PROVE Founded(profileRoute'[h], Facts')
    <3>1. CASE h = guest
      BY <3>1, <1>5, <2>2
    <3>2. CASE h # guest
      <4>1. profileRoute'[h] = profileRoute[h] /\ profileRoute[h] \in User
        BY <3>2, <1>4, <1>5, <2>4
      <4>2. Founded(profileRoute[h], Facts)
        BY <2>4, <4>1 DEF IInv, Accounts
      <4> QED BY <2>3, <4>1, <4>2
    <3> QED BY <3>1, <3>2
  <2> QED BY <2>4 DEF IInv, Accounts
<1> QED BY <1>3, <1>6, <1>7, <1>8, <1>9, <1>10 DEF Owned

LEMMA QuarantineOwned ==
  ASSUME IInv, QuarantineGuest, UNCHANGED <<reserved, accepted, moved, capture>>
  PROVE Owned /\ recovery' = recovery \cup {guest} /\ claimRoute'[generation] = Ambiguous
        /\ guest' \in Guest
<1>1. Ambiguous \in Destination
  BY DEF Destination
<1>2. /\ claimRoute' \in [Generation -> Destination \cup {None}]
      /\ claimRoute'[generation] = Ambiguous /\ Ambiguous # None
      /\ \A n \in Generation : claimRoute[n] # None => claimRoute'[n] = claimRoute[n]
      /\ generation' \in Generation /\ generation' # generation /\ claimRoute'[generation'] = None
      /\ pending' \in PendingClaim /\ pending'.source = generation /\ pending'.destination = Ambiguous
      /\ guest' \in Guest /\ guest' # guest /\ guest' \notin recovery /\ profileRoute[guest'] = None
      /\ generation \in Generation
  BY <1>1, Rotates DEF QuarantineGuest
<1>3. profileRoute' = profileRoute /\ recovery' = recovery \cup {guest}
      /\ active' = IF active = guest THEN guest' ELSE active
  BY DEF QuarantineGuest
<1>4. /\ guest \in Guest /\ profileRoute \in [Guest -> User \cup {None}]
      /\ recovery \in SUBSET Guest /\ active \in Profile
  BY DEF IInv, OwnershipTypeOK
<1>5. OwnershipTypeOK'
  BY <1>2, <1>3, <1>4 DEF OwnershipTypeOK, Profile
<1>6. Grows(Facts, Facts')
  <2>1. Facts \in FactsType
    BY DEF IInv
  <2>2. Facts' \in FactsType
    BY <1>2, <1>3, <1>4, <2>1 DEF Facts, FactsType
  <2>3. /\ Facts'.accepted = Facts.accepted /\ Facts'.reserved = Facts.reserved
        /\ Facts'.owner = Facts.owner /\ Facts.recovery = recovery /\ Facts'.recovery = recovery'
        /\ Facts.claim = claimRoute /\ Facts'.claim = claimRoute'
    BY <1>3 DEF Facts
  <2> QED BY <1>2, <1>3, <2>1, <2>2, <2>3 DEF Grows
<1>7. CurrentOK'
  BY <1>2, <1>3 DEF IInv, CurrentOK
<1>8. CaptureOK'
  <2>1. CASE capture = None
    BY <2>1 DEF CaptureOK
  <2>2. CASE capture # None
    <3>1. capture \in Captured /\ capture.profile \in Guest
      BY <2>2 DEF IInv, CaptureOK, Captured
    <3>2. profileRoute'[capture.profile] # None \/ capture.profile \in recovery'
      BY <1>3, <2>2, <3>1 DEF IInv, CaptureOK
    <3>3. capture.profile # guest'
      BY <1>2, <1>3, <3>2
    <3> QED BY <3>1, <3>2, <3>3 DEF CaptureOK
  <2> QED BY <2>1, <2>2
<1>9. Accounts'
  <2>1. ASSUME NEW x, Founded(x, Facts) PROVE Founded(x, Facts')
    BY <1>3, <2>1 DEF Founded, Facts
  <2> QED BY <1>3, <2>1 DEF IInv, Accounts
<1> QED BY <1>2, <1>3, <1>5, <1>6, <1>7, <1>8, <1>9 DEF Owned
-----------------------------------------------------------------------------
LEMMA ActivateKeeps == ASSUME IInv, NEW w \in Window, NEW t \in Task, Activate(w, t) PROVE IInv'
<1> DEFINE j == job[w][t]
<1>1. j \in Job /\ JobOK(j, Facts) /\ j.pc = "activate"
  BY DEF Activate, IInv, JobsOK
<1>2. j.user \in User /\ j.user \in Profile
  BY <1>1 DEF JobOK, ForAccount, Profile
<1>3. /\ active' = j.user /\ Opened(w, t, j.user)
      /\ UNCHANGED <<guest, profileRoute, recovery, claimVars, intent, auth, reserved, accepted,
                     moved, note, capture>>
  BY DEF Activate
<1>4. Owned
  BY <1>2, <1>3, SelectOwned
<1>5. Busy(w, t)
  BY <1>1, <1>4, BusyOwned
<1>6. Lane(w)
  BY <1>1, <1>2, <1>3, <1>5, OpenedLane
<1> QED BY <1>3, <1>4, <1>6, OwnedKeeps

LEMMA GuestSelectedKeeps ==
  ASSUME IInv, NEW w \in Window, NEW t \in Task, GuestSelected(w, t)
  PROVE IInv'
<1> DEFINE j == job[w][t]
<1>1. j \in Job /\ JobOK(j, Facts) /\ j.pc = "selectGuest"
  BY DEF GuestSelected, IInv, JobsOK
<1>2. j.guest \in Guest /\ j.guest \in Profile
  BY <1>1 DEF JobOK, Profile
<1>3. UNCHANGED <<guest, profileRoute, recovery, claimVars, intent, auth, reserved, accepted,
                  moved, note, capture>>
  BY DEF GuestSelected
<1>4. CASE Throw(w, t) /\ UNCHANGED active
  <2>1. Inside
    BY <1>3, <1>4 DEF Inside, ownershipVars, profileVars
  <2>2. Busy(w, t)
    BY <1>1, <2>1, InsideStill, BusyStill
  <2> QED BY <1>4, <2>1, <2>2, ThrowLane, InsideKeeps
<1>5. CASE active' = j.guest /\ Opened(w, t, j.guest)
  <2>1. Owned
    BY <1>2, <1>3, <1>5, SelectOwned
  <2>2. Busy(w, t)
    BY <1>1, <2>1, BusyOwned
  <2>3. Lane(w)
    BY <1>1, <1>2, <1>5, <2>2, OpenedLane
  <2> QED BY <1>3, <2>1, <2>3, OwnedKeeps
<1> QED BY <1>4, <1>5 DEF GuestSelected

LEMMA MoveKeeps == ASSUME IInv, NEW w \in Window, NEW t \in Task, Move(w, t) PROVE IInv'
<1> DEFINE j == job[w][t]
           k == [j EXCEPT !.pc = "finish"]
<1>1. j \in Job /\ JobOK(j, Facts) /\ j.pc = "move"
  BY DEF Move, IInv, JobsOK
<1>2. j.gen \in Generation /\ claimRoute[j.gen] # None
  BY <1>1 DEF JobOK, Facts
<1>3. /\ moved' = moved \cup {j.gen} /\ Goto(w, t, "finish")
      /\ UNCHANGED <<ownershipVars, intent, auth, reserved, accepted, win, note, capture>>
  BY DEF Move
<1>4. Owned
  BY <1>2, <1>3, MovedOwned
<1>5. Busy(w, t)
  BY <1>1, <1>4, BusyOwned
<1>6. JobOK(j, Facts')
  BY <1>5, BusyFacts
<1>7. "finish" \in Pc /\ JobOK(k, Facts')
  BY <1>1, <1>6, OnwardJob DEF Claiming
<1>8. Lane(w)
  BY <1>3, <1>5, <1>7, GotoLane
<1> QED BY <1>3, <1>4, <1>8, OwnedKeeps

LEMMA FinishClaimKeeps ==
  ASSUME IInv, NEW w \in Window, NEW t \in Task, FinishClaim(w, t)
  PROVE IInv'
<1>1. /\ job[w][t].pc = "finish" /\ FinishGuestClaim(job[w][t].user) /\ AfterMove(w, t)
      /\ UNCHANGED <<intent, auth, reserved, accepted, moved, note, capture>>
  BY DEF FinishClaim
<1>2. Owned
  BY <1>1, FinishOwned
<1>3. Busy(w, t)
  BY <1>1, <1>2, BusyOwned
<1>4. Lane(w)
  BY <1>1, <1>3, AfterMoveLane DEF Claiming
<1> QED BY <1>1, <1>2, <1>4, OwnedKeeps

(* The stages in which an earlier reservation is set aside.                 *)
LEMMA AsideJob ==
  ASSUME NEW o, NEW j \in Job, JobOK(j, o), j.pc \in SettingAside,
         j.guest \in o.recovery, o.claim[j.gen] = Ambiguous,
         NEW pc \in {"moveOld", "finishOld", "release"}
  PROVE pc \in Pc /\ JobOK([j EXCEPT !.pc = pc], o)
<1> DEFINE k == [j EXCEPT !.pc = pc]
<1>1. k.pc = pc /\ k.id = j.id /\ k.user = j.user /\ k.guest = j.guest /\ k.gen = j.gen
  BY DEF Job
<1>2. j.user \in User /\ Holds(j, o) /\ o.reserved[j.id].gen = j.gen
  BY DEF JobOK, ForAccount, SettingAside
<1>3. pc \in Pc
  BY DEF Pc, Queued
<1> HIDE DEF k
<1>4. Holds(k, o)
  BY <1>1, <1>2 DEF Holds
<1>5. JobOK(k, o)
  BY <1>1, <1>2, <1>4
     DEF JobOK, ForAccount, NoReservation, Asking, SettingAside, Opening, Claiming
<1> QED BY <1>3, <1>5 DEF k

LEMMA AsideFacts ==
  ASSUME IInv, NEW w \in Window, job[w]["action"].pc \in SettingAside
  PROVE /\ job[w]["action"] \in Job /\ JobOK(job[w]["action"], Facts)
        /\ Holds(job[w]["action"], Facts) /\ job[w]["action"].gen \in Generation
        /\ job[w]["action"].guest \in Guest
        /\ reserved[job[w]["action"].id].guest = job[w]["action"].guest
        /\ job[w]["action"].pc # "quarantine" =>
              job[w]["action"].guest \in recovery /\ claimRoute[job[w]["action"].gen] = Ambiguous
<1> DEFINE j == job[w]["action"]
<1>1. j \in Job /\ JobOK(j, Facts)
  BY DEF IInv, JobsOK, Task
<1>2. Holds(j, Facts) /\ Facts.reserved[j.id].gen = j.gen
      /\ (j.pc # "quarantine" => j.guest \in Facts.recovery /\ Facts.claim[j.gen] = Ambiguous)
  BY <1>1 DEF JobOK
<1>3. reserved[j.id] \in Reservation /\ reserved[j.id].guest = j.guest /\ reserved[j.id].gen = j.gen
  BY <1>2 DEF Holds, Facts, IInv, FactsType
<1> QED BY <1>1, <1>2, <1>3 DEF Facts, Reservation

LEMMA MoveOldKeeps == ASSUME IInv, NEW w \in Window, MoveOld(w) PROVE IInv'
<1> DEFINE j == job[w]["action"]
<1>1. /\ j.pc = "moveOld" /\ moved' = moved \cup {j.gen} /\ Goto(w, "action", "finishOld")
      /\ UNCHANGED <<ownershipVars, intent, auth, reserved, accepted, win, note, capture>>
  BY DEF MoveOld
<1>2. j \in Job /\ JobOK(j, Facts) /\ j.gen \in Generation
      /\ j.guest \in recovery /\ claimRoute[j.gen] = Ambiguous
  BY <1>1, AsideFacts DEF SettingAside
<1>3. Owned
  BY <1>1, <1>2, MovedOwned, DistinctAssumption
<1>4. Busy(w, "action") /\ Facts' = Facts
  BY <1>1, <1>3, BusyOwned DEF Task, Facts, ownershipVars, profileVars, claimVars
<1>5. "finishOld" \in Pc /\ JobOK([j EXCEPT !.pc = "finishOld"], Facts)
  BY <1>1, <1>2, AsideJob DEF SettingAside, Facts
<1>6. Lane(w)
  BY <1>1, <1>4, <1>5, GotoLane
<1> QED BY <1>1, <1>3, <1>6, OwnedKeeps

LEMMA FinishOldKeeps == ASSUME IInv, NEW w \in Window, FinishOld(w) PROVE IInv'
<1> DEFINE j == job[w]["action"]
<1>1. /\ j.pc = "finishOld" /\ FinishGuestClaim(Ambiguous) /\ Goto(w, "action", "release")
      /\ UNCHANGED <<intent, auth, reserved, accepted, moved, win, note, capture>>
  BY DEF FinishOld
<1>2. j \in Job /\ JobOK(j, Facts) /\ j.guest \in recovery /\ claimRoute[j.gen] = Ambiguous
  BY <1>1, AsideFacts DEF SettingAside
<1>3. Owned
  BY <1>1, FinishOwned
<1>4. Busy(w, "action") /\ Facts' = Facts
  BY <1>1, <1>3, BusyOwned DEF Task, Facts, FinishGuestClaim, profileVars
<1>5. "release" \in Pc /\ JobOK([j EXCEPT !.pc = "release"], Facts)
  BY <1>1, <1>2, AsideJob DEF SettingAside, Facts
<1>6. Lane(w)
  BY <1>1, <1>4, <1>5, GotoLane
<1> QED BY <1>1, <1>3, <1>6, OwnedKeeps

(* After a quarantine, by this window or before, the queue is moved.        *)
LEMMA AsideKeeps ==
  ASSUME IInv, Owned, NEW w \in Window, job[w]["action"].pc = "quarantine",
         job[w]["action"].guest \in recovery', claimRoute'[job[w]["action"].gen] = Ambiguous,
         guest' \in Guest, Goto(w, "action", "moveOld"), win' = [win EXCEPT ![w].selected = guest'],
         UNCHANGED <<intent, auth, reserved, accepted, note>>
  PROVE IInv'
<1> DEFINE j == job[w]["action"]
           k == [j EXCEPT !.pc = "moveOld"]
           v == [win[w] EXCEPT !.selected = guest']
<1>1. Busy(w, "action")
  BY BusyOwned DEF Task
<1>2. j \in Job /\ JobOK(j, Facts') /\ win[w] \in View /\ win[w].epoch # "closed"
      /\ win \in [Window -> View]
  BY <1>1, BusyFacts
<1>3. j.guest \in Facts'.recovery /\ Facts'.claim[j.gen] = Ambiguous
  BY DEF Facts
<1>4. k \in Job /\ JobOK(k, Facts')
  <2>1. "moveOld" \in Pc /\ JobOK(k, Facts')
    BY <1>2, <1>3, AsideJob DEF SettingAside
  <2> QED BY <1>2, <2>1 DEF Job
<1>5. v \in View /\ v.epoch # "closed" /\ win' = [win EXCEPT ![w] = v]
  BY <1>2, ViewSelected DEF Profile
<1>6. Be(w, "action", k)
  BY DEF Goto
<1> HIDE DEF k, v
<1>7. Lane(w)
  BY <1>1, <1>4, <1>5, <1>6, BeLane DEF KindOK
<1> QED BY <1>7, OwnedKeeps

LEMMA QuarantineKeeps == ASSUME IInv, NEW w \in Window, Quarantine(w) PROVE IInv'
<1> DEFINE j == job[w]["action"]
<1>1. j.pc = "quarantine" /\ UNCHANGED <<intent, auth, reserved, accepted, moved, note, capture>>
  BY DEF Quarantine
<1>2. guest \in Guest
  BY DEF IInv, OwnershipTypeOK
<1>3. CASE /\ j.guest \in recovery /\ claimRoute[j.gen] = Ambiguous
           /\ UNCHANGED ownershipVars
           /\ Goto(w, "action", "moveOld") /\ win' = [win EXCEPT ![w].selected = guest]
  <2>1. Owned
    BY <1>1, <1>3, StillIsOwned DEF StillOwned
  <2>2. guest' = guest /\ recovery' = recovery /\ claimRoute' = claimRoute
    BY <1>3 DEF ownershipVars, profileVars, claimVars
  <2> QED BY <1>1, <1>2, <1>3, <2>1, <2>2, AsideKeeps
<1>4. CASE /\ guest = j.guest /\ generation = j.gen /\ QuarantineGuest
           /\ Goto(w, "action", "moveOld") /\ win' = [win EXCEPT ![w].selected = guest']
  <2>1. Owned /\ recovery' = recovery \cup {guest} /\ claimRoute'[generation] = Ambiguous
        /\ guest' \in Guest
    BY <1>1, <1>4, QuarantineOwned
  <2> QED BY <1>1, <1>4, <2>1, AsideKeeps
<1>5. CASE Restore(w) /\ UNCHANGED ownershipVars
  <2>1. Inside
    BY <1>1, <1>5 DEF Inside
  <2> QED BY <1>1, <1>5, <2>1, RestoreKeeps
<1> QED BY <1>3, <1>4, <1>5 DEF Quarantine
-----------------------------------------------------------------------------
(* An account that owns a guest owns the guest of its invitation.           *)
LEMMA OwnsFounded ==
  ASSUME IInv, NEW u \in User, NEW h \in Guest, profileRoute[h] = u
  PROVE \E i \in accepted : reserved[i].user = u /\ profileRoute[reserved[i].guest] = u
<1>1. Founded(profileRoute[h], Facts)
  BY DistinctAssumption DEF IInv, Accounts
<1> QED BY <1>1 DEF Founded, Facts

LEMMA ClaimJob ==
  ASSUME IInv, NEW w \in Window, NEW t \in Task, job[w][t].pc = "claim"
  PROVE /\ job[w][t] \in Job /\ JobOK(job[w][t], Facts)
        /\ job[w][t].user \in User /\ job[w][t].id \in accepted /\ job[w][t].guest \in Guest
        /\ reserved[job[w][t].id].user = job[w][t].user
        /\ reserved[job[w][t].id].guest = job[w][t].guest
        /\ Claimed(job[w][t].user, job[w][t].guest, job[w][t].gen) =>
              profileRoute[job[w][t].guest] = job[w][t].user
<1> DEFINE j == job[w][t]
<1>1. j \in Job /\ JobOK(j, Facts)
  BY DEF IInv, JobsOK
<1>2. j.user \in User /\ Holds(j, Facts) /\ Facts.reserved[j.id].user = j.user /\ j.id \in Facts.accepted
  BY <1>1 DEF JobOK, ForAccount, Opening
<1>3. /\ j.id \in accepted /\ j.id \in Id /\ reserved[j.id] \in Reservation
      /\ reserved[j.id].user = j.user /\ reserved[j.id].guest = j.guest
  BY <1>2 DEF Holds, Facts, IInv, FactsType
<1>4. j.guest \in Guest
  BY <1>3 DEF Reservation
<1>5. ASSUME NEW h \in Guest, profileRoute[h] = j.user PROVE profileRoute[j.guest] = j.user
  <2>1. PICK i \in accepted : reserved[i].user = j.user /\ profileRoute[reserved[i].guest] = j.user
    BY <1>2, <1>5, OwnsFounded
  <2>2. i = j.id
    BY <1>3, <2>1 DEF IInv, Accounts
  <2> QED BY <1>3, <2>1, <2>2
<1>6. Claimed(j.user, j.guest, j.gen) => profileRoute[j.guest] = j.user
  BY <1>5 DEF Claimed
<1> QED BY <1>1, <1>2, <1>3, <1>4, <1>6

(* After a claim of the reserved guest, now or before, its queue is moved.  *)
LEMMA RouteKeeps ==
  ASSUME IInv, Owned, NEW w \in Window, NEW t \in Task, job[w][t].pc = "claim",
         profileRoute'[job[w][t].guest] = job[w][t].user,
         win' = [win EXCEPT ![w].selected = job[w][t].user], Goto(w, t, "route"),
         UNCHANGED <<intent, auth, reserved, accepted, note>>
  PROVE IInv'
<1> DEFINE j == job[w][t]
           k == [j EXCEPT !.pc = "route"]
           v == [win[w] EXCEPT !.selected = j.user]
<1>1. Busy(w, t)
  BY BusyOwned
<1>2. /\ j \in Job /\ JobOK(j, Facts') /\ KindOK(t, j) /\ win[w] \in View
      /\ win[w].epoch # "closed" /\ win \in [Window -> View]
  BY <1>1, BusyFacts
<1>3. /\ j.user \in User /\ Holds(j, Facts') /\ Facts'.reserved[j.id].user = j.user
      /\ j.id \in Facts'.accepted
  BY <1>2 DEF JobOK, ForAccount, Opening
<1>4. Facts'.owner[j.guest] = j.user
  BY DEF Facts
<1>5. /\ k.pc = "route" /\ k.id = j.id /\ k.user = j.user /\ k.guest = j.guest /\ k.kind = j.kind
      /\ k \in Job
  BY <1>2 DEF Job, Pc
<1>6. v \in View /\ v.epoch # "closed" /\ win' = [win EXCEPT ![w] = v]
  BY <1>2, <1>3, ViewSelected DEF Profile
<1>7. Be(w, t, k)
  BY DEF Goto
<1> HIDE DEF k, v
<1>8. Holds(k, Facts')
  BY <1>3, <1>5 DEF Holds
<1>9. KindOK(t, k)
  BY <1>2, <1>5 DEF KindOK
<1>10. JobOK(k, Facts')
  <2> HIDE DEF j
  <2> QED BY <1>3, <1>4, <1>5, <1>8
          DEF JobOK, ForAccount, NoReservation, Asking, SettingAside, Opening, Claiming
<1>11. Lane(w)
  BY <1>1, <1>5, <1>6, <1>7, <1>9, <1>10, BeLane
<1> QED BY <1>11, OwnedKeeps

LEMMA ThrowKeeps ==
  ASSUME IInv, NEW w \in Window, NEW t \in Task, Inside, Throw(w, t), job[w][t].pc # "idle"
  PROVE IInv'
<1>1. Busy(w, t)
  BY InsideStill, BusyStill
<1> QED BY <1>1, ThrowLane, InsideKeeps

LEMMA ReservedClaimKeeps ==
  ASSUME IInv, NEW w \in Window, NEW t \in Task, Claim(w, t), job[w][t].pc = "claim"
  PROVE IInv'
<1> DEFINE j == job[w][t]
           open == win' = [win EXCEPT ![w].selected = j.user] /\ Goto(w, t, "route")
<1>1. UNCHANGED <<intent, auth, reserved, accepted, moved, note, capture>>
  BY DEF Claim
<1>2. /\ j.user \in User /\ j.id \in accepted /\ j.guest \in Guest
      /\ reserved[j.id].user = j.user /\ reserved[j.id].guest = j.guest
      /\ Claimed(j.user, j.guest, j.gen) => profileRoute[j.guest] = j.user
  BY ClaimJob
<1>3. CASE Claimed(j.user, j.guest, j.gen) /\ open /\ UNCHANGED ownershipVars
  <2>1. Owned
    BY <1>1, <1>3, StillIsOwned DEF StillOwned
  <2>2. profileRoute'[j.guest] = j.user
    BY <1>2, <1>3 DEF ownershipVars, profileVars
  <2> QED BY <1>1, <1>3, <2>1, <2>2, RouteKeeps
<1>4. CASE Claimable(j.user, j.guest, j.gen) /\ ClaimGuestForUser(j.user) /\ open
  <2>1. guest = j.guest
    BY <1>4 DEF Claimable
  <2>2. Owned /\ profileRoute' = [profileRoute EXCEPT ![guest] = j.user]
    <3> HIDE DEF j
    <3> QED BY <1>1, <1>2, <1>4, <2>1, ClaimOwned
  <2>3. profileRoute'[j.guest] = j.user
    BY <1>2, <2>1, <2>2 DEF IInv, OwnershipTypeOK
  <2> QED BY <1>1, <1>4, <2>2, <2>3, RouteKeeps
<1>5. CASE Throw(w, t) /\ UNCHANGED ownershipVars
  BY <1>1, <1>5, ThrowKeeps DEF Inside
<1> QED BY <1>3, <1>4, <1>5 DEF Claim

LEMMA AnyClaimKeeps ==
  ASSUME IInv, NEW w \in Window, NEW t \in Task, Claim(w, t), job[w][t].pc = "claimAny"
  PROVE IInv'
<1> DEFINE j == job[w][t]
<1>1. UNCHANGED <<intent, auth, reserved, accepted, moved, note, capture>>
  BY DEF Claim
<1>2. j \in Job /\ JobOK(j, Facts)
  BY DEF IInv, JobsOK
<1>3. j.user \in User /\ j.user \in Profile /\ \E h \in Guest : profileRoute[h] = j.user
  BY <1>2 DEF JobOK, ForAccount, Profile, Facts
<1>4. ASSUME Owned, Opened(w, t, j.user) PROVE IInv'
  <2>1. Busy(w, t)
    BY <1>4, BusyOwned
  <2>2. Lane(w)
    BY <1>3, <1>4, <2>1, OpenedLane
  <2> QED BY <1>1, <1>4, <2>2, OwnedKeeps
<1>5. CASE Opened(w, t, j.user) /\ UNCHANGED ownershipVars
  <2>1. Owned
    BY <1>1, <1>5, StillIsOwned DEF StillOwned
  <2> QED BY <1>4, <1>5, <2>1
<1>6. CASE ClaimGuestForUser(j.user) /\ Opened(w, t, j.user)
  <2>1. PICK i \in accepted : reserved[i].user = j.user /\ profileRoute[reserved[i].guest] = j.user
    BY <1>3, OwnsFounded
  <2>2. Owned
    <3> HIDE DEF j
    <3> QED BY <1>1, <1>3, <1>6, <2>1, ClaimOwned
  <2> QED BY <1>4, <1>6, <2>2
<1>7. CASE Throw(w, t) /\ UNCHANGED ownershipVars
  BY <1>1, <1>7, ThrowKeeps DEF Inside
<1> QED BY <1>5, <1>6, <1>7 DEF Claim

LEMMA ClaimKeeps == ASSUME IInv, NEW w \in Window, NEW t \in Task, Claim(w, t) PROVE IInv'
  BY ReservedClaimKeeps, AnyClaimKeeps DEF Claim
-----------------------------------------------------------------------------
(* Steps of no task.                                                        *)
LEMMA OwnedAfter ==
  ASSUME IInv, UNCHANGED <<ownershipVars, reserved, accepted, moved>>, CaptureOK'
  PROVE Owned /\ Facts' = Facts
<1>1. Facts' = Facts
  BY DEF Facts, ownershipVars, profileVars, claimVars
<1>2. Grows(Facts, Facts')
  BY <1>1, Quiet DEF IInv
<1>3. OwnershipTypeOK' /\ CurrentOK'
  BY DEF IInv, OwnershipTypeOK, CurrentOK, ownershipVars, profileVars, claimVars
<1>4. Accounts'
  BY <1>1 DEF IInv, Accounts, ownershipVars, profileVars
<1> QED BY <1>1, <1>2, <1>3, <1>4 DEF Owned

LEMMA SameJobsKeeps ==
  ASSUME IInv, UNCHANGED <<ownershipVars, intent, auth, reserved, accepted, moved, job, note>>,
         CaptureOK', win' \in [Window -> View], \A v \in Window : win'[v].epoch = win[v].epoch
  PROVE IInv'
<1>1. Owned /\ Facts' = Facts
  BY OwnedAfter
<1>2. JobsOK' /\ Facts' \in FactsType /\ auth' \in StoredLogin \cup {None}
  BY <1>1 DEF IInv, JobsOK
<1>3. IntentOK'
  BY DEF IInv, IntentOK
<1>4. Windows'
  BY DEF IInv, Windows
<1> QED BY <1>1, <1>2, <1>3, <1>4 DEF IInv, Owned

LEMMA SelectedView ==
  ASSUME IInv, NEW w \in Window, NEW p \in Profile, win' = [win EXCEPT ![w].selected = p]
  PROVE win' \in [Window -> View] /\ \A v \in Window : win'[v].epoch = win[v].epoch
<1>1. win \in [Window -> View]
  BY DEF IInv, Windows
<1> DEFINE v == [win[w] EXCEPT !.selected = p]
<1>2. v \in View /\ v.epoch = win[w].epoch
  BY <1>1 DEF View
<1>3. win' = [win EXCEPT ![w] = v]
  BY <1>1
<1> HIDE DEF v
<1> QED BY <1>1, <1>2, <1>3

LEMMA FollowedProfile ==
  ASSUME IInv, NEW w \in Window
  PROVE Followed(win[w].selected) \in Profile
<1>1. win[w].selected \in Profile /\ guest \in Profile
  BY DEF IInv, Windows, View, OwnershipTypeOK, Profile
<1> QED BY <1>1 DEF Followed

LEMMA FollowProfilesKeeps == ASSUME IInv, NEW w \in Window, FollowProfiles(w) PROVE IInv'
<1>1. UNCHANGED <<ownershipVars, intent, auth, reserved, accepted, moved, job, note, capture>>
  BY DEF FollowProfiles
<1>2. win' = [win EXCEPT ![w].selected = Followed(win[w].selected)]
  BY DEF FollowProfiles
<1>3. CaptureOK'
  BY <1>1 DEF IInv, CaptureOK, ownershipVars, profileVars, claimVars
<1> QED BY <1>1, <1>2, <1>3, FollowedProfile, SelectedView, SameJobsKeeps

LEMMA CaptureBeginsKeeps == ASSUME IInv, NEW w \in Window, CaptureBegins(w) PROVE IInv'
<1>1. UNCHANGED <<ownershipVars, intent, auth, reserved, accepted, moved, job, note>>
  BY DEF CaptureBegins
<1>2. win' = [win EXCEPT ![w].selected = guest]
      /\ capture' = [window |-> w, profile |-> guest, gen |-> None]
  BY DEF CaptureBegins
<1>3. guest \in Guest /\ guest \in Profile /\ guest' = guest
  BY <1>1 DEF IInv, OwnershipTypeOK, Profile, ownershipVars, profileVars
<1>4. CaptureOK'
  BY <1>2, <1>3 DEF CaptureOK, Captured
<1> QED BY <1>1, <1>2, <1>3, <1>4, SelectedView, SameJobsKeeps

LEMMA CaptureGenerationKeeps == ASSUME IInv, CaptureGeneration PROVE IInv'
<1>1. UNCHANGED <<ownershipVars, intent, auth, reserved, accepted, moved, win, job, note>>
  BY DEF CaptureGeneration
<1>2. capture \in Captured /\ capture # None /\ capture' = [capture EXCEPT !.gen = generation]
  BY DEF IInv, CaptureOK, CaptureGeneration
<1>3. capture' \in Captured /\ capture'.profile = capture.profile /\ capture'.gen = generation
  BY <1>2 DEF IInv, OwnershipTypeOK, Captured
<1>4. CaptureOK'
  BY <1>1, <1>2, <1>3 DEF IInv, CaptureOK, ownershipVars, profileVars, claimVars
<1> QED BY <1>1, <1>4, SameJobsKeeps DEF IInv, Windows

LEMMA CaptureEndsKeeps == ASSUME IInv, NEW held, CaptureEnds(held) PROVE IInv'
<1>1. UNCHANGED <<ownershipVars, intent, auth, reserved, accepted, moved, job, note>>
  BY DEF CaptureEnds
<1>2. capture # None /\ capture' = None
      /\ win' = [win EXCEPT ![capture.window].selected = Followed(win[capture.window].selected)]
  BY DEF CaptureEnds
<1>3. capture.window \in Window
  BY <1>2 DEF IInv, CaptureOK, Captured
<1>4. CaptureOK'
  BY <1>2 DEF CaptureOK
<1> QED BY <1>1, <1>2, <1>3, <1>4, FollowedProfile, SelectedView, SameJobsKeeps

(* A refresh begins, or runs once more.                                     *)
LEMMA RefreshLane ==
  ASSUME IInv, NEW w \in Window, win[w].epoch # "closed", Facts' = Facts,
         win' = Refreshing(w), job' = Refreshed(w, job)
  PROVE Lane(w)
<1> DEFINE v == [[win[w] EXCEPT !.epoch = "refresh"] EXCEPT !.again = job[w]["refresh"].pc # "idle"]
<1>1. /\ job \in [Window -> [Task -> Job]] /\ win \in [Window -> View]
      /\ \A x \in Window, s \in Task : JobOK(job[x][s], Facts) /\ KindOK(s, job[x][s])
  BY DEF IInv, JobsOK, Windows
<1>2. win[w] \in View /\ "refresh" \in Task
  BY <1>1 DEF Task
<1>3. v \in View /\ v.epoch # "closed"
  BY <1>2 DEF View
<1>4. win' = [win EXCEPT ![w] = v]
  BY <1>1 DEF Refreshing
<1> HIDE DEF v
<1>5. win' \in [Window -> View] /\ win'[w].epoch # "closed"
      /\ \A x \in Window \ {w} : win'[x] = win[x]
  BY <1>1, <1>3, <1>4
<1>6. job' \in {job, [job EXCEPT ![w]["refresh"] = StartJob("refresh")]}
  BY DEF Refreshed, StartJob
<1>7. StartJob("refresh") \in Job /\ JobOK(StartJob("refresh"), Facts)
      /\ KindOK("refresh", StartJob("refresh"))
  BY StartOK DEF KindOK, StartJob
<1>8. /\ job' \in [Window -> [Task -> Job]]
      /\ \A x \in Window, s \in Task : JobOK(job'[x][s], Facts) /\ KindOK(s, job'[x][s])
      /\ \A x \in Window \ {w} : job'[x] = job[x]
  <2>1. CASE job' = job
    BY <1>1, <2>1
  <2>2. CASE job' = [job EXCEPT ![w]["refresh"] = StartJob("refresh")]
    BY <1>1, <1>2, <1>7, <2>2
  <2> QED BY <1>6, <2>1, <2>2
<1> QED BY <1>5, <1>8 DEF Lane

LEMMA NoticeKeeps == ASSUME IInv, NEW w \in Window, Notice(w) PROVE IInv'
<1>1. /\ UNCHANGED <<ownershipVars, intent, auth, reserved, accepted, moved, capture>>
      /\ note[w] /\ note' = [note EXCEPT ![w] = FALSE]
      /\ win' = Refreshing(w) /\ job' = Refreshed(w, job)
  BY DEF Notice
<1>2. win[w].epoch # "closed"
  BY <1>1 DEF IInv, Windows
<1>3. StillOwned
  BY <1>1 DEF StillOwned
<1>4. Owned /\ Facts' = Facts
  BY <1>3, StillIsOwned, StillSame
<1>5. Lane(w)
  BY <1>1, <1>2, <1>4, RefreshLane
<1>6. note' \in [Window -> BOOLEAN] /\ \A v \in Window : win[v].epoch = "closed" => ~note'[v]
  BY <1>1 DEF IInv, Windows
<1>7. IntentOK' /\ auth' \in StoredLogin \cup {None}
  BY <1>1 DEF IInv, IntentOK
<1> QED BY <1>4, <1>5, <1>6, <1>7, Keeps

LEMMA FocusKeeps == ASSUME IInv, NEW w \in Window, Focus(w) PROVE IInv'
<1>1. Inside /\ win[w].epoch # "closed" /\ win' = Refreshing(w) /\ job' = Refreshed(w, job)
  BY DEF Focus, Inside
<1>2. Facts' = Facts
  BY <1>1, InsideStill, StillSame
<1> QED BY <1>1, <1>2, RefreshLane, InsideKeeps

LEMMA CloseKeeps == ASSUME IInv, NEW w \in Window, Close(w) PROVE IInv'
<1> DEFINE v == [[[[win[w] EXCEPT !.epoch = "closed"] EXCEPT !.again = FALSE] EXCEPT !.shown = None]
                  EXCEPT !.selected = guest]
           idle == [t \in Task |-> Idle]
<1>1. /\ UNCHANGED <<ownershipVars, intent, auth, reserved, accepted, moved>>
      /\ note' = [note EXCEPT ![w] = FALSE]
      /\ job' = [job EXCEPT ![w] = idle]
      /\ capture' \in {None, capture}
  BY DEF Close
<1>2. CaptureOK'
  BY <1>1 DEF IInv, CaptureOK, ownershipVars, profileVars, claimVars
<1>3. Owned /\ Facts' = Facts
  BY <1>1, <1>2, OwnedAfter
<1>4. /\ win \in [Window -> View] /\ win[w] \in View /\ note \in [Window -> BOOLEAN]
      /\ job \in [Window -> [Task -> Job]] /\ guest \in Profile
  BY DEF IInv, Windows, JobsOK, OwnershipTypeOK, Profile
<1>5. win' = [win EXCEPT ![w] = v]
  BY <1>4 DEF Close
<1>6. v \in View /\ idle \in [Task -> Job] /\ \A t \in Task : idle[t] = Idle
  BY <1>4, IdleJob DEF View
<1> HIDE DEF v, idle
<1>7. JobsOK'
  <2>1. job' \in [Window -> [Task -> Job]]
    BY <1>1, <1>4, <1>6
  <2>2. \A x \in Window, t \in Task : JobOK(job'[x][t], Facts) /\ KindOK(t, job'[x][t])
    BY <1>1, <1>4, <1>6, IdleOK DEF IInv, JobsOK
  <2> QED BY <1>3, <2>1, <2>2 DEF JobsOK
<1>8. Windows'
  BY <1>1, <1>4, <1>5, <1>6 DEF IInv, Windows
<1>9. IntentOK' /\ auth' \in StoredLogin \cup {None} /\ Facts' \in FactsType
  BY <1>1, <1>3 DEF IInv, IntentOK
<1> QED BY <1>3, <1>7, <1>8, <1>9 DEF IInv, Owned

LEMMA BootKeeps == ASSUME IInv, NEW w \in Window, Boot(w) PROVE IInv'
<1> DEFINE p == IF auth = None THEN guest ELSE auth.user
           v == [[win[w] EXCEPT !.selected = p] EXCEPT !.epoch = "action"]
<1>1. /\ UNCHANGED <<guest, profileRoute, recovery, claimVars, intent, auth, reserved, accepted,
                     moved, note, capture>>
      /\ active' = p
      /\ job' = [job EXCEPT ![w]["action"] = StartJob("init")]
  BY DEF Boot, StartJob
<1>2. p \in Profile
  BY DEF IInv, OwnershipTypeOK, Profile, StoredLogin
<1>3. Owned
  BY <1>1, <1>2, SelectOwned
<1>4. /\ win \in [Window -> View] /\ win[w] \in View
      /\ job \in [Window -> [Task -> Job]] /\ "action" \in Task
      /\ \A x \in Window, s \in Task : JobOK(job[x][s], Facts) /\ KindOK(s, job[x][s])
  BY DEF IInv, Windows, JobsOK, Task
<1>5. win' = [win EXCEPT ![w] = v]
  BY <1>4 DEF Boot
<1>6. v \in View /\ v.epoch # "closed"
  BY <1>2, <1>4 DEF View
<1> HIDE DEF v, p
<1>7. Facts' = Facts
  BY <1>1 DEF Facts, claimVars
<1>8. StartJob("init") \in Job /\ JobOK(StartJob("init"), Facts) /\ KindOK("action", StartJob("init"))
  BY StartOK DEF KindOK
<1>9. Lane(w)
  <2>1. /\ job' \in [Window -> [Task -> Job]]
        /\ \A x \in Window, s \in Task : JobOK(job'[x][s], Facts) /\ KindOK(s, job'[x][s])
        /\ \A x \in Window \ {w} : job'[x] = job[x]
    BY <1>1, <1>4, <1>8
  <2>2. win' \in [Window -> View] /\ win'[w].epoch # "closed"
        /\ \A x \in Window \ {w} : win'[x] = win[x]
    BY <1>4, <1>5, <1>6
  <2> QED BY <1>7, <2>1, <2>2 DEF Lane
<1> QED BY <1>1, <1>3, <1>9, OwnedKeeps

-----------------------------------------------------------------------------
LEMMA InitHolds == Init => IInv
<1> SUFFICES ASSUME Init PROVE IInv
  OBVIOUS
<1>1. /\ guest \in Guest /\ active = guest /\ profileRoute = [g \in Guest |-> None] /\ recovery = {}
      /\ generation \in Generation /\ claimRoute = [n \in Generation |-> None] /\ pending = None
  BY DEF Init, OwnershipInit
<1>2. /\ intent = None /\ auth = None /\ reserved = [i \in Id |-> None] /\ accepted = {} /\ moved = {}
      /\ win = [w \in Window |-> [shown |-> None, selected |-> guest, epoch |-> "none",
                                  again |-> FALSE]]
      /\ job = [w \in Window |-> [t \in Task |-> Idle]]
      /\ note = [w \in Window |-> FALSE] /\ capture = None
  BY DEF Init
<1>3. OwnershipTypeOK
  BY <1>1 DEF OwnershipTypeOK, Profile
<1>4. Facts \in FactsType
  BY <1>1, <1>2 DEF Facts, FactsType
<1>5. Accounts /\ CurrentOK
  BY <1>1, <1>2 DEF Accounts, CurrentOK
<1>6. IntentOK /\ CaptureOK
  BY <1>2 DEF IntentOK, CaptureOK
<1>7. JobsOK
  BY <1>2, IdleJob, IdleOK DEF JobsOK
<1>8. Windows
  <2>1. [shown |-> None, selected |-> guest, epoch |-> "none", again |-> FALSE] \in View
    BY <1>1 DEF View, Profile
  <2> QED BY <1>2, <2>1 DEF Windows
<1> QED BY <1>2, <1>3, <1>4, <1>5, <1>6, <1>7, <1>8 DEF IInv

LEMMA StutterKeeps == ASSUME IInv, UNCHANGED vars PROVE IInv'
<1>1. UNCHANGED <<ownershipVars, intent, auth, reserved, accepted, moved, win, job, note, capture>>
  BY DEF vars, registrationVars
<1>2. CaptureOK'
  BY <1>1 DEF IInv, CaptureOK, ownershipVars, profileVars, claimVars
<1> QED BY <1>1, <1>2, SameJobsKeeps DEF IInv, Windows
-----------------------------------------------------------------------------
LEMMA LearnerKeeps == ASSUME IInv, NEW w \in Window, Learner(w) PROVE IInv'
<1>1. ASSUME NEW u \in User, StartRedeem(w, u) PROVE IInv'
  BY <1>1, BeginKeeps DEF StartRedeem
<1>2. ASSUME NEW u \in User, StartLogin(w, u) PROVE IInv'
  BY <1>2, BeginKeeps DEF StartLogin
<1>3. CASE StartLogout(w)
  BY <1>3, BeginKeeps DEF StartLogout
<1> QED BY <1>1, <1>2, <1>3, CaptureBeginsKeeps DEF Learner

LEMMA TaskStepKeeps ==
  ASSUME IInv, NEW w \in Window, NEW t \in Task, TaskStep(w, t)
  PROVE IInv'
  BY ReadPendingKeeps, ActivateKeeps, ActivateGuestKeeps, GuestSelectedKeeps, ClaimKeeps,
     ReadJournalKeeps, ReadRouteKeeps, MoveKeeps, FinishClaimKeeps, CompleteKeeps, PublishKeeps,
     ReadLoginKeeps
     DEF TaskStep

LEMMA ActionStepKeeps == ASSUME IInv, NEW w \in Window, ActionStep(w) PROVE IInv'
  BY ReserveKeeps, QuarantineKeeps, MoveOldKeeps, FinishOldKeeps, ReleaseKeeps, RequestKeeps,
     RefusedKeeps, DropKeeps, AcceptedKeeps, MatchKeeps, StoreKeeps, VerifyKeeps, RollbackKeeps,
     LeaveAccountKeeps, ClearLoginKeeps
     DEF ActionStep

LEMMA StepKeeps == ASSUME IInv, Next PROVE IInv'
<1>1. ASSUME NEW w \in Window, Work(w) PROVE IInv'
  BY <1>1, ActionStepKeeps, TaskStepKeeps DEF Work
<1>2. ASSUME NEW w \in Window, Recover(w) PROVE IInv'
  BY <1>2, NoticeKeeps, FocusKeeps, CloseKeeps, BootKeeps DEF Recover, Reload
<1>3. ASSUME NEW w \in Window, Fault(w) PROVE IInv'
  BY <1>3, CloseKeeps, StorageFailsKeeps DEF Fault, Crash
<1>4. ASSUME NEW w \in Window, Learner(w) \/ FollowProfiles(w) PROVE IInv'
  BY <1>4, LearnerKeeps, FollowProfilesKeeps
<1>5. ASSUME NEW held \in BOOLEAN, CaptureEnds(held) PROVE IInv'
  BY <1>5, CaptureEndsKeeps
<1> QED BY <1>1, <1>2, <1>3, <1>4, <1>5, CaptureGenerationKeeps DEF Next

(* The inductive invariant holds in every reachable state.                  *)
THEOREM Invariance == Spec => []IInv
<1>1. IInv /\ [Next]_vars => IInv'
  BY StepKeeps, StutterKeeps
<1> QED BY InitHolds, <1>1, PTL DEF Spec

(* Every variable keeps its type; the reservation repeats what was reserved *)
(* under its id and is redeemed only if the server redeemed it; and no      *)
(* attempts of the guest who is here leave the guest queue.                 *)
THEOREM TypeCorrect == Spec => []TypeOK
<1>1. ASSUME IInv PROVE TypeOK
  <2>1. OwnershipTypeOK /\ auth \in StoredLogin \cup {None} /\ IntentOK
    BY <1>1 DEF IInv
  <2>2. accepted \subseteq {i \in Id : reserved[i] # None}
    BY <1>1 DEF IInv, Accounts, Facts, FactsType
  <2>3. moved \subseteq Generation \ {generation}
    BY <1>1 DEF IInv, CurrentOK
  <2>4. ASSUME NEW w \in Window
        PROVE /\ win[w].shown \in StoredLogin \cup {None}
              /\ win[w].selected \in Profile
              /\ win[w].epoch \in Task \cup {"none", "locked", "closed"}
              /\ win[w].epoch = "closed" => \A t \in Task : job[w][t] = Idle
              /\ \A t \in Task : job[w][t].pc \in Pc
    <3>1. win[w] \in View /\ (win[w].epoch = "closed" => \A t \in Task : job[w][t] = Idle)
      BY <1>1 DEF IInv, Windows
    <3>2. \A t \in Task : job[w][t] \in Job
      BY <1>1 DEF IInv, JobsOK
    <3> QED BY <3>1, <3>2 DEF View, Job
  <2> QED BY <2>1, <2>2, <2>3, <2>4 DEF TypeOK, IntentOK
<1> QED BY Invariance, <1>1, PTL

(* A practice session that captures its owner gets one: the profile and the *)
(* generation it read are both those of the guest who is here.              *)
THEOREM CaptureHasOneOwner == Spec => CapturedOneOwner
<1>1. ASSUME IInv, CaptureEnds(TRUE) PROVE capture.profile = guest /\ capture.gen = generation
  <2>1. capture # None /\ capture.gen # None /\ capture.profile = guest
    BY <1>1 DEF CaptureEnds, StillGuest
  <2> QED BY <1>1, <2>1 DEF IInv, CaptureOK
<1>2. IInv /\ [Next]_vars => [CaptureEnds(TRUE) => capture.profile = guest /\ capture.gen = generation]_vars
  BY <1>1
<1> QED BY Invariance, <1>2, PTL DEF Spec, CapturedOneOwner

-----------------------------------------------------------------------------
(* What may become of a reservation whose invitation was redeemed.          *)
Kept ==
    intent # None /\ intent.status = "redeemed" /\ intent' # intent
        => \/ profileRoute'[intent.guest] = intent.user
           \/ intent.guest \in recovery'
           \/ \E w \in Window :
                 job[w]["action"].pc = "drop" /\ job[w]["action"].id = intent.id

LEMMA ReleaseOfKept == ASSUME IInv, NEW w \in Window, Release(w) PROVE Kept
<1> DEFINE j == job[w]["action"]
<1>1. j.guest \in recovery /\ reserved[j.id].guest = j.guest
  BY AsideFacts DEF Release, SettingAside
<1>2. intent' = Released(j.id) /\ recovery' = recovery
  BY DEF Release, ownershipVars, profileVars
<1>3. intent # None => reserved[intent.id].guest = intent.guest
  BY IntentTaken
<1> QED BY <1>1, <1>2, <1>3 DEF Kept, Released

LEMMA CompleteOfKept ==
  ASSUME IInv, NEW w \in Window, NEW t \in Task, Complete(w, t)
  PROVE Kept
<1> DEFINE j == job[w][t]
<1>1. j.pc = "complete" /\ intent' = Released(j.id) /\ profileRoute' = profileRoute
  BY DEF Complete, ownershipVars, profileVars
<1>2. JobOK(j, Facts)
  BY DEF IInv, JobsOK
<1>3. reserved[j.id].guest = j.guest /\ reserved[j.id].user = j.user /\ profileRoute[j.guest] = j.user
  BY <1>1, <1>2 DEF JobOK, Opening, Claiming, Holds, Facts
<1>4. intent # None => /\ reserved[intent.id].guest = intent.guest
                       /\ reserved[intent.id].user = intent.user
  BY IntentTaken
<1> QED BY <1>1, <1>3, <1>4 DEF Kept, Released

LEMMA AcceptedOfKept == ASSUME IInv, NEW w \in Window, Accepted(w) PROVE Kept
<1>1. intent' \in {intent, [intent EXCEPT !.status = "redeemed"]}
  BY DEF Accepted
<1>2. intent # None => intent \in Intent
  BY DEF IInv, IntentOK
<1>3. intent # None /\ intent.status = "redeemed" => [intent EXCEPT !.status = "redeemed"] = intent
  BY <1>2 DEF Intent
<1> QED BY <1>1, <1>3 DEF Kept

LEMMA TaskStepOfKept ==
  ASSUME IInv, NEW w \in Window, NEW t \in Task, TaskStep(w, t)
  PROVE Kept
<1>1. Complete(w, t) \/ UNCHANGED intent
  BY DEF TaskStep, ReadPending, Activate, ActivateGuest, GuestSelected, Claim, ReadJournal, ReadRoute,
         Move, FinishClaim, Publish, ReadLogin
<1> QED BY <1>1, CompleteOfKept DEF Kept

LEMMA ActionStepOfKept == ASSUME IInv, NEW w \in Window, ActionStep(w) PROVE Kept
<1>1. Reserve(w) => intent = None \/ UNCHANGED intent
  BY DEF Reserve
<1>2. Drop(w) => Kept
  BY DEF Drop, Released, Kept
<1>3. \/ Reserve(w) \/ Release(w) \/ Drop(w) \/ Accepted(w) \/ UNCHANGED intent
  BY DEF ActionStep, Quarantine, MoveOld, FinishOld, Request, NoAnswer, Refused, Match, Store,
         Verify, Rollback, LeaveAccount, ClearLogin
<1> QED BY <1>1, <1>2, <1>3, ReleaseOfKept, AcceptedOfKept DEF Kept

(* The reservation of a redeemed invitation is released only once its guest *)
(* belongs to the account or is set aside (but for the refusal in drop).    *)
THEOREM ReservationKept == Spec => RedeemedIsKept
<1>1. ASSUME IInv, Next PROVE Kept
  <2>1. ASSUME NEW w \in Window, Work(w) PROVE Kept
    BY <1>1, <2>1, ActionStepOfKept, TaskStepOfKept DEF Work
  <2>2. ASSUME NEW w \in Window, Learner(w) \/ Recover(w) \/ FollowProfiles(w) \/ Fault(w)
        PROVE UNCHANGED intent
    BY <2>2 DEF Learner, StartRedeem, StartLogin, StartLogout, Begin, CaptureBegins, Recover, Notice,
                Focus, Reload, Close, Boot, FollowProfiles, Fault, Crash, StorageFails
  <2>3. CaptureGeneration \/ (\E held \in BOOLEAN : CaptureEnds(held)) => UNCHANGED intent
    BY DEF CaptureGeneration, CaptureEnds
  <2> QED BY <1>1, <2>1, <2>2, <2>3 DEF Next, Kept
<1>2. IInv /\ [Next]_vars => [Kept]_vars
  BY <1>1
<1> QED BY Invariance, <1>2, PTL DEF Spec, RedeemedIsKept, Kept
=============================================================================
