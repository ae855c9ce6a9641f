--------------------------- MODULE AtomicStorage ---------------------------
(***************************************************************************)
(* The revisioned key/value store under every other component: WebStorage  *)
(* over IndexedDB (packages/web/src/platform/web-storage.ts) and the SQLite *)
(* store of the desktop shell (packages/desktop/src/main/storage.ts).  Each *)
(* address keeps a revision that outlives its value, so that a deleted and  *)
(* rewritten address is never mistaken for an untouched one.                *)
(***************************************************************************)
EXTENDS Integers

CONSTANTS Client, Address, Value, Absent,
          SessionOnly,   \* addresses of encoded.persistent = false values
          MaxRevision    \* Number.MAX_SAFE_INTEGER

ASSUME AbsentAssumption == Absent \notin Value
ASSUME SessionOnlyAssumption == SessionOnly \subseteq Address
ASSUME MaxRevisionAssumption == MaxRevision \in Nat

VARIABLES value,         \* the value collections
          revision,      \* the revision collection: 0 for an untouched address
          reads,         \* addresses of the readBatch a client has open
          seen,          \* the values it returned
          seenRevision,  \* the revisions it returned
          reply          \* the answer of the last commitBatch

storeVars == <<value, revision, reads, seen, seenRevision, reply>>

Stored == Value \cup {Absent}
Nothing == [a \in Address |-> Absent]
Untouched == [a \in Address |-> 0]

StoreTypeOK ==
    /\ value \in [Address -> Stored]
    /\ revision \in [Address -> 0..MaxRevision]
    /\ reads \in [Client -> SUBSET Address]
    /\ seen \in [Client -> [Address -> Stored]]
    /\ seenRevision \in [Client -> [Address -> 0..MaxRevision]]
    /\ reply \in [Client -> {"none", "committed", "conflict", "rejected"}]

StoreInit ==
    /\ value = Nothing
    /\ revision = Untouched
    /\ reads = [c \in Client |-> {}]
    /\ seen = [c \in Client |-> Nothing]
    /\ seenRevision = [c \in Client |-> Untouched]
    /\ reply = [c \in Client |-> "none"]

-----------------------------------------------------------------------------
(* Faulty variant: the last revision can be advanced once more.             *)
WritableAtLimit(W) == \A a \in W : revision[a] <= MaxRevision

(* An address whose revision has reached MaxRevision cannot be written.     *)
Writable(W) == \A a \in W : revision[a] < MaxRevision

(* Every written address moves to its next revision, also when the write    *)
(* deletes the value.                                                       *)
Advanced(W) == [a \in Address |-> IF a \in W THEN revision[a] + 1 ELSE revision[a]]

(* Faulty variant: deleting a value also forgets that it was written.       *)
WriteForgetting(W, new) ==
    /\ value' = [a \in Address |-> IF a \in W THEN new[a] ELSE value[a]]
    /\ revision' = Advanced({a \in W : new[a] # Absent})

Write(W, new) ==
    /\ value' = [a \in Address |-> IF a \in W THEN new[a] ELSE value[a]]
    /\ revision' = Advanced(W)

Forget(c) ==
    /\ reads' = [reads EXCEPT ![c] = {}]
    /\ seen' = [seen EXCEPT ![c] = Nothing]
    /\ seenRevision' = [seenRevision EXCEPT ![c] = Untouched]

ReadBatch(c, A) ==
    /\ reads' = [reads EXCEPT ![c] = A]
    /\ seen' = [seen EXCEPT ![c] = [a \in Address |-> IF a \in A THEN value[a] ELSE Absent]]
    /\ seenRevision' = [seenRevision EXCEPT
                          ![c] = [a \in Address |-> IF a \in A THEN revision[a] ELSE 0]]
    /\ reply' = [reply EXCEPT ![c] = "none"]
    /\ UNCHANGED <<value, revision>>

(* set and delete of one address, without a precondition.                   *)
MutateOne(a, v) ==
    /\ Writable({a})
    /\ Write({a}, [x \in {a} |-> v])
    /\ UNCHANGED <<reads, seen, seenRevision, reply>>

(* clear empties a collection; only its present keys get a new revision.    *)
Clear ==
    LET present == {a \in Address : value[a] # Absent}
    IN /\ present # {}
       /\ Writable(present)
       /\ Write(present, [a \in present |-> Absent])
       /\ UNCHANGED <<reads, seen, seenRevision, reply>>

(* A read that finds a damaged record moves it aside.                       *)
QuarantineRecord(a) ==
    /\ value[a] # Absent
    /\ Writable({a})
    /\ Write({a}, [x \in {a} |-> Absent])
    /\ UNCHANGED <<reads, seen, seenRevision, reply>>

(* Faulty variant: the commit carries no preconditions.                     *)
RevisionsUnchecked(c) == TRUE

(* ifRevisions names every address of the snapshot.                         *)
RevisionsMatch(c) == \A a \in reads[c] : revision[a] = seenRevision[c][a]

(* The transaction completes.  The caller may still get a rejection, which  *)
(* leaves it not knowing the outcome.                                       *)
CommitBatch(c, W, new) ==
    /\ W # {} /\ W \subseteq reads[c]
    /\ RevisionsMatch(c)
    /\ Writable(W)
    /\ Write(W, new)
    /\ reply' \in {[reply EXCEPT ![c] = r] : r \in {"committed", "rejected"}}
    /\ Forget(c)

(* committed: false, and nothing was applied.                               *)
CommitConflict(c) ==
    /\ reads[c] # {}
    /\ ~RevisionsMatch(c)
    /\ reply' = [reply EXCEPT ![c] = "conflict"]
    /\ Forget(c)
    /\ UNCHANGED <<value, revision>>

(* The transaction aborts (exhausted revision, quota, lost connection).     *)
CommitAborted(c) ==
    /\ reads[c] # {}
    /\ reply' = [reply EXCEPT ![c] = "rejected"]
    /\ Forget(c)
    /\ UNCHANGED <<value, revision>>

(* The owning process dies with all its renderers.  Values kept only in     *)
(* memory are lost without a new revision.                                  *)
Restart ==
    /\ value' = [a \in Address |-> IF a \in SessionOnly THEN Absent ELSE value[a]]
    /\ reads' = [c \in Client |-> {}]
    /\ seen' = [c \in Client |-> Nothing]
    /\ seenRevision' = [c \in Client |-> Untouched]
    /\ reply' = [c \in Client |-> "none"]
    /\ UNCHANGED revision

StoreNext ==
    \/ \E c \in Client, A \in SUBSET Address : ReadBatch(c, A)
    \/ \E a \in Address, v \in Stored : MutateOne(a, v)
    \/ Clear
    \/ \E a \in Address : QuarantineRecord(a)
    \/ \E c \in Client, W \in SUBSET Address :
          \E new \in [W -> Stored] : CommitBatch(c, W, new)
    \/ \E c \in Client : CommitConflict(c)
    \/ \E c \in Client : CommitAborted(c)
    \/ Restart

StoreSpec == StoreInit /\ [][StoreNext]_storeVars

-----------------------------------------------------------------------------
(* A revision that still matches vouches for the value that was read with   *)
(* it: no absent/present/absent cycle, clear, quarantine or restart lets a  *)
(* stale snapshot pass the comparison (ports/index.ts, readBatch).          *)
SnapshotCurrent ==
    \A c \in Client : \A a \in reads[c] :
        /\ seenRevision[c][a] <= revision[a]
        /\ seenRevision[c][a] = revision[a] => seen[c][a] = value[a]

(* While the process lives, a value never changes under an unchanged        *)
(* revision, and no step takes a revision back (mutateOne, clear,           *)
(* commitBatch, quarantineRecord).                                          *)
RevisionTellsWrites ==
    [][\A a \in Address :
          /\ revision'[a] >= revision[a]
          /\ value'[a] # value[a] => revision'[a] > revision[a] \/ Restart]_storeVars

(* The addresses of an open snapshot that were written after it was taken.  *)
staleNow ==
    [c \in Client |-> {a \in reads[c] : seenRevision[c][a] # revision[a]}]

Promise == INSTANCE SnapshotStore WITH stale <- staleNow

(* The store keeps the promise of the port: a batch takes effect as a whole *)
(* and only on a snapshot nobody has written to, whatever its answer says.  *)
KeepsPromise == Promise!Spec
=============================================================================
