--------------------------- MODULE SnapshotStore ---------------------------
(***************************************************************************)
(* What the storage port promises its callers                              *)
(* (packages/core-logic/src/ports/index.ts): a client takes a snapshot of   *)
(* some addresses with readBatch, and a later commitBatch takes effect, all *)
(* of it at once, exactly when none of the addresses it read has been       *)
(* written since.  There are no revision numbers here; "written since" is   *)
(* kept as the set of stale addresses of each snapshot.                     *)
(***************************************************************************)
CONSTANTS Client,       \* the renderers that share one durable store
          Address,      \* collection/key pairs
          Value,        \* what can be stored at an address
          Absent,       \* an address without a value
          SessionOnly   \* addresses whose values do not survive the process

VARIABLES value,        \* [Address -> Value \cup {Absent}]
          reads,        \* [Client -> SUBSET Address], the addresses of the open snapshot
          seen,         \* [Client -> [Address -> Value \cup {Absent}]], what it read there
          stale,        \* [Client -> SUBSET Address], read addresses written since
          reply         \* [Client -> Reply], what the last commit told the client

vars == <<value, reads, seen, stale, reply>>

Reply == {"none", "committed", "conflict", "rejected"}

Nothing == [a \in Address |-> Absent]

(* After the addresses of W have been written, they are stale in every open *)
(* snapshot that read them.                                                 *)
Outdate(W) == [c \in Client |-> stale[c] \cup (W \cap reads[c])]

Init ==
    /\ value = Nothing
    /\ reads = [c \in Client |-> {}]
    /\ seen = [c \in Client |-> Nothing]
    /\ stale = [c \in Client |-> {}]
    /\ reply = [c \in Client |-> "none"]

Read(c, A) ==
    /\ reads' = [reads EXCEPT ![c] = A]
    /\ seen' = [seen EXCEPT ![c] = [a \in Address |-> IF a \in A THEN value[a] ELSE Absent]]
    /\ stale' = [stale EXCEPT ![c] = {}]
    /\ reply' = [reply EXCEPT ![c] = "none"]
    /\ UNCHANGED value

(* A write outside any transaction: set, delete, clear, or the isolation of *)
(* a damaged record.                                                        *)
Overwrite(W, new) ==
    /\ value' = [a \in Address |-> IF a \in W THEN new[a] ELSE value[a]]
    /\ stale' = Outdate(W)
    /\ UNCHANGED <<reads, seen, reply>>

(* The commit applies only while the whole snapshot is current; its answer *)
(* may be lost.                                                             *)
Commit(c, W, new) ==
    /\ W # {} /\ W \subseteq reads[c]
    /\ stale[c] = {}
    /\ value' = [a \in Address |-> IF a \in W THEN new[a] ELSE value[a]]
    /\ stale' = [Outdate(W) EXCEPT ![c] = {}]
    /\ reply' \in {[reply EXCEPT ![c] = r] : r \in {"committed", "rejected"}}
    /\ reads' = [reads EXCEPT ![c] = {}]
    /\ seen' = [seen EXCEPT ![c] = Nothing]

(* A refusal changes nothing, and a definite conflict is only reported for *)
(* a snapshot that really is out of date.                                   *)
Refuse(c) ==
    /\ reads[c] # {}
    /\ \E r \in {"conflict", "rejected"} :
          /\ r = "conflict" => stale[c] # {}
          /\ reply' = [reply EXCEPT ![c] = r]
    /\ reads' = [reads EXCEPT ![c] = {}]
    /\ seen' = [seen EXCEPT ![c] = Nothing]
    /\ stale' = [stale EXCEPT ![c] = {}]
    /\ UNCHANGED value

(* The process that holds the store restarts: every snapshot is gone.       *)
Restart ==
    /\ value' = [a \in Address |-> IF a \in SessionOnly THEN Absent ELSE value[a]]
    /\ reads' = [c \in Client |-> {}]
    /\ seen' = [c \in Client |-> Nothing]
    /\ stale' = [c \in Client |-> {}]
    /\ reply' = [c \in Client |-> "none"]

Next ==
    \/ \E c \in Client, A \in SUBSET Address : Read(c, A)
    \/ \E W \in SUBSET Address : \E new \in [W -> Value \cup {Absent}] : Overwrite(W, new)
    \/ \E c \in Client, W \in SUBSET Address :
          \E new \in [W -> Value \cup {Absent}] : Commit(c, W, new)
    \/ \E c \in Client : Refuse(c)
    \/ Restart

Spec == Init /\ [][Next]_vars
=============================================================================
