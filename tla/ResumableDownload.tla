------------------------- MODULE ResumableDownload -------------------------
(***************************************************************************)
(* The resumable download of a desktop update                              *)
(* (desktop/src/main/resumable-downloader.ts): a partial file, a journal   *)
(* that says how much of it is durable and which release it came from, and *)
(* a finished file. Releases may share the asset's name, so a file found   *)
(* on disk may belong to another release. The program or the machine may   *)
(* stop between any two steps; what was not synced may then be lost, be    *)
(* complete, or end in junk.                                               *)
(*                                                                         *)
(* A byte is the content it comes from and its position there. The server  *)
(* is external: it may serve any content, honour a range or not, name a    *)
(* validator or not, and end a body early or send too much. Left out:      *)
(* pause and retry counters of the journal (module UpdateCoordinator), the *)
(* free-space check, redirects and file-type checks, which only refuse.    *)
(***************************************************************************)
EXTENDS Naturals, Sequences

CONSTANTS Contents,      \* a release is named by its approved content
          Size,          \* the length of each content
          Junk,          \* a byte that a crash left unwritten
          None

ASSUME SizeAssumption == Size \in [Contents -> Nat \ {0}]

Byte == (Contents \X Nat) \cup {Junk}
PartFile == [bytes : Seq(Byte), synced : Nat]     \* synced: how many bytes a crash leaves
Journal == [desc : Contents, bytes : Nat, validator : Contents \cup {None},
            state : {"partial", "verified"}]

ASSUME NoneAssumption == None \notin Contents \cup Journal \cup PartFile
ASSUME JunkAssumption == Junk \notin Contents \X Nat

VARIABLES journal,       \* the durable journal, or None
          part,          \* the partial file, or None
          ready,         \* the finished file, or None
          stage          \* the stage in memory

vars == <<journal, part, ready, stage>>

Idle == [pc |-> "idle", desc |-> None, offset |-> 0, written |-> 0, body |-> None, next |-> None]
Whole(c) == [i \in 1..Size[c] |-> <<c, i>>]
FileSize(f) == IF f = None THEN 0 ELSE Len(f.bytes)
NewJournal(d) == [desc |-> d, bytes |-> 0, validator |-> None, state |-> "partial"]
ResetJournal(j) == [j EXCEPT !.state = "partial", !.bytes = 0, !.validator = None]
Goto(pc) == stage' = [stage EXCEPT !.pc = pc]

TypeOK ==
    /\ journal # None => journal \in Journal /\ journal.bytes <= Size[journal.desc]
    /\ part # None => part \in PartFile /\ part.synced <= Len(part.bytes)
    /\ stage.desc \in Contents \cup {None} /\ stage.body \in Contents \cup {None}
    /\ stage.pc \in {"idle", "discarding", "prepared", "part", "quarantine", "truncate", "reset",
                     "request", "receive", "sync", "checkpoint", "verify", "rename", "finish",
                     "rejecting"}
    /\ stage.desc # None =>
          stage.offset \in 0..Size[stage.desc] /\ stage.written \in stage.offset..Size[stage.desc]

Init ==
    /\ journal = None /\ part = None /\ ready = None
    /\ stage = Idle

-----------------------------------------------------------------------------
(* Only one stage or cache operation is active.                             *)

(* stage: the journal of the same release is kept, that of another is       *)
(* discarded with its files.                                                *)
Start(d) ==
    /\ stage.pc = "idle"
    /\ IF journal # None /\ journal.desc # d
       THEN /\ stage' = [Idle EXCEPT !.pc = "discarding", !.desc = d]
            /\ UNCHANGED journal
       ELSE /\ stage' = [Idle EXCEPT !.pc = "prepared", !.desc = d]
            /\ journal' = IF journal = None THEN NewJournal(d) ELSE journal
    /\ UNCHANGED <<part, ready>>

(* The coordinator discards a download.                                     *)
Discard ==
    /\ stage.pc = "idle"
    /\ stage' = [Idle EXCEPT !.pc = "discarding"]
    /\ UNCHANGED <<journal, part, ready>>

(* discardJournalFiles: without a journal the files are not known. For      *)
(* another release, its new journal follows.                                *)
DiscardFiles ==
    /\ stage.pc = "discarding"
    /\ IF journal # None THEN part' = None /\ ready' = None ELSE UNCHANGED <<part, ready>>
    /\ IF stage.desc = None
       THEN journal' = None /\ stage' = Idle
       ELSE journal' = NewJournal(stage.desc) /\ Goto("prepared")

(* readJournal sets aside a journal that expired or does not parse.         *)
JournalSetAside ==
    /\ stage.pc = "idle" /\ journal # None
    /\ journal' = None
    /\ UNCHANGED <<part, ready, stage>>

(* cleanupExpiredUpdateStorage: files that no journal protects.             *)
CleanupExpired ==
    /\ stage.pc = "idle" /\ journal = None
    /\ \/ part' = None /\ UNCHANGED ready
       \/ ready' = None /\ UNCHANGED part
    /\ UNCHANGED <<journal, stage>>

-----------------------------------------------------------------------------
(* A finished file is hashed and reused, or rejected.                       *)
ReuseReady ==
    /\ stage.pc = "prepared" /\ ready # None
    /\ IF ready = Whole(stage.desc)
       THEN /\ journal' = [journal EXCEPT !.state = "verified", !.bytes = Size[stage.desc]]
            /\ stage' = Idle
       ELSE Goto("rejecting") /\ UNCHANGED journal
    /\ UNCHANGED <<part, ready>>

NoReady ==
    /\ stage.pc = "prepared" /\ ready = None
    /\ Goto("part")
    /\ UNCHANGED <<journal, part, ready>>

(* What a partial file is good for.                                         *)
Foreign ==
    \/ FileSize(part) > Size[stage.desc]
    \/ FileSize(part) > 0 /\ journal.validator = None
    \/ FileSize(part) < journal.bytes

\* Faulty variant: bytes past the checkpoint are kept.
CheckPartKeepingTail ==
    /\ stage.pc = "part"
    /\ LET size == FileSize(part) IN
       stage' = [stage EXCEPT !.pc = IF Foreign THEN "quarantine"
                                     ELSE IF size = Size[stage.desc] THEN "verify" ELSE "request",
                              !.offset = IF Foreign THEN 0 ELSE size,
                              !.written = IF Foreign THEN 0 ELSE size]
    /\ UNCHANGED <<journal, part, ready>>

CheckPart ==
    /\ stage.pc = "part"
    /\ stage' = [stage EXCEPT
          !.pc = IF Foreign THEN "quarantine"
                 ELSE IF FileSize(part) > journal.bytes THEN "truncate"
                 ELSE IF journal.bytes = Size[stage.desc] THEN "verify" ELSE "request",
          !.offset = IF Foreign THEN 0 ELSE journal.bytes,
          !.written = IF Foreign THEN 0 ELSE journal.bytes]
    /\ UNCHANGED <<journal, part, ready>>

(* truncatePartial: the bytes after the durable checkpoint are dropped.     *)
Truncate ==
    /\ stage.pc = "truncate"
    /\ part' = [bytes |-> SubSeq(part.bytes, 1, stage.offset), synced |-> stage.offset]
    /\ Goto(IF stage.offset = Size[stage.desc] THEN "verify" ELSE "request")
    /\ UNCHANGED <<journal, ready>>

(* The file is renamed away; an empty one is left. Then the journal says    *)
(* so, and the download starts over.                                        *)
Quarantine ==
    /\ stage.pc = "quarantine"
    /\ part' = IF FileSize(part) > 0 THEN None ELSE part
    /\ Goto("reset")
    /\ UNCHANGED <<journal, ready>>

Reset ==
    /\ stage.pc = "reset"
    /\ journal' = ResetJournal(journal)
    /\ Goto("request")
    /\ UNCHANGED <<part, ready>>

-----------------------------------------------------------------------------
(* download: a response that serves content c, as a part or whole, under    *)
(* validator v.                                                             *)

Partial(status, c, v) ==
    /\ status = 206 /\ stage.offset > 0
    /\ Size[c] = Size[stage.desc]
Resumes(status, c, v) == Partial(status, c, v) /\ journal.validator # None /\ v = journal.validator

\* Faulty variant: the old offset is kept.
StartOverAtOffset(status, c, v) ==
    /\ stage.pc = "request" /\ stage.offset > 0
    /\ status = 200 \/ (Partial(status, c, v) /\ ~Resumes(status, c, v))
    /\ Goto("quarantine")
    /\ UNCHANGED <<journal, part, ready>>

(* The range was ignored, or the asset is another one by now.               *)
StartOver(status, c, v) ==
    /\ stage.pc = "request" /\ stage.offset > 0
    /\ status = 200 \/ (Partial(status, c, v) /\ ~Resumes(status, c, v))
    /\ stage' = [stage EXCEPT !.pc = "quarantine", !.offset = 0, !.written = 0]
    /\ UNCHANGED <<journal, part, ready>>

(* The journal takes the validator, then the file is opened: truncated for  *)
(* a new download, for appending otherwise.                                 *)
Accept(status, c, v, declared) ==
    /\ stage.pc = "request"
    /\ IF stage.offset = 0 THEN status = 200 ELSE Resumes(status, c, v)
    /\ declared => Size[c] = Size[stage.desc]
    /\ journal' = IF stage.offset = 0 THEN [journal EXCEPT !.validator = v] ELSE journal
    /\ part' = IF stage.offset = 0 THEN [bytes |-> <<>>, synced |-> 0] ELSE part
    /\ stage' = [stage EXCEPT !.pc = "receive", !.body = c]
    /\ UNCHANGED ready

(* The journal is written, the file cannot be opened.                       *)
OpenFails(v) ==
    /\ stage.pc = "request"
    /\ journal' = IF stage.offset = 0 THEN [journal EXCEPT !.validator = v] ELSE journal
    /\ stage' = Idle
    /\ UNCHANGED <<part, ready>>

(* A body with a content encoding, or a status, range or length that cannot *)
(* be that of the approved release.                                         *)
ProtocolError ==
    /\ stage.pc = "request"
    /\ Goto("rejecting")
    /\ UNCHANGED <<journal, part, ready>>

(* Refused, rate limited, timed out, aborted, unreadable, or no space left. *)
Fails ==
    /\ stage.pc \in {"prepared", "part", "request", "verify"}
    /\ stage' = Idle
    /\ UNCHANGED <<journal, part, ready>>

-----------------------------------------------------------------------------
(* The body. A checkpoint syncs the file and then writes its length to the  *)
(* journal; next is what follows it.                                        *)

Checkpoint(next) == stage' = [stage EXCEPT !.pc = "sync", !.next = next]

\* Faulty variant: the body may exceed the approved size.
ReceiveAnyByte ==
    /\ stage.pc = "receive"
    /\ stage.written < Size[stage.body]
    /\ part' = [part EXCEPT !.bytes = Append(@, <<stage.body, stage.written + 1>>)]
    /\ stage' = [stage EXCEPT !.written = @ + 1]
    /\ UNCHANGED <<journal, ready>>

ReceiveByte ==
    /\ stage.pc = "receive"
    /\ stage.written < Size[stage.body] /\ stage.written < Size[stage.desc]
    /\ part' = [part EXCEPT !.bytes = Append(@, <<stage.body, stage.written + 1>>)]
    /\ stage' = [stage EXCEPT !.written = @ + 1]
    /\ UNCHANGED <<journal, ready>>

PeriodicCheckpoint ==
    /\ stage.pc = "receive" /\ stage.written > journal.bytes
    /\ Checkpoint("receive")
    /\ UNCHANGED <<journal, part, ready>>

Oversized ==
    /\ stage.pc = "receive"
    /\ stage.written = Size[stage.desc] /\ Size[stage.body] > Size[stage.desc]
    /\ Checkpoint("rejecting")
    /\ UNCHANGED <<journal, part, ready>>

(* The body ends where it ends.                                             *)
BodyEnds ==
    /\ stage.pc = "receive"
    /\ Checkpoint(IF stage.written = Size[stage.desc] THEN "verify" ELSE "idle")
    /\ UNCHANGED <<journal, part, ready>>

(* Idle timeout, abort, lost connection: what was written is kept by a last *)
(* checkpoint. A write that fails may leave bytes that are not counted.     *)
Interrupted ==
    /\ stage.pc = "receive"
    /\ Checkpoint("idle")
    /\ UNCHANGED <<journal, part, ready>>

WriteFails ==
    /\ stage.pc = "receive"
    /\ stage.written < Size[stage.body] /\ stage.written < Size[stage.desc]
    /\ part' = [part EXCEPT !.bytes = Append(@, <<stage.body, stage.written + 1>>)]
    /\ Checkpoint("idle")
    /\ UNCHANGED <<journal, ready>>

\* Faulty variant: the journal is written before the file is synced.
SyncPartLate ==
    /\ stage.pc = "sync"
    /\ journal' = [journal EXCEPT !.bytes = stage.written]
    /\ Goto("checkpoint")
    /\ UNCHANGED <<part, ready>>

SyncPart ==
    /\ stage.pc = "sync"
    /\ part' = [part EXCEPT !.synced = Len(part.bytes)]
    /\ Goto("checkpoint")
    /\ UNCHANGED <<journal, ready>>

After(next) == IF next = "idle" THEN stage' = Idle ELSE Goto(next)

SaveBytes ==
    /\ stage.pc = "checkpoint"
    /\ journal' = [journal EXCEPT !.bytes = stage.written]
    /\ After(stage.next)
    /\ UNCHANGED <<part, ready>>

(* A checkpoint of the running body that fails interrupts it; the last one  *)
(* may fail.                                                                *)
CheckpointFails ==
    /\ stage.pc \in {"sync", "checkpoint"}
    /\ IF stage.next \in {"receive", "verify"} THEN Checkpoint("idle") ELSE After(stage.next)
    /\ UNCHANGED <<journal, part, ready>>

-----------------------------------------------------------------------------
(* The finished part is hashed, renamed and recorded.                       *)
Verify ==
    /\ stage.pc = "verify"
    /\ Goto(IF part.bytes = Whole(stage.desc) THEN "rename" ELSE "rejecting")
    /\ UNCHANGED <<journal, part, ready>>

Rename ==
    /\ stage.pc = "rename"
    /\ ready' = part.bytes /\ part' = None
    /\ Goto("finish")
    /\ UNCHANGED journal

Finish ==
    /\ stage.pc = "finish"
    /\ journal' = [journal EXCEPT !.state = "verified", !.bytes = Size[stage.desc]]
    /\ stage' = Idle
    /\ UNCHANGED <<part, ready>>

(* quarantineCurrent, after an error that no retry can mend.                *)
Reject ==
    /\ stage.pc = "rejecting"
    /\ part' = None /\ ready' = None /\ journal' = None
    /\ stage' = Idle

(* The program or the machine stops. Synced bytes stay; of the others any   *)
(* number stays, and as junk those that were allocated but not written. Of  *)
(* files being removed any subset is gone.                                  *)
Crash ==
    /\ stage.pc # "idle"
    /\ stage' = Idle
    /\ IF stage.pc \in {"discarding", "rejecting"}
       THEN /\ part' \in {part, None} /\ ready' \in {ready, None} /\ journal' \in {journal, None}
       ELSE /\ UNCHANGED <<ready, journal>>
            /\ IF part = None THEN part' = None
               ELSE \E kept \in part.synced..Len(part.bytes) : \E size \in kept..Len(part.bytes) :
                       part' = [part EXCEPT
                          !.bytes = [i \in 1..size |-> IF i <= kept THEN @[i] ELSE Junk]]

-----------------------------------------------------------------------------
Respond ==
    \E status \in {200, 206}, c \in Contents, v \in Contents \cup {None} :
       /\ v \in {c, None}
       /\ \/ StartOver(status, c, v)
          \/ \E declared \in BOOLEAN : Accept(status, c, v, declared)
          \/ OpenFails(v)

StageStep ==
    \/ DiscardFiles \/ ReuseReady \/ NoReady \/ CheckPart \/ Truncate \/ Quarantine \/ Reset
    \/ Respond \/ ProtocolError \/ Fails
    \/ ReceiveByte \/ PeriodicCheckpoint \/ Oversized \/ BodyEnds \/ Interrupted \/ WriteFails
    \/ SyncPart \/ SaveBytes \/ CheckpointFails
    \/ Verify \/ Rename \/ Finish \/ Reject

Next ==
    \/ \E d \in Contents : Start(d)
    \/ Discard \/ JournalSetAside \/ CleanupExpired
    \/ StageStep
    \/ Crash

Spec == Init /\ [][Next]_vars

(* A stage's own steps end: reads time out, bodies are bounded, and every   *)
(* request is made at most twice. Nothing need start a stage.               *)
FairSpec == Spec /\ WF_vars(StageStep)

-----------------------------------------------------------------------------
(* Everything the journal vouches for, and everything a running download    *)
(* has written, is the beginning of one content, each byte at its place,    *)
(* and of the content the journal's validator names: a resumed file never   *)
(* mixes two releases, whatever the server serves in between, and no bytes  *)
(* of a crash's tail survive inside it (stage 462-488, download 811-872).   *)
Good == IF stage.pc \in {"receive", "sync", "checkpoint", "verify"} THEN stage.written
        ELSE journal.bytes
BytesInPlace ==
    part # None /\ journal # None /\ stage.pc \notin {"discarding", "quarantine", "reset"} =>
       \E c \in Contents :
          /\ journal.validator \in {c, None}
          /\ \A i \in 1..Good : i <= Len(part.bytes) => part.bytes[i] = <<c, i>>

(* The journal never counts a byte that a crash could take back: as long    *)
(* as a partial file is there, the durable part of it is at least what the  *)
(* journal says, so a crash costs only the bytes since the last checkpoint  *)
(* and never the whole download (checkpoint 877-892, stage 474-482).       *)
CheckpointIsDurable ==
    part # None /\ journal # None => journal.bytes <= part.synced

(* A stage that began ends, in a finished file or an error, also when the   *)
(* server ignores ranges or changes the asset under it (download 811-840).  *)
StageEnds == stage.pc # "idle" ~> stage.pc = "idle"
=============================================================================
