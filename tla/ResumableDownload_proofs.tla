---------------------- MODULE ResumableDownload_proofs ----------------------
(***************************************************************************)
(* Proofs about ResumableDownload: whatever the server serves and wherever *)
(* the machine stops, what is on disk can be resumed, for any set of       *)
(* releases of any sizes.                                                  *)
(*                                                                         *)
(* The two properties are not inductive. That a file never mixes contents  *)
(* needs to know, while a body is received, which content it comes from    *)
(* and that the file is exactly as long as what was written (Receiving),   *)
(* and before the request that the file was cut to its checkpoint          *)
(* (Positions); that a checkpoint is durable needs the order in which      *)
(* file and journal are written (Receiving). One lemma per action.         *)
(***************************************************************************)
EXTENDS ResumableDownload, TLAPS

-----------------------------------------------------------------------------
(* The inductive invariant.                                                 *)

Stage == [pc : {"idle", "discarding", "prepared", "part", "quarantine", "truncate", "reset",
                "request", "receive", "sync", "checkpoint", "verify", "rename", "finish",
                "rejecting"},
          desc : Contents \cup {None}, offset : Nat, written : Nat, body : Contents \cup {None},
          next : {"receive", "verify", "idle", "rejecting", None}]

JournalOK == journal # None => journal \in Journal /\ journal.bytes <= Size[journal.desc]
PartOK == part # None => part \in PartFile /\ part.synced <= Len(part.bytes)

InPlace(c, n) == \A i \in 1..n : i <= Len(part.bytes) => part.bytes[i] = <<c, i>>

(* What the journal counts is durable and comes from one content.           *)
Durable ==
    part # None /\ journal # None =>
        /\ journal.bytes <= part.synced
        /\ \E c \in Contents : journal.validator \in {c, None} /\ InPlace(c, journal.bytes)

(* A stage that has passed its first step works on its release's journal.   *)
Active == stage.pc \notin {"idle", "discarding"} =>
    /\ journal \in Journal /\ journal.bytes <= Size[journal.desc]
    /\ stage.desc \in Contents /\ stage.desc = journal.desc

NoFinishedFile ==
    /\ ready # None => part = None
    /\ stage.pc \in {"part", "quarantine", "truncate", "reset", "request", "receive", "sync",
                     "checkpoint", "verify", "rename"} => ready = None

(* How far the file, the journal and the stage in memory agree.             *)
Positions ==
    /\ stage.pc \in {"quarantine", "reset"} => stage.offset = 0 /\ stage.written = 0
    /\ stage.pc = "reset" /\ part # None => Len(part.bytes) = 0
    /\ stage.pc \in {"truncate", "request"} =>
          stage.offset = journal.bytes /\ stage.written = journal.bytes
    /\ stage.pc = "truncate" => part \in PartFile /\ Len(part.bytes) > stage.offset
    /\ stage.pc = "request" /\ stage.offset > 0 => part \in PartFile /\ Len(part.bytes) = stage.offset
    /\ stage.pc = "verify" => stage.written = journal.bytes /\ part \in PartFile
    /\ stage.pc = "finish" => part = None

(* The body that is being received.                                         *)
Receiving == stage.pc \in {"receive", "sync", "checkpoint"} =>
    /\ part \in PartFile /\ part.synced <= Len(part.bytes)
    /\ stage.body \in Contents /\ journal.validator \in {stage.body, None}
    /\ InPlace(stage.body, stage.written)
    /\ journal.bytes <= stage.written /\ stage.written <= Size[stage.desc]
    /\ journal.bytes <= part.synced /\ stage.written <= Len(part.bytes)
    /\ stage.pc = "receive" => Len(part.bytes) = stage.written
    /\ stage.pc = "checkpoint" => stage.written <= part.synced
    /\ stage.pc # "receive" =>
          /\ stage.next \in {"receive", "verify", "idle", "rejecting"}
          /\ stage.next = "receive" => Len(part.bytes) = stage.written

(* Where the stage is in the approved content.                              *)
Bounds == stage.desc # None =>
    stage.offset <= stage.written /\ stage.written <= Size[stage.desc]

RInv ==
    /\ stage \in Stage
    /\ JournalOK /\ PartOK /\ Durable /\ Active /\ NoFinishedFile /\ Positions /\ Receiving
    /\ Bounds

(* The first state: nothing on disk, no stage.                              *)
LEMMA InitRInv == Init => RInv
<1> USE NoneAssumption DEF Init, Idle
<1>1. Init => stage \in Stage
  BY DEF Stage
<1>2. Init => JournalOK /\ PartOK /\ Durable /\ Active /\ NoFinishedFile
  BY DEF JournalOK, PartOK, Durable, Active, NoFinishedFile
<1>3. Init => Positions /\ Receiving /\ Bounds
  BY DEF Positions, Receiving, Bounds
<1>4. QED BY <1>1, <1>2, <1>3 DEF RInv

-----------------------------------------------------------------------------
(* Each action keeps it.                                                    *)

(* A stage keeps the journal of its release or goes to discard another's.   *)
LEMMA StartKeeps ==
  ASSUME RInv, NEW d \in Contents, Start(d)
  PROVE  RInv'
<1> USE SizeAssumption, NoneAssumption DEF RInv, Start, NewJournal
<1>i. Idle \in Stage /\ Idle.offset = 0 /\ Idle.written = 0
  BY DEF Idle, Stage
<1>a. CASE journal # None /\ journal.desc # d
  <2>1. /\ stage' \in Stage /\ stage'.pc = "discarding" /\ stage'.desc = d
        /\ stage'.offset = 0 /\ stage'.written = 0
    BY <1>a, <1>i DEF Stage
  <2>2. QED BY <1>a, <2>1 DEF JournalOK, PartOK, Durable, InPlace, Active, NoFinishedFile, Positions, Receiving, Bounds
<1>b. CASE ~(journal # None /\ journal.desc # d)
  <2>1. /\ stage' \in Stage /\ stage'.pc = "prepared" /\ stage'.desc = d
        /\ stage'.offset = 0 /\ stage'.written = 0
    BY <1>b, <1>i DEF Stage
  <2>2. /\ journal' \in Journal /\ journal'.desc = d
        /\ journal # None => journal' = journal
        /\ journal = None => journal'.bytes = 0 /\ journal'.validator = None
    BY <1>b DEF JournalOK, Journal
  <2>3. JournalOK' /\ Durable' /\ Active'
    BY <1>b, <2>1, <2>2 DEF JournalOK, PartOK, PartFile, Durable, InPlace, Active
  <2>4. QED BY <1>b, <2>1, <2>2, <2>3 DEF PartOK, NoFinishedFile, Positions, Receiving, Bounds
<1>q. QED BY <1>a, <1>b

(* Discard keeps the invariant.                                             *)
LEMMA DiscardKeeps ==
  ASSUME RInv, Discard
  PROVE  RInv'
<1> USE SizeAssumption, NoneAssumption DEF RInv, Discard, Idle
<1>1. stage' \in Stage
  BY DEF Stage
<1>2. JournalOK'
  BY DEF JournalOK
<1>3. PartOK'
  BY DEF PartOK
<1>4. Durable'
  BY DEF Durable, InPlace
<1>5. Active'
  BY DEF Active
<1>6. NoFinishedFile'
  BY DEF NoFinishedFile
<1>7. Positions'
  BY DEF Positions
<1>8. Receiving'
  BY DEF Receiving
<1>9. Bounds'
  BY DEF Bounds
<1>10. QED BY <1>1, <1>2, <1>3, <1>4, <1>5, <1>6, <1>7, <1>8, <1>9

(* A discarded journal leaves nothing, or a new journal that counts nothing.*)
LEMMA DiscardFilesKeeps ==
  ASSUME RInv, DiscardFiles
  PROVE  RInv'
<1> USE SizeAssumption, NoneAssumption DEF RInv, DiscardFiles, Idle, NewJournal, Goto
<1>a. stage.desc # None => journal' \in Journal /\ journal'.bytes = 0 /\ journal'.validator = None
  BY DEF Journal, Stage
<1>1. stage' \in Stage
  BY DEF Stage
<1>2. JournalOK'
  BY <1>a DEF JournalOK, Journal
<1>3. PartOK'
  BY DEF PartOK
<1>4. Durable'
  BY DEF Durable, InPlace, PartOK, PartFile, Stage
<1>5. Active'
  BY DEF Active, Journal, Stage
<1>6. NoFinishedFile'
  BY DEF NoFinishedFile, Stage
<1>7. Positions'
  BY DEF Positions, Stage
<1>8. Receiving'
  BY DEF Receiving, Stage
<1>9. Bounds'
  BY DEF Bounds, Stage
<1>10. QED BY <1>1, <1>2, <1>3, <1>4, <1>5, <1>6, <1>7, <1>8, <1>9

(* JournalSetAside keeps the invariant.                                     *)
LEMMA JournalSetAsideKeeps ==
  ASSUME RInv, JournalSetAside
  PROVE  RInv'
<1> USE SizeAssumption, NoneAssumption DEF RInv, JournalSetAside
<1>1. stage' \in Stage
  BY DEF Stage
<1>2. JournalOK'
  BY DEF JournalOK
<1>3. PartOK'
  BY DEF PartOK
<1>4. Durable'
  BY DEF Durable
<1>5. Active'
  BY DEF Active
<1>6. NoFinishedFile'
  BY DEF NoFinishedFile
<1>7. Positions'
  BY DEF Positions
<1>8. Receiving'
  BY DEF Receiving
<1>9. Bounds'
  BY DEF Bounds
<1>10. QED BY <1>1, <1>2, <1>3, <1>4, <1>5, <1>6, <1>7, <1>8, <1>9

(* CleanupExpired keeps the invariant.                                      *)
LEMMA CleanupExpiredKeeps ==
  ASSUME RInv, CleanupExpired
  PROVE  RInv'
<1> USE SizeAssumption, NoneAssumption DEF RInv, CleanupExpired
<1>1. stage' \in Stage
  BY DEF Stage
<1>2. JournalOK'
  BY DEF JournalOK
<1>3. PartOK'
  BY DEF PartOK
<1>4. Durable'
  BY DEF Durable
<1>5. Active'
  BY DEF Active
<1>6. NoFinishedFile'
  BY DEF NoFinishedFile
<1>7. Positions'
  BY DEF Positions
<1>8. Receiving'
  BY DEF Receiving
<1>9. Bounds'
  BY DEF Bounds
<1>10. QED BY <1>1, <1>2, <1>3, <1>4, <1>5, <1>6, <1>7, <1>8, <1>9

(* A finished file is reused only whole, when there is no partial file.     *)
LEMMA ReuseReadyKeeps ==
  ASSUME RInv, ReuseReady
  PROVE  RInv'
<1> USE SizeAssumption, NoneAssumption DEF RInv, ReuseReady, Idle, Goto
<1>a. /\ journal' \in Journal /\ journal'.desc = journal.desc
      /\ ready = Whole(stage.desc) => journal'.bytes = Size[stage.desc]
      /\ ready # Whole(stage.desc) => journal' = journal
  BY DEF Active, Journal
<1>b. part' = None
  BY DEF NoFinishedFile
<1>1. stage' \in Stage
  BY DEF Stage
<1>2. JournalOK'
  BY <1>a DEF JournalOK, Active
<1>3. PartOK'
  BY DEF PartOK
<1>4. Durable'
  BY <1>b DEF Durable
<1>5. Active'
  BY DEF Active, Stage
<1>6. NoFinishedFile'
  BY DEF NoFinishedFile, Stage
<1>7. Positions'
  BY DEF Positions, Stage
<1>8. Receiving'
  BY DEF Receiving, Stage
<1>9. Bounds'
  BY DEF Bounds, Stage
<1>10. QED BY <1>1, <1>2, <1>3, <1>4, <1>5, <1>6, <1>7, <1>8, <1>9

(* NoReady keeps the invariant.                                             *)
LEMMA NoReadyKeeps ==
  ASSUME RInv, NoReady
  PROVE  RInv'
<1> USE SizeAssumption, NoneAssumption DEF RInv, NoReady, Goto
<1>1. stage' \in Stage
  BY DEF Stage
<1>2. JournalOK'
  BY DEF JournalOK
<1>3. PartOK'
  BY DEF PartOK
<1>4. Durable'
  BY DEF Durable, InPlace
<1>5. Active'
  BY DEF Active
<1>6. NoFinishedFile'
  BY DEF NoFinishedFile
<1>7. Positions'
  BY DEF Positions
<1>8. Receiving'
  BY DEF Receiving
<1>9. Bounds'
  BY DEF Bounds
<1>10. QED BY <1>1, <1>2, <1>3, <1>4, <1>5, <1>6, <1>7, <1>8, <1>9

(* A partial file that passes the checks is at least as long as its journal *)
(* says.                                                                    *)
LEMMA CheckPartKeeps ==
  ASSUME RInv, CheckPart
  PROVE  RInv'
<1> USE SizeAssumption, NoneAssumption DEF RInv, CheckPart, Foreign, FileSize
<1>a. stage' \in Stage /\ stage'.desc = stage.desc
  BY DEF Stage, Active, Journal
<1>1. stage' \in Stage
  BY <1>a
<1>2. JournalOK'
  BY DEF JournalOK
<1>3. PartOK'
  BY DEF PartOK
<1>4. Durable'
  BY DEF Durable, InPlace
<1>5. Active'
  BY DEF Active
<1>6. NoFinishedFile'
  BY DEF NoFinishedFile
<1>7. Positions'
  BY DEF Positions, Active, Journal, PartOK
<1>8. Receiving'
  BY DEF Receiving
<1>9. Bounds'
  BY DEF Bounds, Active, Journal
<1>10. QED BY <1>1, <1>2, <1>3, <1>4, <1>5, <1>6, <1>7, <1>8, <1>9

(* The file is cut to its checkpoint and keeps what was before it.          *)
LEMMA TruncateKeeps ==
  ASSUME RInv, Truncate
  PROVE  RInv'
<1> USE SizeAssumption, NoneAssumption DEF RInv, Truncate, Goto
<1>a. /\ part \in PartFile /\ stage.offset \in Nat /\ stage.offset < Len(part.bytes)
      /\ part # None /\ stage.offset = journal.bytes /\ journal # None
  BY DEF Positions, Stage, PartFile, Active
<1>b. SubSeq(part.bytes, 1, stage.offset) \in Seq(Byte) /\ Len(SubSeq(part.bytes, 1, stage.offset)) = stage.offset
  BY <1>a DEF PartFile
<1>c. \A i \in 1..stage.offset : SubSeq(part.bytes, 1, stage.offset)[i] = part.bytes[i]
  BY <1>a DEF PartFile
<1>d. /\ part'.synced = stage.offset /\ part' \in PartFile /\ Len(part'.bytes) = stage.offset
      /\ \A i \in 1..stage.offset : part'.bytes[i] = part.bytes[i]
  BY <1>a, <1>b, <1>c DEF PartFile
<1>1. stage' \in Stage
  BY DEF Stage
<1>2. JournalOK'
  BY DEF JournalOK
<1>3. PartOK'
  BY <1>a, <1>d DEF PartOK
<1>4. Durable'
  <2>1. PICK c \in Contents : journal.validator \in {c, None} /\ InPlace(c, journal.bytes)
    BY <1>a DEF Durable
  <2>2. \A i \in 1..journal.bytes : part'.bytes[i] = <<c, i>>
    BY <1>a, <1>d, <2>1 DEF InPlace
  <2>3. InPlace(c, journal.bytes)'
    BY <2>2 DEF InPlace
  <2>4. journal' = journal /\ journal'.bytes <= part'.synced
    BY <1>a, <1>d
  <2>5. QED BY <2>1, <2>3, <2>4 DEF Durable
<1>5. Active'
  BY DEF Active
<1>6. NoFinishedFile'
  BY DEF NoFinishedFile
<1>7. Positions'
  BY <1>b, <1>d DEF Positions
<1>8. Receiving'
  BY DEF Receiving
<1>9. Bounds'
  BY DEF Bounds
<1>10. QED BY <1>1, <1>2, <1>3, <1>4, <1>5, <1>6, <1>7, <1>8, <1>9

(* Quarantine keeps the invariant.                                          *)
LEMMA QuarantineKeeps ==
  ASSUME RInv, Quarantine
  PROVE  RInv'
<1> USE SizeAssumption, NoneAssumption DEF RInv, Quarantine, Goto, FileSize
<1>1. stage' \in Stage
  BY DEF Stage
<1>2. JournalOK'
  BY DEF JournalOK
<1>3. PartOK'
  BY DEF PartOK
<1>4. Durable'
  BY DEF Durable, InPlace
<1>5. Active'
  BY DEF Active
<1>6. NoFinishedFile'
  BY DEF NoFinishedFile
<1>7. Positions'
  BY DEF Positions
<1>8. Receiving'
  BY DEF Receiving
<1>9. Bounds'
  BY DEF Bounds
<1>10. QED BY <1>1, <1>2, <1>3, <1>4, <1>5, <1>6, <1>7, <1>8, <1>9

(* Reset keeps the invariant.                                               *)
LEMMA ResetKeeps ==
  ASSUME RInv, Reset
  PROVE  RInv'
<1> USE SizeAssumption, NoneAssumption DEF RInv, Reset, ResetJournal, Goto
<1>a. /\ journal' \in Journal /\ journal'.desc = journal.desc /\ journal'.bytes = 0 /\ journal'.validator = None
  BY DEF Active, Journal
<1>1. stage' \in Stage
  BY DEF Stage
<1>2. JournalOK'
  BY <1>a DEF JournalOK, Active
<1>3. PartOK'
  BY DEF PartOK
<1>4. Durable'
  BY DEF Durable, InPlace, PartOK, Active, PartFile
<1>5. Active'
  BY <1>a DEF Active
<1>6. NoFinishedFile'
  BY DEF NoFinishedFile
<1>7. Positions'
  BY DEF Positions
<1>8. Receiving'
  BY DEF Receiving
<1>9. Bounds'
  BY DEF Bounds
<1>10. QED BY <1>1, <1>2, <1>3, <1>4, <1>5, <1>6, <1>7, <1>8, <1>9

(* StartOver keeps the invariant.                                           *)
LEMMA StartOverKeeps ==
  ASSUME RInv, NEW status, NEW c, NEW v, StartOver(status, c, v)
  PROVE  RInv'
<1> USE SizeAssumption, NoneAssumption DEF RInv, StartOver
<1>1. stage' \in Stage
  BY DEF Stage
<1>2. JournalOK'
  BY DEF JournalOK
<1>3. PartOK'
  BY DEF PartOK
<1>4. Durable'
  BY DEF Durable, InPlace
<1>5. Active'
  BY DEF Active
<1>6. NoFinishedFile'
  BY DEF NoFinishedFile
<1>7. Positions'
  BY DEF Positions
<1>8. Receiving'
  BY DEF Receiving
<1>9. Bounds'
  BY DEF Bounds, Stage
<1>10. QED BY <1>1, <1>2, <1>3, <1>4, <1>5, <1>6, <1>7, <1>8, <1>9

(* A body starts an empty file, or goes on at the checkpoint of its own     *)
(* content.                                                                 *)
LEMMA AcceptKeeps ==
  ASSUME RInv, NEW status, NEW c \in Contents, NEW v \in {c, None}, NEW declared \in BOOLEAN, Accept(status, c, v, declared)
  PROVE  RInv'
<1> USE SizeAssumption, NoneAssumption DEF RInv, Accept, Resumes, Partial
<1>1. stage' \in Stage
  BY DEF Stage
<1>2. JournalOK'
  BY DEF JournalOK, Active, Journal
<1>3. PartOK'
  BY DEF PartOK, PartFile
<1>4. Durable'
  BY DEF Durable, InPlace, Positions
<1>5. Active'
  BY DEF Active, Journal
<1>6. NoFinishedFile'
  BY DEF NoFinishedFile
<1>7. Positions'
  BY DEF Positions
<1>8. Receiving'
  BY DEF Receiving, InPlace, Durable, Positions, Active, PartOK, PartFile
<1>9. Bounds'
  BY DEF Bounds
<1>10. QED BY <1>1, <1>2, <1>3, <1>4, <1>5, <1>6, <1>7, <1>8, <1>9

(* OpenFails keeps the invariant.                                           *)
LEMMA OpenFailsKeeps ==
  ASSUME RInv, NEW c \in Contents, NEW v \in {c, None}, OpenFails(v)
  PROVE  RInv'
<1> USE SizeAssumption, NoneAssumption DEF RInv, OpenFails, Idle
<1>1. stage' \in Stage
  BY DEF Stage
<1>2. JournalOK'
  BY DEF JournalOK, Active, Journal
<1>3. PartOK'
  BY DEF PartOK
<1>4. Durable'
  BY DEF Durable, InPlace, Active, Positions
<1>5. Active'
  BY DEF Active
<1>6. NoFinishedFile'
  BY DEF NoFinishedFile
<1>7. Positions'
  BY DEF Positions
<1>8. Receiving'
  BY DEF Receiving
<1>9. Bounds'
  BY DEF Bounds
<1>10. QED BY <1>1, <1>2, <1>3, <1>4, <1>5, <1>6, <1>7, <1>8, <1>9

(* ProtocolError keeps the invariant.                                       *)
LEMMA ProtocolErrorKeeps ==
  ASSUME RInv, ProtocolError
  PROVE  RInv'
<1> USE SizeAssumption, NoneAssumption DEF RInv, ProtocolError, Goto
<1>1. stage' \in Stage
  BY DEF Stage
<1>2. JournalOK'
  BY DEF JournalOK
<1>3. PartOK'
  BY DEF PartOK
<1>4. Durable'
  BY DEF Durable, InPlace
<1>5. Active'
  BY DEF Active
<1>6. NoFinishedFile'
  BY DEF NoFinishedFile
<1>7. Positions'
  BY DEF Positions
<1>8. Receiving'
  BY DEF Receiving
<1>9. Bounds'
  BY DEF Bounds
<1>10. QED BY <1>1, <1>2, <1>3, <1>4, <1>5, <1>6, <1>7, <1>8, <1>9

(* Fails keeps the invariant.                                               *)
LEMMA FailsKeeps ==
  ASSUME RInv, Fails
  PROVE  RInv'
<1> USE SizeAssumption, NoneAssumption DEF RInv, Fails, Idle
<1>1. stage' \in Stage
  BY DEF Stage
<1>2. JournalOK'
  BY DEF JournalOK
<1>3. PartOK'
  BY DEF PartOK
<1>4. Durable'
  BY DEF Durable, InPlace
<1>5. Active'
  BY DEF Active
<1>6. NoFinishedFile'
  BY DEF NoFinishedFile
<1>7. Positions'
  BY DEF Positions
<1>8. Receiving'
  BY DEF Receiving
<1>9. Bounds'
  BY DEF Bounds
<1>10. QED BY <1>1, <1>2, <1>3, <1>4, <1>5, <1>6, <1>7, <1>8, <1>9

(* The next byte goes to its place, after those of the same body.           *)
LEMMA ReceiveByteKeeps ==
  ASSUME RInv, ReceiveByte
  PROVE  RInv'
<1> USE SizeAssumption, NoneAssumption DEF RInv, ReceiveByte
<1>a. /\ part \in PartFile /\ part # None /\ part.synced <= Len(part.bytes)
      /\ stage.written = Len(part.bytes) /\ <<stage.body, stage.written + 1>> \in Byte
      /\ journal # None /\ journal \in Journal
  BY DEF Receiving, Active, Stage, Byte
<1>n. Append(part.bytes, <<stage.body, stage.written + 1>>) \in Seq(Byte)
  BY <1>a DEF PartFile
<1>b. /\ part'.bytes = Append(part.bytes, <<stage.body, stage.written + 1>>)
      /\ part'.synced = part.synced /\ part' \in PartFile
  BY <1>a, <1>n DEF PartFile
<1>c. /\ Len(part'.bytes) = stage.written + 1
      /\ \A i \in 1..stage.written : part'.bytes[i] = part.bytes[i]
      /\ part'.bytes[stage.written + 1] = <<stage.body, stage.written + 1>>
  BY <1>a, <1>b DEF PartFile
<1>d. /\ stage' \in Stage /\ stage'.pc = "receive" /\ stage'.desc = stage.desc /\ stage'.body = stage.body
      /\ stage'.written = stage.written + 1 /\ stage'.offset = stage.offset
  BY DEF Stage
<1>1. stage' \in Stage
  BY DEF Stage
<1>2. JournalOK'
  BY DEF JournalOK
<1>3. PartOK'
  BY <1>a, <1>b, <1>c DEF PartOK, PartFile
<1>4. Durable'
  <2>1. /\ journal.bytes \in Nat /\ journal.bytes <= stage.written /\ journal.bytes <= part'.synced
        /\ stage.written \in Nat
    BY <1>a, <1>b DEF Receiving, Journal, Stage
  <2>2. PICK c \in Contents : journal.validator \in {c, None} /\ InPlace(c, journal.bytes)
    BY <1>a DEF Durable
  <2>3. \A i \in 1..journal.bytes : part'.bytes[i] = <<c, i>>
    BY <1>a, <1>c, <2>1, <2>2 DEF InPlace
  <2>4. QED BY <1>a, <1>b, <2>1, <2>2, <2>3 DEF Durable, InPlace
<1>5. Active'
  BY DEF Active
<1>6. NoFinishedFile'
  BY DEF NoFinishedFile
<1>7. Positions'
  BY DEF Positions
<1>8. Receiving'
  <2>1. stage.written \in Nat /\ stage.body \in Contents /\ journal.bytes \in Nat
    BY <1>a DEF Receiving, Stage, Journal
  <2>2. \A i \in 1..stage.written : part.bytes[i] = <<stage.body, i>>
    BY <1>a, <2>1 DEF Receiving, InPlace
  <2>3. InPlace(stage.body, stage.written)'
    BY <1>c, <1>d, <2>1, <2>2 DEF InPlace
  <2>4. /\ journal.validator \in {stage.body, None} /\ journal.bytes <= stage.written
        /\ stage.written + 1 <= Size[stage.desc] /\ journal.bytes <= part.synced
    BY <1>a DEF Receiving, Active, Stage
  <2>5. part' \in PartFile /\ part'.synced <= Len(part'.bytes)
    BY <1>a, <1>b, <1>c, <2>1 DEF PartFile
  <2>6. QED BY <1>a, <1>b, <1>c, <1>d, <2>1, <2>3, <2>4, <2>5 DEF Receiving
<1>9. Bounds'
  BY DEF Bounds, Stage
<1>10. QED BY <1>1, <1>2, <1>3, <1>4, <1>5, <1>6, <1>7, <1>8, <1>9

(* PeriodicCheckpoint keeps the invariant.                                  *)
LEMMA PeriodicCheckpointKeeps ==
  ASSUME RInv, PeriodicCheckpoint
  PROVE  RInv'
<1> USE SizeAssumption, NoneAssumption DEF RInv, PeriodicCheckpoint, Checkpoint
<1>1. stage' \in Stage
  BY DEF Stage
<1>2. JournalOK'
  BY DEF JournalOK
<1>3. PartOK'
  BY DEF PartOK
<1>4. Durable'
  BY DEF Durable, InPlace
<1>5. Active'
  BY DEF Active
<1>6. NoFinishedFile'
  BY DEF NoFinishedFile
<1>7. Positions'
  BY DEF Positions
<1>8. Receiving'
  BY DEF Receiving, InPlace
<1>9. Bounds'
  BY DEF Bounds
<1>10. QED BY <1>1, <1>2, <1>3, <1>4, <1>5, <1>6, <1>7, <1>8, <1>9

(* Oversized keeps the invariant.                                           *)
LEMMA OversizedKeeps ==
  ASSUME RInv, Oversized
  PROVE  RInv'
<1> USE SizeAssumption, NoneAssumption DEF RInv, Oversized, Checkpoint
<1>1. stage' \in Stage
  BY DEF Stage
<1>2. JournalOK'
  BY DEF JournalOK
<1>3. PartOK'
  BY DEF PartOK
<1>4. Durable'
  BY DEF Durable, InPlace
<1>5. Active'
  BY DEF Active
<1>6. NoFinishedFile'
  BY DEF NoFinishedFile
<1>7. Positions'
  BY DEF Positions
<1>8. Receiving'
  BY DEF Receiving, InPlace
<1>9. Bounds'
  BY DEF Bounds
<1>10. QED BY <1>1, <1>2, <1>3, <1>4, <1>5, <1>6, <1>7, <1>8, <1>9

(* BodyEnds keeps the invariant.                                            *)
LEMMA BodyEndsKeeps ==
  ASSUME RInv, BodyEnds
  PROVE  RInv'
<1> USE SizeAssumption, NoneAssumption DEF RInv, BodyEnds, Checkpoint
<1>1. stage' \in Stage
  BY DEF Stage
<1>2. JournalOK'
  BY DEF JournalOK
<1>3. PartOK'
  BY DEF PartOK
<1>4. Durable'
  BY DEF Durable, InPlace
<1>5. Active'
  BY DEF Active
<1>6. NoFinishedFile'
  BY DEF NoFinishedFile
<1>7. Positions'
  BY DEF Positions
<1>8. Receiving'
  BY DEF Receiving, InPlace
<1>9. Bounds'
  BY DEF Bounds
<1>10. QED BY <1>1, <1>2, <1>3, <1>4, <1>5, <1>6, <1>7, <1>8, <1>9

(* Interrupted keeps the invariant.                                         *)
LEMMA InterruptedKeeps ==
  ASSUME RInv, Interrupted
  PROVE  RInv'
<1> USE SizeAssumption, NoneAssumption DEF RInv, Interrupted, Checkpoint
<1>1. stage' \in Stage
  BY DEF Stage
<1>2. JournalOK'
  BY DEF JournalOK
<1>3. PartOK'
  BY DEF PartOK
<1>4. Durable'
  BY DEF Durable, InPlace
<1>5. Active'
  BY DEF Active
<1>6. NoFinishedFile'
  BY DEF NoFinishedFile
<1>7. Positions'
  BY DEF Positions
<1>8. Receiving'
  BY DEF Receiving, InPlace
<1>9. Bounds'
  BY DEF Bounds
<1>10. QED BY <1>1, <1>2, <1>3, <1>4, <1>5, <1>6, <1>7, <1>8, <1>9

(* A failed write may leave a byte that nothing counts.                     *)
LEMMA WriteFailsKeeps ==
  ASSUME RInv, WriteFails
  PROVE  RInv'
<1> USE SizeAssumption, NoneAssumption DEF RInv, WriteFails, Checkpoint
<1>a. /\ part \in PartFile /\ part # None /\ part.synced <= Len(part.bytes)
      /\ stage.written = Len(part.bytes) /\ <<stage.body, stage.written + 1>> \in Byte
      /\ journal # None /\ journal \in Journal
  BY DEF Receiving, Active, Stage, Byte
<1>n. Append(part.bytes, <<stage.body, stage.written + 1>>) \in Seq(Byte)
  BY <1>a DEF PartFile
<1>b. /\ part'.bytes = Append(part.bytes, <<stage.body, stage.written + 1>>)
      /\ part'.synced = part.synced /\ part' \in PartFile
  BY <1>a, <1>n DEF PartFile
<1>c. /\ Len(part'.bytes) = stage.written + 1
      /\ \A i \in 1..stage.written : part'.bytes[i] = part.bytes[i]
      /\ part'.bytes[stage.written + 1] = <<stage.body, stage.written + 1>>
  BY <1>a, <1>b DEF PartFile
<1>d. /\ stage' \in Stage /\ stage'.pc = "sync" /\ stage'.desc = stage.desc /\ stage'.body = stage.body
      /\ stage'.written = stage.written /\ stage'.offset = stage.offset /\ stage'.next = "idle"
  BY DEF Stage
<1>1. stage' \in Stage
  BY DEF Stage
<1>2. JournalOK'
  BY DEF JournalOK
<1>3. PartOK'
  BY <1>a, <1>b, <1>c DEF PartOK, PartFile
<1>4. Durable'
  <2>1. /\ journal.bytes \in Nat /\ journal.bytes <= stage.written /\ journal.bytes <= part'.synced
        /\ stage.written \in Nat
    BY <1>a, <1>b DEF Receiving, Journal, Stage
  <2>2. PICK c \in Contents : journal.validator \in {c, None} /\ InPlace(c, journal.bytes)
    BY <1>a DEF Durable
  <2>3. \A i \in 1..journal.bytes : part'.bytes[i] = <<c, i>>
    BY <1>a, <1>c, <2>1, <2>2 DEF InPlace
  <2>4. QED BY <1>a, <1>b, <2>1, <2>2, <2>3 DEF Durable, InPlace
<1>5. Active'
  BY DEF Active
<1>6. NoFinishedFile'
  BY DEF NoFinishedFile
<1>7. Positions'
  BY DEF Positions
<1>8. Receiving'
  BY <1>a, <1>b, <1>c, <1>d DEF Receiving, InPlace, Stage, Journal, PartFile
<1>9. Bounds'
  BY DEF Bounds
<1>10. QED BY <1>1, <1>2, <1>3, <1>4, <1>5, <1>6, <1>7, <1>8, <1>9

(* SyncPart keeps the invariant.                                            *)
LEMMA SyncPartKeeps ==
  ASSUME RInv, SyncPart
  PROVE  RInv'
<1> USE SizeAssumption, NoneAssumption DEF RInv, SyncPart, Goto
<1>a. /\ part \in PartFile /\ part # None /\ part.synced <= Len(part.bytes)
  BY DEF Receiving
<1>b. part' \in PartFile /\ part'.bytes = part.bytes /\ part'.synced = Len(part.bytes)
  BY <1>a DEF PartFile
<1>1. stage' \in Stage
  BY DEF Stage
<1>2. JournalOK'
  BY DEF JournalOK
<1>3. PartOK'
  BY <1>b DEF PartOK
<1>4. Durable'
  BY <1>b DEF Durable, InPlace, JournalOK, PartOK, Receiving, Journal, PartFile
<1>5. Active'
  BY DEF Active
<1>6. NoFinishedFile'
  BY DEF NoFinishedFile
<1>7. Positions'
  BY DEF Positions
<1>8. Receiving'
  BY DEF Receiving, InPlace, Active, Journal, PartFile
<1>9. Bounds'
  BY DEF Bounds
<1>10. QED BY <1>1, <1>2, <1>3, <1>4, <1>5, <1>6, <1>7, <1>8, <1>9

(* The journal counts what was synced.                                      *)
LEMMA SaveBytesKeeps ==
  ASSUME RInv, SaveBytes
  PROVE  RInv'
<1> USE SizeAssumption, NoneAssumption DEF RInv, SaveBytes, After, Goto, Idle
<1>a. /\ journal \in Journal /\ journal' \in Journal /\ journal'.desc = journal.desc
      /\ journal'.bytes = stage.written /\ journal'.validator = journal.validator
  BY DEF Active, Journal, Stage
<1>b. stage.next \in {"receive", "verify", "idle", "rejecting"}
  BY DEF Receiving
<1>c. stage' \in Stage
  BY <1>b DEF Stage
<1>d. \/ stage'.pc = "idle" /\ stage'.desc = None
      \/ /\ stage'.pc = stage.next /\ stage'.pc # "idle" /\ stage'.desc = stage.desc /\ stage'.body = stage.body
         /\ stage'.written = stage.written /\ stage'.offset = stage.offset
  BY <1>b DEF Stage
<1>1. stage' \in Stage
  BY <1>c
<1>2. JournalOK'
  BY <1>a DEF JournalOK, Active, Receiving
<1>3. PartOK'
  BY DEF PartOK
<1>4. Durable'
  BY <1>a DEF Durable, InPlace, Receiving
<1>5. Active'
  BY DEF Active, Journal, Stage, Receiving
<1>6. NoFinishedFile'
  BY DEF NoFinishedFile
<1>7. Positions'
  BY DEF Positions, Stage, Receiving
<1>8. Receiving'
  BY <1>d DEF Receiving, InPlace
<1>9. Bounds'
  BY <1>d DEF Bounds
<1>10. QED BY <1>1, <1>2, <1>3, <1>4, <1>5, <1>6, <1>7, <1>8, <1>9

(* CheckpointFails keeps the invariant.                                     *)
LEMMA CheckpointFailsKeeps ==
  ASSUME RInv, CheckpointFails
  PROVE  RInv'
<1> USE SizeAssumption, NoneAssumption DEF RInv, CheckpointFails, Checkpoint, After, Goto
<1>i. Idle \in Stage /\ Idle.pc = "idle" /\ Idle.desc = None
  BY DEF Idle, Stage
<1>b. stage.next \in {"receive", "verify", "idle", "rejecting"}
  BY DEF Receiving
<1>c. /\ stage' \in Stage
      /\ \/ stage'.pc = "idle" /\ stage'.desc = None
         \/ /\ \/ stage'.pc = "sync" /\ stage'.next = "idle"
               \/ stage'.pc = "rejecting"
            /\ stage'.desc = stage.desc /\ stage'.body = stage.body
            /\ stage'.written = stage.written /\ stage'.offset = stage.offset
  <2>1. CASE stage.next \in {"receive", "verify"}
    BY <2>1 DEF Stage
  <2>2. CASE stage.next = "idle"
    BY <2>2, <1>i
  <2>3. CASE stage.next = "rejecting"
    BY <2>3 DEF Stage
  <2>4. QED BY <1>b, <2>1, <2>2, <2>3
<1>1. stage' \in Stage
  BY <1>c
<1>2. JournalOK'
  BY DEF JournalOK
<1>3. PartOK'
  BY DEF PartOK
<1>4. Durable'
  BY DEF Durable, InPlace
<1>5. Active'
  BY <1>c DEF Active
<1>6. NoFinishedFile'
  BY DEF NoFinishedFile
<1>7. Positions'
  BY <1>c DEF Positions
<1>8. Receiving'
  BY <1>c DEF Receiving, InPlace
<1>9. Bounds'
  BY <1>c DEF Bounds
<1>10. QED BY <1>1, <1>2, <1>3, <1>4, <1>5, <1>6, <1>7, <1>8, <1>9

(* Verify keeps the invariant.                                              *)
LEMMA VerifyKeeps ==
  ASSUME RInv, Verify
  PROVE  RInv'
<1> USE SizeAssumption, NoneAssumption DEF RInv, Verify, Goto
<1>1. stage' \in Stage
  BY DEF Stage
<1>2. JournalOK'
  BY DEF JournalOK
<1>3. PartOK'
  BY DEF PartOK
<1>4. Durable'
  BY DEF Durable, InPlace
<1>5. Active'
  BY DEF Active
<1>6. NoFinishedFile'
  BY DEF NoFinishedFile
<1>7. Positions'
  BY DEF Positions
<1>8. Receiving'
  BY DEF Receiving
<1>9. Bounds'
  BY DEF Bounds
<1>10. QED BY <1>1, <1>2, <1>3, <1>4, <1>5, <1>6, <1>7, <1>8, <1>9

(* Rename keeps the invariant.                                              *)
LEMMA RenameKeeps ==
  ASSUME RInv, Rename
  PROVE  RInv'
<1> USE SizeAssumption, NoneAssumption DEF RInv, Rename, Goto
<1>1. stage' \in Stage
  BY DEF Stage
<1>2. JournalOK'
  BY DEF JournalOK
<1>3. PartOK'
  BY DEF PartOK
<1>4. Durable'
  BY DEF Durable
<1>5. Active'
  BY DEF Active
<1>6. NoFinishedFile'
  BY DEF NoFinishedFile
<1>7. Positions'
  BY DEF Positions
<1>8. Receiving'
  BY DEF Receiving
<1>9. Bounds'
  BY DEF Bounds
<1>10. QED BY <1>1, <1>2, <1>3, <1>4, <1>5, <1>6, <1>7, <1>8, <1>9

(* Finish keeps the invariant.                                              *)
LEMMA FinishKeeps ==
  ASSUME RInv, Finish
  PROVE  RInv'
<1> USE SizeAssumption, NoneAssumption DEF RInv, Finish, Idle
<1>a. /\ journal' \in Journal /\ journal'.desc = journal.desc
      /\ journal'.bytes = Size[stage.desc]
  BY DEF Active, Journal
<1>1. stage' \in Stage
  BY DEF Stage
<1>2. JournalOK'
  BY <1>a DEF JournalOK, Active
<1>3. PartOK'
  BY DEF PartOK
<1>4. Durable'
  BY DEF Durable, Positions
<1>5. Active'
  BY DEF Active
<1>6. NoFinishedFile'
  BY DEF NoFinishedFile
<1>7. Positions'
  BY DEF Positions
<1>8. Receiving'
  BY DEF Receiving
<1>9. Bounds'
  BY DEF Bounds
<1>10. QED BY <1>1, <1>2, <1>3, <1>4, <1>5, <1>6, <1>7, <1>8, <1>9

(* Reject keeps the invariant.                                              *)
LEMMA RejectKeeps ==
  ASSUME RInv, Reject
  PROVE  RInv'
<1> USE SizeAssumption, NoneAssumption DEF RInv, Reject, Idle
<1>1. stage' \in Stage
  BY DEF Stage
<1>2. JournalOK'
  BY DEF JournalOK
<1>3. PartOK'
  BY DEF PartOK
<1>4. Durable'
  BY DEF Durable
<1>5. Active'
  BY DEF Active
<1>6. NoFinishedFile'
  BY DEF NoFinishedFile
<1>7. Positions'
  BY DEF Positions
<1>8. Receiving'
  BY DEF Receiving
<1>9. Bounds'
  BY DEF Bounds
<1>10. QED BY <1>1, <1>2, <1>3, <1>4, <1>5, <1>6, <1>7, <1>8, <1>9

(* A crash takes only bytes that no journal counts.                         *)
LEMMA CrashKeeps ==
  ASSUME RInv, Crash
  PROVE  RInv'
<1> USE SizeAssumption, NoneAssumption DEF RInv, Crash, Idle
<1>a. ASSUME stage.pc \notin {"discarding", "rejecting"}, part # None
      PROVE  PartOK' /\ Durable'
  <2>1. part \in PartFile /\ part.synced <= Len(part.bytes)
    BY <1>a DEF PartOK
  <2>2. PICK kept \in part.synced..Len(part.bytes) : \E size \in kept..Len(part.bytes) :
           part' = [part EXCEPT !.bytes = [i \in 1..size |-> IF i <= kept THEN @[i] ELSE Junk]]
    BY <1>a
  <2>3. PICK size \in kept..Len(part.bytes) :
           part' = [part EXCEPT !.bytes = [i \in 1..size |-> IF i <= kept THEN @[i] ELSE Junk]]
    BY <2>2
  <2> DEFINE left == [i \in 1..size |-> IF i <= kept THEN part.bytes[i] ELSE Junk]
  <2>4. /\ part.synced \in Nat /\ kept \in Nat /\ size \in Nat
        /\ part.synced <= kept /\ kept <= size /\ size <= Len(part.bytes) /\ Len(part.bytes) \in Nat
    BY <2>1 DEF PartFile
  <2>5. \A i \in 1..size : left[i] \in Byte
    BY <2>1, <2>4 DEF PartFile, Byte
  <2>6. left \in Seq(Byte) /\ Len(left) = size
    BY <2>4, <2>5
  <2>7. part'.bytes = left /\ part'.synced = part.synced /\ part' \in PartFile
    BY <2>1, <2>3, <2>6 DEF PartFile
  <2>8. \A i \in 1..part.synced : part'.bytes[i] = part.bytes[i]
    BY <2>4, <2>7
  <2>9. PartOK'
    BY <2>4, <2>6, <2>7 DEF PartOK
  <2>10. Durable'
    BY <1>a, <2>1, <2>4, <2>6, <2>7, <2>8 DEF Durable, InPlace, JournalOK, Journal
  <2>11. QED BY <2>9, <2>10
<1>1. stage' \in Stage
  BY DEF Stage
<1>2. JournalOK'
  BY DEF JournalOK
<1>3. PartOK'
  BY <1>a DEF PartOK
<1>4. Durable'
  BY <1>a DEF Durable, InPlace
<1>5. Active'
  BY DEF Active
<1>6. NoFinishedFile'
  BY DEF NoFinishedFile
<1>7. Positions'
  BY DEF Positions
<1>8. Receiving'
  BY DEF Receiving
<1>9. Bounds'
  BY DEF Bounds
<1>10. QED BY <1>1, <1>2, <1>3, <1>4, <1>5, <1>6, <1>7, <1>8, <1>9

-----------------------------------------------------------------------------
(* Every step keeps the invariant.                                          *)
LEMMA NextRInv ==
  ASSUME RInv, [Next]_vars
  PROVE  RInv'
<1>1. CASE UNCHANGED vars
  BY <1>1 DEF vars, RInv, JournalOK, PartOK, Durable, InPlace, Active, NoFinishedFile, Positions,
              Receiving, Bounds
<1>2. ASSUME NEW d \in Contents, Start(d) PROVE RInv'
  BY <1>2, StartKeeps
<1>3. CASE Discard \/ JournalSetAside \/ CleanupExpired \/ Crash
  BY <1>3, DiscardKeeps, JournalSetAsideKeeps, CleanupExpiredKeeps, CrashKeeps
<1>4. CASE StageStep
  <2>1. CASE DiscardFiles \/ ReuseReady \/ NoReady \/ CheckPart \/ Truncate \/ Quarantine \/ Reset
    BY <2>1, DiscardFilesKeeps, ReuseReadyKeeps, NoReadyKeeps, CheckPartKeeps, TruncateKeeps,
       QuarantineKeeps, ResetKeeps
  <2>2. CASE Respond
    <3>1. PICK status \in {200, 206}, c \in Contents, v \in Contents \cup {None} :
             /\ v \in {c, None}
             /\ \/ StartOver(status, c, v)
                \/ \E declared \in BOOLEAN : Accept(status, c, v, declared)
                \/ OpenFails(v)
      BY <2>2 DEF Respond
    <3>2. CASE StartOver(status, c, v)
      BY <3>2, StartOverKeeps
    <3>3. ASSUME NEW declared \in BOOLEAN, Accept(status, c, v, declared) PROVE RInv'
      BY <3>1, <3>3, AcceptKeeps
    <3>4. CASE OpenFails(v)
      BY <3>1, <3>4, OpenFailsKeeps
    <3>5. QED BY <3>1, <3>2, <3>3, <3>4
  <2>3. CASE ProtocolError \/ Fails \/ ReceiveByte \/ PeriodicCheckpoint \/ Oversized \/ BodyEnds
    BY <2>3, ProtocolErrorKeeps, FailsKeeps, ReceiveByteKeeps, PeriodicCheckpointKeeps,
       OversizedKeeps, BodyEndsKeeps
  <2>4. CASE Interrupted \/ WriteFails \/ SyncPart \/ SaveBytes \/ CheckpointFails
    BY <2>4, InterruptedKeeps, WriteFailsKeeps, SyncPartKeeps, SaveBytesKeeps,
       CheckpointFailsKeeps
  <2>5. CASE Verify \/ Rename \/ Finish \/ Reject
    BY <2>5, VerifyKeeps, RenameKeeps, FinishKeeps, RejectKeeps
  <2>6. QED BY <1>4, <2>1, <2>2, <2>3, <2>4, <2>5 DEF StageStep
<1>5. QED BY <1>1, <1>2, <1>3, <1>4 DEF Next

(* What is on disk and the stage in memory always agree as RInv says.       *)
THEOREM Inductive == Spec => []RInv
<1>1. Init => RInv
  BY InitRInv
<1>2. RInv /\ [Next]_vars => RInv'
  BY NextRInv
<1>3. QED BY <1>1, <1>2, PTL DEF Spec

(* Journal, partial file and stage are well typed, and no stage writes past *)
(* the approved size.                                                       *)
THEOREM TypeCorrect == Spec => []TypeOK
<1>1. RInv => TypeOK
  <2> SUFFICES ASSUME RInv PROVE TypeOK
    OBVIOUS
  <2>1. stage \in Stage
    BY DEF RInv
  <2>2. ASSUME stage.desc # None
        PROVE  stage.offset \in 0..Size[stage.desc] /\ stage.written \in stage.offset..Size[stage.desc]
    BY <2>1, <2>2, SizeAssumption DEF RInv, Bounds, Stage
  <2>3. QED BY <2>1, <2>2 DEF RInv, JournalOK, PartOK, Stage, TypeOK
<1>2. QED BY <1>1, Inductive, PTL

(* No byte that the journal counts can be taken back by a crash             *)
(* (checkpoint 877-892).                                                    *)
THEOREM CheckpointsAreDurable == Spec => []CheckpointIsDurable
<1>1. RInv => CheckpointIsDurable
  BY DEF RInv, Durable, CheckpointIsDurable
<1>2. QED BY <1>1, Inductive, PTL

(* A resumed file never mixes two contents, nor the junk of a crash with    *)
(* one (stage 462-488, download 811-872).                                   *)
THEOREM BytesNeverMix == Spec => []BytesInPlace
<1>1. RInv => BytesInPlace
  <2> SUFFICES ASSUME RInv, part # None, journal # None PROVE
          \E c \in Contents :
             /\ journal.validator \in {c, None}
             /\ \A i \in 1..Good : i <= Len(part.bytes) => part.bytes[i] = <<c, i>>
    BY DEF BytesInPlace
  <2>1. CASE stage.pc \in {"receive", "sync", "checkpoint"}
    <3>1. Receiving /\ Good = stage.written
      BY <2>1 DEF RInv, Good
    <3>2. QED BY <2>1, <3>1 DEF Receiving, InPlace
  <2>2. CASE stage.pc \notin {"receive", "sync", "checkpoint"}
    <3>1. Good = journal.bytes
      BY <2>2 DEF RInv, Positions, Good
    <3>2. QED BY <3>1 DEF RInv, Durable, InPlace
  <2>3. QED BY <2>1, <2>2
<1>2. QED BY <1>1, Inductive, PTL
=============================================================================
