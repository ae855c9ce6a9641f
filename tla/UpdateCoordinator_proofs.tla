----------------------- MODULE UpdateCoordinator_proofs -----------------------
(***************************************************************************)
(* No download starts against the learner's last word, and failures stay   *)
(* within their budget, for any number of releases, restarts, failures and *)
(* for any limits of which a single run does not spend the budget.         *)
(*                                                                         *)
(* Both arguments are about what the two durable records still say.  After *)
(* a pause or a cancel that is on record nothing resumable is left         *)
(* (AtRest) and no call is about to begin a download (StopInv); where the  *)
(* record failed or was lost, memory still holds the stop (PauseInv).  The *)
(* failures counted so far are those of the journal where a package is     *)
(* downloaded by hand (JournalCounts: a journal that is missed or lost     *)
(* takes them with it), and those of the intent where the updater does it  *)
(* (PendingCounts); an automatic resume that waits for a check was begun   *)
(* when the counter had room (AutoApplies).                                *)
(***************************************************************************)
EXTENDS UpdateCoordinator, TLAPS

CallState == {"idle", "check", "apply", "inspect", "download"}
Download == [by : Callers, release : Releases, attempt : 1..RetryLimit,
             pc : {"wait", "stage", "record"}, kind : Kinds \cup {None}]
Memory == [phase : {"idle", "checking", "available", "complete", "downloading", "paused",
                    "restart-required", "installing", "error"},
           latest : Releases \cup {None}, checked : Releases \cup {None}, busy : BOOLEAN,
           active : {"idle", "checking", "downloading", "installing"}, userPaused : BOOLEAN,
           interruption : {None, "pause", "cancel", "shutdown"}, aborted : BOOLEAN,
           closing : BOOLEAN, descriptor : Releases \cup {None}, artifact : BOOLEAN,
           lock : Locks \cup {None},
           control : Controls \cup {Cleaning, None}, download : Download \cup {None}]

Intents == {"none", "wanted", "stopped", "forgotten"}

TypeInv ==
    /\ manual \in BOOLEAN /\ failures \in Nat /\ intent \in Intents
    /\ pending \in PendingIntent \cup {None} /\ journal \in DownloadJournal \cup {None}
    /\ m \in Memory /\ calls \in [Callers -> CallState]

(* Who holds the coordinator and its cache.                                 *)
LockInv ==
    /\ m.busy <=> (m.active # "idle" \/ m.lock = "maintenance")
    /\ m.lock = "maintenance" => m.active = "idle"
    /\ m.lock = "discard" => m.download = None
    /\ m.lock = "startup" => journal # None /\ m.download = None
    /\ m.lock = "revalidate" => manual /\ m.active = "installing"
    /\ m.active = "checking" => m.lock \notin {"startup", "discard"}
    /\ At("stage") => m.lock = "stage" /\ journal # None
    /\ calls["auto"] = "inspect" => m.lock = "inspect"

DownloadInv ==
    m.download # None =>
        /\ m.active = "downloading" /\ m.descriptor = m.download.release
        /\ pending # None /\ pending.release = m.download.release
        /\ failures < MaxAttempts
        /\ m.download.by = "user" /\ m.download.attempt = 1 => failures = 0

CallInv ==
    /\ \A c \in Callers : calls[c] = "apply" => m.active = "checking"
    /\ m.control # None => manual /\ m.active \in {"idle", "downloading"}
    /\ m.control = "pause" => m.descriptor # None
    /\ m.control = Cleaning => m.download = None /\ m.lock = None /\ journal = None

(* What has been paused in memory stays so until the learner asks again.    *)
PauseInv ==
    m.userPaused =>
        m.control # None \/ (m.download = None /\ \A c \in Callers : calls[c] # "apply")

(* Nothing is left that could be resumed without the learner.               *)
AtRest ==
    \/ journal # None /\ journal.paused
    \/ journal = None /\ pending = None /\ calls["auto"] # "inspect"

StopInv ==
    intent = "stopped" =>
        /\ m.download = None /\ \A c \in Callers : calls[c] # "apply"
        /\ m.phase \notin {"restart-required", "installing"}
        /\ m.lock # "revalidate" /\ m.active # "installing"
        /\ AtRest

JournalCounts ==
    manual /\ failures > 0 =>
        /\ journal # None /\ (journal.paused \/ failures <= journal.attempts)
        /\ pending # None => pending.release = journal.release
        /\ m.download # None =>
              journal.release = m.download.release /\ failures <= journal.attempts
        /\ m.control = "pause" =>
              /\ pending # None => pending.release = m.descriptor
              /\ journal.release = m.descriptor

AutoApplies ==
    calls["auto"] = "apply" /\ manual =>
        failures < MaxAttempts /\ (failures > 0 => ~journal.paused)

PendingCounts ==
    ~manual =>
        /\ journal = None
        /\ pending # None => failures <= pending.attempts
        /\ m.download # None =>
              /\ m.download.pc = "wait" /\ pending.attempts < MaxAttempts
              /\ m.download.by = "user" => pending.attempts < m.download.attempt
        /\ calls["auto"] \in {"inspect", "apply"} /\ pending # None =>
              pending.attempts < MaxAttempts
        /\ pending # None /\ pending.status = "verified-ready" => pending.attempts < MaxAttempts

UInv == TypeInv /\ LockInv /\ DownloadInv /\ CallInv /\ PauseInv /\ StopInv /\ JournalCounts /\ AutoApplies
        /\ PendingCounts /\ BudgetHolds

-----------------------------------------------------------------------------
(* Records.                                                                 *)

LEMMA MemoryParts ==
    ASSUME TypeInv
    PROVE  /\ m \in Memory
           /\ m.busy \in BOOLEAN /\ m.latest \in Releases \cup {None}
           /\ m.descriptor \in Releases \cup {None}
           /\ m.lock \in Locks \cup {None}
           /\ m.control \in Controls \cup {Cleaning, None}
           /\ m.active \in {"idle", "checking", "downloading", "installing"}
           /\ m.phase \in {"idle", "checking", "available", "complete", "downloading", "paused",
                           "restart-required", "installing", "error"}
           /\ m.download \in Download \cup {None}
BY DEF TypeInv, Memory

LEMMA DownloadParts ==
    ASSUME TypeInv, m.download # None
    PROVE  /\ m.download \in Download
           /\ m.download.by \in Callers /\ m.download.release \in Releases
           /\ m.download.attempt \in Nat /\ m.download.attempt >= 1
           /\ m.download.attempt <= RetryLimit
           /\ m.download.pc \in {"wait", "stage", "record"} /\ m.download.kind \in Kinds \cup {None}
<1>1. m.download \in Download
  BY MemoryParts
<1> QED BY <1>1, LimitsAssumption DEF Download

LEMMA PendingParts ==
    ASSUME TypeInv, pending # None
    PROVE  /\ pending \in PendingIntent
           /\ pending.release \in Releases /\ pending.attempts \in Nat
           /\ pending.attempts <= MaxAttempts
           /\ pending.status \in {"downloading", "verified-ready"}
<1>1. pending \in PendingIntent
  BY DEF TypeInv
<1> QED BY <1>1, LimitsAssumption DEF PendingIntent

LEMMA JournalParts ==
    ASSUME TypeInv, journal # None
    PROVE  /\ journal \in DownloadJournal
           /\ journal.release \in Releases /\ journal.attempts \in Nat
           /\ journal.attempts <= CounterLimit
           /\ journal.paused \in BOOLEAN /\ journal.manualRetry \in BOOLEAN
<1>1. journal \in DownloadJournal
  BY DEF TypeInv
<1> QED BY <1>1, LimitsAssumption DEF DownloadJournal

LEMMA CallParts ==
    ASSUME TypeInv
    PROVE  calls["user"] \in CallState /\ calls["auto"] \in CallState
BY DEF TypeInv, Callers

LEMMA Names ==
    /\ None \notin {"startup", "inspect", "stage", "discard", "maintenance", "revalidate",
                    "pause", "cancel", "clear"}
    /\ None \notin Releases /\ Cleaning = "clear"
BY NoneAssumption DEF Locks, Controls, Cleaning

-----------------------------------------------------------------------------
(* What remains of the journal, and what remains on record with it.         *)

LEMMA Recorders ==
    ASSUME TypeInv, NEW seen
    PROVE  /\ OnRecord(seen) \in Nat /\ OnRecord(seen) <= failures
           /\ OnRecord(seen) > 0 => OnRecord(seen) = failures /\ (seen # None \/ journal = None)
BY DEF TypeInv, OnRecord

LEMMA JournalLost ==
    ASSUME UInv, journal' \in {journal, None},
           \/ intent' = Recall(journal') /\ failures' = OnRecord(journal')
           \/ UNCHANGED <<journal, intent, failures>>
    PROVE  /\ failures' \in Nat /\ failures' <= failures /\ failures \in Nat
           /\ failures' > 0 => journal' = journal /\ failures' = failures
           /\ journal' \in DownloadJournal \cup {None}
           /\ intent' \in Intents
           /\ intent' = "stopped" => intent = "stopped" /\ journal' = journal
           /\ journal = None => journal' = None /\ failures' = failures
<1>1. /\ failures \in Nat /\ intent \in Intents /\ journal \in DownloadJournal \cup {None}
      /\ intent = "stopped" => journal = None \/ Paused(journal)
  BY DEF UInv, TypeInv, StopInv, AtRest, Paused
<1>2. CASE intent' = Recall(journal') /\ failures' = OnRecord(journal')
  <2>1. /\ failures' \in Nat /\ failures' <= failures
        /\ failures' > 0 => journal' = journal /\ failures' = failures
        /\ journal = None => journal' = None /\ failures' = failures
    BY <1>1, <1>2 DEF OnRecord
  <2>2. /\ intent' \in Intents
        /\ intent' = "stopped" => intent = "stopped" /\ journal' = journal
    BY <1>1, <1>2 DEF Recall, Intents
  <2> QED BY <1>1, <2>1, <2>2
<1>3. CASE UNCHANGED <<journal, intent, failures>>
  BY <1>1, <1>3
<1> QED BY <1>2, <1>3

-----------------------------------------------------------------------------
(* Beginning a download.                                                    *)

AutoMay(j) ==
    /\ manual => /\ OnRecord(j) < MaxAttempts
                 /\ OnRecord(j) > 0 => ~journal.paused
    /\ ~manual /\ pending # None => pending.attempts < MaxAttempts

(* j is what was read of the journal, or None where it was missed or lost.  *)
SeenAs(j) ==
    \/ j = journal /\ journal' = journal
    \/ j = None /\ journal' \in {journal, None}

LEMMA Seen ==
    ASSUME UInv, NEW j, SeenAs(j)
    PROVE  /\ OnRecord(j) \in Nat /\ OnRecord(j) <= failures /\ failures \in Nat
           /\ manual /\ OnRecord(j) > 0 =>
                 /\ OnRecord(j) = failures /\ j = journal /\ journal' = journal
                 /\ journal # None
           /\ ~manual => journal' = None /\ j = None
           /\ journal' \in DownloadJournal \cup {None}
<1>1. /\ failures \in Nat /\ journal \in DownloadJournal \cup {None}
      /\ OnRecord(j) \in Nat /\ OnRecord(j) <= failures
      /\ OnRecord(j) > 0 => OnRecord(j) = failures /\ (j # None \/ journal = None)
  BY Recorders DEF UInv, TypeInv
<1>2. manual /\ OnRecord(j) > 0 => journal # None
  BY <1>1 DEF UInv, JournalCounts
<1>3. ~manual => journal = None
  BY DEF UInv, PendingCounts
<1> QED BY <1>1, <1>2, <1>3 DEF SeenAs

LEMMA BeginKeeps ==
    ASSUME UInv, NEW c \in Callers, NEW mem \in Memory, mem.latest \in Releases,
           mem.lock \notin {"startup", "discard", "maintenance", "revalidate"}, m.control = None,
           mem.control = None,
           NEW others \in [Callers -> CallState], \A d \in Callers : others[d] # "apply",
           c = "user" /\ others["auto"] = "inspect" => mem.lock = "inspect",
           mem.userPaused = FALSE,
           NEW j, SeenAs(j), c = "auto" => AutoMay(j),
           intent' \in Intents \ {"stopped"}, UNCHANGED manual,
           Begin(c, mem, j, others)
    PROVE  UInv'
<1> DEFINE same == pending # None /\ pending.release = mem.latest
           known == same \/ (pending = None /\ j # None /\ j.release = mem.latest)
           d == [by |-> c, release |-> mem.latest, attempt |-> 1, pc |-> "wait", kind |-> None]
<1>1. /\ pending' = [release |-> mem.latest, status |-> "downloading",
                     attempts |-> IF same /\ c = "auto" THEN pending.attempts ELSE 0]
      /\ failures' = IF known /\ c = "auto" THEN OnRecord(j) ELSE 0
      /\ calls' = [others EXCEPT ![c] = "download"]
  BY DEF Begin
<1>2. d \in Download /\ d.by = c /\ d.release = mem.latest /\ d.attempt = 1 /\ d.pc = "wait"
  BY LimitsAssumption DEF Download
<1> HIDE DEF d
<1>3. /\ m' \in Memory /\ m'.phase = "downloading" /\ m'.busy = TRUE /\ m'.active = "downloading"
      /\ m'.descriptor = mem.latest /\ m'.download = d /\ m'.lock = mem.lock /\ m'.control = None
      /\ m'.userPaused = FALSE
  <2>1. m' = [mem EXCEPT !.phase = "downloading", !.busy = TRUE, !.active = "downloading",
                         !.interruption = None, !.aborted = FALSE,
                         !.descriptor = mem.latest, !.artifact = FALSE, !.download = d]
    BY DEF Begin, d
  <2>2. m'.userPaused = mem.userPaused
    BY <2>1 DEF Memory
  <2> QED BY <1>2, <2>1, <2>2 DEF Memory
<1>4. /\ pending' \in PendingIntent /\ pending' # None /\ pending'.release = mem.latest
      /\ pending'.status = "downloading"
      /\ pending'.attempts = IF same /\ c = "auto" THEN pending.attempts ELSE 0
  <2>1. same => pending.attempts \in 0..MaxAttempts
    BY PendingParts, LimitsAssumption DEF UInv
  <2>2. pending' \in PendingIntent
    BY <1>1, <2>1, LimitsAssumption DEF PendingIntent
  <2> QED BY <1>1, <2>2, NoRecordAssumption
<1>5. /\ calls' \in [Callers -> CallState] /\ calls'[c] = "download"
      /\ \A e \in Callers : calls'[e] # "apply"
      /\ calls'["auto"] = "inspect" => mem.lock = "inspect"
  BY <1>1 DEF CallState, Callers
<1>6. /\ failures \in Nat /\ failures' \in Nat /\ failures' <= failures
      /\ journal' \in DownloadJournal \cup {None}
  BY <1>1, Seen
<1>7. TypeInv'
  BY <1>3, <1>4, <1>5, <1>6 DEF UInv, TypeInv, Intents
<1>8. LockInv'
  BY <1>2, <1>3, <1>5, Names DEF LockInv, At
<1>9. manual /\ failures' > 0 =>
          /\ journal' # None /\ ~journal'.paused /\ failures' <= journal'.attempts
          /\ journal'.release = mem.latest /\ failures' = OnRecord(j) /\ c = "auto"
  <2> SUFFICES ASSUME manual, failures' > 0
               PROVE  /\ journal' # None /\ ~journal'.paused /\ failures' <= journal'.attempts
                      /\ journal'.release = mem.latest /\ failures' = OnRecord(j) /\ c = "auto"
    OBVIOUS
  <2>1. known /\ c = "auto" /\ failures' = OnRecord(j)
    BY <1>1
  <2>2. failures' = failures /\ j = journal /\ journal' = journal /\ journal # None
    BY <2>1, Seen
  <2>3. ~journal.paused
    BY <2>1 DEF AutoMay
  <2> QED BY <1>6, <2>1, <2>2, <2>3 DEF UInv, JournalCounts
<1>10. failures' < MaxAttempts
  <2>1. CASE manual
    BY <1>1, <1>6, <1>9, <2>1, LimitsAssumption DEF AutoMay
  <2>2. CASE ~manual
    BY <1>1, <1>6, <2>2, LimitsAssumption, PendingParts, Seen DEF AutoMay, UInv, PendingCounts
  <2> QED BY <2>1, <2>2
<1>11. DownloadInv'
  BY <1>1, <1>2, <1>3, <1>4, <1>10 DEF DownloadInv
<1>12. CallInv' /\ StopInv' /\ PauseInv'
  BY <1>3, <1>5, Names DEF CallInv, StopInv, PauseInv, Intents
<1>13. JournalCounts'
  BY <1>2, <1>3, <1>4, <1>6, <1>9, Names DEF JournalCounts
<1>14. AutoApplies'
  BY <1>5, Names DEF AutoApplies, Callers
<1>15. PendingCounts'
  BY <1>1, <1>2, <1>3, <1>4, <1>6, LimitsAssumption, PendingParts, Seen
     DEF UInv, PendingCounts, AutoMay, Callers
<1>16. BudgetHolds'
  BY <1>6, <1>10, LimitsAssumption DEF BudgetHolds
<1> QED BY <1>7, <1>8, <1>11, <1>12, <1>13, <1>14, <1>15, <1>16 DEF UInv

-----------------------------------------------------------------------------
(* Checks.                                                                  *)

LEMMA CheckKeeps == ASSUME UInv, Check PROVE UInv'
<1>1. TypeInv /\ m \in Memory
  BY DEF UInv, TypeInv
<1>2. /\ m'.userPaused = m.userPaused
      /\ m' \in Memory
      /\ m'.phase = IF m.busy THEN m.phase ELSE "checking"
      /\ m'.busy = TRUE /\ m'.active = "checking" /\ m'.lock = m.lock
      /\ m'.control = m.control /\ m'.descriptor = m.descriptor /\ m'.download = m.download
  BY <1>1, MemoryParts DEF Check, Memory, Checking, Settling, Refused
<1>3. /\ UNCHANGED <<manual, pending, journal, intent, failures>>
      /\ calls' \in [Callers -> CallState] /\ calls'["user"] = "check"
      /\ calls'["auto"] = calls["auto"]
      /\ m.lock \notin {"startup", "discard", "maintenance"} /\ m.control = None
      /\ m.phase # "restart-required" /\ m.active \in {"idle", "checking"}
      /\ m.lock # "revalidate" /\ m.download = None
  <2>1. /\ UNCHANGED <<manual, pending, journal, intent, failures>>
        /\ calls' = [calls EXCEPT !["user"] = "check"] /\ calls \in [Callers -> CallState]
        /\ m.lock \notin {"startup", "discard", "maintenance"} /\ m.control = None
        /\ m.phase # "restart-required" /\ (m.busy => m.active = "checking")
    BY <1>1 DEF Check, Settling, Refused, TypeInv
  <2>2. m.active \in {"idle", "checking"}
    BY <2>1 DEF UInv, LockInv
  <2>3. m.lock # "revalidate" /\ m.download = None
    BY <2>2 DEF UInv, LockInv, DownloadInv
  <2> QED BY <2>1, <2>2, <2>3 DEF Callers, CallState
<1>4. TypeInv'
  BY <1>1, <1>2, <1>3 DEF TypeInv, Callers, CallState, Intents
<1>5. LockInv'
  BY <1>1, <1>2, <1>3, Names DEF UInv, LockInv, At, Callers
<1>6. DownloadInv'
  BY <1>1, <1>2, <1>3, Names DEF UInv, DownloadInv, LockInv
<1>7. CallInv'
  BY <1>1, <1>2, <1>3, Names DEF UInv, CallInv, Callers
<1>8. StopInv'
  BY <1>1, <1>2, <1>3, Names DEF UInv, StopInv, AtRest, LockInv, CallInv, Callers
<1>9. JournalCounts'
  BY <1>1, <1>2, <1>3, Names DEF UInv, JournalCounts, LockInv, DownloadInv, CallInv
<1>10. AutoApplies'
  BY <1>1, <1>2, <1>3, Names DEF UInv, AutoApplies, CallInv, Callers, LockInv
<1>11. PendingCounts'
  BY <1>1, <1>2, <1>3, Names DEF UInv, PendingCounts, DownloadInv, LockInv, CallInv, Callers
<1>12. BudgetHolds'
  BY <1>1, <1>2, <1>3, Names DEF UInv, BudgetHolds
<1>13. PauseInv'
  BY <1>1, <1>2, <1>3, Names DEF UInv, PauseInv, LockInv, DownloadInv, CallInv, Callers
<1> QED BY <1>4, <1>5, <1>6, <1>7, <1>8, <1>9, <1>10, <1>11, <1>12, <1>13 DEF UInv

LEMMA CheckFailsKeeps == ASSUME UInv, CheckFails PROVE UInv'
<1>1. TypeInv /\ m \in Memory
  BY DEF UInv, TypeInv
<1>2. /\ m'.userPaused = m.userPaused
      /\ m' \in Memory /\ m'.phase = "error" /\ m'.busy = FALSE /\ m'.active = "idle"
      /\ m'.lock = m.lock /\ m'.control = m.control /\ m'.descriptor = m.descriptor
      /\ m'.download = m.download
  BY <1>1 DEF CheckFails, Memory, Checked
<1>3. /\ UNCHANGED <<manual, journal, intent, failures>> /\ pending' \in {pending, None}
      /\ m.active = "checking" /\ m.download = None
      /\ \A c \in Callers : calls'[c] # "apply" /\ (calls'[c] = "inspect" => calls[c] = "inspect")
      /\ calls' \in [Callers -> CallState]
  BY <1>1 DEF CheckFails, ClearPending, Checked, Answered, TypeInv, Callers, CallState,
             UInv, DownloadInv
<1>4. TypeInv'
  BY <1>1, <1>2, <1>3 DEF TypeInv, Callers, CallState, Intents
<1>5. LockInv'
  BY <1>1, <1>2, <1>3, Names DEF UInv, LockInv, At, Callers, DownloadInv
<1>6. DownloadInv'
  BY <1>1, <1>2, <1>3, Names DEF UInv, DownloadInv, LockInv
<1>7. CallInv'
  BY <1>1, <1>2, <1>3, Names DEF UInv, CallInv, Callers
<1>8. StopInv'
  BY <1>1, <1>2, <1>3, Names DEF UInv, StopInv, AtRest, LockInv, CallInv, Callers
<1>9. JournalCounts'
  BY <1>1, <1>2, <1>3, Names DEF UInv, JournalCounts, LockInv, DownloadInv, CallInv
<1>10. AutoApplies'
  BY <1>1, <1>2, <1>3, Names DEF UInv, AutoApplies, CallInv, Callers
<1>11. PendingCounts'
  BY <1>1, <1>2, <1>3, Names DEF UInv, PendingCounts, DownloadInv, LockInv, CallInv, Callers
<1>12. BudgetHolds'
  BY <1>1, <1>2, <1>3, Names DEF UInv, BudgetHolds
<1>13. PauseInv'
  BY <1>1, <1>2, <1>3, Names DEF UInv, PauseInv, LockInv, DownloadInv, CallInv, Callers
<1> QED BY <1>4, <1>5, <1>6, <1>7, <1>8, <1>9, <1>10, <1>11, <1>12, <1>13 DEF UInv

LEMMA CheckAbandonedKeeps == ASSUME UInv, CheckAbandoned PROVE UInv'
<1>1. TypeInv /\ m \in Memory
  BY DEF UInv, TypeInv
<1>2. /\ m'.userPaused = m.userPaused
      /\ m' \in Memory /\ m'.phase = m.phase /\ m'.busy = FALSE /\ m'.active = "idle"
      /\ m'.lock = m.lock /\ m'.control = m.control /\ m'.descriptor = m.descriptor
      /\ m'.download = m.download
  BY <1>1 DEF CheckAbandoned, Memory
<1>3. /\ UNCHANGED <<manual, journal, intent, failures>> /\ pending' = pending
      /\ m.active = "checking"
      /\ \A c \in Callers : calls'[c] # "apply" /\ (calls'[c] = "inspect" => calls[c] = "inspect")
      /\ calls' \in [Callers -> CallState]
  BY <1>1 DEF CheckAbandoned, Answered, TypeInv, Callers, CallState
<1>4. TypeInv'
  BY <1>1, <1>2, <1>3 DEF TypeInv, Callers, CallState, Intents
<1>5. LockInv'
  BY <1>1, <1>2, <1>3, Names DEF UInv, LockInv, At, Callers, DownloadInv
<1>6. DownloadInv'
  BY <1>1, <1>2, <1>3, Names DEF UInv, DownloadInv, LockInv
<1>7. CallInv'
  BY <1>1, <1>2, <1>3, Names DEF UInv, CallInv, Callers
<1>8. StopInv'
  BY <1>1, <1>2, <1>3, Names DEF UInv, StopInv, AtRest, LockInv, CallInv, Callers
<1>9. JournalCounts'
  BY <1>1, <1>2, <1>3, Names DEF UInv, JournalCounts, LockInv, DownloadInv, CallInv
<1>10. AutoApplies'
  BY <1>1, <1>2, <1>3, Names DEF UInv, AutoApplies, CallInv, Callers
<1>11. PendingCounts'
  BY <1>1, <1>2, <1>3, Names DEF UInv, PendingCounts, DownloadInv, LockInv, CallInv, Callers
<1>12. BudgetHolds'
  BY <1>1, <1>2, <1>3, Names DEF UInv, BudgetHolds
<1>13. PauseInv'
  BY <1>1, <1>2, <1>3, Names DEF UInv, PauseInv, LockInv, DownloadInv, CallInv, Callers
<1> QED BY <1>4, <1>5, <1>6, <1>7, <1>8, <1>9, <1>10, <1>11, <1>12, <1>13 DEF UInv

LEMMA CheckFindsNothingKeeps == ASSUME UInv, CheckFindsNothing PROVE UInv'
<1>1. TypeInv /\ m \in Memory
  BY DEF UInv, TypeInv
<1>2. /\ m'.userPaused = m.userPaused
      /\ m' \in Memory /\ m'.phase = "complete" /\ m'.busy = FALSE /\ m'.active = "idle"
      /\ m'.lock \in {m.lock, "discard"} /\ (m.lock # None => m'.lock = m.lock)
      /\ m'.control = m.control /\ m'.descriptor = m.descriptor /\ m'.download = m.download
  <2>1. PICK r \in Releases \cup {None} : m' = DiscardCache(Checked("complete", r, r))
    BY DEF CheckFindsNothing
  <2> DEFINE k == Checked("complete", r, r)
  <2>2. /\ k.userPaused = m.userPaused
        /\ k \in Memory /\ k.phase = "complete" /\ k.busy = FALSE /\ k.active = "idle"
        /\ k.lock = m.lock /\ k.control = m.control /\ k.descriptor = m.descriptor
        /\ k.download = m.download
    BY <1>1 DEF Checked, Memory
  <2> HIDE DEF k
  <2>3. CASE m.lock = None
    <3>1. m' = [k EXCEPT !.lock = "discard"]
      BY <2>1, <2>2, <2>3 DEF DiscardCache, k
    <3> QED BY <2>2, <2>3, <3>1 DEF Memory, Locks
  <2>4. CASE m.lock # None
    <3>1. m' = k
      BY <2>1, <2>2, <2>4 DEF DiscardCache, k
    <3> QED BY <2>2, <2>4, <3>1
  <2> QED BY <2>3, <2>4
<1>3. /\ UNCHANGED <<manual, journal, intent, failures>> /\ pending' \in {pending, None}
      /\ m.active = "checking"
      /\ m.lock \notin {"startup", "discard", "maintenance", "revalidate"}
      /\ m.download = None
      /\ \A c \in Callers : calls'[c] # "apply" /\ (calls'[c] = "inspect" => calls[c] = "inspect")
      /\ calls' \in [Callers -> CallState]
  BY <1>1 DEF CheckFindsNothing, ClearPending, Answered, TypeInv, Callers, CallState, UInv, LockInv,
             DownloadInv
<1>4. TypeInv'
  BY <1>1, <1>2, <1>3 DEF TypeInv, Callers, CallState, Intents
<1>5. LockInv'
  BY <1>1, <1>2, <1>3, Names DEF UInv, LockInv, At, Callers, DownloadInv
<1>6. DownloadInv'
  BY <1>1, <1>2, <1>3, Names DEF UInv, DownloadInv, LockInv
<1>7. CallInv'
  BY <1>1, <1>2, <1>3, Names DEF UInv, CallInv, Callers
<1>8. StopInv'
  BY <1>1, <1>2, <1>3, Names DEF UInv, StopInv, AtRest, LockInv, CallInv, Callers
<1>9. JournalCounts'
  BY <1>1, <1>2, <1>3, Names DEF UInv, JournalCounts, LockInv, DownloadInv, CallInv
<1>10. AutoApplies'
  BY <1>1, <1>2, <1>3, Names DEF UInv, AutoApplies, CallInv, Callers
<1>11. PendingCounts'
  BY <1>1, <1>2, <1>3, Names DEF UInv, PendingCounts, DownloadInv, LockInv, CallInv, Callers
<1>12. BudgetHolds'
  BY <1>1, <1>2, <1>3, Names DEF UInv, BudgetHolds
<1>13. PauseInv'
  BY <1>1, <1>2, <1>3, Names DEF UInv, PauseInv, LockInv, DownloadInv, CallInv, Callers
<1> QED BY <1>4, <1>5, <1>6, <1>7, <1>8, <1>9, <1>10, <1>11, <1>12, <1>13 DEF UInv

LEMMA CacheDiscardedKeeps == ASSUME UInv, CacheDiscarded PROVE UInv'
<1>1. TypeInv /\ m \in Memory
  BY DEF UInv, TypeInv
<1>2. /\ m'.userPaused = m.userPaused
      /\ m' \in Memory /\ m'.phase = m.phase /\ m'.busy = m.busy /\ m'.active = m.active
      /\ m'.lock = None /\ m'.control = m.control /\ m'.descriptor = m.descriptor
      /\ m'.download = m.download
  BY <1>1 DEF CacheDiscarded, Memory
<1>3. /\ UNCHANGED <<manual, pending, calls>> /\ m.lock = "discard" /\ m.download = None
      /\ failures' \in Nat /\ failures' <= failures /\ failures \in Nat
      /\ failures' > 0 => journal' = journal /\ failures' = failures
      /\ journal' \in DownloadJournal \cup {None} /\ intent' \in Intents
      /\ intent' = "stopped" => intent = "stopped" /\ journal' = journal
      /\ journal = None => journal' = None /\ failures' = failures
      /\ m.control # Cleaning
  BY <1>1, JournalLost, Names DEF CacheDiscarded, UInv, LockInv, CallInv
<1>4. TypeInv'
  BY <1>1, <1>2, <1>3 DEF TypeInv, Callers, CallState, Intents
<1>5. LockInv'
  BY <1>1, <1>2, <1>3, Names DEF UInv, LockInv, At, Callers
<1>6. DownloadInv'
  BY <1>1, <1>2, <1>3, Names DEF UInv, DownloadInv
<1>7. CallInv'
  BY <1>1, <1>2, <1>3, Names DEF UInv, CallInv, Callers
<1>8. StopInv'
  BY <1>1, <1>2, <1>3, Names DEF UInv, StopInv, AtRest, LockInv, CallInv, Callers
<1>9. JournalCounts'
  BY <1>1, <1>2, <1>3, Names DEF UInv, JournalCounts, LockInv, DownloadInv, CallInv
<1>10. AutoApplies'
  BY <1>1, <1>2, <1>3, Names, LimitsAssumption DEF UInv, AutoApplies, CallInv, Callers
<1>11. PendingCounts'
  BY <1>1, <1>2, <1>3, Names DEF UInv, PendingCounts, DownloadInv, LockInv, CallInv, Callers
<1>12. BudgetHolds'
  BY <1>1, <1>2, <1>3, Names, LimitsAssumption DEF UInv, BudgetHolds
<1>13. PauseInv'
  BY <1>1, <1>2, <1>3, Names DEF UInv, PauseInv, LockInv, DownloadInv, CallInv, Callers
<1> QED BY <1>4, <1>5, <1>6, <1>7, <1>8, <1>9, <1>10, <1>11, <1>12, <1>13 DEF UInv

-----------------------------------------------------------------------------
(* Recovery.                                                                *)

LEMMA TimerExhaustedKeeps == ASSUME UInv, TimerExhausted PROVE UInv'
<1>1. TypeInv /\ m \in Memory
  BY DEF UInv, TypeInv
<1>2. /\ m'.userPaused = m.userPaused
      /\ m' \in Memory /\ m'.phase = "error" /\ m'.busy = m.busy /\ m'.active = m.active
      /\ m'.lock = m.lock /\ m'.control = m.control /\ m'.descriptor = m.descriptor
      /\ m'.download = m.download
  BY <1>1 DEF TimerExhausted, Memory, Exhausted
<1>3. /\ UNCHANGED <<manual, journal, calls, intent, failures>>
      /\ pending' \in {pending, None}
      /\ manual => pending' = pending
      /\ pending # None
      /\ ~manual => m.download = None
  <2>1. /\ UNCHANGED <<manual, journal, calls, intent, failures>>
        /\ pending' \in IF manual THEN {pending} ELSE {pending, None}
        /\ pending # None /\ pending.attempts >= MaxAttempts
    BY DEF TimerExhausted, Exhausted, ClearPending
  <2>2. ASSUME ~manual PROVE m.download = None
    BY <1>1, <2>1, <2>2, PendingParts, LimitsAssumption DEF UInv, PendingCounts
  <2> QED BY <2>1, <2>2
<1>4. TypeInv'
  BY <1>1, <1>2, <1>3 DEF TypeInv, Callers, CallState, Intents
<1>5. LockInv'
  BY <1>1, <1>2, <1>3, Names DEF UInv, LockInv, At, Callers
<1>6. DownloadInv'
  BY <1>1, <1>2, <1>3, Names DEF UInv, DownloadInv
<1>7. CallInv'
  BY <1>1, <1>2, <1>3, Names DEF UInv, CallInv, Callers
<1>8. StopInv'
  BY <1>1, <1>2, <1>3, Names DEF UInv, StopInv, AtRest, LockInv, CallInv, Callers
<1>9. JournalCounts'
  BY <1>1, <1>2, <1>3, Names DEF UInv, JournalCounts, LockInv, DownloadInv, CallInv
<1>10. AutoApplies'
  BY <1>1, <1>2, <1>3, Names DEF UInv, AutoApplies, CallInv, Callers
<1>11. PendingCounts'
  BY <1>1, <1>2, <1>3, Names DEF UInv, PendingCounts, DownloadInv, LockInv, CallInv, Callers
<1>12. BudgetHolds'
  BY <1>1, <1>2, <1>3, Names DEF UInv, BudgetHolds
<1>13. PauseInv'
  BY <1>1, <1>2, <1>3, Names DEF UInv, PauseInv, LockInv, DownloadInv, CallInv, Callers
<1> QED BY <1>4, <1>5, <1>6, <1>7, <1>8, <1>9, <1>10, <1>11, <1>12, <1>13 DEF UInv

LEMMA ResumeKeeps == ASSUME UInv, Resume PROVE UInv'
<1>1. TypeInv /\ m \in Memory
  BY DEF UInv, TypeInv
<1>2. /\ m'.userPaused = m.userPaused
      /\ m' \in Memory /\ m'.phase = m.phase /\ m'.busy = m.busy /\ m'.active = m.active
      /\ m'.lock = "inspect" /\ m'.control = m.control /\ m'.descriptor = m.descriptor
      /\ m'.download = m.download
  BY <1>1, MemoryParts DEF Resume, Memory, Locks, HasPending, Refused, Settling
<1>3. /\ UNCHANGED <<manual, pending, journal, intent, failures>>
      /\ calls' \in [Callers -> CallState] /\ calls'["auto"] = "inspect"
      /\ calls'["user"] = calls["user"] /\ m.lock = None /\ m.control = None
      /\ m.busy = FALSE
      /\ (pending # None /\ ~Exhausted) \/ (pending = None /\ journal # None)
  BY <1>1, MemoryParts DEF Resume, HasPending, Refused, Settling, TypeInv, Callers, CallState
<1>4. TypeInv'
  BY <1>1, <1>2, <1>3 DEF TypeInv, Callers, CallState, Intents
<1>5. LockInv'
  BY <1>1, <1>2, <1>3, Names DEF UInv, LockInv, At, Callers
<1>6. DownloadInv'
  BY <1>1, <1>2, <1>3, Names DEF UInv, DownloadInv
<1>7. CallInv'
  BY <1>1, <1>2, <1>3, Names DEF UInv, CallInv, Callers
<1>8. StopInv'
  <2> SUFFICES ASSUME intent = "stopped" PROVE journal # None /\ journal.paused
    BY <1>2, <1>3, Names DEF UInv, StopInv, AtRest, Callers
  <2> QED BY <1>3 DEF UInv, StopInv, AtRest
<1>9. JournalCounts'
  BY <1>1, <1>2, <1>3, Names DEF UInv, JournalCounts, LockInv, DownloadInv, CallInv
<1>10. AutoApplies'
  BY <1>1, <1>2, <1>3, Names DEF UInv, AutoApplies, CallInv, Callers
<1>11. PendingCounts'
  BY <1>1, <1>2, <1>3, Names, PendingParts, LimitsAssumption
     DEF UInv, PendingCounts, DownloadInv, LockInv, CallInv, Callers, Exhausted
<1>12. BudgetHolds'
  BY <1>1, <1>2, <1>3, Names DEF UInv, BudgetHolds
<1>13. PauseInv'
  BY <1>1, <1>2, <1>3, Names DEF UInv, PauseInv, LockInv, DownloadInv, CallInv, Callers
<1> QED BY <1>4, <1>5, <1>6, <1>7, <1>8, <1>9, <1>10, <1>11, <1>12, <1>13 DEF UInv

(* A pause that was read is shown, unless the learner is busy again.        *)
LEMMA Shows ==
    ASSUME TypeInv, NEW mem \in Memory, Paused(journal), NEW k, k = ShowPaused(mem)
    PROVE  /\ k.userPaused = mem.userPaused \/ mem.busy = FALSE
           /\ k \in Memory /\ k.phase \in {mem.phase, "paused"} /\ k.busy = mem.busy
           /\ k.active = mem.active /\ k.lock = mem.lock /\ k.control = mem.control
           /\ k.descriptor = mem.descriptor /\ k.download = mem.download
<1>1. journal.release \in Releases
  BY JournalParts DEF Paused
<1>2. mem.busy \in BOOLEAN
  BY DEF Memory
<1>3. CASE k = mem
  BY <1>3 DEF Memory
<1>4. CASE /\ mem.busy = FALSE
           /\ k = [mem EXCEPT !.userPaused = TRUE, !.phase = "paused",
                              !.latest = journal.release]
  BY <1>1, <1>4 DEF Memory
<1> QED BY <1>2, <1>3, <1>4 DEF ShowPaused

LEMMA InspectionStopsKeeps == ASSUME UInv, InspectionStops PROVE UInv'
<1>1. TypeInv /\ m \in Memory
  BY DEF UInv, TypeInv
<1>2. /\ m'.userPaused = m.userPaused \/ m.busy = FALSE
      /\ m' \in Memory /\ m'.phase \in {m.phase, "paused"} /\ m'.busy = m.busy
      /\ m'.active = m.active /\ m'.lock = None /\ m'.control = m.control
      /\ m'.descriptor = m.descriptor /\ m'.download = m.download
  <2> DEFINE k == [m EXCEPT !.lock = None]
  <2>1. /\ k.userPaused = m.userPaused
        /\ k \in Memory /\ k.phase = m.phase /\ k.busy = m.busy /\ k.active = m.active
        /\ k.lock = None /\ k.control = m.control /\ k.descriptor = m.descriptor
        /\ k.download = m.download
    BY <1>1 DEF Memory
  <2>2. m' = k \/ (Paused(journal) /\ m' = ShowPaused(k))
    BY DEF InspectionStops
  <2> HIDE DEF k
  <2> QED BY <1>1, <2>1, <2>2, Shows
<1>3. /\ UNCHANGED <<manual, pending>>
      /\ calls' \in [Callers -> CallState] /\ calls'["auto"] = "idle"
      /\ calls'["user"] = calls["user"] /\ m.lock = "inspect"
      /\ m.control # Cleaning
      /\ failures' \in Nat /\ failures' <= failures /\ failures \in Nat
      /\ failures' > 0 => journal' = journal /\ failures' = failures
      /\ journal' \in DownloadJournal \cup {None} /\ intent' \in Intents
      /\ intent' = "stopped" => intent = "stopped" /\ journal' = journal
      /\ journal = None => journal' = None /\ failures' = failures
  <2>1. /\ UNCHANGED <<manual, pending>> /\ journal' \in {journal, None}
        /\ intent' = Recall(journal') /\ failures' = OnRecord(journal')
        /\ calls["auto"] = "inspect" /\ calls' = [calls EXCEPT !["auto"] = "idle"]
    BY DEF InspectionStops, StopResume
  <2>2. m.lock = "inspect" /\ m.control # Cleaning
    BY <2>1, Names DEF UInv, LockInv, CallInv
  <2>3. calls' \in [Callers -> CallState] /\ calls'["auto"] = "idle"
        /\ calls'["user"] = calls["user"]
    BY <1>1, <2>1 DEF TypeInv, Callers, CallState
  <2> QED BY <2>1, <2>2, <2>3, JournalLost
<1>4. TypeInv'
  BY <1>1, <1>2, <1>3 DEF TypeInv, Callers, CallState, Intents
<1>5. LockInv'
  BY <1>1, <1>2, <1>3, Names DEF UInv, LockInv, At, Callers
<1>6. DownloadInv'
  BY <1>1, <1>2, <1>3, Names, LimitsAssumption DEF UInv, DownloadInv
<1>7. CallInv'
  BY <1>1, <1>2, <1>3, Names DEF UInv, CallInv, Callers
<1>8. StopInv'
  BY <1>1, <1>2, <1>3, Names DEF UInv, StopInv, AtRest, LockInv, CallInv, Callers
<1>9. JournalCounts'
  BY <1>1, <1>2, <1>3, Names DEF UInv, JournalCounts, LockInv, DownloadInv, CallInv
<1>10. AutoApplies'
  BY <1>1, <1>2, <1>3, Names, LimitsAssumption DEF UInv, AutoApplies, CallInv, Callers
<1>11. PendingCounts'
  BY <1>1, <1>2, <1>3, Names DEF UInv, PendingCounts, DownloadInv, LockInv, CallInv, Callers
<1>12. BudgetHolds'
  BY <1>1, <1>2, <1>3, Names, LimitsAssumption DEF UInv, BudgetHolds
<1>13. PauseInv'
  BY <1>1, <1>2, <1>3, Names DEF UInv, PauseInv, LockInv, DownloadInv, CallInv, Callers
<1> QED BY <1>4, <1>5, <1>6, <1>7, <1>8, <1>9, <1>10, <1>11, <1>12, <1>13 DEF UInv

LEMMA StartupInspectedKeeps == ASSUME UInv, StartupInspected PROVE UInv'
<1>1. TypeInv /\ m \in Memory
  BY DEF UInv, TypeInv
<1>2. /\ m'.userPaused = m.userPaused \/ m.busy = FALSE
      /\ m' \in Memory /\ m'.phase \in {m.phase, "paused"} /\ m'.busy = m.busy
      /\ m'.active = m.active /\ m'.lock = None /\ m'.control = m.control
      /\ m'.descriptor = m.descriptor /\ m'.download = m.download
  <2> DEFINE k == [m EXCEPT !.lock = None]
  <2>1. /\ k.userPaused = m.userPaused
        /\ k \in Memory /\ k.phase = m.phase /\ k.busy = m.busy /\ k.active = m.active
        /\ k.lock = None /\ k.control = m.control /\ k.descriptor = m.descriptor
        /\ k.download = m.download
    BY <1>1 DEF Memory
  <2>2. m' = k \/ (Paused(journal) /\ m' = ShowPaused(k))
    BY DEF StartupInspected, Reads, Read, Paused
  <2> HIDE DEF k
  <2> QED BY <1>1, <2>1, <2>2, Shows
<1>3. /\ UNCHANGED <<manual, pending, calls>>
      /\ m.lock = "startup" /\ m.download = None
      /\ m.control # Cleaning
      /\ failures' \in Nat /\ failures' <= failures /\ failures \in Nat
      /\ failures' > 0 => journal' = journal /\ failures' = failures
      /\ journal' \in DownloadJournal \cup {None} /\ intent' \in Intents
      /\ intent' = "stopped" => intent = "stopped" /\ journal' = journal
      /\ journal = None => journal' = None /\ failures' = failures
  <2>1. /\ UNCHANGED <<manual, pending, calls>> /\ m.lock = "startup"
        /\ journal' \in {journal, None}
        /\ \/ intent' = Recall(journal') /\ failures' = OnRecord(journal')
           \/ UNCHANGED <<journal, intent, failures>>
    BY DEF StartupInspected, Reads, Read
  <2> QED BY <2>1, JournalLost, Names DEF UInv, LockInv, CallInv
<1>4. TypeInv'
  BY <1>1, <1>2, <1>3 DEF TypeInv, Callers, CallState, Intents
<1>5. LockInv'
  BY <1>1, <1>2, <1>3, Names DEF UInv, LockInv, At, Callers
<1>6. DownloadInv'
  BY <1>1, <1>2, <1>3, Names, LimitsAssumption DEF UInv, DownloadInv
<1>7. CallInv'
  BY <1>1, <1>2, <1>3, Names DEF UInv, CallInv, Callers
<1>8. StopInv'
  BY <1>1, <1>2, <1>3, Names DEF UInv, StopInv, AtRest, LockInv, CallInv, Callers
<1>9. JournalCounts'
  BY <1>1, <1>2, <1>3, Names DEF UInv, JournalCounts, LockInv, DownloadInv, CallInv
<1>10. AutoApplies'
  BY <1>1, <1>2, <1>3, Names, LimitsAssumption DEF UInv, AutoApplies, CallInv, Callers
<1>11. PendingCounts'
  BY <1>1, <1>2, <1>3, Names DEF UInv, PendingCounts, DownloadInv, LockInv, CallInv, Callers
<1>12. BudgetHolds'
  BY <1>1, <1>2, <1>3, Names, LimitsAssumption DEF UInv, BudgetHolds
<1>13. PauseInv'
  BY <1>1, <1>2, <1>3, Names DEF UInv, PauseInv, LockInv, DownloadInv, CallInv, Callers
<1> QED BY <1>4, <1>5, <1>6, <1>7, <1>8, <1>9, <1>10, <1>11, <1>12, <1>13 DEF UInv

-----------------------------------------------------------------------------
(* Applying an update.                                                      *)

Ready(c, mem) ==
    /\ mem \in Memory /\ mem.busy = FALSE /\ mem.active = m.active /\ mem.phase = m.phase
    /\ mem.control = None /\ mem.download = m.download /\ mem.descriptor = m.descriptor
    /\ mem.lock \notin {"startup", "discard", "maintenance"}
    /\ m.busy = FALSE /\ m.control = None
    /\ mem.userPaused = FALSE
    /\ \/ c = "user" /\ calls["user"] = "idle" /\ mem.lock = m.lock
       \/ c = "auto" /\ calls["auto"] = "inspect" /\ mem.lock = None /\ m.lock = "inspect"

LEMMA ApplyToKeeps ==
    ASSUME UInv, NEW c \in Callers, NEW mem, Ready(c, mem), NEW j, SeenAs(j),
           c = "auto" => AutoMay(j),
           intent' \in Intents \ {"stopped"}, UNCHANGED manual,
           ApplyTo(c, mem, j)
    PROVE  UInv'
<1>1. TypeInv /\ mem \in Memory /\ calls \in [Callers -> CallState]
  BY DEF UInv, TypeInv, Ready
<1>2. /\ mem.busy = FALSE /\ mem.active = "idle" /\ mem.phase = m.phase /\ mem.control = None
      /\ mem.download = None /\ m.download = None
      /\ m.control = None /\ mem.userPaused = FALSE
      /\ mem.lock \notin {"startup", "discard", "maintenance", "revalidate"}
  <2>1. m.active = "idle"
    BY DEF Ready, UInv, LockInv
  <2>2. m.download = None
    BY <2>1 DEF UInv, DownloadInv
  <2> QED BY <2>1, <2>2, Names DEF Ready, UInv, LockInv
<1>3. /\ \A d \in Callers : calls[d] # "apply"
      /\ c = "user" /\ calls["auto"] = "inspect" => mem.lock = "inspect"
  BY <1>2 DEF Ready, UInv, LockInv, CallInv
<1>4. /\ OnRecord(j) \in Nat /\ OnRecord(j) <= failures /\ failures \in Nat
      /\ manual /\ OnRecord(j) > 0 => OnRecord(j) = failures /\ journal' = journal
      /\ ~manual => journal' = None
      /\ journal' \in DownloadJournal \cup {None}
  BY Seen
<1>5. CASE /\ m' = mem /\ calls' = [calls EXCEPT ![c] = "idle"] /\ UNCHANGED pending
           /\ failures' = OnRecord(j)
  <2>1. /\ calls' \in [Callers -> CallState]
        /\ \A d \in Callers : calls'[d] # "apply"
        /\ calls'["auto"] = "inspect" => calls["auto"] = "inspect" /\ mem.lock = "inspect"
    BY <1>1, <1>3, <1>5 DEF Callers, CallState
  <2>2. TypeInv'
    BY <1>1, <1>4, <1>5, <2>1 DEF TypeInv
  <2>3. LockInv'
    BY <1>2, <1>5, <2>1, Names DEF LockInv, At
  <2>4. DownloadInv' /\ CallInv' /\ PauseInv'
    BY <1>2, <1>5, <2>1, Names DEF DownloadInv, CallInv, PauseInv
  <2>5. StopInv' /\ AutoApplies'
    BY <2>1 DEF StopInv, AutoApplies, Callers
  <2>6. JournalCounts'
    BY <1>2, <1>4, <1>5, Names DEF UInv, JournalCounts
  <2>7. PendingCounts'
    BY <1>2, <1>4, <1>5, <2>1, PendingParts
       DEF UInv, PendingCounts, Callers
  <2>8. BudgetHolds'
    BY <1>4, <1>5, LimitsAssumption DEF UInv, BudgetHolds
  <2> QED BY <2>2, <2>3, <2>4, <2>5, <2>6, <2>7, <2>8 DEF UInv
<1>6. CASE /\ m' = [mem EXCEPT !.phase = "error"] /\ calls' = [calls EXCEPT ![c] = "idle"]
           /\ pending' \in {None, pending} /\ failures' = OnRecord(j)
  <2>1. /\ calls' \in [Callers -> CallState]
        /\ \A d \in Callers : calls'[d] # "apply"
        /\ calls'["auto"] = "inspect" => mem.lock = "inspect"
    BY <1>1, <1>3, <1>6 DEF Callers, CallState
  <2>2. /\ m' \in Memory /\ m'.busy = FALSE /\ m'.active = "idle" /\ m'.lock = mem.lock
        /\ m'.control = None /\ m'.download = None /\ m'.userPaused = FALSE
    <3>1. m' = [mem EXCEPT !.phase = "error"] /\ mem.userPaused = FALSE
      BY <1>2, <1>6
    <3> QED BY <1>1, <1>2, <3>1 DEF Memory
  <2>3. TypeInv'
    BY <1>1, <1>4, <1>6, <2>1, <2>2 DEF TypeInv
  <2>4. LockInv'
    BY <1>2, <2>1, <2>2, Names DEF LockInv, At
  <2>5. DownloadInv' /\ CallInv' /\ PauseInv'
    BY <2>1, <2>2, Names DEF DownloadInv, CallInv, PauseInv
  <2>6. StopInv' /\ AutoApplies'
    BY <2>1 DEF StopInv, AutoApplies, Callers
  <2>7. JournalCounts'
    BY <1>4, <1>6, <2>2, Names DEF UInv, JournalCounts
  <2>8. PendingCounts'
    BY <1>4, <1>6, <2>1, <2>2, PendingParts
       DEF UInv, PendingCounts, Callers
  <2>9. BudgetHolds'
    BY <1>4, <1>6, LimitsAssumption DEF UInv, BudgetHolds
  <2> QED BY <2>3, <2>4, <2>5, <2>6, <2>7, <2>8, <2>9 DEF UInv
<1>7. CASE mem.latest \in Releases /\ Begin(c, mem, j, calls)
  BY <1>1, <1>2, <1>3, <1>7, BeginKeeps
<1>8. CASE /\ m' = Checking(mem) /\ calls' = [calls EXCEPT ![c] = "apply"]
           /\ UNCHANGED pending /\ failures' = OnRecord(j)
  <2>1. /\ calls' \in [Callers -> CallState]
        /\ calls'["auto"] = "inspect" => calls["auto"] = "inspect" /\ mem.lock = "inspect"
        /\ calls'["auto"] = "apply" => c = "auto"
    BY <1>1, <1>3, <1>8 DEF Callers, CallState
  <2>2. /\ m' \in Memory /\ m'.busy = TRUE /\ m'.active = "checking" /\ m'.lock = mem.lock
        /\ m'.control = None /\ m'.download = None /\ m'.userPaused = FALSE
    BY <1>1, <1>2, <1>8 DEF Memory, Checking
  <2>3. TypeInv'
    BY <1>1, <1>4, <1>8, <2>1, <2>2 DEF TypeInv
  <2>4. LockInv'
    BY <1>2, <2>1, <2>2, Names DEF LockInv, At
  <2>5. DownloadInv' /\ CallInv' /\ PauseInv'
    BY <2>2, Names DEF DownloadInv, CallInv, PauseInv
  <2>6. StopInv'
    BY DEF StopInv
  <2>7. AutoApplies'
    BY <1>4, <1>8, <2>1 DEF AutoApplies, AutoMay
  <2>8. JournalCounts'
    BY <1>4, <1>8, <2>2, Names DEF UInv, JournalCounts
  <2>9. PendingCounts'
    BY <1>4, <1>8, <2>1, <2>2, PendingParts
       DEF UInv, PendingCounts, AutoMay
  <2>10. BudgetHolds'
    BY <1>4, <1>8, LimitsAssumption DEF UInv, BudgetHolds
  <2> QED BY <2>3, <2>4, <2>5, <2>6, <2>7, <2>8, <2>9, <2>10 DEF UInv
<1>9. mem.latest \in Releases \cup {None}
  BY <1>1 DEF Memory
<1> QED BY <1>5, <1>6, <1>7, <1>8, <1>9 DEF ApplyTo, BeginChecked, Refuse, ClearPending

LEMMA ApplyKeeps == ASSUME UInv, Apply PROVE UInv'
<1> DEFINE mem == [m EXCEPT !.userPaused = FALSE]
<1>1. TypeInv /\ m \in Memory /\ m.busy \in BOOLEAN
  BY MemoryParts DEF UInv, TypeInv
<1>2. /\ mem \in Memory /\ mem.busy = m.busy /\ mem.active = m.active /\ mem.phase = m.phase
      /\ mem.control = m.control /\ mem.download = m.download
      /\ mem.descriptor = m.descriptor /\ mem.lock = m.lock /\ mem.userPaused = FALSE
  BY <1>1 DEF Memory
<1>3. /\ ApplyTo("user", mem, journal) /\ intent' = "wanted" /\ UNCHANGED <<manual, journal>>
      /\ calls["user"] = "idle" /\ m.busy = FALSE /\ m.control = None
      /\ m.lock \notin {"startup", "discard", "maintenance"}
  BY <1>1 DEF Apply, Settling, Refused
<1> HIDE DEF mem
<1>4. Ready("user", mem)
  BY <1>1, <1>2, <1>3 DEF Ready
<1> QED BY <1>3, <1>4, ApplyToKeeps DEF Callers, SeenAs, Intents

LEMMA InspectedKeeps == ASSUME UInv, Inspected PROVE UInv'
<1> DEFINE mem == [m EXCEPT !.lock = None]
<1>1. TypeInv /\ m \in Memory /\ m.busy \in BOOLEAN /\ m.userPaused \in BOOLEAN
  BY MemoryParts DEF UInv, TypeInv, Memory
<1>2. /\ mem \in Memory /\ mem.busy = m.busy /\ mem.active = m.active /\ mem.phase = m.phase
      /\ mem.control = m.control /\ mem.download = m.download
      /\ mem.descriptor = m.descriptor /\ mem.lock = None /\ mem.userPaused = m.userPaused
  BY <1>1 DEF Memory
<1>3. /\ UNCHANGED manual /\ calls["auto"] = "inspect" /\ m.lock = "inspect"
      /\ m.control # Cleaning
  BY Names DEF Inspected, UInv, LockInv, CallInv
<1>4. PICK read \in Reads :
         /\ ~Paused(read.got) /\ journal' = read.left
         /\ \/ (m' = mem \/ m' = [mem EXCEPT !.phase = "error"]) /\ StopResume(read.left)
            \/ /\ Resumable(read.got) /\ ~Refused /\ ~m.busy /\ ~m.userPaused
               /\ ApplyTo("auto", mem, read.got) /\ intent' = Recall(read.got)
  BY DEF Inspected
<1>5. /\ journal' \in {journal, None} /\ SeenAs(read.got)
      /\ read.got \in {journal, None}
  BY <1>4 DEF Reads, Read, SeenAs
<1>6. CASE (m' = mem \/ m' = [mem EXCEPT !.phase = "error"]) /\ StopResume(read.left)
  <2>1. /\ m'.userPaused = m.userPaused
        /\ m' \in Memory /\ m'.busy = m.busy /\ m'.active = m.active /\ m'.lock = None
        /\ m'.phase \in {m.phase, "error"}
        /\ m'.control = m.control /\ m'.descriptor = m.descriptor
        /\ m'.download = m.download
    <3>1. CASE m' = mem
      BY <1>2, <3>1
    <3>2. CASE m' = [mem EXCEPT !.phase = "error"]
      BY <1>2, <3>2 DEF Memory
    <3> QED BY <1>6, <3>1, <3>2
  <2>2. /\ calls' \in [Callers -> CallState] /\ calls'["auto"] = "idle"
        /\ calls'["user"] = calls["user"] /\ UNCHANGED pending
    BY <1>1, <1>6 DEF TypeInv, Callers, CallState, StopResume
  <2>3. /\ failures' \in Nat /\ failures' <= failures /\ failures \in Nat
        /\ failures' > 0 => journal' = journal /\ failures' = failures
        /\ journal' \in DownloadJournal \cup {None} /\ intent' \in Intents
        /\ intent' = "stopped" => intent = "stopped" /\ journal' = journal
        /\ journal = None => journal' = None /\ failures' = failures
    BY <1>4, <1>5, <1>6, JournalLost DEF StopResume
  <2>4. TypeInv'
    BY <1>1, <1>3, <2>1, <2>2, <2>3 DEF TypeInv
  <2>5. LockInv'
    BY <1>3, <2>1, <2>2, <2>3, Names DEF UInv, LockInv, At
  <2>6. DownloadInv' /\ CallInv' /\ PauseInv'
    BY <1>3, <2>1, <2>2, <2>3, Names, LimitsAssumption
       DEF UInv, DownloadInv, CallInv, PauseInv, Callers
  <2>7. StopInv'
    BY <1>3, <2>1, <2>2, <2>3, Names DEF UInv, StopInv, AtRest, Callers
  <2>8. JournalCounts'
    BY <1>3, <2>1, <2>2, <2>3, Names DEF UInv, JournalCounts
  <2>9. PendingCounts' /\ AutoApplies' /\ BudgetHolds'
    BY <1>3, <2>1, <2>2, <2>3, LimitsAssumption DEF UInv, PendingCounts, AutoApplies, BudgetHolds
  <2> QED BY <2>4, <2>5, <2>6, <2>7, <2>8, <2>9 DEF UInv
<1>7. CASE /\ Resumable(read.got) /\ ~Refused /\ ~m.busy /\ ~m.userPaused
           /\ ApplyTo("auto", mem, read.got) /\ intent' = Recall(read.got)
  <2>1. m.busy = FALSE /\ m.control = None /\ m.userPaused = FALSE
    BY <1>1, <1>7 DEF Refused
  <2>2. Ready("auto", mem)
    BY <1>1, <1>2, <1>3, <2>1, Names DEF Ready
  <2>3. AutoMay(read.got)
    <3>1. failures \in Nat /\ MaxAttempts \in Nat /\ MaxAttempts > 0
      BY <1>1, LimitsAssumption DEF TypeInv
    <3>2. ASSUME manual, OnRecord(read.got) > 0
          PROVE  OnRecord(read.got) < MaxAttempts /\ ~journal.paused
      <4>1. OnRecord(read.got) = failures /\ read.got = journal /\ journal # None
        BY <1>5, <3>2, Seen
      <4>2. ~journal.paused /\ journal.attempts < MaxAttempts
        BY <1>4, <1>7, <4>1 DEF Paused, Resumable
      <4> QED BY <1>1, <3>1, <3>2, <4>1, <4>2, JournalParts DEF UInv, JournalCounts
    <3>3. OnRecord(read.got) \in Nat
      BY <1>1, Recorders
    <3> QED BY <1>3, <3>1, <3>2, <3>3 DEF UInv, PendingCounts, AutoMay
  <2>4. intent' \in Intents \ {"stopped"}
    <3>1. intent = "stopped" => Paused(journal) /\ read.got = None
      BY <1>3, <1>4, <1>5 DEF UInv, StopInv, AtRest, Paused
    <3> QED BY <1>1, <1>7, <3>1 DEF Recall, Intents, TypeInv
  <2> HIDE DEF mem
  <2> QED BY <1>3, <1>5, <1>7, <2>2, <2>3, <2>4, ApplyToKeeps DEF Callers
<1> QED BY <1>4, <1>6, <1>7

LEMMA CheckOffersKeeps ==
    ASSUME UInv, NEW release \in Releases, CheckOffers(release)
    PROVE  UInv'
<1> DEFINE mem == Checked("available", release, release)
<1>1. TypeInv /\ m \in Memory
  BY DEF UInv, TypeInv
<1>2. /\ mem \in Memory /\ mem.busy = FALSE /\ mem.active = "idle" /\ mem.phase = "available"
      /\ mem.control = m.control /\ mem.download = m.download /\ mem.latest = release
      /\ mem.descriptor = m.descriptor /\ mem.lock = m.lock /\ mem.userPaused = m.userPaused
  BY <1>1 DEF Memory, Checked
<1>3. /\ UNCHANGED <<manual, journal, intent>> /\ m.active = "checking"
      /\ m.download = None /\ m.control = None
      /\ m.lock \notin {"startup", "discard", "maintenance", "revalidate"}
  BY DEF CheckOffers, UInv, LockInv, DownloadInv, CallInv
<1>4. /\ Answered \in [Callers -> CallState]
      /\ \A c \in Callers : Answered[c] # "apply"
      /\ Answered["auto"] = "inspect" => calls["auto"] = "inspect" /\ m.lock = "inspect"
  BY <1>1 DEF Answered, Callers, CallState, TypeInv, UInv, LockInv
<1> HIDE DEF mem
<1>5. CASE m' = mem /\ calls' = Answered /\ UNCHANGED <<pending, failures>>
  <2>1. TypeInv'
    BY <1>1, <1>2, <1>3, <1>4, <1>5 DEF TypeInv
  <2>2. LockInv'
    BY <1>2, <1>3, <1>4, <1>5, Names DEF UInv, LockInv, At
  <2>3. DownloadInv' /\ CallInv' /\ PauseInv'
    BY <1>2, <1>3, <1>4, <1>5, Names DEF UInv, DownloadInv, CallInv, PauseInv
  <2>4. StopInv'
    BY <1>2, <1>3, <1>4, <1>5, Names DEF UInv, StopInv, AtRest
  <2>5. JournalCounts'
    BY <1>2, <1>3, <1>5, Names DEF UInv, JournalCounts
  <2>6. PendingCounts' /\ AutoApplies'
    BY <1>2, <1>3, <1>4, <1>5 DEF UInv, PendingCounts, AutoApplies, Callers
  <2> QED BY <1>5, <2>1, <2>2, <2>3, <2>4, <2>5, <2>6 DEF UInv, BudgetHolds
<1>6. ASSUME NEW c \in Callers, calls[c] = "apply", Begin(c, mem, journal, Answered)
      PROVE  UInv'
  <2>1. intent' \in Intents \ {"stopped"}
    BY <1>1, <1>3, <1>6 DEF UInv, StopInv, TypeInv
  <2>2. c = "auto" => AutoMay(journal)
    <3>1. OnRecord(journal) = failures
      BY DEF OnRecord
    <3> QED BY <1>6, <3>1 DEF UInv, AutoApplies, PendingCounts, AutoMay
  <2>3. m.userPaused = FALSE
    BY <1>1, <1>3, <1>6 DEF UInv, PauseInv, Memory
  <2>4. SeenAs(journal)
    BY <1>3 DEF SeenAs
  <2> QED BY <1>2, <1>3, <1>4, <1>6, <2>1, <2>2, <2>3, <2>4, BeginKeeps
<1> QED BY <1>5, <1>6 DEF CheckOffers, mem
-----------------------------------------------------------------------------
(* Downloads.                                                               *)

(* A package is downloaded by hand; its journal is the counter.             *)
LEMMA ClearKeeps ==
    ASSUME NEW j \in DownloadJournal
    PROVE  Cleared(j) \in DownloadJournal /\ Cleared(j).release = j.release
<1>1. 0 \in 0..CounterLimit
  BY LimitsAssumption
<1> DEFINE A == 0..CounterLimit
<1>2. DownloadJournal = [release : Releases, attempts : A, paused : BOOLEAN,
                         manualRetry : BOOLEAN]
  BY DEF DownloadJournal
<1>3. 0 \in A
  BY <1>1
<1> HIDE DEF A
<1> QED BY <1>2, <1>3 DEF Cleared

LEMMA Prepares ==
    ASSUME TypeInv, NEW j \in {journal, None}, NEW r \in Releases
    PROVE  /\ Prepared(j, r) \in DownloadJournal /\ Prepared(j, r).release = r
           /\ j # None /\ j.release = r => Prepared(j, r) = j
           /\ Cleared(Prepared(j, r)) \in DownloadJournal
           /\ Cleared(Prepared(j, r)).release = r
           /\ [Prepared(j, r) EXCEPT !.paused = TRUE] \in DownloadJournal
           /\ [Prepared(j, r) EXCEPT !.paused = TRUE].release = r
           /\ [Prepared(j, r) EXCEPT !.paused = TRUE].paused = TRUE
<1> DEFINE p == Prepared(j, r)
<1>1. p \in DownloadJournal /\ p.release = r
  <2>1. NewJournal(r) \in DownloadJournal /\ NewJournal(r).release = r
    BY LimitsAssumption DEF NewJournal, DownloadJournal
  <2> QED BY <2>1, JournalParts DEF Prepared
<1>2. j # None /\ j.release = r => p = j
  BY DEF Prepared
<1> HIDE DEF p
<1>3. Cleared(p) \in DownloadJournal /\ Cleared(p).release = r
  BY <1>1, ClearKeeps
<1>4. /\ [p EXCEPT !.paused = TRUE] \in DownloadJournal
      /\ [p EXCEPT !.paused = TRUE].release = r /\ [p EXCEPT !.paused = TRUE].paused = TRUE
  BY <1>1 DEF DownloadJournal
<1> QED BY <1>1, <1>2, <1>3, <1>4 DEF p

LEMMA Counts ==
    ASSUME TypeInv, pending # None, NEW kind
    PROVE  /\ Counted(pending, kind) \in PendingIntent /\ Counted(pending, kind) # None
           /\ Counted(pending, kind).release = pending.release
           /\ kind # "transient" => Counted(pending, kind) = pending
           /\ kind = "transient" =>
                 /\ Counted(pending, kind).status = "downloading"
                 /\ Counted(pending, kind).attempts
                      = IF pending.attempts < MaxAttempts THEN pending.attempts + 1
                        ELSE MaxAttempts
<1>1. CASE kind # "transient"
  BY <1>1, PendingParts DEF Counted, AutomaticRetry
<1>2. CASE kind = "transient"
  <2>1. AtMost(pending.attempts + 1, MaxAttempts)
           = IF pending.attempts < MaxAttempts THEN pending.attempts + 1 ELSE MaxAttempts
    BY PendingParts, LimitsAssumption DEF AtMost
  <2>2. AtMost(pending.attempts + 1, MaxAttempts) \in 0..MaxAttempts
    BY <2>1, PendingParts, LimitsAssumption
  <2>3. pending \in PendingIntent
    BY PendingParts
  <2>4. Counted(pending, kind) = [pending EXCEPT !.status = "downloading",
                                    !.attempts = AtMost(pending.attempts + 1, MaxAttempts)]
    BY <1>2, <2>3 DEF Counted, AutomaticRetry, PendingIntent
  <2>5. /\ Counted(pending, kind) \in PendingIntent
        /\ Counted(pending, kind).release = pending.release
        /\ Counted(pending, kind).status = "downloading"
        /\ Counted(pending, kind).attempts = AtMost(pending.attempts + 1, MaxAttempts)
    BY <2>2, <2>3, <2>4 DEF PendingIntent
  <2> QED BY <1>2, <2>1, <2>5, NoRecordAssumption
<1> QED BY <1>1, <1>2

LEMMA ClearsJournal ==
    ASSUME UInv, At("stage")
    PROVE  /\ journal # None /\ Cleared(journal) \in DownloadJournal
           /\ Cleared(journal).release = journal.release
<1>1. journal # None /\ journal \in DownloadJournal
  BY JournalParts DEF UInv, LockInv
<1> QED BY <1>1, ClearKeeps

(* While a download runs the learner has not stopped it.                    *)
LEMMA Running ==
    ASSUME UInv, m.download # None
    PROVE  /\ intent \in Intents \ {"stopped"} /\ m.active = "downloading"
           /\ m.lock \notin {"startup", "maintenance", "revalidate", "discard"}
           /\ m.descriptor = m.download.release
           /\ pending # None /\ pending.release = m.download.release
           /\ failures \in Nat /\ failures < MaxAttempts
           /\ \A c \in Callers : calls[c] # "apply"
BY DEF UInv, TypeInv, StopInv, DownloadInv, LockInv, CallInv

LEMMA ReturnInterruptedKeeps == ASSUME UInv, ReturnInterrupted PROVE UInv'
<1>1. TypeInv /\ m \in Memory
  BY DEF UInv, TypeInv
<1>2. /\ m'.userPaused = m.userPaused
      /\ m' \in Memory /\ m'.phase = m.phase /\ m'.busy = FALSE /\ m'.active = "idle"
      /\ m'.lock = IF At("stage") THEN None ELSE m.lock
      /\ m'.control = m.control /\ m'.descriptor = m.descriptor /\ m'.download = None
  BY <1>1 DEF ReturnInterrupted, Memory, Ended
<1>3. /\ UNCHANGED <<manual, pending, intent>>
      /\ journal' \in {journal, None} \cup DownloadJournal /\ failures' \in Nat
      /\ failures' > 0 => journal' = journal /\ failures' = failures
      /\ manual /\ failures \in Nat /\ m.download # None /\ intent \in Intents \ {"stopped"}
      /\ m.active = "downloading"
      /\ m.lock \notin {"startup", "maintenance", "revalidate", "discard"} /\ pending # None
      /\ pending.release = m.download.release
      /\ \A c \in Callers : calls[c] # "apply"
      /\ calls' \in [Callers -> CallState]
      /\ \A c \in Callers : calls'[c] # "apply" /\ (calls'[c] = "inspect" => calls[c] = "inspect")
  <2>1. /\ m.download # None /\ manual /\ UNCHANGED <<manual, pending, intent>>
        /\ calls' = [calls EXCEPT ![m.download.by] = "idle"]
        /\ Verified \/ UNCHANGED <<journal, failures>>
    BY DEF ReturnInterrupted, At, EndCall
  <2>2. journal' \in {journal, None} \cup DownloadJournal /\ failures' \in Nat
    BY <1>1, <2>1, ClearsJournal DEF UInv, TypeInv, Verified
  <2>3. failures' > 0 => journal' = journal /\ failures' = failures
    BY <2>1 DEF Verified
  <2>4. /\ calls' \in [Callers -> CallState]
        /\ \A c \in Callers :
              calls'[c] # "apply" /\ (calls'[c] = "inspect" => calls[c] = "inspect")
    BY <1>1, <2>1, Running DEF TypeInv, Callers, CallState
  <2> QED BY <1>1, <2>1, <2>2, <2>3, <2>4, Running
<1>4. TypeInv'
  BY <1>1, <1>2, <1>3 DEF TypeInv, Callers, CallState, Intents
<1>5. LockInv'
  BY <1>1, <1>2, <1>3, Names DEF UInv, LockInv, At, Callers
<1>6. DownloadInv'
  BY <1>1, <1>2, <1>3, Names DEF UInv, DownloadInv
<1>7. CallInv'
  BY <1>1, <1>2, <1>3, Names DEF UInv, CallInv, Callers
<1>8. StopInv'
  BY <1>1, <1>2, <1>3, Names DEF UInv, StopInv, AtRest, LockInv, CallInv, Callers
<1>9. JournalCounts'
  BY <1>1, <1>2, <1>3, Names DEF UInv, JournalCounts, LockInv, DownloadInv, CallInv
<1>10. AutoApplies'
  BY <1>1, <1>2, <1>3, Names DEF UInv, AutoApplies, CallInv, Callers
<1>11. PendingCounts'
  BY <1>1, <1>2, <1>3, Names DEF UInv, PendingCounts, DownloadInv, LockInv, CallInv, Callers
<1>12. BudgetHolds'
  BY <1>1, <1>2, <1>3, Names, LimitsAssumption DEF UInv, BudgetHolds
<1>13. PauseInv'
  BY <1>1, <1>2, <1>3, Names DEF UInv, PauseInv, LockInv, DownloadInv, CallInv, Callers
<1> QED BY <1>4, <1>5, <1>6, <1>7, <1>8, <1>9, <1>10, <1>11, <1>12, <1>13 DEF UInv

LEMMA StageBeginsKeeps == ASSUME UInv, StageBegins PROVE UInv'
<1>1. TypeInv /\ m \in Memory
  BY DEF UInv, TypeInv
<1>2. /\ m'.userPaused = m.userPaused
      /\ m' \in Memory /\ m'.phase = m.phase /\ m'.busy = m.busy /\ m'.active = m.active
      /\ m'.lock = "stage" /\ m'.control = m.control /\ m'.descriptor = m.descriptor
      /\ m'.download = [m.download EXCEPT !.pc = "stage"]
  <2>1. m.download \in Download
    BY <1>1, DownloadParts DEF StageBegins, At
  <2> DEFINE d == [m.download EXCEPT !.pc = "stage"]
  <2>2. d \in Download
    BY <2>1 DEF Download
  <2>3. m' = [m EXCEPT !.lock = "stage", !.download = d]
    BY <1>1 DEF StageBegins, Memory
  <2> HIDE DEF d
  <2>4. /\ m'.userPaused = m.userPaused
        /\ m' \in Memory /\ m'.phase = m.phase /\ m'.busy = m.busy /\ m'.active = m.active
        /\ m'.lock = "stage" /\ m'.control = m.control /\ m'.descriptor = m.descriptor
        /\ m'.download = d
    BY <1>1, <2>2, <2>3 DEF Memory, Locks
  <2> QED BY <2>4 DEF d
<1>3. /\ UNCHANGED <<manual, pending, calls, intent>> /\ m'.download \in Download
      /\ m'.download.by = m.download.by /\ m'.download.release = m.download.release
      /\ m'.download.attempt = m.download.attempt /\ manual /\ m.lock = None
      /\ journal' \in DownloadJournal /\ journal' # None
      /\ journal'.release = m.download.release
      /\ failures' \in Nat /\ failures' <= failures /\ failures \in Nat
      /\ failures' > 0 => journal' = journal /\ failures' = failures
      /\ m.download # None /\ intent \in Intents \ {"stopped"} /\ m.active = "downloading"
      /\ m.lock \notin {"startup", "maintenance", "revalidate", "discard"} /\ pending # None
      /\ pending.release = m.download.release
      /\ \A c \in Callers : calls[c] # "apply"
  <2>1. PICK left \in {journal, None} :
           /\ m.download # None /\ manual /\ m.lock = None
           /\ UNCHANGED <<manual, pending, calls, intent>>
           /\ failures' = OnRecord(left)
           /\ \/ journal' = Prepared(left, m.download.release)
              \/ /\ m.download.attempt = 1 /\ m.download.by = "user"
                 /\ journal' = Cleared(Prepared(left, m.download.release))
    BY DEF StageBegins, At, Reads, Read
  <2>2. m.download \in Download /\ m.download.release \in Releases
    BY <1>1, <2>1, DownloadParts
  <2>3. /\ m'.download \in Download /\ m'.download.by = m.download.by
        /\ m'.download.release = m.download.release
        /\ m'.download.attempt = m.download.attempt
    BY <1>2, <2>2 DEF Download
  <2>4. journal' \in DownloadJournal /\ journal'.release = m.download.release
    <3>1. /\ Prepared(left, m.download.release) \in DownloadJournal
          /\ Prepared(left, m.download.release).release = m.download.release
          /\ Cleared(Prepared(left, m.download.release)) \in DownloadJournal
          /\ Cleared(Prepared(left, m.download.release)).release = m.download.release
      BY <1>1, <2>2, Prepares
    <3> QED BY <2>1, <3>1
  <2>5. journal' # None
    BY <2>4, NoRecordAssumption
  <2>6. /\ failures' \in Nat /\ failures' <= failures /\ failures \in Nat
        /\ failures' > 0 => journal' = journal /\ failures' = failures
    <3>1. /\ failures' \in Nat /\ failures' <= failures /\ failures \in Nat
          /\ failures' > 0 => failures' = failures /\ (left # None \/ journal = None)
      BY <1>1, <2>1, Recorders DEF TypeInv
    <3>2. ASSUME failures' > 0 PROVE journal' = journal
      <4>1. ~(m.download.attempt = 1 /\ m.download.by = "user")
        BY <2>1, <3>1, <3>2 DEF UInv, DownloadInv
      <4>2. left = journal /\ journal # None /\ journal.release = m.download.release
        BY <2>1, <3>1, <3>2 DEF UInv, JournalCounts
      <4> QED BY <1>1, <2>1, <2>2, <4>1, <4>2, Prepares
    <3> QED BY <3>1, <3>2
  <2> QED BY <2>1, <2>3, <2>4, <2>5, <2>6, Running
<1>4. TypeInv'
  BY <1>1, <1>2, <1>3 DEF TypeInv, Callers, CallState, Intents
<1>5. LockInv'
  BY <1>1, <1>2, <1>3, Names DEF UInv, LockInv, At, Callers
<1>6. DownloadInv'
  BY <1>1, <1>2, <1>3, Names, LimitsAssumption DEF UInv, DownloadInv
<1>7. CallInv'
  BY <1>1, <1>2, <1>3, Names DEF UInv, CallInv, Callers
<1>8. StopInv'
  BY <1>1, <1>2, <1>3, Names DEF UInv, StopInv, AtRest, LockInv, CallInv, Callers
<1>9. JournalCounts'
  BY <1>1, <1>2, <1>3, Names DEF UInv, JournalCounts, LockInv, DownloadInv, CallInv
<1>10. AutoApplies'
  BY <1>1, <1>2, <1>3, Names DEF UInv, AutoApplies, CallInv, Callers
<1>11. PendingCounts'
  BY <1>1, <1>2, <1>3, Names DEF UInv, PendingCounts, DownloadInv, LockInv, CallInv, Callers
<1>12. BudgetHolds'
  BY <1>1, <1>2, <1>3, Names, LimitsAssumption DEF UInv, BudgetHolds
<1>13. PauseInv'
  BY <1>1, <1>2, <1>3, Names DEF UInv, PauseInv, LockInv, DownloadInv, CallInv, Callers
<1> QED BY <1>4, <1>5, <1>6, <1>7, <1>8, <1>9, <1>10, <1>11, <1>12, <1>13 DEF UInv

LEMMA CallEnds ==
    ASSUME UInv, m.download # None, EndCall
    PROVE  /\ calls' \in [Callers -> CallState]
           /\ \A c \in Callers :
                 calls'[c] # "apply" /\ (calls'[c] = "inspect" => calls[c] = "inspect")
<1>1. m.download.by \in Callers /\ calls \in [Callers -> CallState]
  BY DownloadParts DEF UInv, TypeInv
<1>2. calls' = [calls EXCEPT ![m.download.by] = "idle"]
  BY DEF EndCall
<1> QED BY <1>1, <1>2, Running DEF Callers, CallState

LEMMA VerifiedIntent ==
    ASSUME TypeInv, NEW r \in Releases,
           pending' = [release |-> r, status |-> "verified-ready",
                       attempts |-> IF pending = None THEN 0 ELSE pending.attempts]
    PROVE  /\ pending' \in PendingIntent /\ pending' # None /\ pending'.release = r
           /\ pending # None => pending'.attempts = pending.attempts
<1>1. (IF pending = None THEN 0 ELSE pending.attempts) \in 0..MaxAttempts
  BY PendingParts, LimitsAssumption
<1>2. pending' \in PendingIntent
  BY <1>1 DEF PendingIntent
<1> QED BY <1>2, NoRecordAssumption

LEMMA StagedKeeps == ASSUME UInv, Staged PROVE UInv'
<1>1. TypeInv /\ m \in Memory
  BY DEF UInv, TypeInv
<1>2. /\ m'.userPaused = m.userPaused
      /\ m' \in Memory /\ m'.phase = "restart-required" /\ m'.busy = FALSE
      /\ m'.active = "idle" /\ m'.lock = None /\ m'.control = m.control
      /\ m'.descriptor = m.descriptor /\ m'.download = None
  BY <1>1 DEF Staged, Memory, Ended
<1>3. /\ UNCHANGED <<manual, intent>> /\ manual /\ failures' = 0
      /\ journal' \in DownloadJournal /\ pending' \in PendingIntent /\ m.lock = "stage"
      /\ intent \in Intents \ {"stopped"} /\ m.active = "downloading"
      /\ m.lock \notin {"startup", "maintenance", "revalidate", "discard"} /\ pending # None
      /\ pending.release = m.download.release
      /\ \A c \in Callers : calls[c] # "apply"
      /\ calls' \in [Callers -> CallState]
      /\ \A c \in Callers : calls'[c] # "apply" /\ (calls'[c] = "inspect" => calls[c] = "inspect")
  <2>1. /\ m.download # None /\ At("stage") /\ manual /\ UNCHANGED <<manual, intent>>
        /\ failures' = 0 /\ journal' = Cleared(journal) /\ EndCall
    BY DEF Staged, At, Verified
  <2>2. pending' \in PendingIntent
    BY <1>1, <2>1, DownloadParts, VerifiedIntent DEF Staged
  <2>3. journal' \in DownloadJournal /\ m.lock = "stage"
    BY <2>1, ClearsJournal DEF UInv, LockInv
  <2> QED BY <2>1, <2>2, <2>3, CallEnds, Running
<1>4. TypeInv'
  BY <1>1, <1>2, <1>3 DEF TypeInv, Callers, CallState, Intents
<1>5. LockInv'
  BY <1>1, <1>2, <1>3, Names DEF UInv, LockInv, At, Callers
<1>6. DownloadInv'
  BY <1>1, <1>2, <1>3, Names DEF UInv, DownloadInv
<1>7. CallInv'
  BY <1>1, <1>2, <1>3, Names DEF UInv, CallInv, Callers
<1>8. StopInv'
  BY <1>1, <1>2, <1>3, Names DEF UInv, StopInv, AtRest, LockInv, CallInv, Callers
<1>9. JournalCounts'
  BY <1>1, <1>2, <1>3, Names DEF UInv, JournalCounts, LockInv, DownloadInv, CallInv
<1>10. AutoApplies'
  BY <1>1, <1>2, <1>3, Names DEF UInv, AutoApplies, CallInv, Callers
<1>11. PendingCounts'
  BY <1>1, <1>2, <1>3, Names DEF UInv, PendingCounts, DownloadInv, LockInv, CallInv, Callers
<1>12. BudgetHolds'
  BY <1>1, <1>2, <1>3, Names, LimitsAssumption DEF UInv, BudgetHolds
<1>13. PauseInv'
  BY <1>1, <1>2, <1>3, Names DEF UInv, PauseInv, LockInv, DownloadInv, CallInv, Callers
<1> QED BY <1>4, <1>5, <1>6, <1>7, <1>8, <1>9, <1>10, <1>11, <1>12, <1>13 DEF UInv

LEMMA StageFailsKeeps == ASSUME UInv, NEW kind \in Kinds, StageFails(kind) PROVE UInv'
<1>1. TypeInv /\ m \in Memory
  BY DEF UInv, TypeInv
<1>2. /\ m'.userPaused = m.userPaused
      /\ m' \in Memory /\ m'.phase = m.phase /\ m'.busy = m.busy /\ m'.active = m.active
      /\ m'.lock = IF At("stage") THEN None ELSE m.lock
      /\ m'.control = m.control /\ m'.descriptor = m.descriptor
      /\ m'.download = [m.download EXCEPT !.pc = "record", !.kind = kind]
  <2>1. m.download \in Download
    BY <1>1, DownloadParts DEF StageFails, At
  <2> DEFINE d == [m.download EXCEPT !.pc = "record", !.kind = kind]
  <2>2. d \in Download
    BY <2>1 DEF Download
  <2>3. m' = [m EXCEPT !.lock = IF At("stage") THEN None ELSE @, !.download = d]
    BY <1>1 DEF StageFails, Memory
  <2> HIDE DEF d
  <2>4. /\ m'.userPaused = m.userPaused
        /\ m' \in Memory /\ m'.phase = m.phase /\ m'.busy = m.busy /\ m'.active = m.active
        /\ m'.lock = IF At("stage") THEN None ELSE m.lock
        /\ m'.control = m.control /\ m'.descriptor = m.descriptor
        /\ m'.download = d
    BY <1>1, <2>2, <2>3 DEF Memory
  <2> QED BY <2>4 DEF d
<1>3. /\ UNCHANGED <<manual, calls, intent>> /\ manual /\ m'.download \in Download
      /\ m'.download.pc = "record" /\ m'.download.by = m.download.by
      /\ m'.download.release = m.download.release
      /\ m'.download.attempt = m.download.attempt /\ journal' \in {journal, None}
      /\ pending' \in PendingIntent /\ pending' # None
      /\ pending'.release = m.download.release /\ failures' \in Nat /\ failures' <= failures
      /\ journal' = journal => failures' = failures
      /\ journal' # journal => failures' = 0
      /\ failures \in Nat /\ m.download # None /\ intent \in Intents \ {"stopped"}
      /\ m.active = "downloading"
      /\ m.lock \notin {"startup", "maintenance", "revalidate", "discard"} /\ pending # None
      /\ pending.release = m.download.release
      /\ \A c \in Callers : calls[c] # "apply"
  <2>1. /\ m.download # None /\ manual /\ UNCHANGED <<manual, calls, intent>>
        /\ pending' = Counted(pending, kind) /\ journal' \in {journal, None}
        /\ failures' = IF journal' = journal THEN failures ELSE 0
    BY DEF StageFails, At
  <2>2. m.download \in Download
    BY <1>1, <2>1, DownloadParts
  <2>3. /\ m'.download \in Download /\ m'.download.pc = "record"
        /\ m'.download.by = m.download.by /\ m'.download.release = m.download.release
        /\ m'.download.attempt = m.download.attempt
    BY <1>2, <2>2 DEF Download
  <2>4. /\ pending' \in PendingIntent /\ pending' # None
        /\ pending'.release = m.download.release
    BY <1>1, <2>1, Running, Counts
  <2>5. /\ failures' \in Nat /\ failures' <= failures
        /\ journal' = journal => failures' = failures
        /\ journal' # journal => failures' = 0
    BY <2>1, Running
  <2> QED BY <2>1, <2>3, <2>4, <2>5, Running
<1>4. TypeInv'
  BY <1>1, <1>2, <1>3 DEF TypeInv, Callers, CallState, Intents
<1>5. LockInv'
  BY <1>1, <1>2, <1>3, Names DEF UInv, LockInv, At, Callers
<1>6. DownloadInv'
  BY <1>1, <1>2, <1>3, Names, LimitsAssumption DEF UInv, DownloadInv
<1>7. CallInv'
  BY <1>1, <1>2, <1>3, Names DEF UInv, CallInv, Callers
<1>8. StopInv'
  BY <1>1, <1>2, <1>3, Names DEF UInv, StopInv, AtRest, LockInv, CallInv, Callers
<1>9. JournalCounts'
  BY <1>1, <1>2, <1>3, Names DEF UInv, JournalCounts, LockInv, DownloadInv, CallInv
<1>10. AutoApplies'
  BY <1>1, <1>2, <1>3, Names DEF UInv, AutoApplies, CallInv, Callers
<1>11. PendingCounts'
  BY <1>1, <1>2, <1>3, Names DEF UInv, PendingCounts, DownloadInv, LockInv, CallInv, Callers
<1>12. BudgetHolds'
  BY <1>1, <1>2, <1>3, Names, LimitsAssumption DEF UInv, BudgetHolds
<1>13. PauseInv'
  BY <1>1, <1>2, <1>3, Names DEF UInv, PauseInv, LockInv, DownloadInv, CallInv, Callers
<1> QED BY <1>4, <1>5, <1>6, <1>7, <1>8, <1>9, <1>10, <1>11, <1>12, <1>13 DEF UInv

LEMMA UpdaterDownloadsKeeps == ASSUME UInv, UpdaterDownloads PROVE UInv'
<1>1. TypeInv /\ m \in Memory
  BY DEF UInv, TypeInv
<1>2. /\ m'.userPaused = m.userPaused
      /\ m' \in Memory /\ m'.phase = "restart-required" /\ m'.busy = FALSE
      /\ m'.active = "idle" /\ m'.lock = m.lock /\ m'.control = m.control
      /\ m'.descriptor = m.descriptor /\ m'.download = None
  BY <1>1 DEF UpdaterDownloads, Memory, Ended
<1>3. /\ UNCHANGED <<manual, journal, intent>> /\ ~manual /\ failures' = 0
      /\ pending' \in PendingIntent /\ pending'.attempts = pending.attempts
      /\ pending.attempts < MaxAttempts /\ pending.attempts \in Nat /\ m.download # None
      /\ intent \in Intents \ {"stopped"} /\ m.active = "downloading"
      /\ m.lock \notin {"startup", "maintenance", "revalidate", "discard"} /\ pending # None
      /\ pending.release = m.download.release
      /\ \A c \in Callers : calls[c] # "apply"
      /\ calls' \in [Callers -> CallState]
      /\ \A c \in Callers : calls'[c] # "apply" /\ (calls'[c] = "inspect" => calls[c] = "inspect")
  <2>1. /\ m.download # None /\ ~manual /\ UNCHANGED <<manual, journal, intent>>
        /\ failures' = 0 /\ EndCall
    BY DEF UpdaterDownloads, At
  <2>2. pending # None
    BY <2>1, Running
  <2>3. pending' \in PendingIntent /\ pending'.attempts = pending.attempts
    BY <1>1, <2>1, <2>2, DownloadParts, VerifiedIntent DEF UpdaterDownloads
  <2>4. pending.attempts < MaxAttempts /\ pending.attempts \in Nat
    BY <1>1, <2>1, <2>2, PendingParts DEF UInv, PendingCounts
  <2> QED BY <2>1, <2>3, <2>4, CallEnds, Running
<1>4. TypeInv'
  BY <1>1, <1>2, <1>3 DEF TypeInv, Callers, CallState, Intents
<1>5. LockInv'
  BY <1>1, <1>2, <1>3, Names DEF UInv, LockInv, At, Callers
<1>6. DownloadInv'
  BY <1>1, <1>2, <1>3, Names DEF UInv, DownloadInv
<1>7. CallInv'
  BY <1>1, <1>2, <1>3, Names DEF UInv, CallInv, Callers
<1>8. StopInv'
  BY <1>1, <1>2, <1>3, Names DEF UInv, StopInv, AtRest, LockInv, CallInv, Callers
<1>9. JournalCounts'
  BY <1>1, <1>2, <1>3, Names DEF UInv, JournalCounts, LockInv, DownloadInv, CallInv
<1>10. AutoApplies'
  BY <1>1, <1>2, <1>3, Names DEF UInv, AutoApplies, CallInv, Callers
<1>11. PendingCounts'
  BY <1>1, <1>2, <1>3, Names DEF UInv, PendingCounts, DownloadInv, LockInv, CallInv, Callers
<1>12. BudgetHolds'
  BY <1>1, <1>2, <1>3, Names, LimitsAssumption DEF UInv, BudgetHolds
<1>13. PauseInv'
  BY <1>1, <1>2, <1>3, Names DEF UInv, PauseInv, LockInv, DownloadInv, CallInv, Callers
<1> QED BY <1>4, <1>5, <1>6, <1>7, <1>8, <1>9, <1>10, <1>11, <1>12, <1>13 DEF UInv

LEMMA RecordedParts ==
    ASSUME NEW j \in DownloadJournal, NEW kind, NEW n \in 0..MaxAttempts
    PROVE  /\ j.attempts \in Nat
           /\ Recorded(j, kind, n) \in DownloadJournal
           /\ Recorded(j, kind, n).release = j.release
           /\ Recorded(j, kind, n).attempts \in Nat
           /\ IF kind = "storage" THEN Recorded(j, kind, n).attempts = j.attempts
              ELSE Recorded(j, kind, n).attempts >= IF j.attempts < CounterLimit
                                                    THEN j.attempts + 1 ELSE CounterLimit
<1> DEFINE A == 0..CounterLimit
           k == AtMost(AtLeast(j.attempts + 1, n), CounterLimit)
<1>1. DownloadJournal = [release : Releases, attempts : A, paused : BOOLEAN,
                         manualRetry : BOOLEAN]
  BY DEF DownloadJournal
<1>2. j.attempts \in A
  BY <1>1
<1>3. /\ k \in A
      /\ k >= IF j.attempts < CounterLimit THEN j.attempts + 1 ELSE CounterLimit
  BY <1>2, LimitsAssumption DEF AtMost, AtLeast
<1>4. A \subseteq Nat
  BY LimitsAssumption
<1> HIDE DEF A, k
<1>5. CASE kind = "storage"
  BY <1>1, <1>2, <1>4, <1>5 DEF Recorded
<1>6. CASE kind # "storage"
  <2>1. Recorded(j, kind, n) = [j EXCEPT !.manualRetry = FALSE, !.attempts = k]
    BY <1>1, <1>6 DEF Recorded, k
  <2>2. /\ Recorded(j, kind, n) \in DownloadJournal
        /\ Recorded(j, kind, n).release = j.release /\ Recorded(j, kind, n).attempts = k
    BY <1>1, <1>3, <2>1
  <2> QED BY <1>2, <1>3, <1>4, <1>6, <2>2
<1> QED BY <1>5, <1>6

(* A failure is recorded, and the loop goes on or the download ends.        *)
Retried == m' = [m EXCEPT !.download.pc = "wait", !.download.attempt = @ + 1]
GivenUp == m' = [Ended(m) EXCEPT !.phase = "error"]

LEMMA FailureRecorded ==
    ASSUME UInv, NEW written \in BOOLEAN, RecordFailure(written)
    PROVE  /\ UNCHANGED <<manual, intent>> /\ manual /\ m.download # None
           /\ journal' \in DownloadJournal \cup {None}
           /\ failures' \in Nat /\ failures' <= MaxAttempts
           /\ failures' > 0 =>
                 /\ journal' # None /\ journal'.release = m.download.release
                 /\ failures' <= journal'.attempts
           /\ \/ /\ Retried /\ m.download.attempt < RetryLimit /\ failures' < MaxAttempts
                 /\ UNCHANGED <<pending, calls>>
              \/ GivenUp /\ EndCall /\ pending' \in {pending, None}
<1> DEFINE kind == m.download.kind
           atLeast == IF pending = None THEN 0 ELSE pending.attempts
<1>1. TypeInv /\ m.download # None /\ m.download.pc = "record"
  BY DEF UInv, RecordFailure, At
<1>2. manual /\ UNCHANGED <<manual, intent>>
  BY <1>1 DEF UInv, PendingCounts, RecordFailure
<1>3. PICK read \in Reads :
        LET records == written /\ read.got # None
            j == IF records THEN Recorded(read.got, kind, atLeast) ELSE read.left
            counts == records /\ read.got.release = m.download.release /\ kind # "storage"
        IN /\ \/ /\ GoesOn(IF records THEN j ELSE None)
                 /\ Retried /\ journal' = j /\ UNCHANGED <<pending, calls>>
              \/ GivenUp /\ EndCall /\ pending' \in {pending, None} /\ journal' \in {j, None}
           /\ failures' = IF counts /\ journal' # None THEN failures + 1 ELSE OnRecord(journal')
  BY Zenon DEF RecordFailure, Retried, GivenUp, ClearPending, Reads
<1> DEFINE records == written /\ read.got # None
           j == IF records THEN Recorded(read.got, kind, atLeast) ELSE read.left
           counts == records /\ read.got.release = m.download.release /\ kind # "storage"
<1>4. /\ \/ /\ GoesOn(IF records THEN j ELSE None)
            /\ Retried /\ journal' = j /\ UNCHANGED <<pending, calls>>
         \/ GivenUp /\ EndCall /\ pending' \in {pending, None} /\ journal' \in {j, None}
      /\ failures' = IF counts /\ journal' # None THEN failures + 1 ELSE OnRecord(journal')
  BY <1>3
<1>5. atLeast \in 0..MaxAttempts
  BY <1>1, PendingParts, LimitsAssumption
<1>6. failures \in Nat /\ failures < MaxAttempts
  BY <1>1, Running
<1>7. failures > 0 =>
          journal # None /\ journal.release = m.download.release /\ failures <= journal.attempts
  BY <1>1, <1>2 DEF UInv, JournalCounts
<1>8. /\ read.got # None => read.got = journal /\ journal \in DownloadJournal
      /\ read.left \in {journal, None} /\ journal \in DownloadJournal \cup {None}
  BY <1>1, <1>3, JournalParts DEF Reads, Read
<1>9. /\ OnRecord(journal') \in Nat /\ OnRecord(journal') <= failures
      /\ OnRecord(journal') > 0 =>
            OnRecord(journal') = failures /\ (journal' # None \/ journal = None)
  BY <1>1, Recorders
<1> HIDE DEF kind, atLeast
<1>10. /\ journal' \in DownloadJournal \cup {None}
       /\ failures' \in Nat /\ failures' <= MaxAttempts
       /\ failures' > 0 =>
             /\ journal' # None /\ journal'.release = m.download.release
             /\ failures' <= journal'.attempts
       /\ failures' > failures => records /\ journal' = j /\ failures' <= j.attempts
  <2>1. CASE counts /\ journal' # None
    <3>1. /\ j = Recorded(journal, kind, atLeast) /\ journal \in DownloadJournal
          /\ journal' = j /\ journal.release = m.download.release
      BY <1>4, <1>8, <2>1
    <3>2. /\ j \in DownloadJournal /\ j.release = m.download.release
          /\ j.attempts \in Nat /\ journal.attempts \in Nat
          /\ j.attempts >= IF journal.attempts < CounterLimit
                           THEN journal.attempts + 1 ELSE CounterLimit
      BY <1>5, <2>1, <3>1, RecordedParts
    <3>3. failures' = failures + 1
      BY <1>4, <2>1
    <3>4. failures' <= j.attempts
      BY <1>6, <1>7, <3>2, <3>3, LimitsAssumption
    <3> QED BY <1>6, <2>1, <3>1, <3>2, <3>3, <3>4, LimitsAssumption
  <2>2. CASE ~(counts /\ journal' # None)
    <3>1. failures' = OnRecord(journal') /\ journal' \in {j, None}
      BY <1>4, <2>2
    <3>2. CASE records
      <4>1. /\ j = Recorded(journal, kind, atLeast) /\ journal \in DownloadJournal
            /\ read.got = journal
        BY <1>8, <3>2
      <4>2. /\ j \in DownloadJournal /\ j.release = journal.release
            /\ kind = "storage" => j.attempts = journal.attempts
        BY <1>5, <4>1, RecordedParts
      <4>3. failures' > 0 => journal' # None /\ failures' = failures /\ kind = "storage"
        BY <1>7, <1>9, <2>2, <3>1, <3>2, <4>1
      <4> QED BY <1>6, <1>7, <1>9, <3>1, <4>2, <4>3, LimitsAssumption
    <3>3. CASE ~records
      <4>1. journal' \in {journal, None}
        BY <1>8, <3>1, <3>3
      <4>2. failures' > 0 => journal' = journal /\ failures' = failures /\ journal # None
        BY <1>7, <1>9, <3>1, <4>1
      <4> QED BY <1>6, <1>7, <1>8, <1>9, <3>1, <4>1, <4>2, LimitsAssumption
    <3> QED BY <3>2, <3>3
  <2> QED BY <2>1, <2>2
<1>11. CASE GoesOn(IF records THEN j ELSE None) /\ Retried /\ UNCHANGED <<pending, calls>>
  <2>1. /\ m.download.attempt < RetryLimit
        /\ records => ~(j # None /\ j.attempts >= MaxAttempts)
    BY <1>11 DEF GoesOn, Spent
  <2>2. failures' < MaxAttempts
    <3>1. CASE failures' > failures
      <4>1. records /\ failures' <= j.attempts /\ j # None /\ j \in DownloadJournal
        BY <1>6, <1>10, <3>1
      <4>2. j.attempts \in Nat
        BY <4>1, LimitsAssumption DEF DownloadJournal
      <4> QED BY <1>10, <2>1, <4>1, <4>2, LimitsAssumption
    <3>2. CASE ~(failures' > failures)
      BY <1>6, <1>10, <3>2, LimitsAssumption
    <3> QED BY <3>1, <3>2
  <2> QED BY <1>1, <1>2, <1>10, <1>11, <2>1, <2>2
<1>12. CASE GivenUp /\ EndCall /\ pending' \in {pending, None}
  BY <1>1, <1>2, <1>10, <1>12
<1> QED BY <1>4, <1>11, <1>12

LEMMA RetriesKeeps ==
    ASSUME UInv, journal' \in DownloadJournal \cup {None},
           UNCHANGED <<manual, intent, pending, calls>>, manual, m.download # None,
           failures' \in Nat, failures' < MaxAttempts,
           failures' > 0 =>
               /\ journal' # None /\ journal'.release = m.download.release
               /\ failures' <= journal'.attempts,
           m.download.attempt < RetryLimit, Retried
    PROVE  UInv'
<1>1. TypeInv /\ m \in Memory
  BY DEF UInv, TypeInv
<1>2. /\ m'.userPaused = m.userPaused
      /\ m' \in Memory /\ m'.phase = m.phase /\ m'.busy = m.busy /\ m'.active = m.active
      /\ m'.lock = m.lock /\ m'.control = m.control /\ m'.descriptor = m.descriptor
      /\ m'.download = [m.download EXCEPT !.pc = "wait", !.attempt = m.download.attempt + 1]
  <2>1. m.download \in Download /\ m.download.attempt \in 1..RetryLimit
    BY <1>1, DownloadParts DEF Download
  <2> DEFINE d == [m.download EXCEPT !.pc = "wait", !.attempt = @ + 1]
  <2>2. m.download.attempt + 1 \in 1..RetryLimit
    BY <2>1, LimitsAssumption
  <2>3. d \in Download
    BY <2>1, <2>2 DEF Download
  <2>4. m' = [m EXCEPT !.download = d]
    BY <1>1 DEF Retried, Memory
  <2> HIDE DEF d
  <2>5. /\ m'.userPaused = m.userPaused
        /\ m' \in Memory /\ m'.phase = m.phase /\ m'.busy = m.busy /\ m'.active = m.active
        /\ m'.lock = m.lock /\ m'.control = m.control /\ m'.descriptor = m.descriptor
        /\ m'.download = d
    BY <1>1, <2>3, <2>4 DEF Memory
  <2> QED BY <2>5 DEF d
<1>3. /\ failures \in Nat /\ m'.download \in Download /\ m'.download.pc = "wait"
      /\ m'.download.by = m.download.by /\ m'.download.release = m.download.release
      /\ m'.download.attempt = m.download.attempt + 1 /\ m.download.attempt \in Nat
      /\ m.download.attempt >= 1 /\ m.download # None /\ intent \in Intents \ {"stopped"}
      /\ m.active = "downloading"
      /\ m.lock \notin {"startup", "maintenance", "revalidate", "discard"} /\ pending # None
      /\ pending.release = m.download.release
      /\ \A c \in Callers : calls[c] # "apply"
  <2>1. m.download \in Download /\ m.download.attempt \in Nat /\ m.download.attempt >= 1
    BY <1>1, DownloadParts
  <2>2. m.download.attempt + 1 \in 1..RetryLimit
    BY <2>1, LimitsAssumption
  <2>3. /\ m'.download \in Download /\ m'.download.pc = "wait"
        /\ m'.download.by = m.download.by /\ m'.download.release = m.download.release
        /\ m'.download.attempt = m.download.attempt + 1
    BY <1>2, <2>1, <2>2 DEF Download
  <2> QED BY <2>1, <2>3, Running, NoRecordAssumption
<1>4. TypeInv'
  BY <1>1, <1>2, <1>3 DEF TypeInv, Callers, CallState, Intents
<1>5. LockInv'
  BY <1>1, <1>2, <1>3, Names DEF UInv, LockInv, At, Callers
<1>6. DownloadInv'
  BY <1>1, <1>2, <1>3, Names DEF UInv, DownloadInv
<1>7. CallInv'
  BY <1>1, <1>2, <1>3, Names DEF UInv, CallInv, Callers
<1>8. StopInv'
  BY <1>1, <1>2, <1>3, Names DEF UInv, StopInv, AtRest, LockInv, CallInv, Callers
<1>9. JournalCounts'
  BY <1>1, <1>2, <1>3, Names DEF UInv, JournalCounts, LockInv, DownloadInv, CallInv
<1>10. AutoApplies'
  BY <1>1, <1>2, <1>3, Names DEF UInv, AutoApplies, CallInv, Callers
<1>11. PendingCounts'
  BY <1>1, <1>2, <1>3, Names DEF UInv, PendingCounts, DownloadInv, LockInv, CallInv, Callers
<1>12. BudgetHolds'
  BY <1>1, <1>2, <1>3, Names, LimitsAssumption DEF UInv, BudgetHolds
<1>13. PauseInv'
  BY <1>1, <1>2, <1>3, Names DEF UInv, PauseInv, LockInv, DownloadInv, CallInv, Callers
<1> QED BY <1>4, <1>5, <1>6, <1>7, <1>8, <1>9, <1>10, <1>11, <1>12, <1>13 DEF UInv

LEMMA GivesUpKeeps ==
    ASSUME UInv, journal' \in DownloadJournal \cup {None},
           UNCHANGED <<manual, intent>>, manual, m.download # None,
           failures' \in Nat, failures' <= MaxAttempts,
           failures' > 0 =>
               /\ journal' # None /\ journal'.release = m.download.release
               /\ failures' <= journal'.attempts,
           GivenUp, EndCall, pending' \in {pending, None}
    PROVE  UInv'
<1>1. TypeInv /\ m \in Memory
  BY DEF UInv, TypeInv
<1>2. /\ m'.userPaused = m.userPaused
      /\ m' \in Memory /\ m'.phase = "error" /\ m'.busy = FALSE /\ m'.active = "idle"
      /\ m'.lock = m.lock /\ m'.control = m.control /\ m'.descriptor = m.descriptor
      /\ m'.download = None
  BY <1>1 DEF GivenUp, Ended, Memory
<1>3. /\ manual /\ m.download # None /\ intent \in Intents \ {"stopped"}
      /\ m.active = "downloading"
      /\ m.lock \notin {"startup", "maintenance", "revalidate", "discard"} /\ pending # None
      /\ pending.release = m.download.release
      /\ \A c \in Callers : calls[c] # "apply"
      /\ calls' \in [Callers -> CallState]
      /\ \A c \in Callers : calls'[c] # "apply" /\ (calls'[c] = "inspect" => calls[c] = "inspect")
  BY CallEnds, Running
<1>4. TypeInv'
  BY <1>1, <1>2, <1>3 DEF TypeInv, Callers, CallState, Intents
<1>5. LockInv'
  BY <1>1, <1>2, <1>3, Names DEF UInv, LockInv, At, Callers
<1>6. DownloadInv'
  BY <1>1, <1>2, <1>3, Names DEF UInv, DownloadInv
<1>7. CallInv'
  BY <1>1, <1>2, <1>3, Names DEF UInv, CallInv, Callers
<1>8. StopInv'
  BY <1>1, <1>2, <1>3, Names DEF UInv, StopInv, AtRest, LockInv, CallInv, Callers
<1>9. JournalCounts'
  BY <1>1, <1>2, <1>3, Names DEF UInv, JournalCounts, LockInv, DownloadInv, CallInv
<1>10. AutoApplies'
  BY <1>1, <1>2, <1>3, Names DEF UInv, AutoApplies, CallInv, Callers
<1>11. PendingCounts'
  BY <1>1, <1>2, <1>3, Names DEF UInv, PendingCounts, DownloadInv, LockInv, CallInv, Callers
<1>12. BudgetHolds'
  BY <1>1, <1>2, <1>3, Names DEF UInv, BudgetHolds
<1>13. PauseInv'
  BY <1>1, <1>2, <1>3, Names DEF UInv, PauseInv, LockInv, DownloadInv, CallInv, Callers
<1> QED BY <1>4, <1>5, <1>6, <1>7, <1>8, <1>9, <1>10, <1>11, <1>12, <1>13 DEF UInv

LEMMA RecordFailureKeeps ==
    ASSUME UInv, NEW written \in BOOLEAN, RecordFailure(written)
    PROVE  UInv'
<1>1. /\ UNCHANGED <<manual, intent>> /\ manual /\ m.download # None
      /\ journal' \in DownloadJournal \cup {None}
      /\ failures' \in Nat /\ failures' <= MaxAttempts
      /\ failures' > 0 =>
            /\ journal' # None /\ journal'.release = m.download.release
            /\ failures' <= journal'.attempts
      /\ \/ /\ Retried /\ m.download.attempt < RetryLimit /\ failures' < MaxAttempts
            /\ UNCHANGED <<pending, calls>>
         \/ GivenUp /\ EndCall /\ pending' \in {pending, None}
  BY FailureRecorded
<1>2. CASE /\ Retried /\ m.download.attempt < RetryLimit /\ failures' < MaxAttempts
           /\ UNCHANGED <<pending, calls>>
  BY <1>1, <1>2, RetriesKeeps
<1>3. CASE GivenUp /\ EndCall /\ pending' \in {pending, None}
  BY <1>1, <1>3, GivesUpKeeps
<1> QED BY <1>1, <1>2, <1>3

(* The updater counts in the intent only. What one run of the learner's     *)
(* spends is less than the budget.                                          *)
LEMMA UpdaterFailed ==
    ASSUME UInv, NEW kind \in Kinds, UpdaterFails(kind)
    PROVE  /\ UNCHANGED <<manual, journal, intent>> /\ ~manual
           /\ m.download # None /\ m.download.pc = "wait"
           /\ failures' \in Nat /\ failures' <= MaxAttempts
           /\ pending' \in PendingIntent \cup {None}
           /\ pending' # None =>
                 /\ pending'.release = m.download.release /\ failures' <= pending'.attempts
                 /\ pending'.attempts >= MaxAttempts =>
                       m.download.by = "auto" /\ pending'.status = "downloading"
           /\ \/ /\ Retried /\ m.download.attempt < RetryLimit /\ failures' < MaxAttempts
                 /\ pending' # None /\ pending'.attempts < MaxAttempts /\ UNCHANGED calls
                 /\ m.download.by = "user" => pending'.attempts < m.download.attempt + 1
              \/ GivenUp /\ EndCall
<1> DEFINE p == Counted(pending, kind)
           spent == m.download.by = "auto" /\ p # None /\ p.attempts >= MaxAttempts
<1>1. /\ TypeInv /\ UNCHANGED <<manual, journal, intent>> /\ ~manual
      /\ m.download # None /\ m.download.pc = "wait"
      /\ failures' = IF AutomaticRetry(kind) THEN failures + 1 ELSE failures
  BY DEF UInv, UpdaterFails, At
<1>2. IF AutomaticRetry(kind) /\ ~spent /\ m.download.attempt < RetryLimit
      THEN /\ pending' = p /\ m' = [m EXCEPT !.download.attempt = @ + 1]
           /\ UNCHANGED calls
      ELSE /\ pending' \in IF AutomaticRetry(kind) /\ ~spent THEN {p} ELSE {p, None}
           /\ GivenUp /\ EndCall
  BY DEF UpdaterFails, GivenUp
<1>3. /\ pending # None /\ pending.release = m.download.release /\ pending.attempts \in Nat
      /\ failures \in Nat /\ failures < MaxAttempts /\ failures <= pending.attempts
      /\ pending.attempts < MaxAttempts
      /\ m.download.by = "user" => pending.attempts < m.download.attempt
      /\ pending \in PendingIntent
  BY <1>1, Running, PendingParts DEF UInv, PendingCounts
<1>4. m.download.attempt \in Nat /\ m.download.attempt <= RetryLimit /\ m.download.by \in Callers
  BY <1>1, DownloadParts
<1>5. failures' \in Nat /\ failures' <= MaxAttempts
  BY <1>1, <1>3, LimitsAssumption
<1>6. CASE AutomaticRetry(kind)
  <2>1. /\ p \in PendingIntent /\ p # None /\ p.release = m.download.release
        /\ p.status = "downloading" /\ p.attempts = pending.attempts + 1
    BY <1>1, <1>3, <1>6, Counts, LimitsAssumption DEF AutomaticRetry
  <2> HIDE DEF p
  <2>2. failures' = failures + 1 /\ failures' <= p.attempts
    BY <1>1, <1>3, <1>6, <2>1
  <2>3. ~spent => p.attempts < MaxAttempts
    BY <1>3, <1>4, <2>1, LimitsAssumption DEF Callers
  <2>4. CASE ~spent /\ m.download.attempt < RetryLimit
    <3>1. pending' = p /\ m' = [m EXCEPT !.download.attempt = @ + 1] /\ UNCHANGED calls
      BY <1>2, <1>6, <2>4
    <3>2. Retried
      <4>1. m.download \in Download /\ m \in Memory
        BY <1>1, DownloadParts DEF TypeInv
      <4> QED BY <1>1, <3>1, <4>1 DEF Retried, Download, Memory
    <3>3. m.download.by = "user" => p.attempts < m.download.attempt + 1
      BY <1>3, <1>4, <2>1
    <3>4. p.attempts < MaxAttempts /\ failures' < MaxAttempts
      BY <1>5, <2>1, <2>2, <2>3, <2>4, <1>3, LimitsAssumption
    <3>5. ~(p.attempts >= MaxAttempts)
      BY <1>3, <2>1, <3>4, LimitsAssumption
    <3> QED BY <1>1, <1>5, <2>1, <2>2, <2>4, <3>1, <3>2, <3>3, <3>4, <3>5
  <2>5. CASE spent \/ ~(m.download.attempt < RetryLimit)
    <3>1. pending' \in {p, None} /\ GivenUp /\ EndCall
      BY <1>2, <1>6, <2>5
    <3>2. p.attempts >= MaxAttempts => m.download.by = "auto"
      BY <2>1, <2>3, <1>3, LimitsAssumption
    <3> QED BY <1>1, <1>5, <2>1, <2>2, <3>1, <3>2
  <2> QED BY <2>4, <2>5
<1>7. CASE ~AutomaticRetry(kind)
  <2>1. p = pending
    BY <1>7 DEF Counted
  <2>2. pending' \in {pending, None} /\ GivenUp /\ EndCall
    BY <1>2, <1>7, <2>1
  <2>3. failures' = failures
    BY <1>1, <1>7
  <2> QED BY <1>1, <1>3, <1>5, <2>2, <2>3, LimitsAssumption
<1> QED BY <1>6, <1>7

LEMMA UpdaterRetriesKeeps ==
    ASSUME UInv, UNCHANGED <<manual, journal, intent, calls>>, ~manual, m.download # None,
           failures' \in Nat, failures' < MaxAttempts,
           pending' \in PendingIntent, pending' # None,
           pending'.release = m.download.release,
           failures' <= pending'.attempts, pending'.attempts < MaxAttempts,
           m.download.by = "user" => pending'.attempts < m.download.attempt + 1,
           m.download.attempt < RetryLimit, m.download.pc = "wait", Retried
    PROVE  UInv'
<1>1. TypeInv /\ m \in Memory
  BY DEF UInv, TypeInv
<1>2. /\ m'.userPaused = m.userPaused
      /\ m' \in Memory /\ m'.phase = m.phase /\ m'.busy = m.busy /\ m'.active = m.active
      /\ m'.lock = m.lock /\ m'.control = m.control /\ m'.descriptor = m.descriptor
      /\ m'.download = [m.download EXCEPT !.pc = "wait", !.attempt = m.download.attempt + 1]
  <2>1. m.download \in Download /\ m.download.attempt \in 1..RetryLimit
    BY <1>1, DownloadParts DEF Download
  <2> DEFINE d == [m.download EXCEPT !.pc = "wait", !.attempt = @ + 1]
  <2>2. m.download.attempt + 1 \in 1..RetryLimit
    BY <2>1, LimitsAssumption
  <2>3. d \in Download
    BY <2>1, <2>2 DEF Download
  <2>4. m' = [m EXCEPT !.download = d]
    BY <1>1 DEF Retried, Memory
  <2> HIDE DEF d
  <2>5. /\ m'.userPaused = m.userPaused
        /\ m' \in Memory /\ m'.phase = m.phase /\ m'.busy = m.busy /\ m'.active = m.active
        /\ m'.lock = m.lock /\ m'.control = m.control /\ m'.descriptor = m.descriptor
        /\ m'.download = d
    BY <1>1, <2>3, <2>4 DEF Memory
  <2> QED BY <2>5 DEF d
<1>3. /\ failures \in Nat /\ m'.download \in Download /\ m'.download.pc = "wait"
      /\ m'.download.by = m.download.by /\ m'.download.release = m.download.release
      /\ m'.download.attempt = m.download.attempt + 1 /\ m.download.attempt \in Nat
      /\ m.download.attempt >= 1 /\ m.download # None /\ intent \in Intents \ {"stopped"}
      /\ m.active = "downloading"
      /\ m.lock \notin {"startup", "maintenance", "revalidate", "discard"} /\ pending # None
      /\ pending.release = m.download.release
      /\ \A c \in Callers : calls[c] # "apply"
  <2>1. m.download \in Download /\ m.download.attempt \in Nat /\ m.download.attempt >= 1
    BY <1>1, DownloadParts
  <2>2. m.download.attempt + 1 \in 1..RetryLimit
    BY <2>1, LimitsAssumption
  <2>3. /\ m'.download \in Download /\ m'.download.pc = "wait"
        /\ m'.download.by = m.download.by /\ m'.download.release = m.download.release
        /\ m'.download.attempt = m.download.attempt + 1
    BY <1>2, <2>1, <2>2 DEF Download
  <2> QED BY <2>1, <2>3, Running, NoRecordAssumption
<1>4. TypeInv'
  BY <1>1, <1>2, <1>3 DEF TypeInv, Callers, CallState, Intents
<1>5. LockInv'
  BY <1>1, <1>2, <1>3, Names DEF UInv, LockInv, At, Callers
<1>6. DownloadInv'
  BY <1>1, <1>2, <1>3, Names DEF UInv, DownloadInv
<1>7. CallInv'
  BY <1>1, <1>2, <1>3, Names DEF UInv, CallInv, Callers
<1>8. StopInv'
  BY <1>1, <1>2, <1>3, Names DEF UInv, StopInv, AtRest, LockInv, CallInv, Callers
<1>9. JournalCounts'
  BY <1>1, <1>2, <1>3, Names DEF UInv, JournalCounts, LockInv, DownloadInv, CallInv
<1>10. AutoApplies'
  BY <1>1, <1>2, <1>3, Names DEF UInv, AutoApplies, CallInv, Callers
<1>11. PendingCounts'
  BY <1>1, <1>2, <1>3, Names DEF UInv, PendingCounts, DownloadInv, LockInv, CallInv, Callers
<1>12. BudgetHolds'
  BY <1>1, <1>2, <1>3, Names, LimitsAssumption DEF UInv, BudgetHolds
<1>13. PauseInv'
  BY <1>1, <1>2, <1>3, Names DEF UInv, PauseInv, LockInv, DownloadInv, CallInv, Callers
<1> QED BY <1>4, <1>5, <1>6, <1>7, <1>8, <1>9, <1>10, <1>11, <1>12, <1>13 DEF UInv

LEMMA UpdaterGivesUpKeeps ==
    ASSUME UInv, UNCHANGED <<manual, journal, intent>>, ~manual, m.download # None,
           failures' \in Nat, failures' <= MaxAttempts,
           pending' \in PendingIntent \cup {None},
           pending' # None =>
               /\ failures' <= pending'.attempts
               /\ pending'.attempts >= MaxAttempts =>
                     m.download.by = "auto" /\ pending'.status = "downloading",
           GivenUp, EndCall
    PROVE  UInv'
<1>1. TypeInv /\ m \in Memory
  BY DEF UInv, TypeInv
<1>2. /\ m'.userPaused = m.userPaused
      /\ m' \in Memory /\ m'.phase = "error" /\ m'.busy = FALSE /\ m'.active = "idle"
      /\ m'.lock = m.lock /\ m'.control = m.control /\ m'.descriptor = m.descriptor
      /\ m'.download = None
  BY <1>1 DEF GivenUp, Ended, Memory
<1>3. /\ ~manual /\ m.download # None /\ intent \in Intents \ {"stopped"}
      /\ m.active = "downloading"
      /\ m.lock \notin {"startup", "maintenance", "revalidate", "discard"} /\ pending # None
      /\ pending.release = m.download.release
      /\ \A c \in Callers : calls[c] # "apply"
      /\ calls' \in [Callers -> CallState]
      /\ \A c \in Callers : calls'[c] # "apply" /\ (calls'[c] = "inspect" => calls[c] = "inspect")
      /\ m.download.by = "auto" => calls'["auto"] = "idle"
      /\ pending' # None => pending'.attempts \in Nat
  <2>1. m.download.by = "auto" => calls'["auto"] = "idle"
    BY <1>1 DEF EndCall, TypeInv, Callers
  <2>2. pending' # None => pending'.attempts \in Nat
    BY LimitsAssumption DEF PendingIntent
  <2> QED BY <2>1, <2>2, CallEnds, Running
<1>4. TypeInv'
  BY <1>1, <1>2, <1>3 DEF TypeInv, Callers, CallState, Intents
<1>5. LockInv'
  BY <1>1, <1>2, <1>3, Names DEF UInv, LockInv, At, Callers
<1>6. DownloadInv'
  BY <1>1, <1>2, <1>3, Names DEF UInv, DownloadInv
<1>7. CallInv'
  BY <1>1, <1>2, <1>3, Names DEF UInv, CallInv, Callers
<1>8. StopInv'
  BY <1>1, <1>2, <1>3, Names DEF UInv, StopInv, AtRest, LockInv, CallInv, Callers
<1>9. JournalCounts'
  BY <1>1, <1>2, <1>3, Names DEF UInv, JournalCounts, LockInv, DownloadInv, CallInv
<1>10. AutoApplies'
  BY <1>1, <1>2, <1>3, Names DEF UInv, AutoApplies, CallInv, Callers
<1>11. PendingCounts'
  BY <1>1, <1>2, <1>3, Names, LimitsAssumption
     DEF UInv, PendingCounts, DownloadInv, LockInv, CallInv, Callers
<1>12. BudgetHolds'
  BY <1>1, <1>2, <1>3, Names DEF UInv, BudgetHolds
<1>13. PauseInv'
  BY <1>1, <1>2, <1>3, Names DEF UInv, PauseInv, LockInv, DownloadInv, CallInv, Callers
<1> QED BY <1>4, <1>5, <1>6, <1>7, <1>8, <1>9, <1>10, <1>11, <1>12, <1>13 DEF UInv

LEMMA UpdaterFailsKeeps ==
    ASSUME UInv, NEW kind \in Kinds, UpdaterFails(kind)
    PROVE  UInv'
<1>1. CASE Retried /\ m.download.attempt < RetryLimit /\ pending' # None /\ UNCHANGED calls
           /\ failures' < MaxAttempts /\ pending'.attempts < MaxAttempts
           /\ (m.download.by = "user" => pending'.attempts < m.download.attempt + 1)
  BY <1>1, UpdaterFailed, UpdaterRetriesKeeps
<1>2. CASE GivenUp /\ EndCall
  BY <1>2, UpdaterFailed, UpdaterGivesUpKeeps
<1> QED BY <1>1, <1>2, UpdaterFailed
-----------------------------------------------------------------------------
(* Pausing and cancelling.                                                  *)

LEMMA ControlKeeps == ASSUME UInv, NEW action \in Controls, Control(action) PROVE UInv'
<1>1. TypeInv /\ m \in Memory
  BY DEF UInv, TypeInv
<1>2. /\ m'.userPaused = TRUE
      /\ m' \in Memory /\ m'.phase = m.phase /\ m'.busy = m.busy /\ m'.active = m.active
      /\ m'.lock = m.lock /\ m'.control = action /\ m'.descriptor = m.descriptor
      /\ m'.download = m.download
  <2> DEFINE b == m.download # None
  <2>1. b \in BOOLEAN
    OBVIOUS
  <2>2. m' = [m EXCEPT !.control = action, !.userPaused = TRUE, !.interruption = action,
                       !.aborted = b]
    BY DEF Control
  <2>3. action \in Controls /\ action \in {None, "pause", "cancel", "shutdown"}
    BY DEF Controls
  <2> HIDE DEF b
  <2> QED BY <1>1, <2>1, <2>2, <2>3 DEF Memory
<1>3. /\ UNCHANGED <<manual, pending, journal, calls, intent, failures>> /\ manual
      /\ m.active \in {"idle", "downloading"}
      /\ action = "pause" => m.download # None /\ m.descriptor # None
      /\ m.control = None /\ action # Cleaning /\ action # None
  <2>1. /\ UNCHANGED <<manual, pending, journal, calls, intent, failures>>
        /\ manual /\ m.control = None
        /\ IF action = "pause" THEN CanPause ELSE CanCancel
    BY DEF Control, Refused
  <2>2. m.download # None =>
            m.active = "downloading" /\ m.descriptor = m.download.release
              /\ m.download.release \in Releases
    BY <1>1, DownloadParts DEF UInv, DownloadInv
  <2>3. m.active \in {"idle", "downloading"}
    BY <2>1 DEF CanPause, CanCancel, Downloading, UInv, LockInv
  <2>4. action # Cleaning /\ action # None
    BY Names DEF Controls, Cleaning
  <2> QED BY <2>1, <2>2, <2>3, <2>4, Names DEF CanPause, Downloading
<1>4. TypeInv'
  BY <1>1, <1>2, <1>3 DEF TypeInv, Callers, CallState, Intents
<1>5. LockInv'
  BY <1>1, <1>2, <1>3, Names DEF UInv, LockInv, At, Callers
<1>6. DownloadInv'
  BY <1>1, <1>2, <1>3, Names DEF UInv, DownloadInv
<1>7. CallInv'
  BY <1>1, <1>2, <1>3, Names DEF UInv, CallInv, Callers
<1>8. StopInv'
  BY <1>1, <1>2, <1>3, Names DEF UInv, StopInv, AtRest, LockInv, CallInv, Callers
<1>9. JournalCounts'
  BY <1>1, <1>2, <1>3, Names DEF UInv, JournalCounts, LockInv, DownloadInv, CallInv
<1>10. AutoApplies'
  BY <1>1, <1>2, <1>3, Names DEF UInv, AutoApplies, CallInv, Callers
<1>11. PendingCounts'
  BY <1>1, <1>2, <1>3, Names DEF UInv, PendingCounts, DownloadInv, LockInv, CallInv, Callers
<1>12. BudgetHolds'
  BY <1>1, <1>2, <1>3, Names DEF UInv, BudgetHolds
<1>13. PauseInv'
  BY <1>1, <1>2, <1>3, Names DEF UInv, PauseInv, LockInv, DownloadInv, CallInv, Callers
<1> QED BY <1>4, <1>5, <1>6, <1>7, <1>8, <1>9, <1>10, <1>11, <1>12, <1>13 DEF UInv

LEMMA PauseWrittenKeeps == ASSUME UInv, PauseWritten PROVE UInv'
<1>1. TypeInv /\ m \in Memory
  BY DEF UInv, TypeInv
<1>2. /\ m'.userPaused = m.userPaused
      /\ m' \in Memory /\ m'.phase = "paused" /\ m'.busy = m.busy /\ m'.active = m.active
      /\ m'.lock = m.lock /\ m'.control = None /\ m'.descriptor = m.descriptor
      /\ m'.download = m.download
  BY <1>1 DEF PauseWritten, Memory, Controlled
<1>3. /\ UNCHANGED <<manual, pending, calls>> /\ intent' = "stopped"
      /\ failures' \in Nat /\ failures' <= failures /\ failures \in Nat
      /\ failures' > 0 => failures' = failures
      /\ m.download = None /\ m.lock = None /\ m.control = "pause"
      /\ journal' \in DownloadJournal /\ journal' # None /\ journal'.release = m.descriptor
      /\ journal'.paused = TRUE /\ m.active \in {"idle", "downloading"}
      /\ \A c \in Callers : calls[c] # "apply"
  <2>1. PICK left \in {journal, None} :
           /\ UNCHANGED <<manual, pending, calls>> /\ intent' = "stopped"
           /\ m.control = "pause" /\ m.download = None /\ m.lock = None
           /\ journal' = [Prepared(left, m.descriptor) EXCEPT !.paused = TRUE]
           /\ failures' = OnRecord(left)
    BY DEF PauseWritten
  <2>2. m.descriptor \in Releases /\ m.active \in {"idle", "downloading"}
    BY <1>1, <2>1, MemoryParts, Names DEF UInv, CallInv
  <2>3. \A c \in Callers : calls[c] # "apply"
    BY <2>2 DEF UInv, CallInv
  <2>4. /\ journal' \in DownloadJournal /\ journal'.release = m.descriptor
        /\ journal'.paused = TRUE
    BY <1>1, <2>1, <2>2, Prepares
  <2>5. /\ failures' \in Nat /\ failures' <= failures /\ failures \in Nat
        /\ failures' > 0 => failures' = failures
    BY <1>1, <2>1, Recorders DEF TypeInv
  <2> QED BY <2>1, <2>2, <2>3, <2>4, <2>5, NoRecordAssumption
<1>4. TypeInv'
  BY <1>1, <1>2, <1>3 DEF TypeInv, Callers, CallState, Intents
<1>5. LockInv'
  BY <1>1, <1>2, <1>3, Names DEF UInv, LockInv, At, Callers
<1>6. DownloadInv'
  BY <1>1, <1>2, <1>3, Names DEF UInv, DownloadInv
<1>7. CallInv'
  BY <1>1, <1>2, <1>3, Names DEF UInv, CallInv, Callers
<1>8. StopInv'
  BY <1>1, <1>2, <1>3, Names DEF UInv, StopInv, AtRest, LockInv, CallInv, Callers
<1>9. JournalCounts'
  BY <1>1, <1>2, <1>3, Names DEF UInv, JournalCounts, LockInv, DownloadInv, CallInv
<1>10. AutoApplies'
  BY <1>1, <1>2, <1>3, Names DEF UInv, AutoApplies, CallInv, Callers
<1>11. PendingCounts'
  BY <1>1, <1>2, <1>3, Names DEF UInv, PendingCounts, DownloadInv, LockInv, CallInv, Callers
<1>12. BudgetHolds'
  BY <1>1, <1>2, <1>3, Names, LimitsAssumption DEF UInv, BudgetHolds
<1>13. PauseInv'
  BY <1>1, <1>2, <1>3, Names DEF UInv, PauseInv, LockInv, DownloadInv, CallInv, Callers
<1> QED BY <1>4, <1>5, <1>6, <1>7, <1>8, <1>9, <1>10, <1>11, <1>12, <1>13 DEF UInv

LEMMA CancelDiscardsKeeps == ASSUME UInv, CancelDiscards PROVE UInv'
<1>1. TypeInv /\ m \in Memory
  BY DEF UInv, TypeInv
<1>2. /\ m'.userPaused = m.userPaused
      /\ m' \in Memory /\ m'.phase = m.phase /\ m'.busy = m.busy /\ m'.active = m.active
      /\ m'.lock = m.lock /\ m'.control = Cleaning /\ m'.descriptor = m.descriptor
      /\ m'.download = m.download
  BY <1>1 DEF CancelDiscards, Memory
<1>3. /\ UNCHANGED <<manual, pending, calls>> /\ journal' = None
      /\ m.download = None /\ m.lock = None /\ m.control = "cancel" /\ m.control # None
      /\ failures' \in Nat /\ failures' <= failures /\ failures \in Nat
      /\ failures' > 0 => journal' = journal /\ failures' = failures
      /\ journal' \in DownloadJournal \cup {None} /\ intent' \in Intents
      /\ intent' = "stopped" => intent = "stopped" /\ journal' = journal
      /\ journal = None => journal' = None /\ failures' = failures
  <2>1. /\ UNCHANGED <<manual, pending, calls>> /\ journal' = None
        /\ intent' = Recall(journal') /\ failures' = OnRecord(journal')
        /\ m.download = None /\ m.lock = None /\ m.control = "cancel"
    BY DEF CancelDiscards
  <2> QED BY <2>1, JournalLost, Names
<1>4. TypeInv'
  BY <1>1, <1>2, <1>3 DEF TypeInv, Callers, CallState, Intents
<1>5. LockInv'
  BY <1>1, <1>2, <1>3, Names DEF UInv, LockInv, At, Callers
<1>6. DownloadInv'
  BY <1>1, <1>2, <1>3, Names, LimitsAssumption DEF UInv, DownloadInv
<1>7. CallInv'
  BY <1>1, <1>2, <1>3, Names DEF UInv, CallInv, Callers
<1>8. StopInv'
  BY <1>1, <1>2, <1>3, Names DEF UInv, StopInv, AtRest, LockInv, CallInv, Callers
<1>9. JournalCounts'
  BY <1>1, <1>2, <1>3, Names DEF UInv, JournalCounts, LockInv, DownloadInv, CallInv
<1>10. AutoApplies'
  BY <1>1, <1>2, <1>3, Names, LimitsAssumption DEF UInv, AutoApplies, CallInv, Callers
<1>11. PendingCounts'
  BY <1>1, <1>2, <1>3, Names DEF UInv, PendingCounts, DownloadInv, LockInv, CallInv, Callers
<1>12. BudgetHolds'
  BY <1>1, <1>2, <1>3, Names, LimitsAssumption DEF UInv, BudgetHolds
<1>13. PauseInv'
  BY <1>1, <1>2, <1>3, Names DEF UInv, PauseInv, LockInv, DownloadInv, CallInv, Callers
<1> QED BY <1>4, <1>5, <1>6, <1>7, <1>8, <1>9, <1>10, <1>11, <1>12, <1>13 DEF UInv

LEMMA CancelDoneKeeps == ASSUME UInv, CancelDone PROVE UInv'
<1>1. TypeInv /\ m \in Memory
  BY DEF UInv, TypeInv
<1>2. /\ m'.userPaused = FALSE
      /\ m' \in Memory /\ m'.phase = "available" /\ m'.busy = m.busy /\ m'.active = m.active
      /\ m'.lock = m.lock /\ m'.control = None /\ m'.descriptor = None
      /\ m'.download = m.download
  BY <1>1 DEF CancelDone, Memory, Controlled
<1>3. /\ UNCHANGED <<manual, journal, calls, failures>> /\ journal = None
      /\ intent' \in Intents
      /\ intent' = "stopped" => pending' = None
      /\ pending' \in {None, pending} /\ m.download = None /\ m.lock = None
      /\ m.active \in {"idle", "downloading"}
      /\ \A c \in Callers : calls[c] # "apply"
      /\ calls["auto"] # "inspect"
  <2>1. /\ UNCHANGED <<manual, journal, calls, failures>> /\ pending' \in {None, pending}
        /\ intent' = IF pending' = None THEN "stopped" ELSE "forgotten"
        /\ m.control = Cleaning
    BY DEF CancelDone, ClearPending
  <2>2. /\ m.download = None /\ m.lock = None /\ journal = None
        /\ m.active \in {"idle", "downloading"} /\ calls["auto"] # "inspect"
    BY <1>1, <2>1, Names DEF UInv, CallInv, LockInv
  <2>3. \A c \in Callers : calls[c] # "apply"
    BY <2>2 DEF UInv, CallInv
  <2> QED BY <2>1, <2>2, <2>3 DEF Intents
<1>4. TypeInv'
  BY <1>1, <1>2, <1>3 DEF TypeInv, Callers, CallState, Intents
<1>5. LockInv'
  BY <1>1, <1>2, <1>3, Names DEF UInv, LockInv, At, Callers
<1>6. DownloadInv'
  BY <1>1, <1>2, <1>3, Names, LimitsAssumption DEF UInv, DownloadInv
<1>7. CallInv'
  BY <1>1, <1>2, <1>3, Names DEF UInv, CallInv, Callers
<1>8. StopInv'
  BY <1>1, <1>2, <1>3, Names DEF UInv, StopInv, AtRest, LockInv, CallInv, Callers
<1>9. JournalCounts'
  BY <1>1, <1>2, <1>3, Names DEF UInv, JournalCounts, LockInv, DownloadInv, CallInv
<1>10. AutoApplies'
  BY <1>1, <1>2, <1>3, Names, LimitsAssumption DEF UInv, AutoApplies, CallInv, Callers
<1>11. PendingCounts'
  BY <1>1, <1>2, <1>3, Names DEF UInv, PendingCounts, DownloadInv, LockInv, CallInv, Callers
<1>12. BudgetHolds'
  BY <1>1, <1>2, <1>3, Names, LimitsAssumption DEF UInv, BudgetHolds
<1>13. PauseInv'
  BY <1>1, <1>2, <1>3, Names DEF UInv, PauseInv, LockInv, DownloadInv, CallInv, Callers
<1> QED BY <1>4, <1>5, <1>6, <1>7, <1>8, <1>9, <1>10, <1>11, <1>12, <1>13 DEF UInv

LEMMA ControlFailsKeeps == ASSUME UInv, ControlFails PROVE UInv'
<1>1. TypeInv /\ m \in Memory
  BY DEF UInv, TypeInv
<1>2. /\ m'.userPaused = m.userPaused
      /\ m' \in Memory /\ m'.phase = "error" /\ m'.busy = m.busy /\ m'.active = m.active
      /\ m'.lock = m.lock /\ m'.control = None /\ m'.descriptor = m.descriptor
      /\ m'.download = m.download
  <2> DEFINE k == [m EXCEPT !.phase = "error"]
  <2>1. /\ k.userPaused = m.userPaused
        /\ k \in Memory /\ k.phase = "error" /\ k.busy = m.busy /\ k.active = m.active
        /\ k.lock = m.lock /\ k.descriptor = m.descriptor /\ k.download = m.download
    BY <1>1 DEF Memory
  <2>2. m' = [k EXCEPT !.control = None, !.interruption = None]
    BY DEF ControlFails, Controlled
  <2> HIDE DEF k
  <2> QED BY <2>1, <2>2 DEF Memory
<1>3. /\ UNCHANGED <<manual, pending, calls>> /\ m.download = None
      /\ m.lock # None => journal' = journal
      /\ m.control # Cleaning /\ m.active # "checking"
      /\ \A c \in Callers : calls[c] # "apply"
      /\ failures' \in Nat /\ failures' <= failures /\ failures \in Nat
      /\ failures' > 0 => journal' = journal /\ failures' = failures
      /\ journal' \in DownloadJournal \cup {None} /\ intent' \in Intents
      /\ intent' = "stopped" => intent = "stopped" /\ journal' = journal
      /\ journal = None => journal' = None /\ failures' = failures
  <2>1. /\ UNCHANGED <<manual, pending, calls>> /\ m.download = None
        /\ m.lock # None => journal' = journal
        /\ journal' \in {journal, None} /\ m.control \in Controls
        /\ intent' = Recall(journal') /\ failures' = OnRecord(journal')
    BY DEF ControlFails
  <2>2. m.control # Cleaning /\ m.control # None
    BY <2>1, Names DEF Controls
  <2>3. m.active # "checking" /\ \A c \in Callers : calls[c] # "apply"
    BY <2>2 DEF UInv, CallInv
  <2> QED BY <2>1, <2>2, <2>3, JournalLost
<1>4. TypeInv'
  BY <1>1, <1>2, <1>3 DEF TypeInv, Callers, CallState, Intents
<1>5. LockInv'
  BY <1>1, <1>2, <1>3, Names DEF UInv, LockInv, At, Callers
<1>6. DownloadInv'
  BY <1>1, <1>2, <1>3, Names DEF UInv, DownloadInv
<1>7. CallInv'
  BY <1>1, <1>2, <1>3, Names DEF UInv, CallInv, Callers
<1>8. StopInv'
  BY <1>1, <1>2, <1>3, Names DEF UInv, StopInv, AtRest, LockInv, CallInv, Callers
<1>9. JournalCounts'
  BY <1>1, <1>2, <1>3, Names DEF UInv, JournalCounts, LockInv, DownloadInv, CallInv
<1>10. AutoApplies'
  BY <1>1, <1>2, <1>3, Names DEF UInv, AutoApplies, CallInv, Callers
<1>11. PendingCounts'
  BY <1>1, <1>2, <1>3, Names DEF UInv, PendingCounts, DownloadInv, LockInv, CallInv, Callers
<1>12. BudgetHolds'
  BY <1>1, <1>2, <1>3, Names, LimitsAssumption DEF UInv, BudgetHolds
<1>13. PauseInv'
  BY <1>1, <1>2, <1>3, Names DEF UInv, PauseInv, LockInv, DownloadInv, CallInv, Callers
<1> QED BY <1>4, <1>5, <1>6, <1>7, <1>8, <1>9, <1>10, <1>11, <1>12, <1>13 DEF UInv

-----------------------------------------------------------------------------
(* Installing.                                                              *)

LEMMA RelaunchKeeps == ASSUME UInv, Relaunch PROVE UInv'
<1>1. TypeInv /\ m \in Memory
  BY DEF UInv, TypeInv
<1>2. /\ m'.userPaused = m.userPaused
      /\ m' \in Memory /\ m'.phase \in {"restart-required", "installing"} /\ m'.busy = TRUE
      /\ m'.active = "installing"
      /\ m'.lock = IF manual THEN "revalidate" ELSE m.lock
      /\ m'.control = m.control /\ m'.descriptor = m.descriptor /\ m'.download = m.download
  <2>1. CASE manual
    <3>1. m' = [m EXCEPT !.active = "installing", !.busy = TRUE, !.lock = "revalidate"]
      BY <2>1 DEF Relaunch
    <3>2. m.phase = "restart-required"
      BY DEF Relaunch
    <3> QED BY <1>1, <2>1, <3>1, <3>2 DEF Memory, Locks
  <2>2. CASE ~manual
    <3>1. m' = [m EXCEPT !.active = "installing", !.busy = TRUE, !.phase = "installing"]
      BY <2>2 DEF Relaunch
    <3> QED BY <1>1, <2>2, <3>1 DEF Memory
  <2> QED BY <2>1, <2>2
<1>3. /\ UNCHANGED <<manual, pending, journal, calls, intent, failures>>
      /\ m.phase = "restart-required" /\ m.control = None
      /\ manual => m.lock = None
      /\ m.download = None
      /\ \A c \in Callers : calls[c] # "apply"
      /\ m.lock \notin {"maintenance", "revalidate"}
  <2>1. /\ UNCHANGED <<manual, pending, journal, calls, intent, failures>>
        /\ m.phase = "restart-required" /\ m.control = None /\ ~m.busy
        /\ (manual => m.lock = None)
    BY DEF Relaunch, Refused
  <2>2. m.active = "idle" /\ m.lock # "maintenance" /\ m.lock # "revalidate"
    BY <2>1 DEF UInv, LockInv
  <2>3. m.download = None /\ \A c \in Callers : calls[c] # "apply"
    BY <2>2 DEF UInv, DownloadInv, CallInv
  <2> QED BY <2>1, <2>2, <2>3
<1>4. TypeInv'
  BY <1>1, <1>2, <1>3 DEF TypeInv, Callers, CallState, Intents
<1>5. LockInv'
  BY <1>1, <1>2, <1>3, Names DEF UInv, LockInv, At, Callers
<1>6. DownloadInv'
  BY <1>1, <1>2, <1>3, Names DEF UInv, DownloadInv
<1>7. CallInv'
  BY <1>1, <1>2, <1>3, Names DEF UInv, CallInv, Callers
<1>8. StopInv'
  BY <1>1, <1>2, <1>3, Names DEF UInv, StopInv, AtRest, LockInv, CallInv, Callers
<1>9. JournalCounts'
  BY <1>1, <1>2, <1>3, Names DEF UInv, JournalCounts, LockInv, DownloadInv, CallInv
<1>10. AutoApplies'
  BY <1>1, <1>2, <1>3, Names DEF UInv, AutoApplies, CallInv, Callers
<1>11. PendingCounts'
  BY <1>1, <1>2, <1>3, Names DEF UInv, PendingCounts, DownloadInv, LockInv, CallInv, Callers
<1>12. BudgetHolds'
  BY <1>1, <1>2, <1>3, Names DEF UInv, BudgetHolds
<1>13. PauseInv'
  BY <1>1, <1>2, <1>3, Names DEF UInv, PauseInv, LockInv, DownloadInv, CallInv, Callers
<1> QED BY <1>4, <1>5, <1>6, <1>7, <1>8, <1>9, <1>10, <1>11, <1>12, <1>13 DEF UInv

LEMMA RelaunchMeetsInspectionKeeps == ASSUME UInv, RelaunchMeetsInspection PROVE UInv'
<1>1. TypeInv /\ m \in Memory
  BY DEF UInv, TypeInv
<1>2. /\ m'.userPaused = m.userPaused
      /\ m' \in Memory /\ m'.phase = "error" /\ m'.busy = m.busy /\ m'.active = m.active
      /\ m'.lock = m.lock /\ m'.control = m.control /\ m'.descriptor = m.descriptor
      /\ m'.download = m.download
  BY <1>1 DEF RelaunchMeetsInspection, Memory
<1>3. /\ UNCHANGED <<manual, calls>> /\ pending' \in {None, pending}
      /\ failures' \in Nat /\ failures' <= failures /\ failures \in Nat
      /\ failures' > 0 => journal' = journal /\ failures' = failures
      /\ journal' \in DownloadJournal \cup {None} /\ intent' \in Intents
      /\ intent' = "stopped" => intent = "stopped" /\ journal' = journal
      /\ journal = None => journal' = None /\ failures' = failures
      /\ manual /\ m.phase = "restart-required"
      /\ m.control = None /\ m.lock = "inspect" /\ m.download = None
      /\ \A c \in Callers : calls[c] # "apply"
      /\ m.lock \notin {"maintenance", "revalidate"}
  <2>1. /\ UNCHANGED <<manual, calls>> /\ pending' \in {None, pending}
        /\ journal' \in {journal, None} /\ intent' = Recall(journal')
        /\ failures' = OnRecord(journal') /\ manual
        /\ m.phase = "restart-required" /\ m.control = None /\ ~m.busy
        /\ m.lock = "inspect"
    BY DEF RelaunchMeetsInspection, Refused, ClearPending
  <2>2. m.active = "idle" /\ m.lock # "maintenance" /\ m.lock # "revalidate"
    BY <2>1 DEF UInv, LockInv
  <2>3. m.download = None /\ \A c \in Callers : calls[c] # "apply"
    BY <2>2 DEF UInv, DownloadInv, CallInv
  <2> QED BY <2>1, <2>2, <2>3, JournalLost
<1>4. TypeInv'
  BY <1>1, <1>2, <1>3 DEF TypeInv, Callers, CallState, Intents
<1>5. LockInv'
  BY <1>1, <1>2, <1>3, Names DEF UInv, LockInv, At, Callers
<1>6. DownloadInv'
  BY <1>1, <1>2, <1>3, Names DEF UInv, DownloadInv
<1>7. CallInv'
  BY <1>1, <1>2, <1>3, Names DEF UInv, CallInv, Callers
<1>8. StopInv'
  BY <1>1, <1>2, <1>3, Names DEF UInv, StopInv, AtRest, LockInv, CallInv, Callers
<1>9. JournalCounts'
  BY <1>1, <1>2, <1>3, Names DEF UInv, JournalCounts, LockInv, DownloadInv, CallInv
<1>10. AutoApplies'
  BY <1>1, <1>2, <1>3, Names DEF UInv, AutoApplies, CallInv, Callers
<1>11. PendingCounts'
  BY <1>1, <1>2, <1>3, Names DEF UInv, PendingCounts, DownloadInv, LockInv, CallInv, Callers
<1>12. BudgetHolds'
  BY <1>1, <1>2, <1>3, Names, LimitsAssumption DEF UInv, BudgetHolds
<1>13. PauseInv'
  BY <1>1, <1>2, <1>3, Names DEF UInv, PauseInv, LockInv, DownloadInv, CallInv, Callers
<1> QED BY <1>4, <1>5, <1>6, <1>7, <1>8, <1>9, <1>10, <1>11, <1>12, <1>13 DEF UInv

LEMMA RevalidatedKeeps == ASSUME UInv, Revalidated PROVE UInv'
<1>1. TypeInv /\ m \in Memory
  BY DEF UInv, TypeInv
<1>2. /\ m'.userPaused = m.userPaused
      /\ m' \in Memory /\ m'.phase = "restart-required" /\ m'.busy = FALSE
      /\ m'.active = "idle" /\ m'.lock = None /\ m'.control = m.control
      /\ m'.descriptor = m.descriptor /\ m'.download = m.download
  BY <1>1 DEF Revalidated, Memory, Installed
<1>3. /\ UNCHANGED <<manual, pending, journal, calls, intent, failures>>
      /\ m.lock = "revalidate" /\ m.download = None
      /\ \A c \in Callers : calls[c] # "apply"
      /\ m.control = None /\ intent # "stopped"
  <2>1. /\ UNCHANGED <<manual, pending, journal, calls, intent, failures>>
        /\ m.lock = "revalidate"
    BY DEF Revalidated
  <2>2. m.active = "installing"
    BY <2>1 DEF UInv, LockInv
  <2> QED BY <2>1, <2>2 DEF UInv, LockInv, DownloadInv, CallInv, StopInv
<1>4. TypeInv'
  BY <1>1, <1>2, <1>3 DEF TypeInv, Callers, CallState, Intents
<1>5. LockInv'
  BY <1>1, <1>2, <1>3, Names DEF UInv, LockInv, At, Callers
<1>6. DownloadInv'
  BY <1>1, <1>2, <1>3, Names DEF UInv, DownloadInv
<1>7. CallInv'
  BY <1>1, <1>2, <1>3, Names DEF UInv, CallInv, Callers
<1>8. StopInv'
  BY <1>1, <1>2, <1>3, Names DEF UInv, StopInv, AtRest, LockInv, CallInv, Callers
<1>9. JournalCounts'
  BY <1>1, <1>2, <1>3, Names DEF UInv, JournalCounts, LockInv, DownloadInv, CallInv
<1>10. AutoApplies'
  BY <1>1, <1>2, <1>3, Names DEF UInv, AutoApplies, CallInv, Callers
<1>11. PendingCounts'
  BY <1>1, <1>2, <1>3, Names DEF UInv, PendingCounts, DownloadInv, LockInv, CallInv, Callers
<1>12. BudgetHolds'
  BY <1>1, <1>2, <1>3, Names DEF UInv, BudgetHolds
<1>13. PauseInv'
  BY <1>1, <1>2, <1>3, Names DEF UInv, PauseInv, LockInv, DownloadInv, CallInv, Callers
<1> QED BY <1>4, <1>5, <1>6, <1>7, <1>8, <1>9, <1>10, <1>11, <1>12, <1>13 DEF UInv

LEMMA RevalidationFailsKeeps == ASSUME UInv, RevalidationFails PROVE UInv'
<1>1. TypeInv /\ m \in Memory
  BY DEF UInv, TypeInv
<1>2. /\ m'.userPaused = m.userPaused
      /\ m' \in Memory /\ m'.phase = "error" /\ m'.busy = FALSE /\ m'.active = "idle"
      /\ m'.lock = None /\ m'.control = m.control /\ m'.descriptor = m.descriptor
      /\ m'.download = m.download
  BY <1>1 DEF RevalidationFails, Memory, Installed
<1>3. /\ UNCHANGED <<manual, calls>> /\ pending' \in {None, pending}
      /\ failures' \in Nat /\ failures' <= failures /\ failures \in Nat
      /\ failures' > 0 => journal' = journal /\ failures' = failures
      /\ journal' \in DownloadJournal \cup {None} /\ intent' \in Intents
      /\ intent' = "stopped" => intent = "stopped" /\ journal' = journal
      /\ journal = None => journal' = None /\ failures' = failures
      /\ manual /\ m.lock = "revalidate"
      /\ m.download = None
      /\ \A c \in Callers : calls[c] # "apply"
      /\ m.control = None /\ intent # "stopped"
  <2>1. /\ UNCHANGED <<manual, calls>> /\ pending' \in {None, pending}
        /\ journal' \in {journal, None} /\ intent' = Recall(journal')
        /\ failures' = OnRecord(journal') /\ m.lock = "revalidate"
    BY DEF RevalidationFails, ClearPending
  <2>2. m.active = "installing"
    BY <2>1 DEF UInv, LockInv
  <2> QED BY <2>1, <2>2, JournalLost DEF UInv, LockInv, DownloadInv, CallInv, StopInv
<1>4. TypeInv'
  BY <1>1, <1>2, <1>3 DEF TypeInv, Callers, CallState, Intents
<1>5. LockInv'
  BY <1>1, <1>2, <1>3, Names DEF UInv, LockInv, At, Callers
<1>6. DownloadInv'
  BY <1>1, <1>2, <1>3, Names DEF UInv, DownloadInv
<1>7. CallInv'
  BY <1>1, <1>2, <1>3, Names DEF UInv, CallInv, Callers
<1>8. StopInv'
  BY <1>1, <1>2, <1>3, Names DEF UInv, StopInv, AtRest, LockInv, CallInv, Callers
<1>9. JournalCounts'
  BY <1>1, <1>2, <1>3, Names DEF UInv, JournalCounts, LockInv, DownloadInv, CallInv
<1>10. AutoApplies'
  BY <1>1, <1>2, <1>3, Names DEF UInv, AutoApplies, CallInv, Callers
<1>11. PendingCounts'
  BY <1>1, <1>2, <1>3, Names DEF UInv, PendingCounts, DownloadInv, LockInv, CallInv, Callers
<1>12. BudgetHolds'
  BY <1>1, <1>2, <1>3, Names, LimitsAssumption DEF UInv, BudgetHolds
<1>13. PauseInv'
  BY <1>1, <1>2, <1>3, Names DEF UInv, PauseInv, LockInv, DownloadInv, CallInv, Callers
<1> QED BY <1>4, <1>5, <1>6, <1>7, <1>8, <1>9, <1>10, <1>11, <1>12, <1>13 DEF UInv

LEMMA InstallFailsKeeps == ASSUME UInv, InstallFails PROVE UInv'
<1>1. TypeInv /\ m \in Memory
  BY DEF UInv, TypeInv
<1>2. /\ m'.userPaused = m.userPaused
      /\ m' \in Memory /\ m'.phase = "error" /\ m'.busy = FALSE /\ m'.active = "idle"
      /\ m'.lock = m.lock /\ m'.control = m.control /\ m'.descriptor = m.descriptor
      /\ m'.download = m.download
  BY <1>1 DEF InstallFails, Memory, Installed
<1>3. /\ UNCHANGED <<manual, journal, calls, intent, failures>>
      /\ pending' \in {pending, None} /\ ~manual /\ m.lock # "maintenance"
      /\ m.lock # "revalidate" /\ m.download = None
      /\ \A c \in Callers : calls[c] # "apply"
      /\ m.control = None /\ intent # "stopped"
  <2>1. /\ UNCHANGED <<manual, journal, calls, intent, failures>>
        /\ pending' \in {pending, None} /\ ~manual /\ m.active = "installing"
    BY DEF InstallFails, ClearPending
  <2>2. m.active = "installing"
    BY <2>1 DEF UInv, LockInv
  <2> QED BY <2>1, <2>2 DEF UInv, LockInv, DownloadInv, CallInv, StopInv
<1>4. TypeInv'
  BY <1>1, <1>2, <1>3 DEF TypeInv, Callers, CallState, Intents
<1>5. LockInv'
  BY <1>1, <1>2, <1>3, Names DEF UInv, LockInv, At, Callers
<1>6. DownloadInv'
  BY <1>1, <1>2, <1>3, Names DEF UInv, DownloadInv
<1>7. CallInv'
  BY <1>1, <1>2, <1>3, Names DEF UInv, CallInv, Callers
<1>8. StopInv'
  BY <1>1, <1>2, <1>3, Names DEF UInv, StopInv, AtRest, LockInv, CallInv, Callers
<1>9. JournalCounts'
  BY <1>1, <1>2, <1>3, Names DEF UInv, JournalCounts, LockInv, DownloadInv, CallInv
<1>10. AutoApplies'
  BY <1>1, <1>2, <1>3, Names DEF UInv, AutoApplies, CallInv, Callers
<1>11. PendingCounts'
  BY <1>1, <1>2, <1>3, Names DEF UInv, PendingCounts, DownloadInv, LockInv, CallInv, Callers
<1>12. BudgetHolds'
  BY <1>1, <1>2, <1>3, Names DEF UInv, BudgetHolds
<1>13. PauseInv'
  BY <1>1, <1>2, <1>3, Names DEF UInv, PauseInv, LockInv, DownloadInv, CallInv, Callers
<1> QED BY <1>4, <1>5, <1>6, <1>7, <1>8, <1>9, <1>10, <1>11, <1>12, <1>13 DEF UInv

-----------------------------------------------------------------------------
(* Maintenance, shutdown and restart.                                       *)

LEMMA MaintainKeeps == ASSUME UInv, Maintain PROVE UInv'
<1>1. TypeInv /\ m \in Memory
  BY DEF UInv, TypeInv
<1>2. /\ m'.userPaused = m.userPaused
      /\ m' \in Memory /\ m'.phase = m.phase /\ m'.busy = TRUE /\ m'.active = m.active
      /\ m'.lock = "maintenance" /\ m'.control = m.control /\ m'.descriptor = m.descriptor
      /\ m'.download = m.download
  BY <1>1 DEF Maintain, Memory, Locks
<1>3. /\ UNCHANGED <<manual, pending, journal, calls, intent, failures>>
      /\ calls["auto"] = "idle" /\ m.control = None /\ m.active = "idle"
      /\ m.download = None
      /\ \A c \in Callers : calls[c] # "apply"
      /\ m.lock \notin {"maintenance", "revalidate"}
  <2>1. /\ UNCHANGED <<manual, pending, journal, calls, intent, failures>>
        /\ calls["auto"] = "idle" /\ m.control = None /\ ~m.busy
    BY DEF Maintain, Refused
  <2>2. m.active = "idle" /\ m.lock # "maintenance" /\ m.lock # "revalidate"
    BY <2>1 DEF UInv, LockInv
  <2>3. m.download = None /\ \A c \in Callers : calls[c] # "apply"
    BY <2>2 DEF UInv, DownloadInv, CallInv
  <2> QED BY <2>1, <2>2, <2>3
<1>4. TypeInv'
  BY <1>1, <1>2, <1>3 DEF TypeInv, Callers, CallState, Intents
<1>5. LockInv'
  BY <1>1, <1>2, <1>3, Names DEF UInv, LockInv, At, Callers
<1>6. DownloadInv'
  BY <1>1, <1>2, <1>3, Names DEF UInv, DownloadInv
<1>7. CallInv'
  BY <1>1, <1>2, <1>3, Names DEF UInv, CallInv, Callers
<1>8. StopInv'
  BY <1>1, <1>2, <1>3, Names DEF UInv, StopInv, AtRest, LockInv, CallInv, Callers
<1>9. JournalCounts'
  BY <1>1, <1>2, <1>3, Names DEF UInv, JournalCounts, LockInv, DownloadInv, CallInv
<1>10. AutoApplies'
  BY <1>1, <1>2, <1>3, Names DEF UInv, AutoApplies, CallInv, Callers
<1>11. PendingCounts'
  BY <1>1, <1>2, <1>3, Names DEF UInv, PendingCounts, DownloadInv, LockInv, CallInv, Callers
<1>12. BudgetHolds'
  BY <1>1, <1>2, <1>3, Names DEF UInv, BudgetHolds
<1>13. PauseInv'
  BY <1>1, <1>2, <1>3, Names DEF UInv, PauseInv, LockInv, DownloadInv, CallInv, Callers
<1> QED BY <1>4, <1>5, <1>6, <1>7, <1>8, <1>9, <1>10, <1>11, <1>12, <1>13 DEF UInv

LEMMA MaintainedKeeps == ASSUME UInv, Maintained PROVE UInv'
<1>1. TypeInv /\ m \in Memory
  BY DEF UInv, TypeInv
<1>2. /\ m'.userPaused = m.userPaused
      /\ m' \in Memory /\ m'.phase = m.phase /\ m'.busy = FALSE /\ m'.active = m.active
      /\ m'.lock = None /\ m'.control = m.control /\ m'.descriptor = m.descriptor
      /\ m'.download = m.download
  BY <1>1 DEF Maintained, Memory
<1>3. /\ UNCHANGED <<manual, pending, journal, calls, intent, failures>>
      /\ m.lock = "maintenance" /\ m.active = "idle" /\ calls["auto"] # "inspect"
      /\ m.download = None
  BY <1>1 DEF Maintained, UInv, LockInv, DownloadInv
<1>4. TypeInv'
  BY <1>1, <1>2, <1>3 DEF TypeInv, Callers, CallState, Intents
<1>5. LockInv'
  BY <1>1, <1>2, <1>3, Names DEF UInv, LockInv, At, Callers
<1>6. DownloadInv'
  BY <1>1, <1>2, <1>3, Names DEF UInv, DownloadInv
<1>7. CallInv'
  BY <1>1, <1>2, <1>3, Names DEF UInv, CallInv, Callers
<1>8. StopInv'
  BY <1>1, <1>2, <1>3, Names DEF UInv, StopInv, AtRest, LockInv, CallInv, Callers
<1>9. JournalCounts'
  BY <1>1, <1>2, <1>3, Names DEF UInv, JournalCounts, LockInv, DownloadInv, CallInv
<1>10. AutoApplies'
  BY <1>1, <1>2, <1>3, Names DEF UInv, AutoApplies, CallInv, Callers
<1>11. PendingCounts'
  BY <1>1, <1>2, <1>3, Names DEF UInv, PendingCounts, DownloadInv, LockInv, CallInv, Callers
<1>12. BudgetHolds'
  BY <1>1, <1>2, <1>3, Names DEF UInv, BudgetHolds
<1>13. PauseInv'
  BY <1>1, <1>2, <1>3, Names DEF UInv, PauseInv, LockInv, DownloadInv, CallInv, Callers
<1> QED BY <1>4, <1>5, <1>6, <1>7, <1>8, <1>9, <1>10, <1>11, <1>12, <1>13 DEF UInv

LEMMA ShutdownKeeps == ASSUME UInv, Shutdown PROVE UInv'
<1>1. TypeInv /\ m \in Memory
  BY DEF UInv, TypeInv
<1>2. /\ m'.userPaused = m.userPaused
      /\ m' \in Memory /\ m'.phase = m.phase /\ m'.busy = m.busy /\ m'.active = m.active
      /\ m'.lock = m.lock /\ m'.control = m.control /\ m'.descriptor = m.descriptor
      /\ m'.download = m.download
  <2> DEFINE b == m.download # None
           i == IF m.interruption = None THEN "shutdown" ELSE m.interruption
  <2>1. b \in BOOLEAN /\ i \in {None, "pause", "cancel", "shutdown"}
    BY <1>1 DEF Memory
  <2>2. m' = [m EXCEPT !.closing = TRUE, !.aborted = b, !.interruption = i]
    BY <1>1 DEF Shutdown, Memory
  <2> HIDE DEF b, i
  <2> QED BY <1>1, <2>1, <2>2 DEF Memory
<1>3. /\ UNCHANGED <<manual, pending, journal, calls, intent, failures>>
  BY <1>1 DEF Shutdown
<1>4. TypeInv'
  BY <1>1, <1>2, <1>3 DEF TypeInv, Callers, CallState, Intents
<1>5. LockInv'
  BY <1>1, <1>2, <1>3, Names DEF UInv, LockInv, At, Callers
<1>6. DownloadInv'
  BY <1>1, <1>2, <1>3, Names DEF UInv, DownloadInv
<1>7. CallInv'
  BY <1>1, <1>2, <1>3, Names DEF UInv, CallInv, Callers
<1>8. StopInv'
  BY <1>1, <1>2, <1>3, Names DEF UInv, StopInv, AtRest, LockInv, CallInv, Callers
<1>9. JournalCounts'
  BY <1>1, <1>2, <1>3, Names DEF UInv, JournalCounts, LockInv, DownloadInv, CallInv
<1>10. AutoApplies'
  BY <1>1, <1>2, <1>3, Names DEF UInv, AutoApplies, CallInv, Callers
<1>11. PendingCounts'
  BY <1>1, <1>2, <1>3, Names DEF UInv, PendingCounts, DownloadInv, LockInv, CallInv, Callers
<1>12. BudgetHolds'
  BY <1>1, <1>2, <1>3, Names DEF UInv, BudgetHolds
<1>13. PauseInv'
  BY <1>1, <1>2, <1>3, Names DEF UInv, PauseInv, LockInv, DownloadInv, CallInv, Callers
<1> QED BY <1>4, <1>5, <1>6, <1>7, <1>8, <1>9, <1>10, <1>11, <1>12, <1>13 DEF UInv

LEMMA Boots ==
    ASSUME NEW p \in PendingIntent \cup {None}, NEW j \in DownloadJournal \cup {None}
    PROVE  /\ Boot(p, j) \in Memory /\ Boot(p, j).phase \in {"idle", "error"}
           /\ Boot(p, j).busy = FALSE /\ Boot(p, j).active = "idle"
           /\ Boot(p, j).lock = (IF j # None THEN "startup" ELSE None)
           /\ Boot(p, j).control = None /\ Boot(p, j).descriptor = None
           /\ Boot(p, j).download = None /\ Boot(p, j).userPaused = FALSE
<1>1. (IF p # None THEN p.release ELSE None) \in Releases \cup {None}
  BY DEF PendingIntent
<1> QED BY <1>1 DEF Boot, Memory, Locks

LEMMA RestartKeeps == ASSUME UInv, Restart PROVE UInv'
<1>1. TypeInv /\ m \in Memory
  BY DEF UInv, TypeInv
<1>2. /\ m'.userPaused = FALSE
      /\ m' \in Memory /\ m'.phase \in {"idle", "error"} /\ m'.busy = FALSE
      /\ m'.active = "idle"
      /\ m'.lock = IF journal' # None THEN "startup" ELSE None
      /\ m'.control = None /\ m'.descriptor = None /\ m'.download = None
  <2>1. journal' \in DownloadJournal \cup {None}
    BY <1>1, ClearsJournal DEF Restart, Verified, TypeInv
  <2>2. m' = Boot(pending, journal') /\ pending \in PendingIntent \cup {None}
    BY <1>1 DEF Restart, TypeInv
  <2> QED BY <2>1, <2>2, Boots
<1>3. /\ UNCHANGED <<manual, pending, intent>>
      /\ journal' \in {journal, None} \cup DownloadJournal /\ failures' \in Nat
      /\ failures \in Nat
      /\ journal' # journal => manual /\ m.download # None
      /\ failures' > 0 => journal' = journal /\ failures' = failures
      /\ calls' \in [Callers -> CallState]
      /\ \A c \in Callers : calls'[c] = "idle"
      /\ failures' = failures \/ failures' = 0
  <2>1. UNCHANGED <<manual, pending, intent>> /\ (Verified \/ UNCHANGED <<journal, failures>>)
    BY DEF Restart
  <2>2. calls' \in [Callers -> CallState] /\ \A c \in Callers : calls'[c] = "idle"
    BY DEF Restart, NoCall, CallState
  <2>3. CASE Verified
    BY <1>1, <2>1, <2>2, <2>3, ClearsJournal DEF Verified, At, TypeInv, UInv, PendingCounts
  <2>4. CASE UNCHANGED <<journal, failures>>
    BY <1>1, <2>1, <2>2, <2>4 DEF TypeInv
  <2> QED BY <2>1, <2>3, <2>4
<1>4. TypeInv'
  BY <1>1, <1>2, <1>3 DEF TypeInv, Callers, CallState, Intents
<1>5. LockInv'
  BY <1>1, <1>2, <1>3, Names DEF UInv, LockInv, At, Callers
<1>6. DownloadInv'
  BY <1>1, <1>2, <1>3, Names DEF UInv, DownloadInv
<1>7. CallInv'
  BY <1>1, <1>2, <1>3, Names DEF UInv, CallInv, Callers
<1>8. StopInv'
  BY <1>1, <1>2, <1>3, Names DEF UInv, StopInv, AtRest, LockInv, CallInv, Callers
<1>9. JournalCounts'
  BY <1>1, <1>2, <1>3, Names DEF UInv, JournalCounts, LockInv, DownloadInv, CallInv
<1>10. AutoApplies'
  BY <1>1, <1>2, <1>3, Names DEF UInv, AutoApplies, CallInv, Callers
<1>11. PendingCounts'
  BY <1>1, <1>2, <1>3, Names, PendingParts
     DEF UInv, PendingCounts, DownloadInv, LockInv, CallInv, Callers
<1>12. BudgetHolds'
  BY <1>1, <1>2, <1>3, Names, LimitsAssumption DEF UInv, BudgetHolds
<1>13. PauseInv'
  BY <1>1, <1>2, <1>3, Names DEF UInv, PauseInv, LockInv, DownloadInv, CallInv, Callers
<1> QED BY <1>4, <1>5, <1>6, <1>7, <1>8, <1>9, <1>10, <1>11, <1>12, <1>13 DEF UInv

-----------------------------------------------------------------------------
(* The coordinator starts with its invariant, and every step keeps it.      *)
LEMMA InitHolds == ASSUME Init PROVE UInv
<1>1. /\ manual \in BOOLEAN /\ pending = None /\ journal = None /\ calls = NoCall
      /\ intent = "none" /\ failures = 0 /\ m = Boot(None, None)
  BY DEF Init
<1>2. /\ m \in Memory /\ m.busy = FALSE /\ m.active = "idle" /\ m.lock = None
      /\ m.control = None /\ m.download = None /\ m.userPaused = FALSE
  BY <1>1, Boots
<1>3. calls \in [Callers -> CallState] /\ \A c \in Callers : calls[c] = "idle"
  BY <1>1 DEF NoCall, CallState
<1>4. TypeInv
  BY <1>1, <1>2, <1>3 DEF TypeInv, Intents
<1>5. LockInv
  BY <1>2, <1>3, Names DEF LockInv, At, Callers
<1>6. DownloadInv /\ CallInv /\ StopInv /\ PauseInv
  BY <1>1, <1>2, <1>3, Names DEF DownloadInv, CallInv, StopInv, PauseInv
<1>7. JournalCounts /\ PendingCounts /\ AutoApplies /\ BudgetHolds
  BY <1>1, <1>2, <1>3, LimitsAssumption
     DEF JournalCounts, PendingCounts, AutoApplies, BudgetHolds, Callers
<1> QED BY <1>4, <1>5, <1>6, <1>7 DEF UInv

LEMMA StutterHolds == ASSUME UInv, UNCHANGED vars PROVE UInv'
<1>1. UNCHANGED <<manual, pending, journal, m, calls, intent, failures>>
  BY DEF vars
<1>2. TypeInv' /\ LockInv' /\ DownloadInv' /\ CallInv' /\ PauseInv'
  BY <1>1 DEF UInv, TypeInv, LockInv, DownloadInv, CallInv, PauseInv, At
<1>3. StopInv' /\ JournalCounts' /\ AutoApplies' /\ PendingCounts' /\ BudgetHolds'
  BY <1>1 DEF UInv, StopInv, AtRest, JournalCounts, AutoApplies, PendingCounts, BudgetHolds
<1> QED BY <1>2, <1>3 DEF UInv

LEMMA StepHolds == ASSUME UInv, Next PROVE UInv'
<1>1. CASE Apply \/ Check \/ Resume \/ TimerExhausted
  BY <1>1, ApplyKeeps, CheckKeeps, ResumeKeeps, TimerExhaustedKeeps
<1>2. CASE \E action \in Controls : Control(action)
  BY <1>2, ControlKeeps
<1>3. CASE DownloadStep
  BY <1>3, ReturnInterruptedKeeps, StageBeginsKeeps, StagedKeeps, UpdaterDownloadsKeeps,
     RecordFailureKeeps, StageFailsKeeps, UpdaterFailsKeeps DEF DownloadStep
<1>4. CASE CheckStep
  BY <1>4, CheckOffersKeeps, CheckFindsNothingKeeps, CheckFailsKeeps, CheckAbandonedKeeps
     DEF CheckStep
<1>5. CASE ResumeStep
  BY <1>5, InspectedKeeps, InspectionStopsKeeps DEF ResumeStep
<1>6. CASE CacheStep
  BY <1>6, CacheDiscardedKeeps, StartupInspectedKeeps, MaintainedKeeps, RevalidatedKeeps,
     RevalidationFailsKeeps DEF CacheStep
<1>7. CASE ControlStep
  BY <1>7, PauseWrittenKeeps, CancelDiscardsKeeps, CancelDoneKeeps, ControlFailsKeeps DEF ControlStep
<1>8. CASE Relaunch \/ RelaunchMeetsInspection \/ InstallFails \/ Maintain
  BY <1>8, RelaunchKeeps, RelaunchMeetsInspectionKeeps, InstallFailsKeeps, MaintainKeeps
<1>9. CASE Shutdown \/ Restart
  BY <1>9, ShutdownKeeps, RestartKeeps
<1> QED BY <1>1, <1>2, <1>3, <1>4, <1>5, <1>6, <1>7, <1>8, <1>9 DEF Next

(* UInv is an invariant of the coordinator.                                 *)
THEOREM Inductive == Spec => []UInv
<1>1. Init => UInv
  BY InitHolds
<1>2. UInv /\ [Next]_vars => UInv'
  BY StepHolds, StutterHolds
<1> QED BY <1>1, <1>2, PTL DEF Spec

(* Intent, journal and memory are well typed in every reachable state, the  *)
(* coordinator is busy exactly when an operation holds it, and an attempt   *)
(* of a run is within its limit.                                            *)
THEOREM TypeCorrect == Spec => []TypeOK
<1>1. ASSUME UInv PROVE TypeOK
  <2>1. pending \in PendingIntent \cup {None} /\ journal \in DownloadJournal \cup {None}
    BY <1>1 DEF UInv, TypeInv
  <2>2. /\ m.phase \in {"idle", "checking", "available", "complete", "downloading", "paused",
                        "restart-required", "installing", "error"}
        /\ m.active \in {"idle", "checking", "downloading", "installing"}
        /\ m.lock \in Locks \cup {None} /\ m.control \in Controls \cup {Cleaning, None}
    BY <1>1, MemoryParts DEF UInv
  <2>3. m.busy <=> (m.active # "idle" \/ m.lock = "maintenance")
    BY <1>1 DEF UInv, LockInv
  <2>4. m.download # None => (m.active = "downloading" /\ m.download.attempt \in 1..RetryLimit)
    <3>1. m.download # None => m.download \in Download
      BY <1>1, DownloadParts DEF UInv
    <3> QED BY <1>1, <3>1 DEF UInv, DownloadInv, Download
  <2>5. \A c \in Callers : calls[c] \in {"idle", "check", "apply", "inspect", "download"}
    BY <1>1 DEF UInv, TypeInv, CallState
  <2> QED BY <2>1, <2>2, <2>3, <2>4, <2>5 DEF TypeOK
<1> QED BY <1>1, Inductive, PTL

(* A download that runs without the learner was not paused or cancelled     *)
(* since they last asked, over any number of restarts in which that stop    *)
(* stays on record, and never while a stop stands in memory.                *)
THEOREM StopsAreRespected == Spec => []AutoNeedsIntent
<1>1. UInv => AutoNeedsIntent
  BY DEF UInv, StopInv, PauseInv, AutoNeedsIntent
<1> QED BY <1>1, Inductive, PTL

(* The failures of a release since the learner last asked for it, or since  *)
(* a journal that counted them was lost, stay within the automatic budget.  *)
THEOREM BudgetIsKept == Spec => []BudgetHolds
<1>1. UInv => BudgetHolds
  BY DEF UInv
<1> QED BY <1>1, Inductive, PTL
=============================================================================
