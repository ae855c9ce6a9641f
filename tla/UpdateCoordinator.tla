------------------------- MODULE UpdateCoordinator -------------------------
(***************************************************************************)
(* Desktop updates (desktop/src/main/update-coordinator.ts): checking for  *)
(* a release, downloading it, pausing, cancelling and resuming, automatic  *)
(* recovery by timers and network events, retries under a budget, and      *)
(* handing a verified package over. Two records survive a restart: the     *)
(* pending intent (update-recovery-journal.ts) and the journal of the      *)
(* resumable download, whose bytes are the subject of ResumableDownload.   *)
(*                                                                         *)
(* An action is what one task does between two awaits. The releases that   *)
(* are published, the network, the updater library and the disk are        *)
(* external. Left out: the Core and bank targets, which are only shown,    *)
(* messages and progress, an app version that changes, the time limits of  *)
(* the two records (nextRetryAt only delays a retry), and an intent that   *)
(* cannot be read or written: of its storage, only a clear may fail.       *)
(***************************************************************************)
EXTENDS Naturals

CONSTANTS None, Releases,
          MaxAttempts,    \* MAX_AUTOMATIC_DOWNLOAD_ATTEMPTS
          CounterLimit,   \* 10 000, where the journal's counter stays
          RetryLimit,     \* length of the retry delays
          MaxRestarts     \* bound: restarts of the app

ASSUME LimitsAssumption ==
    /\ MaxAttempts \in Nat \ {0} /\ RetryLimit \in Nat \ {0} /\ MaxRestarts \in Nat
    /\ CounterLimit \in Nat /\ CounterLimit >= MaxAttempts
    /\ RetryLimit < MaxAttempts       \* four delays, eight attempts

Locks == {"startup", "inspect", "stage", "discard", "maintenance", "revalidate"}
Controls == {"pause", "cancel"}
Cleaning == "clear"               \* a cancel that has emptied the cache
ASSUME NoneAssumption == None \notin Releases \cup Locks \cup Controls \cup {Cleaning}

PendingIntent == [release : Releases, status : {"downloading", "verified-ready"},
                  attempts : 0..MaxAttempts]
DownloadJournal == [release : Releases, attempts : 0..CounterLimit, paused : BOOLEAN,
                    manualRetry : BOOLEAN]
ASSUME NoRecordAssumption == None \notin PendingIntent \cup DownloadJournal

VARIABLES manual,         \* the install is a package opened by hand
          pending,        \* durable intent, or None
          journal,        \* durable journal of the download, or None
          m,              \* the coordinator's memory
          calls,          \* the learner's call and the automatic resume
          intent,         \* what the learner's last completed request was, or
                          \* "forgotten" once the record of their stop is lost
          failures,       \* failures on record since they asked, a package was
                          \* verified, or the journal was lost or missed
          restarts

vars == <<manual, pending, journal, m, calls, intent, failures, restarts>>

Callers == {"user", "auto"}
NoCall == [c \in Callers |-> "idle"]
NewJournal(r) == [release |-> r, attempts |-> 0, paused |-> FALSE, manualRetry |-> FALSE]
Paused(j) == j # None /\ j.paused
Cleared(j) == [j EXCEPT !.attempts = 0, !.paused = FALSE, !.manualRetry = FALSE]

(* readJournal: what cannot be read is set aside, if it can be, and counts  *)
(* as no journal at all.                                                    *)
Read(got, left) == [got |-> got, left |-> left]
Reads == {Read(journal, journal), Read(None, None), Read(None, journal)}

(* prepareJournal writes a new journal over what is not this release's.     *)
Prepared(j, r) == IF j # None /\ j.release = r THEN j ELSE NewJournal(r)

(* ClearPending is clear(), which swallows an error of the storage.         *)
ClearPending == pending' \in {None, pending}

(* What a reader makes of the journal, or leaves of it: failures it counted *)
(* are on record no longer once it is missed or gone, and the pause in it   *)
(* is a forgotten stop.                                                     *)
OnRecord(seen) == IF journal # None /\ seen = None THEN 0 ELSE failures
Recall(seen) ==
    IF intent = "stopped" /\ Paused(journal) /\ seen = None
    THEN "forgotten" ELSE intent

(* lock is the operation that holds the download cache, download the        *)
(* running download, control the pause or cancel in progress.               *)
Boot(p, j) ==
    [phase |-> IF p # None \/ j # None THEN "error" ELSE "idle",
     latest |-> IF p # None THEN p.release ELSE None,
     checked |-> None, busy |-> FALSE, active |-> "idle", userPaused |-> FALSE,
     interruption |-> None, aborted |-> FALSE, closing |-> FALSE,
     descriptor |-> None, artifact |-> FALSE,
     lock |-> IF j # None THEN "startup" ELSE None,
     control |-> None, download |-> None]

TypeOK ==
    /\ pending \in PendingIntent \cup {None} /\ journal \in DownloadJournal \cup {None}
    /\ m.phase \in {"idle", "checking", "available", "complete", "downloading", "paused",
                    "restart-required", "installing", "error"}
    /\ m.active \in {"idle", "checking", "downloading", "installing"}
    /\ m.busy <=> (m.active # "idle" \/ m.lock = "maintenance")
    /\ m.lock \in Locks \cup {None} /\ m.control \in Controls \cup {Cleaning, None}
    /\ m.download # None => (m.active = "downloading" /\ m.download.attempt \in 1..RetryLimit)
    /\ \A c \in Callers : calls[c] \in {"idle", "check", "apply", "inspect", "download"}

Init ==
    /\ manual \in BOOLEAN
    /\ pending = None /\ journal = None
    /\ m = Boot(None, None)
    /\ calls = NoCall
    /\ intent = "none" /\ failures = 0 /\ restarts = 0

-----------------------------------------------------------------------------
Refused == m.closing \/ m.lock = "maintenance" \/ m.control # None
Settling == m.lock \in {"startup", "discard"}
Exhausted == pending # None /\ pending.status = "downloading" /\ pending.attempts >= MaxAttempts
HasPending == (pending # None /\ ~Exhausted) \/ (pending = None /\ journal # None)

(* The intent is written, then the download begins. An automatic resume of  *)
(* the same release keeps its budget. j is the journal that was read.       *)
Begin(c, mem, j, others) ==
    /\ LET same == pending # None /\ pending.release = mem.latest
           known == same \/ (pending = None /\ j # None /\ j.release = mem.latest)
       IN
       /\ pending' = [release |-> mem.latest, status |-> "downloading",
                      attempts |-> IF same /\ c = "auto" THEN pending.attempts ELSE 0]
       /\ failures' = IF known /\ c = "auto" THEN OnRecord(j) ELSE 0
    /\ m' = [mem EXCEPT !.phase = "downloading", !.busy = TRUE, !.active = "downloading",
                        !.interruption = None, !.aborted = FALSE,
                        !.descriptor = mem.latest, !.artifact = FALSE,
                        !.download = [by |-> c, release |-> mem.latest, attempt |-> 1,
                                      pc |-> "wait", kind |-> None]]
    /\ calls' = [others EXCEPT ![c] = "download"]

(* A package is downloaded for the release this process has checked; what   *)
(* is offered without a check is refused.                                   *)
Refuse(c, mem, j) ==
    /\ calls' = [calls EXCEPT ![c] = "idle"]
    /\ IF mem.latest = None
       THEN m' = mem /\ UNCHANGED pending
       ELSE m' = [mem EXCEPT !.phase = "error"] /\ ClearPending
    /\ failures' = OnRecord(j)

BeginChecked(c, mem, j) ==
    IF mem.latest = None \/ (manual /\ mem.checked # mem.latest)
    THEN Refuse(c, mem, j) ELSE Begin(c, mem, j, calls)

(* performCheck, up to its first await.                                     *)
Checking(mem) == [mem EXCEPT !.busy = TRUE, !.active = "checking", !.phase = "checking"]

(* applyUpdatesInternal after its guards.                                   *)
ApplyTo(c, mem, j) ==
    IF mem.phase = "available" THEN BeginChecked(c, mem, j)
    ELSE /\ IF mem.phase \in {"restart-required", "installing"}
            THEN m' = mem /\ calls' = [calls EXCEPT ![c] = "idle"]
            ELSE m' = Checking(mem) /\ calls' = [calls EXCEPT ![c] = "apply"]
         /\ failures' = OnRecord(j)
         /\ UNCHANGED pending

(* applyUpdates and resumeDownload: only the learner's own request lifts a  *)
(* pause.                                                                   *)
Apply ==
    /\ calls["user"] = "idle" /\ ~Settling /\ ~Refused /\ ~m.busy
    /\ ApplyTo("user", [m EXCEPT !.userPaused = FALSE], journal)
    /\ intent' = "wanted"
    /\ UNCHANGED <<manual, journal, restarts>>

(* checkForUpdates; the timers check when nothing is pending.               *)
Check ==
    /\ calls["user"] = "idle" /\ ~Settling /\ ~Refused
    /\ ~m.userPaused /\ m.phase # "restart-required"
    /\ m.busy => m.active = "checking"
    /\ m' = IF m.busy THEN m ELSE Checking(m)
    /\ calls' = [calls EXCEPT !["user"] = "check"]
    /\ UNCHANGED <<manual, pending, journal, intent, failures, restarts>>

-----------------------------------------------------------------------------
(* The check answers. Who waited to apply goes on at once; of two, one      *)
(* begins and the other finds the coordinator busy.                         *)

Checked(ph, latest, checked) ==
    [m EXCEPT !.busy = FALSE, !.active = "idle", !.phase = ph, !.latest = latest,
              !.checked = checked]

\* Faulty variant: a check that fails is not reported to who waits to apply.
AnsweredChecks ==
    [c \in Callers |-> IF calls[c] = "check" THEN "idle" ELSE calls[c]]

Answered ==
    [c \in Callers |-> IF calls[c] \in {"check", "apply"} THEN "idle" ELSE calls[c]]

CheckOffers(release) ==
    /\ m.active = "checking" /\ ~m.closing
    /\ LET mem == Checked("available", release, release)
           appliers == {c \in Callers : calls[c] = "apply"}
       IN IF appliers = {}
          THEN m' = mem /\ calls' = Answered /\ UNCHANGED <<pending, failures>>
          ELSE \E c \in appliers : Begin(c, mem, journal, Answered)
    /\ UNCHANGED <<manual, journal, intent, restarts>>

(* discardDownloadCache, unless the cache is held.                          *)
DiscardCache(mem) == IF mem.lock = None THEN [mem EXCEPT !.lock = "discard"] ELSE mem

(* No release, or none for this install.                                    *)
CheckFindsNothing ==
    /\ m.active = "checking" /\ ~m.closing
    /\ ClearPending
    /\ \/ m' = DiscardCache(Checked("complete", None, None))
       \/ \E release \in Releases : m' = DiscardCache(Checked("complete", release, release))
    /\ calls' = Answered
    /\ UNCHANGED <<manual, journal, intent, failures, restarts>>

(* The feed or the updater fails; what no retry can mend ends the intent.   *)
CheckFails ==
    /\ m.active = "checking"
    /\ ClearPending                 \* or nothing to clear
    /\ \/ m' = Checked("error", None, None)
       \/ \E release \in Releases : m' = Checked("error", release, release)
    /\ calls' = Answered
    /\ UNCHANGED <<manual, journal, intent, failures, restarts>>

(* A check that returns during a shutdown changes nothing.                  *)
CheckAbandoned ==
    /\ m.active = "checking" /\ m.closing
    /\ m' = [m EXCEPT !.busy = FALSE, !.active = "idle"]
    /\ calls' = Answered
    /\ UNCHANGED <<manual, pending, journal, intent, failures, restarts>>

CacheDiscarded ==
    /\ m.lock = "discard"
    /\ m' = [m EXCEPT !.lock = None]
    /\ journal' \in {journal, None}
    /\ intent' = Recall(journal') /\ failures' = OnRecord(journal')
    /\ UNCHANGED <<manual, pending, calls, restarts>>

-----------------------------------------------------------------------------
(* Recovery after a restart, and resumption by timers and network events.   *)

ShowPaused(mem) ==
    IF mem.busy \/ mem.control # None \/ mem.closing THEN mem
    ELSE [mem EXCEPT !.userPaused = TRUE, !.phase = "paused", !.latest = journal.release]

(* restorePausedDownload, whose inspection may fail.                        *)
StartupInspected ==
    /\ m.lock = "startup"
    /\ LET mem == [m EXCEPT !.lock = None] IN
       \/ m' = mem /\ UNCHANGED <<journal, intent, failures>>
       \/ \E read \in Reads :
            /\ m' = IF Paused(read.got) THEN ShowPaused(mem) ELSE mem
            /\ journal' = read.left
            /\ intent' = Recall(read.left) /\ failures' = OnRecord(read.left)
    /\ UNCHANGED <<manual, pending, calls, restarts>>

(* hasPendingDownload says that a spent budget needs the learner.           *)
TimerExhausted ==
    /\ Exhausted /\ ~m.closing
    /\ m' = [m EXCEPT !.phase = "error"]
    /\ IF manual THEN UNCHANGED pending ELSE ClearPending
    /\ UNCHANGED <<manual, journal, calls, intent, failures, restarts>>

(* resumePendingDownload up to its inspection of the journal.               *)
Resume ==
    /\ calls["auto"] = "idle" /\ HasPending
    /\ ~Settling /\ ~Refused /\ ~m.userPaused /\ ~m.busy
    /\ m.lock = None
    /\ m' = [m EXCEPT !.lock = "inspect"]
    /\ calls' = [calls EXCEPT !["auto"] = "inspect"]
    /\ UNCHANGED <<manual, pending, journal, intent, failures, restarts>>

Resumable(j) == j = None \/ (~j.manualRetry /\ j.attempts < MaxAttempts)
StopResume(left) ==
    /\ calls' = [calls EXCEPT !["auto"] = "idle"]
    /\ intent' = Recall(left) /\ failures' = OnRecord(left)
    /\ UNCHANGED pending

\* Faulty variant: the pause on disk is not honoured.
InspectedAnyway ==
    /\ calls["auto"] = "inspect"
    /\ LET mem == [m EXCEPT !.lock = None] IN
       IF Refused \/ m.busy \/ m.userPaused \/ ~Resumable(journal)
       THEN m' = mem /\ StopResume(journal)
       ELSE ApplyTo("auto", mem, journal) /\ UNCHANGED intent
    /\ UNCHANGED <<manual, journal, restarts>>

(* The journal was read, and no pause is in it: a spent budget or full disk *)
(* waits for the learner, anything else is applied, also when the journal   *)
(* could not be read and was set aside.                                     *)
Inspected ==
    /\ calls["auto"] = "inspect"
    /\ LET mem == [m EXCEPT !.lock = None] IN
       \E read \in Reads :
          /\ ~Paused(read.got)
          /\ IF ~Resumable(read.got)
             THEN m' = [mem EXCEPT !.phase = "error"] /\ StopResume(read.left)
             ELSE IF Refused \/ m.busy \/ m.userPaused THEN m' = mem /\ StopResume(read.left)
             ELSE ApplyTo("auto", mem, read.got) /\ intent' = Recall(read.got)
          /\ journal' = read.left
    /\ UNCHANGED <<manual, restarts>>

(* A pause was read: it is read once more to be shown, or the journal       *)
(* cannot be inspected at all. Neither downloads anything now.              *)
InspectionStops ==
    /\ calls["auto"] = "inspect"
    /\ LET mem == [m EXCEPT !.lock = None] IN
       \/ m' = mem /\ journal' = journal
       \/ /\ Paused(journal)
          /\ \/ m' = ShowPaused(mem) /\ journal' = journal
             \/ m' = mem /\ journal' = None
    /\ StopResume(journal')
    /\ UNCHANGED <<manual, restarts>>

-----------------------------------------------------------------------------
(* The download loops.                                                      *)

\* Faulty variant: the coordinator stays busy.
EndedBusy(mem) == [mem EXCEPT !.download = None, !.active = "idle"]

Ended(mem) == [mem EXCEPT !.download = None, !.busy = FALSE, !.active = "idle"]
EndCall == calls' = [calls EXCEPT ![m.download.by] = "idle"]
At(pc) == m.download # None /\ m.download.pc = pc
Interrupted == m.aborted /\ m.interruption # None

(* A delay or a stage that was aborted by pause, cancel or shutdown returns *)
(* quietly: the control writes what it means once the files are settled. A  *)
(* stage may have verified its file just before.                            *)
Verified == At("stage") /\ journal' = Cleared(journal) /\ failures' = 0

ReturnInterrupted ==
    /\ manual /\ (At("wait") \/ At("stage")) /\ Interrupted
    /\ m' = [Ended(m) EXCEPT !.lock = IF At("stage") THEN None ELSE @]
    /\ EndCall
    /\ Verified \/ UNCHANGED <<journal, failures>>
    /\ UNCHANGED <<manual, pending, intent, restarts>>

(* downloader.stage: the journal is prepared, or a new one written where it *)
(* cannot be read; the first attempt the learner asked for starts a fresh   *)
(* budget, if the journal can be read for that.                             *)
StageBegins ==
    /\ manual /\ At("wait") /\ ~Interrupted /\ m.lock = None
    /\ \E read \in Reads :
         LET fresh == m.download.attempt = 1 /\ m.download.by = "user" /\ read.got # None
             j == Prepared(read.left, m.download.release)
         IN /\ journal' = IF fresh THEN Cleared(j) ELSE j
            /\ failures' = OnRecord(read.left)
    /\ m' = [m EXCEPT !.lock = "stage", !.download.pc = "stage"]
    /\ UNCHANGED <<manual, pending, calls, intent, restarts>>

Staged ==
    /\ manual /\ ~Interrupted
    /\ Verified
    /\ pending' = [release |-> m.download.release, status |-> "verified-ready",
                   attempts |-> IF pending = None THEN 0 ELSE pending.attempts]
    /\ m' = [Ended(m) EXCEPT !.lock = None, !.phase = "restart-required", !.artifact = TRUE]
    /\ EndCall
    /\ UNCHANGED <<manual, intent, restarts>>

AtMost(n, limit) == IF n < limit THEN n ELSE limit
AtLeast(n, least) == IF n < least THEN least ELSE n
AutomaticRetry(kind) == kind = "transient"
Counted(p, kind) ==
    IF p = None \/ ~AutomaticRetry(kind) THEN p
    ELSE [p EXCEPT !.status = "downloading",
                   !.attempts = AtMost(@ + 1, MaxAttempts)]

(* The catch of an attempt counts a transient failure in the intent. Wrong  *)
(* bytes may have been set aside with the journal; a cache that is held is  *)
(* an unknown failure.                                                      *)
StageFails(kind) ==
    /\ manual /\ ~Interrupted
    /\ \/ At("stage")
       \/ At("wait") /\ m.lock # None /\ kind = "unknown"
    /\ pending' = Counted(pending, kind)
    /\ journal' \in IF kind = "fatal" THEN {journal, None} ELSE {journal}
    /\ failures' = IF journal' = journal THEN failures ELSE 0
    /\ m' = [m EXCEPT !.lock = IF At("stage") THEN None ELSE @,
                      !.download.pc = "record", !.download.kind = kind]
    /\ UNCHANGED <<manual, calls, intent, restarts>>

\* Faulty variant: only failures that are retried at once are counted.
RecordedTransient(j, kind, atLeast) ==
    IF kind = "storage" THEN [j EXCEPT !.manualRetry = TRUE]
    ELSE IF AutomaticRetry(kind) THEN [j EXCEPT !.attempts = AtMost(AtLeast(@ + 1, atLeast), CounterLimit)]
    ELSE j

(* recordAutomaticFailure: a full disk waits for the learner, anything else *)
(* is counted, and never below the intent's count.                          *)
Recorded(j, kind, atLeast) ==
    IF kind = "storage" THEN [j EXCEPT !.manualRetry = TRUE]
    ELSE [j EXCEPT !.manualRetry = FALSE,
                   !.attempts = AtMost(AtLeast(@ + 1, atLeast), CounterLimit)]

(* The failure is recorded if the cache is free and the journal can be      *)
(* written, then the loop goes on, or the download ends; a release that is  *)
(* wrong ends the intent and the cache too.                                 *)
Spent(j) == (pending # None /\ pending.attempts >= MaxAttempts)
            \/ (j # None /\ j.attempts >= MaxAttempts)
GoesOn(j) ==
    AutomaticRetry(m.download.kind) /\ ~Spent(j) /\ m.download.attempt < RetryLimit

RecordFailure(written) ==
    /\ At("record")
    /\ \E read \in (IF m.lock = None THEN Reads ELSE {Read(None, journal)}) :
       LET kind == m.download.kind
           atLeast == IF pending = None THEN 0 ELSE pending.attempts
           records == written /\ read.got # None
           j == IF records THEN Recorded(read.got, kind, atLeast) ELSE read.left
           counts == records /\ read.got.release = m.download.release /\ kind # "storage"
       IN /\ IF GoesOn(IF records THEN j ELSE None)
             THEN /\ m' = [m EXCEPT !.download.pc = "wait", !.download.attempt = @ + 1]
                  /\ journal' = j
                  /\ UNCHANGED <<pending, calls>>
             ELSE /\ m' = [Ended(m) EXCEPT !.phase = "error"]
                  /\ IF kind = "fatal" THEN ClearPending /\ journal' \in {j, None}
                     ELSE journal' = j /\ UNCHANGED pending
                  /\ EndCall
          /\ failures' = IF counts /\ journal' # None THEN failures + 1 ELSE OnRecord(journal')
    /\ UNCHANGED <<manual, intent, restarts>>

(* Without a package to open, the updater library downloads and counts only *)
(* in the intent. What is not retried automatically ends the intent.        *)
UpdaterDownloads ==
    /\ ~manual /\ At("wait")
    /\ pending' = [release |-> m.download.release, status |-> "verified-ready",
                   attempts |-> IF pending = None THEN 0 ELSE pending.attempts]
    /\ m' = [Ended(m) EXCEPT !.phase = "restart-required"]
    /\ failures' = 0
    /\ EndCall
    /\ UNCHANGED <<manual, journal, intent, restarts>>

UpdaterFails(kind) ==
    /\ ~manual /\ At("wait")
    /\ LET p == Counted(pending, kind)
           spent == m.download.by = "auto" /\ p # None /\ p.attempts >= MaxAttempts
       IN IF AutomaticRetry(kind) /\ ~spent /\ m.download.attempt < RetryLimit
          THEN /\ pending' = p
               /\ m' = [m EXCEPT !.download.attempt = @ + 1]
               /\ UNCHANGED calls
          ELSE /\ pending' \in IF AutomaticRetry(kind) /\ ~spent THEN {p} ELSE {p, None}
               /\ m' = [Ended(m) EXCEPT !.phase = "error"]
               /\ EndCall
    /\ failures' = IF AutomaticRetry(kind) THEN failures + 1 ELSE failures
    /\ UNCHANGED <<manual, journal, intent, restarts>>

-----------------------------------------------------------------------------
(* pauseDownload and cancelDownload (controlDownload, canPause, canCancel). *)

Downloading == m.active = "downloading" /\ m.download # None /\ m.phase = "downloading"
CanPause == Downloading /\ ~m.aborted
CanCancel ==
    \/ Downloading
    \/ ~m.busy /\ (m.phase \in {"paused", "restart-required"} \/ (m.phase = "error" /\ journal # None))

Control(action) ==
    /\ manual /\ ~Refused /\ m.lock # "discard"
    /\ IF action = "pause" THEN CanPause ELSE CanCancel
    /\ m' = [m EXCEPT !.control = action, !.userPaused = TRUE, !.interruption = action,
                      !.aborted = m.download # None]
    /\ UNCHANGED <<manual, pending, journal, calls, intent, failures, restarts>>

Controlled(mem) == [mem EXCEPT !.control = None, !.interruption = None]

(* Once the download has settled, the pause is written to the journal, or   *)
(* to a new one if that cannot be read.                                     *)
PauseWritten ==
    /\ m.control = "pause" /\ m.download = None /\ m.lock = None
    /\ \E left \in {journal, None} :
         /\ journal' = [Prepared(left, m.descriptor) EXCEPT !.paused = TRUE]
         /\ failures' = OnRecord(left)
    /\ m' = Controlled([m EXCEPT !.phase = "paused"])
    /\ intent' = "stopped"
    /\ UNCHANGED <<manual, pending, calls, restarts>>

(* A cancel empties the cache first, the journal of a pause with it ...     *)
CancelDiscards ==
    /\ m.control = "cancel" /\ m.download = None /\ m.lock = None
    /\ m' = [m EXCEPT !.control = Cleaning]
    /\ journal' = None
    /\ intent' = Recall(None) /\ failures' = OnRecord(None)
    /\ UNCHANGED <<manual, pending, calls, restarts>>

(* ... and then the intent. It returns also when that stays on record.      *)
CancelDone ==
    /\ m.control = Cleaning
    /\ ClearPending
    /\ m' = Controlled([m EXCEPT !.phase = "available", !.userPaused = FALSE,
                                 !.descriptor = None, !.artifact = FALSE])
    /\ intent' = IF pending' = None THEN "stopped" ELSE "forgotten"
    /\ UNCHANGED <<manual, journal, calls, failures, restarts>>

(* The cache is held, or its files cannot be written or synced; the journal *)
(* may be gone by then.                                                     *)
ControlFails ==
    /\ m.control \in Controls /\ m.download = None
    /\ m' = Controlled([m EXCEPT !.phase = "error"])
    /\ journal' \in (IF m.lock = None THEN {journal, None} ELSE {journal})
    /\ intent' = Recall(journal') /\ failures' = OnRecord(journal')
    /\ UNCHANGED <<manual, pending, calls, restarts>>

-----------------------------------------------------------------------------
(* relaunchToApply: a package is hashed again and shown.                    *)
Relaunch ==
    /\ ~Refused /\ m.lock # "discard" /\ ~m.busy /\ m.active = "idle"
    /\ m.phase = "restart-required"
    /\ IF manual
       THEN /\ m.artifact /\ m.lock = None
            /\ m' = [m EXCEPT !.active = "installing", !.busy = TRUE, !.lock = "revalidate"]
       ELSE m' = [m EXCEPT !.active = "installing", !.busy = TRUE, !.phase = "installing"]
    /\ UNCHANGED <<manual, pending, journal, calls, intent, failures, restarts>>

(* A recovery that is inspecting the cache makes the check of the package   *)
(* fail as if its bytes were wrong.                                         *)
RelaunchMeetsInspection ==
    /\ manual /\ ~Refused /\ ~m.busy /\ m.phase = "restart-required" /\ m.lock = "inspect"
    /\ ClearPending /\ journal' \in {journal, None}
    /\ m' = [m EXCEPT !.phase = "error", !.artifact = FALSE]
    /\ intent' = Recall(journal') /\ failures' = OnRecord(journal')
    /\ UNCHANGED <<manual, calls, restarts>>

Installed(mem, ph) == [mem EXCEPT !.active = "idle", !.busy = FALSE, !.phase = ph]

Revalidated ==
    /\ m.lock = "revalidate"
    /\ m' = Installed([m EXCEPT !.lock = None], "restart-required")
    /\ UNCHANGED <<manual, pending, journal, calls, intent, failures, restarts>>

RevalidationFails ==
    /\ m.lock = "revalidate"
    /\ ClearPending /\ journal' \in {journal, None}
    /\ m' = Installed([m EXCEPT !.lock = None, !.artifact = FALSE], "error")
    /\ intent' = Recall(journal') /\ failures' = OnRecord(journal')
    /\ UNCHANGED <<manual, calls, restarts>>

(* The installer does not start, or does not take over in time. A failure   *)
(* that is retried automatically keeps the intent.                          *)
InstallFails ==
    /\ ~manual /\ m.active = "installing"
    /\ ClearPending                 \* or a failure that keeps it
    /\ m' = Installed(m, "error")
    /\ UNCHANGED <<manual, journal, calls, intent, failures, restarts>>

(* cleanupExpiredDownloads takes only files that no journal protects.       *)
Maintain ==
    /\ ~Settling /\ ~Refused /\ m.lock = None /\ ~m.busy /\ calls["auto"] = "idle"
    /\ m.phase # "restart-required"
    /\ m' = [m EXCEPT !.lock = "maintenance", !.busy = TRUE]
    /\ UNCHANGED <<manual, pending, journal, calls, intent, failures, restarts>>

Maintained ==
    /\ m.lock = "maintenance"
    /\ m' = [m EXCEPT !.lock = None, !.busy = FALSE]
    /\ UNCHANGED <<manual, pending, journal, calls, intent, failures, restarts>>

(* shutdown interrupts the download but says nothing of a pause.            *)
Shutdown ==
    /\ ~m.closing
    /\ m' = [m EXCEPT !.closing = TRUE, !.aborted = m.download # None,
                      !.interruption = IF @ = None THEN "shutdown" ELSE @]
    /\ UNCHANGED <<manual, pending, journal, calls, intent, failures, restarts>>

(* After a shutdown, or by a crash at any step, the app starts again.       *)
Restart ==
    /\ restarts < MaxRestarts
    /\ restarts' = restarts + 1
    /\ Verified \/ UNCHANGED <<journal, failures>>
    /\ m' = Boot(pending, journal')
    /\ calls' = NoCall
    /\ UNCHANGED <<manual, pending, intent>>

-----------------------------------------------------------------------------
Kinds == {"transient", "unknown", "storage", "fatal"}

DownloadStep ==
    \/ ReturnInterrupted \/ StageBegins \/ Staged \/ UpdaterDownloads
    \/ \E written \in BOOLEAN : RecordFailure(written)
    \/ \E kind \in Kinds : StageFails(kind) \/ UpdaterFails(kind)
CheckStep ==
    \/ \E release \in Releases : CheckOffers(release)
    \/ CheckFindsNothing \/ CheckFails \/ CheckAbandoned
ResumeStep == Inspected \/ InspectionStops
CacheStep == CacheDiscarded \/ StartupInspected \/ Maintained \/ Revalidated \/ RevalidationFails
ControlStep == PauseWritten \/ CancelDiscards \/ CancelDone \/ ControlFails

Next ==
    \/ Apply \/ Check \/ Resume \/ TimerExhausted
    \/ \E action \in Controls : Control(action)
    \/ DownloadStep \/ CheckStep \/ ResumeStep \/ CacheStep \/ ControlStep
    \/ Relaunch \/ RelaunchMeetsInspection \/ InstallFails \/ Maintain
    \/ Shutdown \/ Restart

Spec == Init /\ [][Next]_vars

(* What has begun is answered or times out. Neither the learner, nor the    *)
(* timers, nor the feed, nor an installer need do anything.                 *)
FairSpec ==
    /\ Spec
    /\ WF_vars(DownloadStep) /\ WF_vars(CheckStep) /\ WF_vars(ResumeStep)
    /\ WF_vars(CacheStep) /\ WF_vars(ControlStep)

-----------------------------------------------------------------------------
(* After the learner has paused or cancelled, and that request has          *)
(* returned, no timer and no network event starts a download before they    *)
(* ask for one, over any number of restarts, as long as the stop is on      *)
(* record; and a stop that fails, or whose record is lost, still holds      *)
(* until the app restarts. "forgotten" names the losses: a journal that     *)
(* could not be read, or was discarded, and a cancel whose second durable   *)
(* step did not happen (userPaused 360, controlDownload 363-381,            *)
(* performPendingDownloadResume 454-503, restorePausedDownload 266-281).    *)
AutoNeedsIntent ==
    intent = "stopped" \/ (m.userPaused /\ m.control = None)
        => ~(m.download # None /\ m.download.by = "auto")

(* Failed downloads of a release since the learner last asked for it, or    *)
(* since a journal that counted them was lost or missed, stay within the    *)
(* automatic budget, whichever of the two durable counters counted them and *)
(* however restarts cut the retries into pieces (recordFailure,             *)
(* recordAutomaticFailure, 413-441, 474-482, 842-870).                      *)
BudgetHolds == failures <= MaxAttempts

(* A call of the learner, a resume, a pause and a cancel return.            *)
CallsReturn ==
    /\ \A c \in Callers : calls[c] # "idle" ~> calls[c] = "idle"
    /\ m.control # None ~> m.control = None
=============================================================================
