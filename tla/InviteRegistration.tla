-------------------------- MODULE InviteRegistration --------------------------
(***************************************************************************)
(* An invitation turns a guest into an account (web/src/stores/auth.ts,    *)
(* core-logic/src/store/registration-journal.ts). Before the request is    *)
(* sent, a reservation records whose work the account will receive; the    *)
(* answer binds the reservation to the account; the login is stored; the   *)
(* guest is claimed and its queued attempts are moved; the reservation is  *)
(* released. Any window may die in between, sign in as somebody else, or   *)
(* find that another one did, and carries on from what is stored.          *)
(*                                                                         *)
(* In each window an account action (redeem, login, logout, start-up) and  *)
(* the refresh after another window's change run side by side; the later   *)
(* one to begin owns the transition and the other is superseded. A step is *)
(* what a task does up to its next durable operation. There is no mutex    *)
(* between windows: runStorageMutation takes one on the desktop only.      *)
(* The server is external. Left out: changing the server, tokens that      *)
(* expire, the archive reconciliation after a login, legacy documents.     *)
(***************************************************************************)
EXTENDS GuestOwnership, Naturals

CONSTANTS Window, Id,   \* Id: client mutation ids of registrations
          MaxActions,   \* bound: redeems, logins and logouts begun
          MaxMishaps    \* bound: windows that die, storage operations that fail
                        \* and practice sessions that capture their owner

ASSUME BoundsAssumption == MaxActions \in Nat /\ MaxMishaps \in Nat
ASSUME NamesAssumption == None \notin Id \cup Window

Reservation == [user : User, guest : Guest, gen : Generation]
Intent == [id : Id, status : {"reserved", "redeemed"}, user : User,
           guest : Guest, gen : Generation]
StoredLogin == [user : User, by : Window]
Captured == [window : Window, profile : Guest, gen : Generation \cup {None}]
ASSUME NoRecordAssumption == None \notin Reservation \cup Intent \cup StoredLogin \cup Captured

VARIABLES intent,       \* the reservation (REGISTRATION_INTENT_STORAGE_KEY), or None
          auth,         \* the stored login, or None
          reserved,     \* history: what each id was reserved for
          accepted,     \* server: ids whose invitation was redeemed
          moved,        \* generations whose queued attempts left the guest queue
          win,          \* each window's published state
          job,          \* each window's account action and refresh
          note,         \* windows with an unread notice of a change of the login
          capture,      \* a practice session capturing its owner, or None
          spent         \* bounded events so far

registrationVars == <<intent, auth, reserved, accepted, moved, win, job, note,
                      capture, spent>>
vars == <<ownershipVars, registrationVars>>

Task == {"action", "refresh"}
Other(t) == IF t = "action" THEN "refresh" ELSE "action"

Login(u, w) == [user |-> u, by |-> w]
UserOf(login) == IF login = None THEN None ELSE login.user

Idle == [pc |-> "idle", kind |-> "none", user |-> None, id |-> None, guest |-> None,
         gen |-> None, fresh |-> FALSE, stored |-> None, verified |-> FALSE, behind |-> FALSE]

(* The archive mutations of a window queue up (enqueueArchiveMutation); the  *)
(* last three of a quarantine, and the two of a guest's activation, are one.*)
Queued == {"guest", "selectGuest", "activate", "claimAny", "claim", "quarantine",
           "moveOld", "finishOld"}
Held == {"selectGuest", "moveOld", "finishOld"}

Pc == Queued \cup {"idle", "start", "reserve", "release", "send", "accepted", "refused",
                   "drop", "lost", "match", "store", "verify", "profile", "journal", "route",
                   "move", "finish", "complete", "publish", "rollback", "sync", "clear"}

TypeOK ==
    /\ OwnershipTypeOK
    /\ intent \in Intent \cup {None}
    /\ auth \in StoredLogin \cup {None}
    /\ accepted \subseteq {i \in Id : reserved[i] # None}
    /\ intent # None => /\ reserved[intent.id] = [user |-> intent.user, guest |-> intent.guest,
                                                  gen |-> intent.gen]
                        /\ intent.status = "redeemed" => intent.id \in accepted
    /\ moved \subseteq Generation \ {generation}
    /\ \A w \in Window :
          /\ win[w].shown \in StoredLogin \cup {None}
          /\ win[w].selected \in Profile
          /\ win[w].epoch \in Task \cup {"none", "locked", "closed"}
          /\ win[w].epoch = "closed" => \A t \in Task : job[w][t] = Idle
          /\ \A t \in Task : job[w][t].pc \in Pc

Init ==
    /\ OwnershipInit
    /\ guest = CHOOSE g \in Guest : TRUE
    /\ generation = CHOOSE n \in Generation : TRUE
    /\ intent = None /\ auth = None
    /\ reserved = [i \in Id |-> None] /\ accepted = {} /\ moved = {}
    /\ win = [w \in Window |-> [shown |-> None, selected |-> guest, epoch |-> "none",
                                again |-> FALSE]]
    /\ job = [w \in Window |-> [t \in Task |-> Idle]]
    /\ note = [w \in Window |-> FALSE]
    /\ capture = None
    /\ spent = [actions |-> 0, mishaps |-> 0]

-----------------------------------------------------------------------------
(* transitionIsCurrent: no later transition has begun in this window.       *)
Current(w, t) == win[w].epoch = t /\ (t = "refresh" => ~win[w].again)

Turn(w, t) == /\ job[w][t].pc \in Queued
              /\ ~(job[w][t].behind /\ job[w][Other(t)].pc \in Queued)

Queue(w, t, j) ==
    [job EXCEPT ![w] =
        [s \in Task |->
            IF s = t
            THEN [j EXCEPT !.behind = /\ j.pc \in Queued \ Held
                                      /\ job[w][Other(t)].pc \in Queued]
            ELSE IF j.pc \in Held THEN job[w][s] ELSE [job[w][s] EXCEPT !.behind = FALSE]]]
Be(w, t, j) == job' = Queue(w, t, j)
Goto(w, t, pc) == Be(w, t, [job[w][t] EXCEPT !.pc = pc])

(* A refresh that was asked for while another one runs starts when it ends. *)
Done(w, t) ==
    IF t = "refresh" /\ win[w].again
    THEN [Idle EXCEPT !.pc = "start", !.kind = "refresh"] ELSE Idle
Ended(view, t) == IF t = "refresh" THEN [view EXCEPT !.again = FALSE] ELSE view
Quit(w, t) ==
    /\ Be(w, t, Done(w, t))
    /\ win' = [win EXCEPT ![w] = Ended(@, t)]

(* finishTransition, then the task returns.                                 *)
Finish(w, t, view) ==
    /\ Be(w, t, Done(w, t))
    /\ win' = [win EXCEPT ![w] =
          Ended([view EXCEPT !.epoch = IF Current(w, t) THEN "none" ELSE @], t)]

(* refreshFromStorage, called by task t as its last step, or by nobody.     *)
Refreshing(w) ==
    [win EXCEPT ![w].epoch = "refresh", ![w].again = job[w]["refresh"].pc # "idle"]
Refreshed(w, jobs) ==
    IF job[w]["refresh"].pc = "idle"
    THEN [jobs EXCEPT ![w]["refresh"] = [Idle EXCEPT !.pc = "start", !.kind = "refresh"]]
    ELSE jobs
GiveWay(w) ==
    /\ win' = Refreshing(w)
    /\ job' = Refreshed(w, Queue(w, "action", Idle))

(* lockTransition: the window stays locked until it is reloaded.            *)
Lock(w, t) ==
    /\ Be(w, t, Done(w, t))
    /\ win' = [win EXCEPT ![w] =
          Ended([win[w] EXCEPT !.epoch = IF Current(w, t) THEN "locked" ELSE @], t)]

(* failTransition: the previous account's profile is opened again.          *)
Restore(w) ==
    IF ~Current(w, "action") THEN Quit(w, "action")
    ELSE /\ Be(w, "action",
               [Idle EXCEPT !.kind = "undo", !.user = UserOf(win[w].shown), !.stored = win[w].shown,
                            !.pc = IF win[w].shown = None THEN "guest" ELSE "profile"])
         /\ UNCHANGED win

(* What a task does when one of its steps throws.                           *)
Throw(w, t) ==
    LET j == job[w][t] IN
    IF j.kind \in {"refresh", "init", "undo"} \/ j.pc = "verify"
    THEN Lock(w, t)
    ELSE IF j.verified /\ Current(w, t) THEN Goto(w, t, "rollback") /\ UNCHANGED win
    ELSE Restore(w)

(* A write of the stored login outdates the other tasks' snapshots, and the *)
(* other windows are told.                                                  *)
WriteAuth(w, login, jobs) ==
    /\ auth' = login
    /\ job' = [v \in Window |-> [t \in Task |->
                  IF v = w /\ t = "action" THEN jobs[v][t] ELSE [jobs[v][t] EXCEPT !.fresh = FALSE]]]
    /\ note' = [v \in Window |-> note[v] \/ (v # w /\ win[v].epoch # "closed")]

(* LocalProfileStore.refresh: a selected guest that was claimed is replaced. *)
Followed(p) == IF p \in Guest /\ profileRoute[p] # None THEN guest ELSE p

Mishap ==
    /\ spent.mishaps < MaxMishaps
    /\ spent' = [spent EXCEPT !.mishaps = @ + 1]

-----------------------------------------------------------------------------
(* What the learner begins, in a window that is not in a transition.        *)
Begin(w, kind, u, pc) ==
    /\ win[w].epoch = "none" /\ job[w]["action"] = Idle
    /\ spent.actions < MaxActions
    /\ spent' = [spent EXCEPT !.actions = @ + 1]
    /\ win' = [win EXCEPT ![w].epoch = "action"]
    /\ Be(w, "action", [Idle EXCEPT !.pc = pc, !.kind = kind, !.user = u,
                                    !.fresh = TRUE, !.stored = auth])
    /\ UNCHANGED <<ownershipVars, intent, auth, reserved, accepted, moved, note, capture>>

StartRedeem(w, u) == win[w].shown = None /\ Begin(w, "redeem", u, "reserve")
StartLogin(w, u) == win[w].shown = None /\ Begin(w, "login", u, "match")
StartLogout(w) == win[w].shown # None /\ Begin(w, "logout", None, "sync")

-----------------------------------------------------------------------------
(* Steps of a redeem before there is an account. reserve re-reads the two   *)
(* ownership documents when it commits.                                     *)
NewId == {i \in Id : reserved[i] = None}

Reserve(w) ==
    LET j == job[w]["action"]
        selected == Followed(win[w].selected)
        follow == [win EXCEPT ![w].selected = selected]
    IN
    /\ j.pc = "reserve"
    /\ UNCHANGED <<ownershipVars, auth, accepted, moved, note, capture, spent>>
    /\ \/ /\ \/ selected # guest
             \/ intent = None /\ pending # None
             \/ intent # None /\ intent.user # j.user /\ intent.status = "redeemed"
          /\ Restore(w) /\ UNCHANGED <<intent, reserved>>
       \/ /\ selected = guest /\ intent # None
          /\ intent.user = j.user \/ intent.status = "reserved"
          /\ Be(w, "action", [j EXCEPT !.pc = IF intent.user = j.user THEN "send" ELSE "quarantine",
                                       !.id = intent.id, !.guest = intent.guest, !.gen = intent.gen])
          /\ win' = follow /\ UNCHANGED <<intent, reserved>>
       \/ /\ selected = guest /\ intent = None /\ pending = None
          /\ NewId # {}
          /\ LET i == CHOOSE i \in NewId : TRUE IN
             /\ reserved' = [reserved EXCEPT ![i] = [user |-> j.user, guest |-> guest,
                                                     gen |-> generation]]
             /\ intent' = [id |-> i, status |-> "reserved", user |-> j.user,
                           guest |-> guest, gen |-> generation]
             /\ Be(w, "action", [j EXCEPT !.pc = "send", !.id = i, !.guest = guest,
                                          !.gen = generation])
          /\ win' = follow

(* Another name was reserved before: its guest goes to the recovery export. *)
Quarantine(w) ==
    LET j == job[w]["action"] IN
    /\ j.pc = "quarantine" /\ Turn(w, "action")
    /\ UNCHANGED <<intent, auth, reserved, accepted, moved, note, capture, spent>>
    /\ \/ /\ j.guest \in recovery /\ claimRoute[j.gen] = Ambiguous
          /\ UNCHANGED ownershipVars
          /\ Goto(w, "action", "moveOld") /\ win' = [win EXCEPT ![w].selected = guest]
       \/ /\ ~(j.guest \in recovery /\ claimRoute[j.gen] = Ambiguous)
          /\ guest = j.guest /\ generation = j.gen /\ pending = None
          /\ QuarantineGuest
          /\ Goto(w, "action", "moveOld") /\ win' = [win EXCEPT ![w].selected = guest']
       \/ /\ ~(j.guest \in recovery /\ claimRoute[j.gen] = Ambiguous)
          /\ (guest # j.guest \/ generation # j.gen \/ pending # None)
          /\ Restore(w) /\ UNCHANGED ownershipVars

MoveOld(w) ==
    /\ job[w]["action"].pc = "moveOld"
    /\ moved' = moved \cup {job[w]["action"].gen}
    /\ Goto(w, "action", "finishOld")
    /\ UNCHANGED <<ownershipVars, intent, auth, reserved, accepted, win, note, capture, spent>>

FinishOld(w) ==
    /\ job[w]["action"].pc = "finishOld"
    /\ FinishGuestClaim(Ambiguous)
    /\ Goto(w, "action", "release")
    /\ UNCHANGED <<intent, auth, reserved, accepted, moved, win, note, capture, spent>>

(* Faulty variant: whichever reservation is there is deleted.               *)
ReleaseAny(i) == IF i \in Id THEN None ELSE intent

(* complete deletes the reservation of this id only.                        *)
Released(i) == IF intent # None /\ intent.id = i THEN None ELSE intent

Release(w) ==
    LET j == job[w]["action"] IN
    /\ j.pc = "release"
    /\ intent' = Released(j.id)
    /\ Be(w, "action", [j EXCEPT !.pc = "reserve", !.id = None, !.guest = None, !.gen = None])
    /\ UNCHANGED <<ownershipVars, auth, reserved, accepted, moved, win, note, capture, spent>>

(* The server redeems an invitation once per id and replays the answer; a   *)
(* name that another id took, or a wrong invitation, is refused. The answer *)
(* may be lost.                                                             *)
HasAccount(u) == \E i \in accepted : reserved[i].user = u

Request(w) ==
    LET j == job[w]["action"] IN
    /\ j.pc = "send"
    /\ \/ /\ j.id \in accepted \/ ~HasAccount(j.user)
          /\ accepted' = accepted \cup {j.id}
          /\ \E answer \in {"accepted", "lost"} : Goto(w, "action", answer)
       \/ /\ j.id \notin accepted /\ UNCHANGED accepted
          /\ \E answer \in {"refused", "lost"} : Goto(w, "action", answer)
    /\ UNCHANGED <<ownershipVars, intent, auth, reserved, moved, win, note, capture, spent>>

NoAnswer(w) ==
    /\ job[w]["action"].pc = "lost" /\ Restore(w)
    /\ UNCHANGED <<ownershipVars, intent, auth, reserved, accepted, moved, note, capture, spent>>

(* The answer proves that there is no account: the reservation is released. *)
Refused(w) ==
    LET j == job[w]["action"] IN
    /\ j.pc = "refused"
    /\ IF intent # None /\ intent.id = j.id /\ intent.status = "reserved"
       THEN Goto(w, "action", "drop") /\ UNCHANGED win
       ELSE Restore(w)
    /\ UNCHANGED <<ownershipVars, intent, auth, reserved, accepted, moved, note, capture, spent>>

Drop(w) ==
    /\ job[w]["action"].pc = "drop"
    /\ intent' = Released(job[w]["action"].id)
    /\ Restore(w)
    /\ UNCHANGED <<ownershipVars, auth, reserved, accepted, moved, note, capture, spent>>

(* markRedeemed binds the reservation to the account.                       *)
Accepted(w) ==
    LET j == job[w]["action"] IN
    /\ j.pc = "accepted"
    /\ IF ~Current(w, "action") \/ intent = None \/ intent.id # j.id
       THEN Restore(w) /\ UNCHANGED intent
       ELSE /\ intent' = [intent EXCEPT !.status = "redeemed"]
            /\ Goto(w, "action", "store") /\ UNCHANGED win
    /\ UNCHANGED <<ownershipVars, auth, reserved, accepted, moved, note, capture, spent>>

-----------------------------------------------------------------------------
(* afterAuth: the answer to a login, or a redeemed reservation, becomes the *)
(* stored login. Only a redeemed reservation of this account lets a login   *)
(* claim a guest.                                                           *)
Matches(u) == intent # None /\ intent.status = "redeemed" /\ intent.user = u

Match(w) ==
    LET j == job[w]["action"] IN
    /\ j.pc = "match"
    /\ \/ /\ HasAccount(j.user) /\ Current(w, "action")
          /\ Be(w, "action", IF Matches(j.user)
                             THEN [j EXCEPT !.pc = "store", !.id = intent.id,
                                            !.guest = intent.guest, !.gen = intent.gen]
                             ELSE [j EXCEPT !.pc = "store"])
          /\ UNCHANGED win
       \/ Restore(w)
    /\ UNCHANGED <<ownershipVars, intent, auth, reserved, accepted, moved, note, capture, spent>>

Store(w) ==
    LET j == job[w]["action"] IN
    /\ j.pc = "store"
    /\ IF ~Current(w, "action") THEN Quit(w, "action") /\ UNCHANGED <<auth, note>>
       ELSE IF j.fresh
       THEN /\ WriteAuth(w, Login(j.user, w), Queue(w, "action", [j EXCEPT !.pc = "verify"]))
            /\ UNCHANGED win
       ELSE GiveWay(w) /\ UNCHANGED <<auth, note>>
    /\ UNCHANGED <<ownershipVars, intent, reserved, accepted, moved, capture, spent>>

Verify(w) ==
    LET j == [job[w]["action"] EXCEPT !.fresh = TRUE, !.verified = TRUE] IN
    /\ job[w]["action"].pc = "verify"
    /\ IF ~Current(w, "action") THEN Quit(w, "action")
       ELSE /\ Be(w, "action", [j EXCEPT !.pc =
                     IF auth # Login(j.user, w) THEN "rollback"
                     ELSE IF j.id # None THEN "claim" ELSE "profile"])
            /\ UNCHANGED win
    /\ UNCHANGED <<ownershipVars, intent, auth, reserved, accepted, moved, note, capture, spent>>

Rollback(w) ==
    LET j == job[w]["action"]
        undo == [Idle EXCEPT !.kind = "undo",
                             !.pc = IF Current(w, "action") THEN "guest" ELSE "idle"]
    IN
    /\ j.pc = "rollback"
    /\ IF j.fresh
       THEN /\ WriteAuth(w, j.stored, Queue(w, "action",
                     IF Current(w, "action") THEN undo ELSE Idle))
            /\ UNCHANGED win
       ELSE Lock(w, "action") /\ UNCHANGED <<auth, note>>
    /\ UNCHANGED <<ownershipVars, intent, reserved, accepted, moved, capture, spent>>

-----------------------------------------------------------------------------
(* Opening the profile of an account or of the guest, in any task. Nothing  *)
(* is awaited between the last storage operation of a refresh, or of a      *)
(* restored profile, and what the window then shows.                        *)
Show(w, t, view, login) ==
    IF t = "refresh" /\ ~Current(w, t)
    THEN /\ Be(w, t, Done(w, t))
         /\ win' = [win EXCEPT ![w] = Ended(view, t)]
    ELSE Finish(w, t, [view EXCEPT !.shown = login])

Opened(w, t, p) ==
    LET j == job[w][t]
        view == [win[w] EXCEPT !.selected = p]
    IN
    CASE j.kind = "undo" \/ (j.kind = "refresh" /\ j.user = None) -> Show(w, t, view, j.stored)
      [] j.kind = "init" /\ j.user = None -> Show(w, t, view, None)
      [] OTHER -> /\ win' = [win EXCEPT ![w] = view]
                  /\ Goto(w, t, IF j.kind = "logout" THEN "clear"
                                 ELSE IF j.kind \in {"refresh", "init"} THEN "journal" ELSE "route")

(* activateProfileForAuth: a pending claim of this account is taken up.     *)
ReadPending(w, t) ==
    /\ job[w][t].pc = "profile"
    /\ Goto(w, t, IF pending # None /\ pending.destination = job[w][t].user
                  THEN "claimAny" ELSE "activate")
    /\ UNCHANGED <<ownershipVars, intent, auth, reserved, accepted, moved, win, note, capture, spent>>

Activate(w, t) ==
    LET j == job[w][t] IN
    /\ j.pc = "activate" /\ Turn(w, t)
    /\ active' = j.user
    /\ Opened(w, t, j.user)
    /\ UNCHANGED <<guest, profileRoute, recovery, claimVars, intent, auth, reserved, accepted,
                   moved, note, capture, spent>>

(* activateGuest re-reads the ownership, then selects; a guest that another *)
(* window claimed in between is refused, a quarantined one is not.          *)
ActivateGuest(w, t) ==
    LET j == job[w][t] IN
    /\ j.pc = "guest" /\ Turn(w, t)
    /\ IF Followed(win[w].selected) = guest /\ active = guest
       THEN Opened(w, t, guest)
       ELSE /\ Be(w, t, [j EXCEPT !.pc = "selectGuest", !.guest = guest])
            /\ win' = [win EXCEPT ![w].selected = Followed(@)]
    /\ UNCHANGED <<ownershipVars, intent, auth, reserved, accepted, moved, note, capture, spent>>

GuestSelected(w, t) ==
    LET j == job[w][t] IN
    /\ j.pc = "selectGuest"
    /\ IF profileRoute[j.guest] # None
       THEN Throw(w, t) /\ UNCHANGED active
       ELSE active' = j.guest /\ Opened(w, t, j.guest)
    /\ UNCHANGED <<guest, profileRoute, recovery, claimVars, intent, auth, reserved, accepted,
                   moved, note, capture, spent>>

(* claimGuestForUser: of the reserved guest g and generation n, or, without *)
(* expectations, of whichever guest is current.                             *)
Claimed(u, g, n) ==
    \/ profileRoute[g] = u /\ (n # None => claimRoute[n] = u)
    \/ /\ profileRoute[g] # u
       /\ pending # None /\ pending.destination = u /\ \E h \in Guest : profileRoute[h] = u
Claimable(u, g, n) ==
    /\ profileRoute[g] # u /\ guest = g /\ pending = None
    /\ n # None => generation = n

(* A window that has not re-read the profiles since this account claimed a   *)
(* guest still knows that guest, and claims nothing more; whether the notice*)
(* of the change has reached it is left open.                               *)
StillKnown(u) == \E h \in Guest \ {guest} : profileRoute[h] = u

Claim(w, t) ==
    LET j == job[w][t]
        g == IF j.pc = "claim" THEN j.guest ELSE guest
        n == IF j.pc = "claim" THEN j.gen ELSE None
        open == IF j.pc = "claim"
                THEN /\ win' = [win EXCEPT ![w].selected = j.user]
                     /\ Goto(w, t, "route")
                ELSE Opened(w, t, j.user)
    IN
    /\ j.pc \in {"claim", "claimAny"} /\ Turn(w, t)
    /\ \/ /\ Claimed(j.user, g, n) \/ (j.pc = "claimAny" /\ StillKnown(j.user))
          /\ open /\ UNCHANGED ownershipVars
       \/ ~Claimed(j.user, g, n) /\ Claimable(j.user, g, n) /\ ClaimGuestForUser(j.user) /\ open
       \/ /\ ~Claimed(j.user, g, n) /\ ~Claimable(j.user, g, n)
          /\ Throw(w, t) /\ UNCHANGED ownershipVars
    /\ UNCHANGED <<intent, auth, reserved, accepted, moved, note, capture, spent>>

(* recoverInviteOwnership                                                   *)
ReadJournal(w, t) ==
    LET j == job[w][t] IN
    /\ j.pc = "journal"
    /\ IF j.kind = "init" /\ ~Current(w, t) THEN Quit(w, t)
       ELSE /\ Be(w, t, IF Matches(j.user)
                        THEN [j EXCEPT !.pc = "claim", !.id = intent.id,
                                       !.guest = intent.guest, !.gen = intent.gen]
                        ELSE [j EXCEPT !.pc = "route"])
            /\ UNCHANGED win
    /\ UNCHANGED <<ownershipVars, intent, auth, reserved, accepted, moved, note, capture, spent>>

(* recoverGuestAttemptClaim: the attempts of the claimed generation move.   *)
Settled(w, t) ==
    IF job[w][t].kind = "refresh" THEN Show(w, t, win[w], job[w][t].stored)
    ELSE Goto(w, t, "publish") /\ UNCHANGED win
AfterMove(w, t) ==
    IF job[w][t].id # None THEN Goto(w, t, "complete") /\ UNCHANGED win ELSE Settled(w, t)

(* Faulty variant: the attempts of the guest who is here now are moved.     *)
OwedCurrent(u) ==
    IF pending # None /\ pending.destination = u THEN generation ELSE None

Owed(u) ==
    IF pending # None /\ pending.destination = u THEN pending.source ELSE None

ReadRoute(w, t) ==
    LET j == job[w][t] IN
    /\ j.pc = "route"
    /\ IF Owed(j.user) # None
       THEN Be(w, t, [j EXCEPT !.pc = "move", !.gen = Owed(j.user)]) /\ UNCHANGED win
       ELSE AfterMove(w, t)
    /\ UNCHANGED <<ownershipVars, intent, auth, reserved, accepted, moved, note, capture, spent>>

Move(w, t) ==
    /\ job[w][t].pc = "move"
    /\ moved' = moved \cup {job[w][t].gen}
    /\ Goto(w, t, "finish")
    /\ UNCHANGED <<ownershipVars, intent, auth, reserved, accepted, win, note, capture, spent>>

FinishClaim(w, t) ==
    /\ job[w][t].pc = "finish"
    /\ FinishGuestClaim(job[w][t].user)
    /\ AfterMove(w, t)
    /\ UNCHANGED <<intent, auth, reserved, accepted, moved, note, capture, spent>>

Complete(w, t) ==
    /\ job[w][t].pc = "complete"
    /\ intent' = Released(job[w][t].id)
    /\ Settled(w, t)
    /\ UNCHANGED <<ownershipVars, auth, reserved, accepted, moved, note, capture, spent>>

(* The window shows the account once its profile is open and the stored     *)
(* login is still the one it opened it for.                                 *)
Publish(w, t) ==
    LET j == job[w][t] IN
    /\ j.pc = "publish"
    /\ IF j.kind = "init"
       THEN IF ~Current(w, t) THEN Quit(w, t)
            ELSE IF auth = j.stored THEN Show(w, t, win[w], auth) ELSE GiveWay(w)
       ELSE IF Current(w, t) /\ auth = Login(j.user, w)
            THEN Show(w, t, win[w], auth) ELSE Throw(w, t)
    /\ UNCHANGED <<ownershipVars, intent, auth, reserved, accepted, moved, note, capture, spent>>

-----------------------------------------------------------------------------
(* refreshFromStorage and init read the stored login first.                 *)
ReadLogin(w, t) ==
    LET j == job[w][t] IN
    /\ j.pc = "start"
    /\ IF t = "refresh" /\ ~Current(w, t) THEN Quit(w, t)
       ELSE /\ Be(w, t, [j EXCEPT !.stored = auth, !.user = UserOf(auth),
                                  !.pc = IF auth = None THEN "guest" ELSE "profile"])
            /\ UNCHANGED win
    /\ UNCHANGED <<ownershipVars, intent, auth, reserved, accepted, moved, note, capture, spent>>

(* logout, after its last upload.                                           *)
LeaveAccount(w) ==
    /\ job[w]["action"].pc = "sync"
    /\ IF Current(w, "action") THEN Goto(w, "action", "guest") /\ UNCHANGED win
       ELSE Quit(w, "action")
    /\ UNCHANGED <<ownershipVars, intent, auth, reserved, accepted, moved, note, capture, spent>>

ClearLogin(w) ==
    /\ job[w]["action"].pc = "clear"
    /\ IF job[w]["action"].fresh
       THEN /\ WriteAuth(w, None, Queue(w, "action", Idle))
            /\ win' = [win EXCEPT ![w].shown = None,
                                  ![w].epoch = IF Current(w, "action") THEN "none" ELSE @]
       ELSE GiveWay(w) /\ UNCHANGED <<auth, note>>
    /\ UNCHANGED <<ownershipVars, intent, reserved, accepted, moved, capture, spent>>

(* Another window changed the login: the notice arrives, or the window gets *)
(* the focus and finds a change that no notice announced. A change of the   *)
(* profiles is followed as well.                                            *)
Notice(w) ==
    /\ note[w]
    /\ note' = [note EXCEPT ![w] = FALSE]
    /\ win' = Refreshing(w) /\ job' = Refreshed(w, job)
    /\ UNCHANGED <<ownershipVars, intent, auth, reserved, accepted, moved, capture, spent>>

Focus(w) ==
    /\ win[w].epoch = "none" /\ win[w].shown # auth
    /\ ~note[w] /\ job[w]["refresh"].pc = "idle"
    /\ win' = Refreshing(w) /\ job' = Refreshed(w, job)
    /\ UNCHANGED <<ownershipVars, intent, auth, reserved, accepted, moved, note, capture, spent>>

FollowProfiles(w) ==
    /\ win[w].epoch # "closed" /\ Followed(win[w].selected) # win[w].selected
    /\ win' = [win EXCEPT ![w].selected = Followed(@)]
    /\ UNCHANGED <<ownershipVars, intent, auth, reserved, accepted, moved, job, note, capture, spent>>

Close(w) ==
    /\ win' = [win EXCEPT ![w].epoch = "closed", ![w].again = FALSE, ![w].shown = None,
                          ![w].selected = guest]
    /\ job' = [job EXCEPT ![w] = [t \in Task |-> Idle]]
    /\ note' = [note EXCEPT ![w] = FALSE]
    /\ capture' = IF capture # None /\ capture.window = w THEN None ELSE capture
    /\ UNCHANGED <<ownershipVars, intent, auth, reserved, accepted, moved>>

Crash(w) ==
    /\ win[w].epoch # "closed" /\ Mishap
    /\ Close(w)

Reload(w) == win[w].epoch = "locked" /\ Close(w) /\ UNCHANGED spent

(* The stored login chooses the first profile; init then checks it.         *)
Boot(w) ==
    LET p == IF auth = None THEN guest ELSE auth.user IN
    /\ win[w].epoch = "closed"
    /\ active' = p
    /\ win' = [win EXCEPT ![w].selected = p, ![w].epoch = "action"]
    /\ job' = [job EXCEPT ![w]["action"] = [Idle EXCEPT !.pc = "start", !.kind = "init"]]
    /\ UNCHANGED <<guest, profileRoute, recovery, claimVars, intent, auth, reserved, accepted,
                   moved, note, capture, spent>>

(* A storage operation of a task fails.                                     *)
StorageFails(w, t) ==
    /\ Mishap
    /\ job[w][t].pc \in {"reserve", "quarantine", "moveOld", "finishOld", "release", "accepted",
                         "store", "verify", "profile", "activate", "claimAny", "claim", "guest",
                         "selectGuest", "journal", "route", "move", "finish", "complete", "clear"}
    /\ job[w][t].pc \in Queued \ Held => Turn(w, t)
    /\ Throw(w, t)
    /\ UNCHANGED <<ownershipVars, intent, auth, reserved, accepted, moved, note, capture>>

-----------------------------------------------------------------------------
(* captureAttemptOwner in a guest's window: the profile, the generation,    *)
(* then the profile and the login once more; any difference starts it over. *)
(* (An account's window reads the profile twice, and no generation.) Once   *)
(* it has ended nothing is left of it, so only one in progress is counted.  *)
CaptureBegins(w) ==
    /\ capture = None /\ win[w].epoch = "none" /\ win[w].shown = None
    /\ Followed(win[w].selected) = guest
    /\ Mishap
    /\ win' = [win EXCEPT ![w].selected = guest]
    /\ capture' = [window |-> w, profile |-> guest, gen |-> None]
    /\ UNCHANGED <<ownershipVars, intent, auth, reserved, accepted, moved, job, note>>

CaptureGeneration ==
    /\ capture # None /\ capture.gen = None
    /\ capture' = [capture EXCEPT !.gen = generation]
    /\ UNCHANGED <<ownershipVars, intent, auth, reserved, accepted, moved, win, job, note, spent>>

(* Faulty variant: only the login is compared again.                        *)
StillSignedOut(w, p) == win[w].shown = None /\ p \in Profile

(* The checks of the second reading: p is the profile it finds selected.    *)
StillGuest(w, p) == win[w].shown = None /\ p = capture.profile /\ p = guest

CaptureEnds(held) ==
    LET w == capture.window
        p == Followed(win[w].selected)
    IN
    /\ capture # None /\ capture.gen # None /\ held = StillGuest(w, p)
    /\ win' = [win EXCEPT ![w].selected = p]
    /\ capture' = None /\ spent' = [spent EXCEPT !.mishaps = @ - 1]
    /\ UNCHANGED <<ownershipVars, intent, auth, reserved, accepted, moved, job, note>>

-----------------------------------------------------------------------------
TaskStep(w, t) ==
    \/ ReadPending(w, t) \/ Activate(w, t) \/ ActivateGuest(w, t) \/ GuestSelected(w, t)
    \/ Claim(w, t) \/ ReadJournal(w, t) \/ ReadRoute(w, t) \/ Move(w, t)
    \/ FinishClaim(w, t) \/ Complete(w, t) \/ Publish(w, t) \/ ReadLogin(w, t)

ActionStep(w) ==
    \/ Reserve(w) \/ Quarantine(w) \/ MoveOld(w) \/ FinishOld(w) \/ Release(w)
    \/ Request(w) \/ NoAnswer(w) \/ Refused(w) \/ Drop(w) \/ Accepted(w)
    \/ Match(w) \/ Store(w) \/ Verify(w) \/ Rollback(w)
    \/ LeaveAccount(w) \/ ClearLogin(w)

Work(w) == ActionStep(w) \/ \E t \in Task : TaskStep(w, t)
Recover(w) == Notice(w) \/ Focus(w) \/ Reload(w) \/ Boot(w)

Learner(w) == \/ \E u \in User : StartRedeem(w, u) \/ StartLogin(w, u)
              \/ StartLogout(w) \/ CaptureBegins(w)

Fault(w) == Crash(w) \/ \E t \in Task : StorageFails(w, t)

Next ==
    \/ \E w \in Window : Learner(w) \/ Work(w) \/ Recover(w) \/ FollowProfiles(w) \/ Fault(w)
    \/ CaptureGeneration \/ \E held \in BOOLEAN : CaptureEnds(held)

Spec == Init /\ [][Next]_vars

-----------------------------------------------------------------------------
(* A practice session that captures its owner (captureAttemptOwner) gets    *)
(* one: the profile that keeps its archive and the generation that queues   *)
(* its attempts both belong to the guest who is here now, whatever claim or *)
(* quarantine ran between the readings.                                     *)
CapturedOneOwner ==
    [][CaptureEnds(TRUE) => capture.profile = guest /\ capture.gen = generation]_vars

(* The reservation of a redeemed invitation, the only proof of whose work   *)
(* the account receives, is not released before its guest belongs to the    *)
(* account or is set aside. One exception is the code's: a request of       *)
(* another window under the same id, refused before the invitation was      *)
(* redeemed, releases it (redeem's catch).                                  *)
RedeemedIsKept ==
    [][intent # None /\ intent.status = "redeemed" /\ intent' # intent
        => \/ profileRoute'[intent.guest] = intent.user
           \/ intent.guest \in recovery'
           \/ \E w \in Window :
                 job[w]["action"].pc = "drop" /\ job[w]["action"].id = intent.id]_vars

(* A redeemed reservation is never quarantined (the comment in redeem). The *)
(* code does not keep this.                                                 *)
RedeemedNotQuarantined ==
    [][intent # None /\ intent.status = "redeemed"
        => (intent.guest \in recovery' => intent.guest \in recovery)]_vars
=============================================================================
