--------------------------- MODULE GuestOwnership ---------------------------
(***************************************************************************)
(* Who owns the work of a guest.  Two durable documents say so: the local  *)
(* profile state (local-profile-store.ts) maps guest profiles to accounts   *)
(* and selects the archive, the guest claim state (attempt-outbox.ts) maps  *)
(* guest generations to accounts and selects the upload queue.  They are    *)
(* separate documents with separate identities, and a claim has to rotate   *)
(* both in one transaction or one answer ends up with two owners.           *)
(***************************************************************************)
EXTENDS FiniteSets

CONSTANTS User,         \* accounts, scoped to their server
          Guest,        \* guest profile ids (guestLocalProfileId)
          Generation,   \* guest attempt generations (createGuestGeneration)
          GuestOwner,   \* GUEST_ATTEMPT_OWNER
          Ambiguous,    \* AMBIGUOUS_GUEST_ATTEMPT_OWNER, export only
          None          \* no route, no pending claim, no document

ASSUME DistinctAssumption ==
    /\ User \cap Guest = {}
    /\ GuestOwner \notin User \cup {Ambiguous, None}
    /\ Ambiguous \notin User \cup {None}
    /\ None \notin User \cup Guest \cup Generation

VARIABLES guest,        \* guestProfileId
          active,       \* activeProfileId, the profile a restart selects
          profileRoute, \* routes: guest profile -> account
          recovery,     \* recoveryProfileIds
          generation,   \* currentGeneration
          claimRoute,   \* routes: generation -> account or Ambiguous
          pending       \* the claim whose queued attempts still have to move

profileVars == <<guest, active, profileRoute, recovery>>
claimVars == <<generation, claimRoute, pending>>
ownershipVars == <<profileVars, claimVars>>

Profile == Guest \cup User
Destination == User \cup {Ambiguous}
PendingClaim == [source : Generation, destination : Destination]
ASSUME NoPendingAssumption == None \notin PendingClaim

OwnershipTypeOK ==
    /\ guest \in Guest
    /\ active \in Profile
    /\ profileRoute \in [Guest -> User \cup {None}]
    /\ recovery \in SUBSET Guest
    /\ generation \in Generation
    /\ claimRoute \in [Generation -> Destination \cup {None}]
    /\ pending \in PendingClaim \cup {None}

OwnershipInit ==
    /\ guest \in Guest
    /\ active = guest
    /\ profileRoute = [g \in Guest |-> None]
    /\ recovery = {}
    /\ generation \in Generation
    /\ claimRoute = [n \in Generation |-> None]
    /\ pending = None

-----------------------------------------------------------------------------
(* resolveLocalProfileId: where the archive of a captured profile lives.    *)
ResolveProfile(p) ==
    IF p \in Guest /\ profileRoute[p] # None THEN profileRoute[p] ELSE p

(* resolveAttemptOwnership: whose queue an attempt of a generation joins.   *)
ResolveGeneration(n) ==
    IF claimRoute[n] # None THEN claimRoute[n] ELSE GuestOwner

(* A new identity is random, hence never one that was in use before.        *)
FreshGuest == Guest \ ({guest} \cup recovery \cup {g \in Guest : profileRoute[g] # None})
FreshGeneration == Generation \ ({generation} \cup {n \in Generation : claimRoute[n] # None})

(* prepareGuestClaim: route the current generation and start another one.   *)
RotateGeneration(d) ==
    /\ claimRoute' = [claimRoute EXCEPT ![generation] = d]
    /\ pending' = [source |-> generation, destination |-> d]
    /\ FreshGeneration # {}
    /\ generation' = CHOOSE n \in FreshGeneration : TRUE

(* Faulty variant: the next guest keeps the profile that was claimed.       *)
KeepGuest == UNCHANGED guest

RotateGuest ==
    /\ FreshGuest # {}
    /\ guest' = CHOOSE g \in FreshGuest : TRUE

(* claimGuestForUser, once its compare-and-swap succeeds: the guest that    *)
(* was inspected is still the current one, and no other claim is pending.   *)
(* A pending claim of the same account makes the call a no-op.              *)
ClaimGuestForUser(u) ==
    /\ pending = None
    /\ RotateGeneration(u)
    /\ profileRoute' = [profileRoute EXCEPT ![guest] = u]
    /\ RotateGuest
    /\ active' = u
    /\ UNCHANGED recovery

(* quarantineGuest: the guest profile is set aside for recovery and its     *)
(* attempts go to the export-only queue, never to the next account.         *)
QuarantineGuest ==
    /\ pending = None
    /\ RotateGeneration(Ambiguous)
    /\ RotateGuest
    /\ recovery' = recovery \cup {guest}
    /\ active' = IF active = guest THEN guest' ELSE active
    /\ UNCHANGED profileRoute

(* finishGuestClaim clears the pending claim; it compares the destination   *)
(* and not the generation.                                                  *)
FinishGuestClaim(d) ==
    /\ pending' = IF pending # None /\ pending.destination = d THEN None ELSE pending
    /\ UNCHANGED <<generation, claimRoute, profileVars>>
=============================================================================
