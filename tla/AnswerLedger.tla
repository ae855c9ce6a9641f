---------------------------- MODULE AnswerLedger ----------------------------
(***************************************************************************)
(* What recording an answer promises, without storage, windows or retries: *)
(* a reserved attempt is answered at most once, the answer never changes,  *)
(* the learner is told so only of an answer that exists, and the answer    *)
(* reaches no account but the one that owns it.  A guest's answers may be  *)
(* handed over once, together; an account's answers never leave it.        *)
(***************************************************************************)
CONSTANTS Attempt,     \* reserved client attempt ids
          Answer,      \* what an attempt can be answered with
          User,        \* accounts
          GuestOwner,  \* the owner of answers nobody has claimed
          Ambiguous,   \* the export-only owner of quarantined answers
          None

VARIABLES answer,      \* [Attempt -> Answer \cup {None}]
          home,        \* who owns each attempt, None until its programme starts
          confirmed,   \* attempts whose result was shown as recorded
          received     \* [Attempt -> SUBSET User], accounts the server filed it under

vars == <<answer, home, confirmed, received>>

Init ==
    /\ answer = [a \in Attempt |-> None]
    /\ home = [a \in Attempt |-> None]
    /\ confirmed = {}
    /\ received = [a \in Attempt |-> {}]

(* A programme starts and fixes the owner of the attempts it reserves.      *)
Reserve(A, o) ==
    /\ \A a \in A : home[a] = None
    /\ home' = [a \in Attempt |-> IF a \in A THEN o ELSE home[a]]
    /\ UNCHANGED <<answer, confirmed, received>>

(* The first answer wins; it may or may not be confirmed in the same step.  *)
Record(a, v) ==
    /\ home[a] # None
    /\ answer[a] = None
    /\ answer' = [answer EXCEPT ![a] = v]
    /\ confirmed' \in {confirmed, confirmed \cup {a}}
    /\ UNCHANGED <<home, received>>

Confirm(a) ==
    /\ answer[a] # None
    /\ confirmed' = confirmed \cup {a}
    /\ UNCHANGED <<answer, home, received>>

(* All of one guest's attempts change hands in one step.                    *)
HandOver(A, d) ==
    /\ \A a \in A : home[a] = GuestOwner
    /\ home' = [a \in Attempt |-> IF a \in A THEN d ELSE home[a]]
    /\ UNCHANGED <<answer, confirmed, received>>

Receive(a, u) ==
    /\ answer[a] # None
    /\ home[a] = u
    /\ received' = [received EXCEPT ![a] = @ \cup {u}]
    /\ UNCHANGED <<answer, home, confirmed>>

Next ==
    \/ \E A \in SUBSET Attempt, o \in User \cup {GuestOwner} : Reserve(A, o)
    \/ \E a \in Attempt, v \in Answer : Record(a, v)
    \/ \E a \in Attempt : Confirm(a)
    \/ \E A \in SUBSET Attempt, d \in User \cup {Ambiguous} : HandOver(A, d)
    \/ \E a \in Attempt, u \in User : Receive(a, u)

Spec == Init /\ [][Next]_vars
=============================================================================
