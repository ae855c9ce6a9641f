--------------------------- MODULE MCGradeCommit ---------------------------
(* One programme with one attempt, two windows, one account, and guests for *)
(* two hand-overs, so that a mover of the first can meet the second.        *)
EXTENDS GradeCommit, TLC

CONSTANTS u1, g1, g2, g3, n1, n2, n3, w1, w2, a1, s1

MCSessionOf == a1 :> s1

(* Identities are random and interchangeable: start with the first ones.    *)
MCInit == Init /\ guest = g1 /\ generation = n1
MCSpec == MCInit /\ [][Next]_vars
=============================================================================
