---------------------------- MODULE MCGradePair ----------------------------
(* Two windows answer two attempts of one programme; another programme may  *)
(* replace it.  A single guest identity, so that nothing can be claimed.    *)
EXTENDS GradeCommit, TLC

CONSTANTS g1, n1, w1, w2, a1, a2, s1, s2

MCSessionOf == (a1 :> s1) @@ (a2 :> s1)
=============================================================================
