---------------------------- MODULE MCAiAnswers ----------------------------
(* Two windows of one learner, two accounts.                                *)
EXTENDS AiAnswers, TLC

CONSTANTS w1, w2, r1, r2, r3, u1, u2

MCOwner == (r1 :> u1) @@ (r2 :> u1) @@ (r3 :> u2)
Symmetry == Permutations(Window) \cup Permutations({r1, r2})
=============================================================================
