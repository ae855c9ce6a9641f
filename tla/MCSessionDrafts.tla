--------------------------- MODULE MCSessionDrafts --------------------------
(* Two windows on one programme: three texts between them, one fault, two   *)
(* saves of hints or positions, one restore.                                *)
EXTENDS SessionDrafts, TLC

CONSTANTS w1, w2

MCSymmetry == Permutations(Window)
=============================================================================
