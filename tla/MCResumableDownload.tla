------------------------ MODULE MCResumableDownload ------------------------
(***************************************************************************)
(* Two releases of one size, so that bytes of one can continue the other,  *)
(* and a longer one.                                                       *)
(***************************************************************************)
EXTENDS ResumableDownload

CONSTANTS c1, c2, c3
MCSize == [c \in Contents |-> IF c = c3 THEN 4 ELSE 3]
=============================================================================
