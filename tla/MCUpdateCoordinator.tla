------------------------ MODULE MCUpdateCoordinator ------------------------
(***************************************************************************)
(* Two releases that appear and vanish, a budget of three failures that no *)
(* single run of two attempts can spend, and a restart.                    *)
(***************************************************************************)
EXTENDS UpdateCoordinator

CONSTANTS r1, r2
=============================================================================
