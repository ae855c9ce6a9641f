-------------------------- MODULE MCCoreSupervisor --------------------------
(***************************************************************************)
(* Three commands meet two crashes, of which the second is the one after   *)
(* which a core is no longer restarted.                                    *)
(***************************************************************************)
EXTENDS CoreSupervisor

CONSTANT none
=============================================================================
