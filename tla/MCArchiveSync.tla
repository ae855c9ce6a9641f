--------------------------- MODULE MCArchiveSync ---------------------------
(* Two windows of one account, edits on this device and on another one.     *)
EXTENDS ArchiveSync, TLC

CONSTANTS w1, w2, l1, l2, r1

MCClash == {<<l1, r1>>}
MCOlder == {<<l2, r1>>}
=============================================================================
