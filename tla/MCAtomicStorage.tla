-------------------------- MODULE MCAtomicStorage --------------------------
(* Two renderers, two addresses, one of them a session-only secret.        *)
EXTENDS AtomicStorage

CONSTANTS c1, c2, archive, secret, v1

MCClient == {c1, c2}
MCAddress == {archive, secret}
MCSessionOnly == {secret}
MCValue == {v1}
=============================================================================
