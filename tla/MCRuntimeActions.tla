-------------------------- MODULE MCRuntimeActions --------------------------
(* Small instances of RuntimeActions for TLC.                              *)
EXTENDS RuntimeActions

CONSTANTS x1, x2, x3
=============================================================================
