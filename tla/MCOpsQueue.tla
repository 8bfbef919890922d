----------------------------- MODULE MCOpsQueue -----------------------------
(* Values of the constants of OpsQueue for TLC. *)
EXTENDS OpsQueue

CONSTANTS j1, j2, j3, w1, w2
=============================================================================
