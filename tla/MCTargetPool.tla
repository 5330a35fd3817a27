---------------------------- MODULE MCTargetPool ----------------------------
(***************************************************************************)
(* Small instances of TargetPool for TLC.                                  *)
(***************************************************************************)
EXTENDS TargetPool

CONSTANTS s1, q1, v1, x1
=============================================================================
