---------------------------- MODULE MC_AweFreeRun ----------------------------
(***************************************************************************)
(* Four calls of AML_AWE_SetParam in any order, against a close at any     *)
(* time, in builds that do and do not hoist the flag.                      *)
(***************************************************************************)
EXTENDS AweFreeRun
=============================================================================
