------------------------------ MODULE MC_ShmPool ------------------------------
(***************************************************************************)
(* Two threads and a DSP with two blocks; five calls: enough for both to   *)
(* meet in the initialisation, to fail there and to try again.             *)
(***************************************************************************)
EXTENDS ShmPool
=============================================================================
