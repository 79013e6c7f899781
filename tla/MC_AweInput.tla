----------------------------- MODULE MC_AweInput -----------------------------
(***************************************************************************)
(* A wake engine with a ring of three chunks of two frames (fifty chunks   *)
(* of 320 frames in the code), pushes of less than, exactly and more than  *)
(* a chunk, and a DSP that may take nothing, half or all of a chunk.       *)
(***************************************************************************)
EXTENDS AweInput
=============================================================================
