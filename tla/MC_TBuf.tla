------------------------------- MODULE MC_TBuf -------------------------------
(***************************************************************************)
(* Small T buffers.  MC_TBuf.cfg: a ring of three chunks, as in the test   *)
(* (ten there), a last chunk that is short, readers that come and go.      *)
(* MC_TBufPad.cfg: readers whose chunk is not the writer's.                *)
(***************************************************************************)
EXTENDS TBuf
=============================================================================
