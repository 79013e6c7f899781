----------------------------- MODULE MC_RingBuf -----------------------------
(***************************************************************************)
(* Small rings: the word holds 8 values so that the counters wrap within   *)
(* the stream; rb_init rounds the request 3 up to 4.                       *)
(***************************************************************************)
EXTENDS RingBuf

AllBuilds == [reload : BOOLEAN, relaxed : BOOLEAN]
ReloadingBuilds == {[reload |-> TRUE, relaxed |-> FALSE]}
=============================================================================
