--------------------------- MODULE MC_AudioBridge ---------------------------
(***************************************************************************)
(* Both lines of the bridge, the second captured from ALSA; frames of two  *)
(* bytes, a period of one frame, and rings of four periods: one more than  *)
(* the refill waits for.                                                   *)
(***************************************************************************)
EXTENDS AudioBridge

BridgeLines == <<"line0", "line1">>
BridgeAlsaSource == {"line1"}
=============================================================================
