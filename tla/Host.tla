---------------------------------- MODULE Host ----------------------------------
(***************************************************************************)
(* The parts that run in one thread of one program, each by itself: a      *)
(* behaviour is one program and what it holds, one loop that carries       *)
(* sound, one conversion, one copy of a frame, one converted stream, one   *)
(* WAV file, one MP3 file, or one series of dsp_util command lines, with   *)
(* the other parts idle.                                                   *)
(***************************************************************************)
EXTENDS DspStreams, DspClients, WavFile, SampleRate, Mp3Reader, DspUtil

vars == <<clientVars, streamVars, copy, frame, src, wav, mp3, util>>

Init ==
  \/ /\ ClientInit
     /\ StreamIdle /\ CopyIdle /\ FrameIdle /\ SrcIdle /\ WavIdle /\ Mp3Idle /\ UtilIdle
  \/ /\ StreamInit
     /\ ClientIdle /\ CopyIdle /\ FrameIdle /\ SrcIdle /\ WavIdle /\ Mp3Idle /\ UtilIdle
  \/ /\ CopyInit
     /\ ClientIdle /\ StreamIdle /\ FrameIdle /\ SrcIdle /\ WavIdle /\ Mp3Idle /\ UtilIdle
  \/ /\ FrameInit
     /\ ClientIdle /\ StreamIdle /\ CopyIdle /\ SrcIdle /\ WavIdle /\ Mp3Idle /\ UtilIdle
  \/ /\ SrcInit
     /\ ClientIdle /\ StreamIdle /\ CopyIdle /\ FrameIdle /\ WavIdle /\ Mp3Idle /\ UtilIdle
  \/ /\ WavInit
     /\ ClientIdle /\ StreamIdle /\ CopyIdle /\ FrameIdle /\ SrcIdle /\ Mp3Idle /\ UtilIdle
  \/ /\ Mp3Init
     /\ ClientIdle /\ StreamIdle /\ CopyIdle /\ FrameIdle /\ SrcIdle /\ WavIdle /\ UtilIdle
  \/ /\ UtilInit
     /\ ClientIdle /\ StreamIdle /\ CopyIdle /\ FrameIdle /\ SrcIdle /\ WavIdle /\ Mp3Idle

Next ==
  \/ ClientNext /\ UNCHANGED <<streamVars, copy, frame, src, wav, mp3, util>>
  \/ StreamNext /\ UNCHANGED <<clientVars, copy, frame, src, wav, mp3, util>>
  \/ (CopyStep \/ FrameStep) /\ UNCHANGED <<clientVars, streamVars, src, wav, mp3, util>>
  \/ SrcNext /\ UNCHANGED <<clientVars, streamVars, copy, frame, wav, mp3, util>>
  \/ WavNext /\ UNCHANGED <<clientVars, streamVars, copy, frame, src, mp3, util>>
  \/ Mp3Next /\ UNCHANGED <<clientVars, streamVars, copy, frame, src, wav, util>>
  \/ UtilNext /\ UNCHANGED <<clientVars, streamVars, copy, frame, src, wav, mp3>>

Spec == Init /\ [][Next]_vars

FairSpec == Spec /\ StreamFairness
===============================================================================
