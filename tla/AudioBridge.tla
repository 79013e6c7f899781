----------------------------- MODULE AudioBridge -----------------------------
(***************************************************************************)
(* The audio bridge (hifi4rpc_audio_bridge/audio_bridge.cpp): each line    *)
(* has a thread that captures from one device into a ring and a thread     *)
(* that plays from the ring to another device; the main thread creates the *)
(* lines one after the other, waits for the common flag `running' to drop, *)
(* joins the threads and frees the rings.  SIGINT, a device that does not  *)
(* open and a thread that is not created all lower the flag.               *)
(*                                                                         *)
(* The ring is the bounded FIFO that RingBuf implements.  A byte is its    *)
(* place in its frame (one sample of every channel).  A device call takes  *)
(* one step and returns: how it fails is a choice.                         *)
(***************************************************************************)
EXTENDS Naturals, Sequences

CONSTANTS
  Lines,      \* the lines, a sequence: main creates them in this order
  AlsaSource, \* the lines that capture from ALSA (the others, from the DSP)
  Frame,      \* bytes of a frame
  Period,     \* bytes of a period: what the playback thread asks the ring for
  Reads,      \* how many bytes one device read may yield
  Capacity    \* bytes of a ring

ASSUME AudioBridgeAssumption ==
  /\ Lines \in Seq(STRING) /\ Len(Lines) > 0
  /\ \A i, j \in DOMAIN Lines : Lines[i] = Lines[j] => i = j
  /\ Frame \in Nat \ {0}
  /\ \A n \in {Period, Capacity} \cup Reads : n \in Nat \ {0} /\ n % Frame = 0
  /\ 3 * Period <= Capacity

Line == {Lines[i] : i \in DOMAIN Lines}

VARIABLES
  running,    \* the flag
  crashed,    \* a null pointer was followed: the program is over
  main,       \* where the main thread is
  at,         \* the index of the line main creates or destroys
  rbuf,       \* per line: PCM_LINE.rbuf is "null", "live" or "freed"
  ring,       \* per line: the bytes in the ring
  capture,    \* per line: where its capture thread is
  playback,   \* per line: where its playback thread is
  unopened,   \* per thread that has one: a device handle that is null
  overrun     \* the ALSA captures that have overrun

vars == <<running, crashed, main, at, rbuf, ring, capture, playback, unopened, overrun>>

Thread == {"capture", "playback"} \X Line

Init ==
  /\ running = TRUE
  /\ crashed = FALSE
  /\ main = "create" /\ at = 1
  /\ rbuf = [l \in Line |-> "null"]
  /\ ring = [l \in Line |-> << >>]
  /\ capture = [l \in Line |-> "none"]
  /\ playback = [l \in Line |-> "none"]
  /\ unopened = {}
  /\ overrun = {}

-----------------------------------------------------------------------------
(***************************************************************************)
(* The main thread, and the signal.                                        *)
(***************************************************************************)

MainGoesOn(done) ==
  IF at < Len(Lines) THEN at' = at + 1 /\ UNCHANGED main
                     ELSE at' = 1 /\ main' = done

\* create_line_pthread: it fails with no ring, with the ring alone, or with
\* the ring and the capture thread.
Create ==
  LET l == Lines[at] IN
  /\ main = "create"
  /\ \/ /\ rbuf' = [rbuf EXCEPT ![l] = "live"]
        /\ capture' = [capture EXCEPT ![l] = "open"]
        /\ playback' = [playback EXCEPT ![l] = "open"]
        /\ UNCHANGED running
     \/ /\ running' = FALSE
        /\ UNCHANGED <<rbuf, capture, playback>>
     \/ /\ running' = FALSE
        /\ rbuf' = [rbuf EXCEPT ![l] = "live"]
        /\ \/ UNCHANGED capture
           \/ capture' = [capture EXCEPT ![l] = "open"]
        /\ UNCHANGED playback
  /\ MainGoesOn("report")
  /\ UNCHANGED <<crashed, ring, unopened, overrun>>

\* The first report of the fill levels goes through the rings of both lines,
\* whether they were created or not.
Report ==
  /\ main = "report"
  /\ crashed' = \E l \in Line : rbuf[l] = "null"
  /\ main' = "loop"
  /\ UNCHANGED <<running, at, rbuf, ring, capture, playback, unopened, overrun>>

Stop ==
  /\ running' = FALSE
  /\ UNCHANGED <<crashed, main, at, rbuf, ring, capture, playback, unopened, overrun>>

\* while (running) ends.
LoopEnds ==
  /\ main = "loop"
  /\ ~running
  /\ main' = "destroy"
  /\ UNCHANGED <<running, crashed, at, rbuf, ring, capture, playback, unopened, overrun>>

Joined(pc) == pc = "ended"

\* Joining a thread that was never created is undefined: the call returns, or
\* the program ends.
JoinOfNothing ==
  LET l == Lines[at] IN
  /\ main = "destroy"
  /\ \/ capture[l] = "none"
     \/ Joined(capture[l]) /\ playback[l] = "none"
  /\ crashed' = TRUE
  /\ UNCHANGED <<running, main, at, rbuf, ring, capture, playback, unopened, overrun>>

\* (A bug to be caught: only the capture thread is joined.)
DestroyUnjoined ==
  LET l == Lines[at] IN
  /\ main = "destroy"
  /\ capture[l] = "none" \/ Joined(capture[l])
  /\ rbuf' = [rbuf EXCEPT ![l] = "freed"]
  /\ MainGoesOn("done")
  /\ UNCHANGED <<running, crashed, ring, capture, playback, unopened, overrun>>

rb_deinit(l) == rbuf' = [rbuf EXCEPT ![l] = "freed"]

\* destroy_line_pthread: join both threads, free the ring.
Destroy ==
  LET l == Lines[at] IN
  /\ main = "destroy"
  /\ capture[l] = "none" \/ Joined(capture[l])
  /\ playback[l] = "none" \/ Joined(playback[l])
  /\ rb_deinit(l)
  /\ MainGoesOn("done")
  /\ UNCHANGED <<running, crashed, ring, capture, playback, unopened, overrun>>

-----------------------------------------------------------------------------
(***************************************************************************)
(* What the two kinds of thread share: `pcs' is capture or playback, goes  *)
(* on after an open that failed, and follows its handle when it closes.    *)
(***************************************************************************)

\* pcm_open, pcm_alloc_buffer and pcm_start.  A failure leaves a handle that
\* works or none; without one the DSP's capture crashes already in pcm_start.
Opens(kind, pcs, l) ==
  /\ pcs[l] = "open"
  /\ \/ UNCHANGED <<running, unopened>>
     \/ running' = FALSE /\ UNCHANGED unopened
     \/ running' = FALSE /\ unopened' = unopened \cup {<<kind, l>>}
  /\ UNCHANGED <<main, at, rbuf, ring, overrun>>

OpenCapture(l) ==
  /\ Opens("capture", capture, l)
  /\ capture' = [capture EXCEPT ![l] = "test"]
  /\ crashed' = (<<"capture", l>> \in unopened' /\ l \notin AlsaSource)
  /\ UNCHANGED playback

OpenPlayback(l) ==
  /\ Opens("playback", playback, l)
  /\ playback' = [playback EXCEPT ![l] = "test"]
  /\ UNCHANGED <<crashed, capture>>

\* while (running)
TestCapture(l) ==
  /\ capture[l] = "test"
  /\ capture' = [capture EXCEPT ![l] = IF running THEN "read" ELSE "close"]
  /\ UNCHANGED <<running, crashed, main, at, rbuf, ring, playback, unopened, overrun>>

TestPlayback(l) ==
  /\ playback[l] = "test"
  /\ playback' = [playback EXCEPT ![l] = IF running THEN "write" ELSE "close"]
  /\ UNCHANGED <<running, crashed, main, at, rbuf, ring, capture, unopened, overrun>>

\* pcm_stop, pcm_free_buffer and pcm_close.
CloseCapture(l) ==
  /\ capture[l] = "close"
  /\ capture' = [capture EXCEPT ![l] = "ended"]
  /\ crashed' = (<<"capture", l>> \in unopened)
  /\ UNCHANGED <<running, main, at, rbuf, ring, playback, unopened, overrun>>

ClosePlayback(l) ==
  /\ playback[l] = "close"
  /\ playback' = [playback EXCEPT ![l] = "ended"]
  /\ crashed' = (<<"playback", l>> \in unopened)
  /\ UNCHANGED <<running, main, at, rbuf, ring, capture, unopened, overrun>>

-----------------------------------------------------------------------------
(***************************************************************************)
(* The loops.                                                              *)
(***************************************************************************)

\* n bytes from the device, frame by frame.
Captured(n) == [i \in 1 .. n |-> (i - 1) % Frame]

\* (A bug to be caught: one byte of the ring is kept free.)
WrittenLess(content, bytes) ==
  content \o SubSeq(bytes, 1, IF Len(bytes) < Capacity - Len(content)
                              THEN Len(bytes) ELSE (Capacity - 1) - Len(content))

\* rb_write takes what fits; the capture thread does not look at how much.
Written(content, bytes) ==
  content \o SubSeq(bytes, 1, IF Len(bytes) < Capacity - Len(content)
                              THEN Len(bytes) ELSE Capacity - Len(content))

CaptureData(l) ==
  /\ capture[l] = "read"
  /\ l \notin overrun
  /\ \E n \in Reads : ring' = [ring EXCEPT ![l] = Written(@, Captured(n))]
  /\ capture' = [capture EXCEPT ![l] = "test"]
  /\ UNCHANGED <<running, crashed, main, at, rbuf, playback, unopened, overrun>>

\* Nothing to read, or an error.  An ALSA capture that has overrun answers
\* every read with an error until it is prepared again, which nobody does.
CaptureNothing(l) ==
  /\ capture[l] = "read"
  /\ \/ UNCHANGED overrun
     \/ l \in AlsaSource /\ overrun' = overrun \cup {l}
  /\ capture' = [capture EXCEPT ![l] = "test"]
  /\ UNCHANGED <<running, crashed, main, at, rbuf, ring, playback, unopened>>

\* rb_read of a period or what there is, and the device write, which may fail
\* with what was read.
Play(l) ==
  /\ playback[l] = "write"
  /\ LET n == IF Period < Len(ring[l]) THEN Period ELSE Len(ring[l]) IN
     ring' = [ring EXCEPT ![l] = SubSeq(@, n + 1, Len(@))]
  /\ \/ playback' = [playback EXCEPT ![l] = "test"]
     \/ playback' = [playback EXCEPT ![l] = "refill"]
  /\ UNCHANGED <<running, crashed, main, at, rbuf, capture, unopened, overrun>>

\* (A bug to be caught: more is waited for than the ring holds.)
RefilledByMore(l) == Len(ring[l]) >= 5 * Period

Refilled(l) == Len(ring[l]) >= 3 * Period

\* (A bug to be caught: the flag is not looked at.)
RestoreWhenRefilled(l) ==
  /\ playback[l] = "refill"
  /\ Refilled(l)
  /\ playback' = [playback EXCEPT ![l] = "test"]
  /\ UNCHANGED <<running, crashed, main, at, rbuf, ring, capture, unopened, overrun>>

\* After a failed write: wait for three periods or the end, then pcm_restore.
Restore(l) ==
  /\ playback[l] = "refill"
  /\ Refilled(l) \/ ~running
  /\ playback' = [playback EXCEPT ![l] = "test"]
  /\ UNCHANGED <<running, crashed, main, at, rbuf, ring, capture, unopened, overrun>>

MainStep == Create \/ Report \/ LoopEnds \/ JoinOfNothing \/ Destroy
CaptureStep(l) ==
  OpenCapture(l) \/ TestCapture(l) \/ CaptureData(l) \/ CaptureNothing(l) \/ CloseCapture(l)
PlaybackStep(l) ==
  OpenPlayback(l) \/ TestPlayback(l) \/ Play(l) \/ Restore(l) \/ ClosePlayback(l)

Next ==
  /\ ~crashed
  /\ \/ MainStep \/ Stop
     \/ \E l \in Line : CaptureStep(l) \/ PlaybackStep(l)

Spec == Init /\ [][Next]_vars

\* Every thread runs and every device call returns; nobody need press Ctrl-C.
FairSpec ==
  /\ Spec
  /\ WF_vars(~crashed /\ MainStep)
  /\ \A l \in Line : /\ WF_vars(~crashed /\ CaptureStep(l))
                     /\ WF_vars(~crashed /\ PlaybackStep(l))
                     /\ SF_vars(~crashed /\ CaptureData(l))

-----------------------------------------------------------------------------
(***************************************************************************)
(* Properties                                                              *)
(***************************************************************************)

TypeOK ==
  /\ running \in BOOLEAN /\ crashed \in BOOLEAN
  /\ main \in {"create", "report", "loop", "destroy", "done"}
  /\ at \in DOMAIN Lines
  /\ rbuf \in [Line -> {"null", "live", "freed"}]
  /\ ring \in [Line -> UNION {[1 .. n -> 0 .. Frame - 1] : n \in 0 .. Capacity}]
  /\ capture \in [Line -> {"none", "open", "test", "read", "close", "ended"}]
  /\ playback \in [Line -> {"none", "open", "test", "write", "refill", "close", "ended"}]
  /\ unopened \subseteq Thread
  /\ overrun \subseteq AlsaSource

\* Whatever of a line was created and in whatever order its threads end, the
\* ring is there as long as one of them may use it.
RingOutlivesThreads ==
  \A l \in Line :
    \/ rbuf[l] = "live"
    \/ capture[l] \in {"none", "ended"} /\ playback[l] \in {"none", "ended"}

\* The ring holds whole frames from a frame's first byte, though rb_write
\* drops what does not fit and the thread does not look: the channels are
\* never swapped and no byte is lost by the division in playback_pthread.
WholeFrames ==
  \A l \in Line :
    /\ Len(ring[l]) % Frame = 0
    /\ ring[l] = Captured(Len(ring[l]))

\* When the flag drops, by a signal, a failing device or a thread that is not
\* created, the program ends: no thread stays in its loop or waits for data
\* that nobody captures any more.
StopEndsAll == ~running ~> (main = "done" \/ crashed)

\* A playback whose write failed plays again: the ring fills up to three
\* periods, unless its capture is an ALSA device that overran.
PlaybackResumes ==
  \A l \in Line :
    (playback[l] = "refill") ~> (playback[l] # "refill" \/ l \in overrun \/ crashed)
=============================================================================
