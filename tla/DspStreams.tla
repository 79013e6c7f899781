------------------------------ MODULE DspStreams ------------------------------
(***************************************************************************)
(* The loops that carry sound between a program and the DSP, one RPC for a *)
(* block at a time: the client functions that split a request into blocks  *)
(* and the programs that call them.  `job' is the loop a behaviour runs.   *)
(*                                                                         *)
(* Sound is a stream of units 1, 2, 3, ... (bytes, frames, coded frames):  *)
(* what a file, a device or a writer on the other side yields, in order.   *)
(* `out' is what came out at the far end: the file written, the sound      *)
(* played, the caller's memory.  A block keeps what was last put there, so *)
(* that a copy of it shows old units again when nobody filled it.          *)
(*                                                                         *)
(* An RPC is done, refused by the DSP, not sent (the DSP did nothing, the  *)
(* argument is as the caller left it), or done with its answer lost (the   *)
(* argument is all zeros).  A PCM call the DSP refuses yields a negative   *)
(* count, which the loops add to their pointers unseen: that choice is     *)
(* left out of those loops.                                                *)
(***************************************************************************)
EXTENDS Integers, Sequences, FiniteSetsExt

CONSTANTS
  Jobs,         \* the loops to run
  N,            \* units the program is to move
  Chunk,        \* units of a block
  Block,        \* units a caller hands to AML_PCMGAIN_Process
  Capacity,     \* units in a flat buffer; buffers of a capture
  Word,         \* the counters count modulo Word
  MaxFailures   \* RPCs that may fail

Dspc == {"dspc", "dspc_release"}
AllJobs == {"pcm_read", "gain", "resample", "play_file", "play_frames", "capture",
            "mp3", "aac", "flat_write", "flat_read", "audio_dump"} \cup Dspc

ASSUME DspStreamsAssumption ==
  /\ Jobs \subseteq AllJobs
  /\ {N, Chunk, Block, Capacity, Word} \subseteq Nat \ {0} /\ MaxFailures \in Nat
  /\ Chunk <= Capacity /\ N + Chunk < Word

VARIABLES
  job,
  pc,         \* "loop", "ended", or where between two steps of the loop
  pos,        \* units the source has yielded
  left,       \* units still to move; of a file played, a ghost: the units
              \* that the DSP has not taken
  ret,        \* out_ret as the last answer left it
  ready,      \* the argument still holds the DSP's handles
  block,      \* the shared memory block
  dest,       \* the program's own output memory
  ring,       \* the units, or full buffers, inside the DSP
  held,       \* the capture buffers the client holds
  quit,       \* the user of the dump asked for its end
  out,        \* what came out
  gone,       \* capture buffers nobody holds any more
  failures    \* RPCs that have failed

streamVars ==
  <<job, pc, pos, left, ret, ready, block, dest, ring, held, quit, out, gone, failures>>

StreamAt(j, place) ==
  /\ job = j
  /\ pc = place /\ pos = 0 /\ ret = 0 /\ ready = TRUE
  /\ left = IF job = "gain" THEN 0 ELSE N
  /\ block = [i \in 1..Chunk |-> 0]
  /\ dest = [i \in 1..(IF job = "gain" THEN Block ELSE Chunk) |-> 0]
  /\ ring = << >> /\ held = 0 /\ quit = FALSE
  /\ out = << >> /\ gone = 0 /\ failures = 0
StreamInit == \E j \in Jobs : StreamAt(j, "loop")
StreamIdle == StreamAt("gain", "ended")

-----------------------------------------------------------------------------
Least(a, b) == Min({a, b})
Units(from, n) == [i \in 1..n |-> from + i]
Prefix(s, n) == SubSeq(s, 1, n)
Over(s, b) == s \o SubSeq(b, Len(s) + 1, Len(b))      \* s written over the front of b
Into(s, at, b) == Prefix(b, at) \o Over(s, SubSeq(b, at + 1, Len(b)))

Outcome == {"done", "refused", "unsent", "unread"}
Rpc(o) == IF o = "done" THEN UNCHANGED failures
          ELSE failures < MaxFailures /\ failures' = failures + 1
Served(o) == o \in {"done", "unread"}     \* the DSP did its work

On(j) == job = j /\ pc = "loop"
NoDsp == UNCHANGED <<ring, held, gone, quit>>

-----------------------------------------------------------------------------
(***************************************************************************)
(* AML_PCM_Read.  out_ret counts whatever the RPC said: an RPC not sent    *)
(* sent copies the last block again; once an answer was lost the argument  *)
(* has no handles, the DSP yields nothing and the loop goes on for ever.   *)
(* A repeated block may be more than what is left: the unsigned remainder  *)
(* wraps and the loop goes on behind the caller's memory, which is         *)
(* undefined; the model ends there.                                        *)
(***************************************************************************)

\* (A bug to be caught: the last piece is asked for in full.)
PieceInFull(total) == Chunk
Piece(total) == Least(Chunk, total)

PcmRead(o, k) ==
  /\ On("pcm_read") /\ left # 0 /\ Rpc(o) /\ o # "refused"
  /\ k \in 1..Piece(left)
  /\ LET served == Served(o) /\ ready
         got == IF o = "unsent" THEN ret ELSE IF o = "done" /\ served THEN k ELSE 0
     IN  /\ pos' = IF served THEN pos + k ELSE pos
         /\ block' = IF served THEN Over(Units(pos, k), block) ELSE block
         /\ out' = out \o Prefix(block', got)
         /\ left' = (left - got) % Word
         /\ ret' = got
         /\ ready' = (ready /\ o # "unread")
         /\ pc' = IF left' = 0 \/ left' > left THEN "ended" ELSE "loop"
  /\ NoDsp /\ UNCHANGED <<job, dest>>

-----------------------------------------------------------------------------
(***************************************************************************)
(* AML_PCMGAIN_Process and its test: whole blocks of the file, each in     *)
(* pieces; the test writes its output whatever the call returned.          *)
(***************************************************************************)

GainRead ==
  /\ On("gain")
  /\ IF pos + Block <= N THEN left' = Block /\ pc' = "process"
                         ELSE pc' = "ended" /\ UNCHANGED left
  /\ NoDsp /\ UNCHANGED <<job, pos, ret, ready, block, dest, out, failures>>

GainProcess(o) ==
  /\ job = "gain" /\ pc = "process" /\ Rpc(o)
  /\ LET n == Piece(left) IN
     /\ block' = IF Served(o) THEN Over(Units(pos, n), block) ELSE block
     /\ IF o = "refused" THEN pc' = "write" /\ pos' = pos + left /\ UNCHANGED <<dest, left>>
        ELSE /\ dest' = Into(Prefix(block', n), Block - left, dest)
             /\ left' = left - n /\ pos' = pos + n
             /\ pc' = IF left' = 0 THEN "write" ELSE "process"
  /\ NoDsp /\ UNCHANGED <<job, ret, ready, out>>

GainWrite ==
  /\ job = "gain" /\ pc = "write"
  /\ out' = out \o dest /\ pc' = "loop"
  /\ NoDsp /\ UNCHANGED <<job, pos, left, ret, ready, block, dest, failures>>

-----------------------------------------------------------------------------
(***************************************************************************)
(* The programs that read a file block by block.                           *)
(***************************************************************************)

\* The resampler of one unit in, one unit out.  It copies what the answer
\* counts; the test writes what it computed itself.
Resample(o) ==
  /\ On("resample")
  /\ LET n == Least(Chunk, N - pos)
         wrote == IF o = "unread" THEN 0 ELSE n
     IN  IF n = 0
         THEN pc' = "ended" /\ UNCHANGED <<pos, block, dest, out, failures>> /\ o = "done"
         ELSE /\ Rpc(o) /\ pos' = pos + n
              /\ block' = IF Served(o) THEN Over(Units(pos, n), block) ELSE block
              /\ IF o = "refused" THEN pc' = "ended" /\ UNCHANGED <<dest, out>>
                 ELSE /\ dest' = Over(Prefix(block', wrote), dest)
                      /\ out' = out \o Prefix(dest', n)
                      /\ UNCHANGED pc
  /\ NoDsp /\ UNCHANGED <<job, left, ret, ready>>

\* play_wav, pcm_play_test: the size asked for shrinks with a short read, the
\* size played does not; the block is played once more at the end of the file.
\* What the DSP took of it, k units, nobody asks: the next block comes from the
\* file behind all of this one.
PlayFile(o, k) ==
  /\ On("play_file") /\ Rpc(o) /\ k \in 1..Chunk
  /\ LET size == IF ret = 0 THEN Chunk ELSE ret
         n == Least(size, N - pos)
     IN  /\ pos' = pos + n
         /\ block' = Over(Units(pos, n), block)
         /\ out' = IF Served(o) THEN out \o Prefix(block', k) ELSE out
         /\ left' = IF Served(o) THEN left - Least(k, n) ELSE left
         /\ ret' = n
         /\ pc' = IF n = 0 THEN "ended" ELSE "loop"
  /\ NoDsp /\ UNCHANGED <<job, ready, dest>>

\* pcm_play_buildin: whole blocks only, and on by what the DSP took of each.
PlayFrames(o, k) ==
  /\ On("play_frames") /\ Rpc(o) /\ o # "refused" /\ k \in 1..Chunk
  /\ IF pos + Chunk <= N
     THEN /\ block' = Units(pos, Chunk)
          /\ out' = IF Served(o) THEN out \o Prefix(block', k) ELSE out
          /\ pos' = IF o = "done" THEN pos + k ELSE pos
          /\ UNCHANGED pc
     ELSE pc' = "ended" /\ UNCHANGED <<pos, block, out>>
  /\ NoDsp /\ UNCHANGED <<job, left, ret, ready, dest>>

\* pcm_capture_test: the whole block goes to the file however much of it the
\* device filled; `left' is the frames still to come.
Capture(o, k) ==
  /\ On("capture") /\ Rpc(o) /\ o # "refused" /\ k \in 1..Chunk
  /\ IF left >= Chunk
     THEN /\ pos' = IF Served(o) THEN pos + k ELSE pos
          /\ block' = IF Served(o) THEN Over(Units(pos, k), block) ELSE block
          /\ out' = out \o block'
          /\ left' = IF o = "done" THEN left - k ELSE left
          /\ UNCHANGED pc
     ELSE pc' = "ended" /\ UNCHANGED <<pos, block, out, left>>
  /\ NoDsp /\ UNCHANGED <<job, ret, ready, dest>>

\* AmlACodecExec_Mp3Dec and mp3_offload_dec: a coded frame in, a decoded frame
\* out.  Not sent, the whole output block is written as if it were decoded;
\* with the answer lost, nothing is.
DecodeMp3(o) ==
  /\ On("mp3")
  /\ IF pos = N THEN pc' = "ended" /\ UNCHANGED <<pos, block, out, failures>> /\ o = "done"
     ELSE /\ Rpc(o) /\ pos' = pos + 1
          /\ block' = IF Served(o) THEN Over(Units(pos, 1), block) ELSE block
          /\ out' = CASE o = "done" -> out \o Prefix(block', 1)
                      [] o = "unsent" -> out \o block'
                      [] OTHER -> out
          /\ pc' = IF o = "refused" THEN "ended" ELSE "loop"
  /\ NoDsp /\ UNCHANGED <<job, left, ret, ready, dest>>

\* AmlACodecExec_AacDec and aac_offload_dec: a block of the file in, one frame
\* out, and the file goes back by what the decoder left.  A failed RPC leaves
\* nothing and says OK: the whole block is passed over.
DecodeAac(o) ==
  /\ On("aac")
  /\ LET n == Least(Chunk, N - pos) IN
     IF n = 0 THEN pc' = "ended" /\ UNCHANGED <<pos, block, out, failures>> /\ o = "done"
     ELSE /\ Rpc(o) /\ pos' = IF o \in {"unsent", "unread"} THEN pos + n ELSE pos + 1
          /\ block' = IF Served(o) THEN Over(Units(pos, 1), block) ELSE block
          /\ out' = IF o = "done" THEN out \o Prefix(block', 1) ELSE out
          /\ pc' = IF o = "refused" THEN "ended" ELSE "loop"
  /\ NoDsp /\ UNCHANGED <<job, left, ret, ready, dest>>

-----------------------------------------------------------------------------
(***************************************************************************)
(* The flat buffer: a queue in the DSP with this side at one end and the   *)
(* DSP's own program at the other.                                         *)
(***************************************************************************)

\* The DSP's end.
DspTakes ==
  /\ job = "flat_write" /\ ring # << >>
  /\ out' = Append(out, Head(ring)) /\ ring' = Tail(ring)
  /\ UNCHANGED <<job, pc, pos, left, ret, ready, block, dest, held, quit, gone, failures>>
DspGives ==
  /\ job \in {"flat_read", "audio_dump"} /\ pos < N /\ Len(ring) < Capacity
  /\ ring' = Append(ring, pos + 1) /\ pos' = pos + 1
  /\ UNCHANGED <<job, pc, left, ret, ready, block, dest, held, quit, out, gone, failures>>

\* flat_buffers_write_cmd and _data: any size below the buffer's, 0 among
\* them, and AML_FLATBUF_Write waits until there is room for it.  A failure is
\* -1 and ends the loop, whether the DSP took the units or not.
FlatWrite(o, size) ==
  LET n == Least(size, left) IN
  /\ On("flat_write") /\ Rpc(o) /\ o # "refused"
  /\ IF left = 0 THEN pc' = "ended" /\ o = "done" /\ UNCHANGED <<ring, pos, left, block>>
     ELSE /\ Len(ring) + n <= Capacity
          /\ block' = Over(Units(pos, n), block)
          /\ ring' = IF Served(o) THEN ring \o Prefix(block', n) ELSE ring
          /\ pos' = pos + n /\ left' = left - n
          /\ pc' = IF o = "done" THEN "loop" ELSE "ended"
  /\ UNCHANGED <<job, ret, ready, dest, held, quit, out, gone>>

\* (A bug to be caught: on failure the block is copied as it is.)
FlatRead_copies(o, size) ==
  LET n == Least(size, left)
      got == Least(n, Len(ring))
  IN
  /\ On("flat_read") /\ Rpc(o) /\ o # "refused"
  /\ IF left = 0 THEN pc' = "ended" /\ o = "done" /\ UNCHANGED <<ring, left, block, out>>
     ELSE /\ block' = IF Served(o) THEN Over(Prefix(ring, got), block) ELSE block
          /\ ring' = IF Served(o) THEN SubSeq(ring, got + 1, Len(ring)) ELSE ring
          /\ out' = out \o Prefix(block', got) /\ left' = left - got
          /\ pc' = IF o = "done" THEN "loop" ELSE "ended"
  /\ UNCHANGED <<job, pos, ret, ready, dest, held, quit, gone>>

\* flat_buffers_read_cmd and _data: after one millisecond AML_FLATBUF_Read
\* yields what there is.
FlatRead(o, size) ==
  LET n == Least(size, left)
      got == Least(n, Len(ring))
  IN
  /\ On("flat_read") /\ Rpc(o) /\ o # "refused"
  /\ IF left = 0 THEN pc' = "ended" /\ o = "done" /\ UNCHANGED <<ring, left, block, out>>
     ELSE /\ block' = IF Served(o) THEN Over(Prefix(ring, got), block) ELSE block
          /\ ring' = IF Served(o) THEN SubSeq(ring, got + 1, Len(ring)) ELSE ring
          /\ out' = IF o = "done" THEN out \o Prefix(block', got) ELSE out
          /\ left' = left - got
          /\ pc' = IF o = "done" THEN "loop" ELSE "ended"
  /\ UNCHANGED <<job, pos, ret, ready, dest, held, quit, gone>>

\* thread_dump waits for a whole block, for ever if need be, and goes on after
\* a failure; it looks at the flag between two blocks only.
Dump(o) ==
  /\ On("audio_dump") /\ Rpc(o) /\ o # "refused"
  /\ IF quit THEN pc' = "ended" /\ o = "done" /\ UNCHANGED <<ring, block, out>>
     ELSE /\ Len(ring) >= Chunk
          /\ block' = IF Served(o) THEN Prefix(ring, Chunk) ELSE block
          /\ ring' = IF Served(o) THEN SubSeq(ring, Chunk + 1, Len(ring)) ELSE ring
          /\ out' = IF o = "done" THEN out \o block' ELSE out
          /\ UNCHANGED pc
  /\ UNCHANGED <<job, pos, left, ret, ready, dest, held, quit, gone>>
Quit ==
  /\ job = "audio_dump" /\ ~quit /\ quit' = TRUE
  /\ UNCHANGED <<job, pc, pos, left, ret, ready, block, dest, ring, held, out, gone, failures>>

-----------------------------------------------------------------------------
(***************************************************************************)
(* The processed capture: the DSP fills one of its buffers after another,  *)
(* the client takes a full one (dqbuf), copies it and gives it back, with  *)
(* qbuf or, through release_buf, with the next dqbuf.  A buffer is the     *)
(* unit it holds.                                                          *)
(***************************************************************************)

Empty == Capacity - Len(ring) - (IF held = 0 THEN 0 ELSE 1) - gone

DspFills ==
  /\ job \in Dspc /\ pos < N + MaxFailures /\ Empty > 0
  /\ ring' = Append(ring, pos + 1) /\ pos' = pos + 1
  /\ UNCHANGED <<job, pc, left, ret, ready, block, dest, held, quit, out, gone, failures>>

\* The buffer passed as release_buf is given back when the DSP sees the call.
Released(o) == job = "dspc_release" /\ Served(o)

\* The buffer's fields take what the argument holds after the call, done or
\* not: an answer lost is a buffer lost, and so is the buffer to release when
\* the call is not sent.
dqbuf(o) ==
  /\ job \in Dspc /\ pc = "loop" /\ left # 0 /\ Rpc(o) /\ o # "refused"
  /\ LET taken == Served(o) /\ ring # << >> IN
     /\ ring' = IF taken THEN Tail(ring) ELSE ring
     /\ held' = IF taken /\ o = "done" THEN Head(ring) ELSE 0
     /\ gone' = gone + (IF taken /\ o = "unread" THEN 1 ELSE 0)
                     + (IF held # 0 /\ ~Released(o) THEN 1 ELSE 0)
     /\ IF held' # 0
        THEN /\ out' = Append(out, held') /\ left' = (left - 1) % Word
             /\ pc' = IF job = "dspc" THEN "qbuf" ELSE IF left' = 0 THEN "ended" ELSE "loop"
        ELSE UNCHANGED <<out, left, pc>>
  /\ UNCHANGED <<job, pos, ret, ready, block, dest, quit>>

\* (A bug to be caught: the buffer is kept.)
qbuf_kept(o) ==
  /\ job = "dspc" /\ pc = "qbuf" /\ Rpc(o) /\ o # "refused"
  /\ gone' = gone + 1 /\ held' = 0
  /\ pc' = IF left = 0 THEN "ended" ELSE "loop"
  /\ UNCHANGED <<job, pos, left, ret, ready, block, dest, ring, quit, out>>

qbuf(o) ==
  /\ job = "dspc" /\ pc = "qbuf" /\ Rpc(o) /\ o # "refused"
  /\ gone' = gone + (IF Served(o) THEN 0 ELSE 1) /\ held' = 0
  /\ pc' = IF left = 0 THEN "ended" ELSE "loop"
  /\ UNCHANGED <<job, pos, left, ret, ready, block, dest, ring, quit, out>>

-----------------------------------------------------------------------------
Program(o) ==
  \/ \E k \in 1..Chunk :
       PcmRead(o, k) \/ PlayFile(o, k) \/ PlayFrames(o, k) \/ Capture(o, k)
  \/ GainProcess(o) \/ Resample(o) \/ DecodeMp3(o) \/ DecodeAac(o)
  \/ FlatWrite(o, 0) \/ FlatRead(o, 0) \/ Dump(o) \/ dqbuf(o) \/ qbuf(o)
Moves(o) == \E size \in 1..(Capacity - 1) : FlatWrite(o, size) \/ FlatRead(o, size)
Dsp == DspTakes \/ DspGives \/ DspFills

StreamNext ==
  \/ GainRead \/ GainWrite \/ Dsp \/ Quit
  \/ \E o \in Outcome : Program(o) \/ Moves(o)

\* The threads run, the DSP works and calls are not failed for ever; a size drawn
\* at random is not 0 for ever, and a read that found nothing is tried again
\* until there is something.
StreamFairness ==
  /\ WF_streamVars(GainRead \/ GainWrite) /\ WF_streamVars(Dsp)
  /\ WF_streamVars(Program("done")) /\ SF_streamVars(Moves("done"))

-----------------------------------------------------------------------------
(***************************************************************************)
(* Properties.                                                             *)
(***************************************************************************)

Exact == {"pcm_read", "gain", "resample", "play_frames", "mp3", "aac",
          "flat_write", "flat_read", "audio_dump"} \cup Dspc

\* No unit comes before all those that precede it have.
InTurn(s) == \A i \in DOMAIN s : \A u \in 1..s[i] : \E j \in 1..i : s[j] = u

\* Until a call fails, what comes out is the stream from its first unit on,
\* with nothing left out, repeated or invented, through every way of cutting
\* it into pieces.  Only two programs that move whole blocks show old units
\* again behind new ones: a file played to a short end, a block captured in
\* part.  Of the file played that much holds while the DSP has taken all that
\* was read; what it does not take is lost, for the programs do not look.
AllTaken == job = "play_file" => left = N - pos
CarriesTheStream ==
  failures = 0 =>
    IF job \in Exact THEN out = Units(0, Len(out)) /\ Len(out) <= N
    ELSE AllTaken => InTurn(out)

\* The clients that look at what the RPC returned, and those that hand on
\* nothing after a failure, may lose units but never repeat or reorder one; nor
\* does a file played, up to its short end, whatever the DSP takes or refuses.
Rising(s) == \A i, j \in DOMAIN s : i < j => s[i] < s[j]
Careful == {"flat_write", "flat_read", "audio_dump", "aac"} \cup Dspc
WholeBlocks == job = "play_file" /\ pc = "loop" /\ ret \in {0, Chunk}
NothingTwice == job \in Careful \/ WholeBlocks => Rising(out)

\* A failed call costs the capture at most one of the DSP's buffers: all the
\* others are filled and given back in turn.
OneBufferPerFailure == gone <= failures

\* While no call fails every loop comes to its end, and the dump, failed calls
\* or not, after its user has asked for it, provided that the DSP then fills
\* one more block: until it does, thread_dump waits in AML_FLATBUF_Read.
EveryLoopEnds ==
  /\ []<>(pc = "ended" \/ failures > 0 \/ job = "audio_dump")
  /\ (quit /\ pos + Chunk <= N) ~> (pc = "ended")

-----------------------------------------------------------------------------
(***************************************************************************)
(* The inductive invariants behind the three (HostProofs).                 *)
(***************************************************************************)

StreamTypeOK ==
  /\ job \in AllJobs
  /\ job \in {"resample", "play_file", "mp3", "aac"} => pos <= N
  /\ job = "play_file" => N - pos <= left
  /\ pc \in {"loop", "ended", "process", "write", "qbuf"}
  /\ pos \in Nat /\ left \in Nat /\ ret \in 0..Chunk
  /\ ready \in BOOLEAN /\ quit \in BOOLEAN
  /\ block \in Seq(Nat) /\ Chunk <= Len(block)
  /\ dest \in Seq(Nat)
  /\ IF job = "gain" THEN Len(dest) = Block /\ left <= Block ELSE Len(dest) = Chunk
  /\ ring \in Seq(Nat) /\ out \in Seq(Nat)
  /\ held \in Nat /\ gone \in Nat /\ failures \in Nat

\* Between two calls of dqbuf the client that uses qbuf has no buffer in hand.
BuffersKept == job = "dspc" /\ pc = "loop" => held = 0

\* s lies before r and both before what the source yields next.
Ordered(s, r, p) ==
  /\ Rising(s) /\ Rising(r)
  /\ \A i \in DOMAIN s : s[i] <= p
  /\ \A j \in DOMAIN r : r[j] <= p
  /\ \A i \in DOMAIN s, j \in DOMAIN r : s[i] < r[j]

\* What came out lies before what is inside the DSP, where the AAC decoder and
\* the file played have nothing.
InOrder ==
  /\ job \in Careful => Ordered(out, ring, pos) /\ (job = "aac" => ring = << >>)
  /\ WholeBlocks => Ordered(out, << >>, pos)

\* s is a piece of the stream, the units behind unit `from'.
Counts(s, from) == \A i \in DOMAIN s : s[i] = from + i

\* The loops with nothing in between: the source is where the output is.
Direct == {"pcm_read", "resample", "play_frames", "mp3", "aac"}
DirectCarried ==
  /\ job \in Direct => pos = Len(out) /\ pos <= N
  /\ job = "pcm_read" => ready /\ left = N - pos

\* The block of AML_PCMGAIN_Process: the pieces done so far.
GainCarried ==
  job = "gain" =>
    /\ Len(out) <= N
    /\ pc = "loop" => pos = Len(out)
    /\ pc \in {"process", "write"} =>
         /\ pos = Len(out) + (Block - left)
         /\ Len(out) + Block <= N
         /\ \A i \in 1..(Block - left) : dest[i] = Len(out) + i
    /\ pc = "write" => left = 0

\* The queues: what is in the DSP follows what came out of it.
Queued == {"flat_write", "flat_read", "audio_dump"} \cup Dspc
QueueCarried ==
  /\ job \in Queued => Counts(ring, Len(out)) /\ pos = Len(out) + Len(ring)
  /\ job \in {"flat_read", "audio_dump"} => pos <= N
  /\ job = "flat_write" => pos + left = N
  /\ job \in Dspc => Len(out) + left = N

\* The whole blocks: all the source has yielded came out, if the DSP took it,
\* and a block holds nothing else.
Shows(s, p) == \A u \in 1..p : \E j \in DOMAIN s : s[j] = u
UpTo(b, p) == \A x \in DOMAIN b : b[x] <= p
BlockCarried ==
  job \in {"play_file", "capture"} /\ AllTaken =>
    Shows(out, pos) /\ UpTo(block, pos) /\ InTurn(out)

Carried ==
  failures = 0 =>
    /\ job \in Exact => Counts(out, 0)
    /\ DirectCarried /\ GainCarried /\ QueueCarried /\ BlockCarried

StreamIInv ==
  /\ StreamTypeOK
  /\ BuffersKept /\ OneBufferPerFailure
  /\ InOrder /\ Carried
=============================================================================
