# A verification project for the HiFi DSP utilities

TLA+ models of `dsp_util`, the user-space side of the HiFi 4 DSP of Amlogic
SoCs: client libraries that talk to the DSP through shared memory and a
mailbox device, an audio bridge between the DSP's sound devices and ALSA, and
command-line tools.  TLC checks the models on small instances; TLAPS proves
what matters most for every value of the constants.

## 1. The system

| Part | Sources (under `src/`) | State it keeps | Operations |
|---|---|---|---|
| Byte ring | `hifi4rpc_audio_bridge/ring_buffer.cpp` | `fifo.in`, `fifo.out`, `size`, `buffer` | `rb_init`, `rb_write`, `rb_read`, two measures |
| Audio bridge | `hifi4rpc_audio_bridge/audio_bridge.cpp`, `audio_hal.cpp`, `audio_dspc.cpp`, `audio_alsa.cpp` | `running`, two `PCM_LINE`s, per device handle and buffer | capture and playback thread per line, SIGINT, main |
| T buffer | `hifi4rpc_client/aml_tbuf_api.c` | one write offset, two read offsets, who is enabled, the master | create, add and remove a reader, offsets, measures |
| Wake engine client | `hifi4rpc_client/aml_wakeup_api.c` | status, ring and its offsets, semaphore, worker thread, flags | create, open, push, process, parameters, close, destroy |
| Shared memory pool | `hifi4rpc_client/rpc_client_shm.c` | device, mapping, RPC handle | allocate, free, address translation, cache operations |
| RPC device | `hifi4rpc/rpc_dev.c`, `hifi4rpc_client/rpc_client_aipc.c` | a descriptor | write a request, read its answer |
| PCM clients | `hifi4rpc_client/rpc_client_pcm.c`, `aml_pcm_api.c` | descriptor, the DSP's handle, period buffer | open, read, write, close, queue and dequeue buffers |
| Flat buffer client | `hifi4rpc_client/aml_flatbuf_api.c` | descriptor, the DSP's handle and block | create, read, write, destroy |
| Codec and VSP clients | `hifi4rpc_client/rpc_client_{vsp,mp3,aac}.c` | descriptor, the DSP's handle, blocks | init, open, process or decode, close, deinit |
| Gain | `hifi4rpc_client/aml_pcm_gain_api.c` | a VSP handle, three blocks | create, open, set, process, close, destroy |
| Rate conversion | `hifi4rpc_client/aml_audio_util.c`, `aml_resampler.c` | two positions, the last frame, the filter's history | init, a chunk, deinit |
| MP3 reader | `mp3tools/mp3reader.cpp` | file position, fixed header | find, check and skip frames |
| WAV files, sample formats | `mp3tools/tinysndfile.c`, `primitives.c` | stream, frames counted | open, read, write, close; convert |
| DSP control | `src/dsp_util.c`, `src/dsp_start.c` | options | load, start, stop a DSP core by ioctl |
| Tools and tests | `hifi4_tool`, `vad_test`, `test`, `hifi4rpc_test` | what they open and allocate | some fifty programs and threads over the libraries |

The parts interact by calls (a codec client calls the pool and the RPC
device), by memory shared with the DSP, and by threads inside this code: the
bridge runs four, the wake engine one of its own beside the application's, the
T buffer is used by three or more, and the pool by whoever comes first.  Hard
are the lock-free rings (two threads, wrapping counters, copies that must not
meet), a worker that is parked, posted and closed by other threads, a pool that
is initialised by whichever thread finds it missing, and the release of what a
failure leaves half built.  `PROJECT.json` lists the hazards line by line.

What makes each part correct:

- **Byte ring**: the two measures are true across the wrap of the 32-bit
  counters; the copies of the two threads never meet; what is read is what was
  accepted, in order: a bounded FIFO.
- **Audio bridge**: a ring exists as long as a thread may use it; frames stay
  whole when bytes are dropped, so channels never swap; once the flag drops the
  program ends; a playback that failed plays again.
- **T buffer**: the writer never laps a counted reader, whatever joins and
  leaves; the DSP is fed the captured stream; a reader that stays gets it all.
- **Wake engine**: every pushed frame is fed once and in order; a post is never
  lost; the worker does not touch a freed ring and never processes while the
  DSP is on its own; an engine in status EXECUTE is complete; each failure path
  frees what was allocated, once.
- **Pool and RPC**: the devices are opened once; whoever sees the handle finds
  the mapping too; every way out returns the mutex; blocks are not lost.
- **Clients, tools and tests**: whatever call fails, each context, descriptor,
  block and DSP object is given back, once; the sound that comes out of a loop
  is the sound that went in, in order, and the loop ends.
- **Rate conversion and sample formats**: the cut of a stream into chunks does
  not show; a conversion in place keeps every sample.
- **WAV files and MP3 reader**: a file is read back as it was written; the
  search finds the frames of a stream and nothing else.
- **Control program**: the DSP is asked for what the command line names, in the
  order of its table, and for nothing else.

## 2. The modules

Each component has a module with its state, one action per step of the code,
and its properties; `MC_<Module>` and its `.cfg` instantiate it; theorems are
in `<Module>Proofs` (`AweEngineProofs` for `AweFreeRun` and `AweLifecycle`,
`SharedProofs` for `AudioBridge` and `ShmPool`, `HostProofs` for what `Host`
composes, but for the WAV files, which are in `WavFileProofs`).  `ModularArithmetic` holds the lemmas
on `%` they share.
An operator introduced with *(A bug to be caught: ...)* is not part of the
model: it is the form of the next definition that a plausible bug would give.

| Module | Models | How |
|---|---|---|
| `ByteFifo` | what the ring promises | a bounded FIFO channel: accept bytes that fit, deliver them in order |
| `RingBuf` | `ring_buffer.cpp` | `rb_write` is measure (`WriteCall`, `WriteSize`), copy (`WriteCopy`) and store of the counter (`WritePublish`), `rb_read` likewise. Bytes are stream positions, words wrap at `Word` |
| `AudioBridge` | `audio_bridge.cpp` with the device classes | `capture[l]` and `playback[l]` are the places of the two threads of line `l`, `main` and `at` those of the main thread; the ring is the FIFO that `RingBuf` implements |
| `TBuf` | `aml_tbuf_api.c` and the threads of its test | offsets, master and enabled readers; measure, fill or take, and update are separate steps of each thread |
| `AweInput` | the wake engine in user input mode, open to close | the application's push and close against `awe_thread_process_data`, step by step, without a lock |
| `AweFreeRun` | the wake engine in DSP input mode | the flag `bKickFreeRun`, the semaphore, the DSP's mode, a controller and a closing thread |
| `AweLifecycle` | create, open, close, destroy | every block has a name, every field holds one; each allocation may fail; `enabled` is the DSP's instance between `AML_VSP_Open` and `AML_VSP_Close`, `behind` the ghost of an open that failed in between |
| `ShmPool` | `rpc_client_shm.c` over `rpc_dev.c` | each statement of `Aml_ACodecMemory_Init` that may fail is an action; an RPC is a write and a read |
| `DspCalls` | the client libraries | one operator per C function: the script of what it obtains, tests, uses and releases |
| `DspPrograms` | the tests, the tools and the device classes of the bridge | one script per program or thread, made of those of `DspCalls`, with every early return and `goto`. A device class is the record of its operations, with the table of what it opens; the bridge's four threads are the two loops over the devices of `PcmLine0` and `PcmLine1` |
| `DspClients` | the machine that executes a script | one action per kind of instruction; an allocation, an open or an RPC may fail |
| `DspStreams` | the loops that carry sound | one action per round of a loop (`AML_PCM_Read`, `AML_PCMGAIN_Process`, the decoders, the flat buffer, `dqbuf` and `qbuf`, ...); sound is the units 1, 2, 3, ... |
| `SampleFormats` | `primitives.c`, its inline helpers and the gain's two loops | a conversion is a loop over memory of tagged bytes, one sample per step, in place, with the clamp its function calls; a copy between channel masks handles one bit per step |
| `SampleRate` | `aml_audio_util.c` | `AML_SRCS16LE_Exec` on a chunk, with its filter and its assertions, exactly |
| `WavFile` | `tinysndfile.c` | a file is its RIFF size and its chunks; write, close, open, read. What `fwrite` took may be lost, and a call of the closing may fail |
| `Mp3Reader` | `mp3reader.cpp` | a file is its size, headers and tags; the search sees a window of offsets |
| `DspUtil` | `dsp_util.c`, `dsp_start.c` | an option, a row of the table of commands or a fork per step |

The three wake engine modules divide one file by what its behaviours depend
on: what is fed (`AweInput`), when the worker runs (`AweFreeRun`), and what is
allocated (`AweLifecycle`).  They meet in `AML_AWE_Close`, which each has with
the part of it that its state shows.

The clients are divided in the same way: `DspCalls`, `DspPrograms` and
`DspClients` follow what a program *holds*, whatever the sound; `DspStreams`
follows the sound, for a program that holds what it needs.  `Host` composes
these and the algorithms into one specification, and `MC_Host` gives it inputs.
They share no state, because the programs they model run by themselves: an
initial state gives one of them its work and leaves the others idle.

Abstractions all modules share:

- A byte or frame is its position in the stream (or in its frame): that tells
  every loss, repetition and stale read apart.
- Accesses of one thread take effect in program order, except in `RingBuf`,
  where `build.relaxed` lets a counter overtake its copy and `build.reload` lets
  `min` read its argument twice, and `AweFreeRun`, where `hoist` lets the
  compiler read the flag once.  These are the outcomes of the data races in
  those places.  The CFLAGS at `src/Makefile:9` set no `-O`, so the reload is
  what that build does.
- An RPC is a write and a read of a device.  It is done; refused by the DSP; not
  sent, which leaves the argument as it was; or done with its answer lost, which
  leaves an argument of zeros.  Most callers do not look at the result, so what
  the argument then holds is what they act on.
- The DSP, the kernel drivers and ALSA are not in the repository.  Their side is
  a choice: how much of a chunk is taken, which block is given out, whether a
  call fails.  That a thread's read gets the answer to its own write is the
  driver's promise.
- In `SampleFormats` a byte has `ByteBits` bits: 8, as in the code, or 4 for TLC,
  where every width and count of fraction bits is half the code's so that a 32-bit
  sample fits TLC's integers.  The theorem covers both.  `WavFile` uses the same
  formats.
- In `SampleRate` a filter of three symmetric taps stands for that of 51.
- A negative count from a PCM call, which the loops add to their pointers unseen,
  is left out of `DspStreams`; so are WAV sizes of 2^32 and more in `WavFile`.
- `waitpid` with `WUNTRACED | WCONTINUED` in `dsp_start` is waiting for the end.
- Ghost variables (`nwr`, `nrd`, `nin`, `nout`, `late`, `sober`, `faults`, ...)
  record history for the properties; no guard of the code's reads them.

## 3. The runs

| Run | Bounds | Distinct states | Shows |
|---|---|---|---|
| `ring` | words of 8 values, rings of 2 and 4 bytes, lengths to 3, a stream of 9 bytes | 2,282,693 | both counters wrap during the stream; all four builds; the ring implements `ByteFifo` |
| `tbuf` | ring of 3 chunks, stream of 11 bytes (5 chunks and a short one), 4 joins | 22,384 | readers come and go at every point of a write; the offsets wrap |
| `awe_input` | ring of 3 chunks, pushes of 1 to 3 frames, partial takes, 8 frames | 242,224 | pushes that are not whole chunks, chunks that wrap, a close anywhere |
| `awe_free_run` | 4 parameter calls, hoisted or not | 873 | two whole rounds, repeated calls, a close anywhere |
| `awe_lifecycle` | 2 work buffers, 7 calls | 88,846 | a failure at every stage, and open, close and destroy after it |
| `bridge` | 2 lines, ring of 4 frames, reads of 1 or 2 | 245,030 | full and empty rings, failing devices and threads, a signal anywhere |
| `shm` | 2 threads, 2 blocks, 5 calls | 16,795 | the initialisation entered by both at once, failing and tried again |
| `host` | see below | 201,127 | every script of `DspPrograms` to its end under every choice of two failures, and each algorithm on its inputs |

The bounds of `host`: all of the programs, with at most two calls that fail; a
stream of 7 units in blocks of 2 (so that the last is short), a gain buffer of
3 (a block and a half), a flat buffer and a capture of 3, two failing RPCs;
four samples per conversion, of the ends of their format and around zero, with
four bits to a byte; every two masks of four channels under arrays of 0 to 4
indices; a stream of 12
samples cut in every way into chunks of 1 to 4, at rates up, down, equal,
filtered, and at pairs that overrun the caller's room; up to 3 frames written in
every format and every three chunks of a foreign file, cut off anywhere; MP3
files of two runs of frames with tags, noise, false headers and other kinds
before, between and behind, in a window of 32 bytes that is refilled several
times; every dsp_util line of two options and every three of the telling ones,
an operand behind each option, and the four lines of `dsp_start`.  A failing write of
a WAV file takes, and the loss of buffered bytes costs, 0, 1, 3 or 6 bytes
(`Torn`: nothing, part of a sample, of a frame, of several), and one write of a
file fails; its closing may fail too.

The bounds are small because the code depends on little: the wrap of a counter
needs a stream longer than the word, a lapped reader needs a stream longer than
the ring, and every failure path is reached by its one failure.  Two threads
per ring and two readers per buffer are not bounds but what the code has.
What a bound leaves out the theorems of section 5 cover, for the modules that
have them; the type invariants too are theorems there and take no run.

`awe_lifecycle` excepts in `FailedOpenReleases` the one thing a failed
`AML_AWE_Open` leaves: behind `AML_VSP_Open` (`aml_wakeup_api.c:410`) the
failure path does not call `AML_VSP_Close`, as `AML_AWE_Close` does, and the
DSP's instance stays open.

What `host` excepts, by name, in the properties it checks:

- `NothingLeaks` lists in `KnownLeaks` the field and the program of each leak the
  code has: mostly an output that does not open after something was allocated,
  and `mp3dec`'s input when there is no frame in it.
  What a failed RPC hid or kept (`lost`) is not the program's to give back.
- `ReleasesOnce` speaks of dead objects.  That a program goes through a null or
  an uninitialised pointer after a failure (the faults `null` and `garbage`) the
  model shows too, and nothing in the code says it does not.
- `CarriesTheStream` and the first half of `EveryLoopEnds` end with the first
  failing RPC.  After one, `AML_PCM_Read` hands on old sound or never ends.
  The DSP may take a part of a block; the programs that play a file do not look
  and go on behind all of it (`hifi4rpc_pcm_test.c:263` and `317`), so of them
  `CarriesTheStream` speaks while it has taken everything (`AllTaken`), and
  `NothingTwice` says that what is lost is never made up for out of order.
- `KeepsEverySample` allows one unit of the new format for rounding, and the
  32-bit gain to wrap what is too loud: its product is compared with the limits
  only after it is cut to 32 bits (`aml_pcm_gain_api.c:211`).  It says of
  `memcpy_by_index_array_initialization` that it returns the number of indices
  needed however short the array is, as `primitives.h:568` has it; its two
  siblings for index masks return what they filled in when the array is too
  short but not empty, and of them the property says it only for the other cases.
- `ChunksDoNotMatter` ends with the converter's own assertion.  It fails where a
  chunk yields a frame more than the caller's room of `outRate / inRate` frames
  per input frame, rounded down: the `resampler` test at 48000 to 32000 has room
  for 682 frames of each 1024 and gets 683 from its second chunk.
- `ReadsBackWhatWasWritten` promises a file its samples as long as no write nor
  call of the closing failed.  `sf_close` looks at none of its results, and what
  stdio has buffered may not reach a full disk: the header may then count frames
  the file lacks, or be the one of the opening, or none.  Of such a file, as of
  one of somebody else, the property says that it opens exactly if it is
  well-formed, and then yields its data.
- `RunsWhatWasAsked` excepts a command given twice, whose bits are added up to
  those of another.

Runs that end in a violation show a disagreement between the code and its own
comments; `PROJECT.json` has the quotations under `findings`:

- `ring_min`: `min` is a macro and the length it yields need not be the minimum
  its comment promises, when the other thread moves its counter in between.
- `tbuf_pad`: the pad behind the T buffer handles the wrap only for readers
  that take the blocks the writer wrote; with other sizes the DSP is fed bytes
  nobody wrote there.
- `awe_open`: `AML_AWE_Open` returns `AWE_RET_OK` when an allocation failed.
- `awe_close`: after `AML_AWE_Close`, `AML_AWE_Process` is still accepted.

Deadlock is checked in `ring`.  The other systems stop of themselves: the
stream, the calls or the script end, the threads are joined.

## 4. Fairness

Liveness is stated under weak fairness of each thread of the code, taken as one
unit: a thread that can take a step takes one (the scheduler runs every thread,
`sem_wait` and joins return once they may, and device calls and the DSP
answer).  Nothing is assumed of the environment: nobody need call, push, close,
press Ctrl-C, or add a reader.

- `AweFreeRun`, `AweInput`, `TBuf`, `ShmPool`: weak fairness only.  A mutex
  needs no more in `ShmPool`, for its calls are bounded.
- `AudioBridge` adds strong fairness of `CaptureData`: a capture device that is
  read again and again, and has not overrun, sometimes has data.  Without it a
  silent device would keep a playback waiting, which is no fault of the code.
  An ALSA device that has overrun never has data again until it is prepared;
  no code prepares a capture, so `PlaybackResumes` names that case.
- `DspStreams`: weak fairness of the loop, whose calls are not failed for ever, and
  of the DSP; strong fairness of a flat buffer transfer of at least one unit, because
  the test draws its sizes at random (a draw of 0 for ever is no schedule) and a
  read with a timeout is tried again until the DSP has given something.  The user
  need not type `quit`.

`AllAnswered` and `EverythingIsFed` hold up to the end of a bounded stream; the
bound is on what is captured or pushed, never on how often a thread polls.

## 5. The theorems

Each theorem but `RingIsAFifo` is `Spec => []P` for every value of the
constants allowed by the module's named assumption, by one inductive invariant
(`IInv`, or `StreamIInv`, `Mp3IInv`, ... for a part of `Host`): the initial
states satisfy it, every step keeps it (one case per action), and it implies the
properties.

- **`RingBufProofs`** (any power-of-two size, any word it divides more than
  once, all builds).  `Counters` says the words are the true counts reduced;
  `Producer` and `Consumer` say what a call has measured is still there, since
  only the other side's counter moved and only to its advantage; `Content` that
  the slots between the counters hold the stream.  The properties alone are not
  inductive: they do not say what the thread in the middle of a call may rely
  on.  `RingIsAFifo` is the refinement: the bytes between the true counts are
  `ByteFifo`'s queue, publishing a write is its `Put`, copying a read its `Get`,
  and every other step leaves the queue as it was; in a build that gives no such
  promise only the amount held stays bounded (`Anything`).
- **`TBufProofs`** (any sizes with chunks no longer than the ring).  `Window`:
  what the writer has in flight fits behind every reader it counted; `Feeding`:
  what a reader has out is behind the writer.  A joining reader starts at the
  master's offset and so inherits the master's window, which is why
  `MasterIsEnabled` is part of the invariant.  `TBufFeedsTheStream`
  is for transfers of whole chunks into a ring of whole chunks, by `StreamInv`:
  an offset is then at a chunk's boundary, a copy never meets the end of the
  ring in its middle (`WritesWholeChunks`, `ReadsWholeChunks`), and the slots
  behind the writer hold the stream (`Holds`).  `TBufKeepsTheUnread` says what
  that is for: what an enabled reader has not read yet is still in the ring, at
  its place.  For other sizes it is false
  (`tbuf_pad`), so the condition is part of the property.
- **`AweInputProofs`** (under `ShortPushes`: no push is longer than the ring
  less one frame).  `Offsets`: the room a push found stays; `Measured`: so do
  the chunks the worker found; `Content`: the ring holds the stream, and the
  extra chunk behind its end what has wrapped of the chunk in hand.  The
  assumption is needed: with equal offsets the unsigned space is `2^32 - 1`.
  The application pushes 20 ms into one second.
- **`AweEngineProofs`**, the free run (any number of calls, in every build).  `Handshake`:
  the controller is in a free run exactly while the worker is parked without a
  post.
- **`AweEngineProofs`**, the life cycle (any number of work buffers and calls).  `Names`: an
  engine's own blocks are older than any that an open allocated, so a failed
  open or a close frees none of them, though fields keep naming freed blocks;
  `Exact`: what is allocated at each stage; `Before`: which history the fields
  may have, e.g. before a first failed open they are all null.
- **`SharedProofs`**, the audio bridge (any lines, frames, periods and capacities in whole
  frames).  `Lifetime`: which of a line's ring and threads there are together;
  `Whole`: the ring's content begins at a frame's first byte and ends at its
  last, which cutting off and taking away whole frames keeps.
- **`SharedProofs`**, the pool (any set of threads and blocks).  `Holder`: the thread in
  the initialisation is the one with the mutex; `Stages`: what is set at each
  stage, after any failures; `Shape` and `Accounts`: a block is on its way to a
  thread, in its hands or on its way back, in one place only.
- **`HostProofs`**, the loops that carry sound (any stream, blocks and buffers;
  `StreamIInv`).  What is on the DSP, in the block and in the output are
  consecutive stretches of the stream while no call has failed; a buffer taken
  out of the capture's queue is in it, with the loop, or was lost to one failed
  call; and a loop that looks at its results never hands a unit on twice.  How
  much of a block the DSP takes is any number, and only the loops that look at it
  go on from there.
- **`HostProofs`**, the MP3 reader (any file, any window; `Mp3IInv`).  The
  window is a contiguous stretch of the file, the tags passed over form a chain
  from its start, and no offset the search has left behind begins a stream:
  so the first frame it settles on is the first there is.
- **`HostProofs`**, the rate converter (any stream, any cut, any pair of rates,
  with or without the filter; `SrcIInv`).  The next frame to put out is the
  first that needs a sample of the next chunk, the frames put out are those of
  the whole stream, and the filter remembers the last samples read.  One sample
  of the whole stream is written without recursion (its taps and its two
  neighbours), so no fold over the input is needed.
- **`HostProofs`**, the control program (any series of command lines, any devices
  and files; `UtilIInv`).  While options are read, the number `cmd` is the sum of
  the bits of the options read (`Summed`), which determines each of them because
  they are twelve different powers of two (`BitsAre`): this is where a command
  given twice breaks it.  While commands run, those asked for are what of
  the line lies above the next row of the table (`Runs`).
- **`HostProofs`**, the sample formats (any samples, any number of them, any
  channel masks, the code's widths and TLC's; `CopyIInv` and `FrameIInv`).  Half
  way through a conversion in place each group of samples is either whole as it
  was given, at its old place, or converted and whole at its new one; which, is
  said by where the loop started and how many steps it has done.  A step reads
  the next group and its writes meet no byte of a group not yet read, because a
  function that widens starts at the end and one that narrows at the front: the
  one inequality of the proof for each order.  That a converted sample is near
  its ideal is arithmetic, function by function.  Between channel masks, the
  channels put out are the lowest of the destination, a channel's place is the
  number of lower bits plus one, and each loop adds the next of them.
- **`WavFileProofs`** (`WavIInv`; any number of frames, formats, up to
  eight channels, any pieces, any files of somebody else with any sizes, chunks
  and torn data that `WavFileAssumption` gives a type).  `WritingOK`: the data of a
  file being written is the samples given, byte for byte, and the frames counted
  are all of them, as long as nothing has failed; so closing, which writes the
  count into the header, makes the file's samples what was written.  Once
  something has failed only the file's shape is known, and what is read is
  compared with what the file holds.  `ScanningOK`: what is left of the RIFF size is what
  lies behind the chunks read, and the one `fmt` and the one `data` among them are
  what the reader remembers (`Scanned`); a chunk that is refused is then in no
  well-formed file, and a scan that ends at the RIFF size has found one.
  `ReadingOK`: the frames yielded are whole, as many as the bytes read hold, and
  the first of those expected; a read that yields nothing has met the end of the
  data or of what the header promised.  `ReadsBackWhatWasWritten` alone says
  nothing of a file before it is opened, where all of this is decided.  The
  chunks' ends are a recursive function: that they grow (`ChunkEndsGrow`) is
  proved by the least chunk where they would not.

The provers have no induction over data here: a fact about every element of a
sequence or of an interval is proved by its least counterexample (the least
element exists by `WellFoundedInduction` on the naturals) or is carried along by
the invariant, one step at a time.

The assumptions on constants are the weakest the proofs needed: sizes positive,
sizes in whole frames where the code's tables have them so, the word a multiple
of the ring.  No theorem assumes anything of the scheduler.

Only model-checked: every liveness property (fairness is beyond the prover), and
`NothingLeaks` and `ReleasesOnce`, which are about the concrete scripts of some
fifty programs and have no constant to be general in but the number of failures.

## 6. What is not modelled, and why

- `AML_AWE_Process` beside the worker, the parameter block shared by
  `AML_AWE_SetParam` and `AML_AWE_GetParam`, and the signal handler of the wake
  engine's test, which closes the engine on the main thread's stack: the models
  let one application thread call at a time, and no line promises more.  These
  races are listed as hazards.
- The threads of the test programs beside each other: each thread is a script of
  its own.  That some outlive what they use is a hazard.
- The pool's address arithmetic.
- The file the resampler tests write: `fwrite` takes the caller's whole room
  (`hifi4_basic_test.c:260`, `hifi4rpc_awe_test.c:426`), frames of an earlier
  chunk included where `AML_SRCS16LE_Exec` yielded fewer.  `SampleRate` models what
  Exec yields, of one channel; with more, `aml_audio_util.c:226` filters only the
  first of the samples that lines 268 to 271 read.  Both callers have one.
- How `dsp_ctl` reports a device that does not open: `DspUtil` has the order of
  what is asked of the DSP, whatever the answers.
- Volume, latency and position of the PCM clients: RPCs without any state on this
  side.
- Hardware parameters, the parsing of `/proc` and of numbers, and logging: they
  decide whether a call succeeds, which the models leave open.  `AudioBridge`
  leaves the device tables open in the same way; `DspPrograms` has them.
- What the DSP computes: the repository has the requests only.
- `hifi4dsp_load` and `hifi4dsp_info_init` of `dsp_util.c`, which nobody calls,
  and its builds other than Android's, which look for firmware elsewhere.
- The rounding of a 32-bit sample to a float's mantissa.
- `audio.h`, `audio_effect.h`, `FDK_audio.h`, `aacdecoder_lib.h` and the like:
  constants and declarations of other projects, with no behaviour here.

## 7. The plan

In the order of importance; the first seven groups are done.

1. The two lock-free rings and the T buffer, with proofs: `RingBuf`
   (implementing `ByteFifo`), `TBuf`, `AweInput`.
2. The threads around them and the life cycles: `AweFreeRun`, `AweLifecycle`,
   `AudioBridge` (composed with the FIFO that `RingBuf` implements), `ShmPool`.
3. Theorems for the invariants of each, and for the refinement `RingBuf` ->
   `ByteFifo`.
4. The clients and the programs over them: `DspCalls`, `DspPrograms`,
   `DspClients`, `DspStreams`, with the failures of each RPC.
5. The algorithms: `SampleFormats`, `SampleRate`, `WavFile`, `Mp3Reader`,
   `DspUtil`.
6. Theorems about `DspStreams`, `Mp3Reader`, `SampleRate` and `DspUtil`, and
   `FeedsTheStream` of `TBuf` for sizes that are whole chunks; about the
   conversions in place and the copies of channels (`SampleFormats`).
7. A theorem about the WAV files, written and read (`WavFile`).
8. The parameter block of the wake engine shared by two callers.
