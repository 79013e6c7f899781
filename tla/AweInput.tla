------------------------------ MODULE AweInput ------------------------------
(***************************************************************************)
(* The wake engine fed by the application (hifi4rpc_client/                *)
(* aml_wakeup_api.c, AWE_USER_INPUT_MODE), from AML_AWE_Open to            *)
(* AML_AWE_Close.  The application's thread pushes interleaved PCM into a  *)
(* ring and posts userFillSem; the worker thread waits on it, measures the *)
(* ring, and hands whole chunks to the DSP, which may leave a part of one. *)
(* No lock: the write offset is the application's, the read offset the     *)
(* worker's.  Accesses take effect in program order.                       *)
(*                                                                         *)
(* Lengths are in frames (one sample of every channel), and the ring holds *)
(* stream positions: the frame pushed as number p is p.                    *)
(***************************************************************************)
EXTENDS Integers, Sequences

CONSTANTS
  Size,      \* userFillBufSize; one more chunk behind it takes the wrap
  Chunk,     \* inWorkBufLenInSample
  Pushes,    \* sizes the application pushes: a longer one than the ring, which
             \* an empty ring accepts, would be written beyond it
  Takes,     \* how much of a chunk the DSP may take (its answer's lenInByte)
  Word,      \* the modulus of a uint32_t
  Total,     \* bound: frames pushed
  MaxPosts   \* bound: calls of AML_AWE_SetParam(AWE_PARA_FREE_RUN_MODE, 0)

ASSUME AweInputAssumption ==
  /\ Chunk \in Nat \ {0}
  /\ Size \in Nat /\ Size > Chunk
  /\ Pushes \subseteq 1 .. Size
  /\ Takes \subseteq 0 .. Chunk
  /\ Word \in Nat /\ Word > 2 * Size
  /\ Total \in Nat /\ MaxPosts \in Nat

VARIABLES
  wr, rd,    \* userFillBufWr, userFillBufRd
  buf,       \* userFillBuf, the extra chunk included
  live,      \* userFillBuf is allocated
  sem,       \* the value of userFillSem
  exit,      \* work_thread_exit
  app,       \* the application's call: where it is, and the size it pushes
  worker,    \* the worker: where it is, and numOfChunk
  work,      \* hinWorkBuf: the chunk extracted for the DSP
  posts,     \* posts without a push made (bounded)
  nwr, nrd,  \* ghosts: frames pushed and frames the DSP took
  told       \* ghost: calls of the data handlers

ring == <<wr, rd, buf, live>>
ghosts == <<nwr, nrd, told>>
vars == <<wr, rd, buf, live, sem, exit, app, worker, work, posts, nwr, nrd, told>>

Stale == -1
Address == 0 .. (Size + Chunk) - 1

Init ==
  /\ wr = 0 /\ rd = 0
  /\ buf = [a \in Address |-> Stale]
  /\ live = TRUE
  /\ sem = 0
  /\ exit = FALSE
  /\ app = [pc |-> "idle", size |-> 0]
  /\ worker = [pc |-> "test", chunks |-> 0]
  /\ work = << >>
  /\ posts = 0
  /\ nwr = 0 /\ nrd = 0 /\ told = 0

\* aml_awe_ring_buf_fullness
Fullness == IF wr >= rd THEN wr - rd ELSE (Size + wr) - rd

\* (A bug to be caught: a full ring looks empty.)
SpaceAll == (IF wr >= rd THEN (Size + rd) - wr ELSE rd - wr) % Word

\* aml_awe_ring_buf_space, in unsigned arithmetic.
Space == (IF wr > rd THEN ((Size + rd) - wr) - 1 ELSE (rd - wr) - 1) % Word

-----------------------------------------------------------------------------
(***************************************************************************)
(* The application.  A push without room returns AWE_RET_ERR_NO_MEM and    *)
(* changes nothing: the application tries again.                           *)
(***************************************************************************)

At(pc) == app.pc = pc
AppGoes(pc) == app' = [app EXCEPT !.pc = pc]

PushBuf(n) ==
  /\ At("idle")
  /\ nwr + n <= Total
  /\ Space >= n
  /\ app' = [pc |-> "copy", size |-> n]
  /\ UNCHANGED <<ring, sem, exit, worker, work, posts, ghosts>>

\* The two memcpy: up to the end of the ring, the rest from its start.
PushCopy ==
  /\ At("copy")
  /\ buf' = [a \in Address |->
               IF a < Size /\ (a - wr) % Size < app.size
               THEN nwr + ((a - wr) % Size) ELSE buf[a]]
  /\ AppGoes("update")
  /\ UNCHANGED <<wr, rd, live, sem, exit, worker, work, posts, ghosts>>

PushUpdate ==
  /\ At("update")
  /\ wr' = (wr + app.size) % Size
  /\ nwr' = nwr + app.size
  /\ AppGoes("post")
  /\ UNCHANGED <<rd, buf, live, sem, exit, worker, work, posts, nrd, told>>

PushPost ==
  /\ At("post")
  /\ sem' = sem + 1
  /\ app' = [pc |-> "idle", size |-> 0]
  /\ UNCHANGED <<ring, exit, worker, work, posts, ghosts>>

\* AML_AWE_SetParam(AWE_PARA_FREE_RUN_MODE, 0): a post with nothing pushed.
EndFreeRun ==
  /\ At("idle")
  /\ posts < MaxPosts
  /\ posts' = posts + 1
  /\ sem' = sem + 1
  /\ UNCHANGED <<ring, exit, app, worker, work, ghosts>>

\* AML_AWE_Close: set the flag, post, join the worker, free the ring.
Close ==
  /\ At("idle")
  /\ exit' = TRUE
  /\ AppGoes("close")
  /\ UNCHANGED <<ring, sem, worker, work, posts, ghosts>>

\* (A bug to be caught: the worker is not woken.)
ClosePostForgotten ==
  /\ At("close")
  /\ AppGoes("join")
  /\ UNCHANGED <<ring, sem, exit, worker, work, posts, ghosts>>

ClosePost ==
  /\ At("close")
  /\ sem' = sem + 1
  /\ AppGoes("join")
  /\ UNCHANGED <<ring, exit, worker, work, posts, ghosts>>

\* (A bug to be caught: the worker is not joined.)
CloseUnjoined ==
  /\ At("join")
  /\ live' = FALSE
  /\ AppGoes("closed")
  /\ UNCHANGED <<wr, rd, buf, sem, exit, worker, work, posts, ghosts>>

CloseJoin ==
  /\ At("join")
  /\ worker.pc = "done"
  /\ live' = FALSE
  /\ AppGoes("closed")
  /\ UNCHANGED <<wr, rd, buf, sem, exit, worker, work, posts, ghosts>>

-----------------------------------------------------------------------------
(***************************************************************************)
(* The worker, awe_thread_process_data.                                    *)
(***************************************************************************)

WorkerGoes(pc) == worker' = [worker EXCEPT !.pc = pc]

\* while (!work_thread_exit)
Test ==
  /\ worker.pc = "test"
  /\ WorkerGoes(IF exit THEN "done" ELSE "wait")
  /\ UNCHANGED <<ring, sem, exit, app, work, posts, ghosts>>

\* sem_wait
Wait ==
  /\ worker.pc = "wait"
  /\ sem > 0
  /\ sem' = sem - 1
  /\ WorkerGoes("measure")
  /\ UNCHANGED <<ring, exit, app, work, posts, ghosts>>

\* (A bug to be caught: one chunk per post.)
MeasureOne ==
  /\ worker.pc = "measure"
  /\ worker' = [pc |-> "loop", chunks |-> IF Fullness >= Chunk THEN 1 ELSE 0]
  /\ UNCHANGED <<ring, sem, exit, app, work, posts, ghosts>>

Measure ==
  /\ worker.pc = "measure"
  /\ worker' = [pc |-> "loop", chunks |-> Fullness \div Chunk]
  /\ UNCHANGED <<ring, sem, exit, app, work, posts, ghosts>>

\* (A bug to be caught: the wrapped part is not copied.)
LoopUncopied ==
  /\ worker.pc = "loop"
  /\ worker' = IF worker.chunks = 0 THEN [worker EXCEPT !.pc = "test"]
               ELSE [pc |-> "extract", chunks |-> worker.chunks - 1]
  /\ UNCHANGED <<ring, sem, exit, app, work, posts, ghosts>>

\* while (numOfChunk--): what has wrapped is copied behind the end of the
\* ring, so that the chunk is contiguous.
Loop ==
  /\ worker.pc = "loop"
  /\ IF worker.chunks = 0
     THEN /\ WorkerGoes("test")
          /\ UNCHANGED buf
     ELSE /\ worker' = [pc |-> "extract", chunks |-> worker.chunks - 1]
          /\ buf' = [a \in Address |->
                       IF a \in Size .. (rd + Chunk) - 1 THEN buf[a - Size] ELSE buf[a]]
  /\ UNCHANGED <<wr, rd, live, sem, exit, app, work, posts, ghosts>>

\* Channel by channel: whole frames, as lengths are in frames here.
aml_ch_extract_s16le(src) == [i \in 1 .. Chunk |-> buf[src + i - 1]]
Extract ==
  /\ worker.pc = "extract"
  /\ work' = aml_ch_extract_s16le(rd)
  /\ WorkerGoes("process")
  /\ UNCHANGED <<ring, sem, exit, app, posts, ghosts>>

\* The DSP answers how much of what it is given remains; of a request that
\* failed, whose result the worker does not look at, the last answer stands.
internal_aml_awe_process(given) == {taken \in Takes : taken <= given}

\* The DSP's call, the read offset, and the handlers.
Process(taken) ==
  /\ worker.pc = "process"
  /\ rd' = (rd + taken) % Size
  /\ nrd' = nrd + taken
  /\ told' = told + 1
  /\ WorkerGoes("loop")
  /\ UNCHANGED <<wr, buf, live, sem, exit, app, work, posts, nwr>>

AppGoesOn == PushCopy \/ PushUpdate \/ PushPost \/ ClosePost \/ CloseJoin
WorkerStep ==
  Test \/ Wait \/ Measure \/ Loop \/ Extract
    \/ \E taken \in internal_aml_awe_process(Chunk) : Process(taken)

Next ==
  \/ \E n \in Pushes : PushBuf(n)
  \/ EndFreeRun \/ Close \/ AppGoesOn
  \/ WorkerStep

Spec == Init /\ [][Next]_vars

\* A call once made goes on, the worker runs, and the DSP answers; the
\* application need not push or close.
FairSpec == Spec /\ WF_vars(AppGoesOn) /\ WF_vars(WorkerStep)

-----------------------------------------------------------------------------
(***************************************************************************)
(* Properties                                                              *)
(***************************************************************************)

AppPc == {"idle", "copy", "update", "post", "close", "join", "closed"}
WorkerPc == {"test", "wait", "measure", "loop", "extract", "process", "done"}

TypeOK ==
  /\ wr \in 0 .. Size - 1 /\ rd \in 0 .. Size - 1
  /\ buf \in [Address -> Nat \cup {Stale}]
  /\ live \in BOOLEAN
  /\ sem \in Nat
  /\ exit \in BOOLEAN
  /\ app \in [pc : AppPc, size : Nat]
  /\ worker \in [pc : WorkerPc, chunks : Nat]
  /\ work \in Seq(Nat \cup {Stale})
  /\ posts \in Nat
  /\ nwr \in Nat /\ nrd \in Nat /\ told \in Nat

\* The chunk the DSP gets is the pushed stream, from the first frame it has
\* not taken, without a gap and across the wrap, though the worker copies the
\* wrapped part and extracts the channels while the application pushes, and
\* though the DSP may leave a part of every chunk.
FeedsTheStream ==
  worker.pc = "process" => work = [i \in 1 .. Chunk |-> nrd + i - 1]

\* The frames pushed and not yet taken are those between the two offsets: a
\* push never overruns them and the worker never takes more than was pushed.
NoOverrun ==
  /\ nrd <= nwr
  /\ Fullness = nwr - nrd
  /\ worker.chunks * Chunk <= nwr - nrd

\* AML_AWE_Close frees the ring only when the worker no longer touches it.
WorkerSeesLiveRing == worker.pc \in {"loop", "extract", "process"} => live

\* Every chunk pushed is answered by a call of the data handlers, which is
\* what the application counts before it closes: no post is lost, though the
\* worker measures the ring once for several posts, and pushes need not be
\* whole chunks.
AllAnswered == []<>(exit \/ told >= nwr \div Chunk)

\* AML_AWE_Close returns, wherever the worker is when the flag is set.
CloseReturns == At("close") ~> At("closed")

-----------------------------------------------------------------------------
(***************************************************************************)
(* The inductive invariant behind FeedsTheStream, NoOverrun and            *)
(* WorkerSeesLiveRing (AweInputProofs), for pushes shorter than the ring.  *)
(***************************************************************************)

Pushing == IF app.pc \in {"copy", "update"} THEN app.size ELSE 0

\* The room a push found is still there: only the worker moves rd.
Offsets ==
  /\ wr = nwr % Size /\ rd = nrd % Size
  /\ nrd <= nwr
  /\ (nwr + Pushing) - nrd <= Size - 1

\* So are the chunks the worker measured, the one in its hands included.
InHand == IF worker.pc \in {"extract", "process"} THEN Chunk ELSE 0
Measured == (worker.chunks * Chunk) + InHand <= nwr - nrd

\* The ring holds the stream from what the DSP has not taken to what is
\* pushed, and behind its end what has wrapped of the chunk to extract.
Content ==
  /\ \A p \in nrd .. nwr - 1 : buf[p % Size] = p
  /\ app.pc = "update" => \A p \in nwr .. (nwr + app.size) - 1 : buf[p % Size] = p
  /\ worker.pc = "extract" =>
       \A a \in Size .. (rd + Chunk) - 1 : buf[a] = nrd + (a - rd)

\* The ring is freed last.
Closing ==
  /\ live = (app.pc # "closed")
  /\ app.pc = "closed" => worker.pc = "done"

IInv ==
  /\ TypeOK /\ app.size \in 0 .. Size
  /\ Offsets /\ Measured /\ Content /\ Closing /\ FeedsTheStream
=============================================================================
