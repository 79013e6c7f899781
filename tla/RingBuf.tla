------------------------------- MODULE RingBuf -------------------------------
(***************************************************************************)
(* The byte ring between the capture and the playback thread of one line   *)
(* of the audio bridge (hifi4rpc_audio_bridge/ring_buffer.cpp): one        *)
(* producer in rb_write, one consumer in rb_read, no lock.  `in' and `out' *)
(* are free-running unsigned words (2^32 in the code, Word here); a slot   *)
(* is the counter masked by size - 1.                                      *)
(*                                                                         *)
(* Both threads touch `in' and `out' without synchronisation, which C++    *)
(* leaves undefined.  `build' ranges over the outcomes a build can give:   *)
(*   reload   the macro min(x, y) names its argument twice, so the shared  *)
(*            counter is read again when it is the smaller one (a build    *)
(*            without optimisation, the Makefile's, does);                 *)
(*   relaxed  the store that publishes a counter may become visible before *)
(*            the copy it follows (a weakly ordered processor).            *)
(***************************************************************************)
EXTENDS Integers, Sequences

CONSTANTS
  Word,       \* the modulus of an unsigned int
  Requests,   \* sizes rb_init may be asked for
  MaxLen,     \* bound: the largest length of one rb_write or rb_read
  Total,      \* bound: rb_write is called only while the stream is shorter
  Builds      \* the outcomes of the data race explored

\* roundup_power_of_2: one position per significant bit of a.
RoundUp(a) ==
  IF a = 0 THEN 0
  ELSE 2 ^ (CHOOSE p \in 1 .. a : 2 ^ p > a /\ 2 ^ (p - 1) <= a)

IsPowerOf2(n) == \E p \in 0 .. n : n = 2 ^ p

\* The size rb_init gives the ring.
InitSize(request) == IF IsPowerOf2(request) THEN request ELSE RoundUp(request)

Sizes == {InitSize(r) : r \in Requests}

ASSUME RingAssumption ==
  /\ MaxLen \in Nat \ {0}
  /\ Total \in Nat
  /\ Word \in Nat
  /\ Sizes \subseteq Nat \ {0}
  /\ \A s \in Sizes : \E k \in 2 .. Word : Word = s * k
  /\ Builds \subseteq [reload : BOOLEAN, relaxed : BOOLEAN]

VARIABLES
  build,      \* the outcome this behaviour is about; never changes
  size,       \* fifo.size
  in, out,    \* fifo.in and fifo.out
  buffer,     \* fifo.buffer: slot -> the stream position of the byte there
  w,          \* the producer's call of rb_write
  r,          \* the consumer's call of rb_read
  data,       \* the consumer's buffer: the bytes its last copy took
  nin, nout   \* ghosts: bytes accepted and bytes taken, not reduced

vars == <<build, size, in, out, buffer, w, r, data, nin, nout>>

\* A slot nobody wrote, or a byte from beyond the caller's array.
Junk == -1

\* A thread is outside the call, has read the counters once, or is moving
\* bytes, with the steps of the move still to become visible.
Steps == {"copy", "publish"}
Call == [pc : {"idle", "sized", "move"},
         asked : 0 .. MaxLen,    \* the caller's length
         seen : 0 .. Word - 1,   \* room, or fullness, when first evaluated
         len : 0 .. Word - 1,    \* the length moved and returned
         base : 0 .. Word - 1,   \* the call's own counter when it started
         from : Nat,             \* ghost: that counter, not reduced
         todo : SUBSET Steps]
NoCall == [pc |-> "idle", asked |-> 0, seen |-> 0, len |-> 0,
           base |-> 0, from |-> 0, todo |-> {}]

Used == (in - out) % Word
\* (A bug to be caught: one byte too much room.)
FreeOneMore == (size - in + out + 1) % Word

Free == (size - in + out) % Word

\* The slot of the i-th byte of a copy of len bytes that starts at counter c:
\* the first memcpy fills to the end of the ring, the second starts at slot 0.
Slot(c, len, i) ==
  LET pos == c % size
      l   == IF len < size - pos THEN len ELSE size - pos
  IN  IF i < l THEN pos + i ELSE i - l

Init ==
  /\ build \in Builds
  /\ size \in Sizes
  /\ in = 0 /\ out = 0
  /\ buffer = [s \in 0 .. size - 1 |-> Junk]
  /\ w = NoCall /\ r = NoCall
  /\ data = << >>
  /\ nin = 0 /\ nout = 0

\* The second evaluation of min's argument: from memory or from the register.
Again(call, fresh) == IF build.reload THEN fresh ELSE call.seen

Sized(call, fresh) ==
  [call EXCEPT !.pc = "move",
               !.len = IF call.asked < call.seen THEN call.asked
                       ELSE Again(call, fresh),
               !.todo = Steps]

\* One step of a move becomes visible; the call returns after the last.
Done(call, step) ==
  IF call.todo = {step} THEN NoCall ELSE [call EXCEPT !.todo = @ \ {step}]

\* (A bug to be caught: the counter is advanced before the copy.)
MayPublishFirst(call) == "publish" \in call.todo

MayPublish(call) ==
  /\ "publish" \in call.todo
  /\ build.relaxed \/ "copy" \notin call.todo

-----------------------------------------------------------------------------
\* rb_write: size the copy, copy, advance fifo.in.

WriteCall ==
  /\ w.pc = "idle"
  /\ nin < Total
  /\ \E n \in 1 .. MaxLen :
       w' = [NoCall EXCEPT !.pc = "sized", !.asked = n, !.seen = Free,
                           !.base = in, !.from = nin]
  /\ UNCHANGED <<build, size, in, out, buffer, r, data, nin, nout>>

WriteSize ==
  /\ w.pc = "sized"
  /\ w' = Sized(w, Free)
  /\ UNCHANGED <<build, size, in, out, buffer, r, data, nin, nout>>

\* Bytes past the asked length come from beyond the caller's array.
WriteCopy ==
  /\ w.pc = "move" /\ "copy" \in w.todo
  /\ buffer' =
       [s \in 0 .. size - 1 |->
          IF \E i \in 0 .. w.len - 1 : Slot(w.base, w.len, i) = s
          THEN LET i == CHOOSE i \in 0 .. w.len - 1 :
                          Slot(w.base, w.len, i) = s
               IN  IF i < w.asked THEN w.from + i ELSE Junk
          ELSE buffer[s]]
  /\ w' = Done(w, "copy")
  /\ UNCHANGED <<build, size, in, out, r, data, nin, nout>>

\* (A bug to be caught: the counter is advanced by what was asked.)
WritePublishAsked ==
  /\ w.pc = "move" /\ MayPublish(w)
  /\ in' = (in + w.asked) % Word
  /\ nin' = nin + w.len
  /\ w' = Done(w, "publish")
  /\ UNCHANGED <<build, size, out, buffer, r, data, nout>>

WritePublish ==
  /\ w.pc = "move" /\ MayPublish(w)
  /\ in' = (in + w.len) % Word
  /\ nin' = nin + w.len
  /\ w' = Done(w, "publish")
  /\ UNCHANGED <<build, size, out, buffer, r, data, nout>>

-----------------------------------------------------------------------------
\* rb_read: size the copy, copy, advance fifo.out.

ReadCall ==
  /\ r.pc = "idle"
  /\ \E n \in 1 .. MaxLen :
       r' = [NoCall EXCEPT !.pc = "sized", !.asked = n, !.seen = Used,
                           !.base = out, !.from = nout]
  /\ UNCHANGED <<build, size, in, out, buffer, w, data, nin, nout>>

ReadSize ==
  /\ r.pc = "sized"
  /\ r' = Sized(r, Used)
  /\ UNCHANGED <<build, size, in, out, buffer, w, data, nin, nout>>

\* (A bug to be caught: the second memcpy is forgotten.)
ReadCopyUnsplit ==
  /\ r.pc = "move" /\ "copy" \in r.todo
  /\ data' = [i \in 1 .. r.len |->
                IF (r.base % size) + i <= size
                THEN buffer[(r.base % size) + (i - 1)] ELSE Junk]
  /\ r' = Done(r, "copy")
  /\ UNCHANGED <<build, size, in, out, buffer, w, nin, nout>>

ReadCopy ==
  /\ r.pc = "move" /\ "copy" \in r.todo
  /\ data' = [i \in 1 .. r.len |-> buffer[Slot(r.base, r.len, i - 1)]]
  /\ r' = Done(r, "copy")
  /\ UNCHANGED <<build, size, in, out, buffer, w, nin, nout>>

ReadPublish ==
  /\ r.pc = "move" /\ MayPublish(r)
  /\ out' = (out + r.len) % Word
  /\ nout' = nout + r.len
  /\ r' = Done(r, "publish")
  /\ UNCHANGED <<build, size, in, buffer, w, data, nin>>

Next ==
  \/ WriteCall \/ WriteSize \/ WriteCopy \/ WritePublish
  \/ ReadCall \/ ReadSize \/ ReadCopy \/ ReadPublish

Spec == Init /\ [][Next]_vars

-----------------------------------------------------------------------------
(***************************************************************************)
(* Properties                                                              *)
(***************************************************************************)

TypeOK ==
  /\ build \in Builds
  /\ size \in Sizes
  /\ in \in 0 .. Word - 1 /\ out \in 0 .. Word - 1
  /\ buffer \in [0 .. size - 1 -> Nat \cup {Junk}]
  /\ w \in Call /\ r \in Call
  /\ data \in Seq(Nat \cup {Junk})
  /\ nin \in Nat /\ nout \in Nat

\* In every build, the difference of the two wrapping counters is the number
\* of bytes accepted and not yet taken, and never more than the ring holds:
\* rb_get_size_of_already_used and rb_get_size_of_left tell the truth, also
\* across the wrap of `in' and `out'.
CountersTellTheTruth ==
  /\ nout <= nin
  /\ Used = nin - nout
  /\ Used <= size
  /\ Free = size - Used

\* The bytes a copy in flight touches.
Touched(call) ==
  IF call.pc = "move" /\ "copy" \in call.todo
  THEN {Slot(call.base, call.len, i) : i \in 0 .. call.len - 1}
  ELSE {}

\* When the copy is visible before its counter, the two threads never copy to
\* and from the same slot at once, though nothing but the counters keeps
\* them apart.
CopiesAreDisjoint == ~build.relaxed => Touched(w) \cap Touched(r) = {}

\* A build that evaluates min's arguments once moves no more bytes than the
\* caller's array holds.
NeverMoreThanAsked ==
  ~build.reload => \A call \in {w, r} : call.len <= call.asked

\* The comment in rb_write ("calculate the mininum value between the
\* remaining size of fifo buffer and the size of the buffer that needs to be
\* written"), for every build.
LenIsTheMinimum ==
  w.pc = "move" => w.len <= w.asked

Trusted == ~build.reload /\ ~build.relaxed

\* What rb_read copies is the accepted stream, in order and without a gap:
\* once its copy is visible, byte i of the call is the byte at position
\* from + i of the stream.
ReadsTheStream ==
  (Trusted /\ r.todo = {"publish"}) =>
     data = [i \in 1 .. r.len |-> r.from + i - 1]

\* Bytes already copied out by a call that has still to publish them.
Taken == IF r.todo = {"publish"} THEN r.len ELSE 0

\* The ring implements a bounded FIFO channel: its content is what lies in
\* memory between the two counters, less what the reader has copied out.
Channel == INSTANCE ByteFifo WITH
  trusted   <- Trusted,
  capacity  <- size,
  accepted  <- nin,
  queue     <- [i \in 1 .. Used - Taken |-> buffer[(out + Taken + i - 1) % size]],
  delivered <- data

IsAFifo == Channel!Spec

-----------------------------------------------------------------------------
(***************************************************************************)
(* The inductive invariant behind the properties (RingBufProofs).          *)
(***************************************************************************)

\* The words are the counters reduced; the ring never holds more than size.
Counters ==
  /\ in = nin % Word /\ out = nout % Word
  /\ nout <= nin /\ nin - nout <= size

\* What the producer has measured is still there: only it advances `in', and
\* the consumer only makes room.
Producer ==
  /\ w.pc = "idle" => w = NoCall
  /\ w.pc # "idle" => w.base = w.from % Word
  /\ w.pc = "sized" =>
       w.len = 0 /\ w.todo = {} /\ w.from = nin /\ w.seen <= size - (nin - nout)
  /\ w.pc = "move" =>
       /\ w.todo # {}
       /\ w.len <= size /\ w.from + w.len - nout <= size
       /\ nin = IF "publish" \in w.todo THEN w.from ELSE w.from + w.len
       /\ ~build.reload => w.len <= w.asked
       /\ ~build.relaxed => "publish" \in w.todo

\* Dually, only the consumer takes bytes away.
Consumer ==
  /\ r.pc = "idle" => r = NoCall
  /\ r.pc # "idle" => r.base = r.from % Word
  /\ r.pc = "sized" =>
       r.len = 0 /\ r.todo = {} /\ r.from = nout /\ r.seen <= nin - nout
  /\ r.pc = "move" =>
       /\ r.todo # {}
       /\ r.len <= size /\ r.from + r.len <= nin
       /\ nout = IF "publish" \in r.todo THEN r.from ELSE r.from + r.len
       /\ ~build.reload => r.len <= r.asked
       /\ ~build.relaxed => "publish" \in r.todo

\* The slots between the counters, and those the producer has filled but not
\* yet published, hold the stream.
Content ==
  Trusted =>
    /\ \A p \in nout .. nin - 1 : buffer[p % size] = p
    /\ w.todo = {"publish"} =>
         \A p \in w.from .. w.from + w.len - 1 : buffer[p % size] = p

IInv == TypeOK /\ Counters /\ Producer /\ Consumer /\ Content /\ ReadsTheStream
=============================================================================
