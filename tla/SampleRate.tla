------------------------------- MODULE SampleRate -------------------------------
(***************************************************************************)
(* The sample rate converter AML_SRCS16LE (aml_audio_util.c) and the       *)
(* programs that feed it a stream in chunks.  It interpolates linearly     *)
(* between two samples of the input and carries the last sample of a chunk *)
(* and its two positions over to the next; from 16 to 8 kHz it filters the *)
(* input first, through a ring of old samples.  One channel, which is what *)
(* both callers give it: with more the filter takes only the first of the  *)
(* chunk's samples, all channels through one history, and Exec reads on.   *)
(***************************************************************************)
EXTENDS Integers, Sequences, SequencesExt, FiniteSetsExt

CONSTANTS
  Rates,      \* the pairs <<in_rate, out_rate>> asked for
  Chunks,     \* the sizes a chunk may have
  Input,      \* the stream, a sequence of samples
  Filtered    \* the pairs that are filtered

ASSUME SampleRateAssumption ==
  /\ Rates \subseteq (Nat \ {0}) \X (Nat \ {0})
  /\ Chunks \subseteq Nat \ {0}
  /\ Input \in Seq(Int)

VARIABLE src

filter_taps == <<1, 2, 1>>      \* the code has 51, symmetric as these
TapNum == Len(filter_taps)

\* Division as C has it, towards zero.
Quotient(a, b) == IF a < 0 THEN -((-a) \div b) ELSE a \div b

linear_interp(a, b, num, den) == a + Quotient((b - a) * num + den \div 2, den)
gcd(a, b) == Max({d \in 1..a : a % d = 0 /\ b % d = 0})

SampleFilter_init == [history |-> [i \in 0..(TapNum - 1) |-> 0], last_index |-> 0]
SampleFilter_put(f, input) ==
  [history |-> [f.history EXCEPT ![f.last_index] = input],
   last_index |-> (f.last_index + 1) % TapNum]
\* Samples, the newest first, weighted by the taps.
Weighted(x) ==
  FoldLeft(LAMBDA acc, i : acc + x[i] * filter_taps[i], 0, [i \in 1..TapNum |-> i])
SampleFilter_get(f) ==
  Weighted([i \in 1..TapNum |-> f.history[(f.last_index - i) % TapNum]])

AML_SRCS16LE_Init(rate) ==
  LET g == gcd(rate[1], rate[2])
  IN  [in_rate |-> rate[1] \div g, out_rate |-> rate[2] \div g,
       in_base |-> 0, out_base |-> 0, last |-> 0,
       bEnableFir |-> rate \in Filtered, f |-> SampleFilter_init,
       out |-> << >>, asserted |-> FALSE]
SrcInit == \E rate \in Rates : src = AML_SRCS16LE_Init(rate)
\* Nothing to convert.
SrcIdle == src = [AML_SRCS16LE_Init(<<1, 1>>) EXCEPT !.asserted = TRUE]

\* The filter after each sample of a chunk.
Fed(f, chunk) ==
  LET fed[n \in 0..Len(chunk)] ==
        IF n = 0 THEN f ELSE SampleFilter_put(fed[n - 1], chunk[n])
  IN  fed

\* Output frame i lies behind input sample Before(i), at Phase(i) out of out_rate.
Before(i) == (i * src.in_rate) \div src.out_rate
Phase(i) == (i * src.in_rate) % src.out_rate

\* (A bug to be caught: the first sample of the chunk.)
FirstOf(signal) == signal[1]
LastOf(signal) == signal[Len(signal)]

\* The frames up to `joint' lie between the last chunk and this one, those up to
\* `end' in this one; only the latter are checked against the caller's room.
AML_SRCS16LE_Exec(dst_frame, chunk) ==
  LET fed == Fed(src.f, chunk)
      signal == IF src.bEnableFir THEN [n \in 1..Len(chunk) |-> SampleFilter_get(fed[n])]
                ELSE chunk
      Reach == src.out_base..((src.in_base + Len(chunk) + 1) * src.out_rate)
      joint == Min({i \in Reach : Before(i) >= src.in_base})
      end == Min({i \in Reach : i >= joint /\ (Before(i) - src.in_base) + 1 >= Len(chunk)})
      Frame(i) == LET j == Before(i) - src.in_base IN
        IF i < joint THEN linear_interp(src.last, signal[1], Phase(i), src.out_rate)
        ELSE linear_interp(signal[j + 1], signal[j + 2], Phase(i), src.out_rate)
  IN
  src' = [src EXCEPT
    !.asserted = src.asserted
                 \/ (\E i \in src.out_base..(joint - 1) : Before(i) + 1 # src.in_base)
                 \/ (\E i \in joint..(end - 1) : i >= src.out_base + dst_frame),
    !.out = src.out \o [n \in 1..(end - src.out_base) |-> Frame(src.out_base + n - 1)],
    !.f = IF src.bEnableFir THEN fed[Len(chunk)] ELSE src.f,
    !.out_base = end, !.in_base = src.in_base + Len(chunk), !.last = LastOf(signal)]

\* aml_s16leresampler, voip_receiver: the room is the chunk's size in frames
\* of the new rate, rounded down.  (Of what they do with the frames nothing is
\* modelled: both then write the whole room to their file, so that after a chunk
\* that gave fewer frames, the rest is what was in the buffer before.)
SrcNext == \E n \in Chunks :
  /\ src.in_base + n <= Len(Input) /\ ~src.asserted
  /\ AML_SRCS16LE_Exec((n * src.out_rate) \div src.in_rate,
                       SubSeq(Input, src.in_base + 1, src.in_base + n))

-----------------------------------------------------------------------------
\* Sample n of the input, filtered as a whole where it is.
Past(n) == [i \in 1..TapNum |-> IF n >= i THEN Input[n - i + 1] ELSE 0]
Signal(n) == IF src.bEnableFir THEN Weighted(Past(n)) ELSE Input[n]

\* Frame i of the stream in one piece.
Whole(i) == linear_interp(Signal(Before(i) + 1), Signal(Before(i) + 2), Phase(i), src.out_rate)

\* However the stream is cut into chunks, the converter's output is the one it
\* would give for the stream in one piece: every frame between the two samples
\* it lies between, none missing or doubled where two chunks meet.
ChunksDoNotMatter ==
  /\ Len(src.out) = Cardinality({i \in 0..(Len(Input) * src.out_rate) :
                                   Before(i) + 1 < src.in_base})
  /\ \A i \in 0..(Len(src.out) - 1) : src.out[i + 1] = Whole(i)

-----------------------------------------------------------------------------
(***************************************************************************)
(* The inductive invariant.                                                *)
(***************************************************************************)

SrcTypeOK ==
  /\ src = [in_rate |-> src.in_rate, out_rate |-> src.out_rate, in_base |-> src.in_base,
            out_base |-> src.out_base, last |-> src.last, bEnableFir |-> src.bEnableFir,
            f |-> src.f, out |-> src.out, asserted |-> src.asserted]
  /\ src.in_rate \in Nat \ {0} /\ src.out_rate \in Nat \ {0}
  /\ src.in_base \in 0..Len(Input) /\ src.out_base \in Nat

\* The next frame is the first that needs a sample of the next chunk.
NextFrame ==
  /\ Before(src.out_base) + 1 >= src.in_base
  /\ \A i \in 0..(src.out_base - 1) : Before(i) + 1 < src.in_base

\* A filter that has had n samples holds the last of them.
Remembers(f, n) ==
  /\ f = [history |-> f.history, last_index |-> n % TapNum]
  /\ f.history = [k \in 0..(TapNum - 1) |-> f.history[k]]
  /\ \A i \in 1..TapNum : f.history[(n - i) % TapNum] = Past(n)[i]

SrcIInv ==
  /\ SrcTypeOK /\ NextFrame
  /\ src.out = [n \in 1..src.out_base |-> Whole(n - 1)]
  /\ src.in_base > 0 => src.last = Signal(src.in_base)
  /\ src.bEnableFir => Remembers(src.f, src.in_base)
=============================================================================
