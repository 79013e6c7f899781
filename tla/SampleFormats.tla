----------------------------- MODULE SampleFormats -----------------------------
(***************************************************************************)
(* The sample conversions of mp3tools/primitives.c, which a caller may run *)
(* in place: the memory holds `count' samples of one format and ends up    *)
(* holding them in another.  One step converts one sample (or one frame).  *)
(*                                                                         *)
(* A float is a multiple of 2^-32 of any size (the rounding of a 32-bit    *)
(* sample to a float's mantissa is left out); `unit' is what the lowest    *)
(* bit of a format is worth in that.  With bytes of four bits, so that a   *)
(* 32-bit sample fits TLC's integers, every width and every count of       *)
(* fraction bits is half the code's.  A byte of memory is                  *)
(* <<format, value, k>>: the k-th byte of a sample, so that a sample read  *)
(* from bytes of two samples is seen as the garbage it is.                 *)
(***************************************************************************)
EXTENDS Integers, Sequences, FiniteSets

CONSTANTS
  ByteBits,   \* 8, or 4 for TLC
  Samples,    \* how many samples are converted in place
  Inputs,     \* for each format, the samples given
  Channels    \* how many bits a channel mask has

VARIABLES
  copy,    \* the conversion under way: its function, memory and progress
  frame    \* a copy between channel masks: its function, the masks, its progress

B(half, whole) == IF ByteBits = 4 THEN half ELSE whole

u8 == [size |-> 1, unit |-> B(8192, 33554432), high |-> B(7, 127)]    \* stored with an offset
i16 == [size |-> 2, unit |-> B(512, 131072), high |-> B(127, 32767)]
p24 == [size |-> 3, unit |-> B(32, 512), high |-> B(2047, 8388607)]
i32 == [size |-> 4, unit |-> 2, high |-> B(32767, 2147483647)]
q8_23 == [size |-> 4, unit |-> B(32, 512), high |-> B(32767, 2147483647)]
q4_27 == [size |-> 4, unit |-> B(8, 32), high |-> B(32767, 2147483647)]
float == [size |-> 4, unit |-> 1, high |-> 0]    \* without a limit
Formats == {u8, i16, p24, i32, q8_23, q4_27, float}
Unity == i32.unit * (i32.high + 1)                 \* a float of 1.0

\* A sample given is one of its format.
ASSUME SampleFormatsAssumption ==
  /\ ByteBits \in {4, 8} /\ Samples \in Nat /\ Channels \in Nat
  /\ \A f \in Formats : Inputs[f] \subseteq IF f = float THEN Int ELSE (-f.high - 1)..f.high

Limit(v, low, high) == IF v < low THEN low ELSE IF v > high THEN high ELSE v

-----------------------------------------------------------------------------
(***************************************************************************)
(* The value a sample becomes.                                             *)
(***************************************************************************)

Shift(v, from, to) ==
  IF to.unit <= from.unit THEN v * (from.unit \div to.unit) ELSE v \div (to.unit \div from.unit)
\* roundf, and adding a half away from zero before a truncation.
Round(v, to) == LET half == to.unit \div 2
                    up == (IF v < 0 THEN half - v ELSE v + half) \div to.unit
                IN  IF v < 0 THEN -up ELSE up

clamp(v, f) == IF f = float THEN v ELSE Limit(v, -f.high - 1, f.high)
clamp24_from_q8_23(v) == clamp(v, p24)
clamp16_from_float(v) == clamp(Round(v, i16), i16)
clamp24_from_float(v) == clamp(Round(v, p24), p24)
clampq4_27_from_float(v) == clamp(Round(v, q4_27), q4_27)
clamp32_from_float(v) == clamp(Round(v, i32), i32)
\* On the stored byte, which is not negative: a half goes up.
clamp8_from_float(v) == clamp((v + u8.unit \div 2) \div u8.unit, u8)

\* accumulate_u8 works on the stored byte: bit 8 of the sum says that it left
\* the byte, its sign on which side.
sum_u8(a, b) == LET offset == u8.high + 1
                    sum == (a + offset) + (b + offset) - offset
                    out == (sum \div (2 * offset)) % 2 = 1
                IN  (IF out THEN ((-sum - 1) \div (4 * offset)) % (2 * offset) ELSE sum) - offset

Gain == 3    \* in the gains' own fraction of one bit: a factor of 3/2
wrap(v, f) == ((v + f.high + 1) % (2 * (f.high + 1))) - (f.high + 1)

\* The samples one step writes for the samples vs it reads.
Convert(how, vs, from, to) ==
  LET v == vs[1]
  IN  CASE how = "shift" -> << Shift(v, from, to) >>
        [] how = "clamp" -> << clamp(Shift(v, from, to), to) >>
        [] how = "limit24" -> << clamp24_from_q8_23(v) >>
        [] how = "clamp8" -> << clamp8_from_float(v) >>
        [] how = "clamp16" -> << clamp16_from_float(v) >>
        [] how = "clamp24" -> << clamp24_from_float(v) >>
        [] how = "clampq4_27" -> << clampq4_27_from_float(v) >>
        [] how = "clamp32" -> << clamp32_from_float(v) >>
        [] how = "limit" -> << Limit(v, -Unity, Unity) >>
        [] how = "mean" -> << (v + vs[2]) \div 2 >>
        [] how = "twin" -> << v, v >>
        [] how = "gain" -> << clamp((v * Gain) \div 2, to) >>
        [] how = "gain32" -> << wrap((v * Gain) \div 2, to) >>
        [] how = "sum" -> << clamp(v + v, to) >>
        [] how = "sum24" -> << clamp24_from_q8_23(v + v) >>
        [] how = "sum_u8" -> << sum_u8(v, v) >>

-----------------------------------------------------------------------------
(***************************************************************************)
(* The functions: source, destination, what a step does and where it       *)
(* starts.  A function that widens its samples starts at the end.          *)
(***************************************************************************)

Up(to, from, how) == [from |-> from, to |-> to, how |-> how, first |-> "front"]
Down(to, from, how) == [from |-> from, to |-> to, how |-> how, first |-> "back"]

ditherAndClamp == Up(i16, q4_27, "clamp")
memcpy_to_i16_from_q4_27 == Up(i16, q4_27, "clamp")
memcpy_to_i16_from_u8 == Down(i16, u8, "shift")
memcpy_to_u8_from_i16 == Up(u8, i16, "shift")
memcpy_to_u8_from_float == Up(u8, float, "clamp8")
memcpy_to_i16_from_i32 == Up(i16, i32, "shift")
memcpy_to_i16_from_float == Up(i16, float, "clamp16")
memcpy_to_float_from_q4_27 == Up(float, q4_27, "shift")
memcpy_to_float_from_i16 == Down(float, i16, "shift")
memcpy_to_float_from_u8 == Down(float, u8, "shift")
memcpy_to_float_from_p24 == Down(float, p24, "shift")
memcpy_to_i16_from_p24 == Up(i16, p24, "shift")
memcpy_to_i32_from_p24 == Down(i32, p24, "shift")
\* (A bug to be caught: it goes upwards, as most of the others do.)
memcpy_to_p24_from_i16_upwards == Up(p24, i16, "shift")
memcpy_to_p24_from_i16 == Down(p24, i16, "shift")
memcpy_to_p24_from_float == Up(p24, float, "clamp24")
memcpy_to_p24_from_q8_23 == Up(p24, q8_23, "limit24")
memcpy_to_p24_from_i32 == Up(p24, i32, "shift")
memcpy_to_q8_23_from_i16 == Down(q8_23, i16, "shift")
memcpy_to_q8_23_from_float_with_clamp == Up(q8_23, float, "clamp24")
memcpy_to_q8_23_from_p24 == Down(q8_23, p24, "shift")
memcpy_to_q4_27_from_float == Up(q4_27, float, "clampq4_27")
memcpy_to_i16_from_q8_23 == Up(i16, q8_23, "clamp")
memcpy_to_float_from_q8_23 == Up(float, q8_23, "shift")
memcpy_to_i32_from_i16 == Down(i32, i16, "shift")
memcpy_to_i32_from_float == Up(i32, float, "clamp32")
memcpy_to_float_from_i32 == Up(float, i32, "shift")
memcpy_to_float_from_float_with_clamping == Up(float, float, "limit")
downmix_to_mono_i16_from_stereo_i16 == Up(i16, i16, "mean")
upmix_to_stereo_i16_from_mono_i16 == Down(i16, i16, "twin")
downmix_to_mono_float_from_stereo_float == Up(float, float, "mean")
upmix_to_stereo_float_from_mono_float == Down(float, float, "twin")

\* Adding, in place: the buffer to itself.
accumulate_i16 == Up(i16, i16, "sum")
accumulate_u8 == Up(u8, u8, "sum_u8")
accumulate_p24 == Up(p24, p24, "sum24")
accumulate_q8_23 == Up(q8_23, q8_23, "sum24")
accumulate_i32 == Up(i32, i32, "sum")
accumulate_float == Up(float, float, "sum")

aml_pcm_gain_do_execute_16bit == Up(i16, i16, "gain")
\* Its limits are compared with the product cut to 32 bits, which never exceeds
\* them: what does not fit wraps.
aml_pcm_gain_do_execute_32bit == Up(i32, i32, "gain32")
Gains == {aml_pcm_gain_do_execute_16bit, aml_pcm_gain_do_execute_32bit}

\* In the order of the source.
Conversions ==
  {ditherAndClamp, memcpy_to_i16_from_q4_27, memcpy_to_i16_from_u8, memcpy_to_u8_from_i16,
   memcpy_to_u8_from_float, memcpy_to_i16_from_i32, memcpy_to_i16_from_float,
   memcpy_to_float_from_q4_27, memcpy_to_float_from_i16, memcpy_to_float_from_u8,
   memcpy_to_float_from_p24, memcpy_to_i16_from_p24, memcpy_to_i32_from_p24}
FurtherConversions ==
  {memcpy_to_p24_from_i16, memcpy_to_p24_from_float, memcpy_to_p24_from_q8_23,
   memcpy_to_p24_from_i32, memcpy_to_q8_23_from_i16, memcpy_to_q8_23_from_float_with_clamp,
   memcpy_to_q8_23_from_p24, memcpy_to_q4_27_from_float, memcpy_to_i16_from_q8_23,
   memcpy_to_float_from_q8_23, memcpy_to_i32_from_i16, memcpy_to_i32_from_float,
   memcpy_to_float_from_i32, memcpy_to_float_from_float_with_clamping}
Mixes ==
  {downmix_to_mono_i16_from_stereo_i16, upmix_to_stereo_i16_from_mono_i16,
   downmix_to_mono_float_from_stereo_float, upmix_to_stereo_float_from_mono_float}
Accumulations ==
  {accumulate_i16, accumulate_u8, accumulate_p24, accumulate_q8_23, accumulate_i32,
   accumulate_float}
Functions ==
  Conversions \cup FurtherConversions \cup Mixes \cup Accumulations \cup Gains

-----------------------------------------------------------------------------
(***************************************************************************)
(* Converting in place.                                                    *)
(***************************************************************************)

Takes(fn) == IF fn.how = "mean" THEN 2 ELSE 1
Gives(fn) == IF fn.how = "twin" THEN 2 ELSE 1
Steps(fn) == Samples \div Takes(fn)

\* Memory that holds these samples from its start on.
Stored(vs, f) ==
  [p \in 1..(Len(vs) * f.size) |-> <<f, vs[(p - 1) \div f.size + 1], ((p - 1) % f.size) + 1>>]
\* A torn sample reads as 0.
Load(mem, at, f) ==
  LET v == mem[at + 1][2]
  IN  IF \A k \in 1..f.size : mem[at + k] = <<f, v, k>> THEN v ELSE 0
Overwrite(mem, at, bytes) ==
  [p \in DOMAIN mem |-> IF p - at \in DOMAIN bytes THEN bytes[p - at] ELSE mem[p]]

Room(fn) == Samples * (IF Gives(fn) * fn.to.size > fn.from.size
                       THEN Gives(fn) * fn.to.size ELSE fn.from.size)
Start(fn, vs) ==
  [fn |-> fn, given |-> vs, done |-> 0,
   mem |-> [p \in 1..Room(fn) |->
              IF p <= Samples * fn.from.size THEN Stored(vs, fn.from)[p] ELSE <<fn.to, 0, 0>>]]
CopyInit ==
  copy \in UNION {{Start(fn, vs) : vs \in [1..Samples -> Inputs[fn.from]]} : fn \in Functions}
CopyDone == copy.done = Steps(copy.fn)

CopyStep ==
  LET fn == copy.fn
      n == IF fn.first = "front" THEN copy.done ELSE Steps(fn) - 1 - copy.done
      vs == [i \in 1..Takes(fn) |->
               Load(copy.mem, (n * Takes(fn) + i - 1) * fn.from.size, fn.from)]
  IN
  /\ copy.done < Steps(fn)
  /\ copy' = [copy EXCEPT
       !.mem = Overwrite(copy.mem, n * Gives(fn) * fn.to.size,
                         Stored(Convert(fn.how, vs, fn.from, fn.to), fn.to)),
       !.done = copy.done + 1]
  /\ UNCHANGED frame

-----------------------------------------------------------------------------
(***************************************************************************)
(* Copying a frame between channel masks, from one memory to another.  A   *)
(* mask is the set of its bits; a frame has a sample per bit, the lowest   *)
(* first, and the source's n-th sample is n.  0 is silence.                *)
(*                                                                         *)
(* "mask" is memcpy_by_channel_mask; the others fill an array of indices   *)
(* of at most `idxcount' elements, with which memcpy_by_index_array copies *)
(* the frame.  One step of a loop is an action.                            *)
(***************************************************************************)

Masks == SUBSET (0..(Channels - 1))
FrameStart(fn, dst, src, idxcount) ==
  [fn |-> fn, dst |-> dst, src |-> src, idxcount |-> idxcount, left |-> dst \cup src, at |-> 0,
   out |-> << >>, returned |-> 0, done |-> FALSE]
FrameInit ==
  \E fn \in {"mask", "index", "src_index", "dst_index"}, dst, src \in Masks,
     idxcount \in 0..Channels : frame = FrameStart(fn, dst, src, idxcount)

\* The lowest bit left of the two masks: x is put out for a channel of both.
NextBit(x, silence) ==
  \E bit \in frame.left :
    /\ \A other \in frame.left : bit <= other
    /\ frame' = [frame EXCEPT
         !.left = frame.left \ {bit},
         !.at = IF bit \in frame.src THEN frame.at + 1 ELSE frame.at,
         !.out = IF bit \notin frame.dst THEN frame.out
                 ELSE Append(frame.out, IF bit \in frame.src THEN x ELSE silence)]

copy_frame_by_mask ==
  /\ frame.fn = "mask" /\ ~frame.done /\ frame.dst # frame.src
  /\ NextBit(frame.at + 1, 0)
memcpy_by_channel_mask ==
  /\ frame.fn = "mask" /\ ~frame.done /\ (frame.dst = frame.src \/ frame.left = {})
  /\ frame' = [frame EXCEPT !.done = TRUE, !.returned = Cardinality(frame.dst),
       !.out = IF frame.dst = frame.src THEN [i \in 1..Cardinality(frame.dst) |-> i]
               ELSE frame.out]

memcpy_by_index_array_initialization ==
  /\ frame.fn = "index" /\ ~frame.done /\ Len(frame.out) < frame.idxcount
  /\ NextBit(frame.at, -1)

\* The masks with an index mask on one side: the i-th bit there is the i-th
\* channel here.
Filling == Len(frame.out) < Cardinality(frame.dst) /\ Len(frame.out) < frame.idxcount
memcpy_by_index_array_initialization_src_index ==
  LET bit == Len(frame.out) IN
  /\ frame.fn = "src_index" /\ ~frame.done /\ Filling
  /\ frame' = [frame EXCEPT
       !.at = IF bit \in frame.src THEN frame.at + 1 ELSE frame.at,
       !.out = Append(frame.out, IF bit \in frame.src THEN frame.at ELSE -1)]
memcpy_by_index_array_initialization_dst_index ==
  LET bit == frame.at IN
  /\ frame.fn = "dst_index" /\ ~frame.done /\ Filling
  /\ frame' = [frame EXCEPT
       !.at = frame.at + 1,
       !.out = IF bit \notin frame.dst THEN frame.out
               ELSE Append(frame.out, IF bit < Cardinality(frame.src) THEN bit ELSE -1)]

\* The array is filled, and copies the channels it has.
memcpy_by_index_array ==
  /\ frame.fn # "mask" /\ ~frame.done
  /\ IF frame.fn = "index" THEN frame.left = {} \/ Len(frame.out) >= frame.idxcount ELSE ~Filling
  /\ frame' = [frame EXCEPT
       !.done = TRUE,
       !.returned = CASE frame.fn = "index" ->
                           Len(frame.out) + Cardinality(frame.left \cap frame.dst)
                      [] frame.fn # "index" /\ frame.idxcount = 0 -> Cardinality(frame.dst)
                      [] OTHER -> Len(frame.out),
       !.out = [i \in DOMAIN frame.out |-> IF frame.out[i] < 0 THEN 0 ELSE frame.out[i] + 1]]

FrameStep ==
  /\ \/ copy_frame_by_mask \/ memcpy_by_channel_mask
     \/ memcpy_by_index_array_initialization
     \/ memcpy_by_index_array_initialization_src_index
     \/ memcpy_by_index_array_initialization_dst_index
     \/ memcpy_by_index_array
  /\ UNCHANGED copy

\* Nothing to convert: neither under way nor done.
CopyIdle == copy = [fn |-> accumulate_i16, given |-> << >>, done |-> Samples + 1, mem |-> << >>]
FrameIdle == frame = [FrameStart("mask", {}, {}, 0) EXCEPT !.done = TRUE]

-----------------------------------------------------------------------------
(***************************************************************************)
(* Property.                                                               *)
(***************************************************************************)

\* What a step should yield, in units of a float and before it is limited to
\* what the destination can hold.  (Of the 32-bit gain, what does not fit is
\* what it is after the wrap.)
TooLoud(x, f) == x < (-f.high - 1) * f.unit \/ x >= (f.high + 1) * f.unit
Wrapped(x, f) == IF TooLoud(x, f) THEN wrap(x \div f.unit, f) * f.unit ELSE x
Ideal(fn, vs) ==
  LET v == vs[1] * fn.from.unit
  IN  CASE fn.how = "mean" -> ((vs[1] + vs[2]) * fn.from.unit) \div 2
        [] fn.how = "limit" -> Limit(v, -Unity, Unity)
        [] fn.how = "gain" -> (v * Gain) \div 2
        [] fn.how = "gain32" -> Wrapped((v * Gain) \div 2, fn.to)
        [] fn.how \in {"sum", "sum24", "sum_u8"} -> 2 * v
        [] OTHER -> v

\* Within one step of the new format.  The functions with guard bits in their
\* result limit it to 24 bits.
Near(x, ideal, fn) ==
  LET unit == fn.to.unit
      f == IF fn.how \in {"clamp24", "sum24"} THEN p24 ELSE fn.to
      limited == IF f = float THEN ideal ELSE Limit(ideal, (-f.high - 1) * unit, f.high * unit)
  IN  -unit <= x * unit - limited /\ x * unit - limited <= unit

\* The samples that step n converts.
Group(n) == [i \in 1..Takes(copy.fn) |-> copy.given[n * Takes(copy.fn) + i]]

KeepsSamples ==
  CopyDone => \A n \in 0..(Steps(copy.fn) - 1), i \in 1..Gives(copy.fn) :
    LET fn == copy.fn IN
    Near(Load(copy.mem, (n * Gives(fn) + i - 1) * fn.to.size, fn.to), Ideal(fn, Group(n)), fn)

\* A bit's place in its mask, and the source channel that belongs there.
Below(mask, bit) == {b \in mask : b < bit}
Place(mask, bit) == Cardinality(Below(mask, bit)) + 1
Channel(bit) ==
  LET i == Place(frame.dst, bit) - 1 IN
  CASE frame.fn \in {"mask", "index"} -> IF bit \in frame.src THEN Place(frame.src, bit) ELSE 0
    [] frame.fn = "src_index" -> IF i \in frame.src THEN Place(frame.src, i) ELSE 0
    [] frame.fn = "dst_index" -> IF bit < Cardinality(frame.src) THEN bit + 1 ELSE 0

KeepsChannels ==
  frame.done =>
    /\ Len(frame.out) = IF frame.fn = "mask" \/ frame.idxcount > Cardinality(frame.dst)
                        THEN Cardinality(frame.dst) ELSE frame.idxcount
    /\ \A bit \in frame.dst :
         Place(frame.dst, bit) <= Len(frame.out) => frame.out[Place(frame.dst, bit)] = Channel(bit)
    /\ frame.fn = "index" \/ frame.idxcount \notin 1..(Cardinality(frame.dst) - 1)
         => frame.returned = Cardinality(frame.dst)

\* primitives.h promises that the conversions work in place.  Whatever the
\* widths and the order of the loop, every sample comes out as itself to one
\* step of the new format, at the limit when it does not fit; never torn by a
\* neighbour or moved, nor wrapped but for what the 32-bit gain makes too loud.
\* Between channel masks, and however short the array of indices, a channel of
\* the destination gets the source's that belongs to it, or silence; and the
\* caller learns how many elements the array needs (of the two functions for
\* index masks, when they have 0 or enough).
KeepsEverySample == KeepsSamples /\ KeepsChannels

-----------------------------------------------------------------------------
(***************************************************************************)
(* Inductive invariants.  Half way through a conversion every group of     *)
(* samples is either whole as it was given, at its old place, or converted *)
(* and whole at its new one.                                               *)
(***************************************************************************)

Holds(at, vs, f) ==
  \A i \in DOMAIN vs, k \in 1..f.size : copy.mem[(at + i - 1) * f.size + k] = <<f, vs[i], k>>
Converted(n) ==
  IF copy.fn.first = "front" THEN n < copy.done ELSE n >= Steps(copy.fn) - copy.done

CopyIInv ==
  /\ copy.done \in Nat /\ DOMAIN copy = {"fn", "given", "done", "mem"}
  /\ copy.done <= Steps(copy.fn) =>
       LET fn == copy.fn IN
       /\ fn \in Functions /\ copy.given \in [1..Samples -> Inputs[fn.from]]
       /\ DOMAIN copy.mem = 1..Room(fn)
       /\ \A n \in 0..(Steps(fn) - 1) :
            IF Converted(n)
            THEN Holds(n * Gives(fn), Convert(fn.how, Group(n), fn.from, fn.to), fn.to)
            ELSE Holds(n * Takes(fn), Group(n), fn.from)

\* Each element put out so far is the channel that belongs there.
Filled ==
  \A bit \in frame.dst : Place(frame.dst, bit) <= Len(frame.out) =>
    frame.out[Place(frame.dst, bit)] = Channel(bit) - IF frame.fn = "mask" THEN 0 ELSE 1

\* The elements put out so far are the lowest channels of the destination, and
\* `at' is the number of source channels passed.
FrameTypeOK ==
  frame \in [fn : {"mask", "index", "src_index", "dst_index"}, dst : Masks, src : Masks,
             idxcount : Nat, left : Masks, at : Nat, out : Seq(Int), returned : Nat, done : BOOLEAN]
FrameIInv ==
  /\ FrameTypeOK
  /\ frame.done => KeepsChannels
  /\ ~frame.done =>
       /\ frame.fn = "mask" \/ Len(frame.out) <= frame.idxcount
       /\ Filled
       /\ CASE frame.fn \in {"mask", "index"} ->
                 /\ frame.left \subseteq frame.dst \cup frame.src
                 /\ \A bit \in (frame.dst \cup frame.src) \ frame.left, other \in frame.left : bit < other
                 /\ Len(frame.out) = Cardinality(frame.dst \ frame.left)
                 /\ frame.at = Cardinality(frame.src \ frame.left)
            [] frame.fn = "src_index" ->
                 /\ frame.at = Cardinality(Below(frame.src, Len(frame.out)))
                 /\ Len(frame.out) <= Cardinality(frame.dst)
            [] frame.fn = "dst_index" ->
                 Len(frame.out) = Cardinality(Below(frame.dst, frame.at))
=============================================================================
