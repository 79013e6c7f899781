---------------------------- MODULE WavFileProofs ----------------------------
(***************************************************************************)
(* What is written to a WAV file is what is read back from it, for all     *)
(* formats, channels and numbers of frames, beside the parts that Host     *)
(* composes.  What is being written holds the samples given, what is being *)
(* opened is known up to the chunk read, and what is being read has yielded*)
(* whole frames (WavIInv).                                                 *)
(***************************************************************************)
EXTENDS HostProofs

-----------------------------------------------------------------------------
(***************************************************************************)
(* WavFile: the samples.  An eighth is an eighth in every format.          *)
(***************************************************************************)

WavFormats == {u8, i16, p24, i32, float}

LEMMA SubIs ==
  ASSUME NEW sub \in DOMAIN Sub
  PROVE  Sub[sub] \in WavFormats /\ Sub[sub].size \in 1..4 /\ Sub[sub] \in Formats
<1>1. sub \in {"PCM_U8", "PCM_16", "PCM_24", "PCM_32", "FLOAT"}
  BY DEF Sub
<1>2. Sub[sub] \in WavFormats /\ Sub[sub].size \in 1..4
  BY <1>1 DEF Sub, WavFormats, u8, i16, p24, i32, float
<1> QED
  BY <1>2 DEF WavFormats, Formats

LEMMA TypeIs ==
  ASSUME NEW type \in DOMAIN Type
  PROVE  Type[type] \in WavFormats
BY DEF Type, WavFormats

LEMMA ValueIs ==
  ASSUME NEW f \in WavFormats, NEW k \in -8..7
  PROVE  Value(k, f) \in Int /\ Number(Value(k, f), f) = k
<1>1. CASE ByteBits = 4
  BY <1>1 DEF WavFormats, Value, Number, Eighth, B, u8, i16, p24, i32, float
<1>2. CASE ByteBits = 8
  BY <1>2 DEF WavFormats, Value, Number, Eighth, B, u8, i16, p24, i32, float
<1> QED
  BY <1>1, <1>2, SampleFormatsAssumption

LEMMA ShiftPasses ==
  ASSUME NEW from \in WavFormats, NEW to \in WavFormats, NEW k \in -8..7
  PROVE  Shift(Value(k, from), from, to) = Value(k, to)
<1>1. CASE ByteBits = 4
  BY <1>1 DEF WavFormats, Shift, Value, Eighth, B, u8, i16, p24, i32, float
<1>2. CASE ByteBits = 8
  BY <1>2 DEF WavFormats, Shift, Value, Eighth, B, u8, i16, p24, i32, float
<1> QED
  BY <1>1, <1>2, SampleFormatsAssumption

LEMMA RoundPasses ==
  ASSUME NEW to \in {i16, i32}, NEW k \in -8..7
  PROVE  clamp(Round(Value(k, float), to), to) = Value(k, to)
<1>1. CASE ByteBits = 4
  BY <1>1 DEF Round, clamp, Limit, Value, Eighth, B, i16, i32, float
<1>2. CASE ByteBits = 8
  BY <1>2 DEF Round, clamp, Limit, Value, Eighth, B, i16, i32, float
<1> QED
  BY <1>1, <1>2, SampleFormatsAssumption

\* What the three kinds of conversion here make of a sample.
LEMMA ApplyIs ==
  ASSUME NEW c, NEW v
  PROVE  /\ c.how = "shift" => Apply(c, v) = Shift(v, c.from, c.to)
         /\ c.how = "clamp16" => Apply(c, v) = clamp(Round(v, i16), i16)
         /\ c.how = "clamp32" => Apply(c, v) = clamp(Round(v, i32), i32)
<1>1. c.how = "shift" => Convert(c.how, <<v>>, c.from, c.to) = <<Shift(v, c.from, c.to)>>
  BY DEF Convert
<1>2. c.how = "clamp16" =>
        Convert(c.how, <<v>>, c.from, c.to) = <<clamp(Round(v, i16), i16)>>
  BY DEF Convert, clamp16_from_float
<1>3. c.how = "clamp32" =>
        Convert(c.how, <<v>>, c.from, c.to) = <<clamp(Round(v, i32), i32)>>
  BY DEF Convert, clamp32_from_float
<1> QED
  BY <1>1, <1>2, <1>3 DEF Apply

Passes(c, from, to) ==
  /\ c.from = from /\ c.to = to
  /\ \/ c.how = "shift"
     \/ c.how = "clamp16" /\ from = float /\ to = i16
     \/ c.how = "clamp32" /\ from = float /\ to = i32

LEMMA EighthsPass ==
  ASSUME NEW from \in WavFormats, NEW to \in WavFormats, NEW c, Passes(c, from, to),
         NEW k \in -8..7
  PROVE  Apply(c, Value(k, from)) = Value(k, to)
<1>1. CASE c.how = "shift"
  BY <1>1, ApplyIs, ShiftPasses DEF Passes
<1>2. CASE c.how = "clamp16" /\ from = float /\ to = i16
  BY <1>2, ApplyIs, RoundPasses
<1>3. CASE c.how = "clamp32" /\ from = float /\ to = i32
  BY <1>3, ApplyIs, RoundPasses
<1> QED
  BY <1>1, <1>2, <1>3 DEF Passes

LEMMA ReadersPass ==
  ASSUME NEW type \in DOMAIN Type, NEW sub \in DOMAIN Readers[type]
  PROVE  sub \in DOMAIN Sub /\ Passes(Readers[type][sub], Sub[sub], Type[type])
<1>1. CASE type = "short"
  <2>1. Readers[type] = sf_readf_short /\ Type[type] = i16
    BY <1>1 DEF Readers, Type
  <2> QED
    BY <2>1 DEF sf_readf_short, Sub, Passes, Same, Up, Down, memcpy_to_i16_from_u8,
           memcpy_to_i16_from_i32, memcpy_to_i16_from_float, memcpy_to_i16_from_p24
<1>2. CASE type = "float"
  <2>1. Readers[type] = sf_readf_float /\ Type[type] = float
    BY <1>2 DEF Readers, Type
  <2> QED
    BY <2>1 DEF sf_readf_float, Sub, Passes, Same, Up, Down, memcpy_to_float_from_i16,
           memcpy_to_float_from_i32, memcpy_to_float_from_p24
<1>3. CASE type = "int"
  <2>1. Readers[type] = sf_readf_int /\ Type[type] = i32
    BY <1>3 DEF Readers, Type
  <2> QED
    BY <2>1 DEF sf_readf_int, Sub, Passes, Same, Up, Down, memcpy_to_i32_from_i16,
           memcpy_to_i32_from_float, memcpy_to_i32_from_p24
<1> QED
  BY <1>1, <1>2, <1>3 DEF Type

LEMMA WritersPass ==
  ASSUME NEW type \in DOMAIN Type, NEW sub \in DOMAIN Writers[type]
  PROVE  sub \in DOMAIN Sub /\ Passes(Writers[type][sub], Type[type], Sub[sub])
<1>1. CASE type = "short"
  <2>1. Writers[type] = sf_writef_short /\ Type[type] = i16
    BY <1>1 DEF Writers, Type
  <2> QED
    BY <2>1 DEF sf_writef_short, Sub, Passes, Same, Up, Down, memcpy_to_u8_from_i16,
           memcpy_to_float_from_i16
<1>2. CASE type = "float"
  <2>1. Writers[type] = sf_writef_float /\ Type[type] = float
    BY <1>2 DEF Writers, Type
  <2> QED
    BY <2>1 DEF sf_writef_float, Sub, Passes, Same, Up, Down, memcpy_to_i16_from_float
<1>3. CASE type = "int"
  <2>1. Writers[type] = sf_writef_int /\ Type[type] = i32
    BY <1>3 DEF Writers, Type
  <2> QED
    BY <2>1 DEF sf_writef_int, Sub, Passes, Same, Up, Down
<1> QED
  BY <1>1, <1>2, <1>3 DEF Type

LEMMA WavByteIs ==
  ASSUME NEW b \in WavByte
  PROVE  \E g \in Formats, k \in -8..7, j \in 1..4 : b = <<g, Value(k, g), j>>
BY DEF WavByte

\* A sample read from a file's bytes is an eighth, be it whole or torn.
LEMMA EighthIsRead ==
  ASSUME NEW bytes \in Seq(WavByte), NEW f \in WavFormats, f.size \in 1..4, NEW at \in Nat,
         at + f.size <= Len(bytes)
  PROVE  \E k \in -8..7 : Load(bytes, at, f) = Value(k, f)
<1> DEFINE v == bytes[at + 1][2]
<1>1. CASE \A k \in 1..f.size : bytes[at + k] = <<f, v, k>>
  <2>1. at + 1 \in 1..Len(bytes) /\ 1 \in 1..f.size
    OBVIOUS
  <2>2. bytes[at + 1] \in WavByte
    BY <2>1, ElementOfSeq
  <2>3. PICK g \in Formats, k \in -8..7, j \in 1..4 : bytes[at + 1] = <<g, Value(k, g), j>>
    BY <2>2, WavByteIs
  <2>4. bytes[at + 1] = <<f, v, 1>>
    BY <1>1, <2>1
  <2>5. g = f /\ v = Value(k, g)
    BY <2>3, <2>4
  <2> QED
    BY <1>1, <2>5 DEF Load
<1>2. CASE ~\A k \in 1..f.size : bytes[at + k] = <<f, v, k>>
  <2>1. Load(bytes, at, f) = 0
    BY <1>2 DEF Load
  <2>2. Value(0, f) = 0
    <3>1. Eighth \div f.unit \in Int
      BY SampleFormatsAssumption DEF WavFormats, Eighth, B, u8, i16, p24, i32, float
    <3> QED
      BY <3>1 DEF Value
  <2> QED
    BY <2>1, <2>2
<1> QED
  BY <1>1, <1>2

-----------------------------------------------------------------------------
(***************************************************************************)
(* WavFile: the chunks.                                                    *)
(***************************************************************************)

\* ChunkEnds is what it says: the function it is chosen from exists.
LEMMA ChunkEndsAre ==
  ASSUME NEW chunks, Len(chunks) \in Nat
  PROVE  /\ ChunkEnds(chunks)[0] = 4
         /\ \A n \in 1..Len(chunks) :
              ChunkEnds(chunks)[n] = ChunkEnds(chunks)[n - 1] + 8 + chunks[n].size
<1> DEFINE L == Len(chunks)
           Is(g, m) == g = [n \in 0..m |-> IF n = 0 THEN 4 ELSE g[n - 1] + 8 + chunks[n].size]
           Wrong == {m \in Nat : ~\E g : Is(g, m)}
<1>1. Wrong = {}
  <2> SUFFICES ASSUME Wrong # {}
               PROVE  FALSE
    OBVIOUS
  <2>1. Wrong \subseteq Nat
    OBVIOUS
  <2>2. PICK m \in Wrong : \A x \in Wrong : m <= x
    <3> HIDE DEF Wrong
    <3> QED
      BY <2>1, LeastExists
  <2>3. m \in Nat /\ ~\E g : Is(g, m)
    BY <2>2
  <2>4. CASE m = 0
    <3> DEFINE g0 == [n \in 0..0 |-> 4]
    <3>1. Is(g0, 0)
      OBVIOUS
    <3> QED
      BY <2>3, <2>4, <3>1
  <2>5. CASE m # 0
    <3>1. m - 1 \in Nat /\ m - 1 \notin Wrong
      BY <2>2, <2>3, <2>5
    <3>2. PICK g : Is(g, m - 1)
      BY <3>1
    <3> DEFINE h == [n \in 0..m |-> IF n < m THEN g[n] ELSE g[m - 1] + 8 + chunks[m].size]
    <3>3. \A n \in 0..m : h[n] = IF n = 0 THEN 4 ELSE h[n - 1] + 8 + chunks[n].size
      <4> SUFFICES ASSUME NEW n \in 0..m
                   PROVE  h[n] = IF n = 0 THEN 4 ELSE h[n - 1] + 8 + chunks[n].size
        OBVIOUS
      <4>1. CASE n = m
        <5>1. n # 0 /\ n - 1 \in 0..m /\ n - 1 < m
          BY <2>3, <2>5, <4>1
        <5>2. h[n - 1] = g[n - 1]
          BY <5>1
        <5>3. h[n] = g[m - 1] + 8 + chunks[m].size
          BY <2>3, <4>1
        <5> QED
          BY <4>1, <5>1, <5>2, <5>3
      <4>2. CASE n # m
        <5>1. n < m /\ n \in 0..(m - 1)
          BY <2>3, <4>2
        <5>2. h[n] = g[n]
          BY <5>1
        <5>3. g[n] = IF n = 0 THEN 4 ELSE g[n - 1] + 8 + chunks[n].size
          BY <3>2, <5>1
        <5>4. n # 0 => h[n - 1] = g[n - 1]
          <6>1. n # 0 => n - 1 \in 0..m /\ n - 1 < m
            BY <2>3, <5>1
          <6> QED
            BY <6>1
        <5> QED
          BY <5>2, <5>3, <5>4
      <4> QED
        BY <4>1, <4>2
    <3>4. h = [n \in 0..m |-> h[n]]
      OBVIOUS
    <3> HIDE DEF h
    <3>5. Is(h, m)
      BY <3>3, <3>4
    <3> QED
      BY <2>3, <3>5
  <2> QED
    BY <2>4, <2>5
<1>2. \E g : Is(g, L)
  BY <1>1
<1>3. ChunkEnds(chunks) = CHOOSE g : Is(g, L)
  BY DEF ChunkEnds
<1>4. Is(ChunkEnds(chunks), L)
  BY <1>2, <1>3
<1> DEFINE end == ChunkEnds(chunks)
<1>5. end = [n \in 0..L |-> IF n = 0 THEN 4 ELSE end[n - 1] + 8 + chunks[n].size]
  BY <1>4
<1> HIDE DEF end
<1>6. end[0] = 4 /\ \A n \in 1..L : end[n] = end[n - 1] + 8 + chunks[n].size
  BY <1>5
<1> QED
  BY <1>6 DEF end

\* A chunk by itself.
LEMMA ChunkIs ==
  ASSUME NEW chunks \in Seq(WavChunk), NEW i \in 1..Len(chunks)
  PROVE  /\ chunks[i].size \in Nat /\ chunks[i].id \in {"fmt", "data", "other"}
         /\ chunks[i].id = "fmt" => /\ chunks[i].good \in BOOLEAN /\ chunks[i].channels \in 1..8
                                     /\ chunks[i].sub \in DOMAIN Sub
         /\ chunks[i].id = "data" => chunks[i].bytes \in Seq(WavByte)
<1>1. chunks[i] \in WavChunk
  BY ElementOfSeq
<1> QED
  BY <1>1 DEF WavChunk

\* Every chunk ends at least its own header behind the ones before it.
LEMMA ChunkEndsGrow ==
  ASSUME NEW chunks \in Seq(WavChunk), NEW n \in 0..Len(chunks)
  PROVE  /\ ChunkEnds(chunks)[n] \in Nat
         /\ \A m \in 0..(n - 1) : ChunkEnds(chunks)[m] + 8 <= ChunkEnds(chunks)[n]
<1> DEFINE Good(k) == /\ ChunkEnds(chunks)[k] \in Nat
                      /\ \A m \in 0..(k - 1) : ChunkEnds(chunks)[m] + 8 <= ChunkEnds(chunks)[k]
           Wrong == {k \in 0..Len(chunks) : ~Good(k)}
<1>0. Len(chunks) \in Nat
  BY LenProperties
<1> SUFFICES Wrong = {}
  OBVIOUS
<1> SUFFICES ASSUME Wrong # {}
             PROVE  FALSE
  OBVIOUS
<1>1. PICK k \in Wrong : \A x \in Wrong : k <= x
  <2>1. Wrong \subseteq Nat
    BY <1>0
  <2> HIDE DEF Wrong
  <2> QED
    BY <2>1, LeastExists
<1>2. k \in 0..Len(chunks) /\ k \in Nat /\ ~Good(k)
  BY <1>0, <1>1
<1>3. k # 0
  BY <1>0, <1>2, ChunkEndsAre
<1>4. k - 1 \in 0..Len(chunks) /\ k \in 1..Len(chunks) /\ Good(k - 1)
  <2>1. k - 1 \in 0..Len(chunks) /\ k \in 1..Len(chunks)
    BY <1>0, <1>2, <1>3
  <2>2. k - 1 \notin Wrong
    BY <1>1, <1>2
  <2> QED
    BY <2>1, <2>2
<1>5. ChunkEnds(chunks)[k] = ChunkEnds(chunks)[k - 1] + 8 + chunks[k].size /\ chunks[k].size \in Nat
  BY <1>0, <1>4, ChunkEndsAre, ChunkIs
<1>6. ChunkEnds(chunks)[k - 1] \in Nat
      /\ \A m \in 0..(k - 2) : ChunkEnds(chunks)[m] + 8 <= ChunkEnds(chunks)[k - 1]
  BY <1>2, <1>4
<1>7. \A m \in 0..(k - 2) : ChunkEnds(chunks)[m] \in Nat
  <2> SUFFICES ASSUME NEW m \in 0..(k - 2)
               PROVE  ChunkEnds(chunks)[m] \in Nat
    OBVIOUS
  <2>1. m \in 0..Len(chunks) /\ m \notin Wrong
    BY <1>0, <1>1, <1>2
  <2> QED
    BY <2>1
<1> HIDE DEF Wrong
<1> DEFINE end == ChunkEnds(chunks)
<1> HIDE DEF end
<1>8. \A m \in 0..(k - 1) : end[m] + 8 <= end[k]
  <2> SUFFICES ASSUME NEW m \in 0..(k - 1)
               PROVE  end[m] + 8 <= end[k]
    OBVIOUS
  <2>1. CASE m = k - 1
    BY <2>1, <1>5, <1>6 DEF end
  <2>2. CASE m # k - 1
    <3>1. m \in 0..(k - 2)
      BY <1>2, <2>2
    <3>2. end[m] \in Nat /\ end[m] + 8 <= end[k - 1] /\ end[k - 1] \in Nat
      BY <1>6, <1>7, <3>1 DEF end
    <3> QED
      BY <1>5, <3>2 DEF end
  <2> QED
    BY <2>1, <2>2
<1>9. end[k] \in Nat
  BY <1>5, <1>6 DEF end
<1> QED
  BY <1>2, <1>8, <1>9 DEF end

\* Nothing ends where another chunk does.
LEMMA EndsApart ==
  ASSUME NEW chunks \in Seq(WavChunk), NEW n \in 0..Len(chunks), NEW m \in 0..Len(chunks)
  PROVE  /\ ChunkEnds(chunks)[n] \in Nat /\ ChunkEnds(chunks)[m] \in Nat
         /\ m < n <=> ChunkEnds(chunks)[m] < ChunkEnds(chunks)[n]
         /\ m < n => ChunkEnds(chunks)[m] + 8 <= ChunkEnds(chunks)[n]
<1>1. m \in Nat /\ n \in Nat
  BY LenProperties
<1>2. m < n => m \in 0..(n - 1)
  BY <1>1
<1>3. n < m => n \in 0..(m - 1)
  BY <1>1
<1>4. ChunkEnds(chunks)[n] \in Nat /\ ChunkEnds(chunks)[m] \in Nat
  BY ChunkEndsGrow
<1>5. m < n => ChunkEnds(chunks)[m] + 8 <= ChunkEnds(chunks)[n]
  BY <1>2, ChunkEndsGrow
<1>6. n < m => ChunkEnds(chunks)[n] + 8 <= ChunkEnds(chunks)[m]
  BY <1>3, ChunkEndsGrow
<1> QED
  BY <1>1, <1>4, <1>5, <1>6

\* The only chunk of its kind is the first.
LEMMA OnlyIsFirst ==
  ASSUME NEW chunks \in Seq(WavChunk), NEW n \in 0..Len(chunks), NEW id, NEW i,
         Only(chunks, n, id, i)
  PROVE  FirstChunk(chunks, id) = i
<1>1. n \in Nat /\ Len(chunks) \in Nat /\ DOMAIN chunks = 1..Len(chunks)
  BY LenProperties
<1>2. i \in 1..n /\ chunks[i].id = id /\ \A j \in 1..n : chunks[j].id = id => j = i
  BY DEF Only
<1> DEFINE Is(x) == x \in DOMAIN chunks /\ chunks[x].id = id /\ \A j \in 1..(x - 1) : chunks[j].id # id
<1>3. Is(i)
  BY <1>1, <1>2
<1>4. \A x : Is(x) => x = i
  <2> SUFFICES ASSUME NEW x, Is(x), x # i
               PROVE  FALSE
    OBVIOUS
  <2>1. x \in 1..Len(chunks)
    BY <1>1
  <2>2. CASE x <= n
    BY <1>1, <1>2, <2>1, <2>2
  <2>3. CASE x > n
    <3>1. i \in 1..(x - 1)
      BY <1>1, <1>2, <2>1, <2>3
    <3> QED
      BY <1>2, <3>1
  <2> QED
    BY <1>1, <2>1, <2>2, <2>3
<1>5. FirstChunk(chunks, id) = CHOOSE x : Is(x)
  BY DEF FirstChunk
<1> HIDE DEF Is
<1> QED
  BY <1>3, <1>4, <1>5

-----------------------------------------------------------------------------
(***************************************************************************)
(* WavFile: what a writer has written.                                     *)
(***************************************************************************)

\* The numbers of the samples behind `from' others, the samples themselves, and
\* bytes that follow others; and the samples found in bytes.
Remainders(from, c) == [i \in 1..c |-> (from + i) % 8]
Eighths(from, c, f) == [i \in 1..c |-> Value((from + i) % 8, f)]
GivenTo(type, sub, ks) ==
  [i \in DOMAIN ks |-> Apply(Writers[type][sub], Value(ks[i], Type[type]))]
Follow(bytes, from, f) == \A p \in 1..Len(bytes) : bytes[p] = WrittenByte(from + p, f)
SamplesIn(bytes, f, c) == [i \in 1..c |-> Number(Load(bytes, (i - 1) * f.size, f), f)]

\* Its file: a header, and the data behind it.
LEMMA WithDataIs ==
  ASSUME NEW sub, NEW channels, NEW data
  PROVE  LET file == WithData(sf_open_write(sub, channels), data)
         IN  /\ file = [riffSize |-> IF sub = "FLOAT" THEN 50 ELSE 36,
                        chunks |-> IF sub = "FLOAT"
                                   THEN <<Fmt(18, sub, channels), Other(4), data>>
                                   ELSE <<Fmt(16, sub, channels), data>>]
             /\ Last(file.chunks) = data
             /\ \A d : WithData(file, d) = WithData(sf_open_write(sub, channels), d)
<1> DEFINE file(d) == WithData(sf_open_write(sub, channels), d)
<1>1. CASE sub = "FLOAT"
  <2>1. \A d : file(d) = [riffSize |-> 50, chunks |-> <<Fmt(18, sub, channels), Other(4), d>>]
    BY <1>1 DEF WithData, sf_open_write
  <2>2. \A d, x : WithData([riffSize |-> 50, chunks |-> <<Fmt(18, sub, channels), Other(4), d>>], x)
               = [riffSize |-> 50, chunks |-> <<Fmt(18, sub, channels), Other(4), x>>]
    BY DEF WithData
  <2>3. Last(<<Fmt(18, sub, channels), Other(4), data>>) = data
    BY DEF Last
  <2> HIDE DEF file
  <2> QED
    BY <1>1, <2>1, <2>2, <2>3 DEF file
<1>2. CASE sub # "FLOAT"
  <2>1. \A d : file(d) = [riffSize |-> 36, chunks |-> <<Fmt(16, sub, channels), d>>]
    BY <1>2 DEF WithData, sf_open_write
  <2>2. \A d, x : WithData([riffSize |-> 36, chunks |-> <<Fmt(16, sub, channels), d>>], x)
               = [riffSize |-> 36, chunks |-> <<Fmt(16, sub, channels), x>>]
    BY DEF WithData
  <2>3. Last(<<Fmt(16, sub, channels), data>>) = data
    BY DEF Last
  <2> HIDE DEF file
  <2> QED
    BY <1>2, <2>1, <2>2, <2>3 DEF file
<1> QED
  BY <1>1, <1>2

LEMMA TwoChunks ==
  ASSUME NEW fmt \in WavChunk, NEW data \in WavChunk, fmt.id = "fmt", data.id = "data",
         NEW chunks, chunks = <<fmt, data>>
  PROVE  /\ chunks \in Seq(WavChunk) /\ chunks[1] = fmt /\ FirstChunk(chunks, "fmt") = 1
         /\ chunks[FirstChunk(chunks, "data")] = data
<1>1. chunks[1] = fmt /\ chunks[2] = data /\ Len(chunks) = 2 /\ chunks \in Seq(WavChunk)
  OBVIOUS
<1>2. Only(chunks, 2, "fmt", 1) /\ Only(chunks, 2, "data", 2)
  BY <1>1 DEF Only
<1>3. 2 \in 0..Len(chunks)
  BY <1>1
<1>4. FirstChunk(chunks, "fmt") = 1
  BY <1>1, <1>2, <1>3, OnlyIsFirst
<1>5. FirstChunk(chunks, "data") = 2
  BY <1>1, <1>2, <1>3, OnlyIsFirst
<1> QED
  BY <1>1, <1>4, <1>5

LEMMA ThreeChunks ==
  ASSUME NEW fmt \in WavChunk, NEW other \in WavChunk, NEW data \in WavChunk,
         fmt.id = "fmt", other.id = "other", data.id = "data",
         NEW chunks, chunks = <<fmt, other, data>>
  PROVE  /\ chunks \in Seq(WavChunk) /\ chunks[1] = fmt /\ FirstChunk(chunks, "fmt") = 1
         /\ chunks[FirstChunk(chunks, "data")] = data
<1>1. /\ chunks[1] = fmt /\ chunks[2] = other /\ chunks[3] = data
      /\ Len(chunks) = 3 /\ chunks \in Seq(WavChunk)
  OBVIOUS
<1>2. Only(chunks, 3, "fmt", 1) /\ Only(chunks, 3, "data", 3)
  BY <1>1 DEF Only
<1>3. 3 \in 0..Len(chunks)
  BY <1>1
<1>4. FirstChunk(chunks, "fmt") = 1
  BY <1>1, <1>2, <1>3, OnlyIsFirst
<1>5. FirstChunk(chunks, "data") = 3
  BY <1>1, <1>2, <1>3, OnlyIsFirst
<1> QED
  BY <1>1, <1>4, <1>5

WrittenAs(file, sub, channels, size, bytes) ==
  file = WithData(sf_open_write(sub, channels), Data(size, bytes))
HasChunksOf(file, sub, channels, size, bytes) ==
  file.chunks = WithData(sf_open_write(sub, channels), Data(size, bytes)).chunks

LEMMA WriterFileIs ==
  ASSUME NEW sub \in DOMAIN Sub, NEW channels \in 1..8, NEW size \in Nat, NEW bytes \in Seq(WavByte),
         NEW file, WrittenAs(file, sub, channels, size, bytes)
  PROVE  /\ file \in WavFiles
         /\ FirstChunk(file.chunks, "fmt") = 1
         /\ file.chunks[1].sub = sub /\ file.chunks[1].channels = channels
         /\ file.chunks[FirstChunk(file.chunks, "data")] = Data(size, bytes)
<1>1. \A n \in Nat : Fmt(n, sub, channels) \in WavChunk /\ Fmt(n, sub, channels).id = "fmt"
  BY DEF Fmt, WavChunk
<1>2. \A n : Fmt(n, sub, channels).sub = sub /\ Fmt(n, sub, channels).channels = channels
  BY DEF Fmt
<1>3. Data(size, bytes) \in WavChunk /\ Data(size, bytes).id = "data"
  BY DEF Data, WavChunk
<1>4. Other(4) \in WavChunk /\ Other(4).id = "other"
  BY DEF Other, WavChunk
<1>5. PICK data : data = Data(size, bytes)
  OBVIOUS
<1>6. CASE sub = "FLOAT"
  <2>1. PICK fmt : fmt = Fmt(18, sub, channels)
    OBVIOUS
  <2>2. PICK other : other = Other(4)
    OBVIOUS
  <2>3. file = [riffSize |-> 50, chunks |-> <<fmt, other, data>>]
    BY <1>5, <1>6, <2>1, <2>2, WithDataIs DEF WrittenAs
  <2>4. fmt \in WavChunk /\ fmt.id = "fmt" /\ fmt.sub = sub /\ fmt.channels = channels
    BY <1>1, <1>2, <2>1
  <2>5. PICK chunks : chunks = <<fmt, other, data>>
    OBVIOUS
  <2>6. /\ chunks \in Seq(WavChunk) /\ chunks[1] = fmt /\ FirstChunk(chunks, "fmt") = 1
        /\ chunks[FirstChunk(chunks, "data")] = data
    BY <1>3, <1>4, <1>5, <2>2, <2>4, <2>5, ThreeChunks
  <2>7. file.riffSize = 50 /\ file.chunks = chunks /\ file = [riffSize |-> 50, chunks |-> chunks]
    BY <2>3, <2>5
  <2>8. file \in WavFiles
    BY <2>6, <2>7 DEF WavFiles
  <2> QED
    BY <1>5, <2>4, <2>6, <2>7, <2>8
<1>7. CASE sub # "FLOAT"
  <2>1. PICK fmt : fmt = Fmt(16, sub, channels)
    OBVIOUS
  <2>2. file = [riffSize |-> 36, chunks |-> <<fmt, data>>]
    BY <1>5, <1>7, <2>1, WithDataIs DEF WrittenAs
  <2>3. fmt \in WavChunk /\ fmt.id = "fmt" /\ fmt.sub = sub /\ fmt.channels = channels
    BY <1>1, <1>2, <2>1
  <2>4. PICK chunks : chunks = <<fmt, data>>
    OBVIOUS
  <2>5. /\ chunks \in Seq(WavChunk) /\ chunks[1] = fmt /\ FirstChunk(chunks, "fmt") = 1
        /\ chunks[FirstChunk(chunks, "data")] = data
    BY <1>3, <1>5, <2>3, <2>4, TwoChunks
  <2>6. file.riffSize = 36 /\ file.chunks = chunks /\ file = [riffSize |-> 36, chunks |-> chunks]
    BY <2>2, <2>4
  <2>7. file \in WavFiles
    BY <2>5, <2>6 DEF WavFiles
  <2> QED
    BY <1>5, <2>3, <2>5, <2>6, <2>7
<1> QED
  BY <1>6, <1>7

\* With the sizes of its chunks in its header it is well-formed.
LEMMA TwoChunksFill ==
  ASSUME NEW fmt \in WavChunk, NEW data \in WavChunk, fmt.id = "fmt", data.id = "data", fmt.good,
         NEW file, file.chunks = <<fmt, data>>, file.riffSize = 20 + fmt.size + data.size
  PROVE  WellFormed(file)
<1>1. PICK chunks : chunks = <<fmt, data>>
  OBVIOUS
<1>2. Len(chunks) = 2 /\ chunks[1] = fmt /\ chunks[2] = data /\ DOMAIN chunks = 1..2
  BY <1>1
<1>3. PICK m \in Nat, n \in Nat : m = fmt.size /\ n = data.size
  BY DEF WavChunk
<1>4. ChunkEnds(chunks)[2] = 20 + m + n
  <2>1. Len(chunks) \in Nat /\ 1 \in 1..Len(chunks) /\ 2 \in 1..Len(chunks)
    BY <1>2
  <2>2. ChunkEnds(chunks)[0] = 4
    BY <2>1, ChunkEndsAre
  <2>3. ChunkEnds(chunks)[1] = ChunkEnds(chunks)[1 - 1] + 8 + chunks[1].size
    BY <2>1, ChunkEndsAre
  <2>4. ChunkEnds(chunks)[2] = ChunkEnds(chunks)[2 - 1] + 8 + chunks[2].size
    BY <2>1, ChunkEndsAre
  <2>5. 1 - 1 = 0 /\ 2 - 1 = 1
    OBVIOUS
  <2> QED
    BY <1>2, <1>3, <2>2, <2>3, <2>4, <2>5
<1>5. Only(chunks, 2, "fmt", 1) /\ Only(chunks, 2, "data", 2)
  BY <1>2 DEF Only
<1>6. 2 \in DOMAIN chunks /\ 1 \in 1..2 /\ 2 \in 1..2 /\ 1 < 2 /\ chunks[1].good
  BY <1>2
<1>7. file.chunks = chunks /\ file.riffSize = ChunkEnds(chunks)[2]
  BY <1>1, <1>3, <1>4
<1> QED
  BY <1>5, <1>6, <1>7, Zenon DEF WellFormed

LEMMA ThreeChunksFill ==
  ASSUME NEW fmt \in WavChunk, NEW other \in WavChunk, NEW data \in WavChunk,
         fmt.id = "fmt", other.id = "other", data.id = "data", fmt.good,
         NEW file, file.chunks = <<fmt, other, data>>,
         file.riffSize = 28 + fmt.size + other.size + data.size
  PROVE  WellFormed(file)
<1>1. PICK chunks : chunks = <<fmt, other, data>>
  OBVIOUS
<1>2. /\ Len(chunks) = 3 /\ chunks[1] = fmt /\ chunks[2] = other /\ chunks[3] = data
      /\ DOMAIN chunks = 1..3
  BY <1>1
<1>3. PICK m \in Nat, k \in Nat, n \in Nat : m = fmt.size /\ k = other.size /\ n = data.size
  BY DEF WavChunk
<1>4. ChunkEnds(chunks)[3] = 28 + m + k + n
  <2>1. /\ Len(chunks) \in Nat
        /\ 1 \in 1..Len(chunks) /\ 2 \in 1..Len(chunks) /\ 3 \in 1..Len(chunks)
    BY <1>2
  <2>2. ChunkEnds(chunks)[0] = 4
    BY <2>1, ChunkEndsAre
  <2>3. ChunkEnds(chunks)[1] = ChunkEnds(chunks)[1 - 1] + 8 + chunks[1].size
    BY <2>1, ChunkEndsAre
  <2>4. ChunkEnds(chunks)[2] = ChunkEnds(chunks)[2 - 1] + 8 + chunks[2].size
    BY <2>1, ChunkEndsAre
  <2>5. ChunkEnds(chunks)[3] = ChunkEnds(chunks)[3 - 1] + 8 + chunks[3].size
    BY <2>1, ChunkEndsAre
  <2>6. 1 - 1 = 0 /\ 2 - 1 = 1 /\ 3 - 1 = 2
    OBVIOUS
  <2> QED
    BY <1>2, <1>3, <2>2, <2>3, <2>4, <2>5, <2>6
<1>5. Only(chunks, 3, "fmt", 1) /\ Only(chunks, 3, "data", 3)
  BY <1>2 DEF Only
<1>6. 3 \in DOMAIN chunks /\ 1 \in 1..3 /\ 3 \in 1..3 /\ 1 < 3 /\ chunks[1].good
  BY <1>2
<1>7. file.chunks = chunks /\ file.riffSize = ChunkEnds(chunks)[3]
  BY <1>1, <1>3, <1>4
<1> QED
  BY <1>5, <1>6, <1>7, Zenon DEF WellFormed

LEMMA WriterFileOpens ==
  ASSUME NEW sub \in DOMAIN Sub, NEW channels \in 1..8, NEW size \in Nat, NEW bytes \in Seq(WavByte),
         NEW file, HasChunksOf(file, sub, channels, size, bytes),
         file.riffSize = size + 36 + (IF sub = "FLOAT" THEN 14 ELSE 0)
  PROVE  WellFormed(file)
<1>1. PICK data : data = Data(size, bytes)
  OBVIOUS
<1>2. data \in WavChunk /\ data.id = "data" /\ data.size = size
  BY <1>1 DEF Data, WavChunk
<1>3. \A n \in Nat : /\ Fmt(n, sub, channels) \in WavChunk /\ Fmt(n, sub, channels).id = "fmt"
                     /\ Fmt(n, sub, channels).good = TRUE /\ Fmt(n, sub, channels).size = n
  BY DEF Fmt, WavChunk
<1>4. Other(4) \in WavChunk /\ Other(4).id = "other" /\ Other(4).size = 4
  BY DEF Other, WavChunk
<1>5. PICK own : own = WithData(sf_open_write(sub, channels), data) /\ file.chunks = own.chunks
  BY <1>1 DEF HasChunksOf
<1>6. CASE sub = "FLOAT"
  <2>1. PICK fmt, other : fmt = Fmt(18, sub, channels) /\ other = Other(4)
    OBVIOUS
  <2>2. fmt \in WavChunk /\ fmt.id = "fmt" /\ fmt.good /\ fmt.size = 18
    BY <1>3, <2>1
  <2>3. own = [riffSize |-> 50, chunks |-> <<fmt, other, data>>]
    BY <1>5, <1>6, <2>1, WithDataIs
  <2>4. file.chunks = <<fmt, other, data>> /\ file.riffSize = 28 + 18 + 4 + size
    BY <1>5, <1>6, <2>3
  <2> QED
    BY <1>2, <1>4, <2>1, <2>2, <2>4, ThreeChunksFill
<1>7. CASE sub # "FLOAT"
  <2>1. PICK fmt : fmt = Fmt(16, sub, channels)
    OBVIOUS
  <2>2. fmt \in WavChunk /\ fmt.id = "fmt" /\ fmt.good /\ fmt.size = 16
    BY <1>3, <2>1
  <2>3. own = [riffSize |-> 36, chunks |-> <<fmt, data>>]
    BY <1>5, <1>7, <2>1, WithDataIs
  <2>4. file.chunks = <<fmt, data>> /\ file.riffSize = 20 + 16 + size
    BY <1>5, <1>7, <2>3
  <2> QED
    BY <1>2, <2>2, <2>4, TwoChunksFill
<1> QED
  BY <1>6, <1>7

\* Each whole sample in it.
LEMMA SampleIsWritten ==
  ASSUME NEW bytes, NEW f \in WavFormats, f.size \in 1..4, NEW l \in Nat,
         \A n \in 1..l : bytes[n] = WrittenByte(n, f),
         NEW i \in Nat, i > 0, i * f.size <= l
  PROVE  Load(bytes, (i - 1) * f.size, f) = Value(i % 8, f)
<1>1. PICK s \in 1..4 : s = f.size
  OBVIOUS
<1>2. \A k \in 1..s : (i - 1) * s + k \in 1..l
  <2>1. s = 1 \/ s = 2 \/ s = 3 \/ s = 4
    OBVIOUS
  <2> QED
    BY <1>1, <2>1
<1>3. \A k \in 1..s : bytes[(i - 1) * s + k] = <<f, Value(i % 8, f), k>>
  <2> SUFFICES ASSUME NEW k \in 1..s
               PROVE  bytes[(i - 1) * s + k] = <<f, Value(i % 8, f), k>>
    OBVIOUS
  <2>1. ((i - 1) * s + k - 1) \div s + 1 = i /\ (((i - 1) * s + k - 1) % s) + 1 = k
    BY ByteIs
  <2>2. PICK n \in 1..l : n = (i - 1) * s + k
    BY <1>2
  <2>3. (n - 1) \div s + 1 = i /\ ((n - 1) % s) + 1 = k
    BY <2>1, <2>2
  <2>4. WrittenByte(n, f) = <<f, Value(((n - 1) \div s + 1) % 8, f), ((n - 1) % s) + 1>>
    BY <1>1 DEF WrittenByte
  <2> QED
    BY <2>2, <2>3, <2>4
<1>4. bytes[(i - 1) * s + 1][2] = Value(i % 8, f)
  BY <1>3
<1> QED
  BY <1>1, <1>3, <1>4 DEF Load

LEMMA WholeSamples ==
  ASSUME NEW bytes \in Seq(WavByte), NEW f \in WavFormats, f.size \in 1..4, Follow(bytes, 0, f),
         NEW c \in Nat, c * f.size <= Len(bytes)
  PROVE  SamplesIn(bytes, f, c) = Remainders(0, c)
<1>1. PICK l \in Nat : l = Len(bytes)
  BY LenProperties
<1>2. \A n \in 1..l : bytes[n] = WrittenByte(n, f)
  <2>1. \A n \in 1..l : 0 + n = n
    OBVIOUS
  <2> QED
    BY <1>1, <2>1 DEF Follow
<1>3. \A i \in 1..c : Number(Load(bytes, (i - 1) * f.size, f), f) = (0 + i) % 8
  <2> SUFFICES ASSUME NEW i \in 1..c
               PROVE  Number(Load(bytes, (i - 1) * f.size, f), f) = (0 + i) % 8
    OBVIOUS
  <2>1. i \in Nat /\ i > 0 /\ i * f.size <= l /\ 0 + i = i
    <3>1. f.size = 1 \/ f.size = 2 \/ f.size = 3 \/ f.size = 4
      OBVIOUS
    <3> QED
      BY <1>1, <3>1
  <2>2. Load(bytes, (i - 1) * f.size, f) = Value(i % 8, f)
    BY <1>2, <2>1, SampleIsWritten
  <2>3. i % 8 \in -8..7
    BY <2>1
  <2> QED
    BY <2>1, <2>2, <2>3, ValueIs
<1> QED
  BY <1>3 DEF SamplesIn, Remainders

\* A quotient between two multiples.
LEMMA QuotientBetween ==
  ASSUME NEW a \in Nat, NEW b \in Nat \ {0}, NEW q \in Nat, q * b <= a, a < q * b + b
  PROVE  a \div b = q
<1>1. PICK p \in Nat : p = a \div b /\ b * p <= a /\ a < b * p + b
  BY QuotientIs
<1>2. CASE p < q
  <2>1. b * (p + 1) <= b * q
    BY <1>1, <1>2
  <2> QED
    BY <1>1, <2>1
<1>3. CASE q < p
  <2>1. b * (q + 1) <= b * p
    BY <1>1, <1>3
  <2> QED
    BY <1>1, <2>1
<1> QED
  BY <1>1, <1>2, <1>3

\* The samples to be found in a file.
LEMMA WriterSamplesAre ==
  ASSUME NEW sub \in DOMAIN Sub, NEW channels \in 1..8, NEW size \in Nat, NEW bytes \in Seq(WavByte),
         NEW file, HasChunksOf(file, sub, channels, size, bytes)
  PROVE  SamplesOf(file)
           = SamplesIn(bytes, Sub[sub],
                       (Min({size, Len(bytes)}) \div (Sub[sub].size * channels)) * channels)
<1>1. PICK fmt : fmt = file.chunks[FirstChunk(file.chunks, "fmt")]
  OBVIOUS
<1>2. PICK data : data = file.chunks[FirstChunk(file.chunks, "data")]
  OBVIOUS
<1>3. PICK own : own = WithData(sf_open_write(sub, channels), Data(size, bytes))
  OBVIOUS
<1>4. fmt.sub = sub /\ fmt.channels = channels /\ data = Data(size, bytes)
  <2>1. /\ FirstChunk(own.chunks, "fmt") = 1
        /\ own.chunks[1].sub = sub /\ own.chunks[1].channels = channels
        /\ own.chunks[FirstChunk(own.chunks, "data")] = Data(size, bytes)
    <3>1. WrittenAs(own, sub, channels, size, bytes)
      BY <1>3 DEF WrittenAs
    <3> QED
      BY <3>1, WriterFileIs
  <2>2. file.chunks = own.chunks
    BY <1>3, Zenon DEF HasChunksOf
  <2> QED
    BY <1>1, <1>2, <2>1, <2>2, Zenon
<1>5. data.size = size /\ data.bytes = bytes
  BY <1>4 DEF Data
<1>6. PICK f, r : f = Sub[sub] /\ r = Min({size, Len(bytes)}) \div (Sub[sub].size * channels)
  OBVIOUS
<1>7. r = Min({data.size, Len(data.bytes)}) \div (f.size * fmt.channels) /\ f = Sub[fmt.sub]
  BY <1>4, <1>5, <1>6
<1>8. SamplesOf(file) = SamplesIn(data.bytes, f, r * fmt.channels)
  BY <1>1, <1>2, <1>7 DEF SamplesOf, SamplesIn
<1> QED
  BY <1>4, <1>5, <1>6, <1>8

LEMMA FramesThere ==
  ASSUME NEW r \in Nat, NEW b \in Nat \ {0}, NEW size, size = r * b, NEW l \in Nat, size <= l
  PROVE  Min({size, l}) \div b = r
<1>1. size \in Int
  OBVIOUS
<1>2. Min({size, l}) = size
  BY <1>1, SmallerIs
<1> QED
  BY <1>2, QuotientOfMultiple

LEMMA WavFrameIs ==
  ASSUME NEW s \in 1..4, NEW channels \in 1..8
  PROVE  /\ s * channels \in Nat \ {0}
         /\ \A r \in Nat : (r * channels) * s = r * (s * channels)
<1>1. s = 1 \/ s = 2 \/ s = 3 \/ s = 4
  OBVIOUS
<1> QED
  BY <1>1

LEMMA RemaindersAre ==
  ASSUME NEW c \in Nat, NEW from \in Nat
  PROVE  /\ DOMAIN Remainders(from, c) = 1..c
         /\ \A i \in 1..c : /\ Remainders(from, c)[i] = (from + i) % 8
                            /\ Remainders(from, c)[i] \in -8..7
         /\ Remainders(from, c) \in Seq(0..7) /\ Len(Remainders(from, c)) = c
<1>1. PICK ks : ks = Remainders(from, c)
  OBVIOUS
<1>2. ks = [i \in 1..c |-> (from + i) % 8]
  BY <1>1 DEF Remainders
<1>3. ks \in [1..c -> 0..7] /\ \A i \in 1..c : ks[i] = (from + i) % 8 /\ ks[i] \in -8..7
  BY <1>2
<1>4. ks \in Seq(0..7) /\ DOMAIN ks = 1..c
  BY <1>3, SeqDef
<1>5. Len(ks) = c
  BY <1>4, LenIs
<1> QED
  BY <1>1, <1>3, <1>4, <1>5

LEMMA ByteBehind ==
  ASSUME NEW s \in 1..4, NEW from \in Nat, NEW p \in Nat, p > 0
  PROVE  /\ (from * s + p - 1) \div s + 1 = from + ((p - 1) \div s + 1)
         /\ (from * s + p - 1) % s = (p - 1) % s
<1>1. s = 1 \/ s = 2 \/ s = 3 \/ s = 4
  OBVIOUS
<1> QED
  BY <1>1

LEMMA IsWavByte ==
  ASSUME NEW f \in Formats, NEW k \in -8..7, NEW j \in 1..4
  PROVE  <<f, Value(k, f), j>> \in WavByte
BY DEF WavByte

\* The samples given to a write, in the file's format.
LEMMA SamplesConverted ==
  ASSUME NEW type \in DOMAIN Type, NEW sub \in DOMAIN Writers[type], NEW c \in Nat, NEW from \in Nat
  PROVE  GivenTo(type, sub, Remainders(from, c)) = Eighths(from, c, Sub[sub])
<1>1. PICK ks : ks = Remainders(from, c)
  OBVIOUS
<1>2. DOMAIN ks = 1..c /\ \A i \in 1..c : ks[i] = (from + i) % 8 /\ ks[i] \in -8..7
  BY <1>1, RemaindersAre
<1>3. \A i \in 1..c : Apply(Writers[type][sub], Value(ks[i], Type[type])) = Value(ks[i], Sub[sub])
  <2> SUFFICES ASSUME NEW i \in 1..c
               PROVE  Apply(Writers[type][sub], Value(ks[i], Type[type])) = Value(ks[i], Sub[sub])
    OBVIOUS
  <2>1. PICK k \in -8..7 : k = ks[i]
    BY <1>2
  <2>2. /\ Passes(Writers[type][sub], Type[type], Sub[sub])
        /\ Type[type] \in WavFormats /\ Sub[sub] \in WavFormats
    BY WritersPass, TypeIs, SubIs
  <2>3. Apply(Writers[type][sub], Value(k, Type[type])) = Value(k, Sub[sub])
    BY <2>2, EighthsPass
  <2> QED
    BY <2>1, <2>3
<1>4. GivenTo(type, sub, ks) = Eighths(from, c, Sub[sub])
  BY <1>2, <1>3 DEF GivenTo, Eighths
<1> QED
  BY <1>1, <1>4

\* The bytes that samples become, behind those already there.
LEMMA SamplesStored ==
  ASSUME NEW f \in WavFormats, f.size \in 1..4, NEW c \in Nat, NEW from \in Nat,
         NEW new, new = Stored(Eighths(from, c, f), f)
  PROVE  new \in Seq(WavByte) /\ Len(new) = c * f.size /\ Follow(new, from * f.size, f)
<1>1. f \in Formats
  BY DEF WavFormats, Formats
<1>2. PICK s \in 1..4 : s = f.size
  OBVIOUS
<1>3. PICK vs : vs = [i \in 1..c |-> Value((from + i) % 8, f)]
  OBVIOUS
<1>4. new = Stored(vs, f)
  BY <1>3 DEF Eighths
<1>5. \A i \in 1..c : vs[i] = Value((from + i) % 8, f) /\ (from + i) % 8 \in -8..7
  BY <1>3
<1>6. Len(vs) = c
  <2>1. vs \in [1..c -> Int]
    <3>1. \A i \in 1..c : Value((from + i) % 8, f) \in Int
      BY <1>5, ValueIs
    <3> QED
      BY <1>3, <3>1
  <2>2. vs \in Seq(Int) /\ DOMAIN vs = 1..c
    BY <2>1, SeqDef
  <2> QED
    BY <2>2, LenIs
<1>7. new = [p \in 1..(c * s) |-> <<f, vs[(p - 1) \div s + 1], ((p - 1) % s) + 1>>]
  BY <1>2, <1>4, <1>6 DEF Stored
<1>8. PICK l \in Nat : l = c * s
  BY <1>2
<1>9. \A p \in 1..l : (p - 1) \div s + 1 \in 1..c /\ ((p - 1) % s) + 1 \in 1..s
  <2>1. s = 1 \/ s = 2 \/ s = 3 \/ s = 4
    OBVIOUS
  <2> QED
    BY <1>8, <2>1
<1>10. \A p \in 1..l : new[p] \in WavByte /\ new[p] = WrittenByte(from * s + p, f)
  <2> SUFFICES ASSUME NEW p \in 1..l
               PROVE  new[p] \in WavByte /\ new[p] = WrittenByte(from * s + p, f)
    OBVIOUS
  <2>1. PICK i \in 1..c, j \in 1..s : i = (p - 1) \div s + 1 /\ j = ((p - 1) % s) + 1
    BY <1>9
  <2>2. new[p] = <<f, vs[i], j>>
    BY <1>7, <1>8, <2>1
  <2>3. vs[i] = Value((from + i) % 8, f) /\ (from + i) % 8 \in -8..7
    BY <1>5
  <2>4. new[p] \in WavByte
    <3>1. j \in 1..4
      OBVIOUS
    <3> QED
      BY <1>1, <2>2, <2>3, <3>1, IsWavByte
  <2>5. WrittenByte(from * s + p, f) = <<f, Value((from + i) % 8, f), j>>
    <3>1. p \in Nat /\ p > 0
      BY <1>8
    <3>2. PICK n : n = from * s + p
      OBVIOUS
    <3>3. (n - 1) \div s + 1 = from + i /\ ((n - 1) % s) + 1 = j
      <4>1. /\ (from * s + p - 1) \div s + 1 = from + ((p - 1) \div s + 1)
            /\ (from * s + p - 1) % s = (p - 1) % s
        BY <3>1, ByteBehind
      <4> QED
        BY <2>1, <3>1, <3>2, <4>1
    <3> QED
      BY <1>2, <3>2, <3>3 DEF WrittenByte
  <2> QED
    BY <2>2, <2>3, <2>4, <2>5
<1>11. new \in [1..l -> WavByte]
  BY <1>7, <1>8, <1>10
<1>12. new \in Seq(WavByte) /\ Len(new) = l
  <2>1. new \in Seq(WavByte) /\ DOMAIN new = 1..l
    BY <1>11, SeqDef
  <2> QED
    BY <2>1, LenIs
<1>13. \A p \in 1..l : new[p] = WrittenByte(from * f.size + p, f)
  BY <1>2, <1>10
<1> QED
  BY <1>2, <1>8, <1>12, <1>13 DEF Follow

Appended(both, old, new, a, f) ==
  /\ both = old \o SubSeq(new, 1, a)
  /\ Follow(old, 0, f) /\ (a > 0 => Follow(new, Len(old), f))

LEMMA MoreIsWritten ==
  ASSUME NEW old \in Seq(WavByte), NEW new \in Seq(WavByte), NEW f, NEW a \in 0..Len(new),
         NEW both, Appended(both, old, new, a, f)
  PROVE  both \in Seq(WavByte) /\ Len(both) = Len(old) + a /\ Follow(both, 0, f)
<1>1. PICK m \in Nat : m = Len(old) /\ Len(new) \in Nat
  BY LenProperties
<1>2. PICK part : part = SubSeq(new, 1, a)
  OBVIOUS
<1>3. part \in Seq(WavByte) /\ Len(part) = a /\ \A p \in 1..a : part[p] = new[p]
  BY <1>1, <1>2
<1>4. both = old \o part
  BY <1>2 DEF Appended
<1>5. /\ both \in Seq(WavByte) /\ Len(both) = m + a
      /\ \A p \in 1..(m + a) : both[p] = IF p <= m THEN old[p] ELSE part[p - m]
  BY <1>1, <1>3, <1>4, ConcatProperties
<1>6. ASSUME NEW p \in 1..(m + a)
      PROVE  both[p] = WrittenByte(p, f)
  <2>1. CASE p <= m
    <3>1. p \in 1..Len(old) /\ 0 + p = p
      BY <1>1, <2>1
    <3>2. old[p] = WrittenByte(0 + p, f)
      BY <3>1 DEF Follow, Appended
    <3> QED
      BY <1>5, <2>1, <3>1, <3>2
  <2>2. CASE p > m
    <3>1. p - m \in 1..a
      BY <2>2
    <3>2. PICK q \in 1..a : q = p - m
      BY <3>1
    <3>3. a > 0 /\ q \in 1..Len(new) /\ m + q = p
      BY <1>1, <3>2
    <3>4. new[q] = WrittenByte(m + q, f)
      BY <1>1, <3>3 DEF Follow, Appended
    <3>5. new[q] = WrittenByte(p, f)
      BY <3>3, <3>4
    <3>6. both[p] = new[q]
      BY <1>1, <1>3, <1>5, <2>2, <3>2
    <3> QED
      BY <3>5, <3>6
  <2> QED
    BY <1>1, <2>1, <2>2
<1>7. \A p \in 1..Len(both) : both[p] = WrittenByte(0 + p, f)
  BY <1>1, <1>5, <1>6
<1> QED
  BY <1>1, <1>5, <1>7 DEF Follow

LEMMA MoreIsWanted ==
  ASSUME NEW m \in Nat, NEW c \in Nat, NEW d \in 0..c
  PROVE  Remainders(0, m) \o SubSeq(Remainders(m, c), 1, d) = Remainders(0, m + d)
<1>1. PICK want : want = Remainders(0, m)
  OBVIOUS
<1>2. PICK ks : ks = Remainders(m, c)
  OBVIOUS
<1>3. /\ want \in Seq(0..7) /\ Len(want) = m /\ \A i \in 1..m : want[i] = (0 + i) % 8
  BY <1>1, RemaindersAre
<1>4. /\ ks \in Seq(0..7) /\ Len(ks) = c /\ \A i \in 1..c : ks[i] = (m + i) % 8
  BY <1>2, RemaindersAre
<1>5. PICK part : part = SubSeq(ks, 1, d)
  OBVIOUS
<1>6. part \in Seq(0..7) /\ Len(part) = d /\ \A i \in 1..d : part[i] = (m + i) % 8
  BY <1>4, <1>5
<1>7. PICK both : both = want \o part
  OBVIOUS
<1>8. /\ both \in Seq(0..7) /\ Len(both) = m + d
      /\ \A i \in 1..(m + d) : both[i] = IF i <= m THEN want[i] ELSE part[i - m]
  BY <1>3, <1>6, <1>7, ConcatProperties
<1>9. DOMAIN both = 1..(m + d) /\ both = [i \in DOMAIN both |-> both[i]]
  BY <1>8
<1>10. \A i \in 1..(m + d) : both[i] = (0 + i) % 8
  <2> SUFFICES ASSUME NEW i \in 1..(m + d)
               PROVE  both[i] = (0 + i) % 8
    OBVIOUS
  <2>1. CASE i <= m
    BY <1>3, <1>8, <2>1
  <2>2. CASE ~(i <= m)
    <3>1. i - m \in 1..d /\ m + (i - m) = i
      BY <2>2
    <3>2. part[i - m] = i % 8
      BY <1>6, <3>1
    <3> QED
      BY <1>8, <2>2, <3>2
  <2> QED
    BY <2>1, <2>2
<1>11. both = Remainders(0, m + d)
  BY <1>9, <1>10 DEF Remainders
<1> QED
  BY <1>1, <1>2, <1>5, <1>7, <1>11

\* The frames among the bytes that a write took.
LEMMA FramesWritten ==
  ASSUME NEW r \in Nat, NEW b \in Nat \ {0}, NEW n \in Nat, NEW a \in Nat, a <= n * b,
         NEW q, q = a \div b
  PROVE  /\ q \in Nat /\ q <= n
         /\ (r + q) * b <= r * b + a /\ r * b + a < (r + q) * b + b
         /\ a = n * b => q = n
<1>1. q \in Nat /\ b * q <= a /\ a < b * q + b
  BY QuotientIs
<1>2. (r + q) * b = r * b + b * q
  BY <1>1
<1>3. q <= n
  <2>1. CASE q > n
    <3>1. b * (n + 1) <= b * q
      BY <1>1, <2>1
    <3> QED
      BY <1>1, <3>1
  <2> QED
    BY <1>1, <2>1
<1>4. a = n * b => q = n
  BY QuotientOfMultiple
<1>5. PICK x \in Nat, y \in Nat : x = r * b /\ y = b * q
  BY <1>1
<1> QED
  BY <1>1, <1>2, <1>3, <1>4, <1>5

-----------------------------------------------------------------------------
(***************************************************************************)
(* WavFile: writing keeps the invariant.                                   *)
(***************************************************************************)

LEMMA WavParts ==
  ASSUME WavTypeOK
  PROVE  /\ wav.phase \in {"write", "open", "chunks", "closed", "read", "end"}
         /\ wav.type \in DOMAIN Type /\ wav.own \in BOOLEAN
         /\ wav.want \in Seq(0..7) /\ wav.got \in Seq(Int)
         /\ wav.handle.sub \in DOMAIN Sub /\ wav.handle.channels \in 1..8
         /\ wav.handle.bytesPerFrame \in Nat /\ wav.handle.remaining \in Nat
         /\ wav.handle.file \in WavFiles /\ wav.handle.file.riffSize \in Nat
         /\ wav.handle.file.chunks \in Seq(WavChunk)
         /\ wav.scan.at \in Nat /\ wav.scan.remaining \in Int /\ wav.scan.hadFmt \in BOOLEAN
         /\ wav.scan.data \in Nat
BY DEF WavTypeOK, WavFiles

\* The frames of the handle.
LEMMA FrameBytes ==
  ASSUME WavIInv
  PROVE  /\ wav.handle.bytesPerFrame = Sub[wav.handle.sub].size * wav.handle.channels
         /\ wav.handle.bytesPerFrame \in Nat \ {0}
         /\ \A r \in Nat : (r * wav.handle.channels) * Sub[wav.handle.sub].size
                             = r * wav.handle.bytesPerFrame
<1>1. PICK s \in 1..4, c \in 1..8 : s = Sub[wav.handle.sub].size /\ c = wav.handle.channels
  BY WavParts, SubIs DEF WavIInv
<1>2. wav.handle.bytesPerFrame = s * c
  BY <1>1 DEF WavIInv
<1>3. s * c \in Nat \ {0} /\ \A r \in Nat : (r * c) * s = r * (s * c)
  BY WavFrameIs
<1> QED
  BY <1>1, <1>2, <1>3

\* The data of a file being written.
LEMMA DataWritten ==
  ASSUME WavIInv, wav.phase = "write"
  PROVE  LET h == wav.handle
             data == Last(h.file.chunks)
         IN  /\ data = Data(0, data.bytes) /\ data.bytes \in Seq(WavByte)
             /\ \A d : WithData(h.file, d) = WithData(sf_open_write(h.sub, h.channels), d)
<1>1. PICK sub, channels : sub = wav.handle.sub /\ channels = wav.handle.channels
  OBVIOUS
<1>2. PICK bytes : bytes = Last(wav.handle.file.chunks).bytes
  OBVIOUS
<1>3. PICK file : file = wav.handle.file /\ file = WithData(sf_open_write(sub, channels), Data(0, bytes))
  BY <1>1, <1>2 DEF WavIInv, WritingOK
<1>4. /\ Last(file.chunks) = Data(0, bytes)
      /\ \A d : WithData(file, d) = WithData(sf_open_write(sub, channels), d)
  BY <1>3, WithDataIs
<1>5. PICK chunks \in Seq(WavChunk) : chunks = file.chunks
  BY <1>3, WavParts DEF WavIInv
<1>6. chunks # << >>
  <2>1. Len(chunks) # 0
    <3>1. chunks = IF sub = "FLOAT" THEN <<Fmt(18, sub, channels), Other(4), Data(0, bytes)>>
                   ELSE <<Fmt(16, sub, channels), Data(0, bytes)>>
      BY <1>3, <1>5, WithDataIs
    <3> QED
      BY <3>1
  <2> QED
    BY <2>1
<1>7. bytes \in Seq(WavByte)
  <2>1. Len(chunks) \in 1..Len(chunks)
    BY <1>5, <1>6, LenProperties, EmptySeq
  <2>2. chunks[Len(chunks)] = Data(0, bytes)
    BY <1>4, <1>5 DEF Last
  <2>3. Data(0, bytes).id = "data" /\ Data(0, bytes).bytes = bytes
    BY DEF Data
  <2> QED
    BY <2>1, <2>2, <2>3, ChunkIs
<1>8. Data(0, bytes).bytes = bytes
  BY DEF Data
<1> QED
  BY <1>1, <1>3, <1>4, <1>7, <1>8

\* The frames that a write took, of those it was given.
LEMMA TakenOf ==
  ASSUME NEW n \in 1..2, NEW q \in Nat, q <= n, NEW r \in Nat, NEW channels \in 1..8
  PROVE  q * channels \in 0..(n * channels) /\ (r + q) * channels = r * channels + q * channels
<1>1. n = 1 \/ n = 2
  OBVIOUS
<1>2. q = 0 \/ q = 1 \/ q = 2
  OBVIOUS
<1> QED
  BY <1>1, <1>2

\* The beginning of a sequence; all of it.
LEMMA BeginningOf ==
  ASSUME NEW S, NEW s \in Seq(S), NEW k \in Nat, k <= Len(s)
  PROVE  SubSeq(s, 1, k) \in Seq(S) /\ Len(SubSeq(s, 1, k)) = k
<1>1. Len(s) \in Nat
  BY LenProperties
<1>2. \A i \in 1..k : s[i] \in S
  BY <1>1, ElementOfSeq
<1> QED
  BY <1>1, <1>2

LEMMA WholeOf ==
  ASSUME NEW S, NEW s \in Seq(S), NEW k, k = Len(s)
  PROVE  SubSeq(s, 1, k) = s
BY LenProperties

\* A write that does not fail adds the bytes of its frames.
LEMMA WriteKeeps ==
  ASSUME WavIInv, NEW n \in 1..2, NEW a \in Nat, Writef(n, a)
  PROVE  WavIInv'
<1> DEFINE h == wav.handle
<1>1. /\ wav.phase = "write" /\ wav.own \in BOOLEAN
      /\ h.sub \in DOMAIN Sub /\ h.channels \in 1..8
  BY WavParts DEF WavIInv, Writef
<1>2. PICK sub \in DOMAIN Sub, ch \in 1..8, type \in DOMAIN Type, r \in Nat,
             want0 \in Seq(0..7) :
        sub = h.sub /\ ch = h.channels /\ type = wav.type /\ r = h.remaining /\ want0 = wav.want
  BY WavParts DEF WavIInv
<1>3. PICK f \in WavFormats : f = Sub[sub] /\ f.size \in 1..4
  BY SubIs
<1>4. PICK s \in 1..4 : s = f.size
  BY <1>3
<1>5. PICK b \in Nat \ {0} : b = h.bytesPerFrame /\ b = s * ch
  BY <1>2, <1>3, <1>4, FrameBytes
<1>6. PICK old \in Seq(WavByte) : old = Last(h.file.chunks).bytes
  BY <1>1, DataWritten
<1>7. Last(h.file.chunks) = Data(0, old)
  BY <1>1, <1>6, DataWritten
<1>8. PICK m \in Nat : m = r * ch
  OBVIOUS
<1>9. m * s = r * b
  BY <1>5, <1>8, WavFrameIs
<1>10. wav.own => want0 = Remainders(0, m)
  <2>1. wav.own => want0 = [i \in 1..m |-> i % 8]
    BY <1>1, <1>2, <1>8 DEF WavIInv, WritingOK
  <2> QED
    BY <2>1 DEF Remainders
<1>11. wav.got = << >> /\ h.file = WithData(sf_open_write(sub, ch), Data(0, old))
  BY <1>1, <1>2, <1>6 DEF WavIInv, WritingOK
<1>12. wav.own => Follow(old, 0, f)
  <2>1. wav.own => \A p \in 1..Len(old) : old[p] = WrittenByte(p, f)
    BY <1>1, <1>2, <1>3, <1>6 DEF WavIInv, WritingOK
  <2>2. \A p \in 1..Len(old) : 0 + p = p
    OBVIOUS
  <2> QED
    BY <2>1, <2>2 DEF Follow
<1>13. PICK l \in Nat : l = Len(old)
  BY LenProperties
<1>14. wav.own => l = r * b
  BY <1>1, <1>2, <1>5, <1>6, <1>13 DEF WavIInv, WritingOK
<1>15. PICK from \in Nat : from = Len(want0) /\ (wav.own => from = m)
  BY <1>10, RemaindersAre, LenProperties
<1>16. PICK c \in Nat, y \in Nat : c = n * ch /\ y = n * b /\ c * s = y
  <2>1. n \in Nat
    OBVIOUS
  <2>2. (n * ch) * s = n * (s * ch)
    BY <2>1, WavFrameIs
  <2>3. n * ch \in Nat /\ n * b \in Nat
    BY <2>1
  <2> QED
    BY <1>5, <2>2, <2>3
<1>17. PICK ks : ks = Remainders(from, c)
  OBVIOUS
<1>18. PICK new : new = IF sub \notin DOMAIN Writers[type] THEN << >>
                        ELSE Stored(GivenTo(type, sub, ks), Sub[sub])
  OBVIOUS
<1>19. PICK q : q = a \div b
  OBVIOUS
<1>20. PICK kept \in Nat :
         /\ a <= Len(new) /\ kept <= l + a /\ (a = Len(new) => kept = l + a)
         /\ wav' = [wav EXCEPT
              !.own = wav.own /\ ~(a < Len(new)),
              !.handle.file = WithData(h.file, [Data(0, old) EXCEPT !.bytes = SubSeq(old \o new, 1, kept)]),
              !.handle.remaining = r + q,
              !.want = want0 \o SubSeq(ks, 1, q * ch)]
  <2> DEFINE given == [i \in 1..(n * h.channels) |-> (Len(wav.want) + i) % 8]
             bytes == IF h.sub \notin DOMAIN Writers[wav.type] THEN << >>
                      ELSE Stored([i \in DOMAIN given |->
                                     Apply(Writers[wav.type][h.sub], Value(given[i], Type[wav.type]))],
                                  Sub[h.sub])
             data == Last(h.file.chunks)
  <2>1. a <= Len(bytes) /\ \E kept \in 0..(Len(data.bytes) + a) :
          /\ Len(data.bytes) + a - kept \in IF a < Len(bytes) THEN Torn ELSE {0}
          /\ wav' = [wav EXCEPT
               !.own = wav.own /\ ~(a < Len(bytes)),
               !.handle.file = WithData(h.file,
                                 [data EXCEPT !.bytes = SubSeq(data.bytes \o bytes, 1, kept)]),
               !.handle.remaining = h.remaining + (a \div h.bytesPerFrame),
               !.want = wav.want \o SubSeq(given, 1, (a \div h.bytesPerFrame) * h.channels)]
    BY Zenon DEF Writef
  <2>2. given = ks
    BY <1>2, <1>15, <1>16, <1>17 DEF Remainders
  <2>3. bytes = new
    BY <1>2, <1>18, <2>2 DEF GivenTo
  <2>4. data = Data(0, old) /\ data.bytes = old
    BY <1>6, <1>7
  <2> HIDE DEF given, bytes, data
  <2>5. PICK kept \in 0..(Len(data.bytes) + a) :
          /\ Len(data.bytes) + a - kept \in IF a < Len(bytes) THEN Torn ELSE {0}
          /\ wav' = [wav EXCEPT
               !.own = wav.own /\ ~(a < Len(bytes)),
               !.handle.file = WithData(h.file,
                                 [data EXCEPT !.bytes = SubSeq(data.bytes \o bytes, 1, kept)]),
               !.handle.remaining = h.remaining + (a \div h.bytesPerFrame),
               !.want = wav.want \o SubSeq(given, 1, (a \div h.bytesPerFrame) * h.channels)]
    BY <2>1, Zenon
  <2>6. a <= Len(new) /\ kept \in Nat /\ kept <= l + a /\ (a = Len(new) => kept = l + a)
    <3>1. kept \in 0..(l + a) /\ l + a - kept \in IF a < Len(new) THEN Torn ELSE {0}
      BY <1>13, <2>3, <2>4, <2>5
    <3>2. a = Len(new) => ~(a < Len(new))
      OBVIOUS
    <3>3. a = Len(new) => l + a - kept \in {0}
      BY <3>1, <3>2, Zenon
    <3>4. a = Len(new) => l + a - kept = 0
      BY <3>3
    <3>5. kept \in Nat /\ kept <= l + a /\ (l + a - kept = 0 => kept = l + a)
      BY <3>1
    <3>6. a <= Len(new)
      BY <2>1, <2>3, Zenon
    <3> QED
      BY <3>4, <3>5, <3>6, Zenon
  <2>7. /\ h.remaining + (a \div h.bytesPerFrame) = r + q
        /\ wav.want \o SubSeq(given, 1, (a \div h.bytesPerFrame) * h.channels)
             = want0 \o SubSeq(ks, 1, q * ch)
    BY <1>2, <1>5, <1>19, <2>2
  <2>8. wav' = [wav EXCEPT
          !.own = wav.own /\ ~(a < Len(new)),
          !.handle.file = WithData(h.file, [Data(0, old) EXCEPT !.bytes = SubSeq(old \o new, 1, kept)]),
          !.handle.remaining = r + q,
          !.want = want0 \o SubSeq(ks, 1, q * ch)]
    BY <2>3, <2>4, <2>5, <2>7
  <2> QED
    BY <2>6, <2>8
<1>21. /\ new \in Seq(WavByte) /\ (Len(new) = 0 \/ Len(new) = y)
       /\ Follow(new, from * s, f)
  <2>1. CASE sub \notin DOMAIN Writers[type]
    <3>1. new = << >>
      BY <1>18, <2>1
    <3> QED
      BY <3>1 DEF Follow
  <2>2. CASE sub \in DOMAIN Writers[type]
    <3>1. GivenTo(type, sub, ks) = Eighths(from, c, f)
      BY <1>3, <1>17, <2>2, SamplesConverted
    <3>2. new = Stored(Eighths(from, c, f), f)
      BY <1>3, <1>18, <2>2, <3>1
    <3>3. new \in Seq(WavByte) /\ Len(new) = c * f.size /\ Follow(new, from * f.size, f)
      BY <1>3, <3>2, SamplesStored
    <3> QED
      BY <1>4, <1>16, <3>3
  <2> QED
    BY <2>1, <2>2
<1>22. PICK w \in Nat : w = Len(new) /\ (w = 0 \/ w = y) /\ a <= w
  BY <1>20, <1>21, LenProperties
<1>23. kept <= l + a /\ (a = w => kept = l + a)
  BY <1>20, <1>22
<1>24. PICK both : both = SubSeq(old \o new, 1, kept)
  OBVIOUS
<1>25. both \in Seq(WavByte)
  <2>1. old \o new \in Seq(WavByte) /\ Len(old \o new) = l + w
    BY <1>13, <1>21, <1>22, ConcatProperties
  <2>2. kept <= l + w
    BY <1>22, <1>23
  <2> QED
    BY <1>24, <2>1, <2>2, BeginningOf
<1>26. /\ q \in Nat /\ q <= n
       /\ a = y => q = n
       /\ a = 0 => q = 0
  <2>1. n \in Nat /\ a <= n * b
    BY <1>16, <1>22
  <2>2. q \in Nat /\ q <= n /\ (a = n * b => q = n)
    BY <1>19, <2>1, FramesWritten
  <2>3. a = 0 => q = 0
    BY <1>19
  <2> QED
    BY <1>16, <2>2, <2>3
<1>27. PICK d \in 0..c : d = q * ch /\ (r + q) * ch = m + d
  BY <1>8, <1>16, <1>26, TakenOf
<1>28. PICK want : want = want0 \o SubSeq(ks, 1, d)
  OBVIOUS
<1>29. want \in Seq(0..7) /\ (wav.own => want = Remainders(0, m + d))
  <2>1. ASSUME wav.own
        PROVE  want = Remainders(0, m + d)
    <3>1. want = Remainders(0, m) \o SubSeq(Remainders(m, c), 1, d)
      BY <1>10, <1>15, <1>17, <1>28, <2>1
    <3> QED
      BY <3>1, MoreIsWanted
  <2>2. ks \in Seq(0..7) /\ Len(ks) = c
    BY <1>17, RemaindersAre
  <2>3. SubSeq(ks, 1, d) \in Seq(0..7)
    BY <2>2, BeginningOf
  <2> QED
    BY <1>28, <2>1, <2>3, ConcatProperties
<1>30. PICK own \in BOOLEAN : own = (wav.own /\ ~(a < w))
  OBVIOUS
<1>31. own => wav.own /\ a = w /\ kept = l + w
  <2>1. own => wav.own /\ ~(a < w)
    BY <1>30, Zenon
  <2>2. ~(a < w) => a = w
    BY <1>22
  <2> QED
    BY <1>23, <2>1, <2>2
<1>32. own => Len(both) = (r + q) * b /\ Follow(both, 0, f)
  <2> SUFFICES ASSUME own
               PROVE  Len(both) = (r + q) * b /\ Follow(both, 0, f)
    OBVIOUS
  <2>1. both = old \o SubSeq(new, 1, w)
    <3>1. /\ old \o new \in Seq(WavByte) /\ Len(old \o new) = l + w
      BY <1>13, <1>21, <1>22, ConcatProperties
    <3>2. both = old \o new
      BY <1>24, <1>31, <3>1, WholeOf
    <3>3. SubSeq(new, 1, w) = new
      BY <1>21, <1>22, WholeOf
    <3> QED
      BY <3>2, <3>3
  <2>2. Follow(new, Len(old), f)
    BY <1>9, <1>13, <1>14, <1>15, <1>21, <1>31
  <2>3. Appended(both, old, new, w, f)
    BY <1>12, <1>31, <2>1, <2>2, Zenon DEF Appended
  <2>4. w \in 0..Len(new)
    BY <1>22
  <2>5. Len(both) = l + w /\ Follow(both, 0, f)
    BY <1>13, <1>21, <2>3, <2>4, MoreIsWritten
  <2>6. (r + q) * b = r * b + w
    <3>1. CASE w = 0
      BY <1>26, <1>31, <3>1
    <3>2. CASE w = y
      <4>1. q = n /\ (r + n) * b = r * b + n * b
        BY <1>26, <1>31, <3>2
      <4> QED
        BY <1>16, <3>2, <4>1
    <3> QED
      BY <1>22, <3>1, <3>2
  <2> QED
    BY <1>14, <1>31, <2>5, <2>6
<1>33. PICK file : file = WithData(sf_open_write(sub, ch), Data(0, both))
  OBVIOUS
<1>34. file \in WavFiles
  <2>1. WrittenAs(file, sub, ch, 0, both)
    BY <1>33 DEF WrittenAs
  <2> QED
    BY <1>25, <2>1, WriterFileIs
<1>35. Last(file.chunks) = Data(0, both)
  BY <1>33, WithDataIs
<1>36. WithData(h.file, [Data(0, old) EXCEPT !.bytes = both]) = file
  <2>1. [Data(0, old) EXCEPT !.bytes = both] = Data(0, both)
    BY DEF Data
  <2> QED
    BY <1>1, <1>2, <1>33, <2>1, DataWritten
<1>37. wav' = [wav EXCEPT !.own = own, !.handle.file = file, !.handle.remaining = r + q, !.want = want]
  BY <1>20, <1>22, <1>24, <1>27, <1>28, <1>30, <1>36
<1>38. /\ wav'.phase = "write" /\ wav'.own = own /\ wav'.want = want
       /\ wav'.got = wav.got /\ wav'.handle.file = file /\ wav'.handle.remaining = r + q
       /\ wav'.handle.sub = sub /\ wav'.handle.channels = ch
       /\ wav'.handle.bytesPerFrame = b
  BY <1>1, <1>2, <1>5, <1>37 DEF WavIInv, WavTypeOK
<1>39. WavTypeOK'
  <2>1. r + q \in Nat
    BY <1>26
  <2> QED
    BY <1>29, <1>34, <1>37, <2>1 DEF WavIInv, WavTypeOK
<1>40. WritingOK'
  <2>1. /\ Last(wav'.handle.file.chunks).bytes = both
        /\ Data(0, both).bytes = both
    BY <1>35, <1>38 DEF Data
  <2>2. own => want = [i \in 1..((r + q) * ch) |-> i % 8]
    <3>1. \A i \in 1..(m + d) : 0 + i = i
      OBVIOUS
    <3> QED
      BY <1>27, <1>29, <1>31, <3>1 DEF Remainders
  <2>3. own => \A p \in 1..Len(both) : both[p] = WrittenByte(p, f)
    <3>1. \A p \in 1..Len(both) : 0 + p = p
      BY <1>25, LenProperties
    <3> QED
      BY <1>32, <3>1 DEF Follow
  <2> QED
    BY <1>3, <1>32, <1>33, <1>38, <2>1, <2>2, <2>3 DEF WritingOK
<1>41. ReadsBackWhatWasWritten'
  BY <1>38 DEF ReadsBackWhatWasWritten
<1> QED
  BY <1>3, <1>4, <1>5, <1>11, <1>38, <1>39, <1>40, <1>41 DEF WavIInv

\* Closing writes the header's sizes: the samples to be found in the file are
\* those written, if nothing failed.
LEMMA ClosedFileIs ==
  ASSUME WavIInv, wav.phase = "write"
  PROVE  LET h == wav.handle
             bytes == Last(h.file.chunks).bytes
         IN  \E size \in Nat, n \in Nat :
               /\ sf_close(h) = [WithData(sf_open_write(h.sub, h.channels), Data(size, bytes))
                                  EXCEPT !.riffSize = n]
               /\ sf_close(h) \in WavFiles
               /\ wav.own => wav.want = SamplesOf(sf_close(h)) /\ WellFormed(sf_close(h))
<1> DEFINE h == wav.handle
<1>2. PICK sub \in DOMAIN Sub, ch \in 1..8, r \in Nat :
        sub = h.sub /\ ch = h.channels /\ r = h.remaining
  BY WavParts DEF WavIInv
<1>3. PICK f \in WavFormats : f = Sub[sub] /\ f.size \in 1..4
  BY SubIs
<1>4. PICK s \in 1..4 : s = f.size
  BY <1>3
<1>5. PICK b \in Nat \ {0} : b = h.bytesPerFrame /\ b = s * ch
  BY <1>2, <1>3, <1>4, FrameBytes
<1>6. PICK bytes \in Seq(WavByte) : bytes = Last(h.file.chunks).bytes
  BY DataWritten
<1>7. Last(h.file.chunks) = Data(0, bytes)
  BY <1>6, DataWritten
<1>8. PICK l \in Nat : l = Len(bytes)
  BY LenProperties
<1>9. PICK size \in Nat : size = r * b
  OBVIOUS
<1>10. wav.own => size = l
  BY <1>2, <1>5, <1>6, <1>8, <1>9 DEF WavIInv, WritingOK
<1>11. wav.own => Follow(bytes, 0, f)
  <2>1. wav.own => \A p \in 1..Len(bytes) : bytes[p] = WrittenByte(p, f)
    BY <1>2, <1>3, <1>6 DEF WavIInv, WritingOK
  <2>2. \A p \in 1..Len(bytes) : 0 + p = p
    BY <1>8
  <2> QED
    BY <2>1, <2>2 DEF Follow
<1>12. PICK m \in Nat : m = r * ch /\ m * s = size
  <2>1. (r * ch) * s = r * (s * ch) /\ r * ch \in Nat
    BY WavFrameIs
  <2> QED
    BY <1>5, <1>9, <2>1
<1>13. wav.own => wav.want = Remainders(0, m)
  <2>1. wav.own => wav.want = [i \in 1..m |-> i % 8]
    BY <1>2, <1>12 DEF WavIInv, WritingOK
  <2>2. \A i \in 1..m : 0 + i = i
    OBVIOUS
  <2> QED
    BY <2>1, <2>2 DEF Remainders
<1>14. PICK own : own = WithData(sf_open_write(sub, ch), Data(size, bytes))
  OBVIOUS
<1>15. own \in WavFiles
  <2>1. WrittenAs(own, sub, ch, size, bytes)
    BY <1>14 DEF WrittenAs
  <2> QED
    BY <2>1, WriterFileIs
<1>16. WithData(h.file, [Last(h.file.chunks) EXCEPT !.size = size]) = own
  <2>1. [Data(0, bytes) EXCEPT !.size = size] = Data(size, bytes)
    BY DEF Data
  <2> QED
    BY <1>2, <1>7, <1>14, <2>1, DataWritten
<1>17. PICK n \in Nat : n = size + 36 + (IF h.sub = "FLOAT" THEN 14 ELSE 0)
  OBVIOUS
<1>18. PICK file : file = [own EXCEPT !.riffSize = n]
  OBVIOUS
<1>19. sf_close(h) = file
  BY <1>2, <1>5, <1>9, <1>16, <1>17, <1>18 DEF sf_close
<1>20. file \in WavFiles /\ file.chunks = own.chunks
  BY <1>15, <1>18 DEF WavFiles
<1>21. HasChunksOf(file, sub, ch, size, bytes)
  BY <1>14, <1>20 DEF HasChunksOf
<1>22. WellFormed(file)
  <2>1. file.riffSize = size + 36 + (IF sub = "FLOAT" THEN 14 ELSE 0)
    BY <1>2, <1>15, <1>17, <1>18 DEF WavFiles
  <2> QED
    BY <1>21, <2>1, WriterFileOpens
<1>23. ASSUME wav.own
       PROVE  wav.want = SamplesOf(file)
  <2>1. r = Min({size, Len(bytes)}) \div (Sub[sub].size * ch)
    <3>1. size <= l
      BY <1>10, <1>23
    <3>2. Min({size, l}) \div b = r
      BY <1>9, <3>1, FramesThere
    <3> QED
      BY <1>3, <1>4, <1>5, <1>8, <3>2
  <2>2. SamplesOf(file) = SamplesIn(bytes, f, r * ch)
    <3>1. SamplesOf(file)
            = SamplesIn(bytes, Sub[sub], (Min({size, Len(bytes)}) \div (Sub[sub].size * ch)) * ch)
      BY <1>21, WriterSamplesAre
    <3> QED
      BY <1>3, <2>1, <3>1, Zenon
  <2>3. SamplesIn(bytes, f, m) = Remainders(0, m)
    <3>1. m * f.size <= Len(bytes)
      BY <1>4, <1>8, <1>10, <1>12, <1>23
    <3> QED
      BY <1>3, <1>11, <1>23, <3>1, WholeSamples
  <2> QED
    BY <1>12, <1>13, <1>23, <2>2, <2>3
<1> QED
  BY <1>2, <1>6, <1>14, <1>18, <1>19, <1>20, <1>22, <1>23

\* What is left of a file when something failed is a file of some kind.
LEMMA SpoiltFileIs ==
  ASSUME WavIInv, wav.phase = "write", NEW file \in Spoilt(wav.handle)
  PROVE  file \in WavFiles
<1> DEFINE h == wav.handle
<1>1. PICK sub \in DOMAIN Sub, ch \in 1..8 : sub = h.sub /\ ch = h.channels
  BY WavParts DEF WavIInv
<1>2. PICK bytes \in Seq(WavByte) : bytes = Last(h.file.chunks).bytes
  BY DataWritten
<1>3. ASSUME NEW old, old \in WavFiles, NEW size \in Nat, NEW n \in Nat,
             old = [WithData(sf_open_write(sub, ch), Data(size, bytes)) EXCEPT !.riffSize = n],
             NEW kept \in 0..Len(bytes)
      PROVE  WithData(old, Data(Last(old.chunks).size, SubSeq(bytes, 1, kept))) \in WavFiles
  <2>1. PICK part \in Seq(WavByte) : part = SubSeq(bytes, 1, kept)
    <3>1. kept \in Nat /\ kept <= Len(bytes)
      BY LenProperties
    <3>2. SubSeq(bytes, 1, kept) \in Seq(WavByte)
      BY <3>1, BeginningOf
    <3> QED
      BY <3>2
  <2>2. PICK written : written = WithData(sf_open_write(sub, ch), Data(size, bytes))
    OBVIOUS
  <2>3. PICK torn : torn = WithData(sf_open_write(sub, ch), Data(size, part))
    OBVIOUS
  <2>4. written \in WavFiles /\ torn \in WavFiles
    <3>1. WrittenAs(written, sub, ch, size, bytes) /\ WrittenAs(torn, sub, ch, size, part)
      BY <2>2, <2>3 DEF WrittenAs
    <3> QED
      BY <3>1, WriterFileIs
  <2>5. Last(written.chunks) = Data(size, bytes) /\ WithData(written, Data(size, part)) = torn
    BY <2>2, <2>3, WithDataIs
  <2>6. old.chunks = written.chunks /\ old.riffSize = n
    BY <1>3, <2>2, <2>4 DEF WavFiles
  <2>7. Last(old.chunks).size = size
    BY <2>5, <2>6 DEF Data
  <2>8. WithData(old, Data(size, part)) = [torn EXCEPT !.riffSize = n]
    <3>1. PICK chunks : chunks = [written.chunks EXCEPT ![Len(written.chunks)] = Data(size, part)]
      OBVIOUS
    <3>2. WithData(written, Data(size, part)) = [written EXCEPT !.chunks = chunks]
      BY <3>1 DEF WithData
    <3>3. WithData(old, Data(size, part)) = [old EXCEPT !.chunks = chunks]
      BY <2>6, <3>1 DEF WithData
    <3>4. torn = [written EXCEPT !.chunks = chunks]
      BY <2>5, <3>2
    <3> QED
      BY <1>3, <2>2, <2>4, <3>3, <3>4 DEF WavFiles
  <2>9. [torn EXCEPT !.riffSize = n] \in WavFiles
    BY <2>4 DEF WavFiles
  <2> QED
    BY <2>1, <2>7, <2>8, <2>9
<1>4. h.file \in WavFiles /\ h.file = WithData(sf_open_write(sub, ch), Data(0, bytes))
  BY <1>1, <1>2, WavParts DEF WavIInv, WritingOK
<1>5. \E n \in Nat :
        h.file = [WithData(sf_open_write(sub, ch), Data(0, bytes)) EXCEPT !.riffSize = n]
  <2>1. h.file.riffSize \in Nat /\ h.file = [h.file EXCEPT !.riffSize = h.file.riffSize]
    BY <1>4 DEF WavFiles
  <2> QED
    BY <1>4, <2>1
<1>6. \E size \in Nat, n \in Nat :
        /\ sf_close(h) = [WithData(sf_open_write(sub, ch), Data(size, bytes)) EXCEPT !.riffSize = n]
        /\ sf_close(h) \in WavFiles
  BY <1>1, <1>2, ClosedFileIs
<1>7. NoHeader \in WavFiles
  BY EmptySeq DEF NoHeader, WavFiles
<1>8. CASE file = NoHeader
  BY <1>7, <1>8
<1>9. CASE \E old \in {h.file, sf_close(h)}, kept \in 0..Len(bytes) :
             file = WithData(old, Data(Last(old.chunks).size, SubSeq(bytes, 1, kept)))
  <2>1. PICK old \in {h.file, sf_close(h)}, kept \in 0..Len(bytes) :
          file = WithData(old, Data(Last(old.chunks).size, SubSeq(bytes, 1, kept)))
    BY <1>9
  <2>2. CASE old = h.file
    BY <1>3, <1>4, <1>5, <2>1, <2>2
  <2>3. CASE old = sf_close(h)
    BY <1>3, <1>6, <2>1, <2>3
  <2> QED
    BY <2>1, <2>2, <2>3
<1> QED
  BY <1>2, <1>8, <1>9 DEF Spoilt

LEMMA CloseKeeps ==
  ASSUME WavIInv, Close
  PROVE  WavIInv'
<1> DEFINE h == wav.handle
<1>1. wav.phase = "write"
  BY DEF Close
<1>2. PICK type \in DOMAIN Type, file \in {sf_close(h)} \cup Spoilt(h) :
        wav' = [wav EXCEPT !.phase = "open", !.type = type, !.handle.file = file,
                           !.own = wav.own /\ file = sf_close(h)]
  BY DEF Close
<1>3. PICK own \in BOOLEAN : own = (wav.own /\ file = sf_close(h))
  OBVIOUS
<1>4. file \in WavFiles
  BY <1>1, <1>2, ClosedFileIs, SpoiltFileIs
<1>5. own => wav.want = SamplesOf(file) /\ WellFormed(file)
  BY <1>1, <1>3, ClosedFileIs
<1>6. PICK handle : handle = [h EXCEPT !.file = file]
  OBVIOUS
<1>7. /\ handle \in [file : WavFiles, sub : DOMAIN Sub, channels : 1..8, bytesPerFrame : Nat,
                     remaining : Nat]
      /\ handle.file = file /\ handle.sub = h.sub /\ handle.channels = h.channels
      /\ handle.bytesPerFrame = h.bytesPerFrame
  BY <1>4, <1>6 DEF WavIInv, WavTypeOK
<1>8. wav' = [wav EXCEPT !.phase = "open", !.type = type, !.handle = handle, !.own = own]
  BY <1>2, <1>3, <1>6
<1>9. /\ wav'.phase = "open" /\ wav'.own = own /\ wav'.want = wav.want /\ wav'.got = wav.got
      /\ wav'.handle = handle
  BY <1>8 DEF WavIInv, WavTypeOK
<1>10. WavTypeOK'
  BY <1>7, <1>8 DEF WavIInv, WavTypeOK
<1>11. wav.got = << >> /\ h.bytesPerFrame = Sub[h.sub].size * h.channels
  BY <1>1 DEF WavIInv
<1> QED
  BY <1>5, <1>7, <1>9, <1>10, <1>11 DEF WavIInv, ReadsBackWhatWasWritten

-----------------------------------------------------------------------------
(***************************************************************************)
(* WavFile: opening.                                                       *)
(***************************************************************************)

\* A header too short for anything is no file's; otherwise nothing is read yet.
LEMMA OpenReadKeeps ==
  ASSUME WavIInv, OpenRead
  PROVE  WavIInv'
<1>1. PICK file \in WavFiles, chunks \in Seq(WavChunk), riffSize \in Nat :
        file = wav.handle.file /\ chunks = file.chunks /\ riffSize = file.riffSize
  BY WavParts DEF WavIInv
<1>2. PICK phase \in {"closed", "chunks"} : phase = IF riffSize < 4 THEN "closed" ELSE "chunks"
  OBVIOUS
<1>3. PICK rest \in Int : rest = riffSize - 4
  OBVIOUS
<1>4. /\ wav.phase = "open"
      /\ wav' = [wav EXCEPT !.phase = phase,
                   !.scan = [at |-> 1, remaining |-> rest, hadFmt |-> FALSE, data |-> 0]]
  BY <1>1, <1>2, <1>3 DEF OpenRead
<1>5. /\ wav'.phase = phase /\ wav'.own = wav.own /\ wav'.want = wav.want /\ wav'.got = wav.got
      /\ wav'.handle = wav.handle
      /\ wav'.scan = [at |-> 1, remaining |-> rest, hadFmt |-> FALSE, data |-> 0]
  BY <1>4 DEF WavIInv, WavTypeOK
<1>6. WavTypeOK'
  BY <1>4 DEF WavIInv, WavTypeOK
<1>7. Len(chunks) \in Nat /\ 0 \in 0..Len(chunks) /\ ChunkEnds(chunks)[0] = 4
  <2>1. Len(chunks) \in Nat
    BY LenProperties
  <2> QED
    BY <2>1, ChunkEndsAre
<1>8. phase = "closed" => ~WellFormed(file)
  <2> SUFFICES ASSUME riffSize < 4, NEW n \in DOMAIN chunks, riffSize = ChunkEnds(chunks)[n]
               PROVE  FALSE
    BY <1>1, <1>2 DEF WellFormed
  <2>1. n \in 0..Len(chunks) /\ 0 < n
    BY LenProperties
  <2>2. ChunkEnds(chunks)[0] < ChunkEnds(chunks)[n] /\ ChunkEnds(chunks)[n] \in Nat
    BY <1>7, <2>1, EndsApart
  <2> QED
    BY <1>7, <2>2
<1>9. phase = "chunks" => ScanningOK'
  <2> SUFFICES ASSUME phase = "chunks"
               PROVE  ScanningOK'
    OBVIOUS
  <2>1. rest >= 0 /\ rest = riffSize - ChunkEnds(chunks)[0]
    BY <1>2, <1>3, <1>7
  <2>2. /\ wav'.handle.file.chunks = chunks /\ wav'.handle.file.riffSize = riffSize
        /\ wav'.scan.at - 1 = 0 /\ wav'.scan.remaining = rest /\ wav'.scan.hadFmt = FALSE
        /\ wav'.scan.data = 0
    BY <1>1, <1>5
  <2> QED
    BY <1>7, <2>1, <2>2 DEF ScanningOK, Scanned
<1> QED
  BY <1>1, <1>2, <1>4, <1>5, <1>6, <1>8, <1>9 DEF WavIInv, ReadsBackWhatWasWritten

\* The next chunk lies within what later chunks fill.
LEMMA NextChunkFits ==
  ASSUME NEW chunks \in Seq(WavChunk), NEW k \in 0..Len(chunks), NEW n \in 1..Len(chunks), k < n
  PROVE  ChunkEnds(chunks)[k] + 8 + chunks[k + 1].size <= ChunkEnds(chunks)[n]
<1>1. k \in Nat /\ n \in Nat /\ Len(chunks) \in Nat /\ n \in 0..Len(chunks)
  BY LenProperties
<1>2. PICK x \in Nat, y \in Nat : x = ChunkEnds(chunks)[k] /\ y = ChunkEnds(chunks)[n]
  BY <1>1, EndsApart
<1>3. k + 1 \in 1..Len(chunks) /\ k + 1 \in 0..Len(chunks) /\ k + 1 <= n /\ k + 1 - 1 = k
  BY <1>1
<1>4. PICK z \in Nat, size \in Nat : z = ChunkEnds(chunks)[k + 1] /\ size = chunks[k + 1].size
  BY <1>3, EndsApart, ChunkIs
<1>5. z = x + 8 + size
  <2>1. ChunkEnds(chunks)[k + 1] = ChunkEnds(chunks)[k + 1 - 1] + 8 + chunks[k + 1].size
    BY <1>1, <1>3, ChunkEndsAre
  <2> QED
    BY <1>2, <1>3, <1>4, <2>1
<1>6. z <= y
  <2>1. CASE k + 1 = n
    BY <1>2, <1>4, <2>1
  <2>2. CASE k + 1 < n
    <3>1. z + 8 <= y
      BY <1>1, <1>2, <1>3, <1>4, <2>2, EndsApart
    <3> QED
      BY <3>1
  <2> QED
    BY <1>1, <1>3, <2>1, <2>2
<1> QED
  BY <1>2, <1>4, <1>5, <1>6

\* A chunk that is refused is in no file that the reader should take.
Refused(chunks, k, rest, hadFmt, data) ==
  \/ k + 1 > Len(chunks)
  \/ chunks[k + 1].size > rest - 8
  \/ chunks[k + 1].id = "fmt" /\ (hadFmt \/ ~chunks[k + 1].good)
  \/ chunks[k + 1].id = "data" /\ (~hadFmt \/ data # 0)

LEMMA RefusedIsNot ==
  ASSUME NEW chunks \in Seq(WavChunk), NEW k \in 0..Len(chunks), NEW hadFmt \in BOOLEAN,
         NEW data \in Nat, NEW sub, NEW channels, Scanned(chunks, k, hadFmt, data, sub, channels)
  PROVE  \A file : \A rest \in Int :
           (/\ file.chunks = chunks /\ rest >= 8 /\ rest = file.riffSize - ChunkEnds(chunks)[k]
            /\ Refused(chunks, k, rest, hadFmt, data))
             => ~WellFormed(file)
<1> SUFFICES ASSUME NEW file, NEW rest \in Int, file.chunks = chunks, rest >= 8,
                    rest = file.riffSize - ChunkEnds(chunks)[k],
                    Refused(chunks, k, rest, hadFmt, data)
             PROVE  ~WellFormed(file)
  OBVIOUS
<1> SUFFICES ASSUME NEW n \in DOMAIN chunks, file.riffSize = ChunkEnds(chunks)[n],
                    NEW f \in 1..n, NEW d \in 1..n,
                    Only(chunks, n, "fmt", f), Only(chunks, n, "data", d), f < d, chunks[f].good
             PROVE  FALSE
  BY DEF WellFormed
<1>1. k \in Nat /\ Len(chunks) \in Nat /\ n \in 1..Len(chunks)
  BY LenProperties
<1>2. rest = ChunkEnds(chunks)[n] - ChunkEnds(chunks)[k]
  OBVIOUS
<1>20. PICK x \in Nat, y \in Nat : /\ x = ChunkEnds(chunks)[k] /\ y = ChunkEnds(chunks)[n]
                                   /\ n <= k => y <= x
  <2>1. n \in 0..Len(chunks) /\ (n <= k => n < k \/ n = k)
    BY <1>1
  <2>2. /\ ChunkEnds(chunks)[k] \in Nat /\ ChunkEnds(chunks)[n] \in Nat
        /\ n < k => ChunkEnds(chunks)[n] < ChunkEnds(chunks)[k]
    BY <2>1, EndsApart
  <2> QED
    BY <2>1, <2>2
<1>3. k < n
  BY <1>1, <1>2, <1>20
<1>4. chunks[k + 1].size <= rest - 8
  <2>1. k + 1 \in 1..Len(chunks)
    BY <1>1, <1>3
  <2>2. PICK size \in Nat : size = chunks[k + 1].size
    BY <2>1, ChunkIs
  <2>3. ChunkEnds(chunks)[k] + 8 + chunks[k + 1].size <= ChunkEnds(chunks)[n]
    <3>1. n \in 1..Len(chunks)
      BY <1>1
    <3> QED
      BY <1>3, <3>1, NextChunkFits, Zenon
  <2>4. x + 8 + size <= y
    BY <1>20, <2>2, <2>3
  <2>5. rest = y - x
    BY <1>2, <1>20, Zenon
  <2>6. size <= rest - 8
    BY <2>4, <2>5
  <2> QED
    BY <2>2, <2>6, Zenon
<1>5. PICK at \in 1..n : at = k + 1 /\ at <= Len(chunks)
  BY <1>1, <1>3
<1>6. chunks[at].size \in Nat
  BY <1>1, <1>5, ChunkIs
<1>7. \/ chunks[at].id = "fmt" /\ (hadFmt \/ ~chunks[at].good)
      \/ chunks[at].id = "data" /\ (~hadFmt \/ data # 0)
  <2>1. ~(k + 1 > Len(chunks)) /\ ~(chunks[at].size > rest - 8)
    BY <1>1, <1>4, <1>5, <1>6
  <2> QED
    BY <1>5, <2>1 DEF Refused
<1>8. \A j \in 1..n : (chunks[j].id = "fmt" => j = f) /\ (chunks[j].id = "data" => j = d)
  BY DEF Only
<1>9. chunks[f].id = "fmt" /\ chunks[d].id = "data"
  BY DEF Only
<1>10. \A j \in 1..k : j \in 1..n /\ j # at
  BY <1>1, <1>3, <1>5
<1>11. CASE chunks[at].id = "fmt" /\ ~chunks[at].good
  BY <1>5, <1>8, <1>11
<1>12. CASE chunks[at].id = "fmt" /\ hadFmt
  <2>1. PICK g \in 1..k : Only(chunks, k, "fmt", g)
    BY <1>12 DEF Scanned
  <2>2. chunks[g].id = "fmt"
    BY <2>1 DEF Only
  <2> QED
    BY <1>5, <1>8, <1>10, <1>12, <2>2
<1>13. CASE chunks[at].id = "data" /\ ~hadFmt
  <2>1. at = d
    BY <1>5, <1>8, <1>13
  <2>2. f \in 1..k
    BY <1>1, <1>5, <2>1
  <2> QED
    BY <1>9, <1>13, <2>2 DEF Scanned
<1>14. CASE chunks[at].id = "data" /\ data # 0
  <2>1. data \in 1..k /\ chunks[data].id = "data"
    BY <1>14 DEF Scanned, Only
  <2> QED
    BY <1>5, <1>8, <1>10, <1>14, <2>1
<1> QED
  BY <1>7, <1>11, <1>12, <1>13, <1>14

\* One chunk more.
LEMMA OnlyOneMore ==
  ASSUME NEW chunks, NEW k \in Nat, NEW id
  PROVE  /\ \A i : Only(chunks, k, id, i) /\ chunks[k + 1].id # id => Only(chunks, k + 1, id, i)
         /\ (\A i \in 1..k : chunks[i].id # id) /\ chunks[k + 1].id = id => Only(chunks, k + 1, id, k + 1)
         /\ (\A i \in 1..k : chunks[i].id # id) /\ chunks[k + 1].id # id
              => \A i \in 1..(k + 1) : chunks[i].id # id
<1>1. \A i \in 1..(k + 1) : i \in 1..k \/ i = k + 1
  OBVIOUS
<1>2. \A i \in 1..k : i \in 1..(k + 1)
  OBVIOUS
<1>3. k + 1 \in 1..(k + 1)
  OBVIOUS
<1> QED
  BY <1>1, <1>2, <1>3 DEF Only

LEMMA WavScanIs ==
  ASSUME WavIInv, wav.phase = "chunks"
  PROVE  \E k \in 0..Len(wav.handle.file.chunks), rest \in Nat :
           /\ wav.scan.at = k + 1 /\ wav.scan.remaining = rest
           /\ rest = wav.handle.file.riffSize - ChunkEnds(wav.handle.file.chunks)[k]
           /\ Scanned(wav.handle.file.chunks, k, wav.scan.hadFmt, wav.scan.data, wav.handle.sub,
                      wav.handle.channels)
           /\ wav.scan.data # 0 => wav.handle.remaining
                                    = wav.handle.file.chunks[wav.scan.data].size
                                        \div wav.handle.bytesPerFrame
<1>1. ScanningOK /\ WavTypeOK
  BY DEF WavIInv
<1>2. wav.scan.at \in Nat /\ wav.scan.remaining \in Int
  BY <1>1, WavParts
<1>3. PICK k \in Int : k = wav.scan.at - 1 /\ wav.scan.at = k + 1
  BY <1>2
<1>4. PICK rest \in Int : rest = wav.scan.remaining
  BY <1>2
<1>5. /\ k \in 0..Len(wav.handle.file.chunks) /\ rest >= 0
      /\ rest = wav.handle.file.riffSize - ChunkEnds(wav.handle.file.chunks)[k]
  BY <1>1, <1>3, <1>4, Zenon DEF ScanningOK
<1>6. Scanned(wav.handle.file.chunks, k, wav.scan.hadFmt, wav.scan.data, wav.handle.sub,
              wav.handle.channels)
  BY <1>1, <1>3, Zenon DEF ScanningOK
<1>7. wav.scan.data # 0 => wav.handle.remaining = wav.handle.file.chunks[wav.scan.data].size
                                                    \div wav.handle.bytesPerFrame
  BY <1>1, Zenon DEF ScanningOK
<1>8. rest \in Nat
  BY <1>5
<1> QED
  BY <1>3, <1>4, <1>5, <1>6, <1>7, <1>8, Zenon

\* What the chunks read are, one chunk later.
LEMMA NextScanned ==
  ASSUME NEW chunks, NEW k \in Nat, NEW hadFmt \in BOOLEAN, NEW data \in Nat, NEW sub, NEW channels,
         Scanned(chunks, k, hadFmt, data, sub, channels)
  PROVE  LET chunk == chunks[k + 1]
         IN  /\ chunk.id = "fmt" /\ ~hadFmt /\ chunk.good
                  => data = 0 /\ Scanned(chunks, k + 1, TRUE, 0, chunk.sub, chunk.channels)
             /\ chunk.id = "data" /\ hadFmt /\ data = 0
                  => Scanned(chunks, k + 1, TRUE, k + 1, sub, channels)
             /\ chunk.id = "other" => Scanned(chunks, k + 1, hadFmt, data, sub, channels)
<1> DEFINE chunk == chunks[k + 1]
<1>1. PICK at \in Nat : at = k + 1 /\ at # 0 /\ at \in 1..at
  OBVIOUS
<1>2. \A i \in 1..k : i \in 1..at /\ i < at
  BY <1>1
<1>3. /\ \A id, i : Only(chunks, k, id, i) /\ chunks[at].id # id => Only(chunks, at, id, i)
      /\ \A id : (\A i \in 1..k : chunks[i].id # id) /\ chunks[at].id = id => Only(chunks, at, id, at)
      /\ \A id : (\A i \in 1..k : chunks[i].id # id) /\ chunks[at].id # id
            => \A i \in 1..at : chunks[i].id # id
  BY <1>1, OnlyOneMore, Zenon
<1>4. /\ ~hadFmt => \A i \in 1..k : chunks[i].id # "fmt"
      /\ data = 0 => \A i \in 1..k : chunks[i].id # "data"
      /\ data # 0 => hadFmt /\ Only(chunks, k, "data", data)
  BY DEF Scanned
<1>5. hadFmt => \E f \in 1..k :
        /\ Only(chunks, k, "fmt", f) /\ chunks[f].good /\ (data # 0 => f < data)
        /\ sub = chunks[f].sub /\ channels = chunks[f].channels
  BY DEF Scanned
<1> HIDE DEF chunk
<1>6. ASSUME chunks[at].id = "fmt", ~hadFmt, chunks[at].good
      PROVE  data = 0 /\ Scanned(chunks, at, TRUE, 0, chunks[at].sub, chunks[at].channels)
  <2>1. data = 0
    BY <1>4, <1>6
  <2>2. Only(chunks, at, "fmt", at)
    BY <1>3, <1>4, <1>6
  <2>3. \A i \in 1..at : chunks[i].id # "data"
    BY <1>3, <1>4, <1>6, <2>1
  <2> QED
    BY <1>1, <1>6, <2>1, <2>2, <2>3 DEF Scanned
<1>7. ASSUME chunks[at].id = "data", hadFmt, data = 0
      PROVE  Scanned(chunks, at, TRUE, at, sub, channels)
  <2>1. PICK f \in 1..k : /\ Only(chunks, k, "fmt", f) /\ chunks[f].good
                          /\ sub = chunks[f].sub /\ channels = chunks[f].channels
    BY <1>5, <1>7
  <2>2. Only(chunks, at, "fmt", f)
    BY <1>3, <1>7, <2>1
  <2>3. Only(chunks, at, "data", at)
    BY <1>3, <1>4, <1>7
  <2>4. f \in 1..at /\ f < at
    BY <1>2
  <2> QED
    BY <1>1, <2>1, <2>2, <2>3, <2>4 DEF Scanned
<1>8. ASSUME chunks[at].id = "other"
      PROVE  Scanned(chunks, at, hadFmt, data, sub, channels)
  <2>1. ~hadFmt => \A i \in 1..at : chunks[i].id # "fmt"
    BY <1>3, <1>4, <1>8
  <2>2. hadFmt => \E f \in 1..at :
          /\ Only(chunks, at, "fmt", f) /\ chunks[f].good /\ (data # 0 => f < data)
          /\ sub = chunks[f].sub /\ channels = chunks[f].channels
    BY <1>2, <1>3, <1>5, <1>8
  <2>3. data = 0 => \A i \in 1..at : chunks[i].id # "data"
    BY <1>3, <1>4, <1>8
  <2>4. data # 0 => hadFmt /\ Only(chunks, at, "data", data)
    BY <1>3, <1>4, <1>8
  <2> QED
    BY <2>1, <2>2, <2>3, <2>4 DEF Scanned
<1> QED
  BY <1>1, <1>6, <1>7, <1>8 DEF chunk

\* What such a step leaves alone.
LEMMA ChunkStep ==
  ASSUME WavTypeOK, NEW handle, NEW scan, wav' = [wav EXCEPT !.handle = handle, !.scan = scan]
  PROVE  /\ wav'.phase = wav.phase /\ wav'.own = wav.own /\ wav'.want = wav.want
         /\ wav'.got = wav.got /\ wav'.handle = handle /\ wav'.scan = scan
BY DEF WavTypeOK

\* A step that has read one chunk more.
LEMMA OneChunkRead ==
  ASSUME WavIInv, wav.phase = "chunks",
         NEW handle \in [file : WavFiles, sub : DOMAIN Sub, channels : 1..8, bytesPerFrame : Nat,
                         remaining : Nat],
         handle.file = wav.handle.file,
         handle.bytesPerFrame = Sub[handle.sub].size * handle.channels,
         NEW scan \in [at : Nat, remaining : Int, hadFmt : BOOLEAN, data : Nat],
         wav' = [wav EXCEPT !.handle = handle, !.scan = scan],
         NEW k \in 0..Len(handle.file.chunks), k = scan.at - 1,
         scan.remaining = handle.file.riffSize - ChunkEnds(handle.file.chunks)[k],
         scan.remaining >= 0,
         Scanned(handle.file.chunks, k, scan.hadFmt, scan.data, handle.sub, handle.channels),
         scan.data # 0 => handle.remaining
                            = handle.file.chunks[scan.data].size \div handle.bytesPerFrame
  PROVE  WavIInv'
<1>1. /\ wav'.phase = "chunks" /\ wav'.own = wav.own /\ wav'.want = wav.want /\ wav'.got = wav.got
      /\ wav'.handle = handle /\ wav'.scan = scan
  BY ChunkStep, Zenon DEF WavIInv
<1>2. WavTypeOK'
  BY DEF WavIInv, WavTypeOK
<1>3. ScanningOK'
  BY <1>1 DEF ScanningOK
<1>4. wav'.own => wav'.want = SamplesOf(wav'.handle.file) /\ WellFormed(wav'.handle.file)
  BY <1>1 DEF WavIInv
<1>5. wav'.got = << >>
  BY <1>1 DEF WavIInv
<1> QED
  BY <1>1, <1>2, <1>3, <1>4, <1>5 DEF WavIInv, ReadsBackWhatWasWritten

\* The scan, one chunk on.
LEMMA ScanOn ==
  ASSUME NEW scan \in [at : Nat, remaining : Int, hadFmt : BOOLEAN, data : Nat],
         NEW at \in Nat, NEW rest \in Int,
         NEW next, next = [scan EXCEPT !.at = at, !.remaining = rest]
  PROVE  /\ next \in [at : Nat, remaining : Int, hadFmt : BOOLEAN, data : Nat]
         /\ next.at = at /\ next.remaining = rest /\ next.hadFmt = scan.hadFmt
         /\ next.data = scan.data
OBVIOUS

LEMMA ScanOnExcept ==
  ASSUME NEW next \in [at : Nat, remaining : Int, hadFmt : BOOLEAN, data : Nat],
         NEW had \in BOOLEAN, NEW n \in Nat, NEW fmt, fmt = [next EXCEPT !.hadFmt = had],
         NEW data, data = [next EXCEPT !.data = n]
  PROVE  /\ fmt \in [at : Nat, remaining : Int, hadFmt : BOOLEAN, data : Nat]
         /\ fmt.at = next.at /\ fmt.remaining = next.remaining /\ fmt.hadFmt = had
         /\ fmt.data = next.data
         /\ data \in [at : Nat, remaining : Int, hadFmt : BOOLEAN, data : Nat]
         /\ data.at = next.at /\ data.remaining = next.remaining /\ data.hadFmt = next.hadFmt
         /\ data.data = n
OBVIOUS

LEMMA WavExceptSwaps ==
  ASSUME NEW handle, NEW scan
  PROVE  [wav EXCEPT !.scan = scan, !.handle = handle] = [wav EXCEPT !.handle = handle, !.scan = scan]
OBVIOUS

\* A chunk read keeps what is known of those before it; one refused is in no
\* file that should be read.
LEMMA ReadChunkKeeps ==
  ASSUME WavIInv, ReadChunk
  PROVE  WavIInv'
<1>1. PICK h, scan, file, chunks : /\ h = wav.handle /\ scan = wav.scan /\ file = h.file
                                   /\ chunks = file.chunks
  <2>1. PICK h, file : h = wav.handle /\ file = h.file
    OBVIOUS
  <2>2. PICK scan, chunks : scan = wav.scan /\ chunks = file.chunks
    BY Zenon
  <2> QED
    BY <2>1, <2>2, Zenon
<1>2. wav.phase = "chunks" /\ scan.remaining >= 8
  BY <1>1 DEF ReadChunk
<1>3. WavTypeOK
  BY DEF WavIInv
<1>4. /\ file \in WavFiles /\ chunks \in Seq(WavChunk) /\ file.riffSize \in Nat
      /\ scan.hadFmt \in BOOLEAN /\ scan.data \in Nat
      /\ h.bytesPerFrame \in Nat \ {0} /\ h.bytesPerFrame = Sub[h.sub].size * h.channels
  BY <1>1, <1>3, WavParts, FrameBytes
<1>5. PICK k \in 0..Len(chunks), rest \in Nat :
        /\ scan.at = k + 1 /\ scan.remaining = rest
        /\ rest = file.riffSize - ChunkEnds(chunks)[k]
        /\ Scanned(chunks, k, scan.hadFmt, scan.data, h.sub, h.channels)
        /\ scan.data # 0 => h.remaining = chunks[scan.data].size \div h.bytesPerFrame
  BY <1>1, <1>2, WavScanIs, Zenon
<1>6. Len(chunks) \in Nat
  BY <1>4, LenProperties
<1>7. k \in Nat /\ rest >= 8 /\ rest \in Int
  BY <1>2, <1>5, <1>6
<1> DEFINE chunk == chunks[k + 1]
           refused == Refused(chunks, k, rest, scan.hadFmt, scan.data)
           next == [scan EXCEPT !.at = k + 2, !.remaining = rest - 8 - chunk.size]
<1>8. wav' =
        CASE refused -> [wav EXCEPT !.phase = "closed"]
          [] ~refused /\ chunk.id = "fmt" ->
               [wav EXCEPT !.scan = [next EXCEPT !.hadFmt = TRUE],
                           !.handle = Handle(file, chunk.sub, chunk.channels)]
          [] ~refused /\ chunk.id = "data" ->
               [wav EXCEPT !.scan = [next EXCEPT !.data = k + 1],
                           !.handle.remaining = chunk.size \div h.bytesPerFrame]
          [] OTHER -> [wav EXCEPT !.scan = next]
  <2>1. scan.at + 1 = k + 2
    BY <1>5, <1>7
  <2> QED
    BY <1>1, <1>5, <2>1, Zenon DEF ReadChunk, Refused
<1> HIDE DEF chunk, refused, next
<1>9. CASE refused
  <2>1. wav' = [wav EXCEPT !.phase = "closed"]
    BY <1>8, <1>9, Zenon
  <2>2. ~WellFormed(file)
    <3>1. Refused(chunks, k, rest, scan.hadFmt, scan.data)
      BY <1>9, Zenon DEF refused
    <3> QED
      BY <1>1, <1>4, <1>5, <1>7, <3>1, RefusedIsNot
  <2>3. /\ wav'.phase = "closed" /\ wav'.own = wav.own /\ wav'.want = wav.want
        /\ wav'.handle = wav.handle
    BY <2>1 DEF WavIInv, WavTypeOK
  <2>4. WavTypeOK'
    BY <2>1 DEF WavIInv, WavTypeOK
  <2> QED
    BY <1>1, <1>2, <2>2, <2>3, <2>4 DEF WavIInv, ReadsBackWhatWasWritten
<1>10. CASE ~refused
  <2>1. k + 1 \in 1..Len(chunks) /\ k + 1 \in 0..Len(chunks) /\ k + 1 - 1 = k
    BY <1>6, <1>7, <1>10 DEF refused, Refused, chunk
  <2>2. /\ chunk.size \in Nat /\ chunk.id \in {"fmt", "data", "other"}
        /\ chunk.id = "fmt" => chunk.channels \in 1..8 /\ chunk.sub \in DOMAIN Sub
    BY <1>4, <2>1, ChunkIs DEF chunk
  <2>3. PICK behind \in Nat : behind = rest - 8 - chunk.size
    <3>1. PICK size \in Nat : size = chunk.size
      BY <2>2
    <3>2. ~(size > rest - 8)
      BY <1>10, <3>1 DEF refused, Refused, chunk
    <3> QED
      BY <3>1, <3>2
  <2>4. behind = file.riffSize - ChunkEnds(chunks)[k + 1]
    <3>1. ChunkEnds(chunks)[k + 1] = ChunkEnds(chunks)[k + 1 - 1] + 8 + chunks[k + 1].size
      BY <1>6, <2>1, ChunkEndsAre
    <3>2. PICK x \in Nat, size \in Nat : x = ChunkEnds(chunks)[k] /\ size = chunk.size
      BY <1>4, <2>2, ChunkEndsGrow
    <3>3. ChunkEnds(chunks)[k + 1] = x + 8 + size
      BY <2>1, <3>1, <3>2, Zenon DEF chunk
    <3>4. PICK riffSize \in Nat : riffSize = file.riffSize
      BY <1>4
    <3>5. rest = riffSize - x
      BY <1>5, <3>2, <3>4, Zenon
    <3>6. behind = rest - 8 - size
      BY <2>3, <3>2, Zenon
    <3>7. behind = riffSize - (x + 8 + size)
      BY <3>5, <3>6
    <3> QED
      BY <3>3, <3>4, <3>7, Zenon
  <2>5. PICK at \in Nat : at = k + 2 /\ at - 1 = k + 1
    BY <1>7
  <2>6. /\ chunk.id = "fmt" => ~scan.hadFmt /\ chunk.good
        /\ chunk.id = "data" => scan.hadFmt /\ scan.data = 0
    BY <1>10 DEF refused, Refused, chunk
  <2>7. /\ chunk.id = "fmt" => /\ scan.data = 0
                               /\ Scanned(chunks, k + 1, TRUE, 0, chunk.sub, chunk.channels)
        /\ chunk.id = "data" => Scanned(chunks, k + 1, TRUE, k + 1, h.sub, h.channels)
        /\ chunk.id = "other"
             => Scanned(chunks, k + 1, scan.hadFmt, scan.data, h.sub, h.channels)
    BY <1>4, <1>5, <1>7, <2>6, NextScanned, Zenon DEF chunk
  <2>8. ASSUME NEW handle \in [file : WavFiles, sub : DOMAIN Sub, channels : 1..8,
                               bytesPerFrame : Nat, remaining : Nat],
               handle.file = file, handle.bytesPerFrame = Sub[handle.sub].size * handle.channels,
               NEW scan2 \in [at : Nat, remaining : Int, hadFmt : BOOLEAN, data : Nat],
               wav' = [wav EXCEPT !.handle = handle, !.scan = scan2],
               scan2.at = at, scan2.remaining = behind,
               Scanned(chunks, k + 1, scan2.hadFmt, scan2.data, handle.sub, handle.channels),
               scan2.data # 0 => handle.remaining
                                   = chunks[scan2.data].size \div handle.bytesPerFrame
        PROVE  WavIInv'
    <3>1. PICK n \in 0..Len(chunks) : n = k + 1 /\ n = scan2.at - 1
      BY <2>1, <2>5, <2>8
    <3>2. Scanned(chunks, n, scan2.hadFmt, scan2.data, handle.sub, handle.channels)
      BY <2>8, <3>1, Zenon
    <3>3. behind >= 0 /\ behind = file.riffSize - ChunkEnds(chunks)[n]
      BY <2>3, <2>4, <3>1
    <3>4. /\ handle.file = wav.handle.file
          /\ n \in 0..Len(handle.file.chunks)
          /\ behind = handle.file.riffSize - ChunkEnds(handle.file.chunks)[n]
          /\ Scanned(handle.file.chunks, n, scan2.hadFmt, scan2.data, handle.sub, handle.channels)
          /\ scan2.data # 0 => handle.remaining = handle.file.chunks[scan2.data].size
                                                     \div handle.bytesPerFrame
      BY <1>1, <2>8, <3>1, <3>2, <3>3, Zenon
    <3> QED
      BY <1>2, <2>8, <3>1, <3>3, <3>4, OneChunkRead
  <2>10. /\ next \in [at : Nat, remaining : Int, hadFmt : BOOLEAN, data : Nat]
         /\ next.at = at /\ next.remaining = behind /\ next.hadFmt = scan.hadFmt
         /\ next.data = scan.data
    <3>1. scan \in [at : Nat, remaining : Int, hadFmt : BOOLEAN, data : Nat]
      BY <1>1, <1>3, Zenon DEF WavTypeOK
    <3>2. next = [scan EXCEPT !.at = at, !.remaining = behind]
      BY <2>3, <2>5, Zenon DEF next
    <3>3. at \in Nat /\ behind \in Int
      OBVIOUS
    <3>4. PICK on : on = next
      OBVIOUS
    <3>5. on = [scan EXCEPT !.at = at, !.remaining = behind]
      BY <3>2, <3>4, Zenon
    <3>6. /\ on \in [at : Nat, remaining : Int, hadFmt : BOOLEAN, data : Nat]
          /\ on.at = at /\ on.remaining = behind /\ on.hadFmt = scan.hadFmt /\ on.data = scan.data
      BY <3>1, <3>3, <3>5, ScanOn
    <3> QED
      BY <3>4, <3>6, Zenon
  <2>9. CASE chunk.id = "fmt"
    <3>1. PICK handle : handle = Handle(file, chunk.sub, chunk.channels)
      OBVIOUS
    <3>2. PICK scan2 : scan2 = [next EXCEPT !.hadFmt = TRUE]
      OBVIOUS
    <3>3. scan.data = 0
      BY <2>7, <2>9
    <3>4. wav' = [wav EXCEPT !.scan = scan2, !.handle = handle]
      BY <1>8, <1>10, <2>9, <3>1, <3>2, Zenon
    <3>5. wav' = [wav EXCEPT !.handle = handle, !.scan = scan2]
      BY <1>3, <3>4, WavExceptSwaps
    <3>6. /\ handle \in [file : WavFiles, sub : DOMAIN Sub, channels : 1..8, bytesPerFrame : Nat,
                          remaining : Nat]
          /\ handle.file = file /\ handle.sub = chunk.sub /\ handle.channels = chunk.channels
          /\ handle.bytesPerFrame = Sub[handle.sub].size * handle.channels
      <4>1. PICK sub \in DOMAIN Sub, ch \in 1..8 : sub = chunk.sub /\ ch = chunk.channels
        BY <2>2, <2>9
      <4>2. PICK s \in 1..4 : s = Sub[sub].size
        BY SubIs
      <4>3. PICK b \in Nat : b = s * ch
        OBVIOUS
      <4>4. handle = [file |-> file, sub |-> sub, channels |-> ch, bytesPerFrame |-> b,
                      remaining |-> 0]
        BY <3>1, <4>1, <4>2, <4>3 DEF Handle
      <4> QED
        BY <1>4, <4>1, <4>2, <4>3, <4>4
    <3>7. /\ scan2 \in [at : Nat, remaining : Int, hadFmt : BOOLEAN, data : Nat]
          /\ scan2.at = at /\ scan2.remaining = behind /\ scan2.hadFmt = TRUE /\ scan2.data = 0
      BY <2>10, <3>2, <3>3, ScanOnExcept
    <3>8. Scanned(chunks, k + 1, scan2.hadFmt, scan2.data, handle.sub, handle.channels)
      BY <2>7, <2>9, <3>6, <3>7, Zenon
    <3> QED
      BY <2>8, <3>5, <3>6, <3>7, <3>8, Zenon
  <2>11. CASE chunk.id = "data"
    <3>1. PICK frames \in Nat : frames = chunk.size \div h.bytesPerFrame
      BY <1>4, <2>2
    <3>2. PICK handle : handle = [h EXCEPT !.remaining = frames]
      OBVIOUS
    <3>3. PICK scan2 : scan2 = [next EXCEPT !.data = k + 1]
      OBVIOUS
    <3>4. scan.hadFmt = TRUE
      BY <1>4, <2>6, <2>11
    <3>5. wav' = [wav EXCEPT !.scan = scan2, !.handle.remaining = frames]
      BY <1>8, <1>10, <2>11, <3>1, <3>3, Zenon
    <3>6. wav' = [wav EXCEPT !.handle = handle, !.scan = scan2]
      BY <1>1, <3>2, <3>5
    <3>7. /\ handle \in [file : WavFiles, sub : DOMAIN Sub, channels : 1..8, bytesPerFrame : Nat,
                          remaining : Nat]
          /\ handle.file = file /\ handle.sub = h.sub /\ handle.channels = h.channels
          /\ handle.bytesPerFrame = h.bytesPerFrame /\ handle.remaining = frames
      <4>1. h \in [file : WavFiles, sub : DOMAIN Sub, channels : 1..8, bytesPerFrame : Nat,
                   remaining : Nat]
        BY <1>1, <1>3, Zenon DEF WavTypeOK
      <4> QED
        BY <1>1, <3>2, <4>1
    <3>8. /\ scan2 \in [at : Nat, remaining : Int, hadFmt : BOOLEAN, data : Nat]
          /\ scan2.at = at /\ scan2.remaining = behind /\ scan2.hadFmt = TRUE /\ scan2.data = k + 1
      BY <1>7, <2>10, <3>3, <3>4, ScanOnExcept
    <3>9. Scanned(chunks, k + 1, scan2.hadFmt, scan2.data, handle.sub, handle.channels)
      BY <2>7, <2>11, <3>7, <3>8, Zenon
    <3>10. /\ handle.bytesPerFrame = Sub[handle.sub].size * handle.channels
           /\ handle.remaining = chunks[scan2.data].size \div handle.bytesPerFrame
      BY <1>4, <3>1, <3>7, <3>8, Zenon DEF chunk
    <3> QED
      BY <2>8, <3>6, <3>7, <3>8, <3>9, <3>10, Zenon
  <2>12. CASE chunk.id = "other"
    <3>1. wav' = [wav EXCEPT !.scan = next]
      BY <1>8, <1>10, <2>12, Zenon
    <3>2. wav' = [wav EXCEPT !.handle = h, !.scan = next]
      BY <1>1, <1>3, <3>1 DEF WavTypeOK
    <3>3. h \in [file : WavFiles, sub : DOMAIN Sub, channels : 1..8, bytesPerFrame : Nat,
                 remaining : Nat]
      BY <1>1, <1>3, Zenon DEF WavTypeOK
    <3>4. /\ next \in [at : Nat, remaining : Int, hadFmt : BOOLEAN, data : Nat]
          /\ next.at = at /\ next.remaining = behind /\ next.hadFmt = scan.hadFmt
          /\ next.data = scan.data
      BY <2>10
    <3>5. Scanned(chunks, k + 1, next.hadFmt, next.data, h.sub, h.channels)
      BY <2>7, <2>12, <3>4, Zenon
    <3>6. next.data # 0 => h.remaining = chunks[next.data].size \div h.bytesPerFrame
      BY <1>5, <3>4, Zenon
    <3> QED
      BY <1>1, <1>4, <2>8, <3>2, <3>3, <3>4, <3>5, <3>6, Zenon
  <2> QED
    BY <2>2, <2>9, <2>11, <2>12
<1> QED
  BY <1>9, <1>10

-----------------------------------------------------------------------------
(***************************************************************************)
(* WavFile: reading.                                                       *)
(***************************************************************************)

\* The samples in bytes that are all there.
LEMMA SamplesAre ==
  ASSUME NEW bytes \in Seq(WavByte), NEW f \in WavFormats, f.size \in 1..4, NEW c \in Nat,
         c * f.size <= Len(bytes)
  PROVE  /\ SamplesIn(bytes, f, c) \in Seq(Int) /\ Len(SamplesIn(bytes, f, c)) = c
         /\ \A i \in 1..c :
              \E k \in -8..7 : /\ Load(bytes, (i - 1) * f.size, f) = Value(k, f)
                               /\ SamplesIn(bytes, f, c)[i] = k
<1>1. PICK s : s = SamplesIn(bytes, f, c)
  OBVIOUS
<1>2. DOMAIN s = 1..c /\ s = [i \in 1..c |-> s[i]]
      /\ \A i \in 1..c : s[i] = Number(Load(bytes, (i - 1) * f.size, f), f)
  BY <1>1 DEF SamplesIn
<1>3. ASSUME NEW i \in 1..c
      PROVE  \E k \in -8..7 : Load(bytes, (i - 1) * f.size, f) = Value(k, f) /\ s[i] = k
  <2>1. PICK at \in Nat : at = (i - 1) * f.size /\ at + f.size <= Len(bytes)
    <3>1. f.size = 1 \/ f.size = 2 \/ f.size = 3 \/ f.size = 4
      OBVIOUS
    <3>2. Len(bytes) \in Nat
      BY LenProperties
    <3> QED
      BY <3>1, <3>2
  <2>2. PICK k \in -8..7 : Load(bytes, at, f) = Value(k, f)
    BY <2>1, EighthIsRead
  <2>3. Number(Value(k, f), f) = k
    BY ValueIs
  <2> QED
    BY <1>2, <2>1, <2>2, <2>3
<1>4. s \in [1..c -> Int]
  <2>1. \A i \in 1..c : s[i] \in Int
    BY <1>3
  <2> QED
    BY <1>2, <2>1
<1>5. s \in Seq(Int)
  BY <1>4, SeqDef
<1>6. Len(s) = c
  BY <1>2, <1>5, LenIs
<1> QED
  BY <1>1, <1>3, <1>5, <1>6

\* The smaller of two, and the frames it has.
LEMMA MinOfTwo ==
  ASSUME NEW a \in Nat, NEW b \in Nat
  PROVE  /\ Min({a, b}) \in Nat /\ Min({a, b}) <= a /\ Min({a, b}) <= b
         /\ Min({a, b}) = a \/ Min({a, b}) = b
BY SmallerIs

LEMMA FramesIn ==
  ASSUME NEW size \in Nat, NEW l \in Nat, NEW s \in 1..4, NEW ch \in 1..8, NEW b, b = s * ch
  PROVE  LET frames == Min({size, l}) \div b
         IN  /\ frames \in Nat /\ frames * b <= l /\ frames * b <= size
             /\ (frames * ch) * s <= l
<1>1. b \in Nat \ {0} /\ \A r \in Nat : (r * ch) * s = r * b
  BY WavFrameIs
<1>2. PICK m \in Nat : m = Min({size, l}) /\ m <= size /\ m <= l
  BY MinOfTwo
<1>3. PICK frames \in Nat : frames = m \div b /\ b * frames <= m
  BY <1>1, QuotientIs
<1>4. frames * b = b * frames
  BY <1>1
<1>5. (frames * ch) * s = frames * b
  BY <1>1
<1> QED
  BY <1>2, <1>3, <1>4, <1>5

\* The samples of a file that opens.
DataAt(file, d, sub, ch) ==
  /\ d \in 1..Len(file.chunks) /\ d = FirstChunk(file.chunks, "data") /\ file.chunks[d].id = "data"
  /\ file.chunks[FirstChunk(file.chunks, "fmt")].sub = sub
  /\ file.chunks[FirstChunk(file.chunks, "fmt")].channels = ch
DataIs(file, d, sub, ch, frames, size, bytes) ==
  /\ size = file.chunks[d].size /\ bytes = file.chunks[d].bytes
  /\ frames = Min({size, Len(bytes)}) \div (Sub[sub].size * ch)
  /\ frames * (Sub[sub].size * ch) <= Len(bytes) /\ frames * (Sub[sub].size * ch) <= size
  /\ (frames * ch) * Sub[sub].size <= Len(bytes)
  /\ SamplesOf(file) = SamplesIn(bytes, Sub[sub], frames * ch)

LEMMA DataSamples ==
  ASSUME NEW file \in WavFiles, NEW sub \in DOMAIN Sub, NEW ch \in 1..8, NEW data,
         DataAt(file, data, sub, ch)
  PROVE  \E frames \in Nat, size \in Nat, bytes \in Seq(WavByte) :
           DataIs(file, data, sub, ch, frames, size, bytes)
<1>1. PICK chunks \in Seq(WavChunk) : chunks = file.chunks
  BY DEF WavFiles
<1>2. PICK size \in Nat, bytes \in Seq(WavByte) :
        size = chunks[data].size /\ bytes = chunks[data].bytes
  BY <1>1, ChunkIs DEF DataAt
<1>3. PICK s \in 1..4 : s = Sub[sub].size
  BY SubIs
<1>4. PICK l \in Nat : l = Len(bytes)
  BY LenProperties
<1>5. PICK b : b = s * ch
  OBVIOUS
<1>6. PICK frames \in Nat : /\ frames = Min({size, l}) \div b /\ frames * b <= l
                            /\ frames * b <= size /\ (frames * ch) * s <= l
  BY <1>5, FramesIn
<1>7. PICK fmt : fmt = chunks[FirstChunk(chunks, "fmt")] /\ fmt.sub = sub /\ fmt.channels = ch
  BY <1>1 DEF DataAt
<1>8. frames = Min({size, Len(bytes)}) \div (Sub[fmt.sub].size * fmt.channels)
  BY <1>3, <1>4, <1>5, <1>6, <1>7
<1>9. SamplesOf(file) = SamplesIn(bytes, Sub[sub], frames * ch)
  BY <1>1, <1>2, <1>7, <1>8 DEF SamplesOf, SamplesIn, DataAt
<1> QED
  BY <1>1, <1>2, <1>3, <1>4, <1>5, <1>6, <1>9 DEF DataIs

\* What is yielded so far is the beginning of what is expected.
ExpectedOf(type, sub, s) ==
  IF sub \in DOMAIN Readers[type] THEN s ELSE [i \in DOMAIN s |-> Stale]
Yields(got, type, sub, s) ==
  Len(got) <= Len(s) /\ \A i \in 1..Len(got) : got[i] = ExpectedOf(type, sub, s)[i]

LEMMA YieldedIs ==
  ASSUME NEW want \in Seq(Int), NEW type, NEW sub, NEW got \in Seq(Int),
         Yields(got, type, sub, want)
  PROVE  got = SubSeq(ExpectedOf(type, sub, want), 1, Len(got))
<1>0. PICK expected : expected = ExpectedOf(type, sub, want)
  OBVIOUS
<1>1. PICK c \in Nat, n \in Nat : c = Len(want) /\ n = Len(got) /\ n <= c
  BY LenProperties DEF Yields
<1>2. DOMAIN want = 1..c /\ DOMAIN got = 1..n
  BY <1>1, LenProperties
<1>3. expected \in [1..c -> Int]
  BY <1>0, <1>1, <1>2 DEF Stale, ExpectedOf
<1>4. expected \in Seq(Int)
  BY <1>3, SeqDef
<1>5. Len(expected) = c
  BY <1>3, <1>4, LenIs
<1>6. PICK part : part = SubSeq(expected, 1, n)
  OBVIOUS
<1>7. part \in Seq(Int) /\ Len(part) = n /\ \A i \in 1..n : part[i] = expected[i]
  BY <1>1, <1>4, <1>5, <1>6
<1>8. DOMAIN part = 1..n
  BY <1>7, LenProperties
<1>10. got = [i \in 1..n |-> got[i]] /\ part = [i \in 1..n |-> part[i]]
  BY <1>2, <1>7, <1>8
<1>9. got = part
  <2>1. \A i \in 1..n : got[i] = expected[i]
    BY <1>0, <1>1 DEF Yields
  <2> QED
    BY <1>7, <1>10, <2>1
<1> QED
  BY <1>0, <1>1, <1>6, <1>9

\* Frames are so many samples.
LEMMA FramesTimes ==
  ASSUME NEW r \in Nat, NEW m \in Nat, NEW ch \in 1..8
  PROVE  (r + m) * ch = r * ch + m * ch /\ (r <= m => r * ch <= m * ch)
<1>1. ch = 1 \/ ch = 2 \/ ch = 3 \/ ch = 4 \/ ch = 5 \/ ch = 6 \/ ch = 7 \/ ch = 8
  OBVIOUS
<1> QED
  BY <1>1

\* A file whose chunks are not what the header says is not opened; of one that
\* is, nothing is read yet.
LEMMA OpenedKeeps ==
  ASSUME WavIInv, Opened
  PROVE  WavIInv'
<1>1. PICK h, scan, file, chunks : /\ h = wav.handle /\ scan = wav.scan /\ file = h.file
                                   /\ chunks = file.chunks
  OBVIOUS
<1>2. wav.phase = "chunks" /\ scan.remaining < 8
  BY <1>1 DEF Opened
<1>3. WavTypeOK
  BY DEF WavIInv
<1>4. /\ file \in WavFiles /\ chunks \in Seq(WavChunk) /\ file.riffSize \in Nat
      /\ scan.hadFmt \in BOOLEAN /\ scan.data \in Nat
      /\ h.sub \in DOMAIN Sub /\ h.channels \in 1..8 /\ h.remaining \in Nat
      /\ h.bytesPerFrame \in Nat \ {0} /\ h.bytesPerFrame = Sub[h.sub].size * h.channels
  BY <1>1, <1>3, WavParts, FrameBytes
<1>5. PICK k \in 0..Len(chunks), rest \in Nat :
        /\ scan.at = k + 1 /\ scan.remaining = rest
        /\ rest = file.riffSize - ChunkEnds(chunks)[k]
        /\ Scanned(chunks, k, scan.hadFmt, scan.data, h.sub, h.channels)
        /\ scan.data # 0 => h.remaining = chunks[scan.data].size \div h.bytesPerFrame
  BY <1>1, <1>2, WavScanIs, Zenon
<1>6. Len(chunks) \in Nat /\ DOMAIN chunks = 1..Len(chunks)
  BY <1>4, LenProperties
<1>7. k \in Nat /\ rest < 8
  BY <1>2, <1>5, <1>6
<1>8. ASSUME NEW n \in DOMAIN chunks, file.riffSize = ChunkEnds(chunks)[n]
      PROVE  n = k /\ rest = 0
  <2>1. n \in 0..Len(chunks) /\ n \in Nat
    BY <1>6
  <2>2. PICK x \in Nat, y \in Nat : x = ChunkEnds(chunks)[k] /\ y = ChunkEnds(chunks)[n]
    BY <1>4, <2>1, EndsApart
  <2>3. (k < n => x + 8 <= y) /\ (n < k => y + 8 <= x)
    <3>1. k < n => ChunkEnds(chunks)[k] + 8 <= ChunkEnds(chunks)[n]
      BY <1>4, <2>1, EndsApart
    <3>2. n < k => ChunkEnds(chunks)[n] + 8 <= ChunkEnds(chunks)[k]
      BY <1>4, <2>1, EndsApart
    <3> QED
      BY <2>2, <3>1, <3>2
  <2>4. rest = y - x
    BY <1>5, <1>8, <2>2, Zenon
  <2>5. n = k => x = y
    BY <2>2, Zenon
  <2> QED
    BY <1>7, <2>1, <2>3, <2>4, <2>5
<1>9. PICK phase : phase = IF rest > 0 \/ scan.data = 0 THEN "closed" ELSE "read"
  OBVIOUS
<1>10. wav' = [wav EXCEPT !.phase = phase, !.scan.at = 0]
  BY <1>1, <1>5, <1>9, Zenon DEF Opened
<1>11. phase \in {"closed", "read"}
  BY <1>9
<1>12. PICK scan2 : scan2 = [scan EXCEPT !.at = 0]
  OBVIOUS
<1>13. /\ scan2 \in [at : Nat, remaining : Int, hadFmt : BOOLEAN, data : Nat]
       /\ scan2.at = 0 /\ scan2.data = scan.data
  BY <1>1, <1>3, <1>12 DEF WavTypeOK
<1>14. wav' = [wav EXCEPT !.phase = phase, !.scan = scan2]
  BY <1>1, <1>10, <1>12
<1>15. /\ wav'.phase = phase /\ wav'.own = wav.own /\ wav'.want = wav.want /\ wav'.got = wav.got
       /\ wav'.type = wav.type /\ wav'.handle = wav.handle /\ wav'.scan = scan2
  BY <1>3, <1>14 DEF WavTypeOK
<1>16. WavTypeOK'
  BY <1>3, <1>11, <1>13, <1>14 DEF WavTypeOK
<1>17. /\ wav.got = << >>
       /\ wav.own => wav.want = SamplesOf(file) /\ WellFormed(file)
  BY <1>1, <1>2 DEF WavIInv
<1>18. CASE phase = "closed"
  <2>1. ~WellFormed(file)
    <3> SUFFICES ASSUME NEW n \in DOMAIN chunks, file.riffSize = ChunkEnds(chunks)[n],
                        NEW d \in 1..n, Only(chunks, n, "data", d)
                 PROVE  FALSE
      BY <1>1 DEF WellFormed
    <3>1. n = k /\ rest = 0
      BY <1>8
    <3>2. scan.data = 0
      BY <1>9, <1>18, <3>1
    <3>3. \A i \in 1..k : chunks[i].id # "data"
      BY <1>5, <3>2 DEF Scanned
    <3> QED
      BY <3>1, <3>3 DEF Only
  <2> QED
    BY <1>1, <1>4, <1>15, <1>16, <1>17, <1>18, <2>1 DEF WavIInv, ReadsBackWhatWasWritten
<1>19. CASE phase = "read"
  <2>1. rest = 0 /\ scan.data # 0
    BY <1>9, <1>19
  <2>2. scan.hadFmt /\ Only(chunks, k, "data", scan.data)
    BY <1>5, <2>1 DEF Scanned
  <2>3. PICK f \in 1..k : /\ Only(chunks, k, "fmt", f) /\ chunks[f].good /\ f < scan.data
                          /\ h.sub = chunks[f].sub /\ h.channels = chunks[f].channels
    BY <1>5, <2>1, <2>2 DEF Scanned
  <2>4. PICK d \in 1..k : d = scan.data /\ chunks[d].id = "data"
    BY <2>2 DEF Only
  <2>5. k \in DOMAIN chunks /\ d \in 1..Len(chunks) /\ d \in DOMAIN chunks
    BY <1>6, <1>7
  <2>6. file.riffSize = ChunkEnds(chunks)[k]
    <3>1. PICK x \in Nat : x = ChunkEnds(chunks)[k]
      BY <1>4, ChunkEndsGrow
    <3>2. 0 = file.riffSize - x
      BY <1>5, <2>1, <3>1, Zenon
    <3> QED
      BY <1>4, <3>1, <3>2
  <2>7. WellFormed(file)
    BY <1>1, <2>2, <2>3, <2>4, <2>5, <2>6 DEF WellFormed
  <2>8. FirstChunk(chunks, "fmt") = f /\ FirstChunk(chunks, "data") = d
    BY <1>4, <2>2, <2>3, <2>4, OnlyIsFirst
  <2>9. PICK sub \in DOMAIN Sub, ch \in 1..8, b \in Nat \ {0} :
          sub = h.sub /\ ch = h.channels /\ b = h.bytesPerFrame /\ b = Sub[sub].size * ch
    BY <1>4
  <2>10. DataAt(file, d, sub, ch)
    BY <1>1, <2>3, <2>4, <2>5, <2>8, <2>9, Zenon DEF DataAt
  <2>11. PICK frames \in Nat, size \in Nat, bytes \in Seq(WavByte) :
          DataIs(file, d, sub, ch, frames, size, bytes)
    BY <1>4, <2>10, DataSamples
  <2>12. ReadingOK'
    <3>1. chunks[d].size = size
      BY <1>1, <2>11 DEF DataIs
    <3>2. PICK n \in Nat : n = h.remaining
      BY <1>4
    <3>3. n = size \div b
      BY <1>5, <2>1, <2>4, <2>9, <3>1, <3>2, Zenon
    <3>4. size \div b - n = 0 /\ 0 * b = 0 /\ 0 * ch = 0
      BY <3>2, <3>3
    <3>5. /\ wav'.handle = h /\ wav'.handle.file = file /\ wav'.handle.file.chunks = chunks
          /\ wav'.scan.data = d /\ wav'.scan.at = 0 /\ wav'.got = << >>
      BY <1>1, <1>13, <1>15, <1>17, <2>4, Zenon
    <3>6. /\ d \in DOMAIN chunks /\ chunks[d].id = "data" /\ d = FirstChunk(chunks, "data")
          /\ chunks[FirstChunk(chunks, "fmt")].sub = h.sub
          /\ chunks[FirstChunk(chunks, "fmt")].channels = h.channels
      BY <2>3, <2>4, <2>5, <2>8, Zenon
    <3>7. Len(bytes) \in Nat /\ Len(<< >>) = 0 /\ chunks[d].bytes = bytes
      BY <1>1, <2>11, LenProperties DEF DataIs
    <3>8. chunks[d].size \div h.bytesPerFrame - h.remaining = 0 /\ 0 * h.bytesPerFrame = 0
          /\ 0 * h.channels = 0
      BY <1>4, <2>9, <3>1, <3>2, <3>4
    <3>9. 0 >= 0 /\ 0 <= Len(bytes) /\ \A i \in 1..0 : FALSE
      BY <3>7
    <3> QED
      BY <2>7, <3>5, <3>6, <3>7, <3>8, <3>9, Zenon DEF ReadingOK
  <2> QED
    BY <1>1, <1>4, <1>15, <1>16, <1>17, <1>19, <2>7, <2>12 DEF WavIInv, ReadsBackWhatWasWritten
<1> QED
  BY <1>11, <1>18, <1>19

\* The frames read of so many bytes, where `size' is what the header says and l
\* what is there: whole ones, or all there is.
ReadTo(b, size, l, r, rem, at) ==
  /\ r + rem = size \div b
  /\ (at = r * b /\ at <= l) \/ (at = l /\ r = l \div b)

LEMMA ReadWithin ==
  ASSUME NEW b \in Nat \ {0}, NEW size \in Nat, NEW l \in Nat, NEW r \in Nat, NEW rem \in Nat,
         NEW at \in Nat, ReadTo(b, size, l, r, rem, at)
  PROVE  r <= Min({size, l}) \div b /\ at <= l /\ r * b <= at /\ r * b <= size
<1>1. PICK q \in Nat : q = size \div b /\ b * q <= size
  BY QuotientIs
<1>2. PICK p \in Nat : p = l \div b /\ b * p <= l
  BY QuotientIs
<1>3. at <= l /\ r * b <= at
  <2>1. r = p => b * r <= l
    BY <1>2
  <2> QED
    BY <1>2, <2>1 DEF ReadTo
<1>4. r * b <= size
  <2>1. r <= q
    BY <1>1 DEF ReadTo
  <2>2. b * r <= b * q
    BY <2>1
  <2> QED
    BY <1>1, <2>2
<1>5. PICK m \in Nat : m = Min({size, l}) /\ (m = size \/ m = l)
  BY MinOfTwo
<1>6. r * b <= m /\ r * b \in Nat
  BY <1>3, <1>4, <1>5
<1>7. (r * b) \div b <= m \div b
  BY <1>6, QuotientGrows
<1>8. (r * b) \div b = r
  BY QuotientOfMultiple
<1> QED
  BY <1>3, <1>4, <1>5, <1>7, <1>8

\* A piece: m whole frames, or what there is left.
LEMMA WholePiece ==
  ASSUME NEW b \in Nat \ {0}, NEW r \in Nat, NEW m \in Nat
  PROVE  (m * b) \div b = m /\ r * b + m * b = (r + m) * b
BY QuotientOfMultiple

Rest(l, b, r) == l - r * b

LEMMA LastPiece ==
  ASSUME NEW b \in Nat \ {0}, NEW r \in Nat, NEW l \in Nat, r * b <= l
  PROVE  Rest(l, b, r) \in Nat /\ l \div b = r + (Rest(l, b, r) \div b)
<1>1. PICK x \in Nat : x = r * b
  OBVIOUS
<1>2. PICK a \in Nat : a = Rest(l, b, r) /\ l = x + a
  BY <1>1 DEF Rest
<1>3. PICK frames \in Nat : frames = a \div b /\ b * frames <= a /\ a < b * frames + b
  BY QuotientIs
<1>4. PICK y \in Nat : y = b * frames
  OBVIOUS
<1>5. (r + frames) * b = x + y
  BY <1>1, <1>4
<1>6. l \div b = r + frames
  <2>1. (r + frames) * b <= l /\ l < (r + frames) * b + b /\ r + frames \in Nat
    BY <1>2, <1>3, <1>4, <1>5
  <2> QED
    BY <2>1, QuotientBetween
<1> QED
  BY <1>2, <1>3, <1>6

LEMMA PieceWithin ==
  ASSUME NEW b \in Nat \ {0}, NEW m \in Nat, NEW a \in Nat, a <= m * b
  PROVE  a \div b <= m /\ a \div b \in Nat
<1>1. (m * b) \div b = m /\ m * b \in Nat
  BY QuotientOfMultiple
<1> QED
  BY <1>1, QuotientGrows, QuotientIs

WavPiece(m, a, b, l, at) == a <= m * b /\ a <= l - at /\ (a = m * b \/ a = l - at)

PieceIsRead(b, size, l, r, rem, at, m, a) == \E frames \in Nat :
  /\ frames = a \div b /\ frames <= m
  /\ ReadTo(b, size, l, r + frames, rem - frames, at + a)
  /\ frames > 0 => at = r * b
  /\ frames = 0 => m = 0 \/ r = l \div b

LEMMA PieceRead ==
  ASSUME NEW b \in Nat \ {0}, NEW size \in Nat, NEW l \in Nat, NEW r \in Nat, NEW rem \in Nat,
         NEW at \in Nat, ReadTo(b, size, l, r, rem, at)
  PROVE  \A m \in 0..rem : \A a \in Nat :
           WavPiece(m, a, b, l, at) => PieceIsRead(b, size, l, r, rem, at, m, a)
<1> SUFFICES ASSUME NEW m \in 0..rem, NEW a \in Nat, a <= m * b, a <= l - at,
                    a = m * b \/ a = l - at
             PROVE  \E frames \in Nat :
                      /\ frames = a \div b /\ frames <= m
                      /\ ReadTo(b, size, l, r + frames, rem - frames, at + a)
                      /\ frames > 0 => at = r * b
                      /\ frames = 0 => m = 0 \/ r = l \div b
  BY DEF WavPiece, PieceIsRead
<1>1. m \in Nat /\ m <= rem
  OBVIOUS
<1>2. PICK frames \in Nat : frames = a \div b /\ frames <= m
  BY <1>1, PieceWithin
<1>3. (r + frames) + (rem - frames) = size \div b
  <2>1. r + rem = size \div b
    BY DEF ReadTo
  <2>2. PICK q : q = size \div b
    OBVIOUS
  <2> QED
    BY <2>1, <2>2
<1>4. CASE at = r * b /\ at <= l /\ a = m * b
  <2>1. frames = m /\ at + a = (r + frames) * b
    BY <1>1, <1>2, <1>4, WholePiece
  <2>2. ReadTo(b, size, l, r + frames, rem - frames, at + a)
    <3>1. at + a <= l
      OBVIOUS
    <3> QED
      BY <1>3, <2>1, <3>1 DEF ReadTo
  <2> QED
    BY <1>2, <1>4, <2>1, <2>2
<1>5. CASE at = r * b /\ at <= l /\ a = l - at
  <2>1. l \div b = r + frames
    <3>1. r * b <= l /\ a = Rest(l, b, r)
      BY <1>5, Zenon DEF Rest
    <3>2. l \div b = r + (Rest(l, b, r) \div b)
      BY <3>1, LastPiece
    <3> QED
      BY <1>2, <3>1, <3>2, Zenon
  <2>2. at + a = l
    BY <1>5
  <2>3. ReadTo(b, size, l, r + frames, rem - frames, at + a)
    BY <1>3, <2>1, <2>2 DEF ReadTo
  <2>4. frames = 0 => r = l \div b
    BY <2>1
  <2> QED
    BY <1>2, <1>5, <2>3, <2>4
<1>6. CASE at = l /\ r = l \div b
  <2>1. a = 0
    BY <1>6
  <2>2. a \div b = 0
    BY <2>1
  <2>3. frames = 0 /\ at + a = l
    BY <1>2, <1>6, <2>1, <2>2
  <2>4. ReadTo(b, size, l, r + frames, rem - frames, at + a)
    BY <1>3, <1>6, <2>3 DEF ReadTo
  <2> QED
    BY <1>2, <1>6, <2>3, <2>4
<1> QED
  BY <1>4, <1>5, <1>6 DEF ReadTo

\* A piece of at most n frames.
MoreIsRead(b, size, l, r, rem, at, n) == \E a \in Nat, frames \in Nat :
  /\ a = Min({Min({n, rem}) * b, l - at}) /\ frames = a \div b /\ frames <= rem
  /\ ReadTo(b, size, l, r + frames, rem - frames, at + a)
  /\ frames > 0 => at = r * b
  /\ frames = 0 => r = Min({size, l}) \div b

LEMMA ReadMore ==
  ASSUME NEW b \in Nat \ {0}, NEW size \in Nat, NEW l \in Nat, NEW r \in Nat, NEW rem \in Nat,
         NEW at \in Nat, ReadTo(b, size, l, r, rem, at)
  PROVE  \A n \in Nat \ {0} : MoreIsRead(b, size, l, r, rem, at, n)
<1> TAKE n \in Nat \ {0}
<1>1. at <= l /\ r <= Min({size, l}) \div b
  BY ReadWithin
<1>2. PICK m \in Nat : m = Min({n, rem}) /\ m <= rem /\ (m = n \/ m = rem)
  BY MinOfTwo
<1>3. PICK desired \in Nat, there \in Nat : desired = m * b /\ there = l - at
  BY <1>1
<1>4. PICK a \in Nat : /\ a = Min({desired, there})
                       /\ a <= desired /\ a <= there /\ (a = desired \/ a = there)
  BY MinOfTwo
<1>5. a = Min({Min({n, rem}) * b, l - at})
  BY <1>2, <1>3, <1>4, Zenon
<1>6. PICK frames \in Nat :
        /\ frames = a \div b /\ frames <= m
        /\ ReadTo(b, size, l, r + frames, rem - frames, at + a)
        /\ frames > 0 => at = r * b
        /\ frames = 0 => m = 0 \/ r = l \div b
  <2>1. m \in 0..rem /\ WavPiece(m, a, b, l, at)
    BY <1>2, <1>3, <1>4 DEF WavPiece
  <2>2. PieceIsRead(b, size, l, r, rem, at, m, a)
    BY <2>1, PieceRead
  <2> QED
    BY <2>2 DEF PieceIsRead
<1>7. m = 0 => r = size \div b
  <2>1. r + rem = size \div b
    BY DEF ReadTo
  <2>2. m = 0 => rem = 0
    BY <1>2
  <2>3. rem = 0 => r + rem = r
    OBVIOUS
  <2> QED
    BY <2>1, <2>2, <2>3, Zenon
<1>8. /\ Min({size, l}) \div b <= size \div b /\ Min({size, l}) \div b <= l \div b
      /\ Min({size, l}) \div b \in Nat
  <2>1. Min({size, l}) \in Nat /\ Min({size, l}) <= size /\ Min({size, l}) <= l
    BY MinOfTwo
  <2> QED
    BY <2>1, QuotientGrows, QuotientIs
<1>9. frames = 0 => r = Min({size, l}) \div b
  <2>1. PICK q \in Nat : q = Min({size, l}) \div b
    BY <1>8
  <2>2. PICK x, y : x = size \div b /\ y = l \div b
    OBVIOUS
  <2>3. r <= q /\ q <= x /\ q <= y
    BY <1>1, <1>8, <2>1, <2>2, Zenon
  <2>4. r = x => r = q
    BY <2>3
  <2>5. r = y => r = q
    BY <2>3
  <2> QED
    BY <1>6, <1>7, <2>1, <2>2, <2>4, <2>5, Zenon
<1> QED
  BY <1>2, <1>5, <1>6, <1>9 DEF MoreIsRead

\* A sample read, in the caller's type.
LEMMA SampleRead ==
  ASSUME NEW type \in DOMAIN Type, NEW sub \in DOMAIN Readers[type], NEW k \in -8..7
  PROVE  Number(Apply(Readers[type][sub], Value(k, Sub[sub])), Type[type]) = k
<1>1. sub \in DOMAIN Sub /\ Passes(Readers[type][sub], Sub[sub], Type[type])
  BY ReadersPass
<1>2. Sub[sub] \in WavFormats /\ Type[type] \in WavFormats
  BY <1>1, SubIs, TypeIs
<1>3. Apply(Readers[type][sub], Value(k, Sub[sub])) = Value(k, Type[type])
  BY <1>1, <1>2, EighthsPass
<1> QED
  BY <1>2, <1>3, ValueIs

\* What is yielded, and the next piece of it.
WavBegins(got, expected) == \A i \in 1..Len(got) : got[i] = expected[i]
WavFollows(new, n, expected) == \A j \in 1..Len(new) : new[j] = expected[n + j]

LEMMA MoreYielded ==
  ASSUME NEW got \in Seq(Int), NEW new \in Seq(Int), NEW expected,
         WavBegins(got, expected), WavFollows(new, Len(got), expected)
  PROVE  /\ got \o new \in Seq(Int) /\ Len(got \o new) = Len(got) + Len(new)
         /\ WavBegins(got \o new, expected)
<1>1. PICK n \in Nat, c \in Nat : n = Len(got) /\ c = Len(new)
  BY LenProperties
<1>2. PICK both : both = got \o new
  OBVIOUS
<1>3. /\ both \in Seq(Int) /\ Len(both) = n + c
      /\ \A i \in 1..(n + c) : both[i] = IF i <= n THEN got[i] ELSE new[i - n]
  BY <1>1, <1>2, ConcatProperties
<1>4. ASSUME NEW i \in 1..(n + c)
      PROVE  both[i] = expected[i]
  <2>1. CASE i <= n
    BY <1>1, <1>3, <2>1 DEF WavBegins
  <2>2. CASE ~(i <= n)
    <3>1. PICK j \in 1..c : j = i - n /\ n + j = i
      BY <2>2
    <3>2. new[j] = expected[n + j]
      BY <1>1, <3>1 DEF WavFollows
    <3> QED
      BY <1>3, <2>2, <3>1, <3>2
  <2> QED
    BY <2>1, <2>2
<1> QED
  BY <1>1, <1>2, <1>3, <1>4 DEF WavBegins

\* The next piece of what is read is the next piece of what is expected.
NextSamples(type, sub, bytes, at, c) ==
  [i \in 1..c |-> IF sub \notin DOMAIN Readers[type] THEN Stale
                  ELSE Number(Apply(Readers[type][sub], Load(bytes, at + (i - 1) * Sub[sub].size,
                                                             Sub[sub])), Type[type])]

WavWithin(bytes, sub, from, c, all) == from + c <= all /\ all * Sub[sub].size <= Len(bytes)
WavContinues(type, sub, bytes, from, c, all) ==
  LET new == NextSamples(type, sub, bytes, from * Sub[sub].size, c)
      expected == ExpectedOf(type, sub, SamplesIn(bytes, Sub[sub], all))
  IN  new \in Seq(Int) /\ Len(new) = c /\ \A j \in 1..c : new[j] = expected[from + j]

LEMMA NextSamplesAre ==
  ASSUME NEW type \in DOMAIN Type, NEW sub \in DOMAIN Sub, NEW bytes \in Seq(WavByte),
         NEW from \in Nat, NEW c \in Nat, NEW all \in Nat, WavWithin(bytes, sub, from, c, all)
  PROVE  WavContinues(type, sub, bytes, from, c, all)
<1>0. from + c <= all /\ all * Sub[sub].size <= Len(bytes)
  BY DEF WavWithin
<1>1. PICK f \in WavFormats, s \in 1..4 : f = Sub[sub] /\ s = f.size
  BY SubIs
<1>2. PICK want : want = SamplesIn(bytes, f, all)
  OBVIOUS
<1>3. /\ want \in Seq(Int) /\ Len(want) = all
      /\ \A i \in 1..all : \E k \in -8..7 : /\ Load(bytes, (i - 1) * s, f) = Value(k, f)
                                            /\ want[i] = k
  BY <1>0, <1>1, <1>2, SamplesAre
<1>4. DOMAIN want = 1..all
  BY <1>3, LenProperties
<1>5. PICK new : new = NextSamples(type, sub, bytes, from * s, c)
  OBVIOUS
<1>6. DOMAIN new = 1..c /\ new = [j \in 1..c |-> new[j]]
  BY <1>5 DEF NextSamples
<1>7. ASSUME NEW j \in 1..c
      PROVE  new[j] \in Int /\ new[j] = ExpectedOf(type, sub, want)[from + j]
  <2>1. PICK i \in 1..all : i = from + j
    BY <1>0
  <2>2. CASE sub \notin DOMAIN Readers[type]
    <3>1. new[j] = Stale
      BY <1>5, <2>2 DEF NextSamples
    <3>2. ExpectedOf(type, sub, want)[i] = Stale
      BY <1>4, <2>2 DEF ExpectedOf
    <3> QED
      BY <2>1, <3>1, <3>2 DEF Stale
  <2>3. CASE sub \in DOMAIN Readers[type]
    <3>1. PICK k \in -8..7 : Load(bytes, (i - 1) * s, f) = Value(k, f) /\ want[i] = k
      BY <1>3
    <3>2. from * s + (j - 1) * s = (i - 1) * s
      <4>1. s = 1 \/ s = 2 \/ s = 3 \/ s = 4
        OBVIOUS
      <4> QED
        BY <2>1, <4>1
    <3>3. new[j] = Number(Apply(Readers[type][sub], Load(bytes, from * s + (j - 1) * s, f)),
                          Type[type])
      BY <1>1, <1>5, <2>3 DEF NextSamples
    <3>4. new[j] = Number(Apply(Readers[type][sub], Value(k, Sub[sub])), Type[type])
      BY <1>1, <3>1, <3>2, <3>3, Zenon
    <3>5. new[j] = k
      BY <2>3, <3>4, SampleRead
    <3>6. ExpectedOf(type, sub, want)[i] = k
      BY <2>3, <3>1 DEF ExpectedOf
    <3> QED
      BY <2>1, <3>5, <3>6
  <2> QED
    BY <2>2, <2>3
<1>8. new \in [1..c -> Int]
  BY <1>6, <1>7
<1>9. new \in Seq(Int)
  BY <1>8, SeqDef
<1>10. Len(new) = c
  BY <1>6, <1>9, LenIs
<1> QED
  BY <1>1, <1>2, <1>5, <1>7, <1>9, <1>10 DEF WavContinues

\* What is known of a file that is being read.
ReadingIs(h, d, at, got, type, sub, ch, b, r) ==
  /\ sub = h.sub /\ ch = h.channels /\ b = h.bytesPerFrame
  /\ WellFormed(h.file) /\ DataAt(h.file, d, sub, ch)
  /\ Len(got) = r * ch
  /\ ReadTo(b, h.file.chunks[d].size, Len(h.file.chunks[d].bytes), r, h.remaining, at)
  /\ \A i \in 1..Len(got) : got[i] = ExpectedOf(type, sub, SamplesOf(h.file))[i]

LEMMA WavReadingIs ==
  ASSUME WavIInv, wav.phase = "read"
  PROVE  \E sub \in DOMAIN Sub, ch \in 1..8, b \in Nat \ {0}, r \in Nat :
           ReadingIs(wav.handle, wav.scan.data, wav.scan.at, wav.got, wav.type, sub, ch, b, r)
<1>1. PICK h, chunks, d : h = wav.handle /\ chunks = h.file.chunks /\ d = wav.scan.data
  OBVIOUS
<1>2. WavTypeOK /\ ReadingOK
  BY DEF WavIInv
<1>3. PICK sub \in DOMAIN Sub, ch \in 1..8, b \in Nat \ {0}, rem \in Nat :
        sub = h.sub /\ ch = h.channels /\ b = h.bytesPerFrame /\ rem = h.remaining
  BY <1>1, <1>2, WavParts, FrameBytes
<1>4. h.file \in WavFiles /\ chunks \in Seq(WavChunk) /\ DOMAIN chunks = 1..Len(chunks)
  BY <1>1, <1>2, WavParts, LenProperties
<1>5. /\ WellFormed(h.file) /\ d \in DOMAIN chunks /\ chunks[d].id = "data"
      /\ d = FirstChunk(chunks, "data")
      /\ chunks[FirstChunk(chunks, "fmt")].sub = sub
      /\ chunks[FirstChunk(chunks, "fmt")].channels = ch
  BY <1>1, <1>2, <1>3, Zenon DEF ReadingOK
<1>6. DataAt(h.file, d, sub, ch)
  BY <1>1, <1>4, <1>5 DEF DataAt
<1>7. PICK size \in Nat : size = chunks[d].size
  BY <1>4, <1>5, ChunkIs
<1>8. PICK q \in Nat : q = size \div b
  BY QuotientIs
<1>9. PICK r \in Int : r = q - rem
  OBVIOUS
<1>10. /\ r >= 0 /\ Len(wav.got) = r * ch
       /\ \/ wav.scan.at = r * b /\ wav.scan.at <= Len(chunks[d].bytes)
          \/ wav.scan.at = Len(chunks[d].bytes) /\ r = Len(chunks[d].bytes) \div b
       /\ \A i \in 1..Len(wav.got) : wav.got[i] = Expected(SamplesOf(h.file))[i]
  BY <1>1, <1>2, <1>3, <1>7, <1>8, <1>9, Zenon DEF ReadingOK
<1>11. r \in Nat /\ r + rem = size \div b
  BY <1>8, <1>9, <1>10
<1>12. ReadTo(b, size, Len(chunks[d].bytes), r, rem, wav.scan.at)
  BY <1>10, <1>11, Zenon DEF ReadTo
<1>13. Expected(SamplesOf(h.file)) = ExpectedOf(wav.type, sub, SamplesOf(h.file))
  BY <1>1, <1>3, Zenon DEF Expected, ExpectedOf, Stale
<1> QED
  BY <1>1, <1>3, <1>5, <1>6, <1>7, <1>10, <1>11, <1>12, <1>13, Zenon DEF ReadingIs

\* That is enough for the reading to be right, before and at its end.
LEMMA ReadingKept ==
  ASSUME WavTypeOK', wav'.phase \in {"read", "end"},
         NEW sub \in DOMAIN Sub, NEW ch \in 1..8, NEW b \in Nat \ {0}, NEW r \in Nat, b = Sub[sub].size * ch,
         ReadingIs(wav'.handle, wav'.scan.data, wav'.scan.at, wav'.got, wav'.type, sub, ch, b, r),
         wav'.own => wav'.want = SamplesOf(wav'.handle.file),
         wav'.phase = "end" => Len(wav'.got) = Len(SamplesOf(wav'.handle.file))
  PROVE  WavIInv'
<1>1. PICK h, file, chunks, d, at, got, type :
        /\ h = wav'.handle /\ file = h.file /\ chunks = file.chunks /\ d = wav'.scan.data
        /\ at = wav'.scan.at /\ got = wav'.got /\ type = wav'.type
  OBVIOUS
<1>2. /\ file \in WavFiles /\ chunks \in Seq(WavChunk) /\ h.remaining \in Nat /\ at \in Nat
      /\ got \in Seq(Int) /\ type \in DOMAIN Type /\ DOMAIN chunks = 1..Len(chunks)
  <2>1. /\ h.file \in WavFiles /\ h.remaining \in Nat /\ at \in Nat /\ got \in Seq(Int)
        /\ type \in DOMAIN Type
    BY <1>1 DEF WavTypeOK
  <2> QED
    BY <1>1, <2>1, LenProperties DEF WavFiles
<1>3. /\ sub = h.sub /\ ch = h.channels /\ b = h.bytesPerFrame
      /\ WellFormed(file) /\ DataAt(file, d, sub, ch) /\ Len(got) = r * ch
      /\ ReadTo(b, chunks[d].size, Len(chunks[d].bytes), r, h.remaining, at)
      /\ \A i \in 1..Len(got) : got[i] = ExpectedOf(type, sub, SamplesOf(file))[i]
  BY <1>1, Zenon DEF ReadingIs
<1>4. PICK frames \in Nat, size \in Nat, bytes \in Seq(WavByte) :
        DataIs(file, d, sub, ch, frames, size, bytes)
  BY <1>2, <1>3, DataSamples
<1>5. PICK l \in Nat : l = Len(bytes)
  BY LenProperties
<1>6. /\ size = chunks[d].size /\ bytes = chunks[d].bytes /\ l = Len(chunks[d].bytes)
      /\ frames = Min({size, l}) \div b
      /\ SamplesOf(file) = SamplesIn(bytes, Sub[sub], frames * ch)
      /\ (frames * ch) * Sub[sub].size <= Len(bytes)
  BY <1>1, <1>4, <1>5, Zenon DEF DataIs
<1>7. ReadTo(b, size, l, r, h.remaining, at)
  BY <1>3, <1>6, Zenon
<1>8. r <= frames
  BY <1>2, <1>6, <1>7, ReadWithin
<1>9. PICK want \in Seq(Int) : want = SamplesOf(file) /\ Len(want) = frames * ch
  <2>1. PICK c \in Nat : c = frames * ch
    OBVIOUS
  <2>2. PICK f \in WavFormats : f = Sub[sub] /\ f.size \in 1..4
    BY SubIs
  <2> QED
    BY <1>6, <2>1, <2>2, SamplesAre
<1>10. Len(got) <= Len(want)
  <2>1. r * ch <= frames * ch
    BY <1>8, FramesTimes
  <2> QED
    BY <1>3, <1>9, <2>1
<1>12. PICK expected : expected = ExpectedOf(type, sub, want)
  OBVIOUS
<1>14. \A i \in 1..Len(got) : got[i] = ExpectedOf(type, sub, want)[i]
  BY <1>3, <1>9, Zenon
<1>15. got = SubSeq(expected, 1, Len(got))
  <2>1. got \in Seq(Int)
    BY <1>2
  <2>2. got = SubSeq(ExpectedOf(type, sub, want), 1, Len(got))
    <3>1. Yields(got, type, sub, want)
      BY <1>10, <1>14, Zenon DEF Yields
    <3> QED
      BY <2>1, <3>1, YieldedIs
  <2> QED
    BY <1>12, <2>2, Zenon
<1>16. Expected(want)' = expected
  <2>1. Expected(want)' = (IF wav'.handle.sub \in DOMAIN Readers[wav'.type] THEN want
                          ELSE [i \in DOMAIN want |-> Stale])
    BY DEF Expected
  <2> QED
    BY <1>1, <1>3, <1>12, <2>1, Zenon DEF ExpectedOf
<1>17. ReadsBackWhatWasWritten'
  <2>1. IF wav'.own THEN wav'.want = want ELSE SamplesOf(wav'.handle.file) = want
    BY <1>1, <1>9, Zenon
  <2>2. wav'.phase \in {"read", "end"} /\ wav'.phase # "closed"
    OBVIOUS
  <2>3. wav'.phase = "end" => Len(got) = Len(want)
    BY <1>1, <1>9, Zenon
  <2> QED
    BY <1>1, <1>3, <1>15, <1>16, <2>1, <2>2, <2>3, Zenon DEF ReadsBackWhatWasWritten
<1>18. ReadingOK'
  <2>1. PICK rem \in Nat : rem = h.remaining
    BY <1>2
  <2>2. PICK q \in Nat : q = size \div b
    BY QuotientIs
  <2>3. r + rem = q
    BY <1>7, <2>1, <2>2, Zenon DEF ReadTo
  <2>4. q - rem = r /\ r >= 0
    BY <2>3
  <2>5. (at = r * b /\ at <= l) \/ (at = l /\ r = l \div b)
    BY <1>7, Zenon DEF ReadTo
  <2>6. /\ d \in DOMAIN chunks /\ chunks[d].id = "data" /\ d = FirstChunk(chunks, "data")
        /\ chunks[FirstChunk(chunks, "fmt")].sub = h.sub
        /\ chunks[FirstChunk(chunks, "fmt")].channels = h.channels
    BY <1>1, <1>2, <1>3, Zenon DEF DataAt
  <2>7. chunks[d].size \div h.bytesPerFrame - h.remaining = r
    BY <1>3, <1>6, <2>1, <2>2, <2>4, Zenon
  <2>8. \A i \in 1..Len(got) : got[i] = Expected(SamplesOf(file))'[i]
    BY <1>1, <1>9, <1>12, <1>14, <1>16, Zenon
  <2> QED
    BY <1>1, <1>3, <1>6, <2>4, <2>5, <2>6, <2>7, <2>8, Zenon DEF ReadingOK
<1> QED
  BY <1>1, <1>3, <1>17, <1>18 DEF WavIInv

\* A read yields the next whole frames, and says it is at the end when they
\* have all been yielded.
LEMMA ReadfKeeps ==
  ASSUME WavIInv, NEW n \in Nat \ {0}, Readf(n)
  PROVE  WavIInv'
<1>1. PICK h, file, chunks, scan, d : /\ h = wav.handle /\ file = h.file /\ chunks = file.chunks
                                      /\ scan = wav.scan /\ d = scan.data
  OBVIOUS
<1>2. WavTypeOK /\ wav.phase = "read"
  BY DEF WavIInv, Readf
<1>3. PICK type \in DOMAIN Type, rem \in Nat, at \in Nat, got \in Seq(Int) :
        type = wav.type /\ rem = h.remaining /\ at = scan.at /\ got = wav.got
  BY <1>1, <1>2, WavParts
<1>4. PICK sub \in DOMAIN Sub, ch \in 1..8, b \in Nat \ {0}, r \in Nat :
        ReadingIs(h, d, at, got, type, sub, ch, b, r)
  BY <1>1, <1>2, <1>3, WavReadingIs
<1>5. /\ sub = h.sub /\ ch = h.channels /\ b = h.bytesPerFrame
      /\ WellFormed(file) /\ DataAt(file, d, sub, ch) /\ Len(got) = r * ch
      /\ ReadTo(b, chunks[d].size, Len(chunks[d].bytes), r, rem, at)
      /\ \A i \in 1..Len(got) : got[i] = ExpectedOf(type, sub, SamplesOf(file))[i]
  BY <1>1, <1>3, <1>4, Zenon DEF ReadingIs
<1>6. b = Sub[sub].size * ch
  BY <1>1, <1>5, FrameBytes
<1>7. file \in WavFiles
  BY <1>1, <1>2, WavParts
<1>8. PICK frames \in Nat, size \in Nat, bytes \in Seq(WavByte) :
        DataIs(file, d, sub, ch, frames, size, bytes)
  BY <1>5, <1>7, DataSamples
<1>9. PICK l \in Nat : l = Len(bytes)
  BY LenProperties
<1>10. /\ size = chunks[d].size /\ bytes = chunks[d].bytes /\ l = Len(chunks[d].bytes)
       /\ frames = Min({size, l}) \div b
       /\ SamplesOf(file) = SamplesIn(bytes, Sub[sub], frames * ch)
       /\ (frames * ch) * Sub[sub].size <= Len(bytes)
  BY <1>1, <1>6, <1>8, <1>9, Zenon DEF DataIs
<1>11. ReadTo(b, size, l, r, rem, at)
  BY <1>5, <1>10, Zenon
<1>12. MoreIsRead(b, size, l, r, rem, at, n)
  BY <1>11, ReadMore
<1>13. PICK a \in Nat, more \in Nat :
         /\ a = Min({Min({n, rem}) * b, l - at}) /\ more = a \div b /\ more <= rem
         /\ ReadTo(b, size, l, r + more, rem - more, at + a)
         /\ more > 0 => at = r * b
         /\ more = 0 => r = frames
  BY <1>10, <1>12 DEF MoreIsRead
<1>14. PICK phase \in {"read", "end"} : phase = IF more = 0 THEN "end" ELSE "read"
  OBVIOUS
<1>15. PICK new : new = NextSamples(type, sub, bytes, at, more * ch)
  OBVIOUS
<1>16. wav' = [wav EXCEPT !.phase = phase, !.scan.at = at + a, !.handle.remaining = rem - more,
                          !.got = got \o new]
  <2>1. a = Min({Min({n, h.remaining}) * h.bytesPerFrame, Len(chunks[d].bytes) - scan.at})
    BY <1>3, <1>5, <1>10, <1>13, Zenon
  <2>2. more = a \div h.bytesPerFrame
    BY <1>5, <1>13, Zenon
  <2> DEFINE desired == Min({n, wav.handle.remaining}) * wav.handle.bytesPerFrame
             there == Len(wav.handle.file.chunks[wav.scan.data].bytes) - wav.scan.at
             actual == Min({desired, there})
             whole == actual \div wav.handle.bytesPerFrame
             raw == NextSamples(wav.type, wav.handle.sub,
                                wav.handle.file.chunks[wav.scan.data].bytes, wav.scan.at,
                                whole * wav.handle.channels)
  <2>3. wav' = [wav EXCEPT !.phase = IF whole = 0 THEN "end" ELSE "read",
                           !.scan.at = wav.scan.at + actual,
                           !.handle.remaining = wav.handle.remaining - whole,
                           !.got = wav.got \o raw]
    BY Zenon DEF Readf, NextSamples
  <2>4. actual = a
    BY <1>1, <1>3, <2>1, Zenon
  <2>5. whole = more
    BY <1>1, <2>2, <2>4, Zenon
  <2> HIDE DEF desired, there, actual, whole
  <2>6. raw = new
    BY <1>1, <1>3, <1>5, <1>10, <1>15, <2>5, Zenon
  <2> HIDE DEF raw
  <2> QED
    BY <1>1, <1>3, <1>14, <2>3, <2>4, <2>5, <2>6, Zenon
<1>17. PICK expected : expected = ExpectedOf(type, sub, SamplesOf(file))
  OBVIOUS
<1>18. PICK from \in Nat, c \in Nat : from = r * ch /\ c = more * ch
  OBVIOUS
<1>19. rem - more \in Nat /\ at + a \in Nat /\ r + more \in Nat /\ from + c = (r + more) * ch
  <2>1. rem - more \in Nat /\ at + a \in Nat /\ r + more \in Nat
    <3>1. more <= rem
      BY <1>13, Zenon
    <3> QED
      BY <3>1
  <2>2. (r + more) * ch = r * ch + more * ch
    BY <1>13, FramesTimes
  <2> QED
    BY <1>18, <2>1, <2>2, Zenon
<1>20. r + more <= frames
  BY <1>10, <1>13, <1>19, ReadWithin
<1>21. /\ new \in Seq(Int) /\ Len(new) = c
       /\ \A j \in 1..c : new[j] = expected[from + j]
  <2>1. CASE more = 0
    <3>1. c = 0
      BY <1>18, <2>1
    <3>2. new = << >>
      BY <1>15, <1>18, <3>1 DEF NextSamples
    <3> QED
      BY <3>1, <3>2
  <2>2. CASE more > 0
    <3>1. PICK s \in 1..4 : s = Sub[sub].size
      BY SubIs
    <3>2. at = from * Sub[sub].size
      <4>1. (r * ch) * s = r * (s * ch)
        BY WavFrameIs
      <4> QED
        BY <1>6, <1>13, <1>18, <2>2, <3>1, <4>1
    <3>3. PICK all \in Nat : all = frames * ch
      OBVIOUS
    <3>4. from + c <= all
      <4>1. (r + more) * ch <= frames * ch
        BY <1>19, <1>20, FramesTimes
      <4> QED
        BY <1>19, <3>3, <4>1
    <3>5. all * Sub[sub].size <= Len(bytes)
      BY <1>10, <3>3
    <3>6. new = NextSamples(type, sub, bytes, from * Sub[sub].size, c)
      BY <1>15, <1>18, <3>2, Zenon
    <3>7. expected = ExpectedOf(type, sub, SamplesIn(bytes, Sub[sub], all))
      BY <1>10, <1>17, <3>3, Zenon
    <3>8. WavContinues(type, sub, bytes, from, c, all)
      <4>1. WavWithin(bytes, sub, from, c, all)
        BY <3>4, <3>5 DEF WavWithin
      <4> QED
        BY <4>1, NextSamplesAre
    <3> QED
      BY <3>6, <3>7, <3>8, Zenon DEF WavContinues
  <2>3. more = 0 \/ more > 0
    OBVIOUS
  <2> QED
    BY <2>1, <2>2, <2>3, Zenon
<1>22. PICK got2 : got2 = got \o new
  OBVIOUS
<1>23. /\ got2 \in Seq(Int) /\ Len(got2) = from + c
       /\ \A i \in 1..Len(got2) : got2[i] = expected[i]
  <2>1. WavBegins(got, expected)
    BY <1>5, <1>17, Zenon DEF WavBegins
  <2>2. WavFollows(new, Len(got), expected)
    BY <1>5, <1>18, <1>21, Zenon DEF WavFollows
  <2>3. got \in Seq(Int) /\ Len(got) = from
    BY <1>5, <1>18, Zenon
  <2>4. new \in Seq(Int) /\ Len(new) = c
    BY <1>21
  <2>5. /\ got \o new \in Seq(Int) /\ Len(got \o new) = Len(got) + Len(new)
        /\ WavBegins(got \o new, expected)
    BY <2>1, <2>2, <2>3, <2>4, MoreYielded
  <2> QED
    BY <1>22, <2>3, <2>4, <2>5, Zenon DEF WavBegins
<1>24. PICK handle, scan2 : handle = [h EXCEPT !.remaining = rem - more]
                            /\ scan2 = [scan EXCEPT !.at = at + a]
  OBVIOUS
<1>25. /\ handle \in [file : WavFiles, sub : DOMAIN Sub, channels : 1..8, bytesPerFrame : Nat,
                      remaining : Nat]
       /\ handle.file = file /\ handle.sub = sub /\ handle.channels = ch
       /\ handle.bytesPerFrame = b /\ handle.remaining = rem - more
  <2>1. h \in [file : WavFiles, sub : DOMAIN Sub, channels : 1..8, bytesPerFrame : Nat,
               remaining : Nat]
    BY <1>1, <1>2, Zenon DEF WavTypeOK
  <2> QED
    BY <1>1, <1>5, <1>19, <1>24, <2>1
<1>26. /\ scan2 \in [at : Nat, remaining : Int, hadFmt : BOOLEAN, data : Nat]
       /\ scan2.at = at + a /\ scan2.data = d
  <2>1. scan \in [at : Nat, remaining : Int, hadFmt : BOOLEAN, data : Nat]
    BY <1>1, <1>2, Zenon DEF WavTypeOK
  <2> QED
    BY <1>1, <1>19, <1>24, <2>1
<1>27. wav' = [wav EXCEPT !.phase = phase, !.scan = scan2, !.handle = handle, !.got = got2]
  BY <1>1, <1>16, <1>22, <1>24
<1>28. /\ wav'.phase = phase /\ wav'.scan = scan2 /\ wav'.handle = handle /\ wav'.got = got2
       /\ wav'.type = type /\ wav'.own = wav.own /\ wav'.want = wav.want
  BY <1>2, <1>3, <1>27 DEF WavTypeOK
<1>29. WavTypeOK'
  BY <1>2, <1>14, <1>23, <1>25, <1>26, <1>27 DEF WavTypeOK
<1>30. ReadingIs(handle, d, at + a, got2, type, sub, ch, b, r + more)
  <2>1. Len(got2) = (r + more) * ch
    BY <1>19, <1>23
  <2>2. ReadTo(b, handle.file.chunks[d].size, Len(handle.file.chunks[d].bytes), r + more,
               handle.remaining, at + a)
    BY <1>1, <1>10, <1>13, <1>25, Zenon
  <2> QED
    BY <1>5, <1>17, <1>23, <1>25, <2>1, <2>2, Zenon DEF ReadingIs
<1>31. wav'.own => wav'.want = SamplesOf(wav'.handle.file)
  <2>1. wav.own => wav.want = SamplesOf(file)
    BY <1>1, <1>2 DEF WavIInv
  <2> QED
    BY <1>25, <1>28, <2>1, Zenon
<1>32. wav'.phase = "end" => Len(wav'.got) = Len(SamplesOf(wav'.handle.file))
  <2> SUFFICES ASSUME phase = "end"
               PROVE  Len(got2) = Len(SamplesOf(file))
    BY <1>25, <1>28, Zenon
  <2>1. more = 0
    BY <1>14
  <2>2. Len(got2) = frames * ch
    <3>1. r = frames
      BY <1>13, <2>1, Zenon
    <3>2. c = 0 /\ from = frames * ch /\ from + 0 = from
      BY <1>18, <2>1, <3>1
    <3> QED
      BY <1>23, <3>2, Zenon
  <2>3. PICK all \in Nat : all = frames * ch
    OBVIOUS
  <2>4. PICK f \in WavFormats : f = Sub[sub] /\ f.size \in 1..4
    BY SubIs
  <2>5. Len(SamplesIn(bytes, f, all)) = all
    BY <1>10, <2>3, <2>4, SamplesAre
  <2> QED
    BY <1>10, <2>2, <2>3, <2>4, <2>5, Zenon
<1>33. PICK r2 \in Nat : r2 = r + more
  BY <1>19
<1>34. ReadingIs(wav'.handle, wav'.scan.data, wav'.scan.at, wav'.got, wav'.type, sub, ch, b, r2)
  BY <1>26, <1>28, <1>30, <1>33, Zenon
<1> QED
  BY <1>6, <1>14, <1>28, <1>29, <1>31, <1>32, <1>34, ReadingKept

-----------------------------------------------------------------------------
(***************************************************************************)
(* WavFile: the first states, and the theorem.                             *)
(***************************************************************************)

\* A file just opened for writing.
LEMMA UnwrittenFile ==
  ASSUME NEW sub \in DOMAIN Sub, NEW ch \in 1..8, NEW file, file = sf_open_write(sub, ch)
  PROVE  /\ file = WithData(sf_open_write(sub, ch), Data(0, << >>))
         /\ file \in WavFiles /\ SamplesOf(file) = << >> /\ WellFormed(file)
         /\ Last(file.chunks).bytes = << >>
<1>1. PICK bytes \in Seq(WavByte) : bytes = << >> /\ Len(bytes) = 0
  BY EmptySeq
<1>2. PICK own : own = WithData(sf_open_write(sub, ch), Data(0, bytes))
  OBVIOUS
<1>3. own = file
  <2>1. own = [riffSize |-> IF sub = "FLOAT" THEN 50 ELSE 36,
               chunks |-> IF sub = "FLOAT" THEN <<Fmt(18, sub, ch), Other(4), Data(0, bytes)>>
                          ELSE <<Fmt(16, sub, ch), Data(0, bytes)>>]
    BY <1>2, WithDataIs
  <2>2. sub = "FLOAT" => own = sf_open_write(sub, ch)
    BY <1>1, <2>1 DEF sf_open_write
  <2>3. sub # "FLOAT" => own = sf_open_write(sub, ch)
    BY <1>1, <2>1 DEF sf_open_write
  <2> QED
    BY <2>2, <2>3
<1>4. own \in WavFiles
  <2>1. WrittenAs(own, sub, ch, 0, bytes)
    BY <1>2 DEF WrittenAs
  <2> QED
    BY <2>1, WriterFileIs
<1>5. Last(own.chunks) = Data(0, bytes)
  BY <1>2, WithDataIs
<1>6. PICK f \in WavFormats : f = Sub[sub] /\ f.size \in 1..4
  BY SubIs
<1>7. PICK b \in Nat \ {0} : b = f.size * ch
  BY <1>6, WavFrameIs
<1>8. Min({0, 0}) \div b = 0
  BY FramesThere
<1>9. SamplesOf(own) = SamplesIn(bytes, f, 0 * ch)
  <2>1. 0 = Min({0, Len(bytes)}) \div (Sub[sub].size * ch)
    BY <1>1, <1>6, <1>7, <1>8, Zenon
  <2>2. HasChunksOf(own, sub, ch, 0, bytes)
    BY <1>2 DEF HasChunksOf
  <2>3. SamplesOf(own)
          = SamplesIn(bytes, Sub[sub], (Min({0, Len(bytes)}) \div (Sub[sub].size * ch)) * ch)
    BY <2>2, WriterSamplesAre
  <2> QED
    BY <1>6, <2>1, <2>3, Zenon
<1>10. SamplesIn(bytes, f, 0) = << >>
  <2>1. Follow(bytes, 0, f)
    BY <1>1 DEF Follow
  <2>2. PICK none \in Nat : none = 0 /\ none * f.size <= Len(bytes)
    BY <1>1, <1>6
  <2>3. SamplesIn(bytes, f, none) = Remainders(0, none)
    BY <1>6, <2>1, <2>2, WholeSamples
  <2>4. Remainders(0, 0) \in Seq(0..7) /\ Len(Remainders(0, 0)) = 0
    BY RemaindersAre
  <2> QED
    BY <2>2, <2>3, <2>4, EmptySeq
<1>11. 0 * ch = 0
  OBVIOUS
<1>12. WellFormed(own)
  <2>1. HasChunksOf(own, sub, ch, 0, bytes)
    BY <1>2 DEF HasChunksOf
  <2>2. own.riffSize = 0 + 36 + (IF sub = "FLOAT" THEN 14 ELSE 0)
    BY <1>2, WithDataIs
  <2> QED
    BY <2>1, <2>2, WriterFileOpens
<1> QED
  BY <1>1, <1>2, <1>3, <1>4, <1>5, <1>9, <1>10, <1>11, <1>12 DEF Data

LEMMA HandleIs ==
  ASSUME NEW file \in WavFiles, NEW sub \in DOMAIN Sub, NEW ch \in 1..8,
         NEW h, h = Handle(file, sub, ch)
  PROVE  /\ h \in [file : WavFiles, sub : DOMAIN Sub, channels : 1..8, bytesPerFrame : Nat,
                   remaining : Nat]
         /\ h.file = file /\ h.sub = sub /\ h.channels = ch /\ h.remaining = 0
         /\ h.bytesPerFrame = Sub[sub].size * ch
<1>1. PICK s \in 1..4 : s = Sub[sub].size
  BY SubIs
<1>2. s * ch \in Nat
  BY WavFrameIs
<1> QED
  BY <1>1, <1>2 DEF Handle

\* A file to write, one of somebody else's to read, or nothing to do.
LEMMA WavStarts ==
  ASSUME WavInit \/ WavIdle
  PROVE  WavIInv
<1>1. CASE \E sub \in DOMAIN Sub, channels \in 1..2, type \in DOMAIN Type :
             wav = [phase |-> "write", type |-> type,
                    handle |-> Handle(sf_open_write(sub, channels), sub, channels),
                    want |-> << >>, got |-> << >>, own |-> TRUE, scan |-> Unscanned]
  <2>1. PICK sub \in DOMAIN Sub, ch \in 1..2, type \in DOMAIN Type :
          wav = [phase |-> "write", type |-> type,
                 handle |-> Handle(sf_open_write(sub, ch), sub, ch),
                 want |-> << >>, got |-> << >>, own |-> TRUE, scan |-> Unscanned]
    BY <1>1
  <2>2. ch \in 1..8
    OBVIOUS
  <2>3. PICK file : file = sf_open_write(sub, ch)
    OBVIOUS
  <2>4. /\ file = WithData(sf_open_write(sub, ch), Data(0, << >>)) /\ file \in WavFiles
        /\ Last(file.chunks).bytes = << >>
    BY <2>2, <2>3, UnwrittenFile
  <2>5. PICK h : h = Handle(file, sub, ch)
    OBVIOUS
  <2>6. /\ h \in [file : WavFiles, sub : DOMAIN Sub, channels : 1..8, bytesPerFrame : Nat,
                  remaining : Nat]
        /\ h.file = file /\ h.sub = sub /\ h.channels = ch /\ h.remaining = 0
        /\ h.bytesPerFrame = Sub[sub].size * ch
    BY <2>2, <2>4, <2>5, HandleIs
  <2>7. wav = [phase |-> "write", type |-> type, handle |-> h,
               want |-> << >>, got |-> << >>, own |-> TRUE, scan |-> Unscanned]
    BY <2>1, <2>3, <2>5, Zenon
  <2>8. /\ wav.phase = "write" /\ wav.handle = h /\ wav.want = << >> /\ wav.got = << >>
        /\ wav.own = TRUE
    BY <2>7
  <2>9. WavTypeOK
    BY <2>6, <2>7, EmptySeq DEF WavTypeOK, Unscanned
  <2>10. PICK b \in Nat \ {0} : b = h.bytesPerFrame
    <3>1. PICK s \in 1..4 : s = Sub[sub].size
      BY SubIs
    <3>2. s * ch \in Nat \ {0}
      BY <2>2, <3>1, WavFrameIs
    <3> QED
      BY <2>6, <3>1, <3>2
  <2>11. WritingOK
    <3>1. 0 * ch = 0 /\ 0 * b = 0 /\ Len(<< >>) = 0
      BY EmptySeq
    <3>2. << >> = [i \in 1..0 |-> i % 8]
      OBVIOUS
    <3> QED
      BY <2>4, <2>6, <2>8, <2>10, <3>1, <3>2 DEF WritingOK
  <2> QED
    BY <2>6, <2>8, <2>9, <2>11 DEF WavIInv, ReadsBackWhatWasWritten
<1>2. CASE \E file \in Foreign, type \in DOMAIN Type :
             wav = [phase |-> "open", type |-> type,
                    handle |-> Handle(file, "PCM_16", 1),
                    want |-> << >>, got |-> << >>, own |-> FALSE, scan |-> Unscanned]
  <2>1. PICK file \in Foreign, type \in DOMAIN Type :
          wav = [phase |-> "open", type |-> type,
                 handle |-> Handle(file, "PCM_16", 1),
                 want |-> << >>, got |-> << >>, own |-> FALSE, scan |-> Unscanned]
    BY <1>2
  <2>2. PICK h : h = Handle(file, "PCM_16", 1)
    OBVIOUS
  <2>3. file \in WavFiles /\ "PCM_16" \in DOMAIN Sub
    BY WavFileAssumption DEF Sub
  <2>4. /\ h \in [file : WavFiles, sub : DOMAIN Sub, channels : 1..8, bytesPerFrame : Nat,
                  remaining : Nat]
        /\ h.sub = "PCM_16" /\ h.channels = 1 /\ h.bytesPerFrame = Sub["PCM_16"].size * 1
    BY <2>2, <2>3, HandleIs
  <2>5. wav = [phase |-> "open", type |-> type, handle |-> h,
               want |-> << >>, got |-> << >>, own |-> FALSE, scan |-> Unscanned]
    BY <2>1, <2>2, Zenon
  <2>6. wav.phase = "open" /\ wav.handle = h /\ wav.got = << >> /\ wav.own = FALSE
    BY <2>5
  <2>7. WavTypeOK
    BY <2>4, <2>5, EmptySeq DEF WavTypeOK, Unscanned
  <2> QED
    BY <2>4, <2>6, <2>7 DEF WavIInv, ReadsBackWhatWasWritten
<1>3. CASE WavIdle
  <2>1. "PCM_16" \in DOMAIN Sub /\ "short" \in DOMAIN Type
    BY DEF Sub, Type
  <2>2. PICK file : file = sf_open_write("PCM_16", 1)
    OBVIOUS
  <2>3. file \in WavFiles /\ SamplesOf(file) = << >>
    BY <2>1, <2>2, UnwrittenFile
  <2>4. PICK h : h = Handle(file, "PCM_16", 1)
    OBVIOUS
  <2>5. /\ h \in [file : WavFiles, sub : DOMAIN Sub, channels : 1..8, bytesPerFrame : Nat,
                  remaining : Nat]
        /\ h.file = file /\ h.sub = "PCM_16" /\ h.channels = 1
        /\ h.bytesPerFrame = Sub["PCM_16"].size * 1
    BY <2>1, <2>3, <2>4, HandleIs
  <2>6. wav = [phase |-> "end", type |-> "short", handle |-> h,
               want |-> << >>, got |-> << >>, own |-> TRUE, scan |-> Unscanned]
    BY <1>3, <2>2, <2>4, Zenon DEF WavIdle
  <2>7. /\ wav.phase = "end" /\ wav.type = "short" /\ wav.handle = h /\ wav.want = << >>
        /\ wav.got = << >> /\ wav.own = TRUE
    BY <2>6
  <2>8. WavTypeOK
    BY <2>1, <2>5, <2>6, EmptySeq DEF WavTypeOK, Unscanned
  <2>9. WellFormed(file)
    BY <2>1, <2>2, UnwrittenFile
  <2>10. << >> = SubSeq(Expected(<< >>), 1, Len(<< >>))
    <3>1. << >> \in Seq(Int) /\ Len(<< >>) = 0
      BY EmptySeq
    <3>2. PICK none \in Seq(Int) : none = << >> /\ Len(none) = 0
      BY <3>1
    <3>3. Yields(none, "short", "PCM_16", none)
      BY <3>2 DEF Yields
    <3>4. none = SubSeq(ExpectedOf("short", "PCM_16", none), 1, Len(none))
      BY <3>3, YieldedIs
    <3>5. Expected(none) = ExpectedOf("short", "PCM_16", none)
      BY <2>5, <2>7, Zenon DEF Expected, ExpectedOf
    <3> QED
      BY <3>2, <3>4, <3>5, Zenon
  <2>11. ReadsBackWhatWasWritten
    BY <2>5, <2>7, <2>9, <2>10 DEF ReadsBackWhatWasWritten
  <2> QED
    BY <2>3, <2>5, <2>7, <2>8, <2>9, <2>11 DEF WavIInv
<1> QED
  BY <1>1, <1>2, <1>3 DEF WavInit

LEMMA WavStepKeeps ==
  ASSUME WavIInv, WavNext
  PROVE  WavIInv'
<1>1. CASE Close
  BY <1>1, CloseKeeps
<1>2. CASE OpenRead
  BY <1>2, OpenReadKeeps
<1>3. CASE ReadChunk
  BY <1>3, ReadChunkKeeps
<1>4. CASE Opened
  BY <1>4, OpenedKeeps
<1>5. ASSUME NEW n \in 1..2, Readf(n)
      PROVE  WavIInv'
  <2>1. n \in Nat \ {0}
    OBVIOUS
  <2> QED
    BY <1>5, <2>1, ReadfKeeps
<1>6. ASSUME NEW n \in 1..2, NEW actualBytes \in 0..(8 * n), Writef(n, actualBytes)
      PROVE  WavIInv'
  <2>1. actualBytes \in Nat
    OBVIOUS
  <2> QED
    BY <1>6, <2>1, WriteKeeps
<1> QED
  BY <1>1, <1>2, <1>3, <1>4, <1>5, <1>6 DEF WavNext

\* A WAV file written through sf_writef_* and closed opens and is read back
\* through sf_readf_* as the frames written, in whatever formats and pieces, as
\* long as no write fails nor any call of its closing; what is left where one
\* did, and every file of somebody else, opens only when it is well-formed, and
\* yields its data.
THEOREM WavFilesReadBack == Spec => []ReadsBackWhatWasWritten
<1>1. Init => WavIInv
  BY WavStarts DEF Init
<1>2. WavIInv /\ [Next]_vars => WavIInv'
  <2> SUFFICES ASSUME WavIInv, [Next]_vars
               PROVE  WavIInv'
    OBVIOUS
  <2>1. WavNext \/ UNCHANGED wav
    <3>1. Next => WavNext \/ UNCHANGED wav
      BY Zenon DEF Next
    <3>2. UNCHANGED vars => UNCHANGED wav
      BY DEF vars
    <3> QED
      BY <3>1, <3>2
  <2>2. CASE UNCHANGED wav
    <3>1. WavTypeOK' = WavTypeOK /\ WritingOK' = WritingOK
      BY <2>2, Zenon DEF WavTypeOK, WritingOK
    <3>2. ScanningOK' = ScanningOK
      BY <2>2, Zenon DEF ScanningOK
    <3>3. ReadingOK' = ReadingOK /\ ReadsBackWhatWasWritten' = ReadsBackWhatWasWritten
      BY <2>2, Zenon DEF ReadingOK, ReadsBackWhatWasWritten, Expected
    <3> QED
      BY <2>2, <3>1, <3>2, <3>3, Zenon DEF WavIInv
  <2> QED
    BY <2>1, <2>2, WavStepKeeps
<1>3. WavIInv => ReadsBackWhatWasWritten
  BY DEF WavIInv
<1> QED
  BY <1>1, <1>2, <1>3, PTL DEF Spec
=============================================================================
