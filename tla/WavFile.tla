-------------------------------- MODULE WavFile --------------------------------
(***************************************************************************)
(* tinysndfile.c: a WAV file written through sf_writef_*, closed, and read *)
(* back through sf_readf_*; or one of somebody else's, read only.          *)
(*                                                                         *)
(* A file is what its RIFF header says of its size and a sequence of       *)
(* chunks; a data chunk says its size and holds its bytes (as in           *)
(* SampleFormats), fewer when the file is cut off.  Sample number k is     *)
(* k/8 in every format, so that no conversion loses it.                    *)
(***************************************************************************)
EXTENDS SampleFormats, SequencesExt

CONSTANTS
  MaxFrames,   \* frames written
  Torn,        \* bytes that a failing write takes, and bytes that a failure loses
  Foreign      \* the files of somebody else

VARIABLE wav

Sub == [PCM_U8 |-> u8, PCM_16 |-> i16, PCM_24 |-> p24, PCM_32 |-> i32, FLOAT |-> float]
Type == [short |-> i16, float |-> float, int |-> i32]
Eighth == B(8192, 536870912)
Value(k, f) == k * (Eighth \div f.unit)
Number(v, f) == v \div (Eighth \div f.unit)

WavByte == {<<f, Value(k, f), j>> : f \in Formats, k \in -8..7, j \in 1..4}
WavChunk ==
  [id : {"fmt"}, size : Nat, good : BOOLEAN, sub : DOMAIN Sub, channels : 1..8]
    \cup [id : {"data"}, size : Nat, bytes : Seq(WavByte)]
    \cup [id : {"other"}, size : Nat]
WavFiles == [riffSize : Nat, chunks : Seq(WavChunk)]

\* A foreign file is one of any sizes and chunks.
ASSUME WavFileAssumption == Foreign \subseteq WavFiles

-----------------------------------------------------------------------------
(***************************************************************************)
(* How each function converts each format; what it does not name is not    *)
(* written, and read as if it were there.                                  *)
(***************************************************************************)

Same(f) == Up(f, f, "shift")
Apply(fn, v) == Convert(fn.how, <<v>>, fn.from, fn.to)[1]

sf_writef_short == [PCM_U8 |-> memcpy_to_u8_from_i16, PCM_16 |-> Same(i16),
                    FLOAT |-> memcpy_to_float_from_i16]
sf_writef_float == [FLOAT |-> Same(float), PCM_16 |-> memcpy_to_i16_from_float]
sf_writef_int == [PCM_32 |-> Same(i32)]

sf_readf_short ==
  [PCM_U8 |-> memcpy_to_i16_from_u8, PCM_16 |-> Same(i16), PCM_32 |-> memcpy_to_i16_from_i32,
   FLOAT |-> memcpy_to_i16_from_float, PCM_24 |-> memcpy_to_i16_from_p24]
sf_readf_float ==
  [PCM_16 |-> memcpy_to_float_from_i16, PCM_32 |-> memcpy_to_float_from_i32,
   FLOAT |-> Same(float), PCM_24 |-> memcpy_to_float_from_p24]
sf_readf_int ==
  [PCM_16 |-> memcpy_to_i32_from_i16, PCM_32 |-> Same(i32),
   FLOAT |-> memcpy_to_i32_from_float, PCM_24 |-> memcpy_to_i32_from_p24]

Writers == [short |-> sf_writef_short, float |-> sf_writef_float, int |-> sf_writef_int]
Readers == [short |-> sf_readf_short, float |-> sf_readf_float, int |-> sf_readf_int]

-----------------------------------------------------------------------------
(***************************************************************************)
(* Writing.                                                                *)
(***************************************************************************)

Fmt(size, sub, channels) ==
  [id |-> "fmt", size |-> size, good |-> TRUE, sub |-> sub, channels |-> channels]
Data(size, bytes) == [id |-> "data", size |-> size, bytes |-> bytes]
Other(size) == [id |-> "other", size |-> size]

\* The header as it is written first: no data yet.
sf_open_write(sub, channels) ==
  IF sub = "FLOAT"
  THEN [riffSize |-> 50, chunks |-> <<Fmt(18, sub, channels), Other(4), Data(0, << >>)>>]
  ELSE [riffSize |-> 36, chunks |-> <<Fmt(16, sub, channels), Data(0, << >>)>>]

Handle(file, sub, channels) ==
  [file |-> file, sub |-> sub, channels |-> channels,
   bytesPerFrame |-> Sub[sub].size * channels, remaining |-> 0]

Unscanned == [at |-> 0, remaining |-> 0, hadFmt |-> FALSE, data |-> 0]

\* `own': we wrote the file, and nothing of it failed; `want' is what was written
\* so far.
WavInit ==
  \/ \E sub \in DOMAIN Sub, channels \in 1..2, type \in DOMAIN Type :
       wav = [phase |-> "write", type |-> type,
              handle |-> Handle(sf_open_write(sub, channels), sub, channels),
              want |-> << >>, got |-> << >>, own |-> TRUE,
              scan |-> Unscanned]
  \/ \E file \in Foreign, type \in DOMAIN Type :
       wav = [phase |-> "open", type |-> type,
              handle |-> Handle(file, "PCM_16", 1),
              want |-> << >>, got |-> << >>, own |-> FALSE,
              scan |-> Unscanned]
WavIdle ==
  wav = [phase |-> "end", type |-> "short",
         handle |-> Handle(sf_open_write("PCM_16", 1), "PCM_16", 1),
         want |-> << >>, got |-> << >>, own |-> TRUE,
         scan |-> Unscanned]

WithData(file, data) == [file EXCEPT !.chunks[Len(file.chunks)] = data]

\* n frames.  fwrite tells the bytes that stdio accepted, and counts as frames
\* what need not be on the disk: when it fails, the last of what was accepted,
\* still in its buffer, may be gone too.  Later writes may succeed again (bound:
\* one write of a file fails).
Writef(n, actualBytes) ==
  LET h == wav.handle
      table == Writers[wav.type]
      ks == [i \in 1..(n * h.channels) |-> (Len(wav.want) + i) % 8]
      bytes == IF h.sub \notin DOMAIN table THEN << >>
               ELSE Stored([i \in DOMAIN ks |->
                              Apply(table[h.sub], Value(ks[i], Type[wav.type]))], Sub[h.sub])
      data == Last(h.file.chunks)
      frames == actualBytes \div h.bytesPerFrame
      failed == actualBytes < Len(bytes)
  IN
  /\ wav.phase = "write" /\ Len(data.bytes) + n * h.bytesPerFrame <= MaxFrames * h.bytesPerFrame
  /\ actualBytes <= Len(bytes) /\ (failed => wav.own /\ actualBytes \in Torn)
  /\ \E kept \in 0..(Len(data.bytes) + actualBytes) :
       /\ Len(data.bytes) + actualBytes - kept \in IF failed THEN Torn ELSE {0}
       /\ wav' = [wav EXCEPT
            !.own = wav.own /\ ~failed,
            !.handle.file = WithData(h.file,
                              [data EXCEPT !.bytes = SubSeq(data.bytes \o bytes, 1, kept)]),
            !.handle.remaining = h.remaining + frames,
            !.want = wav.want \o SubSeq(ks, 1, frames * h.channels)]

\* (A bug to be caught: the header is left as it was when the file was opened.)
sf_close_as_opened(h) == h.file
\* The header's two sizes, from the frames counted.
sf_close(h) ==
  LET extra == IF h.sub = "FLOAT" THEN 14 ELSE 0
      dataSize == h.remaining * h.bytesPerFrame
  IN  [WithData(h.file, [Last(h.file.chunks) EXCEPT !.size = dataSize])
         EXCEPT !.riffSize = dataSize + 36 + extra]

\* What may be left when a write had failed, or the fflush, fread, fwrite or
\* fclose that close the file, whose results nobody looks at: either header over
\* some of the bytes accepted, or no header.  (What a failing fread leaves to be
\* written as the header is undefined, and taken for none.)
NoHeader == [riffSize |-> 0, chunks |-> << >>]
Spoilt(h) ==
  LET data == Last(h.file.chunks) IN
  {WithData(file, Data(Last(file.chunks).size, SubSeq(data.bytes, 1, kept))) :
     file \in {h.file, sf_close(h)},
     kept \in {k \in 0..Len(data.bytes) : Len(data.bytes) - k \in Torn}}
  \cup {NoHeader}

Close ==
  /\ wav.phase = "write"
  /\ \E type \in DOMAIN Type, file \in {sf_close(wav.handle)} \cup Spoilt(wav.handle) :
       wav' = [wav EXCEPT !.phase = "open", !.type = type, !.handle.file = file,
                          !.own = wav.own /\ file = sf_close(wav.handle)]

-----------------------------------------------------------------------------
(***************************************************************************)
(* Opening: one chunk after another, up to the size the RIFF header says.  *)
(***************************************************************************)

OpenRead ==
  LET riffSize == wav.handle.file.riffSize IN
  /\ wav.phase = "open"
  /\ wav' = [wav EXCEPT
       !.phase = IF riffSize < 4 THEN "closed" ELSE "chunks",
       !.scan = [at |-> 1, remaining |-> riffSize - 4, hadFmt |-> FALSE, data |-> 0]]

\* What sf_open_read makes of a chunk; the fmt chunk it can read is `good'.
ReadChunk ==
  LET h == wav.handle
      scan == wav.scan
      chunk == h.file.chunks[scan.at]
      refused == \/ scan.at > Len(h.file.chunks)
                 \/ chunk.size > scan.remaining - 8
                 \/ chunk.id = "fmt" /\ (scan.hadFmt \/ ~chunk.good)
                 \/ chunk.id = "data" /\ (~scan.hadFmt \/ scan.data # 0)
      next == [scan EXCEPT !.at = scan.at + 1, !.remaining = scan.remaining - 8 - chunk.size]
  IN
  /\ wav.phase = "chunks" /\ scan.remaining >= 8
  /\ wav' =
       CASE refused -> [wav EXCEPT !.phase = "closed"]
         [] ~refused /\ chunk.id = "fmt" ->
              [wav EXCEPT !.scan = [next EXCEPT !.hadFmt = TRUE],
                          !.handle = Handle(h.file, chunk.sub, chunk.channels)]
         [] ~refused /\ chunk.id = "data" ->
              [wav EXCEPT !.scan = [next EXCEPT !.data = scan.at],
                          !.handle.remaining = chunk.size \div h.bytesPerFrame]
         [] OTHER -> [wav EXCEPT !.scan = next]

Opened ==
  /\ wav.phase = "chunks" /\ wav.scan.remaining < 8
  /\ wav' = [wav EXCEPT !.phase = IF wav.scan.remaining > 0 \/ wav.scan.data = 0
                                  THEN "closed" ELSE "read",
                        !.scan.at = 0]

-----------------------------------------------------------------------------
(***************************************************************************)
(* Reading: `scan.at' is the bytes read of the data.  A format the         *)
(* function does not know yields frames nobody filled.                     *)
(***************************************************************************)

Stale == -1

Readf(n) ==
  LET h == wav.handle
      fn == Readers[wav.type]
      bytes == h.file.chunks[wav.scan.data].bytes
      at == wav.scan.at
      desiredBytes == Min({n, h.remaining}) * h.bytesPerFrame
      actualBytes == Min({desiredBytes, Len(bytes) - at})
      frames == actualBytes \div h.bytesPerFrame
      Sample(i) == IF h.sub \notin DOMAIN fn THEN Stale
                   ELSE Number(Apply(fn[h.sub], Load(bytes, at + (i - 1) * Sub[h.sub].size,
                                                     Sub[h.sub])), Type[wav.type])
  IN
  /\ wav.phase = "read"
  /\ wav' = [wav EXCEPT
       !.phase = IF frames = 0 THEN "end" ELSE "read",
       !.scan.at = at + actualBytes,
       !.handle.remaining = h.remaining - frames,
       !.got = wav.got \o [i \in 1..(frames * h.channels) |-> Sample(i)]]

WavNext ==
  \/ Close \/ OpenRead \/ ReadChunk \/ Opened
  \/ \E n \in 1..2 : Readf(n) \/ \E actualBytes \in 0..(8 * n) : Writef(n, actualBytes)

-----------------------------------------------------------------------------
(***************************************************************************)
(* Property.                                                               *)
(***************************************************************************)

\* Where each chunk ends, counted from behind the RIFF size; and the one chunk
\* of its kind among the first n.
ChunkEnds(chunks) ==
  LET end[i \in 0..Len(chunks)] == IF i = 0 THEN 4 ELSE end[i - 1] + 8 + chunks[i].size
  IN  end
Only(chunks, n, id, i) ==
  i \in 1..n /\ chunks[i].id = id /\ \A j \in 1..n : chunks[j].id = id => j = i

\* A file the reader should take: chunks that fill what the header says, one
\* fmt it knows before one data (what comes after them is not looked at); and
\* the samples it should find there.
WellFormed(file) == \E n \in DOMAIN file.chunks :
  /\ file.riffSize = ChunkEnds(file.chunks)[n]
  /\ \E f, d \in 1..n :
       /\ Only(file.chunks, n, "fmt", f) /\ Only(file.chunks, n, "data", d)
       /\ f < d /\ file.chunks[f].good
FirstChunk(chunks, id) ==
  CHOOSE i \in DOMAIN chunks : chunks[i].id = id /\ \A j \in 1..(i - 1) : chunks[j].id # id
SamplesOf(file) ==
  LET One(id) == file.chunks[FirstChunk(file.chunks, id)]
      f == Sub[One("fmt").sub]
      size == f.size * One("fmt").channels
      frames == Min({One("data").size, Len(One("data").bytes)}) \div size
  IN  [i \in 1..(frames * One("fmt").channels) |->
         Number(Load(One("data").bytes, (i - 1) * f.size, f), f)]

\* A file written and closed opens and is read back as what was written, to the
\* end, whatever the formats and the pieces, as long as no write fails nor any
\* call of its closing.  Where one did, and in a file of somebody else, what
\* opens is well-formed and yields the frames its data holds, and no other
\* opens.  (The eight-bit formats no float or int reader knows yield frames of
\* nothing.)
Expected(s) == IF wav.handle.sub \in DOMAIN Readers[wav.type] THEN s
               ELSE [i \in DOMAIN s |-> Stale]
ReadsBackWhatWasWritten ==
  LET want == IF wav.own THEN wav.want ELSE SamplesOf(wav.handle.file) IN
  /\ wav.phase = "closed" => ~WellFormed(wav.handle.file) /\ ~wav.own
  /\ wav.phase \in {"read", "end"} =>
       /\ WellFormed(wav.handle.file)
       /\ wav.got = SubSeq(Expected(want), 1, Len(wav.got))
       /\ wav.phase = "end" => Len(wav.got) = Len(want)

-----------------------------------------------------------------------------
(***************************************************************************)
(* Inductive invariant.                                                    *)
(***************************************************************************)

WavTypeOK ==
  wav \in [phase : {"write", "open", "chunks", "closed", "read", "end"}, type : DOMAIN Type,
           want : Seq(0..7), got : Seq(Int), own : BOOLEAN,
           handle : [file : WavFiles, sub : DOMAIN Sub, channels : 1..8, bytesPerFrame : Nat,
                     remaining : Nat],
           scan : [at : Nat, remaining : Int, hadFmt : BOOLEAN, data : Nat]]

\* The n-th byte of the samples written, the first of them being 1.
WrittenByte(n, f) == <<f, Value(((n - 1) \div f.size + 1) % 8, f), ((n - 1) % f.size) + 1>>

\* Until something fails, the data is the frames written.
WritingOK ==
  LET h == wav.handle
      bytes == Last(h.file.chunks).bytes
  IN
  /\ h.file = WithData(sf_open_write(h.sub, h.channels), Data(0, bytes))
  /\ wav.own =>
       /\ wav.want = [i \in 1..(h.remaining * h.channels) |-> i % 8]
       /\ \A n \in 1..Len(bytes) : bytes[n] = WrittenByte(n, Sub[h.sub])
       /\ Len(bytes) = h.remaining * h.bytesPerFrame

\* What the first n chunks are, and what of the one fmt among them is known.
Scanned(chunks, n, hadFmt, data, sub, channels) ==
  /\ ~hadFmt => \A i \in 1..n : chunks[i].id # "fmt"
  /\ hadFmt => \E f \in 1..n :
       /\ Only(chunks, n, "fmt", f) /\ chunks[f].good /\ (data # 0 => f < data)
       /\ sub = chunks[f].sub /\ channels = chunks[f].channels
  /\ data = 0 => \A i \in 1..n : chunks[i].id # "data"
  /\ data # 0 => hadFmt /\ Only(chunks, n, "data", data)

\* What is left of the RIFF size is behind the chunks read; the handle has what
\* the one fmt and the one data among them said.
ScanningOK ==
  LET h == wav.handle
      scan == wav.scan
      chunks == h.file.chunks
      n == scan.at - 1
  IN
  /\ n \in 0..Len(chunks) /\ scan.remaining = h.file.riffSize - ChunkEnds(chunks)[n]
  /\ scan.remaining >= 0
  /\ Scanned(chunks, n, scan.hadFmt, scan.data, h.sub, h.channels)
  /\ scan.data # 0 => h.remaining = chunks[scan.data].size \div h.bytesPerFrame

\* The frames yielded are the bytes read, up to a torn last one.
ReadingOK ==
  LET h == wav.handle
      chunks == h.file.chunks
      data == chunks[wav.scan.data]
      r == data.size \div h.bytesPerFrame - h.remaining
  IN
  /\ WellFormed(h.file)
  /\ wav.scan.data \in DOMAIN chunks /\ data.id = "data" /\ wav.scan.data = FirstChunk(chunks, "data")
  /\ chunks[FirstChunk(chunks, "fmt")].sub = h.sub
  /\ chunks[FirstChunk(chunks, "fmt")].channels = h.channels
  /\ r >= 0 /\ Len(wav.got) = r * h.channels
  /\ \/ wav.scan.at = r * h.bytesPerFrame /\ wav.scan.at <= Len(data.bytes)
     \/ wav.scan.at = Len(data.bytes) /\ r = Len(data.bytes) \div h.bytesPerFrame
  /\ \A i \in 1..Len(wav.got) : wav.got[i] = Expected(SamplesOf(h.file))[i]

WavIInv ==
  /\ WavTypeOK /\ wav.handle.bytesPerFrame = Sub[wav.handle.sub].size * wav.handle.channels
  /\ wav.phase = "write" => WritingOK
  /\ wav.phase \in {"write", "open", "chunks"} => wav.got = << >>
  /\ wav.phase # "write" /\ wav.own =>
       wav.want = SamplesOf(wav.handle.file) /\ WellFormed(wav.handle.file)
  /\ wav.phase = "chunks" => ScanningOK
  /\ wav.phase = "read" => ReadingOK
  /\ ReadsBackWhatWasWritten
=============================================================================
