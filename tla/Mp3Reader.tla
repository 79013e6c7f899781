------------------------------- MODULE Mp3Reader -------------------------------
(***************************************************************************)
(* mp3reader.cpp: the frames of an MP3 file, one per call, with a search   *)
(* for the next frame when the reader has lost them (resync).              *)
(*                                                                         *)
(* A file is its size, the headers at their offsets and the ID3 tags at    *)
(* theirs; any other four bytes are no header.  The search works in a      *)
(* window, the bytes of the file it has in memory: their offsets here.     *)
(***************************************************************************)
EXTENDS Integers, Sequences, FiniteSetsExt

CONSTANTS
  Files,             \* the files
  kMaxReadBytes,     \* the window: 1024 in the code
  kMaxBytesChecked   \* how far a search goes: 128 * 1024 in the code

\* A tag's ten bytes and what they say follows.
TagEnd(file, q) == q + 10 + file.tags[q]

Headers == [version : 0..3, layer : 0..3, bitrate_index : 0..15,
            sampling_rate_index : 0..3, padding : 0..1]

\* Headers where the file says, and tags one right behind the other from the
\* file's beginning on.
IsFile(file) ==
  /\ file.size \in Nat
  /\ \A p \in DOMAIN file.headers : p \in Nat /\ file.headers[p] \in Headers
  /\ \A q \in DOMAIN file.tags :
       /\ q \in Nat /\ file.tags[q] \in Nat /\ q + 10 <= file.size
       /\ q = 0 \/ \E r \in DOMAIN file.tags : TagEnd(file, r) = q
       /\ \A r \in DOMAIN file.tags : q < r => TagEnd(file, q) <= r

ASSUME Mp3ReaderAssumption ==
  /\ \A file \in Files : IsFile(file)
  /\ kMaxReadBytes \in Nat /\ kMaxReadBytes >= 4
  /\ kMaxBytesChecked \in Nat

VARIABLE mp3

\* Bits per second and sample rates of MPEG audio, by the header's indices.
kSamplingRateV1 == <<44100, 48000, 32000>>
Bitrates(version, layer) ==
  CASE layer = 3 /\ version = 3 ->
         <<32, 64, 96, 128, 160, 192, 224, 256, 288, 320, 352, 384, 416, 448>>
    [] layer = 3 -> <<32, 48, 56, 64, 80, 96, 112, 128, 144, 160, 176, 192, 224, 256>>
    [] layer = 2 /\ version = 3 ->
         <<32, 48, 56, 64, 80, 96, 112, 128, 160, 192, 224, 256, 320, 384>>
    [] layer = 1 /\ version = 3 ->
         <<32, 40, 48, 56, 64, 80, 96, 112, 128, 160, 192, 224, 256, 320>>
    [] OTHER -> <<8, 16, 24, 32, 40, 48, 56, 64, 80, 96, 112, 128, 144, 160>>

\* Version 1 is reserved, as are layer 0 and the last indices; bit rate 0 is
\* "free" and not taken.
parseHeader(h) ==
  /\ h.version # 1 /\ h.layer # 0
  /\ h.bitrate_index \notin {0, 15} /\ h.sampling_rate_index # 3

frame_size(h) ==
  LET bitrate == Bitrates(h.version, h.layer)[h.bitrate_index]
      rate == kSamplingRateV1[h.sampling_rate_index + 1]
                \div (CASE h.version = 2 -> 2 [] h.version = 0 -> 4 [] OTHER -> 1)
  IN  CASE h.layer = 3 -> ((12000 * bitrate) \div rate + h.padding) * 4
        [] h.layer = 1 /\ h.version # 3 -> (72000 * bitrate) \div rate + h.padding
        [] OTHER -> (144000 * bitrate) \div rate + h.padding

\* What all frames of a file have in common, kMask.
Kind(h) == <<h.version, h.layer, h.sampling_rate_index>>

HeaderAt(file, p) == p \in DOMAIN file.headers /\ p + 4 <= file.size
IsFrame(file, p, kind) ==
  HeaderAt(file, p) /\ Kind(file.headers[p]) = kind /\ parseHeader(file.headers[p])
After(file, p) == p + frame_size(file.headers[p])

\* The frame at p and, with the three behind it (FRAME_MATCH_REQUIRED), a
\* stream.
Follows(file, p) ==
  LET kind == Kind(file.headers[p])
      p1 == After(file, p)
      p2 == After(file, p1)
      p3 == After(file, p2)
  IN  IsFrame(file, p1, kind) /\ IsFrame(file, p2, kind) /\ IsFrame(file, p3, kind)

\* A stream of the kind (of any kind, for << >>, match_header 0) begins at p.
Begins(file, p, kind) ==
  /\ HeaderAt(file, p) /\ parseHeader(file.headers[p])
  /\ kind # << >> => Kind(file.headers[p]) = kind
  /\ Follows(file, p)

-----------------------------------------------------------------------------
Mp3Init == \E file \in Files :
  mp3 = [file |-> file, phase |-> "tags", kind |-> << >>, pos |-> 0, start |-> 0,
         window |-> << >>, reachEOS |-> FALSE, frames |-> << >>]
Mp3Idle == mp3 = [phase |-> "ended", frames |-> << >>, kind |-> << >>,
                  file |-> [size |-> 0, headers |-> << >>, tags |-> << >>]]

\* The tags at the beginning are passed over.
Tags ==
  LET f == mp3.file IN
  /\ mp3.phase = "tags"
  /\ mp3' = IF mp3.pos + 10 > f.size THEN [mp3 EXCEPT !.phase = "ended"]
            ELSE IF mp3.pos \in DOMAIN f.tags
            THEN [mp3 EXCEPT !.pos = TagEnd(f, mp3.pos)]
            ELSE [mp3 EXCEPT !.phase = "scan", !.start = mp3.pos]

\* (A bug to be caught: it reads on from the position of the search.)
RefillFromPos ==
  LET n == Min({kMaxReadBytes - Len(mp3.window), mp3.file.size - mp3.pos})
  IN  [i \in 1..n |-> mp3.pos + i - 1]
\* More of the file behind what is left of the window.
Refill ==
  LET from == mp3.pos + Len(mp3.window)
      n == Min({kMaxReadBytes - Len(mp3.window), mp3.file.size - from})
  IN  [i \in 1..n |-> from + i - 1]

\* U32_AT: the header the first four bytes of the window make.
U32_AT(window) ==
  IF \A i \in 1..4 : window[i] = window[1] + i - 1 THEN window[1] ELSE -1

\* One round of the search: the end, a refill, a byte passed over or a frame.
Scan ==
  LET f == mp3.file
      w == mp3.window
      header == U32_AT(w)
      found == Begins(f, header, mp3.kind)
      lost == [mp3 EXCEPT !.phase = "ended"]
  IN
  /\ mp3.phase = "scan"
  /\ mp3' =
       IF mp3.pos >= mp3.start + kMaxBytesChecked THEN lost
       ELSE IF Len(w) < 4
       THEN IF mp3.reachEOS \/ Refill = << >> THEN lost
            ELSE [mp3 EXCEPT !.window = w \o Refill,
                             !.reachEOS = Len(Refill) # kMaxReadBytes - Len(w)]
       ELSE IF found
       THEN [mp3 EXCEPT !.phase = "frame", !.window = << >>, !.reachEOS = FALSE,
              !.kind = IF mp3.kind = << >> THEN Kind(f.headers[header]) ELSE mp3.kind]
       ELSE [mp3 EXCEPT !.pos = mp3.pos + 1, !.window = Tail(w)]

\* A frame, or a search for one from here on; a frame that is cut off is the
\* end of the file.
getFrame ==
  LET f == mp3.file
      p == mp3.pos
  IN
  /\ mp3.phase = "frame"
  /\ mp3' =
       IF p + 4 > f.size THEN [mp3 EXCEPT !.phase = "ended"]
       ELSE IF ~IsFrame(f, p, mp3.kind) THEN [mp3 EXCEPT !.phase = "scan", !.start = p]
       ELSE IF After(f, p) > f.size THEN [mp3 EXCEPT !.phase = "ended"]
       ELSE [mp3 EXCEPT !.pos = After(f, p), !.frames = Append(mp3.frames, p)]

Mp3Next == Tags \/ Scan \/ getFrame

-----------------------------------------------------------------------------
(***************************************************************************)
(* Property.                                                               *)
(***************************************************************************)

\* The first position from p on where a stream of the kind begins, or -1.
Stream(file, p, kind) ==
  LET InReach == {q \in DOMAIN file.headers :
                 q >= p /\ q < p + kMaxBytesChecked /\ Begins(file, q, kind)}
  IN  IF InReach = {} THEN -1 ELSE Min(InReach)

\* Where the tags end.
TagEnds(file) == {0} \cup {TagEnd(file, q) : q \in DOMAIN file.tags}
Untagged(file) == Max(TagEnds(file))

\* A frame at p, or else the search's.
FrameFrom(p) ==
  IF IsFrame(mp3.file, p, mp3.kind) THEN p ELSE Stream(mp3.file, p, mp3.kind)
Behind == After(mp3.file, mp3.frames[Len(mp3.frames)])

\* The reader yields the file's frames: the first is the first that begins a
\* stream behind the tags, each next one lies right behind the one before or
\* is the first of that kind to begin a stream from there on, and it stops
\* only where none does or the file cuts a frame off.  The window the search
\* looks through, refilled every so often, hides no frame and makes up none.
YieldsTheFrames ==
  LET f == mp3.file
      first == Stream(f, Untagged(f), << >>)
  IN
  /\ \A i \in DOMAIN mp3.frames : After(f, mp3.frames[i]) <= f.size
  /\ mp3.frames # << >> => mp3.frames[1] = first
  /\ \A i \in 2..Len(mp3.frames) : mp3.frames[i] = FrameFrom(After(f, mp3.frames[i - 1]))
  /\ mp3.phase = "ended" /\ f.size > 0 =>
       IF mp3.frames = << >> THEN first = -1
       ELSE FrameFrom(Behind) = -1 \/ After(f, FrameFrom(Behind)) > f.size

-----------------------------------------------------------------------------
(***************************************************************************)
(* The inductive invariant.                                                *)
(***************************************************************************)

Mp3TypeOK ==
  mp3 \in [file : Files, phase : {"tags", "scan", "frame", "ended"},
           kind : {<< >>} \cup (0..3) \X (0..3) \X (0..3), pos : Nat, start : Nat,
           window : Seq(Nat), reachEOS : BOOLEAN, frames : Seq(Nat)]

\* The frames yielded have headers that say how long they are, and there is a
\* kind once there are frames.
FramesParse ==
  /\ \A i \in DOMAIN mp3.frames :
       /\ mp3.frames[i] \in DOMAIN mp3.file.headers
       /\ parseHeader(mp3.file.headers[mp3.frames[i]])
  /\ mp3.frames # << >> => mp3.kind # << >>

OverTags ==
  mp3.phase = "tags" =>
    mp3.frames = << >> /\ mp3.kind = << >> /\ mp3.pos \in TagEnds(mp3.file)

\* The window is the part of the file from pos on, which the file's end cuts off
\* and nothing else.
Window ==
  LET n == Len(mp3.window) IN
  /\ mp3.phase # "ended" => n <= kMaxReadBytes
  /\ \A i \in 1..n : mp3.window[i] = mp3.pos + i - 1
  /\ mp3.phase = "scan" => mp3.pos + n <= mp3.file.size
  /\ mp3.phase = "scan" /\ mp3.reachEOS => mp3.pos + n = mp3.file.size
  /\ mp3.phase \in {"tags", "frame"} => n = 0 /\ ~mp3.reachEOS

\* A search began where the tags end or where a frame should have been, and has
\* passed over no stream.
Searching ==
  mp3.phase = "scan" =>
    /\ mp3.pos >= mp3.start
    /\ IF mp3.frames = << >> THEN mp3.kind = << >> /\ mp3.start = Untagged(mp3.file)
       ELSE mp3.start = Behind /\ ~IsFrame(mp3.file, Behind, mp3.kind)
    /\ \A q \in mp3.start..(mp3.pos - 1) : ~Begins(mp3.file, q, mp3.kind)

\* What getFrame looks at: the position behind the last frame, or the frame a
\* search has found.
Found ==
  mp3.phase = "frame" =>
    /\ mp3.kind # << >>
    /\ IF mp3.frames = << >>
       THEN /\ mp3.pos = Stream(mp3.file, Untagged(mp3.file), << >>)
            /\ Begins(mp3.file, mp3.pos, mp3.kind)
       ELSE \/ mp3.pos = Behind
            \/ mp3.pos = FrameFrom(Behind) /\ IsFrame(mp3.file, mp3.pos, mp3.kind)

Mp3Whole ==
  Mp3TypeOK /\ FramesParse /\ OverTags /\ Window /\ Searching /\ Found /\ YieldsTheFrames

Mp3IInv == Mp3Idle \/ Mp3Whole
=============================================================================
