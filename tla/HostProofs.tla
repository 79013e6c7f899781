------------------------------ MODULE HostProofs ------------------------------
(***************************************************************************)
(* Theorems about the parts that Host composes, for all sizes of their     *)
(* blocks, buffers and streams.                                            *)
(*                                                                         *)
(* DspStreams: the loops that carry sound keep what DspStreams calls       *)
(* StreamIInv, whichever loop runs and whatever calls fail.                *)
(* Mp3Reader: the tags lead to the frames, and a search has passed over    *)
(* nothing that begins three frames (Mp3IInv).                             *)
(* SampleRate: what a chunk leaves to the next is what the whole stream    *)
(* has there (SrcIInv).                                                    *)
(* DspUtil: the bits say which options were read, and the rows above the   *)
(* next one have been asked for (UtilIInv).                                *)
(* SampleFormats: half way through a conversion in place every group of    *)
(* samples is whole, as given or converted (CopyIInv); the channels put    *)
(* out are the lowest of the destination's mask (FrameIInv).               *)
(* What holds of every element of a sequence is proved by its least        *)
(* counterexample.                                                         *)
(***************************************************************************)
EXTENDS Host, ModularArithmetic, SequenceTheorems, FiniteSetTheorems, WellFoundedInduction,
        TLAPS

-----------------------------------------------------------------------------
(***************************************************************************)
(* The operators on blocks of units.                                       *)
(***************************************************************************)

\* The length of a sequence is what its domain says.
LEMMA LenIs ==
  ASSUME NEW S, NEW s \in Seq(S), NEW n \in Nat, DOMAIN s = 1..n
  PROVE  Len(s) = n
<1>1. Len(s) \in Nat /\ DOMAIN s = 1..Len(s)
  BY LenProperties
<1>2. 1..Len(s) = 1..n
  BY <1>1
<1> QED
  BY <1>1, <1>2

LEMMA LeastIs ==
  ASSUME NEW a \in Nat, NEW b \in Nat
  PROVE  Least(a, b) = IF a <= b THEN a ELSE b
<1>1. \E x \in {a, b} : \A y \in {a, b} : x <= y
  OBVIOUS
<1>2. Least(a, b) \in {a, b} /\ \A y \in {a, b} : Least(a, b) <= y
  BY <1>1 DEF Least, Min
<1> QED
  BY <1>2

\* Units: n units behind unit `from'.
LEMMA UnitsIs ==
  ASSUME NEW from \in Nat, NEW n \in Nat
  PROVE  /\ Units(from, n) \in Seq(Nat)
         /\ Len(Units(from, n)) = n
         /\ DOMAIN Units(from, n) = 1..n
         /\ \A i \in 1..n : Units(from, n)[i] = from + i
<1>1. Units(from, n) \in [1..n -> Nat]
  BY DEF Units
<1>2. Units(from, n) \in Seq(Nat)
  BY <1>1, SeqDef
<1>3. DOMAIN Units(from, n) = 1..n
  BY <1>1
<1>4. Len(Units(from, n)) = n
  BY <1>2, <1>3, LenIs
<1> QED
  BY <1>2, <1>3, <1>4 DEF Units

\* Joined: the second sequence behind the first.
LEMMA JoinIs ==
  ASSUME NEW s \in Seq(Nat), NEW t \in Seq(Nat)
  PROVE  /\ s \o t \in Seq(Nat)
         /\ Len(s) \in Nat /\ Len(t) \in Nat
         /\ Len(s \o t) = Len(s) + Len(t)
         /\ DOMAIN s = 1..Len(s) /\ DOMAIN t = 1..Len(t)
         /\ DOMAIN (s \o t) = 1..(Len(s) + Len(t))
         /\ \A i \in 1..Len(s) : (s \o t)[i] = s[i]
         /\ \A i \in 1..Len(t) : (s \o t)[Len(s) + i] = t[i]
         /\ \A i \in DOMAIN (s \o t) :
              i \in 1..Len(s) \/ \E j \in 1..Len(t) : i = Len(s) + j
<1>1. /\ s \o t \in Seq(Nat) /\ Len(s) \in Nat /\ Len(t) \in Nat
      /\ Len(s \o t) = Len(s) + Len(t)
      /\ \A i \in 1..Len(s) + Len(t) :
           (s \o t)[i] = IF i <= Len(s) THEN s[i] ELSE t[i - Len(s)]
  BY ConcatProperties, LenProperties
<1>2. DOMAIN s = 1..Len(s) /\ DOMAIN t = 1..Len(t)
  BY LenProperties
<1>3. DOMAIN (s \o t) = 1..(Len(s) + Len(t))
  BY <1>1, LenProperties
<1>4. \A i \in 1..Len(s) : (s \o t)[i] = s[i]
  BY <1>1
<1>5. \A i \in 1..Len(t) : (s \o t)[Len(s) + i] = t[i]
  <2> SUFFICES ASSUME NEW i \in 1..Len(t) PROVE (s \o t)[Len(s) + i] = t[i]
    OBVIOUS
  <2>1. /\ Len(s) + i \in 1..Len(s) + Len(t) /\ ~(Len(s) + i <= Len(s))
        /\ (Len(s) + i) - Len(s) = i
    BY <1>1
  <2> QED
    BY <1>1, <2>1
<1>6. \A i \in 1..(Len(s) + Len(t)) :
        i \in 1..Len(s) \/ \E j \in 1..Len(t) : i = Len(s) + j
  <2> SUFFICES ASSUME NEW i \in 1..(Len(s) + Len(t)), i \notin 1..Len(s)
               PROVE  \E j \in 1..Len(t) : i = Len(s) + j
    OBVIOUS
  <2>1. i - Len(s) \in 1..Len(t) /\ i = Len(s) + (i - Len(s))
    BY <1>1
  <2> QED
    BY <2>1
<1> QED
  BY <1>1, <1>2, <1>3, <1>4, <1>5, <1>6

\* A piece of a block.
LEMMA PieceIs ==
  ASSUME NEW s \in Seq(Nat), NEW m \in Nat \ {0}, NEW n \in Nat, n <= Len(s), m <= n + 1
  PROVE  /\ SubSeq(s, m, n) \in Seq(Nat)
         /\ Len(SubSeq(s, m, n)) = (n - m) + 1
         /\ DOMAIN SubSeq(s, m, n) = 1..((n - m) + 1)
         /\ \A i \in 1..((n - m) + 1) : SubSeq(s, m, n)[i] = s[(m + i) - 1]
<1>1. m \in Int /\ n \in Int /\ Len(s) \in Nat
  BY LenProperties
<1>2. \A i \in m..n : s[i] \in Nat
  BY <1>1, LenProperties
<1>3. /\ SubSeq(s, m, n) \in Seq(Nat)
      /\ Len(SubSeq(s, m, n)) = IF m <= n THEN n - m + 1 ELSE 0
      /\ \A i \in 1..n - m + 1 : SubSeq(s, m, n)[i] = s[m + i - 1]
  BY <1>1, <1>2, SubSeqProperties
<1>4. Len(SubSeq(s, m, n)) = (n - m) + 1
  BY <1>1, <1>3
<1>5. DOMAIN SubSeq(s, m, n) = 1..Len(SubSeq(s, m, n))
  BY <1>3, LenProperties
<1> QED
  BY <1>1, <1>3, <1>4, <1>5

LEMMA PrefixIs ==
  ASSUME NEW s \in Seq(Nat), NEW n \in 0..Len(s)
  PROVE  /\ Prefix(s, n) \in Seq(Nat)
         /\ Len(Prefix(s, n)) = n
         /\ DOMAIN Prefix(s, n) = 1..n
         /\ \A i \in 1..n : Prefix(s, n)[i] = s[i]
<1>1. Len(s) \in Nat
  BY LenProperties
<1>2. /\ n \in Nat /\ n <= Len(s) /\ 1 <= n + 1 /\ 1 \in Nat \ {0} /\ (n - 1) + 1 = n
      /\ \A i \in 1..n : (1 + i) - 1 = i
  BY <1>1
<1> QED
  BY <1>2, PieceIs DEF Prefix

\* s over the front of b.
LEMMA OverIs ==
  ASSUME NEW s \in Seq(Nat), NEW b \in Seq(Nat)
  PROVE  /\ Over(s, b) \in Seq(Nat)
         /\ Len(Over(s, b)) = IF Len(s) <= Len(b) THEN Len(b) ELSE Len(s)
         /\ DOMAIN Over(s, b) = 1..Len(Over(s, b))
         /\ \A i \in 1..Len(s) : Over(s, b)[i] = s[i]
         /\ \A i \in Len(s) + 1..Len(b) : Over(s, b)[i] = b[i]
<1> DEFINE r == SubSeq(b, Len(s) + 1, Len(b))
<1>1. Len(s) \in Nat /\ Len(b) \in Nat
  BY LenProperties
<1>2. CASE Len(s) <= Len(b)
  <2>1. Len(s) + 1 \in Nat \ {0} /\ Len(s) + 1 <= Len(b) + 1
    BY <1>1, <1>2
  <2>2. /\ r \in Seq(Nat) /\ Len(r) = (Len(b) - (Len(s) + 1)) + 1
        /\ \A i \in 1..((Len(b) - (Len(s) + 1)) + 1) : r[i] = b[((Len(s) + 1) + i) - 1]
    BY <1>1, <2>1, PieceIs
  <2>3. Len(r) = Len(b) - Len(s)
    BY <1>1, <2>2
  <2>4. \A i \in 1..Len(r) : r[i] = b[Len(s) + i]
    <3> SUFFICES ASSUME NEW i \in 1..Len(r) PROVE r[i] = b[Len(s) + i]
      OBVIOUS
    <3>1. i \in 1..((Len(b) - (Len(s) + 1)) + 1) /\ ((Len(s) + 1) + i) - 1 = Len(s) + i
      BY <1>1, <2>2
    <3> QED
      BY <2>2, <3>1
  <2> HIDE DEF r
  <2>5. \A i \in Len(s) + 1..Len(b) : (s \o r)[i] = b[i]
    <3> SUFFICES ASSUME NEW i \in Len(s) + 1..Len(b) PROVE (s \o r)[i] = b[i]
      OBVIOUS
    <3>1. i - Len(s) \in 1..Len(r) /\ Len(s) + (i - Len(s)) = i
      BY <1>1, <2>3
    <3>2. \A j \in 1..Len(r) : (s \o r)[Len(s) + j] = r[j]
      BY <2>2, JoinIs
    <3>3. (s \o r)[Len(s) + (i - Len(s))] = b[Len(s) + (i - Len(s))]
      BY <2>4, <3>1, <3>2
    <3> QED
      BY <3>1, <3>3
  <2>6. /\ s \o r \in Seq(Nat) /\ Len(s \o r) = Len(b) /\ DOMAIN (s \o r) = 1..Len(s \o r)
        /\ \A i \in 1..Len(s) : (s \o r)[i] = s[i]
    <3>1. /\ s \o r \in Seq(Nat) /\ Len(s \o r) = Len(s) + Len(r)
          /\ DOMAIN (s \o r) = 1..(Len(s) + Len(r))
          /\ \A i \in 1..Len(s) : (s \o r)[i] = s[i]
      BY <2>2, JoinIs
    <3> QED
      BY <1>1, <2>3, <3>1
  <2> QED
    BY <1>2, <2>5, <2>6 DEF Over, r
<1>3. CASE Len(s) > Len(b)
  <2>1. r = << >>
    BY <1>1, <1>3, SubSeqEmpty
  <2>2. s \o r = s
    BY <2>1, ConcatEmptySeq
  <2>3. Over(s, b) = s
    BY <2>2 DEF Over
  <2> QED
    BY <1>1, <1>3, <2>3, LenProperties
<1> QED
  BY <1>1, <1>2, <1>3

\* s into b, behind its first `at' units.
LEMMA IntoIs ==
  ASSUME NEW s \in Seq(Nat), NEW b \in Seq(Nat), NEW at \in Nat, at + Len(s) <= Len(b)
  PROVE  /\ Into(s, at, b) \in Seq(Nat)
         /\ Len(Into(s, at, b)) = Len(b)
         /\ \A i \in 1..at : Into(s, at, b)[i] = b[i]
         /\ \A i \in 1..Len(s) : Into(s, at, b)[at + i] = s[i]
<1> DEFINE h == Prefix(b, at)
           t == SubSeq(b, at + 1, Len(b))
           o == Over(s, t)
<1>1. Len(s) \in Nat /\ Len(b) \in Nat /\ at \in 0..Len(b)
  BY LenProperties
<1>2. h \in Seq(Nat) /\ Len(h) = at /\ \A i \in 1..at : h[i] = b[i]
  BY <1>1, PrefixIs
<1>3. t \in Seq(Nat) /\ Len(t) = Len(b) - at
  <2>1. /\ at + 1 \in Nat \ {0} /\ at + 1 <= Len(b) + 1
        /\ (Len(b) - (at + 1)) + 1 = Len(b) - at
    BY <1>1
  <2> DEFINE m == at + 1
             n == Len(b)
  <2>2. m \in Nat \ {0} /\ n \in Nat /\ n <= Len(b) /\ m <= n + 1
    BY <1>1, <2>1
  <2> HIDE DEF m, n
  <2>3. SubSeq(b, m, n) \in Seq(Nat) /\ Len(SubSeq(b, m, n)) = (n - m) + 1
    BY <2>2, PieceIs
  <2> QED
    BY <2>1, <2>3 DEF m, n
<1> HIDE DEF h, t
<1>4. /\ o \in Seq(Nat) /\ Len(o) = Len(b) - at
      /\ \A i \in 1..Len(s) : o[i] = s[i]
  <2>1. Len(s) <= Len(t)
    BY <1>1, <1>3
  <2> QED
    BY <1>3, <2>1, OverIs
<1> HIDE DEF o
<1>5. /\ h \o o \in Seq(Nat) /\ Len(h \o o) = at + (Len(b) - at)
      /\ \A i \in 1..at : (h \o o)[i] = h[i]
      /\ \A i \in 1..(Len(b) - at) : (h \o o)[at + i] = o[i]
  <2>1. /\ h \o o \in Seq(Nat) /\ Len(h \o o) = Len(h) + Len(o)
        /\ \A i \in 1..Len(h) : (h \o o)[i] = h[i]
        /\ \A i \in 1..Len(o) : (h \o o)[Len(h) + i] = o[i]
    BY <1>2, <1>4, JoinIs
  <2> QED
    BY <1>2, <1>4, <2>1
<1>6. \A i \in 1..Len(s) : (h \o o)[at + i] = s[i]
  <2> SUFFICES ASSUME NEW i \in 1..Len(s) PROVE (h \o o)[at + i] = s[i]
    OBVIOUS
  <2>1. i \in 1..(Len(b) - at)
    BY <1>1
  <2> QED
    BY <1>4, <1>5, <2>1
<1>7. Into(s, at, b) = h \o o
  BY DEF Into, h, o, t
<1>8. Len(h \o o) = Len(b) /\ \A i \in 1..at : (h \o o)[i] = b[i]
  BY <1>1, <1>2, <1>5
<1> QED
  BY <1>5, <1>6, <1>7, <1>8

\* A block with n units of the stream put at its front.
LEMMA FilledIs ==
  ASSUME NEW b \in Seq(Nat), NEW from \in Nat, NEW n \in Nat
  PROVE  /\ Over(Units(from, n), b) \in Seq(Nat)
         /\ Len(b) <= Len(Over(Units(from, n), b)) /\ n <= Len(Over(Units(from, n), b))
         /\ n <= Len(b) => Len(Over(Units(from, n), b)) = Len(b)
         /\ \A i \in 1..n : Over(Units(from, n), b)[i] = from + i
         /\ \A i \in n + 1..Len(b) : Over(Units(from, n), b)[i] = b[i]
<1> DEFINE u == Units(from, n)
<1>1. u \in Seq(Nat) /\ Len(u) = n /\ (\A i \in 1..n : u[i] = from + i) /\ Len(b) \in Nat
  BY UnitsIs, LenProperties
<1> HIDE DEF u
<1>2. /\ Over(u, b) \in Seq(Nat)
      /\ Len(Over(u, b)) = IF n <= Len(b) THEN Len(b) ELSE n
      /\ \A i \in 1..n : Over(u, b)[i] = u[i]
      /\ \A i \in n + 1..Len(b) : Over(u, b)[i] = b[i]
  BY <1>1, OverIs
<1> QED
  BY <1>1, <1>2 DEF u

\* One unit at a time is a piece of one.
LEMMA HeadTailIs ==
  ASSUME NEW s \in Seq(Nat), NEW r \in Seq(Nat), r # << >>
  PROVE  /\ 1 \in 0..Len(r) /\ Head(r) = r[1]
         /\ Append(s, Head(r)) = s \o Prefix(r, 1)
         /\ Tail(r) = SubSeq(r, 1 + 1, Len(r))
<1>1. Len(r) \in Nat /\ Len(r) # 0
  BY EmptySeq, LenProperties
<1>2. Head(r) \in Nat /\ Head(r) = r[1]
  BY HeadTailProperties
<1>3. Append(s, Head(r)) = s \o << Head(r) >>
  BY <1>2, AppendIsConcat
<1>4. Prefix(r, 1) = << Head(r) >>
  <2> DEFINE one == 1
  <2>0. one \in 0..Len(r) /\ one \in 1..one /\ one = 1
    BY <1>1
  <2> HIDE DEF one
  <2>3. /\ Prefix(r, one) \in Seq(Nat) /\ Len(Prefix(r, one)) = one
        /\ \A i \in 1..one : Prefix(r, one)[i] = r[i]
    BY <2>0, PrefixIs
  <2>1. /\ Prefix(r, 1) \in Seq(Nat) /\ Len(Prefix(r, 1)) = 1
        /\ Prefix(r, 1)[1] = r[1]
    BY <2>0, <2>3
  <2>2. << Head(r) >> \in Seq(Nat) /\ Len(<< Head(r) >>) = 1 /\ << Head(r) >>[1] = r[1]
    BY <1>2
  <2> QED
    BY <2>1, <2>2, SeqEqual
<1>5. Tail(r) = SubSeq(r, 1 + 1, Len(r))
  BY TailIsSubSeq
<1>6. 1 \in 0..Len(r)
  BY <1>1
<1>7. Append(s, Head(r)) = s \o Prefix(r, 1)
  BY <1>3, <1>4
<1> QED
  BY ONLY <1>2, <1>5, <1>6, <1>7

LEMMA OneMoreIs ==
  ASSUME NEW r \in Seq(Nat), NEW p \in Nat
  PROVE  Append(r, p + 1) = r \o Units(p, 1)
<1>1. Append(r, p + 1) = r \o << p + 1 >>
  BY AppendIsConcat
<1>2. Units(p, 1) = << p + 1 >>
  <2> DEFINE one == 1
  <2>0. one \in Nat /\ one \in 1..one /\ one = 1
    OBVIOUS
  <2> HIDE DEF one
  <2>3. /\ Units(p, one) \in Seq(Nat) /\ Len(Units(p, one)) = one
        /\ \A i \in 1..one : Units(p, one)[i] = p + i
    BY <2>0, UnitsIs
  <2>1. Units(p, 1) \in Seq(Nat) /\ Len(Units(p, 1)) = 1 /\ Units(p, 1)[1] = p + 1
    BY <2>0, <2>3
  <2>2. << p + 1 >> \in Seq(Nat) /\ Len(<< p + 1 >>) = 1 /\ << p + 1 >>[1] = p + 1
    OBVIOUS
  <2> QED
    BY <2>1, <2>2, SeqEqual
<1> QED
  BY <1>1, <1>2

\* The first n units of s are the stream's behind `from'.
LEMMA PrefixUnits ==
  ASSUME NEW s \in Seq(Nat), NEW from \in Nat, NEW n \in 0..Len(s),
         \A i \in 1..n : s[i] = from + i
  PROVE  Prefix(s, n) = Units(from, n)
<1>1. n \in Nat
  BY LenProperties
<1>2. /\ Prefix(s, n) \in Seq(Nat) /\ Len(Prefix(s, n)) = n
      /\ \A i \in 1..n : Prefix(s, n)[i] = s[i]
  BY PrefixIs
<1>3. /\ Units(from, n) \in Seq(Nat) /\ Len(Units(from, n)) = n
      /\ \A i \in 1..n : Units(from, n)[i] = from + i
  BY <1>1, UnitsIs
<1> QED
  BY <1>2, <1>3, SeqEqual

\* A stream that counts goes on counting.
LEMMA JoinCounts ==
  ASSUME NEW s \in Seq(Nat), NEW from \in Nat, NEW n \in Nat,
         Counts(s, from)
  PROVE  /\ s \o Units(from + Len(s), n) \in Seq(Nat)
         /\ Counts(s \o Units(from + Len(s), n), from)
         /\ Len(s \o Units(from + Len(s), n)) = Len(s) + n
<1> DEFINE u == Units(from + Len(s), n)
<1>1. Len(s) \in Nat /\ from + Len(s) \in Nat
  BY LenProperties
<1>2. /\ u \in Seq(Nat) /\ Len(u) = n
      /\ \A i \in 1..n : u[i] = (from + Len(s)) + i
  BY <1>1, UnitsIs
<1> HIDE DEF u
<1>3. /\ s \o u \in Seq(Nat) /\ Len(s \o u) = Len(s) + n
      /\ DOMAIN s = 1..Len(s)
      /\ \A i \in 1..Len(s) : (s \o u)[i] = s[i]
      /\ \A i \in 1..n : (s \o u)[Len(s) + i] = u[i]
      /\ \A i \in DOMAIN (s \o u) :
           i \in 1..Len(s) \/ \E j \in 1..n : i = Len(s) + j
  BY <1>2, JoinIs
<1>4. ASSUME NEW i \in DOMAIN (s \o u) PROVE (s \o u)[i] = from + i
  <2>1. CASE i \in 1..Len(s)
    BY <1>3, <2>1 DEF Counts
  <2>2. CASE \E j \in 1..n : i = Len(s) + j
    <3>1. PICK j \in 1..n : i = Len(s) + j
      BY <2>2
    <3>2. (s \o u)[i] = (from + Len(s)) + j
      BY <1>2, <1>3, <3>1
    <3> QED
      BY <1>1, <3>1, <3>2
  <2> QED
    BY <1>3, <2>1, <2>2
<1> QED
  BY <1>3, <1>4 DEF Counts, u

\* n units move from the front of a queue to the end of what came out, or are
\* lost.
LEMMA TakeCounts ==
  ASSUME NEW s \in Seq(Nat), NEW r \in Seq(Nat), NEW n \in 0..Len(r),
         Counts(s, 0), Counts(r, Len(s))
  PROVE  /\ Counts(s \o Prefix(r, n), 0)
         /\ Counts(SubSeq(r, n + 1, Len(r)), Len(s \o Prefix(r, n)))
<1>1. Len(s) \in Nat /\ Len(r) \in Nat /\ n \in Nat /\ DOMAIN r = 1..Len(r)
  BY LenProperties
<1>2. Prefix(r, n) = Units(Len(s), n)
  <2>1. \A i \in 1..n : i \in DOMAIN r
    BY <1>1
  <2>2. \A i \in DOMAIN r : r[i] = Len(s) + i
    BY DEF Counts
  <2>3. \A i \in 1..n : r[i] = Len(s) + i
    BY <2>1, <2>2
  <2> QED
    BY <1>1, <2>3, PrefixUnits
<1>3. 0 \in Nat /\ 0 + Len(s) = Len(s)
  BY <1>1
<1>4. Counts(s \o Prefix(r, n), 0) /\ Len(s \o Prefix(r, n)) = Len(s) + n
  <2>1. /\ Counts(s \o Units(0 + Len(s), n), 0)
        /\ Len(s \o Units(0 + Len(s), n)) = Len(s) + n
    <3> DEFINE z == 0
    <3>1. z \in Nat /\ Counts(s, z)
      BY <1>3
    <3> HIDE DEF z
    <3>2. /\ Counts(s \o Units(z + Len(s), n), z)
          /\ Len(s \o Units(z + Len(s), n)) = Len(s) + n
      BY <1>1, <3>1, JoinCounts
    <3> QED
      BY <3>2 DEF z
  <2> QED
    BY ONLY <1>2, <1>3, <2>1
<1> DEFINE m == n + 1
           l == Len(r)
           q == SubSeq(r, m, l)
<1>5. m \in Nat \ {0} /\ l \in Nat /\ l <= Len(r) /\ m <= l + 1
  BY <1>1
<1> HIDE DEF m, l
<1>6. DOMAIN q = 1..((l - m) + 1) /\ \A i \in 1..((l - m) + 1) : q[i] = r[(m + i) - 1]
  BY <1>5, PieceIs
<1>7. ASSUME NEW i \in DOMAIN q PROVE q[i] = (Len(s) + n) + i
  <2>1. i \in Nat /\ (m + i) - 1 \in 1..Len(r) /\ (m + i) - 1 = n + i
    BY <1>1, <1>6 DEF m, l
  <2>2. r[n + i] = Len(s) + (n + i)
    BY <1>1, <2>1 DEF Counts
  <2>3. q[i] = r[n + i]
    BY <1>6, <2>1
  <2> QED
    BY <1>1, <2>1, <2>2, <2>3
<1> QED
  BY <1>4, <1>7 DEF Counts, m, l

LEMMA TakeOrdered ==
  ASSUME NEW s \in Seq(Nat), NEW r \in Seq(Nat), NEW p \in Nat, NEW n \in 0..Len(r),
         Ordered(s, r, p)
  PROVE  /\ Ordered(s \o Prefix(r, n), SubSeq(r, n + 1, Len(r)), p)
         /\ Ordered(s, SubSeq(r, n + 1, Len(r)), p)
<1> DEFINE m == n + 1
           l == Len(r)
           q == SubSeq(r, m, l)
           f == Prefix(r, n)
           t == s \o f
<1>1. Len(s) \in Nat /\ Len(r) \in Nat /\ n \in Nat /\ DOMAIN r = 1..Len(r) /\ DOMAIN s = 1..Len(s)
  BY LenProperties
<1>2. m \in Nat \ {0} /\ l \in Nat /\ l <= Len(r) /\ m <= l + 1
  BY <1>1
<1> HIDE DEF m, l
<1>3. DOMAIN q = 1..((l - m) + 1) /\ \A i \in 1..((l - m) + 1) : q[i] = r[(m + i) - 1]
  BY <1>2, PieceIs
<1>4. f \in Seq(Nat) /\ Len(f) = n /\ \A i \in 1..n : f[i] = r[i]
  BY PrefixIs
<1>5. \A i \in DOMAIN q : n + i \in DOMAIN r /\ q[i] = r[n + i] /\ i \in Nat
  BY <1>1, <1>3 DEF m, l
<1> HIDE DEF q, f
<1>6. /\ \A i \in 1..Len(s) : t[i] = s[i]
      /\ \A i \in 1..n : t[Len(s) + i] = f[i]
      /\ \A i \in DOMAIN t : i \in 1..Len(s) \/ \E j \in 1..n : i = Len(s) + j
  BY <1>4, JoinIs
<1>7. \A i \in DOMAIN t : \/ i \in DOMAIN s /\ t[i] = s[i]
                          \/ /\ i - Len(s) \in 1..n /\ i - Len(s) \in DOMAIN r
                             /\ t[i] = r[i - Len(s)]
  <2> SUFFICES ASSUME NEW i \in DOMAIN t, i \notin 1..Len(s)
               PROVE  /\ i - Len(s) \in 1..n /\ i - Len(s) \in DOMAIN r
                      /\ t[i] = r[i - Len(s)]
    BY <1>1, <1>6
  <2>1. PICK j \in 1..n : i = Len(s) + j
    BY <1>6
  <2> QED
    BY <1>1, <1>4, <1>6, <2>1
<1> HIDE DEF t
<1>8. \A i \in DOMAIN t : i \in Nat
  <2> SUFFICES ASSUME NEW i \in DOMAIN t
               PROVE  i \in Nat
    OBVIOUS
  <2>1. i \in 1..Len(s) \/ \E j \in 1..n : i = Len(s) + j
    BY <1>6
  <2> QED
    BY <1>1, <2>1
<1>9. /\ \A i, j \in DOMAIN s : i < j => s[i] < s[j]
      /\ \A i, j \in DOMAIN r : i < j => r[i] < r[j]
      /\ \A i \in DOMAIN s : s[i] <= p
      /\ \A j \in DOMAIN r : r[j] <= p
      /\ \A i \in DOMAIN s, j \in DOMAIN r : s[i] < r[j]
  BY DEF Ordered, Rising
<1>10. \A i, j \in DOMAIN q : i < j => q[i] < q[j]
  BY <1>1, <1>5, <1>9
<1>11. \A j \in DOMAIN q : q[j] <= p
  BY <1>5, <1>9
<1>12. \A i \in DOMAIN s, j \in DOMAIN q : s[i] < q[j]
  BY <1>5, <1>9
<1>13. Ordered(s, q, p)
  BY <1>9, <1>10, <1>11, <1>12 DEF Ordered, Rising
<1>14. ASSUME NEW i \in DOMAIN t, NEW j \in DOMAIN t, i < j PROVE t[i] < t[j]
  <2>1. CASE i \in DOMAIN s /\ t[i] = s[i]
    BY <1>1, <1>7, <1>9, <1>14, <2>1
  <2>2. CASE i - Len(s) \in 1..n /\ i - Len(s) \in DOMAIN r /\ t[i] = r[i - Len(s)]
    <3>1. j \notin DOMAIN s
      BY <1>1, <1>8, <1>14, <2>2
    <3>2. j - Len(s) \in DOMAIN r /\ t[j] = r[j - Len(s)] /\ i - Len(s) < j - Len(s)
      BY <1>1, <1>7, <1>8, <1>14, <3>1
    <3> QED
      BY <1>9, <2>2, <3>2
  <2> QED
    BY <1>7, <2>1, <2>2
<1>15. \A i \in DOMAIN t : t[i] <= p
  BY <1>7, <1>9
<1>16. ASSUME NEW i \in DOMAIN t, NEW j \in DOMAIN q PROVE t[i] < q[j]
  <2>1. CASE i \in DOMAIN s /\ t[i] = s[i]
    BY <1>12, <2>1
  <2>2. CASE i - Len(s) \in 1..n /\ i - Len(s) \in DOMAIN r /\ t[i] = r[i - Len(s)]
    <3>1. n + j \in DOMAIN r /\ q[j] = r[n + j] /\ j \in Nat
      BY <1>5
    <3>2. i - Len(s) < n + j
      BY <1>1, <1>3, <2>2, <3>1 DEF q
    <3> QED
      BY <1>9, <2>2, <3>1, <3>2
  <2> QED
    BY <1>7, <2>1, <2>2
<1>17. Ordered(t, q, p)
  BY <1>10, <1>11, <1>14, <1>15, <1>16 DEF Ordered, Rising
<1> QED
  BY <1>13, <1>17 DEF t, f, q, m, l

\* Units the source has not yielded before go behind what it has.
LEMMA UnitsBehind ==
  ASSUME NEW s \in Seq(Nat), NEW p \in Nat, NEW n \in Nat,
         Rising(s), \A i \in DOMAIN s : s[i] <= p
  PROVE  /\ Rising(s \o Units(p, n))
         /\ \A i \in DOMAIN (s \o Units(p, n)) :
              \/ i \in DOMAIN s /\ (s \o Units(p, n))[i] = s[i]
              \/ (s \o Units(p, n))[i] \in p + 1..p + n
<1> DEFINE u == Units(p, n)
           t == s \o u
<1>1. Len(s) \in Nat /\ DOMAIN s = 1..Len(s)
  BY LenProperties
<1>2. u \in Seq(Nat) /\ Len(u) = n /\ \A i \in 1..n : u[i] = p + i
  BY UnitsIs
<1> HIDE DEF u
<1>3. /\ \A i \in 1..Len(s) : t[i] = s[i]
      /\ \A i \in 1..n : t[Len(s) + i] = u[i]
      /\ \A i \in DOMAIN t : i \in 1..Len(s) \/ \E j \in 1..n : i = Len(s) + j
      /\ DOMAIN t = 1..(Len(s) + n)
  BY <1>2, JoinIs
<1> HIDE DEF t
<1>4. \A i \in DOMAIN t : \/ i \in DOMAIN s /\ t[i] = s[i]
                          \/ i - Len(s) \in 1..n /\ t[i] = p + (i - Len(s))
  <2> SUFFICES ASSUME NEW i \in DOMAIN t, i \notin 1..Len(s)
               PROVE  i - Len(s) \in 1..n /\ t[i] = p + (i - Len(s))
    BY <1>1, <1>3
  <2>1. PICK j \in 1..n : i = Len(s) + j
    BY <1>3
  <2>2. t[Len(s) + j] = p + j
    BY <1>2, <1>3
  <2> QED
    BY <1>1, <2>1, <2>2
<1>5. \A i \in DOMAIN t : i \in Nat
  BY <1>3
<1>6. /\ \A i, j \in DOMAIN s : i < j => s[i] < s[j]
      /\ \A i \in DOMAIN s : s[i] \in Nat
  BY ElementOfSeq, LenProperties DEF Rising
<1>7. ASSUME NEW i \in DOMAIN t, NEW j \in DOMAIN t, i < j PROVE t[i] < t[j]
  <2>1. CASE i \in DOMAIN s /\ t[i] = s[i]
    <3>1. CASE j \in DOMAIN s /\ t[j] = s[j]
      BY <1>6, <1>7, <2>1, <3>1
    <3>2. CASE j - Len(s) \in 1..n /\ t[j] = p + (j - Len(s))
      <4>1. s[i] <= p /\ s[i] \in Nat
        BY <1>6, <2>1
      <4> QED
        BY <2>1, <3>2, <4>1
    <3> QED
      BY <1>4, <3>1, <3>2
  <2>2. CASE i - Len(s) \in 1..n /\ t[i] = p + (i - Len(s))
    <3>1. j - Len(s) \in 1..n /\ t[j] = p + (j - Len(s))
      BY <1>1, <1>4, <1>5, <1>7, <2>2
    <3> QED
      BY <1>1, <1>5, <1>7, <2>2, <3>1
  <2> QED
    BY <1>4, <2>1, <2>2
<1>8. \A i \in DOMAIN t : \/ i \in DOMAIN s /\ t[i] = s[i]
                          \/ t[i] \in p + 1..p + n
  BY <1>4
<1> QED
  BY <1>7, <1>8 DEF Rising, t, u

LEMMA GiveOrdered ==
  ASSUME NEW s \in Seq(Nat), NEW r \in Seq(Nat), NEW p \in Nat, NEW n \in Nat,
         Ordered(s, r, p)
  PROVE  /\ Ordered(s, r \o Units(p, n), p + n)
         /\ Ordered(s, r, p + n)
<1> DEFINE t == r \o Units(p, n)
<1>1. /\ Rising(s) /\ Rising(r)
      /\ \A i \in DOMAIN s : s[i] <= p
      /\ \A j \in DOMAIN r : r[j] <= p
      /\ \A i \in DOMAIN s, j \in DOMAIN r : s[i] < r[j]
  BY DEF Ordered
<1>2. /\ Rising(t)
      /\ \A i \in DOMAIN t : (i \in DOMAIN r /\ t[i] = r[i]) \/ t[i] \in p + 1..p + n
  BY <1>1, UnitsBehind
<1> HIDE DEF t
<1>3. (\A i \in DOMAIN s : s[i] \in Nat) /\ (\A i \in DOMAIN r : r[i] \in Nat)
  BY ElementOfSeq, LenProperties
<1>4. (\A i \in DOMAIN s : s[i] <= p + n) /\ (\A i \in DOMAIN r : r[i] <= p + n)
  BY <1>1, <1>3
<1>5. \A j \in DOMAIN t : t[j] <= p + n
  BY <1>2, <1>4
<1>6. ASSUME NEW i \in DOMAIN s, NEW j \in DOMAIN t PROVE s[i] < t[j]
  <2>1. CASE j \in DOMAIN r /\ t[j] = r[j]
    BY <1>1, <2>1
  <2>2. CASE t[j] \in p + 1..p + n
    <3>1. s[i] \in Nat /\ s[i] <= p
      BY <1>1, <1>3
    <3> QED
      BY <2>2, <3>1
  <2> QED
    BY <1>2, <2>1, <2>2
<1> QED
  BY <1>1, <1>2, <1>4, <1>5, <1>6 DEF Ordered, t

\* Nothing between the source and the output.
LEMMA PassOrdered ==
  ASSUME NEW s \in Seq(Nat), NEW p \in Nat, NEW n \in Nat, NEW m \in Nat, n <= m,
         Ordered(s, << >>, p)
  PROVE  Ordered(s \o Units(p, n), << >>, p + m)
<1> DEFINE t == s \o Units(p, n)
<1>1. /\ Rising(s) /\ Rising(<< >>)
      /\ \A i \in DOMAIN s : s[i] <= p
      /\ DOMAIN << >> = {}
  BY DEF Ordered, Rising
<1>2. /\ Rising(t)
      /\ \A i \in DOMAIN t : (i \in DOMAIN s /\ t[i] = s[i]) \/ t[i] \in p + 1..p + n
  BY <1>1, UnitsBehind
<1> HIDE DEF t
<1>3. \A i \in DOMAIN s : s[i] \in Nat
  BY ElementOfSeq, LenProperties
<1>4. \A i \in DOMAIN t : t[i] <= p + m
  BY <1>1, <1>2, <1>3
<1> QED
  BY <1>1, <1>2, <1>4 DEF Ordered, t

-----------------------------------------------------------------------------
(***************************************************************************)
(* The loops, one action at a time.                                        *)
(***************************************************************************)

LEMMA Sizes ==
  /\ N \in Nat /\ Chunk \in Nat /\ Block \in Nat /\ Capacity \in Nat
  /\ Word \in Nat \ {0} /\ MaxFailures \in Nat
  /\ 0 < N /\ 0 < Chunk /\ 0 < Block /\ 0 < Capacity
  /\ Chunk <= Capacity /\ N + Chunk < Word
BY DspStreamsAssumption DEF DspStreamsAssumption

LEMMA RpcIs ==
  ASSUME failures \in Nat, NEW o \in Outcome, Rpc(o)
  PROVE  /\ failures' \in Nat /\ failures <= failures'
         /\ o # "done" => failures' = failures + 1
         /\ o = "done" => failures' = failures
         /\ failures' = 0 => failures = 0 /\ o = "done" /\ Served(o)
BY DEF Rpc, Served

LEMMA PieceOf ==
  ASSUME NEW total \in Nat
  PROVE  /\ Piece(total) \in 0..Chunk /\ Piece(total) <= total
         /\ total # 0 => Piece(total) # 0
<1>1. Piece(total) = IF Chunk <= total THEN Chunk ELSE total
  BY Sizes, LeastIs DEF Piece
<1> QED
  BY <1>1, Sizes

\* What is left to show of a step of each family of loops.
LEMMA DirectKeeps ==
  ASSUME StreamTypeOK', gone' <= failures',
         job' \in Direct, job' # "aac",
         failures' = 0 =>
           /\ Counts(out', 0) /\ pos' = Len(out') /\ pos' <= N
           /\ job' = "pcm_read" => ready' /\ left' = N - pos'
  PROVE  StreamIInv'
<1>1. BuffersKept'
  BY DEF BuffersKept, Direct
<1>2. InOrder'
  BY DEF InOrder, Careful, WholeBlocks, Dspc, Direct
<1>3. Carried'
  <2> SUFFICES ASSUME failures' = 0
               PROVE  /\ Counts(out', 0)
                      /\ DirectCarried' /\ GainCarried' /\ QueueCarried' /\ BlockCarried'
    BY DEF Carried
  <2>1. DirectCarried'
    BY DEF DirectCarried
  <2>2. GainCarried'
    BY DEF GainCarried, Direct
  <2>3. QueueCarried'
    BY DEF QueueCarried, Queued, Dspc, Direct
  <2>4. BlockCarried'
    BY DEF BlockCarried, Direct
  <2> QED
    BY <2>1, <2>2, <2>3, <2>4
<1> QED
  BY <1>1, <1>2, <1>3 DEF StreamIInv, OneBufferPerFailure

LEMMA QueueKeeps ==
  ASSUME StreamTypeOK', gone' <= failures', BuffersKept',
         job' \in Queued, Ordered(out', ring', pos'),
         failures' = 0 => Counts(out', 0) /\ QueueCarried'
  PROVE  StreamIInv'
<1>1. InOrder'
  BY DEF InOrder, WholeBlocks, Queued, Dspc
<1>2. Carried'
  <2> SUFFICES ASSUME failures' = 0
               PROVE  DirectCarried' /\ GainCarried' /\ BlockCarried'
    BY DEF Carried
  <2>1. DirectCarried'
    BY DEF DirectCarried, Direct, Queued, Dspc
  <2>2. GainCarried'
    BY DEF GainCarried, Queued, Dspc
  <2>3. BlockCarried'
    BY DEF BlockCarried, Queued, Dspc
  <2> QED
    BY <2>1, <2>2, <2>3
<1> QED
  BY <1>1, <1>2 DEF StreamIInv, OneBufferPerFailure

LEMMA BlockKeeps ==
  ASSUME StreamTypeOK', gone' <= failures',
         job' \in {"play_file", "capture"}, failures' = 0 => BlockCarried',
         WholeBlocks' => Ordered(out', << >>, pos')
  PROVE  StreamIInv'
<1>1. BuffersKept'
  BY DEF BuffersKept
<1>2. InOrder'
  BY DEF InOrder, Careful, Dspc
<1>3. Carried'
  <2> SUFFICES ASSUME failures' = 0
               PROVE  /\ job' \notin Exact
                      /\ DirectCarried' /\ GainCarried' /\ QueueCarried'
    BY DEF Carried
  <2>1. DirectCarried'
    BY DEF DirectCarried, Direct
  <2>2. GainCarried'
    BY DEF GainCarried
  <2>3. QueueCarried'
    BY DEF QueueCarried, Queued, Dspc
  <2>4. job' \notin Exact
    BY DEF Exact, Dspc
  <2> QED
    BY <2>1, <2>2, <2>3, <2>4
<1> QED
  BY <1>1, <1>2, <1>3 DEF StreamIInv, OneBufferPerFailure

LEMMA GainKeeps ==
  ASSUME StreamTypeOK', gone' <= failures', job' = "gain",
         failures' = 0 => Counts(out', 0) /\ GainCarried'
  PROVE  StreamIInv'
<1>1. BuffersKept'
  BY DEF BuffersKept
<1>2. InOrder'
  BY DEF InOrder, Careful, WholeBlocks, Dspc
<1>3. Carried'
  <2> SUFFICES ASSUME failures' = 0
               PROVE  DirectCarried' /\ QueueCarried' /\ BlockCarried'
    BY DEF Carried
  <2>1. DirectCarried'
    BY DEF DirectCarried, Direct
  <2>2. QueueCarried'
    BY DEF QueueCarried, Queued, Dspc
  <2>3. BlockCarried'
    BY DEF BlockCarried
  <2> QED
    BY <2>1, <2>2, <2>3
<1> QED
  BY <1>1, <1>2, <1>3 DEF StreamIInv, OneBufferPerFailure

\* The front of a block just filled is the stream's next units.
LEMMA FreshPrefix ==
  ASSUME NEW b \in Seq(Nat), NEW from \in Nat, NEW n \in Nat, NEW m \in 0..n
  PROVE  /\ Prefix(Over(Units(from, n), b), m) = Units(from, m)
         /\ m \in 0..Len(Over(Units(from, n), b))
<1> DEFINE f == Over(Units(from, n), b)
<1>1. f \in Seq(Nat) /\ n <= Len(f) /\ \A i \in 1..n : f[i] = from + i
  BY FilledIs
<1> HIDE DEF f
<1>2. m \in 0..Len(f) /\ \A i \in 1..m : f[i] = from + i
  BY <1>1, LenProperties
<1>3. Prefix(f, m) = Units(from, m)
  BY <1>1, <1>2, PrefixUnits
<1> QED
  BY <1>2, <1>3 DEF f

LEMMA FreshWhole ==
  ASSUME NEW b \in Seq(Nat), NEW from \in Nat, NEW n \in Nat
  PROVE  Prefix(Over(Units(from, n), b), n) = Units(from, n)
<1>1. n \in 0..n
  OBVIOUS
<1> QED
  BY <1>1, FreshPrefix

LEMMA SoundType ==
  ASSUME NEW s \in Seq(Nat), NEW b \in Seq(Nat), NEW n \in 0..Len(b)
  PROVE  s \o Prefix(b, n) \in Seq(Nat) /\ s \o b \in Seq(Nat)
BY PrefixIs, JoinIs

\* The source's next n units behind an output that has all before them.
LEMMA CountsOn ==
  ASSUME NEW s \in Seq(Nat), NEW n \in Nat, Counts(s, 0)
  PROVE  Counts(s \o Units(Len(s), n), 0) /\ Len(s \o Units(Len(s), n)) = Len(s) + n
<1> DEFINE z == 0
<1>1. z \in Nat /\ Counts(s, z) /\ z + Len(s) = Len(s)
  BY LenProperties
<1> HIDE DEF z
<1>2. /\ Counts(s \o Units(z + Len(s), n), z)
      /\ Len(s \o Units(z + Len(s), n)) = Len(s) + n
  BY <1>1, JoinCounts
<1> QED
  BY <1>1, <1>2 DEF z

LEMMA PcmReadKeeps ==
  ASSUME StreamIInv, NEW o \in Outcome, NEW k \in 1..Chunk, PcmRead(o, k)
  PROVE  StreamIInv'
<1> DEFINE served == Served(o) /\ ready
           got == IF o = "unsent" THEN ret ELSE IF o = "done" /\ served THEN k ELSE 0
<1>1. StreamTypeOK
  BY DEF StreamIInv
<1>2. /\ job = "pcm_read" /\ job' = job /\ left # 0
      /\ o # "refused" /\ Rpc(o)
      /\ k \in 1..Piece(left)
      /\ pos' = IF served THEN pos + k ELSE pos
      /\ block' = IF served THEN Over(Units(pos, k), block) ELSE block
      /\ out' = out \o Prefix(block', got)
      /\ left' = (left - got) % Word
      /\ ret' = got
      /\ ready' = (ready /\ o # "unread")
      /\ pc' = IF left' = 0 \/ left' > left THEN "ended" ELSE "loop"
      /\ UNCHANGED <<dest, ring, held, gone, quit>>
  BY DEF PcmRead, On, NoDsp
<1>3. /\ out \in Seq(Nat) /\ block \in Seq(Nat) /\ pos \in Nat /\ left \in Nat
      /\ ret \in 0..Chunk /\ Chunk <= Len(block) /\ failures \in Nat /\ gone \in Nat
      /\ Len(block) \in Nat
  BY <1>1, LenProperties DEF StreamTypeOK
<1>4. k \in Nat /\ k <= Chunk /\ k <= left /\ k <= Len(block) /\ Chunk \in Nat
  <2>1. Piece(left) \in 0..Chunk /\ Piece(left) <= left
    BY <1>3, PieceOf
  <2> QED
    BY <1>2, <1>3, <2>1, Sizes
<1>5. /\ failures' \in Nat /\ failures <= failures'
      /\ failures' = 0 => failures = 0 /\ o = "done" /\ Served(o)
  BY <1>2, <1>3, RpcIs
<1>6. got \in 0..Chunk
  BY <1>3, <1>4
<1>0. o = "done" /\ served => got = k
  OBVIOUS
<1> HIDE DEF served, got
<1>7. block' \in Seq(Nat) /\ Len(block') = Len(block)
  BY <1>2, <1>3, <1>4, FilledIs
<1>8. out' \in Seq(Nat)
  <2>1. got \in 0..Len(block')
    BY <1>3, <1>6, <1>7, Sizes
  <2> QED
    BY <1>2, <1>3, <1>7, <2>1, SoundType
<1>9. left' \in Nat
  <2>1. left - got \in Int
    BY <1>3, <1>6
  <2> QED
    <3>1. (left - got) % Word \in 0..Word - 1
      BY <2>1, Sizes, ModType
    <3> QED
      BY <1>2, <3>1, Sizes
<1>10. pos' \in Nat /\ ret' \in 0..Chunk /\ ready' \in BOOLEAN /\ pc' \in {"loop", "ended"}
  BY <1>1, <1>2, <1>3, <1>4, <1>6 DEF StreamTypeOK
<1>11. StreamTypeOK'
  BY <1>1, <1>2, <1>3, <1>5, <1>7, <1>8, <1>9, <1>10 DEF StreamTypeOK
<1>12. gone' <= failures'
  BY <1>2, <1>3, <1>5 DEF StreamIInv, OneBufferPerFailure
<1>13. ASSUME failures' = 0
       PROVE  /\ Counts(out', 0) /\ pos' = Len(out') /\ pos' <= N
              /\ ready' /\ left' = N - pos'
  <2>1. /\ failures = 0 /\ o = "done" /\ Served(o)
        /\ Counts(out, 0) /\ pos = Len(out) /\ pos <= N /\ ready /\ left = N - pos
    BY <1>2, <1>5, <1>13 DEF StreamIInv, Carried, DirectCarried, Exact, Direct
  <2>2. served /\ got = k
    BY <1>0, <2>1 DEF served
  <2>3. out' = out \o Units(pos, k)
    <3>1. k \in 0..k
      BY <1>4
    <3>2. Prefix(Over(Units(pos, k), block), k) = Units(pos, k)
      BY <1>3, <1>4, <3>1, FreshPrefix
    <3> QED
      BY <1>2, <2>2, <3>2
  <2>4. Counts(out', 0) /\ Len(out') = pos + k
    BY <1>3, <1>4, <2>1, <2>3, CountsOn
  <2>5. left' = left - k
    <3>1. left - k \in 0..Word - 1
      BY <1>3, <1>4, <2>1, Sizes
    <3> QED
      BY <1>2, <2>2, <3>1, Sizes, ModSmall
  <2>6. ready'
    BY <1>2, <2>1
  <2>7. pos' = pos + k
    BY <1>2, <2>2
  <2>8. pos' = Len(out') /\ pos' <= N /\ left' = N - pos'
    BY <1>3, <1>4, <2>1, <2>4, <2>5, <2>7, Sizes
  <2> QED
    BY <2>4, <2>6, <2>8
<1> QED
  BY <1>2, <1>11, <1>12, <1>13, DirectKeeps DEF Direct

LEMMA ResampleKeeps ==
  ASSUME StreamIInv, NEW o \in Outcome, Resample(o)
  PROVE  StreamIInv'
<1> DEFINE n == Least(Chunk, N - pos)
           wrote == IF o = "unread" THEN 0 ELSE n
<1>1. StreamTypeOK /\ job = "resample" /\ job' = job /\ UNCHANGED <<left, ret, ready, ring, held, gone, quit>>
  BY DEF Resample, On, NoDsp, StreamIInv
<1>2. /\ out \in Seq(Nat) /\ block \in Seq(Nat) /\ dest \in Seq(Nat) /\ pos \in Nat
      /\ Chunk <= Len(block) /\ Len(dest) = Chunk /\ failures \in Nat /\ gone \in Nat
      /\ Len(block) \in Nat /\ pos <= N /\ N - pos \in Nat /\ Chunk \in Nat
  BY <1>1, Sizes, LenProperties DEF StreamTypeOK
<1>3. n \in Nat /\ n <= Chunk /\ n <= N - pos /\ n \in 0..n
  BY <1>2, LeastIs
<1>4. gone <= failures
  BY DEF StreamIInv, OneBufferPerFailure
<1>5. failures = 0 => Counts(out, 0) /\ pos = Len(out) /\ pos <= N
  BY <1>1 DEF StreamIInv, Carried, DirectCarried, Exact, Direct
<1>6. CASE n = 0
  <2>1. pc' = "ended" /\ UNCHANGED <<pos, block, dest, out, failures>>
    BY <1>6 DEF Resample
  <2>2. StreamTypeOK'
    BY <1>1, <2>1 DEF StreamTypeOK
  <2> QED
    BY <1>1, <1>4, <1>5, <2>1, <2>2, DirectKeeps DEF Direct
<1>7. CASE n # 0
  <2>1. /\ Rpc(o) /\ pos' = pos + n
        /\ block' = IF Served(o) THEN Over(Units(pos, n), block) ELSE block
        /\ IF o = "refused" THEN pc' = "ended" /\ UNCHANGED <<dest, out>>
           ELSE /\ dest' = Over(Prefix(block', wrote), dest)
                /\ out' = out \o Prefix(dest', n)
                /\ UNCHANGED pc
    BY <1>7 DEF Resample
  <2>2. wrote \in Nat /\ wrote <= n /\ (o = "done" => wrote = n)
    BY <1>3
  <2> HIDE DEF n, wrote
  <2>3. /\ failures' \in Nat /\ failures <= failures'
        /\ failures' = 0 => failures = 0 /\ o = "done" /\ Served(o)
    BY <1>2, <2>1, RpcIs
  <2>4. block' \in Seq(Nat) /\ Len(block') = Len(block)
    <3>1. n <= Len(block)
      BY <1>2, <1>3
    <3>2. /\ Over(Units(pos, n), block) \in Seq(Nat)
          /\ Len(Over(Units(pos, n), block)) = Len(block)
      BY <1>2, <1>3, <3>1, FilledIs
    <3> QED
      BY <1>2, <2>1, <3>2
  <2>5. Prefix(block', wrote) \in Seq(Nat) /\ Len(Prefix(block', wrote)) = wrote
    <3>1. wrote \in 0..Len(block')
      BY <1>2, <1>3, <2>2, <2>4
    <3> QED
      BY <2>4, <3>1, PrefixIs
  <2>6. dest' \in Seq(Nat) /\ Len(dest') = Chunk
    <3>1. CASE o = "refused"
      BY <1>2, <2>1, <3>1
    <3>2. CASE o # "refused"
      <4>1. wrote <= Len(dest)
        BY <1>2, <1>3, <2>2
      <4>2. /\ Over(Prefix(block', wrote), dest) \in Seq(Nat)
            /\ Len(Over(Prefix(block', wrote), dest)) = Len(dest)
        BY <1>2, <2>5, <4>1, OverIs
      <4> QED
        BY <1>2, <2>1, <3>2, <4>2
    <3> QED
      BY <3>1, <3>2
  <2>7. out' \in Seq(Nat)
    <3>1. n \in 0..Len(dest')
      BY <1>2, <1>3, <2>6
    <3>2. out \o Prefix(dest', n) \in Seq(Nat)
      BY <1>2, <2>6, <3>1, SoundType
    <3> QED
      BY <1>2, <2>1, <3>2
  <2>8. pos' \in Nat /\ pos' <= N /\ pc' \in {pc, "ended"}
    BY <1>2, <1>3, <2>1, Sizes
  <2>9. StreamTypeOK'
    BY <1>1, <1>2, <2>3, <2>4, <2>6, <2>7, <2>8 DEF StreamTypeOK
  <2>10. gone' <= failures'
    BY <1>1, <1>2, <1>4, <2>3
  <2>11. ASSUME failures' = 0 PROVE Counts(out', 0) /\ pos' = Len(out')
    <3>1. failures = 0 /\ o = "done" /\ Served(o) /\ Counts(out, 0) /\ pos = Len(out)
      BY <1>5, <2>3, <2>11
    <3>2. Prefix(block', wrote) = Units(pos, n)
      <4>1. Prefix(Over(Units(pos, n), block), n) = Units(pos, n)
        BY <1>2, <1>3, FreshWhole
      <4> QED
        BY <2>1, <2>2, <3>1, <4>1
    <3>3. Prefix(dest', n) = Units(pos, n)
      <4>1. Prefix(Over(Units(pos, n), dest), n) = Units(pos, n)
        BY <1>2, <1>3, FreshWhole
      <4>2. dest' = Over(Units(pos, n), dest)
        BY <2>1, <3>1, <3>2
      <4> QED
        BY <4>1, <4>2
    <3>4. out' = out \o Units(Len(out), n)
      BY <2>1, <3>1, <3>3
    <3>5. Counts(out', 0) /\ Len(out') = Len(out) + n
      BY <1>2, <1>3, <3>1, <3>4, CountsOn
    <3> QED
      BY <2>1, <3>1, <3>5
  <2> QED
    BY <1>1, <2>8, <2>9, <2>10, <2>11, DirectKeeps DEF Direct
<1> QED
  BY <1>6, <1>7

LEMMA PlayFramesKeeps ==
  ASSUME StreamIInv, NEW o \in Outcome, NEW k \in 1..Chunk, PlayFrames(o, k)
  PROVE  StreamIInv'
<1>1. /\ StreamTypeOK /\ job = "play_frames" /\ job' = job /\ Rpc(o)
      /\ UNCHANGED <<left, ret, ready, dest, ring, held, gone, quit>>
  BY DEF PlayFrames, On, NoDsp, StreamIInv
<1>2. /\ out \in Seq(Nat) /\ pos \in Nat /\ failures \in Nat /\ gone \in Nat
      /\ Chunk \in Nat /\ k \in Nat /\ k <= Chunk /\ N \in Nat
  BY <1>1, Sizes DEF StreamTypeOK
<1>3. /\ failures' \in Nat /\ failures <= failures'
      /\ failures' = 0 => failures = 0 /\ o = "done" /\ Served(o)
  BY <1>1, <1>2, RpcIs
<1>4. gone' <= failures'
  BY <1>1, <1>2, <1>3 DEF StreamIInv, OneBufferPerFailure
<1>5. failures = 0 => Counts(out, 0) /\ pos = Len(out) /\ pos <= N
  BY <1>1 DEF StreamIInv, Carried, DirectCarried, Exact, Direct
<1>6. CASE pos + Chunk <= N
  <2>1. /\ block' = Units(pos, Chunk)
        /\ out' = IF Served(o) THEN out \o Prefix(block', k) ELSE out
        /\ pos' = IF o = "done" THEN pos + k ELSE pos
        /\ UNCHANGED pc
    BY <1>6 DEF PlayFrames
  <2>2. block' \in Seq(Nat) /\ Len(block') = Chunk /\ \A i \in 1..Chunk : block'[i] = pos + i
    BY <1>2, <2>1, UnitsIs
  <2>3. k \in 0..Len(block')
    BY <1>2, <2>2
  <2>4. out' \in Seq(Nat)
    BY <1>2, <2>1, <2>2, <2>3, SoundType
  <2>5. StreamTypeOK'
    BY <1>1, <1>2, <1>3, <2>1, <2>2, <2>4 DEF StreamTypeOK
  <2>6. ASSUME failures' = 0 PROVE Counts(out', 0) /\ pos' = Len(out') /\ pos' <= N
    <3>1. failures = 0 /\ o = "done" /\ Served(o) /\ Counts(out, 0) /\ pos = Len(out)
      BY <1>3, <1>5, <2>6
    <3>2. \A i \in 1..k : block'[i] = pos + i
      BY <1>2, <2>2
    <3>3. Prefix(block', k) = Units(pos, k)
      BY <1>2, <2>2, <2>3, <3>2, PrefixUnits
    <3>4. Counts(out', 0) /\ Len(out') = Len(out) + k
      BY <1>2, <2>1, <3>1, <3>3, CountsOn
    <3> QED
      BY <1>2, <1>6, <2>1, <3>1, <3>4
  <2> QED
    BY <1>1, <1>4, <2>5, <2>6, DirectKeeps DEF Direct
<1>7. CASE ~(pos + Chunk <= N)
  <2>1. pc' = "ended" /\ UNCHANGED <<pos, block, out>>
    BY <1>7 DEF PlayFrames
  <2>2. StreamTypeOK'
    BY <1>1, <1>3, <2>1 DEF StreamTypeOK
  <2> QED
    BY <1>1, <1>3, <1>4, <1>5, <2>1, <2>2, DirectKeeps DEF Direct
<1> QED
  BY <1>6, <1>7

LEMMA DecodeMp3Keeps ==
  ASSUME StreamIInv, NEW o \in Outcome, DecodeMp3(o)
  PROVE  StreamIInv'
<1>1. /\ StreamTypeOK /\ job = "mp3" /\ job' = job
      /\ UNCHANGED <<left, ret, ready, dest, ring, held, gone, quit>>
  BY DEF DecodeMp3, On, NoDsp, StreamIInv
<1>2. /\ out \in Seq(Nat) /\ block \in Seq(Nat) /\ pos \in Nat /\ failures \in Nat /\ gone \in Nat
      /\ Chunk <= Len(block) /\ Len(block) \in Nat /\ Chunk \in Nat /\ 0 < Chunk
      /\ pos <= N /\ N \in Nat
  BY <1>1, Sizes, LenProperties DEF StreamTypeOK
<1>3. gone <= failures
  BY DEF StreamIInv, OneBufferPerFailure
<1>4. failures = 0 => Counts(out, 0) /\ pos = Len(out)
  BY <1>1 DEF StreamIInv, Carried, DirectCarried, Exact, Direct
<1>5. CASE pos = N
  <2>1. pc' = "ended" /\ UNCHANGED <<pos, block, out, failures>>
    BY <1>5 DEF DecodeMp3
  <2>2. StreamTypeOK'
    BY <1>1, <2>1 DEF StreamTypeOK
  <2> QED
    BY <1>1, <1>2, <1>3, <1>4, <2>1, <2>2, DirectKeeps DEF Direct
<1>6. CASE pos # N
  <2> DEFINE one == 1
  <2>1. /\ Rpc(o) /\ pos' = pos + one
        /\ block' = IF Served(o) THEN Over(Units(pos, one), block) ELSE block
        /\ out' = CASE o = "done" -> out \o Prefix(block', one)
                    [] o = "unsent" -> out \o block'
                    [] OTHER -> out
        /\ pc' = IF o = "refused" THEN "ended" ELSE "loop"
    BY <1>6 DEF DecodeMp3
  <2>2. one \in Nat /\ one \in 0..one /\ one <= Len(block) /\ pos + one <= N
    BY <1>2, <1>6
  <2> HIDE DEF one
  <2>3. /\ failures' \in Nat /\ failures <= failures'
        /\ failures' = 0 => failures = 0 /\ o = "done" /\ Served(o)
    BY <1>2, <2>1, RpcIs
  <2>4. block' \in Seq(Nat) /\ Len(block') = Len(block)
    BY <1>2, <2>1, <2>2, FilledIs
  <2>5. out' \in Seq(Nat)
    <3>1. one \in 0..Len(block')
      BY <1>2, <2>2, <2>4
    <3>2. out \o Prefix(block', one) \in Seq(Nat) /\ out \o block' \in Seq(Nat)
      BY <1>2, <2>4, <3>1, SoundType
    <3> QED
      BY <1>2, <2>1, <3>2
  <2>6. pos' \in Nat /\ pos' <= N
    BY <1>2, <2>1, <2>2
  <2>7. StreamTypeOK'
    BY <1>1, <1>2, <2>1, <2>3, <2>4, <2>5, <2>6 DEF StreamTypeOK
  <2>8. gone' <= failures'
    BY <1>1, <1>2, <1>3, <2>3
  <2>9. ASSUME failures' = 0 PROVE Counts(out', 0) /\ pos' = Len(out')
    <3>1. failures = 0 /\ o = "done" /\ Served(o) /\ Counts(out, 0) /\ pos = Len(out)
      BY <1>4, <2>3, <2>9
    <3>2. Prefix(block', one) = Units(pos, one)
      BY <1>2, <2>1, <2>2, <3>1, FreshPrefix
    <3>3. out' = out \o Units(Len(out), one)
      BY <2>1, <3>1, <3>2
    <3>4. Counts(out', 0) /\ Len(out') = Len(out) + one
      BY <1>2, <2>2, <3>1, <3>3, CountsOn
    <3> QED
      BY <2>1, <3>1, <3>4
  <2> QED
    BY <1>1, <2>6, <2>7, <2>8, <2>9, DirectKeeps DEF Direct
<1> QED
  BY <1>5, <1>6

LEMMA DecodeAacKeeps ==
  ASSUME StreamIInv, NEW o \in Outcome, DecodeAac(o)
  PROVE  StreamIInv'
<1> DEFINE n == Least(Chunk, N - pos)
           one == 1
<1>1. /\ StreamTypeOK /\ job = "aac" /\ job' = job
      /\ UNCHANGED <<left, ret, ready, dest, ring, held, gone, quit>>
  BY DEF DecodeAac, On, NoDsp, StreamIInv
<1>2. /\ out \in Seq(Nat) /\ block \in Seq(Nat) /\ pos \in Nat /\ failures \in Nat /\ gone \in Nat
      /\ Chunk <= Len(block) /\ Len(block) \in Nat /\ Chunk \in Nat /\ 0 < Chunk
      /\ pos <= N /\ N \in Nat /\ N - pos \in Nat
  BY <1>1, Sizes, LenProperties DEF StreamTypeOK
<1>3. n \in Nat /\ n <= Chunk /\ n <= N - pos
  BY <1>2, LeastIs
<1>4. gone <= failures /\ Ordered(out, << >>, pos) /\ ring = << >>
  BY <1>1 DEF StreamIInv, OneBufferPerFailure, InOrder, Careful
<1>5. failures = 0 => Counts(out, 0) /\ pos = Len(out)
  BY <1>1 DEF StreamIInv, Carried, DirectCarried, Exact, Direct
<1>6. /\ one \in Nat /\ one \in 0..one /\ one <= Len(block) /\ (n # 0 => one <= n)
  BY <1>2, <1>3
<1>7. CASE n = 0
  <2>1. pc' = "ended" /\ UNCHANGED <<pos, block, out, failures>>
    BY <1>7 DEF DecodeAac
  <2>2. StreamTypeOK'
    BY <1>1, <2>1 DEF StreamTypeOK
  <2> HIDE DEF n, one
  <2> QED
    BY <1>1, <1>2, <1>4, <1>5, <2>1, <2>2
    DEF StreamIInv, OneBufferPerFailure, BuffersKept, InOrder, WholeBlocks, Careful, Carried, Direct, Dspc,
        DirectCarried, GainCarried, QueueCarried, Queued, BlockCarried
<1>8. CASE n # 0
  <2>1. /\ Rpc(o) /\ pos' = IF o \in {"unsent", "unread"} THEN pos + n ELSE pos + one
        /\ block' = IF Served(o) THEN Over(Units(pos, one), block) ELSE block
        /\ out' = IF o = "done" THEN out \o Prefix(block', one) ELSE out
        /\ pc' = IF o = "refused" THEN "ended" ELSE "loop"
    BY <1>8 DEF DecodeAac
  <2> HIDE DEF n, one
  <2>2. /\ failures' \in Nat /\ failures <= failures'
        /\ failures' = 0 => failures = 0 /\ o = "done"
    BY <1>2, <2>1, RpcIs
  <2>3. block' \in Seq(Nat) /\ Len(block') = Len(block)
    BY <1>2, <1>6, <2>1, FilledIs
  <2>4. o = "done" => out' = out \o Units(pos, one)
    <3>1. Prefix(Over(Units(pos, one), block), one) = Units(pos, one)
      BY <1>2, <1>6, FreshPrefix
    <3> QED
      BY <2>1, <3>1 DEF Served
  <2>5. out' \in Seq(Nat)
    <3>1. out \o Units(pos, one) \in Seq(Nat)
      BY <1>2, <1>6, UnitsIs, JoinIs
    <3> QED
      BY <1>2, <2>1, <2>4, <3>1
  <2>6. pos' \in Nat /\ pos' <= N
    BY <1>2, <1>3, <1>6, <1>8, <2>1
  <2>7. StreamTypeOK'
    BY <1>1, <1>2, <2>1, <2>2, <2>3, <2>5, <2>6 DEF StreamTypeOK
  <2>8. gone' <= failures'
    BY <1>1, <1>2, <1>4, <2>2
  <2>9. Ordered(out', << >>, pos')
    <3>1. CASE o = "done"
      <4>1. Ordered(out \o Units(pos, one), << >>, pos + one)
        <5>1. one <= one
          BY <1>6
        <5> QED
          BY <1>2, <1>4, <1>6, <5>1, PassOrdered
      <4> QED
        BY <2>1, <2>4, <3>1, <4>1
    <3>2. CASE o # "done"
      <4>1. Ordered(out, << >>, pos + n) /\ Ordered(out, << >>, pos + one)
        BY <1>2, <1>3, <1>4, <1>6, GiveOrdered, EmptySeq
      <4> QED
        BY <2>1, <3>2, <4>1
    <3> QED
      BY <3>1, <3>2
  <2>10. InOrder'
    BY <1>1, <1>4, <2>9 DEF InOrder, WholeBlocks
  <2>11. ASSUME failures' = 0 PROVE Counts(out', 0) /\ pos' = Len(out')
    <3>1. failures = 0 /\ o = "done" /\ Counts(out, 0) /\ pos = Len(out)
      BY <1>5, <2>2, <2>11
    <3>2. Counts(out', 0) /\ Len(out') = Len(out) + one
      BY <1>2, <1>6, <2>4, <3>1, CountsOn
    <3> QED
      BY <2>1, <3>1, <3>2
  <2>12. Carried'
    BY <1>1, <2>6, <2>11
    DEF Carried, DirectCarried, GainCarried, QueueCarried, Queued, BlockCarried, Dspc
  <2>13. BuffersKept'
    BY <1>1 DEF BuffersKept
  <2> QED
    BY <2>7, <2>8, <2>10, <2>12, <2>13 DEF StreamIInv, OneBufferPerFailure
<1> QED
  BY <1>7, <1>8

LEMMA GainReadKeeps ==
  ASSUME StreamIInv, GainRead
  PROVE  StreamIInv'
<1>1. /\ StreamTypeOK /\ job = "gain" /\ pc = "loop"
      /\ UNCHANGED <<job, pos, ret, ready, block, dest, ring, held, gone, quit, out, failures>>
      /\ \/ pos + Block <= N /\ left' = Block /\ pc' = "process"
         \/ pc' = "ended" /\ left' = left
  BY DEF GainRead, On, NoDsp, StreamIInv
<1>2. pos \in Nat /\ Block \in Nat /\ 0 < Block /\ out \in Seq(Nat)
  BY <1>1, Sizes DEF StreamTypeOK
<1>3. StreamTypeOK'
  BY <1>1, <1>2 DEF StreamTypeOK
<1>4. gone' <= failures'
  BY <1>1 DEF StreamIInv, OneBufferPerFailure
<1>5. ASSUME failures' = 0 PROVE Counts(out', 0) /\ GainCarried'
  <2>1. Counts(out, 0) /\ pos = Len(out) /\ Len(out) <= N
    BY <1>1, <1>5 DEF StreamIInv, Carried, GainCarried, Exact
  <2>2. (Block - Block) = 0 /\ pos = Len(out) + (Block - Block) /\ 1..(Block - Block) = {}
    BY <1>2, <2>1
  <2>3. CASE pos + Block <= N /\ left' = Block /\ pc' = "process"
    <3>1. \A i \in 1..(Block - left') : dest'[i] = Len(out') + i
      BY <2>2, <2>3
    <3> QED
      BY <1>1, <2>1, <2>2, <2>3, <3>1 DEF GainCarried
  <2>4. CASE pc' = "ended"
    BY <1>1, <2>1, <2>4 DEF GainCarried
  <2> QED
    BY <1>1, <2>1, <2>3, <2>4
<1> QED
  BY <1>1, <1>3, <1>4, <1>5, GainKeeps

LEMMA GainProcessKeeps ==
  ASSUME StreamIInv, NEW o \in Outcome, GainProcess(o)
  PROVE  StreamIInv'
<1> DEFINE n == Piece(left)
           at == Block - left
           piece == Prefix(block', n)
<1>1. /\ StreamTypeOK /\ job = "gain" /\ pc = "process" /\ Rpc(o)
      /\ UNCHANGED <<job, ret, ready, ring, held, gone, quit, out>>
      /\ block' = IF Served(o) THEN Over(Units(pos, n), block) ELSE block
  BY DEF GainProcess, NoDsp, StreamIInv
<1>2. /\ out \in Seq(Nat) /\ block \in Seq(Nat) /\ dest \in Seq(Nat) /\ pos \in Nat
      /\ Chunk <= Len(block) /\ Len(dest) = Block /\ failures \in Nat /\ gone \in Nat
      /\ Len(block) \in Nat /\ left \in Nat /\ left <= Block /\ Chunk \in Nat /\ Block \in Nat
      /\ Len(out) \in Nat
  BY <1>1, Sizes, LenProperties DEF StreamTypeOK
<1>3. n \in Nat /\ n <= Chunk /\ n <= left /\ n <= Len(block) /\ n \in 0..n /\ at \in Nat
  <2>1. n \in 0..Chunk /\ n <= left
    BY <1>2, PieceOf
  <2> QED
    BY <1>2, <2>1
<1>4. /\ failures' \in Nat /\ failures <= failures'
      /\ failures' = 0 => failures = 0 /\ o = "done" /\ Served(o)
  BY <1>1, <1>2, RpcIs
<1>5. gone' <= failures'
  BY <1>1, <1>2, <1>4 DEF StreamIInv, OneBufferPerFailure
<1>6. CASE o = "refused"
  <2>1. pc' = "write" /\ pos' = pos + left /\ UNCHANGED <<dest, left>>
    BY <1>6 DEF GainProcess
  <2>2. failures' # 0
    BY <1>4, <1>6
  <2>3. block' = block
    BY <1>1, <1>6 DEF Served
  <2>4. StreamTypeOK'
    BY <1>1, <1>2, <1>4, <2>1, <2>3 DEF StreamTypeOK
  <2> QED
    BY <1>1, <1>5, <2>2, <2>4, GainKeeps
<1>7. CASE o # "refused"
  <2>1. /\ dest' = Into(piece, at, dest)
        /\ left' = left - n /\ pos' = pos + n
        /\ pc' = IF left' = 0 THEN "write" ELSE "process"
    BY <1>7 DEF GainProcess
  <2> HIDE DEF n, at, piece
  <2>2. block' \in Seq(Nat) /\ Len(block') = Len(block)
    <3>1. /\ Over(Units(pos, n), block) \in Seq(Nat)
          /\ Len(Over(Units(pos, n), block)) = Len(block)
      BY <1>2, <1>3, FilledIs
    <3> QED
      BY <1>1, <1>2, <3>1
  <2>3. piece \in Seq(Nat) /\ Len(piece) = n
    <3>1. n \in 0..Len(block')
      BY <1>2, <1>3, <2>2
    <3> QED
      BY <2>2, <3>1, PrefixIs DEF piece
  <2>4. /\ dest' \in Seq(Nat) /\ Len(dest') = Block
        /\ \A i \in 1..at : dest'[i] = dest[i]
        /\ \A i \in 1..n : dest'[at + i] = piece[i]
    <3>1. at + Len(piece) <= Len(dest)
      BY <1>2, <1>3, <2>3 DEF at
    <3>2. /\ Into(piece, at, dest) \in Seq(Nat) /\ Len(Into(piece, at, dest)) = Len(dest)
          /\ \A i \in 1..at : Into(piece, at, dest)[i] = dest[i]
          /\ \A i \in 1..Len(piece) : Into(piece, at, dest)[at + i] = piece[i]
      <4>1. at \in Nat /\ dest \in Seq(Nat)
        BY <1>2, <1>3
      <4> QED
        BY <2>3, <3>1, <4>1, IntoIs
    <3> QED
      BY <1>2, <2>1, <2>3, <3>2
  <2>5. StreamTypeOK'
    <3>1. left' \in Nat /\ left' <= Block /\ pos' \in Nat
      BY <1>2, <1>3, <2>1
    <3> QED
      BY <1>1, <1>2, <1>4, <2>1, <2>2, <2>4, <3>1 DEF StreamTypeOK
  <2>6. ASSUME failures' = 0 PROVE Counts(out', 0) /\ GainCarried'
    <3>1. /\ Served(o) /\ Counts(out, 0)
          /\ pos = Len(out) + at /\ Len(out) <= N /\ Len(out) + Block <= N
          /\ \A i \in 1..at : dest[i] = Len(out) + i
      BY <1>1, <1>4, <2>6 DEF StreamIInv, Carried, GainCarried, Exact, at
    <3>2. \A i \in 1..n : piece[i] = pos + i
      <4>0. pos \in Nat /\ block \in Seq(Nat) /\ n \in Nat /\ n \in 0..n
        BY <1>2, <1>3
      <4>1. Prefix(Over(Units(pos, n), block), n) = Units(pos, n)
        BY <4>0, FreshPrefix
      <4>2. piece = Units(pos, n)
        BY <1>1, <3>1, <4>1 DEF piece
      <4> QED
        BY <1>2, <1>3, <4>2, UnitsIs
    <3>3. Block - left' = at + n
      BY <1>2, <1>3, <2>1 DEF at
    <3>4. ASSUME NEW i \in 1..(at + n) PROVE dest'[i] = Len(out) + i
      <4>1. CASE i \in 1..at
        BY <2>4, <3>1, <4>1
      <4>2. CASE i \notin 1..at
        <5>1. i - at \in 1..n /\ at + (i - at) = i /\ i \in Nat
          BY <1>3, <4>2
        <5>2. dest'[at + (i - at)] = pos + (i - at)
          BY <2>4, <3>2, <5>1
        <5> QED
          BY <1>2, <1>3, <3>1, <5>1, <5>2
      <4> QED
        BY <4>1, <4>2
    <3>5. pos' = Len(out') + (Block - left')
      <4>1. pos' = (Len(out) + at) + n /\ Len(out') = Len(out)
        BY <1>1, <2>1, <3>1
      <4> QED
        BY <1>2, <1>3, <3>3, <4>1
    <3>6. /\ pc' \in {"process", "write"} /\ (pc' = "write" => left' = 0)
      BY <2>1
    <3>7. \A i \in 1..(Block - left') : dest'[i] = Len(out') + i
      BY <1>1, <3>3, <3>4
    <3> QED
      BY <1>1, <3>1, <3>5, <3>6, <3>7 DEF GainCarried
  <2> QED
    BY <1>1, <1>5, <2>5, <2>6, GainKeeps
<1> QED
  BY <1>6, <1>7

LEMMA GainWriteKeeps ==
  ASSUME StreamIInv, GainWrite
  PROVE  StreamIInv'
<1>1. /\ StreamTypeOK /\ job = "gain" /\ pc = "write" /\ out' = out \o dest /\ pc' = "loop"
      /\ UNCHANGED <<job, pos, left, ret, ready, block, dest, ring, held, gone, quit, failures>>
  BY DEF GainWrite, NoDsp, StreamIInv
<1>2. /\ out \in Seq(Nat) /\ dest \in Seq(Nat) /\ Len(dest) = Block /\ Block \in Nat
      /\ pos \in Nat /\ Len(out) \in Nat
  BY <1>1, Sizes, LenProperties DEF StreamTypeOK
<1>3. out' \in Seq(Nat) /\ Len(out') = Len(out) + Block
  BY <1>1, <1>2, JoinIs
<1>4. StreamTypeOK'
  BY <1>1, <1>3 DEF StreamTypeOK
<1>5. gone' <= failures'
  BY <1>1 DEF StreamIInv, OneBufferPerFailure
<1>6. ASSUME failures' = 0 PROVE Counts(out', 0) /\ GainCarried'
  <2>1. /\ Counts(out, 0) /\ left = 0 /\ pos = Len(out) + (Block - left) /\ Len(out) + Block <= N
        /\ \A i \in 1..(Block - left) : dest[i] = Len(out) + i
    BY <1>1, <1>6 DEF StreamIInv, Carried, GainCarried, Exact
  <2>2. Block - left = Block
    BY <1>2, <2>1
  <2>3. dest = Units(Len(out), Block)
    <3>1. /\ Units(Len(out), Block) \in Seq(Nat) /\ Len(Units(Len(out), Block)) = Block
          /\ \A i \in 1..Block : Units(Len(out), Block)[i] = Len(out) + i
      BY <1>2, UnitsIs
    <3> QED
      BY <1>2, <2>1, <2>2, <3>1, SeqEqual
  <2>4. Counts(out', 0)
    BY <1>1, <1>2, <2>1, <2>3, CountsOn
  <2>5. GainCarried'
    BY <1>1, <1>2, <1>3, <2>1, <2>2 DEF GainCarried
  <2> QED
    BY <2>4, <2>5
<1> QED
  BY <1>1, <1>4, <1>5, <1>6, GainKeeps

\* A block filled in part and passed on whole: every unit still comes behind
\* all those before it.
LEMMA BlockPassed ==
  ASSUME NEW s \in Seq(Nat), NEW b \in Seq(Nat), NEW p \in Nat, NEW n \in Nat, n <= Len(b),
         Shows(s, p), UpTo(b, p), InTurn(s)
  PROVE  /\ Shows(s \o Over(Units(p, n), b), p + n)
         /\ UpTo(Over(Units(p, n), b), p + n)
         /\ InTurn(s \o Over(Units(p, n), b))
<1> DEFINE c == Over(Units(p, n), b)
           t == s \o c
<1>0. /\ \A u \in 1..p : \E j \in DOMAIN s : s[j] = u
      /\ \A x \in DOMAIN b : b[x] <= p
      /\ \A i \in DOMAIN s : \A u \in 1..s[i] : \E j \in 1..i : s[j] = u
  BY DEF Shows, UpTo, InTurn
<1>1. /\ c \in Seq(Nat) /\ Len(c) = Len(b)
      /\ \A i \in 1..n : c[i] = p + i
      /\ \A i \in n + 1..Len(b) : c[i] = b[i]
  BY FilledIs
<1> HIDE DEF c
<1>2. /\ Len(s) \in Nat /\ Len(b) \in Nat /\ DOMAIN s = 1..Len(s) /\ DOMAIN b = 1..Len(b)
      /\ DOMAIN c = 1..Len(b)
  BY <1>1, LenProperties
<1>3. /\ t \in Seq(Nat) /\ DOMAIN t = 1..(Len(s) + Len(b))
      /\ \A i \in 1..Len(s) : t[i] = s[i]
      /\ \A i \in 1..Len(b) : t[Len(s) + i] = c[i]
      /\ \A i \in DOMAIN t : i \in 1..Len(s) \/ \E j \in 1..Len(b) : i = Len(s) + j
  <2>1. /\ t \in Seq(Nat) /\ DOMAIN t = 1..(Len(s) + Len(c))
        /\ \A i \in 1..Len(s) : t[i] = s[i]
        /\ \A i \in 1..Len(c) : t[Len(s) + i] = c[i]
        /\ \A i \in DOMAIN t : i \in 1..Len(s) \/ \E j \in 1..Len(c) : i = Len(s) + j
    BY <1>1, JoinIs
  <2> QED
    BY <1>1, <2>1
<1> HIDE DEF t
<1>4. \A x \in DOMAIN c : \/ x \in 1..n /\ c[x] = p + x
                          \/ x \notin 1..n /\ c[x] = b[x] /\ b[x] <= p /\ b[x] \in Nat
  <2> SUFFICES ASSUME NEW x \in 1..Len(b), x \notin 1..n
               PROVE  c[x] = b[x] /\ b[x] <= p /\ b[x] \in Nat
    BY <1>1, <1>2
  <2>1. x \in n + 1..Len(b)
    BY <1>2
  <2> QED
    BY <1>0, <1>1, <1>2, <2>1, ElementOfSeq
<1>5. \A x \in DOMAIN c : c[x] <= p + n
  <2> TAKE x \in DOMAIN c
  <2>1. CASE x \in 1..n /\ c[x] = p + x
    BY <2>1
  <2>2. CASE c[x] = b[x] /\ b[x] <= p /\ b[x] \in Nat
    BY <2>2
  <2> QED
    BY <1>4, <2>1, <2>2
\* The old units are in s, the new ones in the block's front.
<1>6. ASSUME NEW u \in 1..p PROVE \E j \in 1..Len(s) : t[j] = u
  <2>1. PICK j \in DOMAIN s : s[j] = u
    BY <1>0
  <2>2. j \in 1..Len(s) /\ t[j] = u
    BY <1>2, <1>3, <2>1
  <2> QED
    BY <2>2
<1>7. ASSUME NEW x \in 1..n PROVE Len(s) + x \in DOMAIN t /\ t[Len(s) + x] = p + x
  <2>1. x \in 1..Len(b) /\ Len(s) + x \in 1..(Len(s) + Len(b))
    BY <1>2
  <2> QED
    BY <1>1, <1>3, <2>1
<1>8. ASSUME NEW u \in 1..(p + n) PROVE \E j \in DOMAIN t : t[j] = u
  <2>1. CASE u \in 1..p
    <3>1. \A j \in 1..Len(s) : j \in DOMAIN t
      BY <1>2, <1>3
    <3> QED
      BY <1>6, <2>1, <3>1
  <2>2. CASE u \notin 1..p
    <3>1. u - p \in 1..n /\ p + (u - p) = u
      BY <2>2
    <3> QED
      BY <1>7, <3>1
  <2> QED
    BY <2>1, <2>2
<1>9. ASSUME NEW i \in DOMAIN t, NEW u \in 1..t[i] PROVE \E j \in 1..i : t[j] = u
  <2>1. CASE i \in 1..Len(s)
    <3>1. t[i] = s[i] /\ i \in DOMAIN s
      BY <1>2, <1>3, <2>1
    <3>2. PICK j \in 1..i : s[j] = u
      BY <1>0, <3>1
    <3>3. t[j] = u
      BY <1>2, <1>3, <2>1, <3>2
    <3> QED
      BY <3>3
  <2>2. CASE i \notin 1..Len(s)
    <3>1. PICK x \in 1..Len(b) : i = Len(s) + x
      BY <1>3, <2>2
    <3>2. t[i] = c[x] /\ x \in DOMAIN c
      BY <1>2, <1>3, <3>1
    <3>3. \A j \in 1..Len(s) : j \in 1..i
      BY <1>2, <3>1
    <3>4. CASE u \in 1..p
      BY <1>6, <3>3, <3>4
    <3>5. CASE u \notin 1..p
      <4>1. x \in 1..n /\ c[x] = p + x
        <5>1. CASE x \notin 1..n /\ c[x] = b[x] /\ b[x] <= p /\ b[x] \in Nat
          BY <3>2, <3>5, <5>1
        <5> QED
          BY <1>4, <3>2, <5>1
      <4>2. u - p \in 1..n /\ p + (u - p) = u /\ u - p <= x
        BY <3>2, <3>5, <4>1
      <4>3. t[Len(s) + (u - p)] = u
        BY <1>7, <4>2
      <4>4. Len(s) + (u - p) \in 1..i
        BY <1>2, <3>1, <4>2
      <4> QED
        BY <4>3, <4>4
    <3> QED
      BY <3>4, <3>5
  <2> QED
    BY <2>1, <2>2
<1> QED
  BY <1>5, <1>8, <1>9 DEF Shows, UpTo, InTurn, t, c

\* The front of a block filled in part.
LEMMA FrontFilled ==
  ASSUME NEW b \in Seq(Nat), NEW p \in Nat, NEW n \in Nat, NEW k \in n..Len(b)
  PROVE  Prefix(Over(Units(p, n), b), k) = Over(Units(p, n), Prefix(b, k))
<1> DEFINE f == Over(Units(p, n), b)
           c == Prefix(b, k)
           g == Over(Units(p, n), c)
<1>1. k \in 0..Len(b) /\ Len(b) \in Nat /\ k \in Nat /\ n <= k /\ n <= Len(b)
  BY LenProperties
<1>2. c \in Seq(Nat) /\ Len(c) = k /\ \A i \in 1..k : c[i] = b[i]
  BY <1>1, PrefixIs
<1>3. /\ f \in Seq(Nat) /\ Len(f) = Len(b)
      /\ \A i \in 1..n : f[i] = p + i
      /\ \A i \in n + 1..Len(b) : f[i] = b[i]
  BY <1>1, FilledIs
<1> HIDE DEF c, f
<1>4. /\ g \in Seq(Nat) /\ Len(g) = k
      /\ \A i \in 1..n : g[i] = p + i
      /\ \A i \in n + 1..k : g[i] = c[i]
  <2>1. /\ g \in Seq(Nat) /\ (n <= Len(c) => Len(g) = Len(c))
        /\ \A i \in 1..n : g[i] = p + i
        /\ \A i \in n + 1..Len(c) : g[i] = c[i]
    BY <1>2, FilledIs
  <2> QED
    BY <1>1, <1>2, <2>1
<1> HIDE DEF g
<1>5. /\ Prefix(f, k) \in Seq(Nat) /\ Len(Prefix(f, k)) = k
      /\ \A i \in 1..k : Prefix(f, k)[i] = f[i]
  <2>1. k \in 0..Len(f)
    BY <1>1, <1>3
  <2> QED
    BY <1>3, <2>1, PrefixIs
<1>6. ASSUME NEW i \in 1..k PROVE Prefix(f, k)[i] = g[i]
  <2>1. CASE i \in 1..n
    BY <1>3, <1>4, <1>5, <2>1
  <2>2. CASE i \notin 1..n
    <3>1. i \in n + 1..Len(b) /\ i \in n + 1..k
      BY <1>1, <2>2
    <3> QED
      BY <1>2, <1>3, <1>4, <1>5, <3>1
  <2> QED
    BY <2>1, <2>2
<1>7. Prefix(f, k) = g
  BY <1>4, <1>5, <1>6, SeqEqual
<1> QED
  BY <1>7 DEF f, g, c

LEMMA PlayFileKeeps ==
  ASSUME StreamIInv, NEW o \in Outcome, NEW k \in 1..Chunk, PlayFile(o, k)
  PROVE  StreamIInv'
<1> DEFINE size == IF ret = 0 THEN Chunk ELSE ret
           n == Least(size, N - pos)
           taken == Least(k, n)
<1>1. /\ StreamTypeOK /\ job = "play_file" /\ pc = "loop" /\ Rpc(o)
      /\ UNCHANGED <<job, ready, dest, ring, held, gone, quit>>
      /\ pos' = pos + n
      /\ block' = Over(Units(pos, n), block)
      /\ out' = IF Served(o) THEN out \o Prefix(block', k) ELSE out
      /\ left' = IF Served(o) THEN left - taken ELSE left
      /\ ret' = n
      /\ pc' = IF n = 0 THEN "ended" ELSE "loop"
  BY DEF PlayFile, On, NoDsp, StreamIInv
<1>2. /\ out \in Seq(Nat) /\ block \in Seq(Nat) /\ pos \in Nat /\ failures \in Nat /\ gone \in Nat
      /\ Chunk <= Len(block) /\ Len(block) \in Nat /\ Chunk \in Nat /\ ret \in 0..Chunk
      /\ pos <= N /\ N \in Nat /\ N - pos \in Nat /\ left \in Nat /\ N - pos <= left
      /\ k \in Nat /\ 1 <= k /\ k <= Chunk /\ k <= Len(block) /\ 0 < Chunk
  BY <1>1, Sizes, LenProperties DEF StreamTypeOK
<1>3. /\ n \in Nat /\ n <= Chunk /\ n <= N - pos /\ n <= Len(block)
      /\ n = Chunk => ret \in {0, Chunk}
  <2>1. size \in Nat /\ size <= Chunk /\ (size = Chunk => ret \in {0, Chunk})
    BY <1>2
  <2> HIDE DEF size
  <2>2. n \in Nat /\ n <= size /\ n <= N - pos
    BY <1>2, <2>1, LeastIs
  <2> HIDE DEF n
  <2> QED
    BY <1>2, <2>1, <2>2
<1> HIDE DEF n, size
<1>4. /\ failures' \in Nat /\ failures <= failures'
      /\ failures' = 0 => failures = 0 /\ o = "done" /\ Served(o)
  BY <1>1, <1>2, RpcIs
<1>5. gone' <= failures'
  BY <1>1, <1>2, <1>4 DEF StreamIInv, OneBufferPerFailure
<1>6. block' \in Seq(Nat) /\ Len(block') = Len(block)
  BY <1>1, <1>2, <1>3, FilledIs
<1>7. out' \in Seq(Nat)
  <2>1. k \in 0..Len(block')
    BY <1>2, <1>6
  <2>2. Prefix(block', k) \in Seq(Nat)
    BY <1>6, <2>1, PrefixIs
  <2>3. out \o Prefix(block', k) \in Seq(Nat)
    BY <1>2, <2>2, JoinIs
  <2> QED
    BY <1>1, <1>2, <2>3
<1>8. taken \in Nat /\ taken <= n /\ (taken = n => n <= k)
  BY <1>2, <1>3, LeastIs
<1> HIDE DEF taken
<1>9. StreamTypeOK'
  <2>1. pos' \in Nat /\ pos' <= N /\ ret' \in 0..Chunk /\ pc' \in {"loop", "ended"}
    BY <1>1, <1>2, <1>3
  <2>2. left' \in Nat /\ N - pos' <= left'
    BY <1>1, <1>2, <1>3, <1>8
  <2> QED
    BY <1>1, <1>2, <1>4, <1>6, <1>7, <2>1, <2>2 DEF StreamTypeOK
<1>10. ASSUME failures' = 0 PROVE BlockCarried'
  <2> SUFFICES ASSUME left' = N - pos'
               PROVE  Shows(out', pos') /\ UpTo(block', pos') /\ InTurn(out')
    BY <1>1 DEF BlockCarried, AllTaken
  <2>1. Served(o) /\ failures = 0
    BY <1>4, <1>10
  <2>2. left = N - pos /\ n <= k
    BY <1>1, <1>2, <1>3, <1>8, <2>1
  <2>3. Shows(out, pos) /\ UpTo(block, pos) /\ InTurn(out)
    BY <1>1, <2>1, <2>2 DEF StreamIInv, Carried, BlockCarried, AllTaken
  <2>4. UpTo(Over(Units(pos, n), block), pos + n)
    BY <1>2, <1>3, <2>3, BlockPassed
  <2> DEFINE front == Prefix(block, k)
  <2>5. /\ front \in Seq(Nat) /\ Len(front) = k /\ UpTo(front, pos)
    <3>1. k \in 0..Len(block) /\ DOMAIN block = 1..Len(block)
      BY <1>2, LenProperties
    <3>2. front \in Seq(Nat) /\ Len(front) = k /\ DOMAIN front = 1..k /\ \A i \in 1..k : front[i] = block[i]
      BY <1>2, <3>1, PrefixIs
    <3> HIDE DEF front
    <3>3. \A i \in 1..k : i \in DOMAIN block
      BY <1>2, <3>1
    <3> QED
      BY <2>3, <3>2, <3>3 DEF UpTo
  <2>6. Prefix(block', k) = Over(Units(pos, n), front)
    <3>1. k \in n..Len(block)
      BY <1>2, <1>3, <2>2
    <3> QED
      BY <1>1, <1>2, <1>3, <3>1, FrontFilled
  <2> HIDE DEF front
  <2>7. /\ Shows(out \o Over(Units(pos, n), front), pos + n)
        /\ InTurn(out \o Over(Units(pos, n), front))
    BY <1>2, <1>3, <2>2, <2>3, <2>5, BlockPassed
  <2> QED
    BY <1>1, <2>1, <2>4, <2>6, <2>7
<1>11. ASSUME WholeBlocks' PROVE Ordered(out', << >>, pos')
  <2>1. n = Chunk
    BY <1>1, <1>11 DEF WholeBlocks
  <2>2. Ordered(out, << >>, pos)
    BY <1>1, <1>3, <2>1 DEF StreamIInv, InOrder, WholeBlocks
  <2>3. CASE Served(o)
    <3>1. k \in 0..n /\ k <= n
      BY <1>2, <2>1
    <3>2. Prefix(Over(Units(pos, n), block), k) = Units(pos, k)
      BY <1>2, <1>3, <3>1, FreshPrefix
    <3>3. Ordered(out \o Units(pos, k), << >>, pos + n)
      BY <1>2, <1>3, <2>2, <3>1, PassOrdered
    <3> QED
      BY <1>1, <2>3, <3>2, <3>3
  <2>4. CASE ~Served(o)
    <3>1. Ordered(out, << >>, pos + n)
      BY <1>2, <1>3, <2>2, GiveOrdered, EmptySeq
    <3> QED
      BY <1>1, <2>4, <3>1
  <2> QED
    BY <2>3, <2>4
<1> QED
  BY <1>1, <1>5, <1>9, <1>10, <1>11, BlockKeeps

LEMMA CaptureKeeps ==
  ASSUME StreamIInv, NEW o \in Outcome, NEW k \in 1..Chunk, Capture(o, k)
  PROVE  StreamIInv'
<1>1. /\ StreamTypeOK /\ job = "capture" /\ Rpc(o)
      /\ UNCHANGED <<job, ret, ready, dest, ring, held, gone, quit>>
  BY DEF Capture, On, NoDsp, StreamIInv
<1>2. /\ out \in Seq(Nat) /\ block \in Seq(Nat) /\ pos \in Nat /\ failures \in Nat /\ gone \in Nat
      /\ Chunk <= Len(block) /\ Len(block) \in Nat /\ Chunk \in Nat /\ left \in Nat
      /\ k \in Nat /\ k <= Chunk /\ k <= Len(block)
  BY <1>1, Sizes, LenProperties DEF StreamTypeOK
<1>3. /\ failures' \in Nat /\ failures <= failures'
      /\ failures' = 0 => failures = 0 /\ o = "done" /\ Served(o)
  BY <1>1, <1>2, RpcIs
<1>4. gone' <= failures'
  BY <1>1, <1>2, <1>3 DEF StreamIInv, OneBufferPerFailure
<1>5. failures = 0 => Shows(out, pos) /\ UpTo(block, pos) /\ InTurn(out)
  BY <1>1 DEF StreamIInv, Carried, BlockCarried, AllTaken
<1>6. ~ WholeBlocks'
  BY <1>1 DEF WholeBlocks
<1>7. CASE left >= Chunk
  <2>1. /\ pos' = IF Served(o) THEN pos + k ELSE pos
        /\ block' = IF Served(o) THEN Over(Units(pos, k), block) ELSE block
        /\ out' = out \o block'
        /\ left' = IF o = "done" THEN left - k ELSE left
        /\ UNCHANGED pc
    BY <1>7 DEF Capture
  <2>2. block' \in Seq(Nat) /\ Len(block') = Len(block)
    <3>1. /\ Over(Units(pos, k), block) \in Seq(Nat)
          /\ Len(Over(Units(pos, k), block)) = Len(block)
      BY <1>2, FilledIs
    <3> QED
      BY <1>2, <2>1, <3>1
  <2>3. out' \in Seq(Nat)
    BY <1>2, <2>1, <2>2, JoinIs
  <2>4. StreamTypeOK'
    <3>1. pos' \in Nat /\ left' \in Nat
      BY <1>2, <1>7, <2>1
    <3> QED
      BY <1>1, <1>2, <1>3, <2>1, <2>2, <2>3, <3>1 DEF StreamTypeOK
  <2>5. ASSUME failures' = 0 PROVE BlockCarried'
    <3>1. /\ Served(o) /\ failures = 0
      BY <1>3, <2>5
    <3>2. /\ Shows(out \o Over(Units(pos, k), block), pos + k)
          /\ UpTo(Over(Units(pos, k), block), pos + k)
          /\ InTurn(out \o Over(Units(pos, k), block))
      BY <1>2, <1>5, <3>1, BlockPassed
    <3> QED
      BY <2>1, <3>1, <3>2 DEF BlockCarried
  <2> QED
    BY <1>1, <1>4, <1>6, <2>4, <2>5, BlockKeeps
<1>8. CASE ~(left >= Chunk)
  <2>1. pc' = "ended" /\ UNCHANGED <<pos, block, out, left>>
    BY <1>8 DEF Capture
  <2>2. StreamTypeOK'
    BY <1>1, <1>3, <2>1 DEF StreamTypeOK
  <2>3. ASSUME failures' = 0 PROVE BlockCarried'
    <3>1. pos' = pos /\ block' = block /\ out' = out
      BY <2>1
    <3>2. Shows(out, pos) /\ UpTo(block, pos) /\ InTurn(out)
      BY <1>3, <1>5, <2>3
    <3> QED
      BY <3>1, <3>2 DEF BlockCarried
  <2> QED
    BY <1>1, <1>4, <1>6, <2>2, <2>3, BlockKeeps
<1> QED
  BY <1>7, <1>8

\* The queue loses n units at its front, or gets n at its end.
LEMMA TakeType ==
  ASSUME NEW s \in Seq(Nat), NEW r \in Seq(Nat), NEW n \in 0..Len(r)
  PROVE  /\ s \o Prefix(r, n) \in Seq(Nat) /\ Len(s \o Prefix(r, n)) = Len(s) + n
         /\ SubSeq(r, n + 1, Len(r)) \in Seq(Nat)
         /\ Len(SubSeq(r, n + 1, Len(r))) = Len(r) - n
<1> DEFINE m == n + 1
           l == Len(r)
<1>1. Len(s) \in Nat /\ Len(r) \in Nat /\ n \in Nat /\ n <= Len(r)
  BY LenProperties
<1>2. Prefix(r, n) \in Seq(Nat) /\ Len(Prefix(r, n)) = n
  BY PrefixIs
<1>3. s \o Prefix(r, n) \in Seq(Nat) /\ Len(s \o Prefix(r, n)) = Len(s) + n
  <2>1. /\ s \o Prefix(r, n) \in Seq(Nat)
        /\ Len(s \o Prefix(r, n)) = Len(s) + Len(Prefix(r, n))
    BY <1>2, JoinIs
  <2> QED
    BY <1>2, <2>1
<1>4. m \in Nat \ {0} /\ l \in Nat /\ l <= Len(r) /\ m <= l + 1 /\ (l - m) + 1 = l - n
  BY <1>1
<1> HIDE DEF m, l
<1>5. SubSeq(r, m, l) \in Seq(Nat) /\ Len(SubSeq(r, m, l)) = (l - m) + 1
  BY <1>4, PieceIs
<1> QED
  BY <1>3, <1>4, <1>5 DEF m, l

LEMMA GiveType ==
  ASSUME NEW s \in Seq(Nat), NEW r \in Seq(Nat), NEW p \in Nat, NEW n \in Nat
  PROVE  /\ r \o Units(p, n) \in Seq(Nat) /\ Len(r \o Units(p, n)) = Len(r) + n
         /\ Counts(r, Len(s)) /\ p = Len(s) + Len(r) => Counts(r \o Units(p, n), Len(s))
<1>1. Units(p, n) \in Seq(Nat) /\ Len(Units(p, n)) = n
  BY UnitsIs
<1>2. r \o Units(p, n) \in Seq(Nat) /\ Len(r \o Units(p, n)) = Len(r) + n
  <2>1. /\ r \o Units(p, n) \in Seq(Nat)
        /\ Len(r \o Units(p, n)) = Len(r) + Len(Units(p, n))
    BY <1>1, JoinIs
  <2> QED
    BY <1>1, <2>1
<1>3. ASSUME Counts(r, Len(s)), p = Len(s) + Len(r)
      PROVE  Counts(r \o Units(p, n), Len(s))
  <2>1. Len(s) \in Nat
    BY LenProperties
  <2>2. Counts(r \o Units(Len(s) + Len(r), n), Len(s))
    BY <1>3, <2>1, JoinCounts
  <2> QED
    BY <1>3, <2>2
<1> QED
  BY <1>2, <1>3

\* What is known of a loop over a queue.
LEMMA QueueIs ==
  ASSUME StreamIInv, job \in Queued
  PROVE  /\ StreamTypeOK /\ BuffersKept /\ gone <= failures
         /\ out \in Seq(Nat) /\ ring \in Seq(Nat) /\ block \in Seq(Nat)
         /\ pos \in Nat /\ left \in Nat /\ failures \in Nat /\ gone \in Nat /\ held \in Nat
         /\ Len(out) \in Nat /\ Len(ring) \in Nat /\ Len(block) \in Nat
         /\ Chunk <= Len(block) /\ Chunk \in Nat /\ 0 < Chunk /\ N \in Nat
         /\ Ordered(out, ring, pos)
         /\ failures = 0 =>
              /\ Counts(out, 0) /\ Counts(ring, Len(out)) /\ pos = Len(out) + Len(ring)
              /\ job \in {"flat_read", "audio_dump"} => pos <= N
              /\ job = "flat_write" => pos + left = N
              /\ job \in Dspc => Len(out) + left = N
<1>1. /\ StreamTypeOK /\ BuffersKept /\ gone <= failures /\ InOrder /\ Carried
  BY DEF StreamIInv, OneBufferPerFailure
<1>2. job \in Careful /\ job \in Exact
  BY DEF Careful, Exact, Queued
<1>3. Ordered(out, ring, pos)
  BY <1>1, <1>2 DEF InOrder
<1>4. failures = 0 =>
        /\ Counts(out, 0) /\ Counts(ring, Len(out)) /\ pos = Len(out) + Len(ring)
        /\ job \in {"flat_read", "audio_dump"} => pos <= N
        /\ job = "flat_write" => pos + left = N
        /\ job \in Dspc => Len(out) + left = N
  BY <1>1, <1>2 DEF Carried, QueueCarried
<1>5. /\ out \in Seq(Nat) /\ ring \in Seq(Nat) /\ block \in Seq(Nat)
      /\ pos \in Nat /\ left \in Nat /\ failures \in Nat /\ gone \in Nat /\ held \in Nat
      /\ Chunk <= Len(block)
  BY <1>1 DEF StreamTypeOK
<1>6. Len(out) \in Nat /\ Len(ring) \in Nat /\ Len(block) \in Nat
  BY <1>5, LenProperties
<1> QED
  BY <1>1, <1>3, <1>4, <1>5, <1>6, Sizes

LEMMA DspTakesKeeps ==
  ASSUME StreamIInv, DspTakes
  PROVE  StreamIInv'
<1>1. /\ job = "flat_write" /\ ring # << >>
      /\ out' = Append(out, Head(ring)) /\ ring' = Tail(ring)
      /\ UNCHANGED <<job, pc, pos, left, ret, ready, block, dest, held, quit, gone, failures>>
  BY DEF DspTakes
<1>2. job \in Queued
  BY <1>1 DEF Queued
<1> DEFINE n == 1
<1>3. /\ n \in 0..Len(ring) /\ out' = out \o Prefix(ring, n)
      /\ ring' = SubSeq(ring, n + 1, Len(ring))
  BY <1>1, <1>2, QueueIs, HeadTailIs
<1> HIDE DEF n
<1>4. /\ out' \in Seq(Nat) /\ Len(out') = Len(out) + n
      /\ ring' \in Seq(Nat) /\ Len(ring') = Len(ring) - n
  <2>1. out \in Seq(Nat) /\ ring \in Seq(Nat)
    BY <1>2, QueueIs
  <2> QED
    BY <1>3, <2>1, TakeType
<1>5. StreamTypeOK'
  BY <1>1, <1>2, <1>4, QueueIs DEF StreamTypeOK
<1>6. Ordered(out', ring', pos')
  BY <1>1, <1>2, <1>3, QueueIs, TakeOrdered
<1>7. gone' <= failures' /\ BuffersKept'
  BY <1>1, <1>2, QueueIs DEF BuffersKept
<1>8. ASSUME failures' = 0 PROVE Counts(out', 0) /\ QueueCarried'
  <2>1. /\ Counts(out, 0) /\ Counts(ring, Len(out)) /\ pos = Len(out) + Len(ring)
        /\ pos + left = N
    BY <1>1, <1>2, <1>8, QueueIs
  <2>2. Counts(out', 0) /\ Counts(ring', Len(out'))
    BY <1>2, <1>3, <2>1, QueueIs, TakeCounts
  <2>3. pos' = Len(out') + Len(ring') /\ pos' + left' = N
    BY <1>1, <1>2, <1>3, <1>4, <2>1, QueueIs
  <2> QED
    BY <1>1, <2>2, <2>3 DEF QueueCarried, Dspc
<1> QED
  BY <1>1, <1>2, <1>5, <1>6, <1>7, <1>8, QueueKeeps

\* A unit the source yields goes to the end of the queue: DspGives, DspFills.
LEMMA GivesKeeps ==
  ASSUME StreamIInv, job \in {"flat_read", "audio_dump"} \cup Dspc,
         job \notin Dspc => pos < N,
         ring' = Append(ring, pos + 1), pos' = pos + 1,
         UNCHANGED <<job, pc, left, ret, ready, block, dest, held, quit, out, gone, failures>>
  PROVE  StreamIInv'
<1> DEFINE n == 1
<1>1. job \in Queued /\ job # "flat_write"
  BY DEF Queued, Dspc
<1>2. n \in Nat /\ pos' = pos + n /\ ring' = ring \o Units(pos, n)
  BY <1>1, QueueIs, OneMoreIs
<1> HIDE DEF n
<1>3. ring' \in Seq(Nat) /\ Len(ring') = Len(ring) + n
  <2>1. out \in Seq(Nat) /\ ring \in Seq(Nat) /\ pos \in Nat
    BY <1>1, QueueIs
  <2> QED
    BY <1>2, <2>1, GiveType
<1>4. StreamTypeOK'
  <2>1. pos' \in Nat
    BY <1>1, <1>2, QueueIs
  <2>2. job \notin {"resample", "play_file", "mp3", "aac", "gain"}
    BY DEF Dspc
  <2> QED
    BY <1>1, <1>3, <2>1, <2>2, QueueIs DEF StreamTypeOK
<1>5. Ordered(out', ring', pos')
  BY <1>1, <1>2, QueueIs, GiveOrdered
<1>6. gone' <= failures' /\ BuffersKept'
  BY <1>1, QueueIs DEF BuffersKept
<1>7. ASSUME failures' = 0 PROVE Counts(out', 0) /\ QueueCarried'
  <2>1. /\ Counts(out, 0) /\ Counts(ring, Len(out)) /\ pos = Len(out) + Len(ring)
        /\ job \in Dspc => Len(out) + left = N
    BY <1>1, <1>7, QueueIs
  <2>2. Counts(ring', Len(out'))
    <3>1. out \in Seq(Nat) /\ ring \in Seq(Nat) /\ pos \in Nat
      BY <1>1, QueueIs
    <3>2. Counts(ring \o Units(pos, n), Len(out))
      BY <1>2, <2>1, <3>1, GiveType
    <3> QED
      BY <1>2, <3>2
  <2>3. pos' = Len(out') + Len(ring')
    BY <1>1, <1>2, <1>3, <2>1, QueueIs
  <2>4. job' \in {"flat_read", "audio_dump"} => pos' <= N
    BY <1>1, QueueIs DEF Dspc
  <2> QED
    BY <1>1, <2>1, <2>2, <2>3, <2>4 DEF QueueCarried
<1> QED
  BY <1>1, <1>4, <1>5, <1>6, <1>7, QueueKeeps

LEMMA QuitKeeps ==
  ASSUME StreamIInv, Quit
  PROVE  StreamIInv'
<1>1. /\ quit' = TRUE
      /\ UNCHANGED <<job, pc, pos, left, ret, ready, block, dest, ring, held, out, gone, failures>>
  BY DEF Quit
<1> QED
  BY <1>1 DEF StreamIInv, StreamTypeOK, OneBufferPerFailure, BuffersKept, InOrder, Carried,
              DirectCarried, GainCarried, QueueCarried, BlockCarried, WholeBlocks,
              AllTaken

LEMMA FlatWriteKeeps ==
  ASSUME StreamIInv, NEW o \in Outcome, NEW size \in Nat, FlatWrite(o, size)
  PROVE  StreamIInv'
<1> DEFINE n == Least(size, left)
<1>1. /\ job = "flat_write" /\ pc = "loop" /\ Rpc(o) /\ o # "refused"
      /\ UNCHANGED <<job, ret, ready, dest, held, quit, out, gone>>
  BY DEF FlatWrite, On
<1>2. job \in Queued
  BY <1>1 DEF Queued
<1>3. /\ out \in Seq(Nat) /\ ring \in Seq(Nat) /\ block \in Seq(Nat)
      /\ pos \in Nat /\ left \in Nat /\ failures \in Nat /\ gone \in Nat
      /\ Len(out) \in Nat /\ Len(ring) \in Nat /\ Len(block) \in Nat
      /\ Chunk <= Len(block) /\ Chunk \in Nat /\ StreamTypeOK /\ gone <= failures
      /\ Ordered(out, ring, pos)
  BY <1>2, QueueIs
<1>4. failures = 0 =>
        /\ Counts(out, 0) /\ Counts(ring, Len(out)) /\ pos = Len(out) + Len(ring)
        /\ pos + left = N
  BY <1>1, <1>2, QueueIs
<1>5. /\ failures' \in Nat /\ failures <= failures'
      /\ failures' = 0 => failures = 0 /\ o = "done" /\ Served(o)
  BY <1>1, <1>3, RpcIs
<1>6. gone' <= failures' /\ BuffersKept'
  BY <1>1, <1>3, <1>5 DEF BuffersKept
<1>7. n \in Nat /\ n <= left
  BY <1>3, LeastIs
<1>8. CASE left = 0
  <2>1. pc' = "ended" /\ UNCHANGED <<ring, pos, left, block>>
    BY <1>8 DEF FlatWrite
  <2>2. StreamTypeOK'
    BY <1>1, <1>3, <1>5, <2>1 DEF StreamTypeOK
  <2>3. Ordered(out', ring', pos')
    BY <1>1, <1>3, <2>1
  <2>4. failures' = 0 => Counts(out', 0) /\ QueueCarried'
    BY <1>1, <1>4, <1>5, <2>1 DEF QueueCarried, Dspc
  <2> QED
    BY <1>1, <1>2, <1>6, <2>2, <2>3, <2>4, QueueKeeps
<1>9. CASE left # 0
  <2>1. /\ block' = Over(Units(pos, n), block)
        /\ ring' = IF Served(o) THEN ring \o Prefix(block', n) ELSE ring
        /\ pos' = pos + n /\ left' = left - n
        /\ pc' = IF o = "done" THEN "loop" ELSE "ended"
    BY <1>9 DEF FlatWrite
  <2> HIDE DEF n
  <2>2. block' \in Seq(Nat) /\ Chunk <= Len(block')
    <3>1. /\ Over(Units(pos, n), block) \in Seq(Nat)
          /\ Len(block) <= Len(Over(Units(pos, n), block))
      BY <1>3, <1>7, FilledIs
    <3>2. Len(block') \in Nat
      BY <2>1, <3>1, LenProperties
    <3> QED
      BY <1>3, <2>1, <3>1, <3>2
  <2>3. ring' = IF Served(o) THEN ring \o Units(pos, n) ELSE ring
    <3>1. Prefix(Over(Units(pos, n), block), n) = Units(pos, n)
      BY <1>3, <1>7, FreshWhole
    <3> QED
      BY <2>1, <3>1
  <2>4. ring \o Units(pos, n) \in Seq(Nat) /\ Len(ring \o Units(pos, n)) = Len(ring) + n
    BY <1>3, <1>7, GiveType
  <2>5. StreamTypeOK'
    <3>1. pos' \in Nat /\ left' \in Nat
      BY <1>3, <1>7, <2>1
    <3> QED
      BY <1>1, <1>3, <1>5, <2>1, <2>2, <2>3, <2>4, <3>1 DEF StreamTypeOK
  <2>6. Ordered(out', ring', pos')
    <3>1. Ordered(out, ring \o Units(pos, n), pos + n) /\ Ordered(out, ring, pos + n)
      BY <1>3, <1>7, GiveOrdered
    <3> QED
      BY <1>1, <2>1, <2>3, <3>1
  <2>7. ASSUME failures' = 0 PROVE Counts(out', 0) /\ QueueCarried'
    <3>1. /\ Served(o) /\ Counts(out, 0) /\ Counts(ring, Len(out))
          /\ pos = Len(out) + Len(ring) /\ pos + left = N
      BY <1>4, <1>5, <2>7
    <3>2. Counts(ring \o Units(pos, n), Len(out))
      BY <1>3, <1>7, <3>1, GiveType
    <3>3. pos' = Len(out') + Len(ring') /\ pos' + left' = N
      <4>1. Len(ring') = Len(ring) + n /\ Len(out') = Len(out)
        BY <1>1, <2>3, <2>4, <3>1
      <4>2. pos' = pos + n /\ left' = left - n
        BY <2>1
      <4>3. pos + n = Len(out) + (Len(ring) + n)
        BY <1>3, <1>7, <3>1
      <4>4. (pos + n) + (left - n) = pos + left
        BY <1>3, <1>7
      <4> QED
        BY <3>1, <4>1, <4>2, <4>3, <4>4
    <3> QED
      BY <1>1, <2>3, <3>1, <3>2, <3>3 DEF QueueCarried, Dspc
  <2> QED
    BY <1>1, <1>2, <1>6, <2>5, <2>6, <2>7, QueueKeeps
<1> QED
  BY <1>8, <1>9

\* A call that takes n units from the queue, and hands them on when it is done:
\* FlatRead and Dump.
LEMMA ReadsKeep ==
  ASSUME StreamIInv, NEW o \in Outcome, NEW n \in 0..Len(ring), Rpc(o),
         job \in {"flat_read", "audio_dump"},
         ring' = (IF Served(o) THEN SubSeq(ring, n + 1, Len(ring)) ELSE ring),
         out' = (IF o = "done" THEN out \o Prefix(ring, n) ELSE out),
         block' \in Seq(Nat), Chunk <= Len(block'), left' \in Nat,
         pc' \in {"loop", "ended"},
         UNCHANGED <<job, pos, ret, ready, dest, held, quit, gone>>
  PROVE  StreamIInv'
<1>1. job \in Queued /\ job # "flat_write" /\ job \notin Dspc
  BY DEF Queued, Dspc
<1>2. /\ out \in Seq(Nat) /\ ring \in Seq(Nat)
      /\ pos \in Nat /\ failures \in Nat /\ gone \in Nat
      /\ Len(out) \in Nat /\ Len(ring) \in Nat
      /\ StreamTypeOK /\ gone <= failures /\ Ordered(out, ring, pos)
  BY <1>1, QueueIs
<1>3. failures = 0 =>
        /\ Counts(out, 0) /\ Counts(ring, Len(out)) /\ pos = Len(out) + Len(ring)
        /\ pos <= N
  BY <1>1, QueueIs
<1>4. /\ failures' \in Nat /\ failures <= failures'
      /\ failures' = 0 => failures = 0 /\ o = "done" /\ Served(o)
  BY <1>2, RpcIs
<1>5. gone' <= failures' /\ BuffersKept'
  BY <1>1, <1>2, <1>4 DEF BuffersKept, Dspc
<1>6. /\ out \o Prefix(ring, n) \in Seq(Nat) /\ Len(out \o Prefix(ring, n)) = Len(out) + n
      /\ SubSeq(ring, n + 1, Len(ring)) \in Seq(Nat)
      /\ Len(SubSeq(ring, n + 1, Len(ring))) = Len(ring) - n
  BY <1>2, TakeType
<1>7. out' \in Seq(Nat) /\ ring' \in Seq(Nat)
  BY <1>2, <1>6
<1>8. StreamTypeOK'
  BY <1>1, <1>2, <1>4, <1>7 DEF StreamTypeOK
<1>9. Ordered(out', ring', pos')
  <2>1. /\ Ordered(out \o Prefix(ring, n), SubSeq(ring, n + 1, Len(ring)), pos)
        /\ Ordered(out, SubSeq(ring, n + 1, Len(ring)), pos)
    BY <1>2, TakeOrdered
  <2>2. CASE o = "done"
    <3>1. Served(o)
      BY <2>2 DEF Served
    <3> QED
      BY <2>1, <2>2, <3>1
  <2>3. CASE o # "done"
    BY <1>2, <2>1, <2>3
  <2> QED
    BY <2>2, <2>3
<1>10. ASSUME failures' = 0 PROVE Counts(out', 0) /\ QueueCarried'
  <2>1. /\ out' = out \o Prefix(ring, n) /\ ring' = SubSeq(ring, n + 1, Len(ring))
        /\ Counts(out, 0) /\ Counts(ring, Len(out)) /\ pos = Len(out) + Len(ring)
        /\ pos <= N
    BY <1>3, <1>4, <1>10
  <2>2. Counts(out', 0) /\ Counts(ring', Len(out'))
    <3>1. /\ Counts(out \o Prefix(ring, n), 0)
          /\ Counts(SubSeq(ring, n + 1, Len(ring)), Len(out \o Prefix(ring, n)))
      BY <1>2, <2>1, TakeCounts
    <3> QED
      BY <2>1, <3>1
  <2>3. pos' = Len(out') + Len(ring') /\ pos' <= N
    <3>1. Len(out') = Len(out) + n /\ Len(ring') = Len(ring) - n /\ n \in Nat
      BY <1>2, <1>6, <2>1
    <3>2. pos' = pos
      OBVIOUS
    <3>3. Len(out) + Len(ring) = (Len(out) + n) + (Len(ring) - n)
      BY <1>2, <3>1
    <3> QED
      BY <2>1, <3>1, <3>2, <3>3
  <2> QED
    BY <1>1, <2>2, <2>3 DEF QueueCarried
<1> QED
  BY <1>1, <1>5, <1>8, <1>9, <1>10, QueueKeeps

\* Units written over the front of a block are found there.
LEMMA FrontOver ==
  ASSUME NEW s \in Seq(Nat), NEW b \in Seq(Nat)
  PROVE  /\ Over(s, b) \in Seq(Nat) /\ Len(b) <= Len(Over(s, b))
         /\ Prefix(Over(s, b), Len(s)) = s
<1>1. /\ Len(s) \in Nat /\ Len(b) \in Nat
      /\ Over(s, b) \in Seq(Nat)
      /\ Len(Over(s, b)) = IF Len(s) <= Len(b) THEN Len(b) ELSE Len(s)
      /\ \A i \in 1..Len(s) : Over(s, b)[i] = s[i]
  BY OverIs, LenProperties
<1>2. Len(s) \in 0..Len(Over(s, b)) /\ Len(b) <= Len(Over(s, b))
  BY <1>1
<1> DEFINE o == Over(s, b)
<1>3. /\ Prefix(o, Len(s)) \in Seq(Nat) /\ Len(Prefix(o, Len(s))) = Len(s)
      /\ \A i \in 1..Len(s) : Prefix(o, Len(s))[i] = o[i]
  BY <1>1, <1>2, PrefixIs
<1>4. Prefix(o, Len(s)) = s
  BY <1>1, <1>3, SeqEqual
<1> QED
  BY <1>1, <1>2, <1>4

LEMMA FlatReadKeeps ==
  ASSUME StreamIInv, NEW o \in Outcome, NEW size \in Nat, FlatRead(o, size)
  PROVE  StreamIInv'
<1> DEFINE n == Least(size, left)
           got == Least(n, Len(ring))
<1>1. /\ job = "flat_read" /\ Rpc(o) /\ o # "refused"
      /\ UNCHANGED <<job, pos, ret, ready, dest, held, quit, gone>>
      /\ \/ /\ pc' = "ended" /\ o = "done" /\ UNCHANGED <<ring, left, block, out>>
         \/ /\ block' = IF Served(o) THEN Over(Prefix(ring, got), block) ELSE block
            /\ ring' = IF Served(o) THEN SubSeq(ring, got + 1, Len(ring)) ELSE ring
            /\ out' = IF o = "done" THEN out \o Prefix(block', got) ELSE out
            /\ left' = left - got
            /\ pc' = IF o = "done" THEN "loop" ELSE "ended"
  BY DEF FlatRead, On
<1>2. job \in Queued
  BY <1>1 DEF Queued
<1>3. /\ out \in Seq(Nat) /\ ring \in Seq(Nat) /\ block \in Seq(Nat) /\ left \in Nat
      /\ Len(ring) \in Nat /\ Len(block) \in Nat /\ Chunk <= Len(block) /\ Chunk \in Nat
  BY <1>2, QueueIs
<1>4. got \in 0..Len(ring) /\ got <= left
  <2>1. n \in Nat /\ n <= left
    BY <1>3, LeastIs
  <2> HIDE DEF n
  <2>2. got \in Nat /\ got <= n /\ got <= Len(ring)
    BY <1>3, <2>1, LeastIs
  <2> HIDE DEF got
  <2> QED
    BY <1>3, <2>1, <2>2
<1> HIDE DEF n, got
<1>5. CASE pc' = "ended" /\ o = "done" /\ UNCHANGED <<ring, left, block, out>>
  <2> DEFINE zero == 0
  <2>1. /\ zero \in 0..Len(ring) /\ SubSeq(ring, zero + 1, Len(ring)) = ring
        /\ out \o Prefix(ring, zero) = out
    <3>1. Prefix(ring, 0) = << >>
      BY SubSeqEmpty DEF Prefix
    <3>2. out \o << >> = out
      BY <1>3, ConcatEmptySeq
    <3>3. SubSeq(ring, 1, Len(ring)) = ring
      BY <1>3, SubSeqFull
    <3> QED
      BY <1>3, <3>1, <3>2, <3>3
  <2> HIDE DEF zero
  <2>2. Served(o)
    BY <1>5 DEF Served
  <2> QED
    BY <1>1, <1>3, <1>5, <2>1, <2>2, ReadsKeep
<1>6. CASE /\ block' = IF Served(o) THEN Over(Prefix(ring, got), block) ELSE block
           /\ ring' = IF Served(o) THEN SubSeq(ring, got + 1, Len(ring)) ELSE ring
           /\ out' = IF o = "done" THEN out \o Prefix(block', got) ELSE out
           /\ left' = left - got
           /\ pc' = IF o = "done" THEN "loop" ELSE "ended"
  <2>1. Prefix(ring, got) \in Seq(Nat) /\ Len(Prefix(ring, got)) = got
    BY <1>3, <1>4, PrefixIs
  <2>2. /\ Over(Prefix(ring, got), block) \in Seq(Nat)
        /\ Len(block) <= Len(Over(Prefix(ring, got), block))
        /\ Prefix(Over(Prefix(ring, got), block), Len(Prefix(ring, got))) = Prefix(ring, got)
    BY <1>3, <2>1, FrontOver
  <2>3. block' \in Seq(Nat) /\ Chunk <= Len(block')
    <3>1. block' \in Seq(Nat) /\ Len(block) <= Len(block')
      BY <1>3, <1>6, <2>2
    <3>2. Len(block') \in Nat
      BY <3>1, LenProperties
    <3> QED
      BY <1>3, <3>1, <3>2
  <2>4. out' = IF o = "done" THEN out \o Prefix(ring, got) ELSE out
    BY <1>6, <2>1, <2>2 DEF Served
  <2>5. left' \in Nat /\ pc' \in {"loop", "ended"}
    BY <1>3, <1>4, <1>6
  <2> QED
    BY <1>1, <1>4, <1>6, <2>3, <2>4, <2>5, ReadsKeep
<1> QED
  BY <1>1, <1>5, <1>6

LEMMA DumpKeeps ==
  ASSUME StreamIInv, NEW o \in Outcome, Dump(o)
  PROVE  StreamIInv'
<1>1. /\ job = "audio_dump" /\ pc = "loop" /\ Rpc(o)
      /\ UNCHANGED <<job, pos, left, ret, ready, dest, held, quit, gone>>
  BY DEF Dump, On
<1>2. job \in Queued
  BY <1>1 DEF Queued
<1>3. /\ out \in Seq(Nat) /\ ring \in Seq(Nat) /\ block \in Seq(Nat) /\ left \in Nat
      /\ Len(ring) \in Nat /\ Len(block) \in Nat /\ Chunk <= Len(block) /\ Chunk \in Nat
  BY <1>2, QueueIs
<1>4. CASE quit
  <2>1. pc' = "ended" /\ o = "done" /\ UNCHANGED <<ring, block, out>>
    BY <1>4 DEF Dump
  <2> DEFINE zero == 0
  <2>2. /\ zero \in 0..Len(ring) /\ SubSeq(ring, zero + 1, Len(ring)) = ring
        /\ out \o Prefix(ring, zero) = out
    <3>1. Prefix(ring, 0) = << >>
      BY SubSeqEmpty DEF Prefix
    <3>2. out \o << >> = out
      BY <1>3, ConcatEmptySeq
    <3>3. SubSeq(ring, 1, Len(ring)) = ring
      BY <1>3, SubSeqFull
    <3> QED
      BY <1>3, <3>1, <3>2, <3>3
  <2> HIDE DEF zero
  <2>3. Served(o)
    BY <2>1 DEF Served
  <2> QED
    BY <1>1, <1>3, <2>1, <2>2, <2>3, ReadsKeep
<1>5. CASE ~quit
  <2>1. /\ Len(ring) >= Chunk
        /\ block' = IF Served(o) THEN Prefix(ring, Chunk) ELSE block
        /\ ring' = IF Served(o) THEN SubSeq(ring, Chunk + 1, Len(ring)) ELSE ring
        /\ out' = IF o = "done" THEN out \o block' ELSE out
        /\ UNCHANGED pc
    BY <1>5 DEF Dump
  <2>2. Chunk \in 0..Len(ring)
    BY <1>3, <2>1
  <2>3. Prefix(ring, Chunk) \in Seq(Nat) /\ Len(Prefix(ring, Chunk)) = Chunk
    BY <1>3, <2>2, PrefixIs
  <2>4. block' \in Seq(Nat) /\ Chunk <= Len(block')
    BY <1>3, <2>1, <2>3
  <2>5. out' = IF o = "done" THEN out \o Prefix(ring, Chunk) ELSE out
    BY <2>1 DEF Served
  <2> QED
    BY <1>1, <1>3, <2>1, <2>2, <2>4, <2>5, ReadsKeep
<1> QED
  BY <1>4, <1>5

\* The capture takes a buffer: it goes to the program, or is lost.
LEMMA dqbufKeeps ==
  ASSUME StreamIInv, NEW o \in Outcome, dqbuf(o)
  PROVE  StreamIInv'
<1> DEFINE taken == Served(o) /\ ring # << >>
           one == 1
<1>1. /\ job \in Dspc /\ pc = "loop" /\ left # 0 /\ Rpc(o) /\ o # "refused"
      /\ ring' = IF taken THEN Tail(ring) ELSE ring
      /\ held' = IF taken /\ o = "done" THEN Head(ring) ELSE 0
      /\ gone' = gone + (IF taken /\ o = "unread" THEN 1 ELSE 0)
                      + (IF held # 0 /\ ~Released(o) THEN 1 ELSE 0)
      /\ IF held' # 0
         THEN /\ out' = Append(out, held') /\ left' = (left - 1) % Word
              /\ pc' = IF job = "dspc" THEN "qbuf" ELSE IF left' = 0 THEN "ended" ELSE "loop"
         ELSE UNCHANGED <<out, left, pc>>
      /\ UNCHANGED <<job, pos, ret, ready, block, dest, quit>>
  BY DEF dqbuf
<1>2. job \in Queued /\ job \notin {"flat_read", "audio_dump", "flat_write"}
      /\ job \notin {"resample", "play_file", "mp3", "aac", "gain"}
  BY <1>1 DEF Queued, Dspc
<1>3. /\ out \in Seq(Nat) /\ ring \in Seq(Nat)
      /\ pos \in Nat /\ left \in Nat /\ failures \in Nat /\ gone \in Nat /\ held \in Nat
      /\ Len(out) \in Nat /\ Len(ring) \in Nat
      /\ StreamTypeOK /\ BuffersKept /\ gone <= failures /\ Ordered(out, ring, pos) /\ N \in Nat
  BY <1>2, QueueIs
<1>4. failures = 0 =>
        /\ Counts(out, 0) /\ Counts(ring, Len(out)) /\ pos = Len(out) + Len(ring)
        /\ Len(out) + left = N
  BY <1>1, <1>2, QueueIs
<1>5. /\ failures' \in Nat /\ failures <= failures'
      /\ o # "done" => failures' = failures + 1
      /\ failures' = 0 => failures = 0 /\ o = "done" /\ Served(o)
  BY <1>1, <1>3, RpcIs
\* One buffer at most, and none when the call was done.
<1>6. gone' \in Nat /\ gone' <= failures'
  <2>1. job = "dspc" => held = 0
    BY <1>1, <1>3 DEF BuffersKept
  <2>2. held # 0 /\ ~Released(o) => ~Served(o)
    BY <1>1, <2>1 DEF Released, Dspc
  <2>3. CASE o = "done"
    <3>1. Served(o) /\ ~(held # 0 /\ ~Released(o))
      BY <2>2, <2>3 DEF Served
    <3>2. gone' = gone + 0 + 0
      BY <1>1, <2>3, <3>1
    <3> QED
      BY <1>3, <1>5, <3>2
  <2>4. CASE o = "unread"
    <3>1. ~(held # 0 /\ ~Released(o))
      BY <2>2, <2>4 DEF Served
    <3>2. gone' = gone + 1 + 0 \/ gone' = gone + 0 + 0
      BY <1>1, <3>1
    <3> QED
      BY <1>3, <1>5, <2>4, <3>2
  <2>5. CASE o # "done" /\ o # "unread"
    <3>1. gone' = gone + 0 + 1 \/ gone' = gone + 0 + 0
      BY <1>1, <2>5
    <3> QED
      BY <1>3, <1>5, <2>5, <3>1
  <2> QED
    BY <2>3, <2>4, <2>5
<1>7. (left - 1) % Word \in Nat
  <2>1. left - 1 \in Int
    BY <1>3
  <2>2. (left - 1) % Word \in 0..Word - 1
    BY <2>1, Sizes, ModType
  <2> QED
    BY <2>2, Sizes
\* A unit leaves the queue's front.
<1>8. taken => /\ one \in 0..Len(ring) /\ Head(ring) = ring[1] /\ Head(ring) \in Nat
               /\ Append(out, Head(ring)) = out \o Prefix(ring, one)
               /\ Tail(ring) = SubSeq(ring, one + 1, Len(ring))
  BY <1>3, HeadTailIs, HeadTailProperties
<1>9. one = 1
  OBVIOUS
<1>10. taken \in BOOLEAN /\ (o = "done" /\ ring # << >> => taken)
  BY DEF Served
<1> HIDE DEF one, taken
<1>11. taken => /\ out \o Prefix(ring, one) \in Seq(Nat)
                /\ Len(out \o Prefix(ring, one)) = Len(out) + one
                /\ SubSeq(ring, one + 1, Len(ring)) \in Seq(Nat)
                /\ Len(SubSeq(ring, one + 1, Len(ring))) = Len(ring) - one
                /\ Ordered(out \o Prefix(ring, one), SubSeq(ring, one + 1, Len(ring)), pos)
                /\ Ordered(out, SubSeq(ring, one + 1, Len(ring)), pos)
  BY <1>3, <1>8, TakeType, TakeOrdered
<1>12. CASE held' # 0
  <2>1. /\ taken /\ o = "done" /\ held' = Head(ring)
        /\ out' = out \o Prefix(ring, one) /\ ring' = SubSeq(ring, one + 1, Len(ring))
        /\ left' = (left - 1) % Word
        /\ pc' = IF job = "dspc" THEN "qbuf" ELSE IF left' = 0 THEN "ended" ELSE "loop"
    BY <1>1, <1>8, <1>12
  <2>2. BuffersKept'
    BY <1>1, <2>1 DEF BuffersKept
  <2>3. StreamTypeOK'
    <3>1. out' \in Seq(Nat) /\ ring' \in Seq(Nat) /\ left' \in Nat /\ held' \in Nat
      BY <1>7, <1>8, <1>11, <2>1
    <3>2. pc' \in {"qbuf", "ended", "loop"}
      BY <2>1
    <3> QED
      BY <1>1, <1>2, <1>3, <1>5, <1>6, <3>1, <3>2 DEF StreamTypeOK
  <2>4. Ordered(out', ring', pos')
    BY <1>1, <1>11, <2>1
  <2>5. ASSUME failures' = 0 PROVE Counts(out', 0) /\ QueueCarried'
    <3>1. /\ Counts(out, 0) /\ Counts(ring, Len(out)) /\ pos = Len(out) + Len(ring)
          /\ Len(out) + left = N
      BY <1>4, <1>5, <2>5
    <3>2. Counts(out', 0) /\ Counts(ring', Len(out'))
      <4>1. /\ Counts(out \o Prefix(ring, one), 0)
            /\ Counts(SubSeq(ring, one + 1, Len(ring)), Len(out \o Prefix(ring, one)))
        BY <1>3, <1>8, <2>1, <3>1, TakeCounts
      <4> QED
        BY <2>1, <4>1
    <3>3. left' = left - 1
      <4>1. left - 1 \in 0..Word - 1
        BY <1>1, <1>3, <3>1, Sizes
      <4> QED
        BY <2>1, <4>1, Sizes, ModSmall
    <3>4. Len(out') = Len(out) + 1 /\ Len(ring') = Len(ring) - 1
      BY <1>9, <1>11, <2>1
    <3>5. pos' = Len(out') + Len(ring') /\ Len(out') + left' = N
      <4>1. pos' = pos
        BY <1>1
      <4> QED
        BY <1>3, <3>1, <3>3, <3>4, <4>1
    <3> QED
      BY <1>1, <1>2, <3>2, <3>5 DEF QueueCarried
  <2> QED
    BY <1>1, <1>2, <1>6, <2>2, <2>3, <2>4, <2>5, QueueKeeps
<1>13. CASE held' = 0
  <2>1. UNCHANGED <<out, left, pc>>
    BY <1>1, <1>13
  <2>2. ring' = IF taken THEN SubSeq(ring, one + 1, Len(ring)) ELSE ring
    BY <1>1, <1>8
  <2>3. BuffersKept'
    BY <1>13 DEF BuffersKept
  <2>4. StreamTypeOK'
    <3>1. ring' \in Seq(Nat) /\ held' \in Nat
      BY <1>3, <1>11, <1>13, <2>2
    <3> QED
      BY <1>1, <1>2, <1>3, <1>5, <1>6, <2>1, <3>1 DEF StreamTypeOK
  <2>5. Ordered(out', ring', pos')
    BY <1>1, <1>3, <1>11, <2>1, <2>2
  <2>6. ASSUME failures' = 0 PROVE Counts(out', 0) /\ QueueCarried'
    <3>1. /\ Counts(out, 0) /\ Counts(ring, Len(out)) /\ pos = Len(out) + Len(ring)
          /\ Len(out) + left = N /\ o = "done"
      BY <1>4, <1>5, <2>6
    \* Had a buffer been taken, it would hold a unit: none was.
    <3>2. ~taken
      <4> SUFFICES ASSUME taken PROVE FALSE
        OBVIOUS
      <4>1. held' = ring[1]
        BY <1>1, <1>8, <3>1
      <4>2. 1 \in DOMAIN ring
        BY <1>3, <1>8, <1>9, LenProperties
      <4>3. ring[1] = Len(out) + 1
        BY <3>1, <4>2 DEF Counts
      <4> QED
        BY <1>3, <1>13, <4>1, <4>3
    <3> QED
      BY <1>1, <1>2, <2>1, <2>2, <3>1, <3>2 DEF QueueCarried
  <2> QED
    BY <1>1, <1>2, <1>6, <2>3, <2>4, <2>5, <2>6, QueueKeeps
<1> QED
  BY <1>12, <1>13

LEMMA qbufKeeps ==
  ASSUME StreamIInv, NEW o \in Outcome, qbuf(o)
  PROVE  StreamIInv'
<1>1. /\ job = "dspc" /\ pc = "qbuf" /\ Rpc(o) /\ o # "refused"
      /\ gone' = gone + (IF Served(o) THEN 0 ELSE 1) /\ held' = 0
      /\ pc' = IF left = 0 THEN "ended" ELSE "loop"
      /\ UNCHANGED <<job, pos, left, ret, ready, block, dest, ring, quit, out>>
  BY DEF qbuf
<1>2. job \in Queued
  BY <1>1 DEF Queued, Dspc
<1>3. /\ StreamTypeOK /\ gone \in Nat /\ failures \in Nat /\ gone <= failures
      /\ Ordered(out, ring, pos)
  BY <1>2, QueueIs
<1>4. failures = 0 =>
        /\ Counts(out, 0) /\ Counts(ring, Len(out)) /\ pos = Len(out) + Len(ring)
        /\ job \in Dspc => Len(out) + left = N
  BY <1>2, QueueIs
<1>5. /\ failures' \in Nat /\ failures <= failures'
      /\ o # "done" => failures' = failures + 1
      /\ failures' = 0 => failures = 0 /\ o = "done" /\ Served(o)
  BY <1>1, <1>3, RpcIs
<1>6. gone' \in Nat /\ gone' <= failures'
  <2>1. CASE Served(o)
    BY <1>1, <1>3, <1>5, <2>1
  <2>2. CASE ~Served(o)
    <3>1. o # "done"
      BY <2>2 DEF Served
    <3> QED
      BY <1>1, <1>3, <1>5, <2>2, <3>1
  <2> QED
    BY <2>1, <2>2
<1>7. StreamTypeOK'
  BY <1>1, <1>3, <1>5, <1>6 DEF StreamTypeOK
<1>8. BuffersKept'
  BY <1>1 DEF BuffersKept
<1>9. Ordered(out', ring', pos')
  BY <1>1, <1>3
<1>10. failures' = 0 => Counts(out', 0) /\ QueueCarried'
  BY <1>1, <1>4, <1>5 DEF QueueCarried
<1> QED
  BY <1>1, <1>2, <1>6, <1>7, <1>8, <1>9, <1>10, QueueKeeps

-----------------------------------------------------------------------------
(***************************************************************************)
(* The loops altogether.                                                   *)
(***************************************************************************)

LEMMA StreamAtKeeps ==
  ASSUME NEW j \in AllJobs, NEW place \in {"loop", "ended"}, StreamAt(j, place)
  PROVE  StreamIInv
<1> DEFINE big == IF job = "gain" THEN Block ELSE Chunk
<1>1. /\ job = j /\ pc = place /\ pos = 0 /\ ret = 0 /\ ready = TRUE
      /\ left = (IF job = "gain" THEN 0 ELSE N)
      /\ block = [i \in 1..Chunk |-> 0]
      /\ dest = [i \in 1..big |-> 0]
      /\ ring = << >> /\ held = 0 /\ quit = FALSE
      /\ out = << >> /\ gone = 0 /\ failures = 0
  BY DEF StreamAt
<1>2. big \in Nat /\ Chunk \in Nat /\ N \in Nat
  BY Sizes
<1> HIDE DEF big
<1>3. block \in [1..Chunk -> Nat] /\ dest \in [1..big -> Nat]
  BY <1>1
<1>4. block \in Seq(Nat) /\ dest \in Seq(Nat)
  BY <1>2, <1>3, SeqDef
<1>5. Len(block) = Chunk /\ Len(dest) = big
  BY <1>2, <1>3, <1>4, LenIs
<1>6. /\ out \in Seq(Nat) /\ ring \in Seq(Nat) /\ Len(out) = 0 /\ Len(ring) = 0
      /\ DOMAIN out = {} /\ DOMAIN ring = {}
  <2>1. << >> \in Seq(Nat) /\ Len(<< >>) = 0
    BY EmptySeq
  <2>2. DOMAIN << >> = {}
    OBVIOUS
  <2> QED
    BY <1>1, <2>1, <2>2
<1>7. StreamTypeOK
  <2>1. /\ left \in Nat /\ left <= N /\ (job = "gain" => left <= Block)
        /\ job = "play_file" => N - pos <= left
    BY <1>1, Sizes
  <2>2. IF job = "gain" THEN Len(dest) = Block /\ left <= Block ELSE Len(dest) = Chunk
    BY <1>5, <2>1 DEF big
  <2>3. ready \in BOOLEAN /\ quit \in BOOLEAN
    BY <1>1
  <2>4. /\ job \in AllJobs /\ pc \in {"loop", "ended", "process", "write", "qbuf"}
        /\ pos \in Nat /\ pos <= N /\ ret \in 0..Chunk /\ Chunk <= Len(block)
        /\ held \in Nat /\ gone \in Nat /\ failures \in Nat
    BY <1>1, <1>2, <1>5
  <2> QED
    BY <1>4, <1>6, <2>1, <2>2, <2>3, <2>4 DEF StreamTypeOK
<1>8. InOrder
  <2>1. Ordered(out, ring, pos) /\ Ordered(out, << >>, pos)
    BY <1>1, <1>6 DEF Ordered, Rising
  <2> QED
    BY <1>1, <2>1 DEF InOrder
<1>9. BuffersKept /\ OneBufferPerFailure
  BY <1>1 DEF BuffersKept, OneBufferPerFailure
<1>10. Counts(out, 0) /\ Counts(ring, Len(out))
  BY <1>6 DEF Counts
<1>11. DirectCarried
  BY <1>1, <1>2, <1>6 DEF DirectCarried, Direct
<1>12. GainCarried
  BY <1>1, <1>2, <1>6 DEF GainCarried
<1>13. QueueCarried
  BY <1>1, <1>2, <1>6, <1>10 DEF QueueCarried, Queued, Dspc
<1>14. BlockCarried
  <2>1. UpTo(block, pos)
    BY <1>1, <1>3 DEF UpTo
  <2>2. Shows(out, pos) /\ InTurn(out)
    BY <1>1, <1>6 DEF Shows, InTurn
  <2> QED
    BY <2>1, <2>2 DEF BlockCarried
<1> QED
  BY <1>7, <1>8, <1>9, <1>10, <1>11, <1>12, <1>13, <1>14 DEF StreamIInv, Carried

LEMMA StreamStarts ==
  StreamInit \/ StreamIdle => StreamIInv
<1>1. ASSUME StreamInit PROVE StreamIInv
  <2>1. PICK j \in Jobs : StreamAt(j, "loop")
    BY <1>1 DEF StreamInit
  <2>2. j \in AllJobs
    BY DspStreamsAssumption DEF DspStreamsAssumption
  <2> QED
    BY <2>1, <2>2, StreamAtKeeps
<1>2. ASSUME StreamIdle PROVE StreamIInv
  <2>1. StreamAt("gain", "ended") /\ "gain" \in AllJobs
    BY <1>2 DEF StreamIdle, AllJobs
  <2> QED
    BY <2>1, StreamAtKeeps
<1> QED
  BY <1>1, <1>2

LEMMA StreamStep ==
  ASSUME StreamIInv, StreamNext
  PROVE  StreamIInv'
<1>1. CASE GainRead
  BY <1>1, GainReadKeeps
<1>2. CASE GainWrite
  BY <1>2, GainWriteKeeps
<1>3. CASE Quit
  BY <1>3, QuitKeeps
<1>4. CASE Dsp
  <2>1. CASE DspTakes
    BY <2>1, DspTakesKeeps
  <2>2. CASE DspGives
    <3>1. /\ job \in {"flat_read", "audio_dump"} \cup Dspc
          /\ job \notin Dspc => pos < N
          /\ ring' = Append(ring, pos + 1) /\ pos' = pos + 1
          /\ UNCHANGED <<job, pc, left, ret, ready, block, dest, held, quit, out, gone, failures>>
      BY <2>2 DEF DspGives
    <3> QED
      BY <3>1, GivesKeeps
  <2>3. CASE DspFills
    <3>1. /\ job \in {"flat_read", "audio_dump"} \cup Dspc
          /\ job \notin Dspc => pos < N
          /\ ring' = Append(ring, pos + 1) /\ pos' = pos + 1
          /\ UNCHANGED <<job, pc, left, ret, ready, block, dest, held, quit, out, gone, failures>>
      BY <2>3 DEF DspFills
    <3> QED
      BY <3>1, GivesKeeps
  <2> QED
    BY <1>4, <2>1, <2>2, <2>3 DEF Dsp
<1>5. ASSUME NEW o \in Outcome, Program(o) PROVE StreamIInv'
  <2>1. ASSUME NEW k \in 1..Chunk, PcmRead(o, k) PROVE StreamIInv'
    BY <2>1, PcmReadKeeps
  <2>2. ASSUME NEW k \in 1..Chunk, PlayFrames(o, k) PROVE StreamIInv'
    BY <2>2, PlayFramesKeeps
  <2>3. ASSUME NEW k \in 1..Chunk, Capture(o, k) PROVE StreamIInv'
    BY <2>3, CaptureKeeps
  <2>4. ASSUME NEW k \in 1..Chunk, PlayFile(o, k) PROVE StreamIInv'
    BY <2>4, PlayFileKeeps
  <2>5. ASSUME NEW k \in 1..Chunk,
               PcmRead(o, k) \/ PlayFile(o, k) \/ PlayFrames(o, k) \/ Capture(o, k)
        PROVE  StreamIInv'
    BY <2>1, <2>2, <2>3, <2>4, <2>5
  <2>6. CASE GainProcess(o)
    BY <2>6, GainProcessKeeps
  <2>7. CASE Resample(o)
    BY <2>7, ResampleKeeps
  <2>8. CASE DecodeMp3(o)
    BY <2>8, DecodeMp3Keeps
  <2>9. CASE DecodeAac(o)
    BY <2>9, DecodeAacKeeps
  <2>10. CASE FlatWrite(o, 0)
    BY <2>10, FlatWriteKeeps
  <2>11. CASE FlatRead(o, 0)
    BY <2>11, FlatReadKeeps
  <2>12. CASE Dump(o)
    BY <2>12, DumpKeeps
  <2>13. CASE dqbuf(o)
    BY <2>13, dqbufKeeps
  <2>14. CASE qbuf(o)
    BY <2>14, qbufKeeps
  <2> QED
    BY <1>5, <2>5, <2>6, <2>7, <2>8, <2>9, <2>10, <2>11, <2>12, <2>13, <2>14
    DEF Program
<1>6. ASSUME NEW o \in Outcome, Moves(o) PROVE StreamIInv'
  <2>1. PICK size \in 1..(Capacity - 1) : FlatWrite(o, size) \/ FlatRead(o, size)
    BY <1>6 DEF Moves
  <2>2. size \in Nat
    BY Sizes
  <2> QED
    BY <2>1, <2>2, FlatWriteKeeps, FlatReadKeeps
<1> QED
  BY <1>1, <1>2, <1>3, <1>4, <1>5, <1>6 DEF StreamNext

\* The other parts of the composition leave the loops alone.
THEOREM StreamInvariant == Spec => []StreamIInv
<1>1. Init => StreamIInv
  BY StreamStarts DEF Init
<1>2. StreamIInv /\ [Next]_vars => StreamIInv'
  <2> SUFFICES ASSUME StreamIInv, [Next]_vars PROVE StreamIInv'
    OBVIOUS
  <2>1. CASE StreamNext
    BY <2>1, StreamStep
  <2>2. CASE UNCHANGED streamVars
    <3>1. UNCHANGED <<job, pc, pos, left, ret, ready, block, dest, ring, held, quit, out,
                      gone, failures>>
      BY <2>2 DEF streamVars
    <3> QED
      BY <3>1 DEF StreamIInv, StreamTypeOK, OneBufferPerFailure, BuffersKept, InOrder, Carried,
                  DirectCarried, GainCarried, QueueCarried, BlockCarried, WholeBlocks, AllTaken
  <2>3. StreamNext \/ UNCHANGED streamVars
    BY DEF Next, vars
  <2> QED
    BY <2>1, <2>2, <2>3
<1> QED
  BY <1>1, <1>2, PTL DEF Spec

\* A failed call costs the capture at most one of the DSP's buffers.
THEOREM CaptureKeepsItsBuffers == Spec => []OneBufferPerFailure
<1>1. StreamIInv => OneBufferPerFailure
  BY DEF StreamIInv
<1> QED
  BY <1>1, StreamInvariant, PTL

\* The careful clients may lose units, and never repeat or reorder one; nor does
\* a file played, up to its short end, whatever the DSP takes of its blocks.
THEOREM CarefulLoopsRepeatNothing == Spec => []NothingTwice
<1>1. StreamIInv => NothingTwice
  BY DEF StreamIInv, InOrder, Ordered, NothingTwice
<1> QED
  BY <1>1, StreamInvariant, PTL

\* Until a call fails, every loop brings out the stream as it is, however it
\* is cut into pieces; a file played, while the DSP takes all that was read.
THEOREM LoopsCarryTheStream == Spec => []CarriesTheStream
<1>1. StreamIInv => CarriesTheStream
  <2> SUFFICES ASSUME StreamIInv, failures = 0
               PROVE  IF job \in Exact THEN out = Units(0, Len(out)) /\ Len(out) <= N
                      ELSE AllTaken => InTurn(out)
    BY DEF CarriesTheStream
  <2>1. /\ StreamTypeOK /\ (job \in Exact => Counts(out, 0))
        /\ DirectCarried /\ GainCarried /\ QueueCarried /\ BlockCarried
    BY DEF StreamIInv, Carried
  <2>2. /\ out \in Seq(Nat) /\ Len(out) \in Nat /\ Len(ring) \in Nat /\ pos \in Nat
        /\ left \in Nat /\ N \in Nat /\ DOMAIN out = 1..Len(out)
    BY <2>1, LenProperties, Sizes DEF StreamTypeOK
  <2>3. CASE job \in Exact
    <3>1. out = Units(0, Len(out))
      <4> DEFINE z == 0
      <4>1. z \in Nat /\ \A i \in 1..Len(out) : out[i] = z + i
        BY <2>1, <2>2, <2>3 DEF Counts
      <4> HIDE DEF z
      <4>2. /\ Units(z, Len(out)) \in Seq(Nat) /\ Len(Units(z, Len(out))) = Len(out)
            /\ \A i \in 1..Len(out) : Units(z, Len(out))[i] = z + i
        BY <2>2, <4>1, UnitsIs
      <4>3. out = Units(z, Len(out))
        BY <2>2, <4>1, <4>2, SeqEqual
      <4> QED
        BY <4>3 DEF z
    <3>2. CASE job \in Direct
      BY <2>1, <2>3, <3>1, <3>2 DEF DirectCarried
    <3>3. CASE job = "gain"
      BY <2>1, <2>3, <3>1, <3>3 DEF GainCarried
    <3>4. CASE job \in Queued
      <4>1. \/ pos = Len(out) + Len(ring) /\ pos <= N
            \/ pos = Len(out) + Len(ring) /\ pos + left = N
            \/ Len(out) + left = N
        BY <2>1, <3>4 DEF QueueCarried, Queued, Dspc
      <4>2. Len(out) <= N
        BY <2>2, <4>1
      <4> QED
        BY <2>3, <3>1, <4>2
    <3>5. job \in Direct \/ job = "gain" \/ job \in Queued
      BY <2>3 DEF Exact, Direct, Queued, Dspc
    <3> QED
      BY <3>2, <3>3, <3>4, <3>5
  <2>4. CASE job \notin Exact
    <3>1. job \in {"play_file", "capture"}
      BY <2>1, <2>4 DEF StreamTypeOK, AllJobs, Exact, Dspc
    <3> QED
      BY <2>1, <2>4, <3>1 DEF BlockCarried
  <2> QED
    BY <2>3, <2>4
<1> QED
  BY <1>1, StreamInvariant, PTL

-----------------------------------------------------------------------------
(***************************************************************************)
(* The MP3 reader.                                                         *)
(***************************************************************************)

\* The offsets of a file are well ordered.
LEMMA LeastExists ==
  ASSUME NEW S, S \subseteq Nat, S # {}
  PROVE  \E m \in S : \A x \in S : m <= x
<1>1. IsWellFoundedOn(OpToRel(<, Nat), Nat)
  BY NatLessThanWellFounded
<1>2. PICK m \in S : \A y \in S : ~ (<<y, m>> \in OpToRel(<, Nat))
  BY <1>1, WFMin
<1>3. \A y \in S : y \in Nat /\ m \in Nat
  OBVIOUS
<1>4. \A y \in S : ~ (y < m)
  BY <1>2, <1>3 DEF OpToRel
<1> QED
  BY <1>3, <1>4

LEMMA MinIs ==
  ASSUME NEW S, NEW m \in S, S \subseteq Nat, \A x \in S : m <= x
  PROVE  Min(S) = m
<1>1. Min(S) \in S /\ \A x \in S : Min(S) <= x
  BY DEF Min
<1>2. Min(S) \in Nat /\ m \in Nat
  BY <1>1
<1> QED
  BY <1>1, <1>2

LEMMA MaxIs ==
  ASSUME NEW S, NEW m \in S, S \subseteq Nat, \A x \in S : x <= m
  PROVE  Max(S) = m
<1>1. Max(S) \in S /\ \A x \in S : x <= Max(S)
  BY DEF Max
<1>2. Max(S) \in Nat /\ m \in Nat
  BY <1>1
<1> QED
  BY <1>1, <1>2

LEMMA SmallerIs ==
  ASSUME NEW a \in Int, NEW b \in Int
  PROVE  Min({a, b}) = IF a <= b THEN a ELSE b
<1>1. \E x \in {a, b} : \A y \in {a, b} : x <= y
  OBVIOUS
<1>2. Min({a, b}) \in {a, b} /\ \A y \in {a, b} : Min({a, b}) <= y
  BY <1>1 DEF Min
<1> QED
  BY <1>2

LEMMA QuotientAtLeast ==
  ASSUME NEW a \in Nat, NEW r \in Nat \ {0}, a >= 2 * r
  PROVE  a \div r \in Nat /\ a \div r >= 2
OBVIOUS

\* A bit rate is at least 8 kbit/s.
LEMMA BitratesAre ==
  ASSUME NEW v, NEW l, NEW i \in 1..14
  PROVE  Bitrates(v, l)[i] \in Nat /\ Bitrates(v, l)[i] >= 8
<1> DEFINE T1 == <<32, 64, 96, 128, 160, 192, 224, 256, 288, 320, 352, 384, 416, 448>>
           T2 == <<32, 48, 56, 64, 80, 96, 112, 128, 144, 160, 176, 192, 224, 256>>
           T3 == <<32, 48, 56, 64, 80, 96, 112, 128, 160, 192, 224, 256, 320, 384>>
           T4 == <<32, 40, 48, 56, 64, 80, 96, 112, 128, 160, 192, 224, 256, 320>>
           T5 == <<8, 16, 24, 32, 40, 48, 56, 64, 80, 96, 112, 128, 144, 160>>
<1>1. i = 1 \/ i = 2 \/ i = 3 \/ i = 4 \/ i = 5 \/ i = 6 \/ i = 7 \/ i = 8
      \/ i = 9 \/ i = 10 \/ i = 11 \/ i = 12 \/ i = 13 \/ i = 14
  OBVIOUS
<1>2. T1[i] \in Nat /\ T1[i] >= 8
  BY <1>1
<1>3. T2[i] \in Nat /\ T2[i] >= 8
  BY <1>1
<1>4. T3[i] \in Nat /\ T3[i] >= 8
  BY <1>1
<1>5. T4[i] \in Nat /\ T4[i] >= 8
  BY <1>1
<1>6. T5[i] \in Nat /\ T5[i] >= 8
  BY <1>1
<1>7. Bitrates(v, l) = CASE l = 3 /\ v = 3 -> T1
                         [] l = 3 -> T2
                         [] l = 2 /\ v = 3 -> T3
                         [] l = 1 /\ v = 3 -> T4
                         [] OTHER -> T5
  BY DEF Bitrates
<1> HIDE DEF T1, T2, T3, T4, T5
<1> QED
  BY <1>2, <1>3, <1>4, <1>5, <1>6, <1>7

\* What a header that parses says the frame's length is.
LEMMA FrameSizeIs ==
  ASSUME NEW h \in Headers, parseHeader(h)
  PROVE  frame_size(h) \in Nat /\ frame_size(h) >= 2
<1> DEFINE bitrate == Bitrates(h.version, h.layer)[h.bitrate_index]
           r == kSamplingRateV1[h.sampling_rate_index + 1]
           d == CASE h.version = 2 -> 2 [] h.version = 0 -> 4 [] OTHER -> 1
           rate == r \div d
<1>1. h.bitrate_index \in 1..14 /\ h.sampling_rate_index \in 0..2
      /\ h.padding \in 0..1
  BY DEF Headers, parseHeader
<1>2. bitrate \in Nat /\ bitrate >= 8
  BY <1>1, BitratesAre
<1>3. r \in {44100, 48000, 32000}
  <2>1. h.sampling_rate_index + 1 = 1 \/ h.sampling_rate_index + 1 = 2
        \/ h.sampling_rate_index + 1 = 3
    BY <1>1
  <2> QED
    BY <2>1 DEF kSamplingRateV1
<1>4. d \in {1, 2, 4}
  OBVIOUS
<1> HIDE DEF bitrate, r, d
<1>5. rate \in Nat \ {0} /\ rate <= 48000
  BY <1>3, <1>4
<1> HIDE DEF rate
<1>6. 12000 * bitrate \in Nat /\ 72000 * bitrate \in Nat /\ 144000 * bitrate \in Nat
      /\ 12000 * bitrate >= 2 * rate /\ 72000 * bitrate >= 2 * rate
      /\ 144000 * bitrate >= 2 * rate
  BY <1>2, <1>5
<1> DEFINE a == (12000 * bitrate) \div rate
           b == (72000 * bitrate) \div rate
           c == (144000 * bitrate) \div rate
<1>7. a \in Nat /\ a >= 2
  BY <1>5, <1>6, QuotientAtLeast
<1>8. b \in Nat /\ b >= 2
  BY <1>5, <1>6, QuotientAtLeast
<1>9. c \in Nat /\ c >= 2
  BY <1>5, <1>6, QuotientAtLeast
<1>10. frame_size(h) = CASE h.layer = 3 -> (a + h.padding) * 4
                         [] h.layer = 1 /\ h.version # 3 -> b + h.padding
                         [] OTHER -> c + h.padding
  BY DEF frame_size, rate, bitrate, r, d
<1> HIDE DEF a, b, c
<1> QED
  BY <1>1, <1>7, <1>8, <1>9, <1>10

\* A kind is a triple.
LEMMA KindIs ==
  ASSUME NEW h \in Headers
  PROVE  Kind(h) \in (0..3) \X (0..3) \X (0..3) /\ Kind(h) # << >>
BY DEF Headers, Kind

\* A frame is two bytes long or more.
LEMMA AfterIs ==
  ASSUME NEW f, IsFile(f), NEW p \in DOMAIN f.headers, parseHeader(f.headers[p])
  PROVE  After(f, p) \in Nat /\ p \in Nat /\ After(f, p) >= p + 2
<1>1. p \in Nat /\ f.headers[p] \in Headers
  BY DEF IsFile
<1>2. frame_size(f.headers[p]) \in Nat /\ frame_size(f.headers[p]) >= 2
  BY <1>1, FrameSizeIs
<1> QED
  BY <1>1, <1>2 DEF After

\* The frames behind the first need as much room.
LEMMA BeginsIs ==
  ASSUME NEW f, IsFile(f), NEW p, NEW kind, Begins(f, p, kind)
  PROVE  /\ p \in Nat /\ p + 10 <= f.size /\ After(f, p) + 4 <= f.size
         /\ p \in DOMAIN f.headers /\ parseHeader(f.headers[p])
         /\ kind # << >> => IsFrame(f, p, kind)
<1> DEFINE k == Kind(f.headers[p])
           p1 == After(f, p)
           p2 == After(f, p1)
           p3 == After(f, p2)
<1>1. HeaderAt(f, p) /\ parseHeader(f.headers[p]) /\ (kind # << >> => k = kind)
      /\ IsFrame(f, p1, k) /\ IsFrame(f, p2, k) /\ IsFrame(f, p3, k)
  BY DEF Begins, Follows
<1>2. p \in DOMAIN f.headers /\ p1 \in DOMAIN f.headers /\ p2 \in DOMAIN f.headers
      /\ parseHeader(f.headers[p1]) /\ parseHeader(f.headers[p2])
      /\ p1 + 4 <= f.size /\ p3 + 4 <= f.size
  BY <1>1 DEF IsFrame, HeaderAt
<1>3. p1 \in Nat /\ p \in Nat /\ p1 >= p + 2
  BY <1>1, <1>2, AfterIs
<1>4. p2 \in Nat /\ p2 >= p1 + 2
  BY <1>2, AfterIs
<1>5. p3 \in Nat /\ p3 >= p2 + 2
  BY <1>2, AfterIs
<1>6. f.size \in Nat
  BY DEF IsFile
<1>7. p + 10 <= f.size
  <2> HIDE DEF p1, p2, p3
  <2> QED
    BY <1>2, <1>3, <1>4, <1>5, <1>6
<1> QED
  BY <1>1, <1>2, <1>3, <1>7 DEF IsFrame

\* What a search finds is the first; what it does not find is not near.
LEMMA StreamIs ==
  ASSUME NEW f, IsFile(f), NEW p \in Nat, NEW q \in Nat, NEW kind,
         q >= p, q < p + kMaxBytesChecked, Begins(f, q, kind),
         \A r \in p..(q - 1) : ~Begins(f, r, kind)
  PROVE  Stream(f, p, kind) = q
<1> DEFINE InReach == {r \in DOMAIN f.headers :
                      r >= p /\ r < p + kMaxBytesChecked /\ Begins(f, r, kind)}
<1>1. InReach \subseteq Nat /\ q \in InReach
  BY DEF IsFile, Begins, HeaderAt
<1>2. \A r \in InReach : q <= r
  <2> SUFFICES ASSUME NEW r \in InReach, r < q
               PROVE  FALSE
    BY <1>1
  <2> QED
    BY <1>1
<1>3. Stream(f, p, kind) = Min(InReach)
  BY <1>1 DEF Stream
<1>4. Min(InReach) = q
  <2> HIDE DEF InReach
  <2> QED
    BY <1>1, <1>2, MinIs
<1> QED
  BY <1>3, <1>4

LEMMA NoStream ==
  ASSUME NEW f, IsFile(f), NEW p, NEW kind,
         \A r \in Nat : r >= p /\ r < p + kMaxBytesChecked => ~Begins(f, r, kind)
  PROVE  Stream(f, p, kind) = -1
BY DEF Stream, IsFile

\* The one end of a tag (or the beginning) where no other tag is: the last.
LEMMA UntaggedIs ==
  ASSUME NEW f, IsFile(f), NEW p \in TagEnds(f), p \notin DOMAIN f.tags
  PROVE  Untagged(f) = p
<1> DEFINE T == DOMAIN f.tags
           Late == {q \in T : TagEnd(f, q) > p}
<1>1. \A q \in T : /\ q \in Nat /\ TagEnd(f, q) \in Nat /\ q < TagEnd(f, q)
                   /\ q = 0 \/ \E r \in T : TagEnd(f, r) = q
                   /\ \A r \in T : q < r => TagEnd(f, q) <= r
  BY DEF IsFile, TagEnd
<1>2. TagEnds(f) \subseteq Nat /\ p \in Nat /\ (p = 0 \/ \E r \in T : TagEnd(f, r) = p)
  BY <1>1 DEF TagEnds
<1>3. Late = {}
  <2> SUFFICES ASSUME Late # {}
               PROVE  FALSE
    OBVIOUS
  <2>1. Late \subseteq Nat
    BY <1>1
  <2>2. PICK q \in Late : \A x \in Late : q <= x
    <3> HIDE DEF Late
    <3> QED
      BY <2>1, LeastExists
  <2>3. q \in Nat /\ q \in T /\ TagEnd(f, q) > p /\ q # p
    BY <2>1, <2>2
  <2>4. CASE q > p
    <3>1. PICK r \in T : TagEnd(f, r) = q
      BY <1>1, <1>2, <2>3, <2>4
    <3>2. r \in Late /\ r < q /\ r \in Nat
      BY <1>1, <2>4, <3>1
    <3> QED
      BY <2>2, <2>3, <3>2
  <2>5. CASE q < p
    <3>1. PICK r \in T : TagEnd(f, r) = p
      BY <1>2, <2>3, <2>5
    <3>2. r \in Nat /\ r < p
      BY <1>1, <3>1
    <3>3. r = q \/ r < q \/ q < r
      BY <2>3, <3>2
    <3>4. CASE r < q
      <4>1. p <= q
        BY <1>1, <2>3, <3>1, <3>4
      <4> QED
        BY <1>2, <2>3, <2>5, <4>1
    <3>5. CASE q < r
      <4>1. TagEnd(f, q) <= r /\ TagEnd(f, q) \in Nat
        BY <1>1, <2>3, <3>5
      <4> QED
        BY <1>2, <2>3, <3>2, <4>1
    <3> QED
      BY <1>2, <2>3, <3>1, <3>3, <3>4, <3>5
  <2> QED
    BY <1>2, <2>3, <2>4, <2>5
<1>4. \A e \in TagEnds(f) : e <= p
  BY <1>1, <1>2, <1>3 DEF TagEnds
<1> QED
  BY <1>2, <1>4, MaxIs DEF Untagged

\* Why a reader that has stopped was right to.
Mp3Done ==
  IF mp3.frames = << >> THEN Stream(mp3.file, Untagged(mp3.file), << >>) = -1
  ELSE FrameFrom(Behind) = -1 \/ After(mp3.file, FrameFrom(Behind)) > mp3.file.size

\* The frames yielded stand when no frame is added.
LEMMA FramesStand ==
  ASSUME Mp3Whole, mp3'.file = mp3.file, mp3'.frames = mp3.frames,
         mp3'.kind = mp3.kind \/ (mp3.frames = << >> /\ mp3'.kind # << >>),
         mp3'.phase = "ended" => Mp3Done /\ mp3'.kind = mp3.kind
  PROVE  YieldsTheFrames' /\ FramesParse'
<1> DEFINE fs == mp3.frames
           f == mp3.file
<1>1. fs \in Seq(Nat) /\ Len(fs) \in Nat
  BY DEF Mp3Whole, Mp3TypeOK
<1>2. FramesParse'
  BY DEF Mp3Whole, FramesParse
<1>3. CASE fs = << >>
  <2>1. DOMAIN fs = {} /\ 2..Len(fs) = {}
    BY <1>3
  <2>2. mp3'.phase = "ended" => Stream(f, Untagged(f), << >>) = -1
    BY <1>3 DEF Mp3Done
  <2> QED
    BY <1>2, <1>3, <2>1, <2>2 DEF YieldsTheFrames
<1>4. CASE fs # << >>
  <2>1. mp3'.kind = mp3.kind
    BY <1>4
  <2>2. \A p : FrameFrom(p)' = FrameFrom(p)
    BY <2>1 DEF FrameFrom
  <2>3. Behind' = Behind
    BY DEF Behind
  <2>4. /\ \A i \in DOMAIN fs : After(f, fs[i]) <= f.size
        /\ fs[1] = Stream(f, Untagged(f), << >>)
        /\ \A i \in 2..Len(fs) : fs[i] = FrameFrom(After(f, fs[i - 1]))
    BY <1>4 DEF Mp3Whole, YieldsTheFrames
  <2>5. \A i \in 2..Len(fs) :
          fs[i] = (IF IsFrame(f, After(f, fs[i - 1]), mp3'.kind) THEN After(f, fs[i - 1])
                   ELSE Stream(f, After(f, fs[i - 1]), mp3'.kind))
    BY <2>1, <2>4 DEF FrameFrom
  <2>6. mp3'.phase = "ended" => FrameFrom(Behind)' = -1 \/ After(f, FrameFrom(Behind)') > f.size
    BY <1>4, <2>1, <2>3 DEF Mp3Done, FrameFrom
  <2> QED
    BY <1>2, <1>4, <2>1, <2>4, <2>5, <2>6 DEF YieldsTheFrames, FrameFrom
<1> QED
  BY <1>3, <1>4

LEMMA TagsKeeps ==
  ASSUME Mp3Whole, Tags
  PROVE  Mp3Whole'
<1> DEFINE f == mp3.file
           p == mp3.pos
<1> USE Mp3ReaderAssumption
<1>1. f \in Files /\ IsFile(f) /\ p \in Nat /\ mp3.window = << >> /\ ~mp3.reachEOS
      /\ mp3.frames = << >> /\ mp3.kind = << >> /\ p \in TagEnds(f) /\ mp3.phase = "tags"
  <2>1. mp3.window \in Seq(Nat) /\ Len(mp3.window) = 0 /\ mp3.phase = "tags" /\ ~mp3.reachEOS
    BY DEF Mp3Whole, Mp3TypeOK, Window, Tags
  <2>2. mp3.window = << >>
    BY <2>1
  <2> QED
    BY <2>1, <2>2 DEF Mp3Whole, Mp3TypeOK, OverTags
<1>2. f.size \in Nat /\ \A q \in DOMAIN f.tags : q + 10 <= f.size /\ TagEnd(f, q) \in Nat
  BY <1>1 DEF IsFile, TagEnd
<1>3. CASE p + 10 > f.size
  <2>1. mp3' = [mp3 EXCEPT !.phase = "ended"]
    BY <1>3 DEF Tags
  <2>2. Mp3TypeOK' /\ mp3'.file = f /\ mp3'.phase = "ended" /\ mp3'.kind = mp3.kind
        /\ mp3'.frames = mp3.frames /\ mp3'.window = mp3.window
    BY <2>1 DEF Mp3Whole, Mp3TypeOK
  <2>3. Untagged(f) = p
    BY <1>1, <1>2, <1>3, UntaggedIs
  <2>4. \A r \in Nat : r >= p => ~Begins(f, r, << >>)
    <3> SUFFICES ASSUME NEW r \in Nat, r >= p, Begins(f, r, << >>)
                 PROVE  FALSE
      OBVIOUS
    <3>1. r + 10 <= f.size
      BY <1>1, BeginsIs
    <3> QED
      BY <1>1, <1>2, <1>3, <3>1
  <2>5. Mp3Done
    BY <1>1, <2>3, <2>4, NoStream DEF Mp3Done
  <2>6. YieldsTheFrames' /\ FramesParse'
    BY <2>2, <2>5, FramesStand
  <2> QED
    BY <1>1, <2>2, <2>6 DEF Mp3Whole, OverTags, Window, Searching, Found
<1>4. CASE p + 10 <= f.size /\ p \in DOMAIN f.tags
  <2>1. mp3' = [mp3 EXCEPT !.pos = TagEnd(f, p)]
    BY <1>1, <1>2, <1>4 DEF Tags
  <2>2. Mp3TypeOK' /\ mp3'.file = f /\ mp3'.phase = "tags" /\ mp3'.kind = mp3.kind
        /\ mp3'.frames = mp3.frames /\ mp3'.window = mp3.window
        /\ mp3'.reachEOS = mp3.reachEOS /\ mp3'.pos = TagEnd(f, p)
    BY <1>1, <1>2, <1>4, <2>1 DEF Mp3Whole, Mp3TypeOK
  <2>3. YieldsTheFrames' /\ FramesParse'
    BY <2>2, FramesStand
  <2>4. OverTags'
    BY <1>1, <1>4, <2>2 DEF OverTags, TagEnds
  <2> QED
    BY <1>1, <2>2, <2>3, <2>4 DEF Mp3Whole, Window, Searching, Found
<1>5. CASE p + 10 <= f.size /\ p \notin DOMAIN f.tags
  <2>1. mp3' = [mp3 EXCEPT !.phase = "scan", !.start = p]
    BY <1>1, <1>2, <1>5 DEF Tags
  <2>2. Mp3TypeOK' /\ mp3'.file = f /\ mp3'.phase = "scan" /\ mp3'.kind = mp3.kind
        /\ mp3'.frames = mp3.frames /\ mp3'.window = mp3.window
        /\ mp3'.reachEOS = mp3.reachEOS /\ mp3'.pos = p /\ mp3'.start = p
    BY <1>1, <2>1 DEF Mp3Whole, Mp3TypeOK
  <2>3. YieldsTheFrames' /\ FramesParse'
    BY <2>2, FramesStand
  <2>4. Searching'
    <3>1. p..(p - 1) = {}
      BY <1>1
    <3>2. Untagged(f) = p
      BY <1>1, <1>5, UntaggedIs
    <3> QED
      BY <1>1, <2>2, <3>1, <3>2 DEF Searching
  <2>5. Window'
    BY <1>1, <1>2, <1>5, <2>2 DEF Window
  <2> QED
    BY <2>2, <2>3, <2>4, <2>5 DEF Mp3Whole, OverTags, Found
<1> QED
  BY <1>1, <1>2, <1>3, <1>4, <1>5

\* Where the search goes on, it knows where it is.
LEMMA ScanIs ==
  ASSUME Mp3ReaderAssumption, Mp3Whole, mp3.phase = "scan"
  PROVE  /\ IsFile(mp3.file) /\ mp3.file.size \in Nat
         /\ mp3.pos \in Nat /\ mp3.start \in Nat /\ mp3.pos >= mp3.start
         /\ mp3.window \in Seq(Nat) /\ Len(mp3.window) \in Nat
         /\ Len(mp3.window) <= kMaxReadBytes
         /\ mp3.pos + Len(mp3.window) <= mp3.file.size
         /\ mp3.frames # << >> => mp3.kind # << >>
BY DEF Mp3ReaderAssumption, Mp3Whole, Mp3TypeOK, Window, Searching, FramesParse, IsFile

\* A search that ends has found that no stream is near.
LEMMA ScanEnds ==
  ASSUME Mp3ReaderAssumption, Mp3Whole, mp3.phase = "scan",
         mp3' = [mp3 EXCEPT !.phase = "ended"],
         mp3.pos >= mp3.start + kMaxBytesChecked \/ mp3.pos + 4 > mp3.file.size
  PROVE  Mp3Whole'
<1> DEFINE f == mp3.file
           p == mp3.pos
           first == mp3.start
<1> USE ScanIs
<1>1. Mp3TypeOK' /\ mp3'.file = f /\ mp3'.phase = "ended" /\ mp3'.kind = mp3.kind
      /\ mp3'.frames = mp3.frames /\ mp3'.window = mp3.window /\ mp3'.pos = p
  BY DEF Mp3Whole, Mp3TypeOK
<1>2. \A r \in Nat : r >= first /\ r < first + kMaxBytesChecked => ~Begins(f, r, mp3.kind)
  <2> SUFFICES ASSUME NEW r \in Nat, r >= first, r < first + kMaxBytesChecked,
                      Begins(f, r, mp3.kind)
               PROVE  FALSE
    OBVIOUS
  <2>1. r >= p
    <3>1. ~(r \in first..(p - 1))
      BY DEF Mp3Whole, Searching
    <3> QED
      BY <3>1
  <2>2. r + 10 <= f.size
    BY BeginsIs
  <2> QED
    BY <2>1, <2>2 DEF Mp3ReaderAssumption
<1>3. Stream(f, first, mp3.kind) = -1
  BY <1>2, NoStream
<1>4. Mp3Done
  <2>1. CASE mp3.frames = << >>
    <3>1. mp3.kind = << >> /\ first = Untagged(f)
      BY <2>1 DEF Mp3Whole, Searching
    <3> QED
      BY <1>3, <2>1, <3>1 DEF Mp3Done
  <2>2. CASE mp3.frames # << >>
    <3>1. first = Behind /\ ~IsFrame(f, Behind, mp3.kind)
      BY <2>2 DEF Mp3Whole, Searching
    <3> QED
      BY <1>3, <2>2, <3>1 DEF Mp3Done, FrameFrom
  <2> QED
    BY <2>1, <2>2
<1>5. YieldsTheFrames' /\ FramesParse'
  BY <1>1, <1>4, FramesStand
<1>6. Window'
  BY <1>1 DEF Mp3Whole, Window
<1> QED
  BY <1>1, <1>5, <1>6 DEF Mp3Whole, OverTags, Searching, Found

\* A refill continues the window.
LEMMA RefillIs ==
  ASSUME Mp3ReaderAssumption, Mp3Whole, mp3.phase = "scan"
  PROVE  \E n \in Nat :
           /\ Refill \in Seq(Nat) /\ Len(Refill) = n /\ (Refill = << >> <=> n = 0)
           /\ \A i \in 1..n : Refill[i] = mp3.pos + Len(mp3.window) + i - 1
           /\ n <= kMaxReadBytes - Len(mp3.window)
           /\ n <= mp3.file.size - (mp3.pos + Len(mp3.window))
           /\ n = kMaxReadBytes - Len(mp3.window)
              \/ n = mp3.file.size - (mp3.pos + Len(mp3.window))
<1> DEFINE from == mp3.pos + Len(mp3.window)
           a == kMaxReadBytes - Len(mp3.window)
           b == mp3.file.size - from
           n == Min({a, b})
<1>1. a \in Nat /\ b \in Nat /\ from \in Nat
  BY ScanIs DEF Mp3ReaderAssumption
<1>2. n = IF a <= b THEN a ELSE b
  BY <1>1, SmallerIs
<1>3. n \in Nat /\ n <= a /\ n <= b /\ (n = a \/ n = b)
  BY <1>1, <1>2
<1>4. Refill = [i \in 1..n |-> from + i - 1]
  BY DEF Refill
<1> HIDE DEF n, from, a, b
<1>5. Refill \in Seq(Nat) /\ Len(Refill) = n /\ \A i \in 1..n : Refill[i] = from + i - 1
  BY <1>1, <1>3, <1>4
<1>6. Refill = << >> <=> n = 0
  BY <1>3, <1>5
<1> QED
  BY <1>3, <1>5, <1>6 DEF from, a, b

LEMMA JoinAt ==
  ASSUME NEW s \in Seq(Nat), NEW t \in Seq(Nat)
  PROVE  /\ s \o t \in Seq(Nat) /\ Len(s \o t) = Len(s) + Len(t)
         /\ \A i \in 1..(Len(s) + Len(t)) :
              (s \o t)[i] = IF i <= Len(s) THEN s[i] ELSE t[i - Len(s)]
  OBVIOUS

LEMMA ScanRefills ==
  ASSUME Mp3ReaderAssumption, Mp3Whole, mp3.phase = "scan", Len(mp3.window) < 4,
         ~mp3.reachEOS, Refill # << >>,
         mp3' = [mp3 EXCEPT !.window = mp3.window \o Refill,
                            !.reachEOS = Len(Refill) # kMaxReadBytes - Len(mp3.window)]
  PROVE  Mp3Whole'
<1> DEFINE w == mp3.window
           l == Len(w)
           p == mp3.pos
<1>0. \A i \in 1..l : w[i] = p + i - 1
  BY DEF Mp3Whole, Window
<1>1. PICK n \in Nat :
        /\ Refill \in Seq(Nat) /\ Len(Refill) = n
        /\ \A i \in 1..n : Refill[i] = p + l + i - 1
        /\ n <= kMaxReadBytes - l
        /\ n <= mp3.file.size - (p + l)
        /\ n = kMaxReadBytes - l \/ n = mp3.file.size - (p + l)
  BY RefillIs
<1>2. w \in Seq(Nat) /\ l \in Nat /\ p \in Nat /\ kMaxReadBytes \in Nat
      /\ mp3.file.size \in Nat
  BY ScanIs DEF Mp3ReaderAssumption
<1>3. w \o Refill \in Seq(Nat) /\ Len(w \o Refill) = l + n
      /\ \A i \in 1..(l + n) : (w \o Refill)[i] = IF i <= l THEN w[i] ELSE Refill[i - l]
  <2>1. Refill \in Seq(Nat) /\ Len(Refill) = n
    BY <1>1
  <2> HIDE DEF w, p
  <2> QED
    BY <1>2, <2>1, JoinAt
<1>4. \A i \in 1..(l + n) : (w \o Refill)[i] = p + i - 1
  <2> SUFFICES ASSUME NEW i \in 1..(l + n)
               PROVE  (w \o Refill)[i] = p + i - 1
    OBVIOUS
  <2>3. i <= l \/ i > l
    BY <1>2
  <2>1. CASE i <= l
    <3>1. i \in 1..l
      BY <1>2, <2>1
    <3>2. w[i] = p + i - 1
      BY <1>0, <3>1
    <3> QED
      BY <1>3, <2>1, <3>2
  <2>2. CASE i > l
    <3>1. i - l \in 1..n
      BY <1>2, <2>2
    <3>2. Refill[i - l] = p + l + (i - l) - 1
      BY <1>1, <3>1
    <3>3. (w \o Refill)[i] = Refill[i - l]
      BY <1>2, <1>3, <2>2
    <3>4. p + l + (i - l) - 1 = p + i - 1
      <4>1. i \in Int /\ p \in Int /\ l \in Int
        BY <1>2
      <4> HIDE DEF l, p
      <4> QED
        BY <4>1
    <3> QED
      BY <3>2, <3>3, <3>4
  <2> QED
    BY <2>1, <2>2, <2>3
<1>5. Mp3TypeOK' /\ mp3'.file = mp3.file /\ mp3'.phase = "scan" /\ mp3'.kind = mp3.kind
      /\ mp3'.frames = mp3.frames /\ mp3'.window = w \o Refill /\ mp3'.pos = p
      /\ mp3'.start = mp3.start /\ mp3'.reachEOS = (Len(Refill) # kMaxReadBytes - l)
  BY <1>3 DEF Mp3Whole, Mp3TypeOK
<1>6. YieldsTheFrames' /\ FramesParse'
  BY <1>5, FramesStand
<1>7. Window'
  <2>1. l + n <= kMaxReadBytes /\ p + (l + n) <= mp3.file.size
        /\ (n # kMaxReadBytes - l => p + (l + n) = mp3.file.size)
    <3> DEFINE size == mp3.file.size
               k == kMaxReadBytes
    <3>1. n \in Int /\ l \in Int /\ p \in Int /\ size \in Int /\ k \in Int
          /\ n <= k - l /\ n <= size - (p + l) /\ (n = k - l \/ n = size - (p + l))
      BY <1>1, <1>2
    <3> HIDE DEF l, p, size, k
    <3>2. l + n <= k /\ p + (l + n) <= size /\ (n # k - l => p + (l + n) = size)
      BY <3>1
    <3> QED
      BY <3>2 DEF size, k
  <2> HIDE DEF w, l, p
  <2> QED
    BY <1>1, <1>3, <1>4, <1>5, <2>1 DEF Window
<1>8. Searching'
  BY <1>5 DEF Mp3Whole, Searching, Behind
<1> QED
  BY <1>5, <1>6, <1>7, <1>8 DEF Mp3Whole, OverTags, Found

\* The first four bytes of the window are those at the search's position.
LEMMA HeaderInWindow ==
  ASSUME Mp3ReaderAssumption, Mp3Whole, mp3.phase = "scan", Len(mp3.window) >= 4
  PROVE  U32_AT(mp3.window) = mp3.pos
<1>1. mp3.pos \in Nat /\ Len(mp3.window) \in Nat
  BY ScanIs
<1>2. \A i \in 1..4 : mp3.window[i] = mp3.pos + i - 1
  BY <1>1 DEF Mp3Whole, Window
<1>3. mp3.window[1] = mp3.pos
  BY <1>1, <1>2
<1> QED
  BY <1>2, <1>3 DEF U32_AT

LEMMA ScanPasses ==
  ASSUME Mp3ReaderAssumption, Mp3Whole, mp3.phase = "scan", Len(mp3.window) >= 4,
         ~Begins(mp3.file, mp3.pos, mp3.kind),
         mp3' = [mp3 EXCEPT !.pos = mp3.pos + 1, !.window = Tail(mp3.window)]
  PROVE  Mp3Whole'
<1> DEFINE w == mp3.window
           l == Len(w)
           p == mp3.pos
<1>1. w \in Seq(Nat) /\ l \in Nat /\ p \in Nat /\ kMaxReadBytes \in Nat /\ w # << >>
      /\ mp3.file.size \in Nat /\ l <= kMaxReadBytes /\ p + l <= mp3.file.size
      /\ mp3.start \in Nat /\ p >= mp3.start /\ l >= 4
  BY ScanIs DEF Mp3ReaderAssumption
<1>2. Tail(w) \in Seq(Nat) /\ Len(Tail(w)) = l - 1
      /\ \A i \in 1..(l - 1) : Tail(w)[i] = w[i + 1]
  BY <1>1, HeadTailProperties
<1>3. \A i \in 1..l : w[i] = p + i - 1
  BY DEF Mp3Whole, Window
<1>4. \A i \in 1..(l - 1) : Tail(w)[i] = (p + 1) + i - 1
  <2> SUFFICES ASSUME NEW i \in 1..(l - 1)
               PROVE  Tail(w)[i] = (p + 1) + i - 1
    OBVIOUS
  <2>1. i + 1 \in 1..l /\ i \in Int
    <3>1. l \in Nat
      BY <1>1
    <3> HIDE DEF l
    <3> QED
      BY <3>1
  <2>2. w[i + 1] = p + (i + 1) - 1
    <3> DEFINE j == i + 1
    <3> HIDE DEF j, w, p, l
    <3>1. w[j] = p + j - 1
      BY <1>3, <2>1 DEF j
    <3> QED
      BY <3>1 DEF j
  <2>3. p + (i + 1) - 1 = (p + 1) + i - 1
    <3> HIDE DEF p
    <3> QED
      BY <1>1, <2>1
  <2> QED
    BY <1>2, <2>2, <2>3
<1>5. Mp3TypeOK' /\ mp3'.file = mp3.file /\ mp3'.phase = "scan" /\ mp3'.kind = mp3.kind
      /\ mp3'.frames = mp3.frames /\ mp3'.window = Tail(w) /\ mp3'.pos = p + 1
      /\ mp3'.start = mp3.start /\ mp3'.reachEOS = mp3.reachEOS
  <2> DEFINE t == Tail(w)
             p1 == p + 1
  <2>1. t \in Seq(Nat) /\ p1 \in Nat
    BY <1>1, <1>2
  <2>2. mp3' = [mp3 EXCEPT !.pos = p1, !.window = t]
    OBVIOUS
  <2> HIDE DEF t, p1
  <2>3. /\ Mp3TypeOK' /\ mp3'.file = mp3.file /\ mp3'.phase = "scan" /\ mp3'.kind = mp3.kind
        /\ mp3'.frames = mp3.frames /\ mp3'.window = t /\ mp3'.pos = p1
        /\ mp3'.start = mp3.start /\ mp3'.reachEOS = mp3.reachEOS
    BY <2>1, <2>2 DEF Mp3Whole, Mp3TypeOK
  <2> QED
    BY <2>3 DEF t, p1
<1>6. YieldsTheFrames' /\ FramesParse'
  BY <1>5, FramesStand
<1>7. Window'
  <2>1. mp3.reachEOS => p + l = mp3.file.size
    BY DEF Mp3Whole, Window
  <2>2. (p + 1) + (l - 1) = p + l /\ l - 1 <= kMaxReadBytes
    <3> HIDE DEF l, p
    <3> QED
      BY <1>1
  <2> HIDE DEF w, l, p
  <2> QED
    BY <1>1, <1>2, <1>4, <1>5, <2>1, <2>2 DEF Window
<1>8. Searching'
  <2>1. \A q \in mp3.start..((p + 1) - 1) : ~Begins(mp3.file, q, mp3.kind)
    <3>1. \A q \in mp3.start..((p + 1) - 1) : q \in mp3.start..(p - 1) \/ q = p
      BY <1>1
    <3> QED
      BY <3>1 DEF Mp3Whole, Searching
  <2>2. p + 1 >= mp3.start
    BY <1>1
  <2> QED
    BY <1>5, <2>1, <2>2 DEF Mp3Whole, Searching, Behind
<1> QED
  BY <1>5, <1>6, <1>7, <1>8 DEF Mp3Whole, OverTags, Found

LEMMA ScanFinds ==
  ASSUME Mp3ReaderAssumption, Mp3Whole, mp3.phase = "scan",
         mp3.pos < mp3.start + kMaxBytesChecked,
         Begins(mp3.file, mp3.pos, mp3.kind),
         mp3' = [mp3 EXCEPT !.phase = "frame", !.window = << >>, !.reachEOS = FALSE,
                   !.kind = IF mp3.kind = << >> THEN Kind(mp3.file.headers[mp3.pos])
                            ELSE mp3.kind]
  PROVE  Mp3Whole'
<1> DEFINE f == mp3.file
           p == mp3.pos
           k == Kind(f.headers[p])
<1>1. IsFile(f) /\ p \in Nat /\ mp3.start \in Nat /\ p >= mp3.start
      /\ (mp3.frames # << >> => mp3.kind # << >>)
  BY ScanIs
<1>2. p \in DOMAIN f.headers /\ parseHeader(f.headers[p])
      /\ (mp3.kind # << >> => IsFrame(f, p, mp3.kind))
  BY <1>1, BeginsIs
<1>3. k \in (0..3) \X (0..3) \X (0..3) /\ k # << >>
  BY <1>1, <1>2, KindIs DEF IsFile
<1>4. Stream(f, mp3.start, mp3.kind) = p
  BY <1>1, StreamIs DEF Mp3Whole, Searching
<1> HIDE DEF k
<1>5. Mp3TypeOK' /\ mp3'.file = f /\ mp3'.phase = "frame"
      /\ mp3'.kind = (IF mp3.kind = << >> THEN k ELSE mp3.kind)
      /\ mp3'.frames = mp3.frames /\ mp3'.window = << >> /\ mp3'.pos = p
      /\ mp3'.start = mp3.start /\ mp3'.reachEOS = FALSE
  <2> DEFINE k1 == IF mp3.kind = << >> THEN k ELSE mp3.kind
  <2>1. k1 \in {<< >>} \cup (0..3) \X (0..3) \X (0..3)
    BY <1>3 DEF Mp3Whole, Mp3TypeOK
  <2>4. k1 = IF mp3.kind = << >> THEN Kind(mp3.file.headers[mp3.pos]) ELSE mp3.kind
    BY DEF k
  <2> HIDE DEF k1
  <2>2. mp3' = [mp3 EXCEPT !.phase = "frame", !.window = << >>, !.reachEOS = FALSE,
                           !.kind = k1]
    BY <2>4
  <2>3. /\ Mp3TypeOK' /\ mp3'.file = f /\ mp3'.phase = "frame" /\ mp3'.kind = k1
        /\ mp3'.frames = mp3.frames /\ mp3'.window = << >> /\ mp3'.pos = p
        /\ mp3'.start = mp3.start /\ mp3'.reachEOS = FALSE
    <3>1. Mp3TypeOK
      BY DEF Mp3Whole
    <3>2. /\ mp3'.file = f /\ mp3'.phase = "frame" /\ mp3'.kind = k1
          /\ mp3'.frames = mp3.frames /\ mp3'.window = << >> /\ mp3'.pos = p
          /\ mp3'.start = mp3.start /\ mp3'.reachEOS = FALSE
      BY <2>2, <3>1 DEF Mp3TypeOK
    <3>3. << >> \in Seq(Nat)
      OBVIOUS
    <3>4. Mp3TypeOK'
      BY <2>1, <2>2, <3>1, <3>3 DEF Mp3TypeOK
    <3> QED
      BY <3>2, <3>4
  <2> QED
    BY <2>3 DEF k1
<1>6. YieldsTheFrames' /\ FramesParse'
  <2>1. mp3'.kind = mp3.kind \/ (mp3.frames = << >> /\ mp3'.kind # << >>)
    BY <1>1, <1>3, <1>5
  <2> QED
    BY <1>5, <2>1, FramesStand
<1>7. Window'
  BY <1>5 DEF Window, Mp3ReaderAssumption
<1>8. Found'
  <2>1. CASE mp3.frames = << >>
    <3>1. mp3.kind = << >> /\ mp3.start = Untagged(f)
      BY <2>1 DEF Mp3Whole, Searching
    <3>2. Begins(f, p, k)
      BY DEF Begins, k
    <3> QED
      BY <1>3, <1>4, <1>5, <2>1, <3>1, <3>2 DEF Found
  <2>2. CASE mp3.frames # << >>
    <3>1. mp3.start = Behind /\ ~IsFrame(f, Behind, mp3.kind) /\ mp3.kind # << >>
      BY <1>1, <2>2 DEF Mp3Whole, Searching
    <3>2. FrameFrom(Behind) = p
      BY <1>4, <3>1 DEF FrameFrom
    <3>3. mp3'.kind = mp3.kind
      BY <1>5, <3>1
    <3>4. Behind' = Behind /\ FrameFrom(Behind)' = FrameFrom(Behind)
      BY <1>5, <3>3 DEF FrameFrom, Behind
    <3> QED
      BY <1>2, <1>5, <2>2, <3>1, <3>2, <3>3, <3>4 DEF Found
  <2> QED
    BY <2>1, <2>2
<1> QED
  BY <1>5, <1>6, <1>7, <1>8 DEF Mp3Whole, OverTags, Searching

LEMMA ScanKeeps ==
  ASSUME Mp3ReaderAssumption, Mp3Whole, Scan
  PROVE  Mp3Whole'
<1> DEFINE w == mp3.window
           found == Begins(mp3.file, mp3.pos, mp3.kind)
<1>1. mp3.phase = "scan"
  BY DEF Scan
<1>2. mp3.pos \in Nat /\ mp3.start \in Nat /\ Len(w) \in Nat /\ w \in Seq(Nat)
      /\ mp3.file.size \in Nat /\ kMaxBytesChecked \in Nat /\ kMaxReadBytes \in Nat
  BY <1>1, ScanIs DEF Mp3ReaderAssumption
<1>3. CASE mp3.pos >= mp3.start + kMaxBytesChecked
  BY <1>1, <1>3, ScanEnds DEF Scan
<1>4. CASE mp3.pos < mp3.start + kMaxBytesChecked /\ Len(w) < 4
  <2>1. ~(mp3.pos >= mp3.start + kMaxBytesChecked)
    BY <1>2, <1>4
  <2>2. CASE mp3.reachEOS \/ Refill = << >>
    <3>1. mp3' = [mp3 EXCEPT !.phase = "ended"]
      BY <1>4, <2>1, <2>2 DEF Scan
    <3>2. mp3.pos + Len(w) = mp3.file.size
      <4>1. CASE mp3.reachEOS
        BY <1>1, <4>1 DEF Mp3Whole, Window
      <4>2. CASE Refill = << >>
        <5>1. PICK n \in Nat : /\ Refill = << >> <=> n = 0
                               /\ n = kMaxReadBytes - Len(w)
                                  \/ n = mp3.file.size - (mp3.pos + Len(w))
          BY <1>1, RefillIs
        <5>2. 0 = kMaxReadBytes - Len(w) \/ 0 = mp3.file.size - (mp3.pos + Len(w))
          BY <4>2, <5>1
        <5>3. kMaxReadBytes >= 4
          BY DEF Mp3ReaderAssumption
        <5>4. 0 # kMaxReadBytes - Len(w)
          BY <1>2, <1>4, <5>3
        <5>5. 0 = mp3.file.size - (mp3.pos + Len(w))
          BY <5>2, <5>4
        <5> DEFINE size == mp3.file.size
                   sum == mp3.pos + Len(w)
        <5>6. sum \in Int /\ size \in Int
          BY <1>2
        <5> HIDE DEF size, sum
        <5>7. 0 = size - sum => sum = size
          BY <5>6
        <5> QED
          BY <5>5, <5>7 DEF size, sum
      <4> QED
        BY <2>2, <4>1, <4>2
    <3>3. mp3.pos + 4 > mp3.file.size
      BY <1>2, <1>4, <3>2
    <3> QED
      BY <1>1, <3>1, <3>3, ScanEnds
  <2>3. CASE ~(mp3.reachEOS \/ Refill = << >>)
    <3>1. mp3' = [mp3 EXCEPT !.window = w \o Refill,
                             !.reachEOS = Len(Refill) # kMaxReadBytes - Len(w)]
      BY <1>4, <2>1, <2>3 DEF Scan
    <3> QED
      BY <1>1, <1>4, <2>3, <3>1, ScanRefills
  <2> QED
    BY <2>2, <2>3
<1>5. CASE mp3.pos < mp3.start + kMaxBytesChecked /\ Len(w) >= 4
  <2>1. ~(mp3.pos >= mp3.start + kMaxBytesChecked) /\ ~(Len(w) < 4)
    BY <1>2, <1>5
  <2>2. U32_AT(w) = mp3.pos
    BY <1>1, <1>5, HeaderInWindow
  <2>3. CASE found
    <3>1. mp3' = [mp3 EXCEPT !.phase = "frame", !.window = << >>, !.reachEOS = FALSE,
                   !.kind = IF mp3.kind = << >> THEN Kind(mp3.file.headers[mp3.pos])
                            ELSE mp3.kind]
      BY <2>1, <2>2, <2>3 DEF Scan
    <3> QED
      BY <1>1, <1>5, <2>3, <3>1, ScanFinds
  <2>4. CASE ~found
    <3>1. mp3' = [mp3 EXCEPT !.pos = mp3.pos + 1, !.window = Tail(w)]
      BY <2>1, <2>2, <2>4 DEF Scan
    <3> QED
      BY <1>1, <1>5, <2>4, <3>1, ScanPasses
  <2> QED
    BY <2>3, <2>4
<1> QED
  BY <1>2, <1>3, <1>4, <1>5

LEMMA GetFrameKeeps ==
  ASSUME Mp3ReaderAssumption, Mp3Whole, getFrame
  PROVE  Mp3Whole'
<1> DEFINE f == mp3.file
           p == mp3.pos
           fs == mp3.frames
           n == Len(fs)
           first == Stream(f, Untagged(f), << >>)
<1>1. /\ mp3.phase = "frame" /\ f \in Files /\ IsFile(f) /\ p \in Nat /\ fs \in Seq(Nat)
      /\ n \in Nat /\ mp3.kind # << >> /\ mp3.window \in Seq(Nat) /\ f.size \in Nat
      /\ Mp3TypeOK
  BY DEF Mp3ReaderAssumption, Mp3Whole, Mp3TypeOK, Found, getFrame, IsFile
<1>2. Len(mp3.window) = 0 /\ ~mp3.reachEOS
  BY <1>1 DEF Mp3Whole, Window
<1>3. fs = << >> => p = first /\ Begins(f, p, mp3.kind)
  BY <1>1 DEF Mp3Whole, Found
<1>4. fs # << >> => p = Behind \/ (p = FrameFrom(Behind) /\ IsFrame(f, p, mp3.kind))
  BY <1>1 DEF Mp3Whole, Found
<1>5. fs = << >> => p + 10 <= f.size /\ IsFrame(f, p, mp3.kind) /\ After(f, p) + 4 <= f.size
                    /\ After(f, p) \in Nat
  <2> SUFFICES ASSUME fs = << >>
               PROVE  p + 10 <= f.size /\ IsFrame(f, p, mp3.kind)
                      /\ After(f, p) + 4 <= f.size /\ After(f, p) \in Nat
    OBVIOUS
  <2>1. Begins(f, p, mp3.kind)
    BY <1>3
  <2>2. p \in DOMAIN f.headers /\ parseHeader(f.headers[p]) /\ p + 10 <= f.size
        /\ IsFrame(f, p, mp3.kind) /\ After(f, p) + 4 <= f.size
    BY <1>1, <2>1, BeginsIs
  <2> QED
    BY <1>1, <2>2, AfterIs
<1>6. ASSUME mp3' = [mp3 EXCEPT !.phase = "ended"], Mp3Done
      PROVE  Mp3Whole'
  <2>1. Mp3TypeOK' /\ mp3'.file = f /\ mp3'.phase = "ended" /\ mp3'.kind = mp3.kind
        /\ mp3'.frames = fs /\ mp3'.window = mp3.window
    BY <1>1, <1>6 DEF Mp3TypeOK
  <2>2. YieldsTheFrames' /\ FramesParse'
    BY <1>6, <2>1, FramesStand
  <2>3. Window'
    BY <1>2, <2>1 DEF Window
  <2> QED
    BY <2>1, <2>2, <2>3 DEF Mp3Whole, OverTags, Searching, Found
<1>7. CASE p + 4 > f.size
  <2>1. mp3' = [mp3 EXCEPT !.phase = "ended"]
    BY <1>7 DEF getFrame
  <2>2. fs # << >>
    BY <1>1, <1>5, <1>7
  <2>3. ~IsFrame(f, p, mp3.kind)
    BY <1>1, <1>7 DEF IsFrame, HeaderAt
  <2>4. p = Behind
    BY <1>4, <2>2, <2>3
  <2>5. \A r \in Nat : r >= p => ~Begins(f, r, mp3.kind)
    <3> SUFFICES ASSUME NEW r \in Nat, r >= p, Begins(f, r, mp3.kind)
                 PROVE  FALSE
      OBVIOUS
    <3>1. r + 10 <= f.size
      BY <1>1, BeginsIs
    <3> QED
      BY <1>1, <1>7, <3>1
  <2>6. Stream(f, p, mp3.kind) = -1
    BY <1>1, <2>5, NoStream
  <2>7. FrameFrom(Behind) = -1
    BY <2>3, <2>4, <2>6 DEF FrameFrom
  <2>8. Mp3Done
    BY <2>2, <2>7 DEF Mp3Done
  <2> QED
    BY <1>6, <2>1, <2>8
<1>8. CASE p + 4 <= f.size /\ ~IsFrame(f, p, mp3.kind)
  <2>1. mp3' = [mp3 EXCEPT !.phase = "scan", !.start = p]
    BY <1>1, <1>8 DEF getFrame
  <2>2. fs # << >> /\ p = Behind
    BY <1>4, <1>5, <1>8
  <2>9. Mp3TypeOK'
    BY <1>1, <2>1 DEF Mp3TypeOK
  <2>3. /\ mp3'.file = f /\ mp3'.phase = "scan" /\ mp3'.kind = mp3.kind
        /\ mp3'.frames = fs /\ mp3'.window = mp3.window
        /\ mp3'.reachEOS = mp3.reachEOS /\ mp3'.pos = p /\ mp3'.start = p
    BY <1>1, <2>1 DEF Mp3TypeOK
  <2>4. YieldsTheFrames' /\ FramesParse'
    BY <2>3, FramesStand
  <2>5. Window'
    <3>1. 0 <= kMaxReadBytes
      BY DEF Mp3ReaderAssumption
    <3> QED
      BY <1>1, <1>2, <1>8, <2>3, <3>1 DEF Window
  <2>6. Searching'
    <3>1. p..(p - 1) = {}
      BY <1>1
    <3> QED
      BY <1>1, <1>8, <2>2, <2>3, <3>1 DEF Searching, Behind
  <2> QED
    BY <2>3, <2>4, <2>5, <2>6, <2>9 DEF Mp3Whole, OverTags, Found
<1>9. CASE p + 4 <= f.size /\ IsFrame(f, p, mp3.kind)
  <2>1. p \in DOMAIN f.headers /\ parseHeader(f.headers[p])
    BY <1>9 DEF IsFrame, HeaderAt
  <2>2. After(f, p) \in Nat
    BY <1>1, <2>1, AfterIs
  <2>3. fs # << >> => p = FrameFrom(Behind)
    BY <1>4, <1>9 DEF FrameFrom
  <2>4. CASE After(f, p) > f.size
    <3>1. mp3' = [mp3 EXCEPT !.phase = "ended"]
      BY <1>1, <1>9, <2>4 DEF getFrame
    <3>2. fs # << >>
      BY <1>1, <1>5, <2>2, <2>4
    <3>3. Mp3Done
      BY <2>3, <2>4, <3>2 DEF Mp3Done
    <3> QED
      BY <1>6, <3>1, <3>3
  <2>5. CASE After(f, p) <= f.size
    <3> DEFINE fs1 == Append(fs, p)
               q == After(f, p)
    <3>1. mp3' = [mp3 EXCEPT !.pos = q, !.frames = fs1]
      BY <1>1, <1>9, <2>2, <2>5 DEF getFrame
    <3>2. /\ fs1 \in Seq(Nat) /\ Len(fs1) = n + 1 /\ DOMAIN fs1 = 1..(n + 1)
          /\ \A i \in 1..n : fs1[i] = fs[i]
          /\ fs1[n + 1] = p /\ fs1 # << >>
      BY <1>1
    <3>3. Mp3TypeOK' /\ mp3'.file = f /\ mp3'.phase = "frame" /\ mp3'.kind = mp3.kind
          /\ mp3'.frames = fs1 /\ mp3'.window = mp3.window
          /\ mp3'.reachEOS = mp3.reachEOS /\ mp3'.pos = q
      <4> HIDE DEF fs1, q
      <4> QED
        BY <1>1, <2>2, <3>1, <3>2 DEF Mp3TypeOK, q
    <3> HIDE DEF fs1
    <3>4. Window'
      <4>1. 0 <= kMaxReadBytes
        BY DEF Mp3ReaderAssumption
      <4> QED
        BY <1>1, <1>2, <3>3, <4>1 DEF Window
    <3>5. Behind' = q
      BY <3>2, <3>3 DEF Behind
    <3>6. Found'
      BY <1>1, <3>2, <3>3, <3>5 DEF Found
    <3>7. FramesParse'
      <4>1. \A i \in 1..n : fs[i] \in DOMAIN f.headers /\ parseHeader(f.headers[fs[i]])
        BY <1>1 DEF Mp3Whole, FramesParse
      <4>2. \A i \in 1..(n + 1) : i \in 1..n \/ i = n + 1
        BY <1>1
      <4>3. \A i \in DOMAIN fs1 : fs1[i] \in DOMAIN f.headers
                                  /\ parseHeader(f.headers[fs1[i]])
        BY <2>1, <3>2, <4>1, <4>2
      <4> QED
        BY <1>1, <3>3, <4>3 DEF FramesParse
    <3>8. YieldsTheFrames'
      <4>1. \A i \in 1..n : After(f, fs[i]) <= f.size
        BY <1>1 DEF Mp3Whole, YieldsTheFrames
      <4>2. \A i \in 1..(n + 1) : i \in 1..n \/ i = n + 1
        BY <1>1
      <4>3. \A i \in DOMAIN fs1 : After(f, fs1[i]) <= f.size
        BY <2>5, <3>2, <4>1, <4>2
      <4>4. fs1[1] = first
        <5>1. CASE fs = << >>
          <6>1. n = 0
            BY <5>1
          <6> QED
            BY <1>3, <3>2, <5>1, <6>1
        <5>2. CASE fs # << >>
          <6>1. 1 \in 1..n
            BY <1>1, <5>2
          <6>2. fs[1] = first
            BY <5>2 DEF Mp3Whole, YieldsTheFrames
          <6> QED
            BY <3>2, <6>1, <6>2
        <5> QED
          BY <5>1, <5>2
      <4>5. \A i \in 2..n : fs[i] = FrameFrom(After(f, fs[i - 1]))
        BY DEF Mp3Whole, YieldsTheFrames
      <4>6. \A x : FrameFrom(x) = IF IsFrame(f, x, mp3.kind) THEN x ELSE Stream(f, x, mp3.kind)
        BY DEF FrameFrom
      <4>7. \A i \in 2..(n + 1) : fs1[i] = FrameFrom(After(f, fs1[i - 1]))
        <5> SUFFICES ASSUME NEW i \in 2..(n + 1)
                     PROVE  fs1[i] = FrameFrom(After(f, fs1[i - 1]))
          OBVIOUS
        <5>1. i - 1 \in 1..n /\ (i \in 2..n \/ i = n + 1) /\ i \in Int
          BY <1>1
        <5>2. fs1[i - 1] = fs[i - 1]
          BY <3>2, <5>1
        <5>3. CASE i \in 2..n
          <6>1. i \in 1..n
            BY <1>1, <5>3
          <6> QED
            BY <3>2, <4>5, <5>2, <5>3, <6>1
        <5>4. CASE i = n + 1
          <6>1. i - 1 = n /\ fs # << >>
            BY <1>1, <5>1, <5>4
          <6>2. After(f, fs1[i - 1]) = Behind
            BY <5>2, <6>1 DEF Behind
          <6> QED
            BY <2>3, <3>2, <5>4, <6>1, <6>2
        <5> QED
          BY <5>1, <5>3, <5>4
      <4>8. \A i \in 2..(n + 1) :
              fs1[i] = (IF IsFrame(f, After(f, fs1[i - 1]), mp3.kind) THEN After(f, fs1[i - 1])
                        ELSE Stream(f, After(f, fs1[i - 1]), mp3.kind))
        BY <4>6, <4>7
      <4> QED
        BY <3>2, <3>3, <4>3, <4>4, <4>8 DEF YieldsTheFrames, FrameFrom
    <3> QED
      BY <3>3, <3>4, <3>6, <3>7, <3>8 DEF Mp3Whole, OverTags, Searching
  <2> QED
    BY <1>1, <2>2, <2>4, <2>5
<1> QED
  BY <1>1, <1>7, <1>8, <1>9

LEMMA Mp3Starts ==
  ASSUME Mp3ReaderAssumption, Mp3Init
  PROVE  Mp3Whole
<1>1. PICK file \in Files :
        mp3 = [file |-> file, phase |-> "tags", kind |-> << >>, pos |-> 0, start |-> 0,
               window |-> << >>, reachEOS |-> FALSE, frames |-> << >>]
  BY DEF Mp3Init
<1>2. << >> \in Seq(Nat) /\ Len(<< >>) = 0 /\ 0 <= kMaxReadBytes /\ 2..0 = {}
      /\ DOMAIN << >> = {}
  BY DEF Mp3ReaderAssumption
<1>3. Mp3TypeOK
  BY <1>1, <1>2 DEF Mp3TypeOK
<1>4. 0 \in TagEnds(mp3.file)
  BY DEF TagEnds
<1>5. Window
  BY <1>1, <1>2 DEF Window
<1>6. YieldsTheFrames
  BY <1>1, <1>2 DEF YieldsTheFrames
<1> QED
  BY <1>1, <1>2, <1>3, <1>4, <1>5, <1>6
     DEF Mp3Whole, FramesParse, OverTags, Searching, Found

LEMMA Mp3StepKeeps ==
  ASSUME Mp3ReaderAssumption, Mp3IInv, Mp3Next \/ UNCHANGED mp3
  PROVE  Mp3IInv'
<1>1. CASE Mp3Idle
  <2>1. mp3.phase = "ended"
    BY <1>1 DEF Mp3Idle
  <2>2. ~Mp3Next
    BY <2>1 DEF Mp3Next, Tags, Scan, getFrame
  <2> QED
    BY <1>1, <2>2 DEF Mp3IInv, Mp3Idle
<1>2. CASE Mp3Whole /\ Mp3Next
  BY <1>2, TagsKeeps, ScanKeeps, GetFrameKeeps DEF Mp3Next, Mp3IInv, Mp3Whole
<1>3. CASE Mp3Whole /\ UNCHANGED mp3
  <2>1. Mp3Whole'
    BY <1>3 DEF Mp3Whole, Mp3TypeOK, FramesParse, OverTags, Window, Searching, Found,
                YieldsTheFrames, FrameFrom, Behind
  <2> QED
    BY <2>1 DEF Mp3IInv, Mp3Whole
<1> QED
  BY <1>1, <1>2, <1>3 DEF Mp3IInv, Mp3Whole

LEMMA InvariantYields ==
  ASSUME Mp3IInv
  PROVE  YieldsTheFrames
<1>1. CASE Mp3Idle
  <2>1. mp3.frames = << >> /\ mp3.file.size = 0
    BY <1>1 DEF Mp3Idle
  <2>2. Len(<< >>) = 0 /\ 2..0 = {} /\ DOMAIN << >> = {} /\ ~(0 > 0)
    OBVIOUS
  <2> QED
    BY <2>1, <2>2 DEF YieldsTheFrames
<1> QED
  BY <1>1 DEF Mp3IInv, Mp3Whole

LEMMA Mp3Begins ==
  ASSUME Mp3ReaderAssumption, Init
  PROVE  Mp3IInv
<1>1. Mp3Init \/ Mp3Idle
  BY DEF Init
<1> QED
  BY <1>1, Mp3Starts DEF Mp3IInv

\* The reader yields the frames of every file that Mp3ReaderAssumption describes,
\* with a window of any size from four bytes on and a search of any length:
\* mp3reader.cpp's refills hide no frame and make up none.
THEOREM ReaderYieldsTheFrames == Spec => []YieldsTheFrames
<1>1. Init => Mp3IInv
  BY Mp3Begins, Mp3ReaderAssumption
<1>2. Mp3IInv /\ [Next]_vars => Mp3IInv'
  <2> SUFFICES ASSUME Mp3IInv, [Next]_vars
               PROVE  Mp3IInv'
    OBVIOUS
  <2>1. Mp3Next \/ UNCHANGED mp3
    BY DEF Next, vars
  <2> QED
    BY <2>1, Mp3StepKeeps, Mp3ReaderAssumption
<1>3. Mp3IInv => YieldsTheFrames
  BY InvariantYields
<1> QED
  BY <1>1, <1>2, <1>3, PTL DEF Spec

-----------------------------------------------------------------------------
(***************************************************************************)
(* The sample rate converter: the next frame is the first that needs a     *)
(* sample not read yet, the frames put out are those of the whole stream,  *)
(* and the filter's ring holds the last samples read.                      *)
(***************************************************************************)

\* A quotient grows with what is divided, and is a multiple's factor.
LEMMA QuotientIs ==
  ASSUME NEW a \in Nat, NEW r \in Nat \ {0}
  PROVE  a \div r \in Nat /\ a % r \in Nat /\ a = r * (a \div r) + (a % r) /\ a % r < r
OBVIOUS

LEMMA QuotientGrows ==
  ASSUME NEW a \in Nat, NEW b \in Nat, NEW r \in Nat \ {0}, a <= b
  PROVE  a \div r <= b \div r
<1> DEFINE x == a \div r
           y == b \div r
<1>1. x \in Nat /\ y \in Nat /\ r * x <= a /\ b < r * y + r
  BY QuotientIs
<1> HIDE DEF x, y
<1>2. SUFFICES ASSUME y + 1 <= x
               PROVE  FALSE
  BY <1>1 DEF x, y
<1>3. r * (y + 1) <= r * x
  BY <1>1, <1>2
<1>4. r * (y + 1) = r * y + r
  BY <1>1
<1> QED
  BY <1>1, <1>3, <1>4

LEMMA QuotientOfMultiple ==
  ASSUME NEW q \in Nat, NEW r \in Nat \ {0}
  PROVE  (q * r) \div r = q
OBVIOUS

LEMMA LargestExists ==
  ASSUME NEW S, S \subseteq Nat, S # {}, NEW b \in Nat, \A x \in S : x <= b
  PROVE  Max(S) \in S /\ \A x \in S : x <= Max(S)
<1> DEFINE U == {u \in Nat : \A x \in S : x <= u}
<1>1. PICK m \in U : \A u \in U : m <= u
  <2>1. U \subseteq Nat /\ b \in U
    OBVIOUS
  <2> HIDE DEF U
  <2> QED
    BY <2>1, LeastExists
<1>2. m \in S
  <2> SUFFICES ASSUME m \notin S
               PROVE  FALSE
    OBVIOUS
  <2>1. \A x \in S : x \in Nat /\ m \in Nat /\ x <= m /\ x # m
    BY <1>1
  <2>2. \A x \in S : x <= m - 1 /\ m - 1 \in Nat
    BY <2>1
  <2>3. m - 1 \in U
    BY <2>2
  <2>4. m <= m - 1 /\ m \in Nat
    BY <1>1, <2>3
  <2> QED
    BY <2>4
<1>3. \A y \in S : m >= y
  BY <1>1
<1>4. Max(S) \in S /\ \A y \in S : Max(S) >= y
  BY <1>2, <1>3 DEF Max
<1> QED
  BY <1>4

\* The greatest common divisor divides both.
LEMMA GcdIs ==
  ASSUME NEW a \in Nat \ {0}, NEW b \in Nat \ {0}
  PROVE  a \div gcd(a, b) \in Nat \ {0} /\ b \div gcd(a, b) \in Nat \ {0}
<1> DEFINE D == {d \in 1..a : a % d = 0 /\ b % d = 0}
           g == Max(D)
<1>1. a % 1 = 0 /\ b % 1 = 0
  OBVIOUS
<1>2. D \subseteq Nat /\ D # {} /\ \A x \in D : x <= a
  BY <1>1
<1>3. g \in D
  <2> HIDE DEF D
  <2> QED
    BY <1>2, LargestExists
<1>4. gcd(a, b) = g
  BY DEF gcd
<1>5. g \in Nat \ {0} /\ a % g = 0 /\ b % g = 0
  <2>1. \A d \in D : d \in Nat \ {0} /\ a % d = 0 /\ b % d = 0
    OBVIOUS
  <2> HIDE DEF D, g
  <2> QED
    BY <1>3, <2>1
<1> HIDE DEF g
<1>6. a \div g \in Nat /\ a = g * (a \div g) + (a % g)
  BY <1>5, QuotientIs
<1>7. b \div g \in Nat /\ b = g * (b \div g) + (b % g)
  BY <1>5, QuotientIs
<1>8. \A q \in Nat, c \in Nat \ {0} : c = g * q + 0 => q # 0
  <2> SUFFICES ASSUME NEW c \in Nat \ {0}, c = g * 0 + 0
               PROVE  FALSE
    OBVIOUS
  <2>1. g * 0 = 0
    BY <1>5
  <2> QED
    BY <2>1
<1>9. a = g * (a \div g) + 0 /\ b = g * (b \div g) + 0
  BY <1>5, <1>6, <1>7
<1>10. a \div g # 0 /\ b \div g # 0
  BY <1>6, <1>7, <1>8, <1>9
<1> QED
  BY <1>4, <1>6, <1>7, <1>10

\* The filter's history.
LEMMA TapNumIs == TapNum \in Nat \ {0}
BY DEF TapNum, filter_taps

LEMMA PutRemembers ==
  ASSUME NEW n \in Nat, NEW f, Remembers(f, n)
  PROVE  Remembers(SampleFilter_put(f, Input[n + 1]), n + 1)
<1> DEFINE x == Input[n + 1]
           h == [f.history EXCEPT ![n % TapNum] = x]
           g == SampleFilter_put(f, x)
<1>1. TapNum \in Nat \ {0} /\ n % TapNum \in 0..(TapNum - 1)
  BY TapNumIs, ModType
<1>2. /\ f.last_index = n % TapNum
      /\ f.history = [k \in 0..(TapNum - 1) |-> f.history[k]]
      /\ \A i \in 1..TapNum : f.history[(n - i) % TapNum] = Past(n)[i]
  BY DEF Remembers
<1>3. g = [history |-> h, last_index |-> (n + 1) % TapNum]
  <2>1. ((n % TapNum) + 1) % TapNum = (n + 1) % TapNum
    <3> DEFINE one == 1
    <3>1. one \in Int /\ n \in Int
      OBVIOUS
    <3> HIDE DEF one
    <3>2. ((n % TapNum) + one) % TapNum = (n + one) % TapNum
      BY <1>1, <3>1, ModPlus
    <3> QED
      BY <3>2 DEF one
  <2> QED
    BY <1>2, <2>1 DEF SampleFilter_put
<1>4. h = [k \in 0..(TapNum - 1) |-> h[k]] /\ h[n % TapNum] = x
      /\ \A k \in 0..(TapNum - 1) : k # n % TapNum => h[k] = f.history[k]
  <2> DEFINE fh == f.history
  <2>1. fh = [k \in 0..(TapNum - 1) |-> fh[k]]
    BY <1>2
  <2> HIDE DEF fh
  <2>2. [fh EXCEPT ![n % TapNum] = x] =
          [k \in 0..(TapNum - 1) |-> [fh EXCEPT ![n % TapNum] = x][k]]
        /\ [fh EXCEPT ![n % TapNum] = x][n % TapNum] = x
        /\ \A k \in 0..(TapNum - 1) :
             k # n % TapNum => [fh EXCEPT ![n % TapNum] = x][k] = fh[k]
    BY <1>1, <2>1
  <2> QED
    BY <2>2 DEF fh
<1> HIDE DEF h
<1>5. \A i \in 1..TapNum : h[((n + 1) - i) % TapNum] = Past(n + 1)[i]
  <2> SUFFICES ASSUME NEW i \in 1..TapNum
               PROVE  h[((n + 1) - i) % TapNum] = Past(n + 1)[i]
    OBVIOUS
  <2>1. i \in Int /\ (i = 1 \/ i - 1 \in 1..TapNum) /\ (n + 1) - i = n - (i - 1)
    BY <1>1
  <2>2. Past(n + 1)[i] = IF n + 1 >= i THEN Input[(n + 1) - i + 1] ELSE 0
    BY DEF Past
  <2>3. CASE i = 1
    <3>1. (n + 1) - i = n /\ (n + 1) - i + 1 = n + 1 /\ n + 1 >= i
      BY <2>1, <2>3
    <3> QED
      BY <1>4, <2>2, <3>1
  <2>4. CASE i # 1
    <3> DEFINE c == n - (i - 1)
    <3>1. i - 1 \in 1..TapNum /\ i - 1 \in 1..(TapNum - 1) /\ c \in Int
          /\ n - c = i - 1 /\ (n + 1) - i = c /\ (n + 1) - i + 1 = c + 1
          /\ (n + 1 >= i <=> n >= i - 1)
      BY <1>1, <2>1, <2>4
    <3>2. f.history[c % TapNum] = Past(n)[i - 1]
      BY <1>2, <3>1
    <3>3. Past(n)[i - 1] = IF n >= i - 1 THEN Input[c + 1] ELSE 0
      BY <3>1 DEF Past
    <3> HIDE DEF c
    <3>4. c % TapNum # n % TapNum
      <4>1. n - c \in 0..(TapNum - 1) /\ n \in Int
        BY <1>1, <3>1
      <4>2. ((n % TapNum) - (c % TapNum)) % TapNum = n - c
        BY <1>1, <3>1, <4>1, ModMinus
      <4>3. 0 % TapNum = 0
        BY <1>1
      <4>4. n - c # 0
        BY <1>1, <3>1
      <4>5. c % TapNum = n % TapNum => (n % TapNum) - (c % TapNum) = 0
        BY <1>1
      <4> QED
        BY <4>2, <4>3, <4>4, <4>5
    <3>5. c % TapNum \in 0..(TapNum - 1)
      BY <1>1, <3>1, ModType
    <3>6. h[c % TapNum] = f.history[c % TapNum]
      BY <1>4, <3>4, <3>5
    <3> QED
      BY <2>2, <3>1, <3>2, <3>3, <3>6
  <2> QED
    BY <2>3, <2>4
<1> QED
  BY <1>3, <1>4, <1>5 DEF Remembers

\* What the filter gives is the last samples, weighted.
LEMMA GetIs ==
  ASSUME NEW n \in Nat, NEW f, Remembers(f, n)
  PROVE  SampleFilter_get(f) = Weighted(Past(n))
<1>1. TapNum \in Nat \ {0}
  BY TapNumIs
<1>2. \A i \in 1..TapNum : f.history[(f.last_index - i) % TapNum] = Past(n)[i]
  <2> SUFFICES ASSUME NEW i \in 1..TapNum
               PROVE  f.history[(f.last_index - i) % TapNum] = Past(n)[i]
    OBVIOUS
  <2> DEFINE d == -i
  <2>1. d \in Int /\ n \in Int /\ n + d = n - i /\ n % TapNum \in Int
        /\ (n % TapNum) + d = (n % TapNum) - i
    BY <1>1
  <2> HIDE DEF d
  <2>2. ((n % TapNum) + d) % TapNum = (n + d) % TapNum
    BY <1>1, <2>1, ModPlus
  <2>3. f.last_index = n % TapNum /\ f.history[(n - i) % TapNum] = Past(n)[i]
    BY DEF Remembers
  <2> QED
    BY <2>1, <2>2, <2>3
<1>3. Past(n) = [i \in 1..TapNum |-> Past(n)[i]]
  BY DEF Past
<1>4. [i \in 1..TapNum |-> f.history[(f.last_index - i) % TapNum]] = Past(n)
  <2> DEFINE p == Past(n)
  <2>1. \A i \in 1..TapNum : f.history[(f.last_index - i) % TapNum] = p[i]
    BY <1>2
  <2>2. p = [i \in 1..TapNum |-> p[i]]
    BY <1>3
  <2> HIDE DEF p
  <2>3. [i \in 1..TapNum |-> f.history[(f.last_index - i) % TapNum]] = p
    BY <2>1, <2>2
  <2> QED
    BY <2>3 DEF p
<1> QED
  BY <1>4 DEF SampleFilter_get

\* Fed is what it says: the function it is chosen from exists.
LEMMA FedIs ==
  ASSUME NEW f, NEW chunk, Len(chunk) \in Nat
  PROVE  /\ Fed(f, chunk)[0] = f
         /\ \A n \in 1..Len(chunk) :
              Fed(f, chunk)[n] = SampleFilter_put(Fed(f, chunk)[n - 1], chunk[n])
<1> DEFINE L == Len(chunk)
           Is(g, m) == g = [n \in 0..m |-> IF n = 0 THEN f
                                          ELSE SampleFilter_put(g[n - 1], chunk[n])]
           Wrong == {m \in Nat : ~\E g : Is(g, m)}
<1>1. Wrong = {}
  <2> SUFFICES ASSUME Wrong # {}
               PROVE  FALSE
    OBVIOUS
  <2>1. Wrong \subseteq Nat
    OBVIOUS
  <2>2. PICK m \in Wrong : \A x \in Wrong : m <= x
    <3> HIDE DEF Wrong
    <3> QED
      BY <2>1, LeastExists
  <2>3. m \in Nat /\ ~\E g : Is(g, m)
    BY <2>2
  <2>4. CASE m = 0
    <3> DEFINE g0 == [n \in 0..0 |-> f]
    <3>1. Is(g0, 0)
      OBVIOUS
    <3> QED
      BY <2>3, <2>4, <3>1
  <2>5. CASE m # 0
    <3>1. m - 1 \in Nat /\ m - 1 \notin Wrong
      BY <2>2, <2>3, <2>5
    <3>2. PICK g : Is(g, m - 1)
      BY <3>1
    <3> DEFINE h == [n \in 0..m |-> IF n < m THEN g[n]
                                    ELSE SampleFilter_put(g[m - 1], chunk[m])]
    <3>3. \A n \in 0..m : h[n] = IF n = 0 THEN f ELSE SampleFilter_put(h[n - 1], chunk[n])
      <4> SUFFICES ASSUME NEW n \in 0..m
                   PROVE  h[n] = IF n = 0 THEN f ELSE SampleFilter_put(h[n - 1], chunk[n])
        OBVIOUS
      <4>1. CASE n = m
        <5>1. n # 0 /\ n - 1 \in 0..m /\ n - 1 < m
          BY <2>3, <2>5, <4>1
        <5>2. h[n - 1] = g[n - 1]
          BY <5>1
        <5>3. h[n] = SampleFilter_put(g[m - 1], chunk[m])
          BY <2>3, <4>1
        <5> QED
          BY <4>1, <5>1, <5>2, <5>3
      <4>2. CASE n # m
        <5>1. n < m /\ n \in 0..(m - 1)
          BY <2>3, <4>2
        <5>2. h[n] = g[n]
          BY <5>1
        <5>3. g[n] = IF n = 0 THEN f ELSE SampleFilter_put(g[n - 1], chunk[n])
          BY <3>2, <5>1
        <5>4. n # 0 => h[n - 1] = g[n - 1]
          <6>1. n # 0 => n - 1 \in 0..m /\ n - 1 < m
            BY <2>3, <5>1
          <6> QED
            BY <6>1
        <5> QED
          BY <5>2, <5>3, <5>4
      <4> QED
        BY <4>1, <4>2
    <3>4. h = [n \in 0..m |-> h[n]]
      OBVIOUS
    <3> HIDE DEF h
    <3>5. Is(h, m)
      BY <3>3, <3>4
    <3> QED
      BY <2>3, <3>5
  <2> QED
    BY <2>4, <2>5
<1>2. \E g : Is(g, L)
  BY <1>1
<1>3. Fed(f, chunk) = CHOOSE g : Is(g, L)
  BY DEF Fed
<1>4. Is(Fed(f, chunk), L)
  BY <1>2, <1>3
<1> DEFINE States == Fed(f, chunk)
<1>5. States = [n \in 0..L |-> IF n = 0 THEN f ELSE SampleFilter_put(States[n - 1], chunk[n])]
  BY <1>4
<1> HIDE DEF States
<1>6. States[0] = f /\ \A n \in 1..L : States[n] = SampleFilter_put(States[n - 1], chunk[n])
  BY <1>5
<1> QED
  BY <1>6 DEF States

\* States each sample of a chunk the filter remembers the stream up to it.
LEMMA FedRemembers ==
  ASSUME NEW b \in Nat, NEW f, Remembers(f, b), NEW chunk, Len(chunk) \in Nat,
         \A n \in 1..Len(chunk) : chunk[n] = Input[b + n]
  PROVE  \A n \in 0..Len(chunk) : Remembers(Fed(f, chunk)[n], b + n)
<1> DEFINE L == Len(chunk)
           States == Fed(f, chunk)
           Wrong == {n \in 0..L : ~Remembers(States[n], b + n)}
<1>1. States[0] = f /\ \A n \in 1..L : States[n] = SampleFilter_put(States[n - 1], chunk[n])
  BY FedIs
<1> HIDE DEF States
<1>2. Wrong = {}
  <2> SUFFICES ASSUME Wrong # {}
               PROVE  FALSE
    OBVIOUS
  <2>1. Wrong \subseteq Nat
    OBVIOUS
  <2>2. PICK m \in Wrong : \A x \in Wrong : m <= x
    <3> HIDE DEF Wrong
    <3> QED
      BY <2>1, LeastExists
  <2>3. m \in 0..L /\ m \in Nat /\ ~Remembers(States[m], b + m)
    BY <2>2
  <2>4. m # 0
    BY <1>1, <2>3
  <2>5. m - 1 \in 0..L /\ m - 1 \in Nat /\ m \in 1..L /\ m - 1 \notin Wrong
    BY <2>2, <2>3, <2>4
  <2>6. Remembers(States[m - 1], b + (m - 1))
    BY <2>5
  <2>7. b + (m - 1) \in Nat /\ (b + (m - 1)) + 1 = b + m
    BY <2>5
  <2>8. Remembers(SampleFilter_put(States[m - 1], Input[b + m]), b + m)
    <3> DEFINE k == b + (m - 1)
    <3>1. k \in Nat /\ k + 1 = b + m /\ Remembers(States[m - 1], k)
      BY <2>6, <2>7
    <3> HIDE DEF k
    <3>2. Remembers(SampleFilter_put(States[m - 1], Input[k + 1]), k + 1)
      BY <3>1, PutRemembers
    <3> QED
      BY <3>1, <3>2
  <2>9. States[m] = SampleFilter_put(States[m - 1], Input[b + m])
    BY <1>1, <2>5
  <2> QED
    BY <2>3, <2>8, <2>9
<1> QED
  BY <1>2 DEF States

\* The frames' places in the input.
LEMMA BeforeGrows ==
  ASSUME SrcTypeOK, NEW i \in Nat, NEW k \in Nat, i <= k
  PROVE  Before(i) \in Nat /\ Before(k) \in Nat /\ Before(i) <= Before(k)
<1> DEFINE r == src.in_rate
           d == src.out_rate
<1>1. r \in Nat \ {0} /\ d \in Nat \ {0}
  BY DEF SrcTypeOK
<1> HIDE DEF r, d
<1>2. i * r \in Nat /\ k * r \in Nat /\ i * r <= k * r
  <2>1. PICK c \in Nat : k = i + c
    <3>1. k - i \in Nat /\ k = i + (k - i)
      OBVIOUS
    <3> QED
      BY <3>1
  <2>2. k * r = i * r + c * r /\ c * r \in Nat /\ i * r \in Nat
    BY <1>1, <2>1
  <2> QED
    BY <2>2
<1>3. (i * r) \div d \in Nat /\ (k * r) \div d \in Nat /\ (i * r) \div d <= (k * r) \div d
  BY <1>1, <1>2, QuotientIs, QuotientGrows
<1> QED
  BY <1>3 DEF Before, r, d

LEMMA BeforeReaches ==
  ASSUME SrcTypeOK, NEW q \in Nat
  PROVE  q * src.out_rate \in Nat /\ Before(q * src.out_rate) \in Nat
         /\ Before(q * src.out_rate) >= q
<1> DEFINE r == src.in_rate
           d == src.out_rate
<1>1. r \in Nat \ {0} /\ d \in Nat \ {0}
  BY DEF SrcTypeOK
<1> HIDE DEF r, d
<1>2. (q * d) * r = (q * r) * d /\ q * r \in Nat /\ q * d \in Nat
  BY <1>1
<1>3. ((q * r) * d) \div d = q * r
  BY <1>1, <1>2, QuotientOfMultiple
<1>4. q * r >= q
  <2>1. PICK c \in Nat : r = c + 1
    <3>1. r - 1 \in Nat /\ r = (r - 1) + 1
      BY <1>1
    <3> QED
      BY <3>1
  <2>2. q * (c + 1) = q * c + q /\ q * c \in Nat
    BY <2>1
  <2> QED
    BY <2>1, <2>2
<1>5. ((q * d) * r) \div d = q * r
  BY <1>2, <1>3
<1> QED
  BY <1>2, <1>4, <1>5 DEF Before, r, d

\* The first frame from lo on that lies behind input sample c.
LEMMA FirstIs ==
  ASSUME SrcTypeOK, NEW lo \in Nat, NEW hi \in Nat, NEW c \in Nat,
         lo <= c * src.out_rate, c * src.out_rate <= hi,
         NEW R, R = {i \in lo..hi : Before(i) >= c}
  PROVE  /\ Min(R) \in Nat /\ lo <= Min(R) /\ Min(R) <= c * src.out_rate
         /\ Before(Min(R)) >= c
         /\ \A i \in lo..(Min(R) - 1) : Before(i) < c
<1> DEFINE top == c * src.out_rate
<1>1. top \in Nat /\ top \in R
  BY BeforeReaches
<1>2. R \subseteq Nat
  OBVIOUS
<1>3. PICK m \in R : \A x \in R : m <= x
  BY <1>1, <1>2, LeastExists
<1>4. Min(R) = m
  BY <1>2, <1>3, MinIs
<1>5. m \in Nat /\ lo <= m /\ m <= hi /\ m <= top /\ Before(m) >= c
  BY <1>1, <1>3
<1>6. \A i \in lo..(m - 1) : Before(i) < c
  <2> SUFFICES ASSUME NEW i \in lo..(m - 1)
               PROVE  Before(i) < c
    OBVIOUS
  <2>1. i \in Nat /\ i \in lo..hi /\ i < m
    BY <1>5
  <2>2. i \notin R
    BY <1>3, <1>5, <2>1
  <2>3. ~(Before(i) >= c) /\ Before(i) \in Nat
    BY <2>1, <2>2, BeforeGrows
  <2> QED
    BY <2>3
<1> QED
  BY <1>4, <1>5, <1>6

LEMMA NextFrameIs ==
  ASSUME SrcTypeOK, NextFrame
  PROVE  src.out_base <= src.in_base * src.out_rate
<1> DEFINE b == src.in_base
           o == src.out_base
           top == b * src.out_rate
<1>1. b \in Nat /\ o \in Nat
  BY DEF SrcTypeOK
<1>2. top \in Nat /\ Before(top) \in Nat /\ Before(top) >= b
  BY <1>1, BeforeReaches
<1>3. \A i \in 0..(o - 1) : Before(i) + 1 < b
  BY DEF NextFrame
<1> HIDE DEF b, o, top
<1>4. ~(top \in 0..(o - 1))
  BY <1>1, <1>2, <1>3
<1>5. o <= top
  BY <1>1, <1>2, <1>4
<1> QED
  BY <1>5 DEF b, o, top

LEMMA InvariantMatters ==
  ASSUME SampleRateAssumption, SrcIInv
  PROVE  ChunksDoNotMatter
<1> DEFINE o == src.out_base
           b == src.in_base
           C == {i \in 0..(Len(Input) * src.out_rate) : Before(i) + 1 < b}
<1>1. SrcTypeOK /\ NextFrame /\ o \in Nat /\ b \in 0..Len(Input) /\ Len(Input) \in Nat
      /\ b \in Nat /\ src.out_rate \in Nat \ {0}
  BY DEF SrcIInv, SrcTypeOK, SampleRateAssumption
<1>2. o <= b * src.out_rate
  BY <1>1, NextFrameIs
<1>3. b * src.out_rate <= Len(Input) * src.out_rate /\ Len(Input) * src.out_rate \in Nat
      /\ b * src.out_rate \in Nat
  <2> DEFINE d == src.out_rate
             l == Len(Input)
  <2>1. l \in Nat /\ b \in Nat /\ b <= l /\ d \in Nat
    BY <1>1
  <2> HIDE DEF d, l, b
  <2>2. PICK c \in Nat : l = b + c
    <3>1. l - b \in Nat /\ l = b + (l - b)
      BY <2>1
    <3> QED
      BY <3>1
  <2>3. l * d = b * d + c * d /\ c * d \in Nat /\ b * d \in Nat
    BY <2>1, <2>2
  <2> QED
    BY <2>3 DEF d, l
<1>4. C = 0..(o - 1)
  <2>1. ASSUME NEW i \in C
        PROVE  i \in 0..(o - 1)
    <3>1. i \in Nat /\ Before(i) + 1 < b
      BY <1>3
    <3>2. ~(o <= i)
      <4> SUFFICES ASSUME o <= i
                   PROVE  FALSE
        OBVIOUS
      <4>1. Before(o) \in Nat /\ Before(i) \in Nat /\ Before(o) <= Before(i)
        BY <1>1, <3>1, BeforeGrows
      <4>2. Before(o) + 1 >= b
        BY <1>1 DEF NextFrame
      <4> QED
        BY <1>1, <3>1, <4>1, <4>2
    <3> QED
      BY <1>1, <3>1, <3>2
  <2>2. ASSUME NEW i \in 0..(o - 1)
        PROVE  i \in C
    <3>1. Before(i) + 1 < b
      BY <1>1 DEF NextFrame
    <3>2. i \in 0..(Len(Input) * src.out_rate)
      <4> DEFINE x == b * src.out_rate
                 y == Len(Input) * src.out_rate
      <4>1. x \in Nat /\ y \in Nat /\ x <= y /\ o <= x
        BY <1>2, <1>3
      <4> HIDE DEF x, y
      <4>2. i \in 0..y
        BY <1>1, <4>1
      <4> QED
        BY <4>2 DEF y
    <3> QED
      BY <3>1, <3>2
  <2> HIDE DEF C
  <2> QED
    BY <2>1, <2>2
<1>5. Cardinality(C) = o
  <2>1. Cardinality(0..(o - 1)) = IF 0 > o - 1 THEN 0 ELSE (o - 1) - 0 + 1
    <3> DEFINE zero == 0
               last == o - 1
    <3>1. zero \in Int /\ last \in Int
      BY <1>1
    <3> HIDE DEF zero, last
    <3>2. Cardinality(zero..last) = IF zero > last THEN 0 ELSE last - zero + 1
      BY <3>1, FS_Interval
    <3> QED
      BY <3>2 DEF zero, last
  <2> HIDE DEF C
  <2> QED
    BY <1>1, <1>4, <2>1
<1>6. src.out = [n \in 1..o |-> Whole(n - 1)]
  BY DEF SrcIInv
<1>7. Len(src.out) = o
  BY <1>1, <1>6
<1>8. \A i \in 0..(o - 1) : src.out[i + 1] = Whole(i)
  <2> SUFFICES ASSUME NEW i \in 0..(o - 1)
               PROVE  src.out[i + 1] = Whole(i)
    OBVIOUS
  <2>1. i + 1 \in 1..o /\ (i + 1) - 1 = i
    BY <1>1
  <2> QED
    BY <1>6, <2>1
<1> QED
  BY <1>5, <1>7, <1>8 DEF ChunksDoNotMatter

\* A chunk of the input, behind the filter where there is one, is that part of
\* the signal, and the filter remembers it.
LEMMA SignalIs ==
  ASSUME SampleRateAssumption, SrcIInv, NEW n \in Nat \ {0}, src.in_base + n <= Len(Input),
         NEW chunk, chunk = SubSeq(Input, src.in_base + 1, src.in_base + n),
         NEW signal,
         ~src.bEnableFir => signal = chunk,
         src.bEnableFir =>
           /\ Len(signal) = Len(chunk)
           /\ \A k \in 1..Len(chunk) : signal[k] = SampleFilter_get(Fed(src.f, chunk)[k])
  PROVE  /\ Len(chunk) = n /\ Len(signal) = n
         /\ \A k \in 1..n : signal[k] = Signal(src.in_base + k)
         /\ src.bEnableFir => Remembers(Fed(src.f, chunk)[Len(chunk)], src.in_base + n)
<1> DEFINE b == src.in_base
<1>1. b \in Nat /\ Len(Input) \in Nat /\ Input \in Seq(Int)
  BY DEF SrcIInv, SrcTypeOK, SampleRateAssumption
<1>2. Len(chunk) = n /\ \A k \in 1..n : chunk[k] = Input[b + k]
  <2>0. b + n <= Len(Input)
    OBVIOUS
  <2> HIDE DEF b
  <2>1. b + 1 \in Nat /\ b + n \in Nat /\ 1 <= b + 1 /\ b + n <= Len(Input)
        /\ (b + n) - (b + 1) + 1 = n
    BY <1>1, <2>0
  <2>2. chunk = [k \in 1..n |-> Input[(b + 1) + k - 1]] /\ chunk \in Seq(Int) /\ Len(chunk) = n
    <3>1. chunk = SubSeq(Input, b + 1, b + n)
      BY DEF b
    <3> DEFINE lo == b + 1
               hi == b + n
    <3>2. lo \in Nat /\ hi \in Nat /\ 1 <= lo /\ hi <= Len(Input) /\ hi - lo + 1 = n
          /\ lo <= hi + 1 /\ hi \in Int
      BY <1>1, <2>1
    <3> HIDE DEF lo, hi
    <3>3. SubSeq(Input, lo, hi) \in Seq(Int) /\ Len(SubSeq(Input, lo, hi)) = n
          /\ SubSeq(Input, lo, hi) = [k \in 1..n |-> Input[lo + k - 1]]
      BY <1>1, <3>2
    <3> QED
      BY <3>1, <3>3 DEF lo, hi
  <2>3. \A k \in 1..n : (b + 1) + k - 1 = b + k
    BY <1>1
  <2> QED
    BY <2>2, <2>3
<1>3. CASE ~src.bEnableFir
  BY <1>2, <1>3 DEF Signal
<1>4. CASE src.bEnableFir
  <2>1. Remembers(src.f, b)
    BY <1>4 DEF SrcIInv
  <2>2. \A k \in 0..n : Remembers(Fed(src.f, chunk)[k], b + k)
    BY <1>1, <1>2, <2>1, FedRemembers
  <2>3. \A k \in 1..n : signal[k] = Weighted(Past(b + k))
    <3> SUFFICES ASSUME NEW k \in 1..n
                 PROVE  signal[k] = Weighted(Past(b + k))
      OBVIOUS
    <3>1. signal[k] = SampleFilter_get(Fed(src.f, chunk)[k])
      BY <1>2, <1>4
    <3>2. b + k \in Nat /\ Remembers(Fed(src.f, chunk)[k], b + k)
      BY <1>1, <2>2
    <3> QED
      BY <3>1, <3>2, GetIs
  <2>6. Len(signal) = n
    BY <1>2, <1>4
  <2>7. \A k \in 1..n : signal[k] = Signal(b + k)
    BY <1>4, <2>3 DEF Signal
  <2>8. Remembers(Fed(src.f, chunk)[Len(chunk)], b + n)
    <3>1. n \in 0..n
      OBVIOUS
    <3>2. Remembers(Fed(src.f, chunk)[n], b + n)
      BY <2>2, <3>1
    <3>3. Len(chunk) = n
      BY <1>2
    <3> QED
      BY <3>2, <3>3
  <2> QED
    BY <1>2, <2>6, <2>7, <2>8
<1> QED
  BY <1>3, <1>4

\* Frames put behind frames.
LEMMA BehindIs ==
  ASSUME NEW S, NEW s \in Seq(S), NEW t \in Seq(S)
  PROVE  s \o t = [n \in 1..(Len(s) + Len(t)) |-> IF n <= Len(s) THEN s[n] ELSE t[n - Len(s)]]
<1> DEFINE b == [n \in 1..(Len(s) + Len(t)) |-> IF n <= Len(s) THEN s[n] ELSE t[n - Len(s)]]
<1>1. Len(s) \in Nat /\ Len(t) \in Nat
  OBVIOUS
<1>2. s \o t \in Seq(S) /\ Len(s \o t) = Len(s) + Len(t)
  OBVIOUS
<1>3. \A n \in 1..(Len(s) + Len(t)) :
        (s \o t)[n] = IF n <= Len(s) THEN s[n] ELSE t[n - Len(s)]
  BY ConcatProperties
<1>4. s \o t = [n \in 1..Len(s \o t) |-> (s \o t)[n]]
  <2> DEFINE c == s \o t
  <2>1. c \in Seq(S)
    BY <1>2
  <2> HIDE DEF c
  <2>2. c = [n \in 1..Len(c) |-> c[n]]
    BY <2>1
  <2> QED
    BY <2>2 DEF c
<1> QED
  BY <1>2, <1>3, <1>4

LEMMA FramesJoin ==
  ASSUME NEW S, NEW s \in Seq(S), NEW t \in Seq(S), NEW w,
         \A n \in 1..Len(s) : s[n] = w[n - 1],
         \A n \in 1..Len(t) : t[n] = w[Len(s) + n - 1]
  PROVE  s \o t = [n \in 1..(Len(s) + Len(t)) |-> w[n - 1]]
<1>2. s \o t = [n \in 1..(Len(s) + Len(t)) |-> IF n <= Len(s) THEN s[n] ELSE t[n - Len(s)]]
  BY BehindIs
<1> DEFINE o == Len(s)
           e == o + Len(t)
<1>1. o \in Nat /\ e \in Nat /\ Len(t) \in Nat
  OBVIOUS
<1>3. \A n \in 1..e : (IF n <= o THEN s[n] ELSE t[n - o]) = w[n - 1]
  <2> SUFFICES ASSUME NEW n \in 1..e
               PROVE  (IF n <= o THEN s[n] ELSE t[n - o]) = w[n - 1]
    OBVIOUS
  <2>1. CASE n <= o
    <3>1. n \in 1..o
      BY <1>1, <2>1
    <3> QED
      BY <2>1, <3>1
  <2>2. CASE ~(n <= o)
    <3>1. n - o \in 1..Len(t) /\ o + (n - o) - 1 = n - 1
      <4> DEFINE l == Len(t)
      <4>1. l \in Nat /\ n \in 1..(o + l)
        BY <1>1
      <4> HIDE DEF o, l
      <4>2. n - o \in 1..l /\ o + (n - o) - 1 = n - 1
        BY <1>1, <2>2, <4>1
      <4> QED
        BY <4>2 DEF l
    <3>2. t[n - o] = w[o + (n - o) - 1]
      BY <3>1
    <3> QED
      BY <2>2, <3>1, <3>2
  <2> QED
    BY <2>1, <2>2
<1> QED
  BY <1>2, <1>3

LEMMA ExecKeeps ==
  ASSUME SampleRateAssumption, SrcIInv, NEW n \in Nat \ {0}, NEW room,
         src.in_base + n <= Len(Input),
         AML_SRCS16LE_Exec(room, SubSeq(Input, src.in_base + 1, src.in_base + n))
  PROVE  SrcIInv'
<1> DEFINE b == src.in_base
           o == src.out_base
           d == src.out_rate
           chunk == SubSeq(Input, b + 1, b + n)
           fed == Fed(src.f, chunk)
           signal == IF src.bEnableFir
                     THEN [k \in 1..Len(chunk) |-> SampleFilter_get(fed[k])]
                     ELSE chunk
           Reach == o..((b + Len(chunk) + 1) * d)
           R1 == {i \in Reach : Before(i) >= b}
           joint == Min(R1)
           R2 == {i \in Reach : i >= joint /\ (Before(i) - b) + 1 >= Len(chunk)}
           e == Min(R2)
           Frame(i) == LET j == Before(i) - b IN
             IF i < joint THEN linear_interp(src.last, signal[1], Phase(i), d)
             ELSE linear_interp(signal[j + 1], signal[j + 2], Phase(i), d)
           new == [k \in 1..(e - o) |-> Frame(o + k - 1)]
           a == src.asserted \/ (\E i \in o..(joint - 1) : Before(i) + 1 # b)
                             \/ (\E i \in joint..(e - 1) : i >= o + room)
           f1 == IF src.bEnableFir THEN fed[Len(chunk)] ELSE src.f
<1>1. src' = [src EXCEPT !.asserted = a, !.out = src.out \o new, !.f = f1,
                         !.out_base = e, !.in_base = b + Len(chunk),
                         !.last = signal[Len(signal)]]
  BY DEF AML_SRCS16LE_Exec, LastOf
<1>2. /\ Len(chunk) = n /\ Len(signal) = n
      /\ \A k \in 1..n : signal[k] = Signal(b + k)
      /\ src.bEnableFir => Remembers(fed[Len(chunk)], b + n)
  <2>1. chunk = SubSeq(Input, src.in_base + 1, src.in_base + n)
    OBVIOUS
  <2>2. /\ ~src.bEnableFir => signal = chunk
        /\ src.bEnableFir =>
             /\ Len(signal) = Len(chunk)
             /\ \A k \in 1..Len(chunk) : signal[k] = SampleFilter_get(Fed(src.f, chunk)[k])
    <3> DEFINE g == [k \in 1..Len(chunk) |-> SampleFilter_get(fed[k])]
    <3>1. Len(chunk) \in Nat
      <4>1. src.in_base + 1 \in Nat /\ src.in_base + n \in Nat /\ Input \in Seq(Int)
        BY DEF SrcIInv, SrcTypeOK, SampleRateAssumption
      <4> QED
        BY <4>1
    <3>2. Len(g) = Len(chunk) /\ \A k \in 1..Len(chunk) : g[k] = SampleFilter_get(fed[k])
      <4> HIDE DEF chunk, fed
      <4> QED
        BY <3>1
    <3>3. signal = IF src.bEnableFir THEN g ELSE chunk
      OBVIOUS
    <3> HIDE DEF chunk, g, signal
    <3> QED
      BY <3>2, <3>3
  <2>3. fed = Fed(src.f, chunk)
    OBVIOUS
  <2> HIDE DEF chunk, signal, fed
  <2>4. /\ Len(chunk) = n /\ Len(signal) = n
        /\ \A k \in 1..n : signal[k] = Signal(src.in_base + k)
        /\ src.bEnableFir => Remembers(Fed(src.f, chunk)[Len(chunk)], src.in_base + n)
    <3>1. \A ch, sg :
            /\ ch = SubSeq(Input, src.in_base + 1, src.in_base + n)
            /\ ~src.bEnableFir => sg = ch
            /\ src.bEnableFir =>
                 /\ Len(sg) = Len(ch)
                 /\ \A k \in 1..Len(ch) : sg[k] = SampleFilter_get(Fed(src.f, ch)[k])
            => /\ Len(ch) = n /\ Len(sg) = n
               /\ \A k \in 1..n : sg[k] = Signal(src.in_base + k)
               /\ src.bEnableFir => Remembers(Fed(src.f, ch)[Len(ch)], src.in_base + n)
      BY SignalIs
    <3> QED
      BY <2>1, <2>2, <3>1
  <2> QED
    BY <2>3, <2>4
<1>3. /\ SrcTypeOK /\ NextFrame /\ b \in Nat /\ o \in Nat /\ d \in Nat \ {0}
      /\ b + n <= Len(Input) /\ Len(Input) \in Nat
      /\ src.out = [k \in 1..o |-> Whole(k - 1)]
      /\ src.bEnableFir => Remembers(src.f, b)
      /\ b > 0 => src.last = Signal(b)
  BY DEF SrcIInv, SrcTypeOK, SampleRateAssumption
<1> HIDE DEF signal, fed, chunk
<1>15. o <= b * d
  BY <1>3, NextFrameIs
<1>16. \A lo, hi, c \in Nat : \A R :
         lo <= c * d /\ c * d <= hi /\ R = {i \in lo..hi : Before(i) >= c}
         => /\ Min(R) \in Nat /\ lo <= Min(R) /\ Min(R) <= c * d
            /\ Before(Min(R)) >= c
            /\ \A i \in lo..(Min(R) - 1) : Before(i) < c
  BY <1>3, FirstIs
<1>17. src.in_base = b /\ src.out_base = o /\ src.out_rate = d
  OBVIOUS
<1>18. Before(o) + 1 >= b /\ \A i \in 0..(o - 1) : Before(i) + 1 < b
  BY <1>3 DEF NextFrame
<1>19. \A i, k \in Nat : i <= k => Before(i) \in Nat /\ Before(k) \in Nat
                                  /\ Before(i) <= Before(k)
  BY <1>3, BeforeGrows
<1>4. SrcTypeOK' = SrcTypeOK' /\ src'.in_rate = src.in_rate /\ src'.out_rate = d
      /\ src'.in_base = b + n /\ src'.out_base = e /\ src'.out = src.out \o new
      /\ src'.bEnableFir = src.bEnableFir /\ src'.last = signal[n] /\ src'.f = f1
      /\ src' = [in_rate |-> src'.in_rate, out_rate |-> src'.out_rate,
                 in_base |-> src'.in_base, out_base |-> src'.out_base, last |-> src'.last,
                 bEnableFir |-> src'.bEnableFir, f |-> src'.f, out |-> src'.out,
                 asserted |-> src'.asserted]
  <2> DEFINE out1 == src.out \o new
             b1 == b + Len(chunk)
             last1 == signal[Len(signal)]
  <2>1. src = [in_rate |-> src.in_rate, out_rate |-> src.out_rate, in_base |-> src.in_base,
            out_base |-> src.out_base, last |-> src.last, bEnableFir |-> src.bEnableFir,
            f |-> src.f, out |-> src.out, asserted |-> src.asserted]
    BY <1>3 DEF SrcTypeOK
  <2>2. src' = [src EXCEPT !.asserted = a, !.out = out1, !.f = f1,
                           !.out_base = e, !.in_base = b1, !.last = last1]
    BY <1>1
  <2>3. b1 = b + n /\ last1 = signal[n]
    BY <1>2
  <2> HIDE DEF out1, b1, last1, a, f1, e
  <2>4. src' = [in_rate |-> src.in_rate, out_rate |-> src.out_rate, in_base |-> b1,
                out_base |-> e, last |-> last1, bEnableFir |-> src.bEnableFir,
                f |-> f1, out |-> out1, asserted |-> a]
    BY <2>1, <2>2
  <2> QED
    BY <2>3, <2>4 DEF out1
<1> HIDE DEF b, o, d
<1>5. /\ joint \in Nat /\ o <= joint /\ joint <= b * d /\ Before(joint) >= b
      /\ \A i \in o..(joint - 1) : Before(i) < b
  <2> DEFINE hi == (b + Len(chunk) + 1) * d
  <2>1. o <= b * d
    BY <1>15
  <2>2. hi \in Nat /\ b * d <= hi
    <3>1. hi = b * d + (n + 1) * d /\ (n + 1) * d \in Nat /\ b * d \in Nat
      BY <1>2, <1>3
    <3> QED
      BY <3>1
  <2>3. R1 = {i \in o..hi : Before(i) >= b}
    OBVIOUS
  <2> HIDE DEF hi, R1
  <2> QED
    BY <1>3, <2>1, <2>2, <2>3, <1>16
<1> HIDE DEF R1, joint
<1>6. /\ e \in Nat /\ joint <= e /\ Before(e) >= b + n - 1
      /\ \A i \in joint..(e - 1) : Before(i) < b + n - 1
  <2> DEFINE hi == (b + Len(chunk) + 1) * d
             c == b + n - 1
  <2>1. c \in Nat /\ c >= b
    BY <1>3
  <2>2. hi \in Nat /\ b * d <= c * d /\ c * d <= hi /\ c * d \in Nat
    <3>4. hi = (c + 2) * d
      <4>1. b + Len(chunk) + 1 = c + 2
        BY <1>2, <1>3
      <4> HIDE DEF c
      <4> QED
        BY <4>1
    <3>1. hi = c * d + (d + d) /\ c * d \in Nat
      <4> HIDE DEF c, hi
      <4> QED
        BY <1>3, <2>1, <3>4
    <3>2. c * d = b * d + (n - 1) * d /\ (n - 1) * d \in Nat /\ b * d \in Nat
      <4>1. n - 1 \in Nat /\ c = b + (n - 1)
        BY <1>3
      <4> QED
        BY <1>3, <4>1
    <3> QED
      BY <1>3, <3>1, <3>2
  <2>3. R2 = {i \in joint..hi : Before(i) >= c}
    <3>1. \A i \in o..hi : i >= joint => Before(i) \in Nat /\ i \in joint..hi
      BY <1>3, <1>5, <1>19
    <3>2. \A i \in joint..hi : i \in o..hi /\ i >= joint /\ Before(i) \in Nat
      BY <1>3, <1>5, <1>19
    <3>3. \A x \in Nat : (x - b) + 1 >= n <=> x >= c
      BY <1>3
    <3>4. R2 = {i \in o..hi : i >= joint /\ (Before(i) - b) + 1 >= n}
      BY <1>2
    <3> HIDE DEF R2, c, hi
    <3> QED
      BY <3>1, <3>2, <3>3, <3>4
  <2>4. joint <= c * d
    <3> DEFINE x == b * d
               y == c * d
    <3>1. x \in Nat /\ y \in Nat /\ x <= y /\ joint <= x
      BY <1>3, <1>5, <2>2
    <3> HIDE DEF x, y
    <3>2. joint <= y
      BY <1>5, <3>1
    <3> QED
      BY <3>2 DEF y
  <2> HIDE DEF hi, R2, c
  <2>5. /\ Min(R2) \in Nat /\ joint <= Min(R2) /\ Before(Min(R2)) >= c
        /\ \A i \in joint..(Min(R2) - 1) : Before(i) < c
    BY <1>3, <1>5, <2>1, <2>2, <2>3, <2>4, <1>16
  <2> QED
    BY <2>5 DEF c
<1> HIDE DEF e, R2
<1>7. SrcTypeOK'
  <2>1. src.in_rate \in Nat \ {0} /\ b + n \in 0..Len(Input)
    BY <1>3 DEF SrcTypeOK
  <2> QED
    BY <1>3, <1>4, <1>6, <2>1 DEF SrcTypeOK
<1>8. \A i : Before(i)' = Before(i) /\ Phase(i)' = Phase(i) /\ Signal(i)' = Signal(i)
             /\ Whole(i)' = Whole(i)
  BY <1>4, <1>17 DEF Before, Phase, Signal, Whole
<1>9. NextFrame'
  <2>1. \A i \in 0..(e - 1) : Before(i) + 1 < b + n
    <3> SUFFICES ASSUME NEW i \in 0..(e - 1)
                 PROVE  Before(i) + 1 < b + n
      OBVIOUS
    <3>1. i \in Nat /\ (i \in 0..(o - 1) \/ i \in o..(joint - 1) \/ i \in joint..(e - 1))
      BY <1>3, <1>5, <1>6
    <3>2. Before(i) \in Nat
      BY <1>3, <3>1, <1>19
    <3>3. CASE i \in 0..(o - 1)
      <4>1. Before(i) + 1 < b
        BY <1>18, <3>3
      <4> QED
        BY <1>3, <3>2, <4>1
    <3>4. CASE i \in o..(joint - 1)
      <4>1. Before(i) < b
        BY <1>5, <3>4
      <4> QED
        BY <1>3, <3>2, <4>1
    <3>5. CASE i \in joint..(e - 1)
      <4>1. Before(i) < b + n - 1
        BY <1>6, <3>5
      <4> QED
        BY <1>3, <3>2, <4>1
    <3> QED
      BY <3>1, <3>3, <3>4, <3>5
  <2>2. Before(e) + 1 >= b + n
    <3>1. Before(e) \in Nat /\ Before(e) >= b + n - 1
      BY <1>3, <1>6, <1>19
    <3> QED
      BY <1>3, <3>1
  <2> QED
    BY <1>4, <1>17, <2>1, <2>2 DEF NextFrame, Before
<1>10. \A i \in o..(e - 1) : Frame(i) = Whole(i)
  <2> SUFFICES ASSUME NEW i \in o..(e - 1)
               PROVE  Frame(i) = Whole(i)
    OBVIOUS
  <2>1. i \in Nat /\ Before(i) \in Nat
    <3>1. i \in Nat
      BY <1>3, <1>6
    <3> QED
      BY <1>3, <3>1, <1>19
  <2>2. CASE i < joint
    <3>1. Before(i) < b
      BY <1>3, <1>5, <2>1, <2>2
    <3>2. Before(o) \in Nat /\ Before(o) <= Before(i) /\ Before(o) + 1 >= b
      BY <1>3, <1>18, <1>19, <2>1
    <3>3. Before(i) + 1 = b /\ Before(i) + 2 = b + 1 /\ b > 0
      <4> DEFINE x == Before(i)
                 y == Before(o)
      <4>1. x \in Nat /\ y \in Nat /\ b \in Nat /\ x < b /\ y <= x /\ y + 1 >= b
        BY <1>3, <2>1, <3>1, <3>2
      <4> HIDE DEF x, y, b
      <4>2. x + 1 = b /\ x + 2 = b + 1 /\ b > 0
        BY <4>1
      <4> QED
        BY <4>2 DEF x
    <3>4. src.last = Signal(Before(i) + 1) /\ signal[1] = Signal(Before(i) + 2)
      BY <1>2, <1>3, <3>3
    <3> QED
      BY <1>17, <2>2, <3>4 DEF Whole
  <2>3. CASE ~(i < joint)
    <3>1. i \in joint..(e - 1)
      BY <1>5, <1>6, <2>1, <2>3
    <3>2. Before(i) < b + n - 1
      BY <1>6, <3>1
    <3>3. Before(joint) \in Nat /\ Before(joint) <= Before(i) /\ Before(joint) >= b
      BY <1>3, <1>5, <1>19, <2>1, <3>1
    <3> DEFINE j == Before(i) - b
    <3>4. j + 1 \in 1..n /\ j + 2 \in 1..n /\ b + (j + 1) = Before(i) + 1
          /\ b + (j + 2) = Before(i) + 2
      <4> DEFINE x == Before(i)
      <4>1. x \in Nat /\ x < b + n - 1 /\ x >= b
        BY <1>3, <2>1, <3>2, <3>3
      <4>3. b \in Nat
        BY <1>3
      <4> HIDE DEF x
      <4>2. (x - b) + 1 \in 1..n /\ (x - b) + 2 \in 1..n /\ b + ((x - b) + 1) = x + 1
            /\ b + ((x - b) + 2) = x + 2
        BY <4>1, <4>3
      <4> QED
        BY <4>2 DEF x
    <3>5. signal[j + 1] = Signal(Before(i) + 1) /\ signal[j + 2] = Signal(Before(i) + 2)
      BY <1>2, <3>4
    <3> QED
      BY <1>17, <2>3, <3>5 DEF Whole
  <2> QED
    BY <2>2, <2>3
<1>11. src.out \o new = [k \in 1..e |-> Whole(k - 1)]
  <2> DEFINE w == [i \in Nat |-> Whole(i)]
             T == {Whole(i) : i \in Nat}
             sofar == [k \in 1..o |-> Whole(k - 1)]
  <2>1. sofar \in Seq(T) /\ Len(sofar) = o /\ \A k \in 1..o : sofar[k] = w[k - 1]
    <3>1. \A k \in 1..o : k - 1 \in Nat
      BY <1>3
    <3>2. \A k \in 1..o : Whole(k - 1) \in T /\ w[k - 1] = Whole(k - 1)
      BY <3>1
    <3> HIDE DEF T, w
    <3>3. sofar \in [1..o -> T] /\ \A k \in 1..o : sofar[k] = w[k - 1]
      BY <3>2
    <3> HIDE DEF sofar
    <3>4. Len(sofar) = o /\ sofar \in Seq(T)
      BY <1>3, <3>3
    <3> QED
      BY <3>3, <3>4
  <2>2. new \in Seq(T) /\ Len(new) = e - o /\ \A k \in 1..(e - o) : new[k] = w[o + k - 1]
    <3>1. \A k \in 1..(e - o) : o + k - 1 \in Nat /\ o + k - 1 \in o..(e - 1)
      BY <1>3, <1>6
    <3>2. e - o \in Nat
      BY <1>3, <1>5, <1>6
    <3> HIDE DEF Frame
    <3>3. \A k \in 1..(e - o) : Frame(o + k - 1) = Whole(o + k - 1)
      BY <1>10, <3>1
    <3>4. \A k \in 1..(e - o) : Frame(o + k - 1) \in T /\ Frame(o + k - 1) = w[o + k - 1]
      BY <3>1, <3>3
    <3> HIDE DEF T, w
    <3>5. new \in [1..(e - o) -> T] /\ \A k \in 1..(e - o) : new[k] = w[o + k - 1]
      BY <3>4
    <3> HIDE DEF new
    <3>6. Len(new) = e - o /\ new \in Seq(T)
      BY <3>2, <3>5
    <3> QED
      BY <3>5, <3>6
  <2> HIDE DEF new, w, sofar, T
  <2>3. sofar \o new = [k \in 1..(Len(sofar) + Len(new)) |-> w[k - 1]]
    <3>1. /\ sofar \in Seq(T) /\ new \in Seq(T)
          /\ \A k \in 1..Len(sofar) : sofar[k] = w[k - 1]
          /\ \A k \in 1..Len(new) : new[k] = w[Len(sofar) + k - 1]
      BY <2>1, <2>2
    <3> QED
      BY <3>1, FramesJoin, SMTT(60)
  <2>4. Len(sofar) + Len(new) = e
    BY <1>3, <1>6, <2>1, <2>2
  <2>5. \A k \in 1..e : k - 1 \in Nat
    BY <1>6
  <2>6. [k \in 1..e |-> w[k - 1]] = [k \in 1..e |-> Whole(k - 1)]
    BY <2>5 DEF w
  <2>7. src.out = sofar
    BY <1>3 DEF sofar
  <2> QED
    BY <2>3, <2>4, <2>6, <2>7
<1>12. (src.last = Signal(src.in_base))'
  <2>1. src'.last = Signal(b + n)
    BY <1>2, <1>4
  <2> QED
    BY <1>4, <2>1 DEF Signal
<1>13. src'.out = [k \in 1..src'.out_base |-> Whole(k - 1)']
  BY <1>4, <1>8, <1>11
<1>14. src'.bEnableFir => Remembers(src'.f, src'.in_base)
  BY <1>2, <1>4
<1> QED
  BY <1>7, <1>9, <1>12, <1>13, <1>14 DEF SrcIInv, Remembers, Whole

\* Every rate starts with nothing read and nothing put out.
LEMMA ConverterStarts ==
  ASSUME SampleRateAssumption, NEW rate \in (Nat \ {0}) \X (Nat \ {0}), 
         \/ src = AML_SRCS16LE_Init(rate)
         \/ src = [AML_SRCS16LE_Init(rate) EXCEPT !.asserted = TRUE]
  PROVE  SrcIInv
<1> DEFINE x == rate[1]
           y == rate[2]
           p == x \div gcd(x, y)
           q == y \div gcd(x, y)
           z == rate \in Filtered
<1>1. p \in Nat \ {0} /\ q \in Nat \ {0}
  <2>1. x \in Nat \ {0} /\ y \in Nat \ {0}
    OBVIOUS
  <2> HIDE DEF x, y
  <2> QED
    BY <2>1, GcdIs
<1>2. PICK a \in BOOLEAN :
        src = [in_rate |-> p, out_rate |-> q, in_base |-> 0, out_base |-> 0, last |-> 0,
               bEnableFir |-> z, f |-> SampleFilter_init, out |-> << >>, asserted |-> a]
  BY DEF AML_SRCS16LE_Init
<1> HIDE DEF p, q, x, y, z
<1>3. Len(Input) \in Nat
  BY DEF SampleRateAssumption
<1>4. SrcTypeOK
  <2>1. src.in_rate = p /\ src.out_rate = q /\ src.in_base = 0 /\ src.out_base = 0
    BY <1>2
  <2>2. src = [in_rate |-> src.in_rate, out_rate |-> src.out_rate, in_base |-> src.in_base,
               out_base |-> src.out_base, last |-> src.last, bEnableFir |-> src.bEnableFir,
               f |-> src.f, out |-> src.out, asserted |-> src.asserted]
    BY <1>2, Zenon
  <2> QED
    BY <1>1, <1>3, <2>1, <2>2 DEF SrcTypeOK
<1>5. NextFrame
  <2>1. Before(0) = 0
    BY <1>1, <1>2 DEF Before
  <2> QED
    BY <1>2, <2>1 DEF NextFrame
<1>6. src.out = [n \in 1..src.out_base |-> Whole(n - 1)]
  <2> DEFINE none == [n \in 1..0 |-> Whole(n - 1)]
  <2>1. 1..0 = {}
    OBVIOUS
  <2>2. none \in [1..0 -> {}]
    BY <2>1
  <2> HIDE DEF none
  <2>3. none \in Seq({}) /\ Len(none) = 0
    BY <2>2
  <2>4. none = << >>
    BY <2>3, EmptySeq
  <2>5. src.out = none /\ src.out_base = 0
    BY <1>2, <2>4
  <2>6. 1..src.out_base = 1..0
    BY <2>5
  <2> QED
    BY <2>5, <2>6 DEF none
<1>7. Remembers(src.f, src.in_base)
  <2>1. TapNum \in Nat \ {0}
    BY TapNumIs
  <2>2. 0 % TapNum = 0
    BY <2>1
  <2>3. \A i \in 1..TapNum : Past(0)[i] = 0 /\ (0 - i) % TapNum \in 0..(TapNum - 1)
    BY <2>1 DEF Past
  <2> DEFINE h == [i \in 0..(TapNum - 1) |-> 0]
  <2>4. \A i \in 1..TapNum : h[(0 - i) % TapNum] = 0
    BY <2>3
  <2>5. SampleFilter_init = [history |-> h, last_index |-> 0]
    BY DEF SampleFilter_init
  <2>6. h = [i \in 0..(TapNum - 1) |-> h[i]]
    OBVIOUS
  <2> HIDE DEF h
  <2>7. Remembers(SampleFilter_init, 0)
    BY <2>2, <2>3, <2>4, <2>5, <2>6 DEF Remembers
  <2> QED
    BY <1>2, <2>7
<1> QED
  BY <1>2, <1>4, <1>5, <1>6, <1>7 DEF SrcIInv

LEMMA SrcBegins ==
  ASSUME SampleRateAssumption, SrcInit \/ SrcIdle
  PROVE  SrcIInv
<1>1. CASE SrcInit
  <2>1. PICK rate \in Rates : src = AML_SRCS16LE_Init(rate)
    BY <1>1 DEF SrcInit
  <2>2. rate \in (Nat \ {0}) \X (Nat \ {0})
    BY <2>1, SampleRateAssumption DEF SampleRateAssumption
  <2> QED
    BY <2>1, <2>2, ConverterStarts
<1>2. CASE SrcIdle
  <2>1. <<1, 1>> \in (Nat \ {0}) \X (Nat \ {0})
    OBVIOUS
  <2> QED
    BY <1>2, <2>1, ConverterStarts DEF SrcIdle
<1> QED
  BY <1>1, <1>2

LEMMA SrcStepKeeps ==
  ASSUME SampleRateAssumption, SrcIInv, SrcNext \/ UNCHANGED src
  PROVE  SrcIInv'
<1>1. CASE SrcNext
  <2>1. PICK n \in Chunks :
          /\ src.in_base + n <= Len(Input)
          /\ AML_SRCS16LE_Exec((n * src.out_rate) \div src.in_rate,
                               SubSeq(Input, src.in_base + 1, src.in_base + n))
    BY <1>1 DEF SrcNext
  <2>2. n \in Nat \ {0}
    BY <2>1, SampleRateAssumption DEF SampleRateAssumption
  <2> QED
    BY <2>1, <2>2, ExecKeeps
<1>2. CASE UNCHANGED src
  BY <1>2 DEF SrcIInv, SrcTypeOK, NextFrame, Remembers, Whole, Signal, Before, Phase
<1> QED
  BY <1>1, <1>2

\* The converter's output is that of the stream in one piece for every stream,
\* every pair of rates and every way to cut the stream into chunks:
\* AML_SRCS16LE_Exec misses no frame and doubles none where two chunks meet.
THEOREM ConverterIgnoresChunks == Spec => []ChunksDoNotMatter
<1>1. Init => SrcIInv
  <2> SUFFICES ASSUME Init
               PROVE  SrcIInv
    OBVIOUS
  <2>1. SrcInit \/ SrcIdle
    BY DEF Init
  <2> QED
    BY <2>1, SrcBegins, SampleRateAssumption
<1>2. SrcIInv /\ [Next]_vars => SrcIInv'
  <2> SUFFICES ASSUME SrcIInv, [Next]_vars
               PROVE  SrcIInv'
    OBVIOUS
  <2>1. SrcNext \/ UNCHANGED src
    BY DEF Next, vars
  <2> QED
    BY <2>1, SrcStepKeeps, SampleRateAssumption
<1>3. SrcIInv => ChunksDoNotMatter
  BY InvariantMatters, SampleRateAssumption
<1> QED
  BY <1>1, <1>2, <1>3, PTL DEF Spec

-----------------------------------------------------------------------------
(***************************************************************************)
(* The DSP control program: the bits are those of the options read, and    *)
(* what has been asked for is what of the command line lies above the row. *)
(***************************************************************************)

\* A bit and what stands above it.
Two(x, above) == x + 2 * above

\* What of cmd stands at the bit and above it is above.
Ends(cmd, bit, above) == \E low \in 0..(bit - 1) : cmd = low + bit * above

LEMMA TwoIs ==
  ASSUME NEW x \in {0, 1}, NEW above \in Nat
  PROVE  Two(x, above) \in Nat
BY DEF Two

\* A bit is read off, and what stands above it stands at the next bit.
LEMMA BitIs ==
  ASSUME NEW cmd, NEW bit \in Nat \ {0}, NEW x \in {0, 1}, NEW above \in Nat,
         Ends(cmd, bit, Two(x, above))
  PROVE  (Has(cmd, bit) <=> x = 1) /\ Ends(cmd, 2 * bit, above)
<1>1. PICK low \in 0..(bit - 1) : cmd = low + bit * Two(x, above)
  BY DEF Ends
<1> DEFINE q == Two(x, above)
<1>2. q \in Nat /\ q = x + 2 * above
  BY TwoIs DEF Two
<1>3. cmd = low + bit * q
  BY <1>1
<1> HIDE DEF q
<1>4. cmd = q * bit + low /\ low \in Nat /\ low < bit
  BY <1>1, <1>2, <1>3
<1>5. (q * bit + low) \div bit = q
  BY <1>2, <1>4, Z3
<1>6. q % 2 = x
  BY <1>2
<1>7. Has(cmd, bit) <=> x = 1
  BY <1>4, <1>5, <1>6 DEF Has
<1>8. Ends(cmd, 2 * bit, above)
  <2>1. CASE x = 0
    <3>1. cmd = low + bit * (2 * above)
      BY <1>2, <1>3, <2>1
    <3>2. bit * (2 * above) = (2 * bit) * above
      OBVIOUS
    <3>3. low \in 0..(2 * bit - 1)
      OBVIOUS
    <3> QED
      BY <3>1, <3>2, <3>3 DEF Ends
  <2>2. CASE x = 1
    <3>1. cmd = low + bit * (1 + 2 * above)
      BY <1>2, <1>3, <2>2
    <3>2. bit * (1 + 2 * above) = bit + (2 * bit) * above
      OBVIOUS
    <3>3. low + bit \in 0..(2 * bit - 1) /\ (2 * bit) * above \in Int
      OBVIOUS
    <3>4. cmd = (low + bit) + (2 * bit) * above
      BY <3>1, <3>2, <3>3
    <3> QED
      BY <3>3, <3>4 DEF Ends
  <2> QED
    BY <2>1, <2>2
<1> QED
  BY <1>7, <1>8

\* The sum of the bits that are set.
SumOfBits(b) ==
  b[1] * 4 + b[2] * 8 + b[3] * 16 + b[4] * 32 + b[5] * 64 + b[6] * 256 + b[7] * 512
  + b[8] * 1024 + b[9] * 2048 + b[10] * 4096 + b[11] * 8192 + b[12] * 16384

\* What each bit of a sum of bits says.
LEMMA BitsAre ==
  ASSUME NEW b \in [1..12 -> {0, 1}], NEW cmd, cmd = SumOfBits(b)
  PROVE  /\ Has(cmd, 4) <=> b[1] = 1
         /\ Has(cmd, 8) <=> b[2] = 1
         /\ Has(cmd, 16) <=> b[3] = 1
         /\ Has(cmd, 32) <=> b[4] = 1
         /\ Has(cmd, 64) <=> b[5] = 1
         /\ Has(cmd, 256) <=> b[6] = 1
         /\ Has(cmd, 512) <=> b[7] = 1
         /\ Has(cmd, 1024) <=> b[8] = 1
         /\ Has(cmd, 2048) <=> b[9] = 1
         /\ Has(cmd, 4096) <=> b[10] = 1
         /\ Has(cmd, 8192) <=> b[11] = 1
         /\ Has(cmd, 16384) <=> b[12] = 1
<1> DEFINE r12 == Two(b[12], 0)
           r11 == Two(b[11], r12)
           r10 == Two(b[10], r11)
           r9 == Two(b[9], r10)
           r8 == Two(b[8], r9)
           r7 == Two(b[7], r8)
           r6 == Two(b[6], r7)
           r5 == Two(b[5], Two(0, r6))
           r4 == Two(b[4], r5)
           r3 == Two(b[3], r4)
           r2 == Two(b[2], r3)
           r1 == Two(b[1], r2)
<1>1. \A i \in 1..12 : b[i] \in {0, 1}
  OBVIOUS
<1>2. r12 \in Nat
  BY <1>1, TwoIs
<1> HIDE DEF r12
<1>3. r11 \in Nat
  BY <1>1, <1>2, TwoIs
<1> HIDE DEF r11
<1>4. r10 \in Nat
  BY <1>1, <1>3, TwoIs
<1> HIDE DEF r10
<1>5. r9 \in Nat
  BY <1>1, <1>4, TwoIs
<1> HIDE DEF r9
<1>6. r8 \in Nat
  BY <1>1, <1>5, TwoIs
<1> HIDE DEF r8
<1>7. r7 \in Nat
  BY <1>1, <1>6, TwoIs
<1> HIDE DEF r7
<1>8. r6 \in Nat
  BY <1>1, <1>7, TwoIs
<1> HIDE DEF r6
<1>9. Two(0, r6) \in Nat
  BY <1>8, TwoIs
<1>10. r5 \in Nat
  BY <1>1, <1>9, TwoIs
<1> HIDE DEF r5
<1>11. r4 \in Nat
  BY <1>1, <1>10, TwoIs
<1> HIDE DEF r4
<1>12. r3 \in Nat
  BY <1>1, <1>11, TwoIs
<1> HIDE DEF r3
<1>13. r2 \in Nat
  BY <1>1, <1>12, TwoIs
<1> HIDE DEF r2
<1>14. r1 \in Nat
  BY <1>1, <1>13, TwoIs
<1> HIDE DEF r1
<1>15. 2048 * r9 = b[9] * 2048 + b[10] * 4096 + b[11] * 8192 + b[12] * 16384
  BY <1>1 DEF Two, r9, r10, r11, r12
<1>16. 256 * r6 = b[6] * 256 + b[7] * 512 + b[8] * 1024 + 2048 * r9
  BY <1>1, <1>5 DEF Two, r6, r7, r8
<1>17. 32 * r4 = b[4] * 32 + b[5] * 64 + 256 * r6
  BY <1>1, <1>8 DEF Two, r4, r5
<1>18. 4 * r1 = b[1] * 4 + b[2] * 8 + b[3] * 16 + 32 * r4
  BY <1>1, <1>11 DEF Two, r1, r2, r3
<1>19. SumOfBits(b) = 4 * r1
  BY <1>1, <1>15, <1>16, <1>17, <1>18 DEF SumOfBits
<1>20. Ends(cmd, 4, r1)
  BY <1>19, <1>14 DEF Ends
<1>21. (Has(cmd, 4) <=> b[1] = 1) /\ Ends(cmd, 8, r2)
  BY <1>1, <1>20, <1>13, BitIs DEF r1
<1>22. (Has(cmd, 8) <=> b[2] = 1) /\ Ends(cmd, 16, r3)
  BY <1>1, <1>21, <1>12, BitIs DEF r2
<1>23. (Has(cmd, 16) <=> b[3] = 1) /\ Ends(cmd, 32, r4)
  BY <1>1, <1>22, <1>11, BitIs DEF r3
<1>24. (Has(cmd, 32) <=> b[4] = 1) /\ Ends(cmd, 64, r5)
  BY <1>1, <1>23, <1>10, BitIs DEF r4
<1>25. (Has(cmd, 64) <=> b[5] = 1) /\ Ends(cmd, 128, Two(0, r6))
  BY <1>1, <1>24, <1>9, BitIs DEF r5
<1>26. Ends(cmd, 256, r6)
  BY <1>25, <1>8, BitIs
<1>27. (Has(cmd, 256) <=> b[6] = 1) /\ Ends(cmd, 512, r7)
  BY <1>1, <1>26, <1>7, BitIs DEF r6
<1>28. (Has(cmd, 512) <=> b[7] = 1) /\ Ends(cmd, 1024, r8)
  BY <1>1, <1>27, <1>6, BitIs DEF r7
<1>29. (Has(cmd, 1024) <=> b[8] = 1) /\ Ends(cmd, 2048, r9)
  BY <1>1, <1>28, <1>5, BitIs DEF r8
<1>30. (Has(cmd, 2048) <=> b[9] = 1) /\ Ends(cmd, 4096, r10)
  BY <1>1, <1>29, <1>4, BitIs DEF r9
<1>31. (Has(cmd, 4096) <=> b[10] = 1) /\ Ends(cmd, 8192, r11)
  BY <1>1, <1>30, <1>3, BitIs DEF r10
<1>32. (Has(cmd, 8192) <=> b[11] = 1) /\ Ends(cmd, 16384, r12)
  BY <1>1, <1>31, <1>2, BitIs DEF r11
<1>33. (Has(cmd, 16384) <=> b[12] = 1) /\ Ends(cmd, 32768, 0)
  BY <1>1, <1>32, BitIs DEF r12
<1> QED
  BY <1>21, <1>22, <1>23, <1>24, <1>25, <1>27, <1>28, <1>29, <1>30, <1>31, <1>32, <1>33

LEMMA TableIs ==
  /\ Len(Table) = 7 /\ DOMAIN Table = 1..7
  /\ Table[1] = <<"l", 256>> /\ Table[2] = <<"L", 16384>> /\ Table[3] = <<"r", 512>>
  /\ Table[4] = <<"S", 1024>> /\ Table[5] = <<"s", 2048>> /\ Table[6] = <<"k", 4096>>
  /\ Table[7] = <<"w", 8192>>
<1>1. Len(Table) = 7
  BY DEF Table
<1>2. DOMAIN Table = 1..7
  BY DEF Table
<1>3. /\ Table[1] = <<"l", 256>> /\ Table[2] = <<"L", 16384>> /\ Table[3] = <<"r", 512>>
      /\ Table[4] = <<"S", 1024>> /\ Table[5] = <<"s", 2048>> /\ Table[6] = <<"k", 4096>>
      /\ Table[7] = <<"w", 8192>>
  BY DEF Table
<1> QED
  BY <1>1, <1>2, <1>3

LEMMA RowIs ==
  ASSUME NEW r \in 1..7
  PROVE  Table[r][1] \in Letters /\ Row(Table[r][1]) = r
<1>1. Table[r][1] \in Letters
  BY TableIs DEF Letters
<1>2. \A i, j \in 1..7 : Table[i][1] = Table[j][1] => i = j
  BY TableIs
<1>3. Row(Table[r][1]) = r
  <2>1. DOMAIN Table = 1..7
    BY TableIs
  <2> QED
    BY <1>2, <2>1 DEF Row
<1> QED
  BY <1>1, <1>3

LEMMA LettersAre ==
  ASSUME NEW letter \in Letters
  PROVE  Row(letter) \in 1..7 /\ Table[Row(letter)][1] = letter /\ Bit(letter) \in Nat
<1>1. \E r \in 1..7 : Table[r][1] = letter
  BY TableIs DEF Letters
<1>2. PICK r \in 1..7 : Table[r][1] = letter
  BY <1>1
<1>3. Row(letter) = r
  BY <1>2, RowIs
<1> QED
  BY <1>2, <1>3, TableIs DEF Bit

LEMMA DspIdIs ==
  /\ DOMAIN DspId = {"hifi4a", "hifi4b"}
  /\ DspId["hifi4a"] = 0 /\ DspId["hifi4b"] = 1
  /\ \A x \in DOMAIN DspId : DspId[x] \in {0, 1} /\ Default(x, "hifi4a") = x
<1>1. DOMAIN DspId = {"hifi4a", "hifi4b"}
  BY DEF DspId
<1>2. DspId["hifi4a"] = 0 /\ DspId["hifi4b"] = 1
  BY DEF DspId
<1>3. \A x \in {"hifi4a", "hifi4b"} : DspId[x] \in {0, 1}
  BY <1>2
<1> QED
  BY <1>1, <1>2, <1>3 DEF Default

\* Reading one more option adds it to those of its letter.
LEMMA OneMoreRead ==
  ASSUME UtilTypeOK, util.optind <= Len(util.given),
         util'.given = util.given, util'.optind = util.optind + 1, NEW x
  PROVE  LET o == util.given[util.optind] IN
         /\ Given(x)' = Given(x)
         /\ Read(x)' = IF o[1] = x THEN Read(x) \cup {util.optind} ELSE Read(x)
         /\ LastRead(x)' = IF o[1] = x THEN o[2] ELSE LastRead(x)
<1> DEFINE k == util.optind
           g == util.given
           o == g[k]
<1>1. g \in Seq(STRING \X STRING) /\ k \in 1..Len(g) /\ Len(g) \in Nat
      /\ DOMAIN g = 1..Len(g)
  BY DEF UtilTypeOK
<1>2. Given(x) = {i \in 1..Len(g) : g[i][1] = x} /\ Given(x)' = Given(x)
  BY <1>1 DEF Given
<1>3. Read(x) = {i \in Given(x) : i < k} /\ Read(x)' = {i \in Given(x) : i < k + 1}
  BY <1>2 DEF Read
<1> HIDE DEF k, g
<1>4. Read(x)' = IF o[1] = x THEN Read(x) \cup {k} ELSE Read(x)
  BY <1>1, <1>2, <1>3
<1>5. CASE o[1] = x
  <2>1. Read(x)' = Read(x) \cup {k} /\ Read(x)' \subseteq Nat /\ \A i \in Read(x)' : i <= k
    BY <1>1, <1>2, <1>3, <1>4, <1>5
  <2> DEFINE R == Read(x)'
  <2>2. k \in R /\ R # {} /\ R \subseteq Nat /\ \A i \in R : i <= k
    BY <2>1
  <2> HIDE DEF R
  <2>3. Max(R) = k
    BY <2>2, MaxIs
  <2>4. LastRead(x)' = g[k][2]
    BY <2>2, <2>3 DEF LastRead, R, g
  <2> QED
    BY <1>2, <1>4, <1>5, <2>4 DEF k, g
<1>6. CASE o[1] # x
  <2>1. Read(x)' = Read(x)
    BY <1>4, <1>6
  <2>2. LastRead(x)' = LastRead(x)
    BY <2>1 DEF LastRead
  <2> QED
    BY <1>2, <1>4, <1>6, <2>2 DEF k, g
<1> QED
  BY <1>5, <1>6

\* Nothing of a command line changes but where it is read.
LEMMA SameLine ==
  ASSUME util'.given = util.given
  PROVE  /\ \A x : Given(x)' = Given(x) /\ LastGiven(x)' = LastGiven(x)
         /\ TheDsp' = TheDsp /\ InError' = InError /\ Repeats' = Repeats
         /\ \A x, y : File(x, y)' = File(x, y)
<1>1. \A x : Given(x)' = Given(x)
  BY DEF Given
<1>2. \A x : LastGiven(x)' = LastGiven(x)
  BY <1>1 DEF LastGiven
<1> QED
  BY <1>1, <1>2 DEF TheDsp, InError, Repeats, File

LEMMA SameTries ==
  ASSUME util'.given = util.given, util'.tried = util.tried
  PROVE  \A s : Tried(s)' <=> Tried(s)
BY SameLine DEF Tried

\* What an option changes.
OptionDoes(o) ==
  /\ o \in STRING \X STRING /\ o[1] # "operand"
  /\ util.phase = "parse" /\ util.optind <= Len(util.given)
  /\ util'.given = util.given /\ util'.optind = util.optind + 1 /\ util'.world = util.world
  /\ util'.row = util.row /\ util'.tried = util.tried
  /\ util'.phase = IF o[1] = "d" /\ o[2] \notin DOMAIN DspId THEN "next" ELSE "parse"
  /\ util'.err <=> util.err \/ o[1] = "?"
  /\ util'.info.id = IF o[1] = "d" /\ o[2] \in DOMAIN DspId THEN DspId[o[2]] ELSE util.info.id
  /\ util'.info.f = IF o[1] = "f" THEN o[2] ELSE util.info.f
  /\ util'.info.M = IF o[1] = "M" THEN o[2] ELSE util.info.M
  /\ util'.info.N = IF o[1] = "N" THEN o[2] ELSE util.info.N
  /\ o[1] \in Letters => util'.cmd = util.cmd + Bit(o[1])
  /\ o[1] = "d" /\ o[2] \in DOMAIN DspId => util'.cmd = Or(util.cmd, 16)
  /\ o[1] = "f" => util'.cmd = Or(util.cmd, 32)
  /\ o[1] = "M" => util'.cmd = Or(util.cmd, 4)
  /\ o[1] = "N" => util'.cmd = Or(util.cmd, 8)
  /\ o[1] = "a" => util'.cmd = Or(util.cmd, 64)
  /\ o[1] \notin Letters \cup {"d", "f", "M", "N", "a"} => util'.cmd = util.cmd

LEMMA OptionIs ==
  ASSUME UtilTypeOK, Option
  PROVE  UtilTypeOK' /\ OptionDoes(util.given[util.optind])
<1> DEFINE o == util.given[util.optind]
           rest == [util EXCEPT !.optind = util.optind + 1]
           Types == [lines : Seq(Seq(STRING \X STRING)), world : {util.world},
                     phase : {"next", "parse", "usage", "run"}, given : {util.given},
                     optind : 1..(Len(util.given) + 1), cmd : Nat, err : BOOLEAN, info : Infos,
                     row : 1..(Len(Table) + 1), tried : Seq(Letters \X Infos)]
<1>1. /\ util.phase = "parse" /\ util.optind <= Len(util.given) /\ o[1] # "operand"
      /\ util' = CASE o[1] \in Letters -> [rest EXCEPT !.cmd = util.cmd + Bit(o[1])]
                   [] o[1] = "d" /\ o[2] \notin DOMAIN DspId -> [rest EXCEPT !.phase = "next"]
                   [] o[1] = "d" /\ o[2] \in DOMAIN DspId ->
                        [rest EXCEPT !.cmd = Or(util.cmd, Flag.d), !.info.id = DspId[o[2]]]
                   [] o[1] \in {"f", "M", "N"} ->
                        [rest EXCEPT !.cmd = Or(util.cmd, Flag[o[1]]), !.info[o[1]] = o[2]]
                   [] o[1] = "a" -> [rest EXCEPT !.cmd = Or(util.cmd, Flag.a)]
                   [] o[1] = "?" -> [rest EXCEPT !.err = TRUE]
                   [] OTHER -> rest
  BY DEF Option
<1>2. /\ util.given \in Seq(STRING \X STRING) /\ util.optind \in 1..Len(util.given)
      /\ util.optind + 1 \in 1..(Len(util.given) + 1) /\ o \in STRING \X STRING
      /\ o[2] \in FileNames
  <2>1. /\ util.given \in Seq(STRING \X STRING) /\ util.optind \in 1..Len(util.given)
        /\ util.optind + 1 \in 1..(Len(util.given) + 1)
    BY <1>1 DEF UtilTypeOK
  <2>2. o \in STRING \X STRING
    BY <2>1
  <2>3. o[2] \in STRING
    BY <2>2
  <2> QED
    BY <2>1, <2>2, <2>3 DEF FileNames
<1>3. util \in Types
  BY DEF UtilTypeOK
<1>4. rest \in Types
  BY <1>2, <1>3
<1>5. util' \in Types => UtilTypeOK'
  BY <1>2 DEF UtilTypeOK
<1>6. \A bit \in Nat : Or(util.cmd, bit) \in Nat
  BY <1>3 DEF Or
<1>7. /\ Flag.d = 16 /\ Flag["f"] = 32 /\ Flag.a = 64 /\ Flag["M"] = 4 /\ Flag["N"] = 8
  BY DEF Flag
<1> HIDE DEF o
<1>8. CASE o[1] \in Letters
  <2>1. util' = [rest EXCEPT !.cmd = util.cmd + Bit(o[1])]
    BY <1>1, <1>7, <1>8 DEF Letters
  <2> DEFINE c == util.cmd + Bit(o[1])
  <2>2. c \in Nat
    BY <1>3, <1>6, <1>8, LettersAre
  <2> HIDE DEF c
  <2>3. util' = [rest EXCEPT !.cmd = c]
    BY <2>1 DEF c
  <2>4. util' \in Types
    BY <1>2, <1>4, <1>8, <2>2, <2>3 DEF Infos
  <2>5. OptionDoes(o)
    BY <1>1, <1>2, <1>3, <1>8, <2>2, <2>3 DEF OptionDoes, Infos, Letters, c
  <2> QED
    BY <1>5, <2>4, <2>5 DEF o
<1>9. CASE o[1] = "d" /\ o[2] \notin DOMAIN DspId
  <2>1. util' = [rest EXCEPT !.phase = "next"]
    BY <1>1, <1>7, <1>9 DEF Letters
  <2>2. util' \in Types
    BY <1>2, <1>4, <1>9, <2>1 DEF Infos
  <2>3. OptionDoes(o)
    BY <1>1, <1>2, <1>3, <1>9, <2>1 DEF OptionDoes, Infos, Letters
  <2> QED
    BY <1>5, <2>2, <2>3 DEF o
<1>10. CASE o[1] = "d" /\ o[2] \in DOMAIN DspId
  <2>1. util' = [rest EXCEPT !.cmd = Or(util.cmd, 16), !.info.id = DspId[o[2]]]
    BY <1>1, <1>7, <1>10 DEF Letters
  <2> DEFINE c == Or(util.cmd, 16)
  <2>2. c \in Nat
    BY <1>3, <1>6, <1>10, LettersAre
  <2> HIDE DEF c
  <2>3. util' = [rest EXCEPT !.cmd = c, !.info.id = DspId[o[2]]]
    BY <2>1 DEF c
  <2>4. util' \in Types
    <3> DEFINE d == DspId[o[2]]
               new == [rest.info EXCEPT !.id = d]
    <3>1. d \in {0, 1}
      BY <1>10, DspIdIs
    <3>2. util' = [rest EXCEPT !.cmd = c, !.info = new]
      BY <2>3
    <3> HIDE DEF d, rest
    <3>3. new \in Infos
      BY <1>4, <3>1 DEF Infos
    <3> HIDE DEF new
    <3> QED
      BY <1>4, <2>2, <3>2, <3>3
  <2>5. /\ util'.given = util.given /\ util'.optind = util.optind + 1
        /\ util'.world = util.world
        /\ util'.row = util.row /\ util'.tried = util.tried /\ util'.phase = util.phase
        /\ util'.err = util.err /\ util'.cmd = c
    BY <1>3, <2>3
  <2>6. util'.info = [util.info EXCEPT !.id = DspId[o[2]]] /\ util.info \in Infos
    BY <1>3, <2>3
  <2>7. util'.info.id = DspId[o[2]] /\ util'.info.f = util.info.f
        /\ util'.info.M = util.info.M /\ util'.info.N = util.info.N
    BY <2>6 DEF Infos
  <2>8. OptionDoes(o)
    BY <1>1, <1>2, <1>3, <1>10, DspIdIs, <2>5, <2>7 DEF OptionDoes, Infos, Letters, c
  <2> QED
    BY <1>5, <2>4, <2>8 DEF o
<1>11. CASE o[1] = "f"
  <2>1. util' = [rest EXCEPT !.cmd = Or(util.cmd, 32), !.info.f = o[2]]
    BY <1>1, <1>7, <1>11 DEF Letters
  <2> DEFINE c == Or(util.cmd, 32)
  <2>2. c \in Nat
    BY <1>3, <1>6, <1>11, LettersAre
  <2> HIDE DEF c
  <2>3. util' = [rest EXCEPT !.cmd = c, !.info.f = o[2]]
    BY <2>1 DEF c
  <2>4. util' \in Types
    BY <1>2, <1>4, <1>11, <2>2, <2>3 DEF Infos
  <2>5. /\ util'.given = util.given /\ util'.optind = util.optind + 1
        /\ util'.world = util.world
        /\ util'.row = util.row /\ util'.tried = util.tried /\ util'.phase = util.phase
        /\ util'.err = util.err /\ util'.cmd = c
    BY <1>3, <2>3
  <2>6. util'.info = [util.info EXCEPT !.f = o[2]] /\ util.info \in Infos
    BY <1>3, <2>3
  <2>7. util'.info.id = util.info.id /\ util'.info.f = o[2]
        /\ util'.info.M = util.info.M /\ util'.info.N = util.info.N
    BY <2>6 DEF Infos
  <2>8. OptionDoes(o)
    BY <1>1, <1>2, <1>3, <1>11, <2>5, <2>7 DEF OptionDoes, Infos, Letters, c
  <2> QED
    BY <1>5, <2>4, <2>8 DEF o
<1>12. CASE o[1] = "M"
  <2>1. util' = [rest EXCEPT !.cmd = Or(util.cmd, 4), !.info.M = o[2]]
    BY <1>1, <1>7, <1>12 DEF Letters
  <2> DEFINE c == Or(util.cmd, 4)
  <2>2. c \in Nat
    BY <1>3, <1>6, <1>12, LettersAre
  <2> HIDE DEF c
  <2>3. util' = [rest EXCEPT !.cmd = c, !.info.M = o[2]]
    BY <2>1 DEF c
  <2>4. util' \in Types
    BY <1>2, <1>4, <1>12, <2>2, <2>3 DEF Infos
  <2>5. /\ util'.given = util.given /\ util'.optind = util.optind + 1
        /\ util'.world = util.world
        /\ util'.row = util.row /\ util'.tried = util.tried /\ util'.phase = util.phase
        /\ util'.err = util.err /\ util'.cmd = c
    BY <1>3, <2>3
  <2>6. util'.info = [util.info EXCEPT !.M = o[2]] /\ util.info \in Infos
    BY <1>3, <2>3
  <2>7. util'.info.id = util.info.id /\ util'.info.f = util.info.f
        /\ util'.info.M = o[2] /\ util'.info.N = util.info.N
    BY <2>6 DEF Infos
  <2>8. OptionDoes(o)
    BY <1>1, <1>2, <1>3, <1>12, <2>5, <2>7 DEF OptionDoes, Infos, Letters, c
  <2> QED
    BY <1>5, <2>4, <2>8 DEF o
<1>13. CASE o[1] = "N"
  <2>1. util' = [rest EXCEPT !.cmd = Or(util.cmd, 8), !.info.N = o[2]]
    BY <1>1, <1>7, <1>13 DEF Letters
  <2> DEFINE c == Or(util.cmd, 8)
  <2>2. c \in Nat
    BY <1>3, <1>6, <1>13, LettersAre
  <2> HIDE DEF c
  <2>3. util' = [rest EXCEPT !.cmd = c, !.info.N = o[2]]
    BY <2>1 DEF c
  <2>4. util' \in Types
    BY <1>2, <1>4, <1>13, <2>2, <2>3 DEF Infos
  <2>5. /\ util'.given = util.given /\ util'.optind = util.optind + 1
        /\ util'.world = util.world
        /\ util'.row = util.row /\ util'.tried = util.tried /\ util'.phase = util.phase
        /\ util'.err = util.err /\ util'.cmd = c
    BY <1>3, <2>3
  <2>6. util'.info = [util.info EXCEPT !.N = o[2]] /\ util.info \in Infos
    BY <1>3, <2>3
  <2>7. util'.info.id = util.info.id /\ util'.info.f = util.info.f
        /\ util'.info.M = util.info.M /\ util'.info.N = o[2]
    BY <2>6 DEF Infos
  <2>8. OptionDoes(o)
    BY <1>1, <1>2, <1>3, <1>13, <2>5, <2>7 DEF OptionDoes, Infos, Letters, c
  <2> QED
    BY <1>5, <2>4, <2>8 DEF o
<1>14. CASE o[1] = "a"
  <2>1. util' = [rest EXCEPT !.cmd = Or(util.cmd, 64)]
    BY <1>1, <1>7, <1>14 DEF Letters
  <2> DEFINE c == Or(util.cmd, 64)
  <2>2. c \in Nat
    BY <1>3, <1>6, <1>14, LettersAre
  <2> HIDE DEF c
  <2>3. util' = [rest EXCEPT !.cmd = c]
    BY <2>1 DEF c
  <2>4. util' \in Types
    BY <1>2, <1>4, <1>14, <2>2, <2>3 DEF Infos
  <2>5. OptionDoes(o)
    BY <1>1, <1>2, <1>3, <1>14, <2>2, <2>3 DEF OptionDoes, Infos, Letters, c
  <2> QED
    BY <1>5, <2>4, <2>5 DEF o
<1>15. CASE o[1] = "?"
  <2>1. util' = [rest EXCEPT !.err = TRUE]
    BY <1>1, <1>7, <1>15 DEF Letters
  <2>2. util' \in Types
    BY <1>2, <1>4, <1>15, <2>1 DEF Infos
  <2>3. OptionDoes(o)
    BY <1>1, <1>2, <1>3, <1>15, <2>1 DEF OptionDoes, Infos, Letters
  <2> QED
    BY <1>5, <2>2, <2>3 DEF o
<1>16. CASE o[1] \notin Letters \cup {"d", "f", "M", "N", "a", "?"}
  <2>1. util' = rest
    BY <1>1, <1>7, <1>16 DEF Letters
  <2>2. util' \in Types
    BY <1>2, <1>4, <1>16, <2>1 DEF Infos
  <2>3. OptionDoes(o)
    BY <1>1, <1>2, <1>3, <1>16, <2>1 DEF OptionDoes, Infos, Letters
  <2> QED
    BY <1>5, <2>2, <2>3 DEF o
<1> QED
  BY <1>8, <1>9, <1>10, <1>11, <1>12, <1>13, <1>14, <1>15, <1>16

LEMMA NothingTried ==
  ASSUME util.tried = << >>
  PROVE  Tried({})
<1>1. DOMAIN util.tried = {}
  OBVIOUS
<1> QED
  BY <1>1 DEF Tried

LEMMA OnceIs ==
  ASSUME NEW x, NEW bit \in Nat
  PROVE  Once(x, bit) = Once(x, 1) * bit /\ Once(x, 1) \in {0, 1} /\ Once(x, bit) \in Nat
         /\ (Once(x, 1) = 1 <=> Read(x) # {})
BY DEF Once

\* A sum of bits tells what was read.
LEMMA SumTells ==
  ASSUME Summed
  PROVE  /\ Has(util.cmd, 4) <=> Read("M") # {}
         /\ Has(util.cmd, 8) <=> Read("N") # {}
         /\ Has(util.cmd, 16) <=> Read("d") # {}
         /\ Has(util.cmd, 32) <=> Read("f") # {}
         /\ Has(util.cmd, 64) <=> Read("a") # {}
         /\ \A letter \in Letters : Has(util.cmd, Bit(letter)) <=> Read(letter) # {}
<1> DEFINE names == <<"M", "N", "d", "f", "a", "l", "r", "S", "s", "k", "w", "L">>
           b == [i \in 1..12 |-> Once(names[i], 1)]
<1>1. b \in [1..12 -> {0, 1}]
  <2>1. \A i \in 1..12 : Once(names[i], 1) \in {0, 1}
    <3> HIDE DEF names
    <3> QED
      BY OnceIs
  <2> HIDE DEF names
  <2> QED
    BY <2>1
<1>2. /\ b[1] = Once("M", 1) /\ b[2] = Once("N", 1) /\ b[3] = Once("d", 1)
      /\ b[4] = Once("f", 1) /\ b[5] = Once("a", 1) /\ b[6] = Once("l", 1)
      /\ b[7] = Once("r", 1) /\ b[8] = Once("S", 1) /\ b[9] = Once("s", 1)
      /\ b[10] = Once("k", 1) /\ b[11] = Once("w", 1) /\ b[12] = Once("L", 1)
  OBVIOUS
<1> HIDE DEF b
<1>3. /\ Once("M", 4) = b[1] * 4 /\ Once("N", 8) = b[2] * 8 /\ Once("d", 16) = b[3] * 16
      /\ Once("f", 32) = b[4] * 32 /\ Once("a", 64) = b[5] * 64
      /\ Once("l", 256) = b[6] * 256
      /\ Once("r", 512) = b[7] * 512 /\ Once("S", 1024) = b[8] * 1024
      /\ Once("s", 2048) = b[9] * 2048 /\ Once("k", 4096) = b[10] * 4096
      /\ Once("w", 8192) = b[11] * 8192 /\ Once("L", 16384) = b[12] * 16384
  <2>1. \A x : \A bit \in Nat : Once(x, bit) = Once(x, 1) * bit
    BY OnceIs
  <2> QED
    BY <1>2, <2>1
<1>4. util.cmd = SumOfBits(b)
  BY <1>3 DEF Summed, SumOfBits
<1>5. \A x : Once(x, 1) = 1 <=> Read(x) # {}
  BY OnceIs
<1>6. /\ Has(util.cmd, 4) <=> b[1] = 1
      /\ Has(util.cmd, 8) <=> b[2] = 1
      /\ Has(util.cmd, 16) <=> b[3] = 1
      /\ Has(util.cmd, 32) <=> b[4] = 1
      /\ Has(util.cmd, 64) <=> b[5] = 1
      /\ Has(util.cmd, 256) <=> b[6] = 1
      /\ Has(util.cmd, 512) <=> b[7] = 1
      /\ Has(util.cmd, 1024) <=> b[8] = 1
      /\ Has(util.cmd, 2048) <=> b[9] = 1
      /\ Has(util.cmd, 4096) <=> b[10] = 1
      /\ Has(util.cmd, 8192) <=> b[11] = 1
      /\ Has(util.cmd, 16384) <=> b[12] = 1
  BY <1>1, <1>4, BitsAre
<1>7. /\ Bit("l") = 256 /\ Bit("L") = 16384 /\ Bit("r") = 512 /\ Bit("S") = 1024
      /\ Bit("s") = 2048 /\ Bit("k") = 4096 /\ Bit("w") = 8192
  BY TableIs, RowIs DEF Bit
<1> QED
  BY <1>2, <1>5, <1>6, <1>7 DEF Letters

\* An option of a line that repeats no command keeps the sum one of bits.
LEMMA OptionSums ==
  ASSUME UtilTypeOK, Summed, ~Repeats, NEW o, o = util.given[util.optind], OptionDoes(o),
         util'.phase = "parse"
  PROVE  Summed'
<1>1. \A x : Read(x)' = IF o[1] = x THEN Read(x) \cup {util.optind} ELSE Read(x)
  BY OneMoreRead DEF OptionDoes
<1>2. \A x : \A bit \in Nat :
        /\ Once(x, bit) \in Nat
        /\ Once(x, bit)' = IF o[1] = x THEN bit ELSE Once(x, bit)
        /\ Once(x, bit) = IF Read(x) = {} THEN 0 ELSE bit
  BY <1>1 DEF Once
<1>3. o[1] \in Letters => Read(o[1]) = {}
  <2> SUFFICES ASSUME o[1] \in Letters, NEW i \in Read(o[1])
               PROVE  FALSE
    OBVIOUS
  <2>1. i \in Given(o[1]) /\ i < util.optind
    BY DEF Read
  <2>2. util.optind \in Given(o[1]) /\ util.optind # i
    <3>1. util.optind \in DOMAIN util.given /\ util.optind \in Nat
      BY DEF UtilTypeOK, OptionDoes
    <3> QED
      BY <2>1, <3>1 DEF Given
  <2> QED
    BY <2>1, <2>2 DEF Repeats
<1>4. /\ Has(util.cmd, 4) <=> Read("M") # {}
      /\ Has(util.cmd, 8) <=> Read("N") # {}
      /\ Has(util.cmd, 16) <=> Read("d") # {}
      /\ Has(util.cmd, 32) <=> Read("f") # {}
      /\ Has(util.cmd, 64) <=> Read("a") # {}
  BY SumTells
<1>5. o[1] # "d" \/ o[2] \in DOMAIN DspId
  BY DEF OptionDoes
<1> DEFINE q1 == Once("M", 4)
           q2 == Once("N", 8)
           q3 == Once("d", 16)
           q4 == Once("f", 32)
           q5 == Once("a", 64)
           q6 == Once("l", 256)
           q7 == Once("r", 512)
           q8 == Once("S", 1024)
           q9 == Once("s", 2048)
           q10 == Once("k", 4096)
           q11 == Once("w", 8192)
           q12 == Once("L", 16384)
<1>6. /\ q1 \in Nat /\ q2 \in Nat /\ q3 \in Nat /\ q4 \in Nat /\ q5 \in Nat /\ q6 \in Nat
      /\ q7 \in Nat /\ q8 \in Nat /\ q9 \in Nat /\ q10 \in Nat /\ q11 \in Nat /\ q12 \in Nat
  BY <1>2
<1>7. /\ Bit("l") = 256 /\ Bit("L") = 16384 /\ Bit("r") = 512 /\ Bit("S") = 1024
      /\ Bit("s") = 2048 /\ Bit("k") = 4096 /\ Bit("w") = 8192
  BY TableIs, RowIs DEF Bit
<1>8. util.cmd \in Nat
  BY DEF UtilTypeOK
<1>9. util.cmd = q1 + q2 + q3 + q4 + q5 + q6 + q7 + q8 + q9 + q10 + q11 + q12
  BY DEF Summed
<1> HIDE DEF q1, q2, q3, q4, q5, q6, q7, q8, q9, q10, q11, q12
<1>10. CASE o[1] = "M"
  <2>1. /\ Once("M", 4)' = 4 /\ Once("N", 8)' = q2 /\ Once("d", 16)' = q3
        /\ Once("f", 32)' = q4 /\ Once("a", 64)' = q5 /\ Once("l", 256)' = q6
        /\ Once("r", 512)' = q7 /\ Once("S", 1024)' = q8 /\ Once("s", 2048)' = q9
        /\ Once("k", 4096)' = q10 /\ Once("w", 8192)' = q11 /\ Once("L", 16384)' = q12
    BY <1>2, <1>10 DEF q1, q2, q3, q4, q5, q6, q7, q8, q9, q10, q11, q12
  <2>2. \/ q1 = 4 /\ util'.cmd = util.cmd
        \/ q1 = 0 /\ util'.cmd = util.cmd + 4
    BY <1>2, <1>4, <1>5, <1>8, <1>10 DEF OptionDoes, Or, q1
  <2>3. util'.cmd = 4 + q2 + q3 + q4 + q5 + q6 + q7 + q8 + q9 + q10 + q11 + q12
    BY <1>6, <1>9, <2>2
  <2> QED
    BY <2>1, <2>3 DEF Summed
<1>11. CASE o[1] = "N"
  <2>1. /\ Once("M", 4)' = q1 /\ Once("N", 8)' = 8 /\ Once("d", 16)' = q3
        /\ Once("f", 32)' = q4 /\ Once("a", 64)' = q5 /\ Once("l", 256)' = q6
        /\ Once("r", 512)' = q7 /\ Once("S", 1024)' = q8 /\ Once("s", 2048)' = q9
        /\ Once("k", 4096)' = q10 /\ Once("w", 8192)' = q11 /\ Once("L", 16384)' = q12
    BY <1>2, <1>11 DEF q1, q2, q3, q4, q5, q6, q7, q8, q9, q10, q11, q12
  <2>2. \/ q2 = 8 /\ util'.cmd = util.cmd
        \/ q2 = 0 /\ util'.cmd = util.cmd + 8
    BY <1>2, <1>4, <1>5, <1>8, <1>11 DEF OptionDoes, Or, q2
  <2>3. util'.cmd = q1 + 8 + q3 + q4 + q5 + q6 + q7 + q8 + q9 + q10 + q11 + q12
    BY <1>6, <1>9, <2>2
  <2> QED
    BY <2>1, <2>3 DEF Summed
<1>12. CASE o[1] = "d"
  <2>1. /\ Once("M", 4)' = q1 /\ Once("N", 8)' = q2 /\ Once("d", 16)' = 16
        /\ Once("f", 32)' = q4 /\ Once("a", 64)' = q5 /\ Once("l", 256)' = q6
        /\ Once("r", 512)' = q7 /\ Once("S", 1024)' = q8 /\ Once("s", 2048)' = q9
        /\ Once("k", 4096)' = q10 /\ Once("w", 8192)' = q11 /\ Once("L", 16384)' = q12
    BY <1>2, <1>12 DEF q1, q2, q3, q4, q5, q6, q7, q8, q9, q10, q11, q12
  <2>2. \/ q3 = 16 /\ util'.cmd = util.cmd
        \/ q3 = 0 /\ util'.cmd = util.cmd + 16
    BY <1>2, <1>4, <1>5, <1>8, <1>12 DEF OptionDoes, Or, q3
  <2>3. util'.cmd = q1 + q2 + 16 + q4 + q5 + q6 + q7 + q8 + q9 + q10 + q11 + q12
    BY <1>6, <1>9, <2>2
  <2> QED
    BY <2>1, <2>3 DEF Summed
<1>13. CASE o[1] = "f"
  <2>1. /\ Once("M", 4)' = q1 /\ Once("N", 8)' = q2 /\ Once("d", 16)' = q3
        /\ Once("f", 32)' = 32 /\ Once("a", 64)' = q5 /\ Once("l", 256)' = q6
        /\ Once("r", 512)' = q7 /\ Once("S", 1024)' = q8 /\ Once("s", 2048)' = q9
        /\ Once("k", 4096)' = q10 /\ Once("w", 8192)' = q11 /\ Once("L", 16384)' = q12
    BY <1>2, <1>13 DEF q1, q2, q3, q4, q5, q6, q7, q8, q9, q10, q11, q12
  <2>2. \/ q4 = 32 /\ util'.cmd = util.cmd
        \/ q4 = 0 /\ util'.cmd = util.cmd + 32
    BY <1>2, <1>4, <1>5, <1>8, <1>13 DEF OptionDoes, Or, q4
  <2>3. util'.cmd = q1 + q2 + q3 + 32 + q5 + q6 + q7 + q8 + q9 + q10 + q11 + q12
    BY <1>6, <1>9, <2>2
  <2> QED
    BY <2>1, <2>3 DEF Summed
<1>14. CASE o[1] = "a"
  <2>1. /\ Once("M", 4)' = q1 /\ Once("N", 8)' = q2 /\ Once("d", 16)' = q3
        /\ Once("f", 32)' = q4 /\ Once("a", 64)' = 64 /\ Once("l", 256)' = q6
        /\ Once("r", 512)' = q7 /\ Once("S", 1024)' = q8 /\ Once("s", 2048)' = q9
        /\ Once("k", 4096)' = q10 /\ Once("w", 8192)' = q11 /\ Once("L", 16384)' = q12
    BY <1>2, <1>14 DEF q1, q2, q3, q4, q5, q6, q7, q8, q9, q10, q11, q12
  <2>2. \/ q5 = 64 /\ util'.cmd = util.cmd
        \/ q5 = 0 /\ util'.cmd = util.cmd + 64
    BY <1>2, <1>4, <1>5, <1>8, <1>14 DEF OptionDoes, Or, q5
  <2>3. util'.cmd = q1 + q2 + q3 + q4 + 64 + q6 + q7 + q8 + q9 + q10 + q11 + q12
    BY <1>6, <1>9, <2>2
  <2> QED
    BY <2>1, <2>3 DEF Summed
<1>15. CASE o[1] = "l"
  <2>1. /\ Once("M", 4)' = q1 /\ Once("N", 8)' = q2 /\ Once("d", 16)' = q3
        /\ Once("f", 32)' = q4 /\ Once("a", 64)' = q5 /\ Once("l", 256)' = 256
        /\ Once("r", 512)' = q7 /\ Once("S", 1024)' = q8 /\ Once("s", 2048)' = q9
        /\ Once("k", 4096)' = q10 /\ Once("w", 8192)' = q11 /\ Once("L", 16384)' = q12
    BY <1>2, <1>15 DEF q1, q2, q3, q4, q5, q6, q7, q8, q9, q10, q11, q12
  <2>2. util'.cmd = util.cmd + 256 /\ q6 = 0
    BY <1>2, <1>3, <1>7, <1>15 DEF OptionDoes, Letters, q6
  <2>3. util'.cmd = q1 + q2 + q3 + q4 + q5 + 256 + q7 + q8 + q9 + q10 + q11 + q12
    BY <1>6, <1>9, <2>2
  <2> QED
    BY <2>1, <2>3 DEF Summed
<1>16. CASE o[1] = "r"
  <2>1. /\ Once("M", 4)' = q1 /\ Once("N", 8)' = q2 /\ Once("d", 16)' = q3
        /\ Once("f", 32)' = q4 /\ Once("a", 64)' = q5 /\ Once("l", 256)' = q6
        /\ Once("r", 512)' = 512 /\ Once("S", 1024)' = q8 /\ Once("s", 2048)' = q9
        /\ Once("k", 4096)' = q10 /\ Once("w", 8192)' = q11 /\ Once("L", 16384)' = q12
    BY <1>2, <1>16 DEF q1, q2, q3, q4, q5, q6, q7, q8, q9, q10, q11, q12
  <2>2. util'.cmd = util.cmd + 512 /\ q7 = 0
    BY <1>2, <1>3, <1>7, <1>16 DEF OptionDoes, Letters, q7
  <2>3. util'.cmd = q1 + q2 + q3 + q4 + q5 + q6 + 512 + q8 + q9 + q10 + q11 + q12
    BY <1>6, <1>9, <2>2
  <2> QED
    BY <2>1, <2>3 DEF Summed
<1>17. CASE o[1] = "S"
  <2>1. /\ Once("M", 4)' = q1 /\ Once("N", 8)' = q2 /\ Once("d", 16)' = q3
        /\ Once("f", 32)' = q4 /\ Once("a", 64)' = q5 /\ Once("l", 256)' = q6
        /\ Once("r", 512)' = q7 /\ Once("S", 1024)' = 1024 /\ Once("s", 2048)' = q9
        /\ Once("k", 4096)' = q10 /\ Once("w", 8192)' = q11 /\ Once("L", 16384)' = q12
    BY <1>2, <1>17 DEF q1, q2, q3, q4, q5, q6, q7, q8, q9, q10, q11, q12
  <2>2. util'.cmd = util.cmd + 1024 /\ q8 = 0
    BY <1>2, <1>3, <1>7, <1>17 DEF OptionDoes, Letters, q8
  <2>3. util'.cmd = q1 + q2 + q3 + q4 + q5 + q6 + q7 + 1024 + q9 + q10 + q11 + q12
    BY <1>6, <1>9, <2>2
  <2> QED
    BY <2>1, <2>3 DEF Summed
<1>18. CASE o[1] = "s"
  <2>1. /\ Once("M", 4)' = q1 /\ Once("N", 8)' = q2 /\ Once("d", 16)' = q3
        /\ Once("f", 32)' = q4 /\ Once("a", 64)' = q5 /\ Once("l", 256)' = q6
        /\ Once("r", 512)' = q7 /\ Once("S", 1024)' = q8 /\ Once("s", 2048)' = 2048
        /\ Once("k", 4096)' = q10 /\ Once("w", 8192)' = q11 /\ Once("L", 16384)' = q12
    BY <1>2, <1>18 DEF q1, q2, q3, q4, q5, q6, q7, q8, q9, q10, q11, q12
  <2>2. util'.cmd = util.cmd + 2048 /\ q9 = 0
    BY <1>2, <1>3, <1>7, <1>18 DEF OptionDoes, Letters, q9
  <2>3. util'.cmd = q1 + q2 + q3 + q4 + q5 + q6 + q7 + q8 + 2048 + q10 + q11 + q12
    BY <1>6, <1>9, <2>2
  <2> QED
    BY <2>1, <2>3 DEF Summed
<1>19. CASE o[1] = "k"
  <2>1. /\ Once("M", 4)' = q1 /\ Once("N", 8)' = q2 /\ Once("d", 16)' = q3
        /\ Once("f", 32)' = q4 /\ Once("a", 64)' = q5 /\ Once("l", 256)' = q6
        /\ Once("r", 512)' = q7 /\ Once("S", 1024)' = q8 /\ Once("s", 2048)' = q9
        /\ Once("k", 4096)' = 4096 /\ Once("w", 8192)' = q11 /\ Once("L", 16384)' = q12
    BY <1>2, <1>19 DEF q1, q2, q3, q4, q5, q6, q7, q8, q9, q10, q11, q12
  <2>2. util'.cmd = util.cmd + 4096 /\ q10 = 0
    BY <1>2, <1>3, <1>7, <1>19 DEF OptionDoes, Letters, q10
  <2>3. util'.cmd = q1 + q2 + q3 + q4 + q5 + q6 + q7 + q8 + q9 + 4096 + q11 + q12
    BY <1>6, <1>9, <2>2
  <2> QED
    BY <2>1, <2>3 DEF Summed
<1>20. CASE o[1] = "w"
  <2>1. /\ Once("M", 4)' = q1 /\ Once("N", 8)' = q2 /\ Once("d", 16)' = q3
        /\ Once("f", 32)' = q4 /\ Once("a", 64)' = q5 /\ Once("l", 256)' = q6
        /\ Once("r", 512)' = q7 /\ Once("S", 1024)' = q8 /\ Once("s", 2048)' = q9
        /\ Once("k", 4096)' = q10 /\ Once("w", 8192)' = 8192 /\ Once("L", 16384)' = q12
    BY <1>2, <1>20 DEF q1, q2, q3, q4, q5, q6, q7, q8, q9, q10, q11, q12
  <2>2. util'.cmd = util.cmd + 8192 /\ q11 = 0
    BY <1>2, <1>3, <1>7, <1>20 DEF OptionDoes, Letters, q11
  <2>3. util'.cmd = q1 + q2 + q3 + q4 + q5 + q6 + q7 + q8 + q9 + q10 + 8192 + q12
    BY <1>6, <1>9, <2>2
  <2> QED
    BY <2>1, <2>3 DEF Summed
<1>21. CASE o[1] = "L"
  <2>1. /\ Once("M", 4)' = q1 /\ Once("N", 8)' = q2 /\ Once("d", 16)' = q3
        /\ Once("f", 32)' = q4 /\ Once("a", 64)' = q5 /\ Once("l", 256)' = q6
        /\ Once("r", 512)' = q7 /\ Once("S", 1024)' = q8 /\ Once("s", 2048)' = q9
        /\ Once("k", 4096)' = q10 /\ Once("w", 8192)' = q11 /\ Once("L", 16384)' = 16384
    BY <1>2, <1>21 DEF q1, q2, q3, q4, q5, q6, q7, q8, q9, q10, q11, q12
  <2>2. util'.cmd = util.cmd + 16384 /\ q12 = 0
    BY <1>2, <1>3, <1>7, <1>21 DEF OptionDoes, Letters, q12
  <2>3. util'.cmd = q1 + q2 + q3 + q4 + q5 + q6 + q7 + q8 + q9 + q10 + q11 + 16384
    BY <1>6, <1>9, <2>2
  <2> QED
    BY <2>1, <2>3 DEF Summed
<1>22. CASE o[1] \notin Letters \cup {"d", "f", "M", "N", "a"}
  <2>1. \A x \in Letters \cup {"d", "f", "M", "N", "a"} :
          \A bit \in Nat : Once(x, bit)' = Once(x, bit)
    BY <1>2, <1>22
  <2>2. util'.cmd = util.cmd
    BY <1>22 DEF OptionDoes
  <2> QED
    BY <2>1, <2>2 DEF Summed, Letters
<1> QED
  BY <1>10, <1>11, <1>12, <1>13, <1>14, <1>15, <1>16, <1>17, <1>18, <1>19, <1>20, <1>21,
     <1>22 DEF Letters

LEMMA OptionKeeps ==
  ASSUME UtilIInv, Option
  PROVE  UtilIInv'
<1> DEFINE o == util.given[util.optind]
<1>1. UtilTypeOK /\ UtilTypeOK' /\ OptionDoes(o)
  BY OptionIs DEF UtilIInv
<1>2. \A x : /\ Given(x)' = Given(x)
             /\ Read(x)' = IF o[1] = x THEN Read(x) \cup {util.optind} ELSE Read(x)
             /\ LastRead(x)' = IF o[1] = x THEN o[2] ELSE LastRead(x)
  BY <1>1, OneMoreRead DEF OptionDoes
<1>3. util'.given = util.given /\ util'.tried = util.tried /\ util'.row = util.row
      /\ util'.optind = util.optind + 1 /\ o \in STRING \X STRING /\ o[1] # "operand"
      /\ util.phase = "parse" /\ util.optind <= Len(util.given)
  BY <1>1 DEF OptionDoes
<1>4. Parses /\ util.tried = << >> /\ util.row = 1 /\ Repeats' = Repeats
  BY <1>3, SameLine DEF UtilIInv, Parses
<1>5. util.optind \in Given(o[1])
  <2>1. util.optind \in 1..Len(util.given) /\ DOMAIN util.given = 1..Len(util.given)
    BY <1>1, <1>3 DEF UtilTypeOK
  <2> QED
    BY <2>1 DEF Given
<1>6. CASE o[1] = "d" /\ o[2] \notin DOMAIN DspId
  <2>1. util'.phase = "next"
    BY <1>1, <1>6 DEF OptionDoes
  <2>2. InError'
    <3>1. InError
      BY <1>5, <1>6 DEF InError
    <3> QED
      BY <1>3, <3>1, SameLine
  <2>3. Tried({})'
    <3>1. util'.tried = << >>
      BY <1>3, <1>4
    <3>2. DOMAIN util'.tried = {}
      BY <3>1
    <3> QED
      BY <3>2 DEF Tried
  <2>4. Asked' = {}
    BY <2>2 DEF Asked
  <2>5. RunsWhatWasAsked'
    BY <2>3, <2>4 DEF RunsWhatWasAsked
  <2> QED
    BY <1>1, <2>1, <2>5 DEF UtilIInv, Parses, Runs
<1>7. CASE ~(o[1] = "d" /\ o[2] \notin DOMAIN DspId)
  <2>1. util'.phase = "parse"
    BY <1>1, <1>7 DEF OptionDoes
  <2>2. (util.err <=> Read("?") # {})'
    BY <1>1, <1>2, <1>3, <1>4 DEF OptionDoes, Parses
  <2>3. Read("operand")' = {}
    BY <1>2, <1>3, <1>4 DEF Parses
  <2>4. (\A i \in Read("d") : util.given[i][2] \in DOMAIN DspId)'
    BY <1>2, <1>3, <1>4, <1>7 DEF Parses
  <2>5. (util.info.id = DspId[Default(LastRead("d"), "hifi4a")])'
    <3>1. util.info.id = DspId[Default(LastRead("d"), "hifi4a")]
      BY <1>3, <1>4 DEF Parses
    <3>2. CASE o[1] = "d"
      <4>1. Default(o[2], "hifi4a") = o[2] /\ LastRead("d")' = o[2]
        BY <1>2, <1>7, <3>2, DspIdIs
      <4>2. util'.info.id = DspId[o[2]]
        BY <1>1, <1>7, <3>2 DEF OptionDoes
      <4>3. Default(LastRead("d"), "hifi4a")' = o[2]
        BY <4>1 DEF Default
      <4> QED
        BY <4>2, <4>3 DEF DspId
    <3>3. CASE o[1] # "d"
      <4>1. LastRead("d")' = LastRead("d") /\ util'.info.id = util.info.id
        BY <1>1, <1>2, <3>3 DEF OptionDoes
      <4> QED
        BY <3>1, <4>1 DEF Default, DspId
    <3> QED
      BY <3>2, <3>3
  <2>6. (~Repeats => Summed)'
    BY <1>1, <1>3, <1>4, <2>1, OptionSums DEF Parses
  <2>7. (\A file \in {"f", "M", "N"} : util.info[file] = LastRead(file))'
    <3>1. util.info.f = LastRead("f") /\ util.info.M = LastRead("M")
          /\ util.info.N = LastRead("N")
      BY <1>3, <1>4 DEF Parses
    <3>2. /\ util'.info.f = LastRead("f")' /\ util'.info.M = LastRead("M")'
          /\ util'.info.N = LastRead("N")'
      BY <1>1, <1>2, <3>1 DEF OptionDoes
    <3> QED
      BY <3>2
  <2> QED
    BY <1>1, <1>3, <1>4, <2>1, <2>2, <2>3, <2>4, <2>5, <2>6, <2>7
       DEF UtilIInv, Parses, Runs, RunsWhatWasAsked
<1> QED
  BY <1>6, <1>7

LEMMA LaunchKeeps ==
  ASSUME UtilIInv, Launch
  PROVE  UtilIInv'
<1>1. UtilTypeOK /\ util.lines \in Seq(Seq(STRING \X STRING)) /\ util.lines # << >>
  BY DEF UtilIInv, UtilTypeOK, Launch
<1>2. Tail(util.lines) \in Seq(Seq(STRING \X STRING))
      /\ Head(util.lines) \in Seq(STRING \X STRING)
  BY <1>1
<1> DEFINE t == Tail(util.lines)
           h == Head(util.lines)
<1> HIDE DEF t, h
<1>3. util' = [lines |-> t, world |-> util.world, phase |-> "parse", given |-> h, optind |-> 1,
               cmd |-> 0, err |-> FALSE, info |-> NoInfo, row |-> 1, tried |-> << >>]
  BY DEF Launch, UtilStart, t, h
<1>4. t \in Seq(Seq(STRING \X STRING)) /\ h \in Seq(STRING \X STRING) /\ Len(h) \in Nat
  BY <1>2 DEF t, h
<1>5. NoInfo \in Infos /\ Len(Table) = 7 /\ << >> \in Seq(Letters \X Infos)
  <2>1. NoInfo \in Infos
    <3>1. "" \in FileNames
      BY DEF FileNames
    <3> QED
      BY <3>1 DEF NoInfo, Infos
  <2> QED
    BY <2>1, TableIs
<1>6. UtilTypeOK'
  BY <1>3, <1>4, <1>5 DEF UtilTypeOK
<1>7. \A x : Read(x)' = {}
  <2>1. \A x : Given(x)' \subseteq Nat \ {0}
    BY <1>3, <1>4 DEF Given
  <2> QED
    BY <1>3, <2>1 DEF Read
<1>8. \A x : LastRead(x)' = ""
  BY <1>7 DEF LastRead
<1>9. \A x : \A bit \in Nat : Once(x, bit)' = 0
  BY <1>7 DEF Once
<1>10. Parses'
  <2>1. DspId[Default("", "hifi4a")] = 0
    BY DspIdIs DEF Default
  <2>2. (util.info.id = DspId[Default(LastRead("d"), "hifi4a")])'
    BY <1>3, <1>8, <2>1 DEF NoInfo, Default, DspId
  <2>3. Summed'
    <3>1. /\ Once("M", 4)' = 0 /\ Once("N", 8)' = 0 /\ Once("d", 16)' = 0
          /\ Once("f", 32)' = 0
          /\ Once("a", 64)' = 0 /\ Once("l", 256)' = 0 /\ Once("r", 512)' = 0
          /\ Once("S", 1024)' = 0
          /\ Once("s", 2048)' = 0 /\ Once("k", 4096)' = 0 /\ Once("w", 8192)' = 0
          /\ Once("L", 16384)' = 0
      BY <1>9
    <3>2. util'.cmd = 0
      BY <1>3
    <3> QED
      BY <3>1, <3>2 DEF Summed
  <2>4. (\A file \in {"f", "M", "N"} : util.info[file] = LastRead(file))'
    <3>1. util'.info.f = "" /\ util'.info.M = "" /\ util'.info.N = ""
      BY <1>3 DEF NoInfo
    <3> QED
      BY <1>8, <3>1
  <2> QED
    BY <1>3, <1>7, <2>2, <2>3, <2>4 DEF Parses
<1> QED
  BY <1>3, <1>6, <1>10 DEF UtilIInv, Runs, RunsWhatWasAsked

LEMMA OthersKeep ==
  ASSUME UtilIInv, NotRun \/ Operand
  PROVE  UtilIInv'
<1>1. UtilTypeOK
  BY DEF UtilIInv
<1>2. CASE NotRun
  <2>1. util' = [util EXCEPT !.lines = Tail(util.lines)] /\ util.phase = "next"
        /\ Len(util.lines) > 1
    BY <1>2 DEF NotRun
  <2>2. Tail(util.lines) \in Seq(Seq(STRING \X STRING))
    <3>1. util.lines \in Seq(Seq(STRING \X STRING)) /\ util.lines # << >>
      BY <1>1, <2>1 DEF UtilTypeOK
    <3> QED
      BY <3>1
  <2>3. UtilTypeOK'
    BY <1>1, <2>1, <2>2 DEF UtilTypeOK
  <2>4. util'.given = util.given /\ util'.phase = "next" /\ util'.tried = util.tried
        /\ util'.world = util.world
    BY <1>1, <2>1 DEF UtilTypeOK
  <2>5. RunsWhatWasAsked
    BY DEF UtilIInv
  <2>6. RunsWhatWasAsked'
    <3>1. Asked' = Asked /\ Repeats' = Repeats
      BY <2>4, SameLine DEF Asked, Possible
    <3>2. \A s : Tried(s)' <=> Tried(s)
      BY <2>4, SameTries
    <3> QED
      BY <2>1, <2>5, <3>1, <3>2 DEF RunsWhatWasAsked
  <2> QED
    BY <2>3, <2>4, <2>6 DEF UtilIInv, Parses, Runs
<1>3. CASE Operand
  <2>1. util' = [util EXCEPT !.phase = "usage"]
    BY <1>3 DEF Operand
  <2>2. UtilTypeOK' /\ util'.phase = "usage"
    BY <1>1, <2>1 DEF UtilTypeOK
  <2> QED
    BY <2>2 DEF UtilIInv, Parses, Runs, RunsWhatWasAsked
<1> QED
  BY <1>2, <1>3

\* All of the line has been read.
LEMMA AllIsRead ==
  ASSUME UtilTypeOK, util.optind = Len(util.given) + 1
  PROVE  \A x : Read(x) = Given(x) /\ LastRead(x) = LastGiven(x)
<1>1. \A x : Read(x) = Given(x)
  <2>1. Len(util.given) \in Nat /\ DOMAIN util.given = 1..Len(util.given)
    BY DEF UtilTypeOK
  <2> QED
    BY <2>1 DEF Read, Given
<1> QED
  BY <1>1 DEF LastRead, LastGiven

LEMMA NoError ==
  ASSUME UtilIInv, util.phase \in {"parse", "run"}, util.optind = Len(util.given) + 1, ~util.err
  PROVE  ~InError
<1>1. UtilTypeOK /\ Parses
  BY DEF UtilIInv
<1>2. \A x : Read(x) = Given(x)
  BY <1>1, AllIsRead
<1> QED
  BY <1>1, <1>2 DEF Parses, InError

LEMMA ParsedKeeps ==
  ASSUME UtilIInv, Parsed
  PROVE  UtilIInv'
<1>1. UtilTypeOK /\ Parses /\ util.phase = "parse" /\ util.optind > Len(util.given)
      /\ util' = [util EXCEPT !.phase = IF util.err THEN "next" ELSE "run"]
  BY DEF UtilIInv, Parsed
<1>2. util.optind = Len(util.given) + 1
  BY <1>1 DEF UtilTypeOK
<1>3. UtilTypeOK' /\ util'.phase = IF util.err THEN "next" ELSE "run"
  BY <1>1 DEF UtilTypeOK
<1>4. /\ util'.given = util.given /\ util'.optind = util.optind /\ util'.tried = util.tried
      /\ util'.world = util.world /\ util'.err = util.err /\ util'.row = util.row
      /\ util'.info = util.info /\ util'.cmd = util.cmd
  BY <1>1 DEF UtilTypeOK
<1>5. Tried({})'
  <2>1. util'.tried = << >>
    BY <1>1, <1>4 DEF Parses
  <2>2. DOMAIN util'.tried = {}
    BY <2>1
  <2> QED
    BY <2>2 DEF Tried
<1>6. \A x : Read(x) = Given(x) /\ LastRead(x) = LastGiven(x)
  BY <1>1, <1>2, AllIsRead
<1>7. CASE util.err
  <2>1. InError
    BY <1>1, <1>6, <1>7 DEF Parses, InError
  <2>2. Asked' = {}
    BY <1>4, <2>1, SameLine DEF Asked
  <2> QED
    BY <1>3, <1>5, <1>7, <2>2 DEF UtilIInv, Parses, Runs, RunsWhatWasAsked
<1>8. CASE ~util.err
  <2>1. util'.phase = "run"
    BY <1>3, <1>8
  <2>2. \A x : /\ Read(x)' = Read(x) /\ LastRead(x)' = LastRead(x)
               /\ \A bit \in Nat : Once(x, bit)' = Once(x, bit)
    <3>1. \A x : Read(x)' = Read(x)
      BY <1>4, SameLine DEF Read
    <3> QED
      BY <1>4, <3>1 DEF LastRead, Once
  <2>3. Summed => Summed'
    <3>1. Once("M", 4)' = Once("M", 4) /\ Once("N", 8)' = Once("N", 8)
          /\ Once("d", 16)' = Once("d", 16) /\ Once("f", 32)' = Once("f", 32)
          /\ Once("a", 64)' = Once("a", 64) /\ Once("l", 256)' = Once("l", 256)
          /\ Once("r", 512)' = Once("r", 512) /\ Once("S", 1024)' = Once("S", 1024)
          /\ Once("s", 2048)' = Once("s", 2048) /\ Once("k", 4096)' = Once("k", 4096)
          /\ Once("w", 8192)' = Once("w", 8192) /\ Once("L", 16384)' = Once("L", 16384)
      BY <2>2
    <3> QED
      BY <1>4, <3>1 DEF Summed
  <2>4. Parses'
    <3>1. (util.info.id = DspId[Default(LastRead("d"), "hifi4a")])'
      BY <1>1, <1>4, <2>2 DEF Parses, Default, DspId
    <3>2. Repeats' = Repeats
      BY <1>4, SameLine
    <3>3. /\ (util.err <=> Read("?") # {})' /\ (Read("operand") = {})'
          /\ (\A i \in Read("d") : util.given[i][2] \in DOMAIN DspId)'
      BY <1>1, <1>4, <2>2 DEF Parses
    <3> QED
      BY <1>1, <2>1, <2>3, <3>1, <3>2, <3>3 DEF Parses
  <2>5. {letter \in Asked' : Row(letter) < util'.row} = {}
    <3>1. Asked' \subseteq Letters /\ util'.row = 1
      BY <1>1, <1>4 DEF Asked, Parses
    <3>2. \A letter \in Letters : Row(letter) \in 1..7
      BY LettersAre
    <3> QED
      BY <3>1, <3>2
  <2>6. /\ Default(util'.info.f, "dspaboot.bin") = File("f", "dspaboot.bin")'
        /\ Default(util'.info.M, "dspboot_sram.bin") = File("M", "dspboot_sram.bin")'
        /\ Default(util'.info.N, "dspboot_sdram.bin") = File("N", "dspboot_sdram.bin")'
    <3>1. util.info.f = LastGiven("f") /\ util.info.M = LastGiven("M")
          /\ util.info.N = LastGiven("N")
      BY <1>1, <1>6 DEF Parses
    <3>2. /\ Default(util.info.f, "dspaboot.bin") = File("f", "dspaboot.bin")
          /\ Default(util.info.M, "dspboot_sram.bin") = File("M", "dspboot_sram.bin")
          /\ Default(util.info.N, "dspboot_sdram.bin") = File("N", "dspboot_sdram.bin")
      BY <3>1 DEF File
    <3> QED
      BY <1>4, <3>2, SameLine
  <2>7. Runs'
    BY <1>2, <1>4, <1>5, <1>8, <2>5, <2>6 DEF Runs, Default
  <2> QED
    BY <1>3, <2>1, <2>4, <2>7 DEF UtilIInv, RunsWhatWasAsked
<1> QED
  BY <1>7, <1>8

LEMMA ExitKeeps ==
  ASSUME UtilIInv, Exit
  PROVE  UtilIInv'
<1>1. UtilTypeOK /\ Runs /\ util.phase = "run" /\ util.row > Len(Table)
      /\ util' = [util EXCEPT !.phase = "next"]
  BY DEF UtilIInv, Exit
<1>2. UtilTypeOK' /\ util'.phase = "next"
  BY <1>1 DEF UtilTypeOK
<1>3. /\ util'.given = util.given /\ util'.tried = util.tried /\ util'.world = util.world
  BY <1>1 DEF UtilTypeOK
<1>4. ~Repeats => Tried(Asked)
  <2>1. util.row = 8
    BY <1>1, TableIs DEF UtilTypeOK
  <2>2. \A letter \in Letters : Row(letter) \in 1..7
    BY LettersAre
  <2>3. {letter \in Asked : Row(letter) < util.row} = Asked
    BY <2>1, <2>2 DEF Asked
  <2> QED
    BY <1>1, <2>3 DEF Runs
<1>5. RunsWhatWasAsked'
  <2>1. Asked' = Asked /\ Repeats' = Repeats
    BY <1>3, SameLine DEF Asked, Possible
  <2>2. \A s : Tried(s)' <=> Tried(s)
    BY <1>3, SameTries
  <2> QED
    BY <1>4, <2>1, <2>2 DEF RunsWhatWasAsked
<1> QED
  BY <1>2, <1>5 DEF UtilIInv, Parses, Runs

\* One more command, of a row below those of the others.
LEMMA TriedAppend ==
  ASSUME UtilTypeOK, NEW s \in SUBSET Letters, NEW letter \in Letters, NEW info \in Infos,
         Tried(s), \A l \in s : Row(l) < Row(letter),
         util'.given = util.given, util'.tried = Append(util.tried, <<letter, info>>),
         info.id = TheDsp,
         letter = "l" => info.f = File("f", "dspaboot.bin"),
         letter = "L" => /\ info.M = File("M", "dspboot_sram.bin")
                         /\ info.N = File("N", "dspboot_sdram.bin")
  PROVE  Tried(s \cup {letter})'
<1> DEFINE t == util.tried
           n == Len(t)
           u == util'.tried
<1>1. t \in Seq(Letters \X Infos) /\ n \in Nat /\ DOMAIN t = 1..n
  BY DEF UtilTypeOK
<1>2. u = Append(t, <<letter, info>>)
  OBVIOUS
<1>3. <<letter, info>> \in Letters \X Infos
  OBVIOUS
<1>4. /\ {t[i][1] : i \in DOMAIN t} = s
      /\ \A i, j \in DOMAIN t : i < j => Row(t[i][1]) < Row(t[j][1])
      /\ \A i \in DOMAIN t :
           /\ t[i][2].id = TheDsp
           /\ t[i][1] = "l" => t[i][2].f = File("f", "dspaboot.bin")
           /\ t[i][1] = "L" => /\ t[i][2].M = File("M", "dspboot_sram.bin")
                               /\ t[i][2].N = File("N", "dspboot_sdram.bin")
  BY DEF Tried
<1>5. TheDsp' = TheDsp /\ \A x, y : File(x, y)' = File(x, y)
  BY SameLine
<1> HIDE DEF t, u, n
<1>6. /\ DOMAIN u = 1..(n + 1) /\ u[n + 1] = <<letter, info>>
      /\ \A i \in 1..n : u[i] = t[i]
  <2>1. n = Len(t)
    BY DEF n
  <2> QED
    BY <1>1, <1>2, <1>3, <2>1
<1>7. {u[i][1] : i \in DOMAIN u} = s \cup {letter}
  <2>1. 1..(n + 1) = 1..n \cup {n + 1}
    BY <1>1
  <2>2. u[n + 1][1] = letter /\ \A i \in 1..n : u[i][1] = t[i][1]
    BY <1>6
  <2>3. \A x : x \in {u[i][1] : i \in DOMAIN u}
                <=> x \in {t[i][1] : i \in DOMAIN t} \/ x = letter
    BY <1>1, <1>6, <2>1, <2>2
  <2> QED
    BY <1>4, <2>3
<1>8. \A i \in 1..n : Row(t[i][1]) < Row(letter)
  BY <1>1, <1>4
<1>9. \A i, j \in DOMAIN u : i < j => Row(u[i][1]) < Row(u[j][1])
  <2> SUFFICES ASSUME NEW i \in 1..(n + 1), NEW j \in 1..(n + 1), i < j
               PROVE  Row(u[i][1]) < Row(u[j][1])
    BY <1>6
  <2>1. i \in 1..n /\ u[i] = t[i]
    BY <1>1, <1>6
  <2>2. CASE j = n + 1
    BY <1>6, <1>8, <2>1, <2>2
  <2>3. CASE j \in 1..n
    BY <1>1, <1>4, <1>6, <2>1, <2>3
  <2> QED
    BY <1>1, <2>2, <2>3
<1>10. \A i \in DOMAIN u :
        /\ u[i][2].id = TheDsp
        /\ u[i][1] = "l" => u[i][2].f = File("f", "dspaboot.bin")
        /\ u[i][1] = "L" => /\ u[i][2].M = File("M", "dspboot_sram.bin")
                            /\ u[i][2].N = File("N", "dspboot_sdram.bin")
  <2> SUFFICES ASSUME NEW i \in 1..(n + 1)
               PROVE  /\ u[i][2].id = TheDsp
                      /\ u[i][1] = "l" => u[i][2].f = File("f", "dspaboot.bin")
                      /\ u[i][1] = "L" => /\ u[i][2].M = File("M", "dspboot_sram.bin")
                                          /\ u[i][2].N = File("N", "dspboot_sdram.bin")
    BY <1>6
  <2>1. CASE i = n + 1
    <3>1. u[i][1] = letter /\ u[i][2] = info
      BY <1>6, <2>1
    <3> QED
      BY <3>1
  <2>2. CASE i \in 1..n
    BY <1>1, <1>4, <1>6, <2>2
  <2> QED
    BY <1>1, <2>1, <2>2
<1> QED
  BY <1>5, <1>7, <1>9, <1>10 DEF Tried, u

\* The names a command is run with.
NamesOf(letter) ==
  CASE letter = "l" -> [util.info EXCEPT !.f = Default(@, "dspaboot.bin")]
    [] letter = "L" -> [util.info EXCEPT !.M = Default(@, "dspboot_sram.bin"),
                                         !.N = Default(@, "dspboot_sdram.bin")]
    [] OTHER -> util.info

LEMMA NamesAre ==
  ASSUME UtilTypeOK, NEW letter \in Letters
  PROVE  /\ NamesOf(letter) \in Infos /\ NamesOf(letter).id = util.info.id
         /\ Default(NamesOf(letter).f, "dspaboot.bin") = Default(util.info.f, "dspaboot.bin")
         /\ Default(NamesOf(letter).M, "dspboot_sram.bin")
              = Default(util.info.M, "dspboot_sram.bin")
         /\ Default(NamesOf(letter).N, "dspboot_sdram.bin")
              = Default(util.info.N, "dspboot_sdram.bin")
         /\ letter = "l" => NamesOf(letter).f = Default(util.info.f, "dspaboot.bin")
         /\ letter = "L" => /\ NamesOf(letter).M = Default(util.info.M, "dspboot_sram.bin")
                            /\ NamesOf(letter).N = Default(util.info.N, "dspboot_sdram.bin")
<1> DEFINE info == util.info
           f == Default(info.f, "dspaboot.bin")
           sram == Default(info.M, "dspboot_sram.bin")
           sdram == Default(info.N, "dspboot_sdram.bin")
<1>1. info \in Infos
  BY DEF UtilTypeOK
<1>2. f \in FileNames /\ sram \in FileNames /\ sdram \in FileNames
  BY <1>1 DEF Default, Infos, FileNames
<1>3. /\ Default(f, "dspaboot.bin") = f /\ Default(sram, "dspboot_sram.bin") = sram
      /\ Default(sdram, "dspboot_sdram.bin") = sdram
  BY DEF Default
<1>4. NamesOf(letter) = CASE letter = "l" -> [info EXCEPT !.f = f]
                          [] letter = "L" -> [info EXCEPT !.M = sram, !.N = sdram]
                          [] OTHER -> info
  BY DEF NamesOf
<1> HIDE DEF info, f, sram, sdram
<1>5. CASE letter = "l"
  <2>1. NamesOf(letter) = [info EXCEPT !.f = f] /\ letter # "L"
    BY <1>4, <1>5
  <2> QED
    BY <1>1, <1>2, <1>3, <1>5, <2>1 DEF Infos, info, f, sram, sdram
<1>6. CASE letter = "L"
  <2>1. NamesOf(letter) = [info EXCEPT !.M = sram, !.N = sdram] /\ letter # "l"
    BY <1>4, <1>6
  <2> QED
    BY <1>1, <1>2, <1>3, <1>6, <2>1 DEF Infos, info, f, sram, sdram
<1>7. CASE letter # "l" /\ letter # "L"
  <2>1. NamesOf(letter) = info
    BY <1>4, <1>7
  <2> QED
    BY <1>1, <1>7, <2>1 DEF info
<1> QED
  BY <1>5, <1>6, <1>7

LEMMA CommandIs ==
  ASSUME UtilTypeOK, Command
  PROVE  LET letter == Table[util.row][1]
             runs == Has(util.cmd, Bit(letter)) IN
         /\ util.row \in 1..7 /\ util.phase = "run" /\ letter \in Letters
         /\ Row(letter) = util.row
         /\ UtilTypeOK' /\ util'.phase = "run" /\ util'.row = util.row + 1
         /\ util'.given = util.given /\ util'.optind = util.optind
         /\ util'.world = util.world
         /\ util'.err = util.err /\ util'.cmd = util.cmd
         /\ util'.info = IF runs THEN NamesOf(letter) ELSE util.info
         /\ util'.tried = IF runs /\ Ready(letter, NamesOf(letter))
                          THEN Append(util.tried, <<letter, NamesOf(letter)>>) ELSE util.tried
<1> DEFINE r == util.row
           letter == Table[r][1]
           info == NamesOf(letter)
           t == IF Ready(letter, info) THEN Append(util.tried, <<letter, info>>) ELSE util.tried
<1>1. r \in 1..7 /\ util.phase = "run"
  BY TableIs DEF Command, UtilTypeOK
<1>2. letter \in Letters /\ Row(letter) = r
  BY <1>1, RowIs
<1>3. Bit(letter) = Table[r][2]
  BY <1>2 DEF Bit
<1>4. info \in Infos
  BY <1>2, NamesAre
<1>5. util' = IF ~Has(util.cmd, Bit(letter)) THEN [util EXCEPT !.row = r + 1]
              ELSE [util EXCEPT !.row = r + 1, !.info = info, !.tried = t]
  <2>1. util' = IF ~Has(util.cmd, Table[r][2]) THEN [util EXCEPT !.row = r + 1]
                ELSE [util EXCEPT !.row = r + 1, !.info = info,
                        !.tried = IF Ready(letter, info) THEN Append(@, <<letter, info>>)
                                  ELSE @]
    BY DEF Command, NamesOf
  <2> QED
    BY <1>3, <2>1
<1>6. t \in Seq(Letters \X Infos)
  <2>1. util.tried \in Seq(Letters \X Infos) /\ <<letter, info>> \in Letters \X Infos
    BY <1>2, <1>4 DEF UtilTypeOK
  <2> HIDE DEF letter, info
  <2> QED
    BY <2>1
<1>7. r + 1 \in 1..(Len(Table) + 1)
  BY <1>1, TableIs
<1> HIDE DEF r, letter, info, t
<1>8. CASE ~Has(util.cmd, Bit(letter))
  <2>1. util' = [util EXCEPT !.row = r + 1]
    BY <1>5, <1>8
  <2>2. UtilTypeOK'
    BY <1>7, <2>1 DEF UtilTypeOK
  <2>3. /\ util'.phase = util.phase /\ util'.row = r + 1 /\ util'.given = util.given
        /\ util'.optind = util.optind /\ util'.world = util.world /\ util'.err = util.err
        /\ util'.cmd = util.cmd /\ util'.info = util.info /\ util'.tried = util.tried
    BY <2>1 DEF UtilTypeOK
  <2> QED
    BY <1>1, <1>2, <1>8, <2>2, <2>3 DEF r, letter
<1>9. CASE Has(util.cmd, Bit(letter))
  <2>1. util' = [util EXCEPT !.row = r + 1, !.info = info, !.tried = t]
    BY <1>5, <1>9
  <2>2. UtilTypeOK'
    BY <1>4, <1>6, <1>7, <2>1 DEF UtilTypeOK
  <2>3. /\ util'.phase = util.phase /\ util'.row = r + 1 /\ util'.given = util.given
        /\ util'.optind = util.optind /\ util'.world = util.world /\ util'.err = util.err
        /\ util'.cmd = util.cmd /\ util'.info = info /\ util'.tried = t
    BY <2>1 DEF UtilTypeOK
  <2> QED
    BY <1>1, <1>2, <1>9, <2>2, <2>3 DEF r, letter, info, t
<1> QED
  BY <1>8, <1>9

LEMMA CommandKeeps ==
  ASSUME UtilIInv, Command
  PROVE  UtilIInv'
<1> DEFINE r == util.row
           letter == Table[r][1]
           info == NamesOf(letter)
           runs == Has(util.cmd, Bit(letter))
           above == {l \in Asked : Row(l) < r}
<1>1. UtilTypeOK /\ Parses /\ Runs
  BY DEF UtilIInv
<1>2. /\ r \in 1..7 /\ util.phase = "run" /\ letter \in Letters /\ Row(letter) = r
      /\ UtilTypeOK' /\ util'.phase = "run" /\ util'.row = r + 1
      /\ util'.given = util.given /\ util'.optind = util.optind /\ util'.world = util.world
      /\ util'.err = util.err /\ util'.cmd = util.cmd
      /\ util'.info = IF runs THEN info ELSE util.info
      /\ util'.tried = IF runs /\ Ready(letter, info) THEN Append(util.tried, <<letter, info>>)
                       ELSE util.tried
  BY <1>1, CommandIs
<1>3. /\ info \in Infos /\ info.id = util.info.id
      /\ Default(info.f, "dspaboot.bin") = Default(util.info.f, "dspaboot.bin")
      /\ Default(info.M, "dspboot_sram.bin") = Default(util.info.M, "dspboot_sram.bin")
      /\ Default(info.N, "dspboot_sdram.bin") = Default(util.info.N, "dspboot_sdram.bin")
      /\ letter = "l" => info.f = Default(util.info.f, "dspaboot.bin")
      /\ letter = "L" => /\ info.M = Default(util.info.M, "dspboot_sram.bin")
                         /\ info.N = Default(util.info.N, "dspboot_sdram.bin")
  BY <1>1, <1>2, NamesAre
<1>4. util.optind = Len(util.given) + 1 /\ ~util.err
  BY <1>1, <1>2 DEF Runs
<1>5. \A x : Read(x) = Given(x) /\ LastRead(x) = LastGiven(x)
  BY <1>1, <1>4, AllIsRead
<1>6. /\ Default(util.info.f, "dspaboot.bin") = File("f", "dspaboot.bin")
      /\ Default(util.info.M, "dspboot_sram.bin") = File("M", "dspboot_sram.bin")
      /\ Default(util.info.N, "dspboot_sdram.bin") = File("N", "dspboot_sdram.bin")
      /\ ~Repeats => Tried(above)
  BY <1>1, <1>2 DEF Runs
<1>7. util.info.id = TheDsp
  BY <1>1, <1>2, <1>5 DEF Parses, TheDsp
<1>8. ~InError
  BY <1>2, <1>4, NoError
<1> HIDE DEF r, letter, info, runs
<1>9. Ready(letter, info) <=> Possible(letter)
  <2>1. info.id = TheDsp
    BY <1>3, <1>7
  <2>2. letter = "l" => info.f = File("f", "dspaboot.bin")
    BY <1>3, <1>6
  <2>3. letter = "L" => /\ info.M = File("M", "dspboot_sram.bin")
                        /\ info.N = File("N", "dspboot_sdram.bin")
    BY <1>3, <1>6
  <2>4. letter = "l" =>
          (dsp_firmware_is_exist(info)
             <=> \E dir \in {"/vendor/etc/firmware/hifi4dsp/", "/vendor/firmware/"} :
                   <<dir, File("f", "dspaboot.bin")>> \in util.world.files)
    BY <2>2 DEF dsp_firmware_is_exist
  <2>5. letter = "L" =>
          (dsp_2firmware_is_exist(info)
             <=> {<<"/lib/firmware/", File("M", "dspboot_sram.bin")>>,
                  <<"/lib/firmware/", File("N", "dspboot_sdram.bin")>>}
                   \subseteq util.world.files)
    BY <2>3 DEF dsp_2firmware_is_exist
  <2> QED
    BY <2>1, <2>4, <2>5 DEF Ready, Possible, dsp_dev_is_exist
<1>10. Repeats' = Repeats /\ InError' = InError /\ TheDsp' = TheDsp
       /\ Asked' = Asked /\ \A x, y : File(x, y)' = File(x, y)
  <2>1. Repeats' = Repeats /\ InError' = InError /\ TheDsp' = TheDsp
        /\ (\A x : Given(x)' = Given(x)) /\ \A x, y : File(x, y)' = File(x, y)
    BY <1>2, SameLine
  <2>2. \A l : Possible(l)' = Possible(l)
    BY <1>2, <2>1 DEF Possible
  <2> QED
    BY <2>1, <2>2 DEF Asked
<1>11. Parses'
  <2>1. \A x : Read(x)' = Read(x)
    BY <1>2, SameLine DEF Read
  <2>2. \A x : LastRead(x)' = LastRead(x) /\ \A bit \in Nat : Once(x, bit)' = Once(x, bit)
    BY <1>2, <2>1 DEF LastRead, Once
  <2>3. Summed => Summed'
    <3>1. Once("M", 4)' = Once("M", 4) /\ Once("N", 8)' = Once("N", 8)
          /\ Once("d", 16)' = Once("d", 16) /\ Once("f", 32)' = Once("f", 32)
          /\ Once("a", 64)' = Once("a", 64) /\ Once("l", 256)' = Once("l", 256)
          /\ Once("r", 512)' = Once("r", 512) /\ Once("S", 1024)' = Once("S", 1024)
          /\ Once("s", 2048)' = Once("s", 2048) /\ Once("k", 4096)' = Once("k", 4096)
          /\ Once("w", 8192)' = Once("w", 8192) /\ Once("L", 16384)' = Once("L", 16384)
      BY <2>2
    <3> QED
      BY <1>2, <3>1 DEF Summed
  <2>4. util'.info.id = util.info.id
    BY <1>2, <1>3
  <2>5. (util.info.id = DspId[Default(LastRead("d"), "hifi4a")])'
    BY <1>1, <1>2, <2>2, <2>4 DEF Parses, Default, DspId
  <2>6. /\ (util.err <=> Read("?") # {})' /\ (Read("operand") = {})'
        /\ (\A i \in Read("d") : util.given[i][2] \in DOMAIN DspId)'
    BY <1>1, <1>2, <2>1 DEF Parses
  <2> QED
    BY <1>1, <1>2, <1>10, <2>3, <2>5, <2>6 DEF Parses
<1>12. ~Repeats => Tried({l \in Asked : Row(l) < util.row})'
  <2> SUFFICES ASSUME ~Repeats
               PROVE  Tried({l \in Asked : Row(l) < util.row})'
    OBVIOUS
  <2>1. Has(util.cmd, Bit(letter)) <=> Given(letter) # {}
    <3>1. Summed
      BY <1>1, <1>2 DEF Parses
    <3> QED
      BY <1>2, <1>5, <3>1, SumTells
  <2>2. letter \in Asked <=> runs /\ Ready(letter, info)
    BY <1>2, <1>8, <1>9, <2>1 DEF Asked, runs
  <2>3. above \subseteq Letters /\ \A l \in above : Row(l) < Row(letter)
    BY <1>2 DEF Asked
  <2>4. {l \in Asked : Row(l) < util.row}'
          = IF letter \in Asked THEN above \cup {letter} ELSE above
    <3>1. \A l \in Letters : Row(l) \in 1..7 /\ (Row(l) = r => l = letter)
      BY LettersAre DEF letter
    <3>2. \A l \in Letters : Row(l) < r + 1 <=> Row(l) < r \/ l = letter
      BY <1>2, <3>1
    <3>3. Asked \subseteq Letters
      BY DEF Asked
    <3> QED
      BY <1>2, <1>10, <3>2, <3>3
  <2>5. Tried(above)
    BY <1>6
  <2> HIDE DEF above
  <2>6. CASE letter \in Asked
    <3>1. util'.tried = Append(util.tried, <<letter, info>>)
      BY <1>2, <2>2, <2>6
    <3>2. /\ info.id = TheDsp
          /\ letter = "l" => info.f = File("f", "dspaboot.bin")
          /\ letter = "L" => /\ info.M = File("M", "dspboot_sram.bin")
                             /\ info.N = File("N", "dspboot_sdram.bin")
      BY <1>3, <1>6, <1>7
    <3>3. PICK s \in SUBSET Letters, l \in Letters, i \in Infos :
            s = above /\ l = letter /\ i = info
      BY <1>2, <1>3, <2>3
    <3>4. /\ util'.tried = Append(util.tried, <<l, i>>) /\ i.id = TheDsp
          /\ l = "l" => i.f = File("f", "dspaboot.bin")
          /\ l = "L" => /\ i.M = File("M", "dspboot_sram.bin")
                        /\ i.N = File("N", "dspboot_sdram.bin")
      BY <3>1, <3>2, <3>3
    <3>5. Tried(s) /\ \A k \in s : Row(k) < Row(l)
      BY <2>3, <2>5, <3>3
    <3>6. Tried(s \cup {l})'
      BY <1>1, <1>2, <3>4, <3>5, TriedAppend
    <3>7. {k \in Asked : Row(k) < util.row}' = s \cup {l}
      BY <2>4, <2>6, <3>3
    <3>8. PICK x : x = s \cup {l}
      OBVIOUS
    <3>9. Tried(x)' /\ {k \in Asked : Row(k) < util.row}' = x
      BY <3>6, <3>7, <3>8
    <3> QED
      BY <3>9
  <2>7. CASE letter \notin Asked
    <3>1. util'.tried = util.tried
      BY <1>2, <2>2, <2>7
    <3>2. \A s : Tried(s)' <=> Tried(s)
      BY <1>2, <3>1, SameTries
    <3>3. PICK s : s = above
      OBVIOUS
    <3>4. {k \in Asked : Row(k) < util.row}' = s
      BY <2>4, <2>7, <3>3
    <3>5. Tried(s)'
      BY <2>5, <3>2, <3>3
    <3> QED
      BY <3>4, <3>5
  <2> QED
    BY <2>6, <2>7
<1>13. /\ Default(util'.info.f, "dspaboot.bin") = File("f", "dspaboot.bin")'
       /\ Default(util'.info.M, "dspboot_sram.bin") = File("M", "dspboot_sram.bin")'
       /\ Default(util'.info.N, "dspboot_sdram.bin") = File("N", "dspboot_sdram.bin")'
  BY <1>2, <1>3, <1>6, <1>10
<1>14. Runs'
  BY <1>2, <1>4, <1>10, <1>12, <1>13 DEF Runs, Default
<1> QED
  BY <1>2, <1>11, <1>14 DEF UtilIInv, RunsWhatWasAsked

LEMMA UtilStarts ==
  ASSUME UtilInit \/ UtilIdle
  PROVE  UtilIInv
<1>1. \E lines \in Seq(Seq(STRING \X STRING)) : \E world : util = UtilStart(lines, world)
  <2>1. << >> \in Seq(Seq(STRING \X STRING))
    OBVIOUS
  <2> QED
    BY <2>1, DspUtilAssumption DEF UtilInit, UtilIdle
<1>2. PICK lines \in Seq(Seq(STRING \X STRING)) : \E world : util = UtilStart(lines, world)
  BY <1>1
<1>3. PICK world : util = UtilStart(lines, world)
  BY <1>2
<1>4. util = [lines |-> lines, world |-> world, phase |-> "next", given |-> << >>, optind |-> 1,
              cmd |-> 0, err |-> FALSE, info |-> NoInfo, row |-> 1, tried |-> << >>]
  BY <1>3 DEF UtilStart
<1>5. NoInfo \in Infos
  <2>1. "" \in FileNames
    BY DEF FileNames
  <2> QED
    BY <2>1 DEF NoInfo, Infos
<1>6. UtilTypeOK
  BY <1>4, <1>5, TableIs DEF UtilTypeOK
<1>7. Tried({})
  BY <1>4, NothingTried
<1>8. Asked = {}
  <2>1. \A x : Given(x) = {}
    BY <1>4 DEF Given
  <2> QED
    BY <2>1 DEF Asked
<1> QED
  BY <1>4, <1>6, <1>7, <1>8 DEF UtilIInv, Parses, Runs, RunsWhatWasAsked

LEMMA UtilStepKeeps ==
  ASSUME UtilIInv, UtilNext \/ UNCHANGED util
  PROVE  UtilIInv'
<1>1. CASE UNCHANGED util
  <2>1. util' = util
    BY <1>1
  <2>2. UtilTypeOK' /\ Parses' /\ Runs' /\ RunsWhatWasAsked'
    <3>1. UtilTypeOK'
      BY <2>1 DEF UtilIInv, UtilTypeOK
    <3>2. /\ \A x : Given(x)' = Given(x) /\ LastGiven(x)' = LastGiven(x)
          /\ TheDsp' = TheDsp /\ InError' = InError /\ Repeats' = Repeats
          /\ \A x, y : File(x, y)' = File(x, y)
      BY <2>1, SameLine
    <3>3. \A x : Read(x)' = Read(x)
      BY <2>1, <3>2 DEF Read
    <3>4. \A x : LastRead(x)' = LastRead(x) /\ \A bit : Once(x, bit)' = Once(x, bit)
      BY <2>1, <3>3 DEF LastRead, Once
    <3>5. Asked' = Asked /\ \A s : Tried(s)' <=> Tried(s)
      BY <2>1, <3>2 DEF Asked, Possible, Tried
    <3>6. Summed' <=> Summed
      BY <2>1, <3>4 DEF Summed
    <3> QED
      BY <2>1, <3>1, <3>2, <3>3, <3>4, <3>5, <3>6
         DEF UtilIInv, Parses, Runs, RunsWhatWasAsked, Default, DspId
  <2> QED
    BY <2>2 DEF UtilIInv
<1> QED
  BY <1>1, LaunchKeeps, OthersKeep, OptionKeeps, ParsedKeeps, CommandKeeps, ExitKeeps
     DEF UtilNext

\* dsp_util asks the driver for the commands of its command line, those whose
\* device and firmware are there, in the order of main, with the DSP and the
\* files the line names, for every sequence of command lines: no command's bit
\* comes of the others, and nothing is left of an earlier line.
THEOREM DspIsAskedForTheLine == Spec => []RunsWhatWasAsked
<1>1. Init => UtilIInv
  BY UtilStarts, DspUtilAssumption DEF Init
<1>2. UtilIInv /\ [Next]_vars => UtilIInv'
  <2> SUFFICES ASSUME UtilIInv, [Next]_vars
               PROVE  UtilIInv'
    OBVIOUS
  <2>1. UtilNext \/ UNCHANGED util
    BY DEF Next, vars
  <2> QED
    BY <2>1, UtilStepKeeps
<1>3. UtilIInv => RunsWhatWasAsked
  BY DEF UtilIInv
<1> QED
  BY <1>1, <1>2, <1>3, PTL DEF Spec

-----------------------------------------------------------------------------
(***************************************************************************)
(* SampleFormats.  What each function makes of its samples.                *)
(***************************************************************************)

\* A sample of the format, and what each function makes of its samples.
Fits(v, f) == v \in Int /\ (f # float => -f.high - 1 <= v /\ v <= f.high)

GoodFor(fn) ==
  \A vs \in [1..Takes(fn) -> Int] : (\A i \in 1..Takes(fn) : Fits(vs[i], fn.from)) =>
     /\ DOMAIN Convert(fn.how, vs, fn.from, fn.to) = 1..Gives(fn)
     /\ Len(Convert(fn.how, vs, fn.from, fn.to)) = Gives(fn)
     /\ \A i \in 1..Gives(fn) : Near(Convert(fn.how, vs, fn.from, fn.to)[i], Ideal(fn, vs), fn)

\* A function that makes one sample of one is judged by what it makes of each.
LEMMA OneOfOne ==
  ASSUME NEW fn, fn.how # "mean", fn.how # "twin",
         \A v \in Int : \A vs : Fits(v, fn.from) /\ vs[1] = v =>
            \E x : Convert(fn.how, vs, fn.from, fn.to) = <<x>> /\ Near(x, Ideal(fn, vs), fn)
  PROVE  GoodFor(fn)
<1>1. Takes(fn) = 1 /\ Gives(fn) = 1
  BY DEF Takes, Gives
<1> SUFFICES ASSUME NEW vs \in [1..1 -> Int], Fits(vs[1], fn.from)
             PROVE  LET c == Convert(fn.how, vs, fn.from, fn.to)
                    IN  DOMAIN c = 1..1 /\ Len(c) = 1 /\ Near(c[1], Ideal(fn, vs), fn)
  BY <1>1 DEF GoodFor
<1>2. PICK x : Convert(fn.how, vs, fn.from, fn.to) = <<x>> /\ Near(x, Ideal(fn, vs), fn)
  OBVIOUS
<1> QED
  BY <1>2

\* ... and so by the one line of Convert and of Ideal for what it does.
LEMMA GoodByShift ==
  ASSUME NEW fn, fn.how = "shift",
         \A v \in Int : Fits(v, fn.from) =>
            Near(Shift(v, fn.from, fn.to), v * fn.from.unit, fn)
  PROVE  GoodFor(fn)
<1>1. ASSUME NEW vs
      PROVE  /\ Convert(fn.how, vs, fn.from, fn.to) = << Shift(vs[1], fn.from, fn.to) >>
             /\ Ideal(fn, vs) = vs[1] * fn.from.unit
  BY DEF Convert, Ideal
<1> QED
  BY <1>1, OneOfOne

LEMMA GoodByClamp ==
  ASSUME NEW fn, fn.how = "clamp",
         \A v \in Int : Fits(v, fn.from) =>
            Near(clamp(Shift(v, fn.from, fn.to), fn.to), v * fn.from.unit, fn)
  PROVE  GoodFor(fn)
<1>1. ASSUME NEW vs
      PROVE  /\ Convert(fn.how, vs, fn.from, fn.to) = << clamp(Shift(vs[1], fn.from, fn.to), fn.to) >>
             /\ Ideal(fn, vs) = vs[1] * fn.from.unit
  BY DEF Convert, Ideal
<1> QED
  BY <1>1, OneOfOne

LEMMA GoodByLimit24 ==
  ASSUME NEW fn, fn.how = "limit24",
         \A v \in Int : Fits(v, fn.from) =>
            Near(clamp24_from_q8_23(v), v * fn.from.unit, fn)
  PROVE  GoodFor(fn)
<1>1. ASSUME NEW vs
      PROVE  /\ Convert(fn.how, vs, fn.from, fn.to) = << clamp24_from_q8_23(vs[1]) >>
             /\ Ideal(fn, vs) = vs[1] * fn.from.unit
  BY DEF Convert, Ideal
<1> QED
  BY <1>1, OneOfOne

LEMMA GoodByClamp8 ==
  ASSUME NEW fn, fn.how = "clamp8",
         \A v \in Int : Fits(v, fn.from) =>
            Near(clamp8_from_float(v), v * fn.from.unit, fn)
  PROVE  GoodFor(fn)
<1>1. ASSUME NEW vs
      PROVE  /\ Convert(fn.how, vs, fn.from, fn.to) = << clamp8_from_float(vs[1]) >>
             /\ Ideal(fn, vs) = vs[1] * fn.from.unit
  BY DEF Convert, Ideal
<1> QED
  BY <1>1, OneOfOne

LEMMA GoodByClamp16 ==
  ASSUME NEW fn, fn.how = "clamp16",
         \A v \in Int : Fits(v, fn.from) =>
            Near(clamp16_from_float(v), v * fn.from.unit, fn)
  PROVE  GoodFor(fn)
<1>1. ASSUME NEW vs
      PROVE  /\ Convert(fn.how, vs, fn.from, fn.to) = << clamp16_from_float(vs[1]) >>
             /\ Ideal(fn, vs) = vs[1] * fn.from.unit
  BY DEF Convert, Ideal
<1> QED
  BY <1>1, OneOfOne

LEMMA GoodByClamp24 ==
  ASSUME NEW fn, fn.how = "clamp24",
         \A v \in Int : Fits(v, fn.from) =>
            Near(clamp24_from_float(v), v * fn.from.unit, fn)
  PROVE  GoodFor(fn)
<1>1. ASSUME NEW vs
      PROVE  /\ Convert(fn.how, vs, fn.from, fn.to) = << clamp24_from_float(vs[1]) >>
             /\ Ideal(fn, vs) = vs[1] * fn.from.unit
  BY DEF Convert, Ideal
<1> QED
  BY <1>1, OneOfOne

LEMMA GoodByClampq4_27 ==
  ASSUME NEW fn, fn.how = "clampq4_27",
         \A v \in Int : Fits(v, fn.from) =>
            Near(clampq4_27_from_float(v), v * fn.from.unit, fn)
  PROVE  GoodFor(fn)
<1>1. ASSUME NEW vs
      PROVE  /\ Convert(fn.how, vs, fn.from, fn.to) = << clampq4_27_from_float(vs[1]) >>
             /\ Ideal(fn, vs) = vs[1] * fn.from.unit
  BY DEF Convert, Ideal
<1> QED
  BY <1>1, OneOfOne

LEMMA GoodByClamp32 ==
  ASSUME NEW fn, fn.how = "clamp32",
         \A v \in Int : Fits(v, fn.from) =>
            Near(clamp32_from_float(v), v * fn.from.unit, fn)
  PROVE  GoodFor(fn)
<1>1. ASSUME NEW vs
      PROVE  /\ Convert(fn.how, vs, fn.from, fn.to) = << clamp32_from_float(vs[1]) >>
             /\ Ideal(fn, vs) = vs[1] * fn.from.unit
  BY DEF Convert, Ideal
<1> QED
  BY <1>1, OneOfOne

LEMMA GoodByLimit ==
  ASSUME NEW fn, fn.how = "limit",
         \A v \in Int : Fits(v, fn.from) =>
            Near(Limit(v, -Unity, Unity), Limit(v * fn.from.unit, -Unity, Unity), fn)
  PROVE  GoodFor(fn)
<1>1. ASSUME NEW vs
      PROVE  /\ Convert(fn.how, vs, fn.from, fn.to) = << Limit(vs[1], -Unity, Unity) >>
             /\ Ideal(fn, vs) = Limit(vs[1] * fn.from.unit, -Unity, Unity)
  BY DEF Convert, Ideal
<1> QED
  BY <1>1, OneOfOne

LEMMA GoodByGain ==
  ASSUME NEW fn, fn.how = "gain",
         \A v \in Int : Fits(v, fn.from) =>
            Near(clamp((v * Gain) \div 2, fn.to), (v * fn.from.unit * Gain) \div 2, fn)
  PROVE  GoodFor(fn)
<1>1. ASSUME NEW vs
      PROVE  /\ Convert(fn.how, vs, fn.from, fn.to) = << clamp((vs[1] * Gain) \div 2, fn.to) >>
             /\ Ideal(fn, vs) = (vs[1] * fn.from.unit * Gain) \div 2
  BY DEF Convert, Ideal
<1> QED
  BY <1>1, OneOfOne

LEMMA GoodByGain32 ==
  ASSUME NEW fn, fn.how = "gain32",
         \A v \in Int : Fits(v, fn.from) =>
            Near(wrap((v * Gain) \div 2, fn.to), Wrapped((v * fn.from.unit * Gain) \div 2, fn.to), fn)
  PROVE  GoodFor(fn)
<1>1. ASSUME NEW vs
      PROVE  /\ Convert(fn.how, vs, fn.from, fn.to) = << wrap((vs[1] * Gain) \div 2, fn.to) >>
             /\ Ideal(fn, vs) = Wrapped((vs[1] * fn.from.unit * Gain) \div 2, fn.to)
  BY DEF Convert, Ideal
<1> QED
  BY <1>1, OneOfOne

LEMMA GoodBySum ==
  ASSUME NEW fn, fn.how = "sum",
         \A v \in Int : Fits(v, fn.from) =>
            Near(clamp(v + v, fn.to), 2 * (v * fn.from.unit), fn)
  PROVE  GoodFor(fn)
<1>1. ASSUME NEW vs
      PROVE  /\ Convert(fn.how, vs, fn.from, fn.to) = << clamp(vs[1] + vs[1], fn.to) >>
             /\ Ideal(fn, vs) = 2 * (vs[1] * fn.from.unit)
  BY DEF Convert, Ideal
<1> QED
  BY <1>1, OneOfOne

LEMMA GoodBySum24 ==
  ASSUME NEW fn, fn.how = "sum24",
         \A v \in Int : Fits(v, fn.from) =>
            Near(clamp24_from_q8_23(v + v), 2 * (v * fn.from.unit), fn)
  PROVE  GoodFor(fn)
<1>1. ASSUME NEW vs
      PROVE  /\ Convert(fn.how, vs, fn.from, fn.to) = << clamp24_from_q8_23(vs[1] + vs[1]) >>
             /\ Ideal(fn, vs) = 2 * (vs[1] * fn.from.unit)
  BY DEF Convert, Ideal
<1> QED
  BY <1>1, OneOfOne

LEMMA GoodBySum_u8 ==
  ASSUME NEW fn, fn.how = "sum_u8",
         \A v \in Int : Fits(v, fn.from) =>
            Near(sum_u8(v, v), 2 * (v * fn.from.unit), fn)
  PROVE  GoodFor(fn)
<1>1. ASSUME NEW vs
      PROVE  /\ Convert(fn.how, vs, fn.from, fn.to) = << sum_u8(vs[1], vs[1]) >>
             /\ Ideal(fn, vs) = 2 * (vs[1] * fn.from.unit)
  BY DEF Convert, Ideal
<1> QED
  BY <1>1, OneOfOne

\* By arithmetic, function by function, for both widths of a byte.
LEMMA ConversionsAreNear == \A fn \in Conversions : GoodFor(fn)
<1> USE SampleFormatsAssumption
<1>1. GoodFor(ditherAndClamp)
  BY GoodByClamp
  DEF ditherAndClamp, Up, Fits, Near, Shift, clamp, Limit, B, i16, q4_27, float
<1>2. GoodFor(memcpy_to_i16_from_q4_27)
  BY GoodByClamp
  DEF memcpy_to_i16_from_q4_27, Up, Fits, Near, Shift, clamp, Limit, B, i16, q4_27, float
<1>3. GoodFor(memcpy_to_i16_from_u8)
  BY GoodByShift
  DEF memcpy_to_i16_from_u8, Down, Fits, Near, Shift, Limit, B, u8, i16, float
<1>4. GoodFor(memcpy_to_u8_from_i16)
  BY GoodByShift
  DEF memcpy_to_u8_from_i16, Up, Fits, Near, Shift, Limit, B, u8, i16, float
<1>5. GoodFor(memcpy_to_u8_from_float)
  BY GoodByClamp8
  DEF memcpy_to_u8_from_float, Up, Fits, Near, clamp8_from_float, clamp, Limit, B, u8, float
<1>6. GoodFor(memcpy_to_i16_from_i32)
  BY GoodByShift
  DEF memcpy_to_i16_from_i32, Up, Fits, Near, Shift, Limit, B, i16, i32, float
<1>7. GoodFor(memcpy_to_i16_from_float)
  BY GoodByClamp16
  DEF memcpy_to_i16_from_float, Up, Fits, Near, clamp16_from_float, Round, clamp, Limit, B, i16, float
<1>8. GoodFor(memcpy_to_float_from_q4_27)
  BY GoodByShift
  DEF memcpy_to_float_from_q4_27, Up, Fits, Near, Shift, Limit, B, q4_27, float
<1>9. GoodFor(memcpy_to_float_from_i16)
  BY GoodByShift
  DEF memcpy_to_float_from_i16, Down, Fits, Near, Shift, Limit, B, i16, float
<1>10. GoodFor(memcpy_to_float_from_u8)
  BY GoodByShift
  DEF memcpy_to_float_from_u8, Down, Fits, Near, Shift, Limit, B, u8, float
<1>11. GoodFor(memcpy_to_float_from_p24)
  BY GoodByShift
  DEF memcpy_to_float_from_p24, Down, Fits, Near, Shift, Limit, B, p24, float
<1>12. GoodFor(memcpy_to_i16_from_p24)
  BY GoodByShift
  DEF memcpy_to_i16_from_p24, Up, Fits, Near, Shift, Limit, B, i16, p24, float
<1>13. GoodFor(memcpy_to_i32_from_p24)
  BY GoodByShift
  DEF memcpy_to_i32_from_p24, Down, Fits, Near, Shift, Limit, B, p24, i32, float
<1> QED
  BY <1>1, <1>2, <1>3, <1>4, <1>5, <1>6, <1>7, <1>8, <1>9, <1>10, <1>11, <1>12, <1>13 DEF Conversions

LEMMA FurtherConversionsAreNear == \A fn \in FurtherConversions : GoodFor(fn)
<1> USE SampleFormatsAssumption
<1>1. GoodFor(memcpy_to_p24_from_i16)
  BY GoodByShift
  DEF memcpy_to_p24_from_i16, Down, Fits, Near, Shift, Limit, B, i16, p24, float
<1>2. GoodFor(memcpy_to_p24_from_float)
  BY GoodByClamp24
  DEF memcpy_to_p24_from_float, Up, Fits, Near, clamp24_from_float, Round, clamp, Limit, B, p24, float
<1>3. GoodFor(memcpy_to_p24_from_q8_23)
  BY GoodByLimit24
  DEF memcpy_to_p24_from_q8_23, Up, Fits, Near, clamp24_from_q8_23, clamp, Limit, B, p24, q8_23, float
<1>4. GoodFor(memcpy_to_p24_from_i32)
  BY GoodByShift
  DEF memcpy_to_p24_from_i32, Up, Fits, Near, Shift, Limit, B, p24, i32, float
<1>5. GoodFor(memcpy_to_q8_23_from_i16)
  BY GoodByShift
  DEF memcpy_to_q8_23_from_i16, Down, Fits, Near, Shift, Limit, B, i16, q8_23, float
<1>6. GoodFor(memcpy_to_q8_23_from_float_with_clamp)
  BY GoodByClamp24
  DEF memcpy_to_q8_23_from_float_with_clamp, Up, Fits, Near, clamp24_from_float, Round, clamp, Limit, B, p24, q8_23, float
<1>7. GoodFor(memcpy_to_q8_23_from_p24)
  BY GoodByShift
  DEF memcpy_to_q8_23_from_p24, Down, Fits, Near, Shift, Limit, B, p24, q8_23, float
<1>8. GoodFor(memcpy_to_q4_27_from_float)
  BY GoodByClampq4_27
  DEF memcpy_to_q4_27_from_float, Up, Fits, Near, clampq4_27_from_float, Round, clamp, Limit, B, q4_27, float
<1>9. GoodFor(memcpy_to_i16_from_q8_23)
  BY GoodByClamp
  DEF memcpy_to_i16_from_q8_23, Up, Fits, Near, Shift, clamp, Limit, B, i16, q8_23, float
<1>10. GoodFor(memcpy_to_float_from_q8_23)
  BY GoodByShift
  DEF memcpy_to_float_from_q8_23, Up, Fits, Near, Shift, Limit, B, q8_23, float
<1>11. GoodFor(memcpy_to_i32_from_i16)
  BY GoodByShift
  DEF memcpy_to_i32_from_i16, Down, Fits, Near, Shift, Limit, B, i16, i32, float
<1>12. GoodFor(memcpy_to_i32_from_float)
  BY GoodByClamp32
  DEF memcpy_to_i32_from_float, Up, Fits, Near, clamp32_from_float, Round, clamp, Limit, B, i32, float
<1>13. GoodFor(memcpy_to_float_from_i32)
  BY GoodByShift
  DEF memcpy_to_float_from_i32, Up, Fits, Near, Shift, Limit, B, i32, float
<1>14. GoodFor(memcpy_to_float_from_float_with_clamping)
  BY GoodByLimit
  DEF memcpy_to_float_from_float_with_clamping, Up, Fits, Near, Unity, Limit, B, i32, float
<1> QED
  BY <1>1, <1>2, <1>3, <1>4, <1>5, <1>6, <1>7, <1>8, <1>9, <1>10, <1>11, <1>12, <1>13, <1>14 DEF FurtherConversions

LEMMA MixesAreNear == \A fn \in Mixes : GoodFor(fn)
<1> USE SampleFormatsAssumption
<1>1. GoodFor(downmix_to_mono_i16_from_stereo_i16)
  BY DEF GoodFor, Convert, Ideal, Takes, Gives, Fits, Near, Limit, downmix_to_mono_i16_from_stereo_i16, Up, B, i16, float
<1>2. GoodFor(upmix_to_stereo_i16_from_mono_i16)
  BY DEF GoodFor, Convert, Ideal, Takes, Gives, Fits, Near, Limit, upmix_to_stereo_i16_from_mono_i16, Down, B, i16, float
<1>3. GoodFor(downmix_to_mono_float_from_stereo_float)
  BY DEF GoodFor, Convert, Ideal, Takes, Gives, Fits, Near, Limit, downmix_to_mono_float_from_stereo_float, Up, B, float
<1>4. GoodFor(upmix_to_stereo_float_from_mono_float)
  BY DEF GoodFor, Convert, Ideal, Takes, Gives, Fits, Near, Limit, upmix_to_stereo_float_from_mono_float, Down, B, float
<1> QED
  BY <1>1, <1>2, <1>3, <1>4 DEF Mixes

LEMMA AccumulationsAreNear == \A fn \in Accumulations : GoodFor(fn)
<1> USE SampleFormatsAssumption
<1>1. GoodFor(accumulate_i16)
  BY GoodBySum
  DEF accumulate_i16, Up, Fits, Near, clamp, Limit, B, i16, float
<1>2. GoodFor(accumulate_u8)
  BY GoodBySum_u8
  DEF accumulate_u8, Up, Fits, Near, sum_u8, Limit, B, u8, float
<1>3. GoodFor(accumulate_p24)
  BY GoodBySum24
  DEF accumulate_p24, Up, Fits, Near, clamp24_from_q8_23, clamp, Limit, B, p24, float
<1>4. GoodFor(accumulate_q8_23)
  BY GoodBySum24
  DEF accumulate_q8_23, Up, Fits, Near, clamp24_from_q8_23, clamp, Limit, B, p24, q8_23, float
<1>5. GoodFor(accumulate_i32)
  BY GoodBySum
  DEF accumulate_i32, Up, Fits, Near, clamp, Limit, B, i32, float
<1>6. GoodFor(accumulate_float)
  BY GoodBySum
  DEF accumulate_float, Up, Fits, Near, clamp, Limit, B, float
<1> QED
  BY <1>1, <1>2, <1>3, <1>4, <1>5, <1>6 DEF Accumulations

LEMMA EachIsNear == \A fn \in Functions : GoodFor(fn)
<1>1. GoodFor(aml_pcm_gain_do_execute_16bit)
  BY GoodByGain
  DEF aml_pcm_gain_do_execute_16bit, Up, Fits, Near, Gain, clamp, Limit, B, i16, float
<1>2. GoodFor(aml_pcm_gain_do_execute_32bit)
  BY GoodByGain32
  DEF aml_pcm_gain_do_execute_32bit, Up, Fits, Near, Gain, wrap, Wrapped, TooLoud, Limit, B, i32, float
<1> QED
  BY <1>1, <1>2, ConversionsAreNear, FurtherConversionsAreNear, MixesAreNear, AccumulationsAreNear
  DEF Functions, Gains

-----------------------------------------------------------------------------
(***************************************************************************)
(* SampleFormats.  Where the samples are, half way through a conversion.   *)
(***************************************************************************)

\* What the memory needs to know of a function: the front is where one starts that
\* writes no more than it reads, the back where one does that reads no more than
\* it writes.
Shape(fn) ==
  /\ fn = [from |-> fn.from, to |-> fn.to, how |-> fn.how, first |-> fn.first]
  /\ Takes(fn) \in 1..2 /\ Gives(fn) \in 1..2
  /\ fn.from \in Formats /\ fn.from.size \in 1..4 /\ fn.to.size \in 1..4
  /\ fn.first \in {"front", "back"}
  /\ IF fn.first = "front" THEN Gives(fn) * fn.to.size <= Takes(fn) * fn.from.size
     ELSE Takes(fn) * fn.from.size <= Gives(fn) * fn.to.size

LEMMA ShapesAre == \A fn \in Functions : Shape(fn)
<1> USE DEF Shape, Takes, Gives, Up, Down, Formats, u8, i16, p24, i32, q8_23, q4_27, float
<1>1. \A fn \in Conversions : Shape(fn)
  BY DEF Conversions, ditherAndClamp, memcpy_to_i16_from_q4_27, memcpy_to_i16_from_u8,
         memcpy_to_u8_from_i16, memcpy_to_u8_from_float, memcpy_to_i16_from_i32,
         memcpy_to_i16_from_float, memcpy_to_float_from_q4_27, memcpy_to_float_from_i16,
         memcpy_to_float_from_u8, memcpy_to_float_from_p24, memcpy_to_i16_from_p24,
         memcpy_to_i32_from_p24
<1>2. \A fn \in FurtherConversions : Shape(fn)
  BY DEF FurtherConversions, memcpy_to_p24_from_i16, memcpy_to_p24_from_float,
         memcpy_to_p24_from_q8_23, memcpy_to_p24_from_i32, memcpy_to_q8_23_from_i16,
         memcpy_to_q8_23_from_float_with_clamp, memcpy_to_q8_23_from_p24,
         memcpy_to_q4_27_from_float, memcpy_to_i16_from_q8_23, memcpy_to_float_from_q8_23,
         memcpy_to_i32_from_i16, memcpy_to_i32_from_float, memcpy_to_float_from_i32,
         memcpy_to_float_from_float_with_clamping
<1>3. \A fn \in Mixes \cup Accumulations \cup Gains : Shape(fn)
  BY DEF Mixes, Accumulations, Gains, downmix_to_mono_i16_from_stereo_i16,
         upmix_to_stereo_i16_from_mono_i16, downmix_to_mono_float_from_stereo_float,
         upmix_to_stereo_float_from_mono_float, accumulate_i16, accumulate_u8, accumulate_p24,
         accumulate_q8_23, accumulate_i32, accumulate_float, aml_pcm_gain_do_execute_16bit,
         aml_pcm_gain_do_execute_32bit
<1> HIDE DEF Shape
<1> QED
  BY <1>1, <1>2, <1>3 DEF Functions

\* Byte k of the i-th sample of group m.
LEMMA SpotIs ==
  ASSUME NEW t \in 1..2, NEW s \in 1..4, NEW m \in Nat, NEW i \in 1..t, NEW k \in 1..s
  PROVE  /\ (m * t + i - 1) * s + k = m * (t * s) + ((i - 1) * s + k)
         /\ (i - 1) * s + k \in 1..(t * s)
         /\ ((i - 1) * s + k - 1) \div s + 1 = i
         /\ (((i - 1) * s + k - 1) % s) + 1 = k
<1>1. /\ t = 1 \/ t = 2
      /\ s = 1 \/ s = 2 \/ s = 3 \/ s = 4
      /\ i = 1 \/ i = 2
  OBVIOUS
<1> QED
  BY <1>1

\* A group that is not the one written, before it or behind it, stays.
LEMMA ApartIs ==
  ASSUME NEW m \in Nat, NEW n \in Nat, NEW c \in 1..8, NEW d \in 1..8, NEW q \in 1..c,
         (m > n /\ d <= c) \/ (m < n /\ c <= d)
  PROVE  m * c + q - n * d \notin 1..d
<1>1. CASE m > n /\ d <= c
  <2>1. (n + 1) * d <= (n + 1) * c /\ (n + 1) * c <= m * c
    BY <1>1
  <2>2. (n + 1) * d = n * d + d
    OBVIOUS
  <2>3. n * d \in Int /\ m * c \in Int /\ n * d + d <= m * c
    BY <2>1, <2>2
  <2> QED
    BY <2>3
<1>2. CASE m < n /\ c <= d
  <2>1. (m + 1) * c <= n * c /\ n * c <= n * d
    BY <1>2
  <2>2. (m + 1) * c = m * c + c
    OBVIOUS
  <2>3. n * d \in Int /\ m * c \in Int /\ m * c + c <= n * d
    BY <2>1, <2>2
  <2> QED
    BY <2>3
<1> QED
  BY <1>1, <1>2

\* The groups are the samples given, but for a last one without a pair.
LEMMA StepsAre ==
  ASSUME NEW fn, Shape(fn)
  PROVE  /\ Steps(fn) \in Nat /\ Steps(fn) <= Samples
         /\ Steps(fn) * Takes(fn) <= Samples
         /\ \A n \in 0..(Steps(fn) - 1), i \in 1..Takes(fn) : n * Takes(fn) + i \in 1..Samples
<1>1. Samples \in Nat
  BY SampleFormatsAssumption
<1>2. CASE Takes(fn) = 1
  BY <1>1, <1>2 DEF Steps
<1>3. CASE Takes(fn) = 2
  BY <1>1, <1>3 DEF Steps
<1> QED
  BY <1>2, <1>3 DEF Shape

\* Whatever group, its place is in the memory.
LEMMA InTheRoom ==
  ASSUME NEW fn, Shape(fn), NEW n \in 0..(Steps(fn) - 1)
  PROVE  /\ Room(fn) \in Nat
         /\ \A q \in 1..(Gives(fn) * fn.to.size) : n * (Gives(fn) * fn.to.size) + q \in 1..Room(fn)
         /\ \A q \in 1..(Takes(fn) * fn.from.size) :
              /\ n * (Takes(fn) * fn.from.size) + q \in 1..Room(fn)
              /\ n * (Takes(fn) * fn.from.size) + q <= Samples * fn.from.size
<1> DEFINE total == Steps(fn)
           a == fn.from.size
           c == Takes(fn) * a
           d == Gives(fn) * fn.to.size
           w == IF d > a THEN d ELSE a
<1>1. total \in Nat /\ total <= Samples /\ total * Takes(fn) <= Samples /\ Samples \in Nat
  BY StepsAre, SampleFormatsAssumption
<1>2. c \in 1..8 /\ a \in 1..4 /\ d \in 1..8 /\ w \in 1..8 /\ a <= w /\ d <= w
  <2>1. Gives(fn) \in 1..2 /\ fn.to.size \in 1..4 /\ Takes(fn) \in 1..2 /\ a \in 1..4
    BY DEF Shape
  <2>2. Gives(fn) * fn.to.size \in 1..8 /\ Takes(fn) * a \in 1..8
    BY <2>1
  <2> QED
    BY <2>1, <2>2
<1>3. Room(fn) = Samples * w
  BY DEF Room
<1>4. n \in Nat /\ n + 1 <= total
  BY <1>1
<1>5. total * c <= Samples * a
  <2>1. Takes(fn) \in 1..2
    BY DEF Shape
  <2>2. (total * Takes(fn)) * a <= Samples * a
    BY <1>1, <1>2, <2>1
  <2>3. (total * Takes(fn)) * a = total * (Takes(fn) * a)
    BY <1>1, <1>2, <2>1
  <2> QED
    BY <2>2, <2>3
<1> HIDE DEF total, a, c, d, w
<1>6. (n + 1) * d <= total * d /\ total * d <= Samples * d /\ Samples * d <= Samples * w
  BY <1>1, <1>2, <1>4
<1>7. (n + 1) * c <= total * c /\ Samples * a <= Samples * w
  BY <1>1, <1>2, <1>4
<1>8. (n + 1) * d = n * d + d /\ (n + 1) * c = n * c + c
  BY <1>2, <1>4
<1>9. \A x, y \in Nat : x * y \in Nat
  OBVIOUS
<1>10. /\ n * d \in Nat /\ n * c \in Nat /\ Samples * d \in Nat /\ Samples * a \in Nat
       /\ Samples * w \in Nat /\ total * d \in Nat /\ total * c \in Nat
  BY <1>1, <1>2, <1>4, <1>9
<1>11. n * d + d <= Samples * w
  BY <1>2, <1>6, <1>8, <1>10
<1>12. n * c + c <= Samples * a /\ Samples * a <= Samples * w
  BY <1>2, <1>5, <1>7, <1>8, <1>10
<1>13. \A q \in 1..d : n * d + q \in 1..(Samples * w)
  BY <1>2, <1>10, <1>11
<1>14. \A q \in 1..c : n * c + q <= Samples * a /\ n * c + q \in 1..(Samples * w)
  BY <1>2, <1>10, <1>12
<1> QED
  BY <1>3, <1>10, <1>13, <1>14 DEF d, c, a

\* The samples of a group are of the format given.
LEMMA GroupIs ==
  ASSUME Shape(copy.fn), copy.given \in [1..Samples -> Inputs[copy.fn.from]],
         NEW n \in 0..(Steps(copy.fn) - 1)
  PROVE  /\ Group(n) \in [1..Takes(copy.fn) -> Int]
         /\ \A i \in 1..Takes(copy.fn) : Fits(Group(n)[i], copy.fn.from)
<1>1. \A i \in 1..Takes(copy.fn) : n * Takes(copy.fn) + i \in 1..Samples
  BY StepsAre
<1>2. \A i \in 1..Takes(copy.fn) : Group(n)[i] \in Inputs[copy.fn.from]
  BY <1>1 DEF Group
<1>3. copy.fn.from \in Formats
  BY DEF Shape
<1>4. \A v \in Inputs[copy.fn.from] : Fits(v, copy.fn.from)
  <2>1. Inputs[copy.fn.from] \subseteq
          IF copy.fn.from = float THEN Int ELSE (-copy.fn.from.high - 1)..copy.fn.from.high
    BY <1>3, SampleFormatsAssumption
  <2>2. copy.fn.from.high \in Int
    BY <1>3, SampleFormatsAssumption DEF Formats, B, u8, i16, p24, i32, q8_23, q4_27, float
  <2> QED
    BY <2>1, <2>2 DEF Fits
<1> QED
  BY <1>2, <1>4 DEF Group, Fits

\* What is held whole is what is read.
LEMMA LoadIs ==
  ASSUME NEW at \in Nat, NEW vs, NEW f, f.size \in 1..4, Holds(at, vs, f), NEW i \in DOMAIN vs,
         i \in Nat
  PROVE  Load(copy.mem, (at + i - 1) * f.size, f) = vs[i]
<1>1. \A k \in 1..f.size : copy.mem[(at + i - 1) * f.size + k] = <<f, vs[i], k>>
  BY DEF Holds
<1>2. copy.mem[(at + i - 1) * f.size + 1][2] = vs[i]
  BY <1>1
<1> QED
  BY <1>1, <1>2 DEF Load

\* A step reads a group that is still whole, and writes over groups that have
\* been read.
LEMMA CopyStepKeeps ==
  ASSUME CopyIInv, CopyStep
  PROVE  CopyIInv'
<1> DEFINE fn == copy.fn
           total == Steps(fn)
           t == Takes(fn)
           g == Gives(fn)
           a == fn.from.size
           b == fn.to.size
           n == IF fn.first = "front" THEN copy.done ELSE total - 1 - copy.done
           vs == [i \in 1..t |-> Load(copy.mem, (n * t + i - 1) * a, fn.from)]
           new == Convert(fn.how, Group(n), fn.from, fn.to)
<1>1. /\ copy.done \in Nat /\ copy.done < total /\ DOMAIN copy = {"fn", "given", "done", "mem"}
      /\ fn \in Functions /\ copy.given \in [1..Samples -> Inputs[fn.from]]
      /\ DOMAIN copy.mem = 1..Room(fn)
      /\ \A m \in 0..(total - 1) :
            IF Converted(m) THEN Holds(m * g, Convert(fn.how, Group(m), fn.from, fn.to), fn.to)
            ELSE Holds(m * t, Group(m), fn.from)
  <2>1. copy.done \in Nat /\ copy.done < total
    BY DEF CopyIInv, CopyStep
  <2>2. total \in Nat
    BY SampleFormatsAssumption, <2>1 DEF CopyIInv, CopyStep, Steps, Takes
  <2> QED
    BY <2>1, <2>2 DEF CopyIInv
<1>2. Shape(fn) /\ GoodFor(fn)
  BY <1>1, ShapesAre, EachIsNear
<1>3. /\ total \in Nat /\ t \in 1..2 /\ g \in 1..2 /\ a \in 1..4 /\ b \in 1..4 /\ fn.first \in {"front", "back"}
      /\ IF fn.first = "front" THEN g * b <= t * a ELSE t * a <= g * b
  BY <1>2, StepsAre DEF Shape
<1>4. n \in 0..(total - 1) /\ ~Converted(n)
  BY <1>1, <1>3 DEF Converted
<1>5. vs = Group(n)
  <2>1. Holds(n * t, Group(n), fn.from)
    BY <1>1, <1>4
  <2>2. DOMAIN Group(n) = 1..t
    BY DEF Group
  <2>3. n * t \in Nat
    BY <1>3, <1>4
  <2>4. \A i \in 1..t : vs[i] = Group(n)[i]
    BY <1>3, <2>1, <2>2, <2>3, LoadIs
  <2> QED
    BY <2>2, <2>4 DEF Group
<1>6. DOMAIN new = 1..g /\ Len(new) = g
  BY <1>1, <1>2, <1>4, GroupIs DEF GoodFor
<1>7. copy' = [copy EXCEPT !.mem = Overwrite(copy.mem, n * g * b, Stored(new, fn.to)),
                           !.done = copy.done + 1]
  BY <1>5 DEF CopyStep
<1> HIDE DEF vs
<1>8. /\ copy'.fn = fn /\ copy'.given = copy.given /\ copy'.done = copy.done + 1
      /\ DOMAIN copy' = {"fn", "given", "done", "mem"}
      /\ copy'.mem = Overwrite(copy.mem, n * g * b, Stored(new, fn.to))
  BY <1>1, <1>7
<1>9. \A m : Group(m)' = Group(m)
  BY <1>8 DEF Group
<1>10. \A m \in 0..(total - 1) : Converted(m)' <=> Converted(m) \/ m = n
  BY <1>1, <1>3, <1>8 DEF Converted
<1> DEFINE c == t * a
           d == g * b
<1>11. c \in 1..8 /\ d \in 1..8 /\ n * g * b = n * d /\ n * d \in Nat
  <2> HIDE DEF total, t, g, a, b, n
  <2>1. c \in 1..8 /\ d \in 1..8
    BY <1>3
  <2> QED
    BY <1>3, <1>4, <2>1
<1>12. /\ DOMAIN copy'.mem = 1..Room(fn)
       /\ \A p \in 1..Room(fn) :
            copy'.mem[p] = IF p - n * d \in 1..d THEN Stored(new, fn.to)[p - n * d] ELSE copy.mem[p]
  <2>1. DOMAIN Stored(new, fn.to) = 1..d
    BY <1>6 DEF Stored
  <2>2. copy'.mem = Overwrite(copy.mem, n * d, Stored(new, fn.to))
    BY <1>8, <1>11
  <2>3. DOMAIN copy.mem = 1..Room(fn)
    BY <1>1
  <2> HIDE DEF new, n, c, d, total, t, g, a, b
  <2>4. PICK at, bytes : at = n * d /\ bytes = Stored(new, fn.to)
    OBVIOUS
  <2>5. copy'.mem = Overwrite(copy.mem, at, bytes) /\ DOMAIN bytes = 1..d
    BY <2>1, <2>2, <2>4
  <2>6. /\ DOMAIN copy'.mem = 1..Room(fn)
        /\ \A p \in 1..Room(fn) :
             copy'.mem[p] = IF p - at \in 1..d THEN bytes[p - at] ELSE copy.mem[p]
    <3>1. PICK mem, room : mem = copy.mem /\ room = Room(fn)
      OBVIOUS
    <3>2. /\ DOMAIN Overwrite(mem, at, bytes) = 1..room
          /\ \A p \in 1..room : Overwrite(mem, at, bytes)[p]
                                = IF p - at \in 1..d THEN bytes[p - at] ELSE mem[p]
      <4>1. DOMAIN mem = 1..room
        BY <2>3, <3>1
      <4>2. DOMAIN bytes = 1..d
        BY <2>5
      <4> QED
        BY <4>1, <4>2 DEF Overwrite
    <3> QED
      BY <2>5, <3>1, <3>2
  <2> QED
    BY <2>4, <2>6
<1>13. \A q \in 1..d : Stored(new, fn.to)[q] = <<fn.to, new[(q - 1) \div b + 1], ((q - 1) % b) + 1>>
  BY <1>6 DEF Stored
<1>14. \A m \in 0..(total - 1) : /\ \A q \in 1..d : m * d + q \in 1..Room(fn)
                             /\ \A q \in 1..c : m * c + q \in 1..Room(fn)
  BY <1>2, InTheRoom
<1> DEFINE Target(m, i, k) == (m * g + i - 1) * b + k
           From(m, i, k) == (m * t + i - 1) * a + k
           ToByte(i, k) == (i - 1) * b + k
           FromByte(i, k) == (i - 1) * a + k
           Begin(m) == m * d
           FromBegin(m) == m * c
<1>15a. \A m : Holds(m * g, Convert(fn.how, Group(m), fn.from, fn.to), fn.to)' <=>
              \A i \in DOMAIN Convert(fn.how, Group(m), fn.from, fn.to), k \in 1..b :
                copy'.mem[Target(m, i, k)] =
                  <<fn.to, Convert(fn.how, Group(m), fn.from, fn.to)[i], k>>
  BY <1>8, <1>9 DEF Holds
<1>15b. \A m : Holds(m * g, Convert(fn.how, Group(m), fn.from, fn.to), fn.to) <=>
              \A i \in DOMAIN Convert(fn.how, Group(m), fn.from, fn.to), k \in 1..b :
                copy.mem[Target(m, i, k)] =
                  <<fn.to, Convert(fn.how, Group(m), fn.from, fn.to)[i], k>>
  BY <1>8, <1>9 DEF Holds
<1>15c. \A m : Holds(m * t, Group(m), fn.from)' <=>
              \A i \in DOMAIN Group(m), k \in 1..a :
                copy'.mem[From(m, i, k)] = <<fn.from, Group(m)[i], k>>
  BY <1>8, <1>9 DEF Holds
<1>15d. \A m : Holds(m * t, Group(m), fn.from) <=>
              \A i \in DOMAIN Group(m), k \in 1..a :
                copy.mem[From(m, i, k)] = <<fn.from, Group(m)[i], k>>
  BY <1>8, <1>9 DEF Holds
<1>16. \A m : DOMAIN Group(m) = 1..t
  BY DEF Group
<1>17. \A m \in 0..(total - 1) : DOMAIN Convert(fn.how, Group(m), fn.from, fn.to) = 1..g
  BY <1>1, <1>2, GroupIs DEF GoodFor
<1>18. new = Convert(fn.how, Group(n), fn.from, fn.to)
  OBVIOUS
<1> HIDE DEF total, t, g, a, b, n, new
<1>19. \A m \in 0..(total - 1), i \in 1..g, k \in 1..b :
         /\ Target(m, i, k) = Begin(m) + ToByte(i, k) /\ ToByte(i, k) \in 1..d
         /\ (ToByte(i, k) - 1) \div b + 1 = i /\ ((ToByte(i, k) - 1) % b) + 1 = k
  <2> TAKE m \in 0..(total - 1), i \in 1..g, k \in 1..b
  <2>1. m \in Nat
    BY <1>3
  <2> QED
    BY <1>3, <2>1, SpotIs
<1>20. \A m \in 0..(total - 1), i \in 1..t, k \in 1..a :
         From(m, i, k) = FromBegin(m) + FromByte(i, k) /\ FromByte(i, k) \in 1..c
  <2> TAKE m \in 0..(total - 1), i \in 1..t, k \in 1..a
  <2>1. m \in Nat
    BY <1>3
  <2> QED
    BY <1>3, <2>1, SpotIs
<1>21. \A m \in 0..(total - 1) : m \in Nat /\ Begin(m) \in Nat /\ FromBegin(m) \in Nat
  <2> TAKE m \in 0..(total - 1)
  <2>1. \A x, y \in Nat : x * y \in Nat
    OBVIOUS
  <2>2. m \in Nat /\ c \in Nat /\ d \in Nat
    BY <1>3, <1>11
  <2> HIDE DEF c, d
  <2>3. m * d \in Nat /\ m * c \in Nat
    BY <2>1, <2>2
  <2> QED
    BY <2>2, <2>3
<1>22. /\ \A p \in 1..Room(fn) :
            copy'.mem[p] = IF p - Begin(n) \in 1..d THEN Stored(new, fn.to)[p - Begin(n)] ELSE copy.mem[p]
       /\ \A m \in 0..(total - 1) : /\ \A q \in 1..d : Begin(m) + q \in 1..Room(fn)
                                /\ \A q \in 1..c : FromBegin(m) + q \in 1..Room(fn)
  BY <1>12, <1>14
<1>23. \A m \in 0..(total - 1) :
         /\ m # n => \A q \in 1..d : Begin(m) + q - Begin(n) \notin 1..d
         /\ (m > n /\ d <= c) \/ (m < n /\ c <= d) =>
               \A q \in 1..c : FromBegin(m) + q - Begin(n) \notin 1..d
  <2> TAKE m \in 0..(total - 1)
  <2>1. m \in Nat /\ n \in Nat /\ c \in 1..8 /\ d \in 1..8
    BY <1>3, <1>4, <1>11
  <2> HIDE DEF c, d
  <2>2. ASSUME m # n, NEW q \in 1..d PROVE m * d + q - n * d \notin 1..d
    <3>1. (m > n /\ d <= d) \/ (m < n /\ d <= d)
      BY <2>1, <2>2
    <3> QED
      BY <2>1, <3>1, ApartIs
  <2>3. ASSUME (m > n /\ d <= c) \/ (m < n /\ c <= d), NEW q \in 1..c
        PROVE  m * c + q - n * d \notin 1..d
    BY <2>1, <2>3, ApartIs
  <2> QED
    BY <2>2, <2>3
<1> HIDE DEF c, d, Target, From, ToByte, FromByte, Begin, FromBegin
<1>24. ASSUME NEW m \in 0..(total - 1), Converted(m)'
       PROVE  Holds(m * g, Convert(fn.how, Group(m), fn.from, fn.to), fn.to)'
  <2>1. CASE m = n
    <3>1. \A i \in 1..g, k \in 1..b : copy'.mem[Target(n, i, k)] = <<fn.to, new[i], k>>
      <4> TAKE i \in 1..g, k \in 1..b
      <4> DEFINE q == ToByte(i, k)
      <4>1. /\ Target(n, i, k) = Begin(n) + q /\ q \in 1..d
            /\ (q - 1) \div b + 1 = i /\ ((q - 1) % b) + 1 = k
        BY <1>4, <1>19
      <4> HIDE DEF q
      <4>2. Begin(n) + q \in 1..Room(fn) /\ (Begin(n) + q) - Begin(n) = q
        BY <1>4, <1>11, <1>21, <1>22, <4>1
      <4>3. copy'.mem[Begin(n) + q] = Stored(new, fn.to)[q]
        BY <1>22, <4>1, <4>2
      <4> QED
        BY <1>13, <4>1, <4>3
    <3> QED
      BY <1>15a, <1>17, <1>18, <2>1, <3>1
  <2>2. CASE m # n
    <3>1. Converted(m) /\ Holds(m * g, Convert(fn.how, Group(m), fn.from, fn.to), fn.to)
      BY <1>1, <1>10, <1>24, <2>2
    <3>2. \A i \in 1..g, k \in 1..b : copy'.mem[Target(m, i, k)] = copy.mem[Target(m, i, k)]
      <4> TAKE i \in 1..g, k \in 1..b
      <4> DEFINE q == ToByte(i, k)
      <4>1. Target(m, i, k) = Begin(m) + q /\ q \in 1..d
        BY <1>19
      <4> HIDE DEF q
      <4>2. Begin(m) + q \in 1..Room(fn) /\ Begin(m) + q - Begin(n) \notin 1..d
        BY <1>22, <1>23, <2>2, <4>1
      <4> DEFINE p == Begin(m) + q
      <4>3. p \in 1..Room(fn) /\ p - Begin(n) \notin 1..d /\ Target(m, i, k) = p
        BY <1>4, <1>11, <1>21, <4>1, <4>2
      <4> HIDE DEF p
      <4> QED
        BY <1>22, <4>3
    <3> QED
      BY <1>15a, <1>15b, <1>17, <3>1, <3>2
  <2> QED
    BY <2>1, <2>2
<1>25. ASSUME NEW m \in 0..(total - 1), ~Converted(m)'
       PROVE  Holds(m * t, Group(m), fn.from)'
  <2>1. m # n /\ ~Converted(m) /\ Holds(m * t, Group(m), fn.from)
    BY <1>1, <1>10, <1>25
  <2>2. (m > n /\ d <= c) \/ (m < n /\ c <= d)
    BY <1>1, <1>3, <1>4, <2>1 DEF Converted, n, c, d, total
  <2>3. \A i \in 1..t, k \in 1..a : copy'.mem[From(m, i, k)] = copy.mem[From(m, i, k)]
    <3> TAKE i \in 1..t, k \in 1..a
    <3> DEFINE q == FromByte(i, k)
    <3>1. From(m, i, k) = FromBegin(m) + q /\ q \in 1..c
      BY <1>20
    <3> HIDE DEF q
    <3>2. FromBegin(m) + q \in 1..Room(fn) /\ FromBegin(m) + q - Begin(n) \notin 1..d
      BY <1>22, <1>23, <2>2, <3>1
    <3> DEFINE p == FromBegin(m) + q
    <3>3. p \in 1..Room(fn) /\ p - Begin(n) \notin 1..d /\ From(m, i, k) = p
      BY <1>4, <1>11, <1>21, <3>1, <3>2
    <3> HIDE DEF p
    <3> QED
      BY <1>22, <3>3
  <2> QED
    BY <1>15c, <1>15d, <1>16, <2>1, <2>3
<1>26. copy'.done \in Nat /\ (copy'.done <= Steps(copy'.fn) => DOMAIN copy'.mem = 1..Room(copy'.fn))
  BY <1>1, <1>8, <1>12
<1> QED
  BY <1>1, <1>8, <1>24, <1>25, <1>26 DEF CopyIInv, total, t, g

\* Every byte of the samples given is where a group looks for it.
LEMMA ByteIs ==
  ASSUME NEW s \in 1..4, NEW j \in Nat, j > 0, NEW k \in 1..s
  PROVE  ((j - 1) * s + k - 1) \div s + 1 = j /\ (((j - 1) * s + k - 1) % s) + 1 = k
<1>1. s = 1 \/ s = 2 \/ s = 3 \/ s = 4
  OBVIOUS
<1> QED
  BY <1>1

\* All groups are there before the first step.
LEMMA CopyStarts ==
  ASSUME CopyInit \/ CopyIdle
  PROVE  CopyIInv
<1>0. Samples \in Nat
  BY SampleFormatsAssumption
<1>1. CASE CopyIdle
  <2>1. Steps(accumulate_i16) = Samples
    BY <1>0 DEF Steps, Takes, accumulate_i16, Up
  <2> QED
    BY <1>0, <1>1, <2>1 DEF CopyIInv, CopyIdle
<1>2. CASE CopyInit
  <2>0. PICK fn \in Functions : copy \in {Start(fn, vs) : vs \in [1..Samples -> Inputs[fn.from]]}
    BY <1>2 DEF CopyInit
  <2>1. PICK vs \in [1..Samples -> Inputs[fn.from]] : copy = Start(fn, vs)
    BY <2>0
  <2>2. Shape(fn)
    BY ShapesAre
  <2>3. /\ DOMAIN copy = {"fn", "given", "done", "mem"} /\ copy.fn = fn /\ copy.given = vs /\ copy.done = 0
        /\ DOMAIN copy.mem = 1..Room(fn)
        /\ \A p \in 1..Room(fn) : p <= Samples * fn.from.size => copy.mem[p] = Stored(vs, fn.from)[p]
    BY <2>1 DEF Start
  <2>4. \A n \in 0..(Steps(fn) - 1) : ~Converted(n)
    BY <2>2, <2>3, StepsAre DEF Converted, Shape
  <2>5. vs \in Seq(Inputs[fn.from]) /\ Len(vs) = Samples
    BY <1>0
  <2>6. \A p \in 1..(Samples * fn.from.size) :
          Stored(vs, fn.from)[p] = <<fn.from, vs[(p - 1) \div fn.from.size + 1], ((p - 1) % fn.from.size) + 1>>
    BY <2>5 DEF Stored
  <2> DEFINE t == Takes(fn)
             a == fn.from.size
             total == Steps(fn)
  <2>7. ASSUME NEW n \in 0..(total - 1)
        PROVE  \A i \in 1..t, k \in 1..a : copy.mem[(n * t + i - 1) * a + k] = <<fn.from, vs[n * t + i], k>>
    <3> TAKE i \in 1..t, k \in 1..a
    <3> DEFINE p == (n * t + i - 1) * a + k
               j == n * t + i
    <3>1. n \in Nat /\ t \in 1..2 /\ a \in 1..4 /\ j \in 1..Samples
      BY <2>2, StepsAre DEF Shape
    <3>2. p = n * (t * a) + ((i - 1) * a + k) /\ (i - 1) * a + k \in 1..(t * a)
      BY <3>1, SpotIs
    <3>3. p \in 1..Room(fn) /\ p <= Samples * a
      BY <2>2, <3>2, InTheRoom
    <3> HIDE DEF t, a
    <3>4. p = (j - 1) * a + k
      BY <3>1
    <3> HIDE DEF p, j
    <3>5. (p - 1) \div a + 1 = j /\ ((p - 1) % a) + 1 = k
      BY <1>0, <3>1, <3>4, ByteIs
    <3>6. copy.mem[p] = <<fn.from, vs[j], k>>
      <4>1. p \in 1..(Samples * a)
        BY <1>0, <3>1, <3>3
      <4> QED
        BY <2>3, <2>6, <3>3, <3>5, <4>1 DEF a
    <3> QED
      BY <3>6 DEF p, j
  <2>8. \A n \in 0..(total - 1) : Holds(n * t, Group(n), fn.from)
    BY <2>3, <2>7 DEF Holds, Group
  <2> QED
    BY <2>3, <2>4, <2>8 DEF CopyIInv
<1> QED
  BY <1>1, <1>2

\* After the last one all are converted.
LEMMA AllConverted ==
  ASSUME CopyIInv
  PROVE  KeepsSamples
<1> SUFFICES ASSUME CopyDone,
                    NEW n \in 0..(Steps(copy.fn) - 1), NEW i \in 1..Gives(copy.fn)
             PROVE  Near(Load(copy.mem, (n * Gives(copy.fn) + i - 1) * copy.fn.to.size, copy.fn.to),
                         Ideal(copy.fn, Group(n)), copy.fn)
  BY DEF KeepsSamples
<1> DEFINE fn == copy.fn
           new == Convert(fn.how, Group(n), fn.from, fn.to)
<1>1. copy.done = Steps(fn) /\ fn \in Functions /\ copy.given \in [1..Samples -> Inputs[fn.from]]
      /\ (IF Converted(n) THEN Holds(n * Gives(fn), new, fn.to) ELSE Holds(n * Takes(fn), Group(n), fn.from))
  <2>1. copy.done = Steps(fn) /\ copy.done \in Nat
    BY DEF CopyDone, CopyIInv
  <2> QED
    BY <2>1 DEF CopyIInv
<1>2. Shape(fn) /\ GoodFor(fn)
  BY <1>1, ShapesAre, EachIsNear
<1>3. Steps(fn) \in Nat /\ Gives(fn) \in 1..2 /\ fn.to.size \in 1..4
  BY <1>2, StepsAre DEF Shape
<1>4. Holds(n * Gives(fn), new, fn.to)
  BY <1>1, <1>3 DEF Converted
<1>5. DOMAIN new = 1..Gives(fn) /\ Near(new[i], Ideal(fn, Group(n)), fn)
  BY <1>1, <1>2, GroupIs DEF GoodFor
<1>6. n * Gives(fn) \in Nat
  BY <1>3
<1>7. Load(copy.mem, (n * Gives(fn) + i - 1) * fn.to.size, fn.to) = new[i]
  <2> HIDE DEF new
  <2> DEFINE Loaded(at) == Load(copy.mem, (at + i - 1) * fn.to.size, fn.to)
  <2>1. \A at \in Nat : Holds(at, new, fn.to) => Loaded(at) = new[i]
    <3> SUFFICES ASSUME NEW at \in Nat, Holds(at, new, fn.to)
                 PROVE  Loaded(at) = new[i]
      OBVIOUS
    <3> DEFINE f == fn.to
    <3>1. i \in DOMAIN new /\ i \in Nat /\ f.size \in 1..4 /\ Holds(at, new, f)
      BY <1>3, <1>5
    <3> HIDE DEF f
    <3>2. Load(copy.mem, (at + i - 1) * f.size, f) = new[i]
      BY <3>1, LoadIs
    <3> QED
      BY <3>2 DEF f
  <2> HIDE DEF Loaded
  <2>2. Loaded(n * Gives(fn)) = new[i]
    BY <1>4, <1>6, <2>1
  <2> QED
    BY <2>2 DEF Loaded
<1> QED
  BY <1>5, <1>7

-----------------------------------------------------------------------------
(***************************************************************************)
(* SampleFormats.  The channels of a frame.                                *)
(***************************************************************************)

\* Masks, and how many bits their parts have.
LEMMA MasksAreFinite ==
  ASSUME NEW mask \in Masks
  PROVE  IsFiniteSet(mask) /\ mask \subseteq Nat /\ \A part \in SUBSET mask : part \in Masks
<1>1. Channels - 1 \in Int /\ mask \subseteq 0..(Channels - 1)
  BY SampleFormatsAssumption DEF Masks
<1>2. IsFiniteSet(mask)
  <2>1. IsFiniteSet(0..(Channels - 1))
    BY <1>1, FS_Interval
  <2> QED
    BY <1>1, <2>1, FS_Subset
<1> QED
  BY <1>1, <1>2 DEF Masks

LEMMA CountIs ==
  ASSUME NEW mask \in Masks
  PROVE  /\ Cardinality(mask) \in Nat
         /\ \A part \in SUBSET mask : Cardinality(part) \in Nat /\ Cardinality(part) <= Cardinality(mask)
         /\ \A part \in SUBSET mask : \A bit :
              Cardinality(part \cup {bit}) = IF bit \in part THEN Cardinality(part) ELSE Cardinality(part) + 1
<1>1. IsFiniteSet(mask) /\ \A part \in SUBSET mask : IsFiniteSet(part)
  BY MasksAreFinite, FS_Subset
<1>2. \A part \in SUBSET mask : Cardinality(part) \in Nat /\ Cardinality(part) <= Cardinality(mask)
  BY <1>1, FS_CardinalityType, FS_Subset
<1>3. \A part \in SUBSET mask : \A bit :
        Cardinality(part \cup {bit}) = IF bit \in part THEN Cardinality(part) ELSE Cardinality(part) + 1
  BY <1>1, FS_AddElement
<1> QED
  BY <1>1, <1>2, <1>3, FS_CardinalityType

\* The lowest bits of a mask have the first places, the others those behind.
LEMMA PlaceIs ==
  ASSUME NEW mask \in Masks, NEW low \in SUBSET mask,
         \A bit \in low, other \in mask \ low : bit < other
  PROVE  /\ \A bit : Place(mask, bit) \in Nat
         /\ \A bit \in mask : Place(mask, bit) >= 1 /\ Place(mask, bit) <= Cardinality(mask)
         /\ \A bit \in low : Place(mask, bit) <= Cardinality(low)
         /\ \A bit \in mask \ low : Place(mask, bit) > Cardinality(low)
         /\ \A bit \in Nat : (\A b \in low : b < bit) /\ (\A b \in mask \ low : bit <= b) =>
              Place(mask, bit) = Cardinality(low) + 1
<1>1. \A bit : Place(mask, bit) = Cardinality(Below(mask, bit)) + 1 /\ Below(mask, bit) \in SUBSET mask
  BY DEF Place, Below
<1>0. \A bit, b : b \in Below(mask, bit) <=> b \in mask /\ b < bit
  BY DEF Below
<1>2. \A bit : Cardinality(Below(mask, bit)) \in Nat
  BY <1>1, CountIs
<1>3. mask \subseteq Nat
  BY MasksAreFinite
<1>4. ASSUME NEW part \in SUBSET mask, NEW bit \in part, \A b \in Below(mask, bit) : b \in part
      PROVE  Place(mask, bit) <= Cardinality(part)
  <2>1. bit \notin Below(mask, bit) /\ Below(mask, bit) \cup {bit} \in SUBSET part
    BY <1>0, <1>3, <1>4
  <2>2. Cardinality(Below(mask, bit) \cup {bit}) = Cardinality(Below(mask, bit)) + 1
    BY <1>1, <2>1, CountIs
  <2>3. part \in Masks
    BY MasksAreFinite
  <2>4. Cardinality(Below(mask, bit) \cup {bit}) <= Cardinality(part)
    BY <2>1, <2>3, CountIs
  <2> QED
    BY <1>1, <2>2, <2>4
<1>5. \A bit \in low : Place(mask, bit) <= Cardinality(low)
  <2> TAKE bit \in low
  <2>1. \A b \in Below(mask, bit) : b \in low
    <3> TAKE b \in Below(mask, bit)
    <3>1. b \in mask /\ b < bit /\ b \in Nat /\ bit \in Nat
      BY <1>0, <1>3
    <3>2. b \in mask \ low => bit < b
      OBVIOUS
    <3> QED
      BY <3>1, <3>2
  <2> QED
    BY <1>4, <2>1
<1>6. \A bit \in mask : Place(mask, bit) <= Cardinality(mask)
  <2> TAKE bit \in mask
  <2>1. \A b \in Below(mask, bit) : b \in mask
    BY <1>0
  <2>2. mask \in SUBSET mask
    OBVIOUS
  <2> QED
    BY <1>4, <2>1, <2>2
<1>7. ASSUME NEW bit \in mask \ low
      PROVE  Place(mask, bit) > Cardinality(low)
  <2>1. low \in SUBSET Below(mask, bit)
    BY <1>0
  <2>2. Below(mask, bit) \in Masks
    BY <1>1, MasksAreFinite
  <2>3. Cardinality(low) <= Cardinality(Below(mask, bit)) /\ Cardinality(low) \in Nat
    BY <2>1, <2>2, CountIs
  <2> QED
    BY <1>1, <1>2, <2>3
<1>8. ASSUME NEW bit \in Nat, \A b \in low : b < bit, \A b \in mask \ low : bit <= b
      PROVE  Place(mask, bit) = Cardinality(low) + 1
  <2>1. Below(mask, bit) \subseteq low
    <3> SUFFICES ASSUME NEW b \in Below(mask, bit)
                 PROVE  b \in low
      OBVIOUS
    <3>1. b \in mask /\ b < bit /\ b \in Nat
      BY <1>0, <1>3
    <3>2. b \notin low => bit <= b
      BY <1>8, <3>1
    <3> QED
      BY <3>1, <3>2
  <2>2. low \subseteq Below(mask, bit)
    <3> SUFFICES ASSUME NEW b \in low
                 PROVE  b \in Below(mask, bit)
      OBVIOUS
    <3> QED
      BY <1>0, <1>8
  <2>3. Below(mask, bit) = low
    BY <2>1, <2>2
  <2> QED
    BY <1>1, <2>3
<1>9. \A bit : Place(mask, bit) \in Nat /\ Place(mask, bit) >= 1
  BY <1>1, <1>2
<1> QED
  BY <1>5, <1>6, <1>7, <1>8, <1>9

\* Passing the lowest bit that is left.
LEMMA PassIs ==
  ASSUME NEW mask \in Masks, NEW rest \in SUBSET Nat, NEW bit \in rest,
         \A b \in mask \ rest, other \in rest : b < other,
         \A other \in rest : bit <= other
  PROVE  /\ Cardinality(mask \ rest) \in Nat
         /\ Place(mask, bit) = Cardinality(mask \ rest) + 1
         /\ Cardinality(mask \ (rest \ {bit})) =
              IF bit \in mask THEN Cardinality(mask \ rest) + 1 ELSE Cardinality(mask \ rest)
         /\ \A b \in mask : Place(mask, b) <= Cardinality(mask \ (rest \ {bit})) =>
              b = bit \/ Place(mask, b) <= Cardinality(mask \ rest)
<1> DEFINE low == mask \ rest
           new == mask \ (rest \ {bit})
<1>1. low \in SUBSET mask /\ new \in SUBSET mask /\ bit \in Nat /\ mask \subseteq Nat
  BY MasksAreFinite
<1>2. \A b \in low, other \in mask \ low : b < other
  OBVIOUS
<1>3. \A b \in new, other \in mask \ new : b < other
  <2> TAKE b \in new, other \in mask \ new
  <2>1. other \in rest /\ other # bit /\ other \in Nat /\ bit <= other
    BY <1>1
  <2> QED
    BY <1>1, <2>1
<1>4. new = IF bit \in mask THEN low \cup {bit} ELSE low
  OBVIOUS
<1>5. bit \notin low /\ (\A b \in low : b < bit) /\ (\A b \in mask \ low : bit <= b)
  OBVIOUS
<1>6. \A b \in mask : b = bit \/ b \in low \/ b \in mask \ new
  OBVIOUS
<1> HIDE DEF low, new
<1>7. Cardinality(low) \in Nat
  BY <1>1, CountIs
<1>8. Cardinality(new) = IF bit \in mask THEN Cardinality(low) + 1 ELSE Cardinality(low)
  BY <1>1, <1>4, <1>5, CountIs
<1>9. Place(mask, bit) = Cardinality(low) + 1
  BY <1>1, <1>2, <1>5, PlaceIs
<1>10. \A b \in low : Place(mask, b) <= Cardinality(low)
  BY <1>1, <1>2, PlaceIs
<1>11. \A b \in mask \ new : Place(mask, b) > Cardinality(new)
  BY <1>1, <1>3, PlaceIs
<1>12. Cardinality(new) \in Nat /\ \A b : Place(mask, b) \in Nat
  BY <1>1, <1>3, CountIs, PlaceIs
<1>13. \A b \in mask : Place(mask, b) <= Cardinality(new) => b = bit \/ Place(mask, b) <= Cardinality(low)
  <2> TAKE b \in mask
  <2>1. CASE b \in mask \ new
    BY <1>11, <1>12, <2>1
  <2> QED
    BY <1>6, <1>10, <2>1
<1> QED
  BY <1>7, <1>8, <1>9, <1>13 DEF low, new

\* The bits from a number on.
LEMMA CountingIs ==
  ASSUME NEW mask \in Masks, NEW n \in Nat
  PROVE  /\ Cardinality(Below(mask, n)) \in Nat
         /\ Place(mask, n) = Cardinality(Below(mask, n)) + 1
         /\ Cardinality(Below(mask, n + 1)) =
              IF n \in mask THEN Cardinality(Below(mask, n)) + 1
              ELSE Cardinality(Below(mask, n))
         /\ \A b \in mask : Place(mask, b) <= Cardinality(Below(mask, n + 1)) =>
              b = n \/ Place(mask, b) <= Cardinality(Below(mask, n))
<1> DEFINE rest == {b \in Nat : b >= n}
<1>1. rest \in SUBSET Nat /\ n \in rest
  OBVIOUS
<1>2. mask \subseteq Nat
  BY MasksAreFinite
<1>3. \A b \in mask : (b < n <=> b \notin rest) /\ (b < n + 1 <=> b \notin rest \ {n})
  BY <1>2
<1>4. (\A b \in mask \ rest, other \in rest : b < other) /\ \A other \in rest : n <= other
  BY <1>2
<1> HIDE DEF rest
<1>5. Below(mask, n) = mask \ rest /\ Below(mask, n + 1) = mask \ (rest \ {n})
  BY <1>3 DEF Below
<1>6. Place(mask, n) = Cardinality(Below(mask, n)) + 1
  BY DEF Place
<1>7. /\ Cardinality(mask \ rest) \in Nat
      /\ Cardinality(mask \ (rest \ {n})) =
           IF n \in mask THEN Cardinality(mask \ rest) + 1 ELSE Cardinality(mask \ rest)
      /\ \A b \in mask : Place(mask, b) <= Cardinality(mask \ (rest \ {n})) =>
           b = n \/ Place(mask, b) <= Cardinality(mask \ rest)
  BY <1>1, <1>4, PassIs
<1> QED
  BY <1>5, <1>6, <1>7

\* A channel of the source is counted from 1, and silence is 0.
LEMMA ChannelIs ==
  ASSUME FrameTypeOK
  PROVE  \A bit \in frame.dst : Channel(bit) \in Nat
<1>1. frame.src \in Masks /\ frame.dst \in Masks /\ frame.fn \in {"mask", "index", "src_index", "dst_index"}
  BY DEF FrameTypeOK
<1>2. \A bit : Place(frame.src, bit) \in Nat
  BY <1>1, PlaceIs
<1>3. Cardinality(frame.src) \in Nat /\ frame.dst \subseteq Nat
  BY <1>1, CountIs, MasksAreFinite
<1> QED
  BY <1>1, <1>2, <1>3 DEF Channel

\* A copy of a frame begins with nothing put out.
LEMMA FrameStarts ==
  ASSUME FrameInit \/ FrameIdle
  PROVE  FrameIInv
<1>1. Cardinality({}) = 0 /\ {} \in Masks
  BY FS_EmptySet DEF Masks
<1>2. \A mask \in Masks : mask \subseteq Nat /\ Below(mask, 0) = {}
  <2> TAKE mask \in Masks
  <2>1. mask \subseteq Nat
    BY MasksAreFinite
  <2>2. \A bit \in mask : ~(bit < 0)
    BY <2>1
  <2> QED
    BY <2>1, <2>2 DEF Below
<1>3. CASE FrameIdle
  <2>1. frame = [fn |-> "mask", dst |-> {}, src |-> {}, idxcount |-> 0, left |-> {}, at |-> 0,
                 out |-> << >>, returned |-> 0, done |-> TRUE]
    BY <1>3 DEF FrameIdle, FrameStart
  <2>2. FrameTypeOK
    BY <1>1, <2>1 DEF FrameTypeOK
  <2>3. KeepsChannels
    BY <1>1, <2>1 DEF KeepsChannels
  <2> QED
    BY <2>1, <2>2, <2>3 DEF FrameIInv
<1>4. CASE FrameInit
  <2>1. PICK fn \in {"mask", "index", "src_index", "dst_index"}, dst \in Masks, source \in Masks,
             idxcount \in 0..Channels : frame = FrameStart(fn, dst, source, idxcount)
    BY <1>4 DEF FrameInit
  <2>2. dst \cup source \in Masks /\ idxcount \in Nat
    <3>1. Channels \in Nat
      BY SampleFormatsAssumption
    <3> QED
      BY <3>1 DEF Masks
  <2>3. frame = [fn |-> fn, dst |-> dst, src |-> source, idxcount |-> idxcount, left |-> dst \cup source,
                 at |-> 0, out |-> << >>, returned |-> 0, done |-> FALSE]
    BY <2>1 DEF FrameStart
  <2>4. FrameTypeOK
    BY <2>2, <2>3 DEF FrameTypeOK
  <2>5. \A bit \in dst : Place(dst, bit) \in Nat /\ Place(dst, bit) >= 1
    BY PlaceIs
  <2>6. dst \ (dst \cup source) = {} /\ source \ (dst \cup source) = {}
    OBVIOUS
  <2>7. Cardinality(dst) \in Nat
    BY CountIs
  <2>8. \A bit \in dst : ~(Place(dst, bit) <= 0)
    BY <2>5
  <2>9. Cardinality(Below(source, 0)) = 0 /\ Cardinality(Below(dst, 0)) = 0
    BY <1>1, <1>2
  <2>10. Cardinality(dst \ (dst \cup source)) = 0 /\ Cardinality(source \ (dst \cup source)) = 0
    BY <1>1, <2>6
  <2>11. Len(frame.out) = 0 /\ frame.dst = dst /\ frame.src = source /\ frame.at = 0 /\ ~frame.done
         /\ frame.left = dst \cup source /\ frame.idxcount = idxcount /\ frame.fn = fn
    BY <2>3
  <2>12. \A bit \in (frame.dst \cup frame.src) \ frame.left : FALSE
    BY <2>11
  <2>13. CASE fn \in {"mask", "index"}
    <3>1. Cardinality(frame.dst \ frame.left) = 0 /\ Cardinality(frame.src \ frame.left) = 0
          /\ frame.left \subseteq frame.dst \cup frame.src
      BY <2>10, <2>11
    <3>2. \A bit \in (frame.dst \cup frame.src) \ frame.left, other \in frame.left : bit < other
      BY <2>12
    <3>3. frame.fn = "mask" \/ Len(frame.out) <= frame.idxcount
      BY <2>2, <2>11
    <3> QED
      BY <2>4, <2>8, <2>11, <2>13, <3>1, <3>2, <3>3 DEF FrameIInv, Filled
  <2>14. CASE fn = "src_index"
    BY <2>2, <2>4, <2>7, <2>8, <2>9, <2>11, <2>14 DEF FrameIInv, Filled
  <2>15. CASE fn = "dst_index"
    BY <2>2, <2>4, <2>8, <2>9, <2>11, <2>15 DEF FrameIInv, Filled
  <2> QED
    BY <2>13, <2>14, <2>15
<1> QED
  BY <1>3, <1>4

\* One more element, where it belongs.
LEMMA FilledOneMore ==
  ASSUME FrameTypeOK, Filled, NEW x \in Int,
         frame' = [frame EXCEPT !.out = frame'.out, !.at = frame'.at, !.left = frame'.left],
         frame'.out = Append(frame.out, x),
         \A bit \in frame.dst : Place(frame.dst, bit) <= Len(frame.out) + 1 =>
           \/ Place(frame.dst, bit) <= Len(frame.out)
           \/ x = Channel(bit) - IF frame.fn = "mask" THEN 0 ELSE 1
  PROVE  Filled' /\ Len(frame'.out) = Len(frame.out) + 1 /\ frame'.out \in Seq(Int)
<1>1. frame.out \in Seq(Int) /\ frame.dst \in Masks
  BY DEF FrameTypeOK
<1>2. Len(frame'.out) = Len(frame.out) + 1 /\ frame'.out \in Seq(Int)
      /\ (\A i \in 1..Len(frame.out) : frame'.out[i] = frame.out[i])
      /\ frame'.out[Len(frame.out) + 1] = x /\ Len(frame.out) \in Nat
  BY <1>1
<1>3. frame'.fn = frame.fn /\ frame'.dst = frame.dst /\ frame'.src = frame.src
  BY DEF FrameTypeOK
<1>4. \A bit : Channel(bit)' = Channel(bit)
  BY <1>3 DEF Channel
<1>5. \A bit \in frame.dst : Place(frame.dst, bit) \in Nat /\ Place(frame.dst, bit) >= 1
  BY <1>1, PlaceIs
<1>6. ASSUME NEW bit \in frame.dst, Place(frame.dst, bit) <= Len(frame.out) + 1
      PROVE  frame'.out[Place(frame.dst, bit)] = Channel(bit) - IF frame.fn = "mask" THEN 0 ELSE 1
  <2>1. CASE Place(frame.dst, bit) <= Len(frame.out)
    BY <1>2, <1>5, <2>1 DEF Filled
  <2>2. CASE ~(Place(frame.dst, bit) <= Len(frame.out))
    <3>1. Place(frame.dst, bit) = Len(frame.out) + 1
      BY <1>2, <1>5, <1>6, <2>2
    <3> QED
      BY <1>2, <1>6, <2>2, <3>1
  <2> QED
    BY <2>1, <2>2
<1> QED
  BY <1>2, <1>3, <1>4, <1>6 DEF Filled

\* The lowest bit left is passed.
LEMMA NextBitKeeps ==
  ASSUME FrameIInv, copy_frame_by_mask \/ memcpy_by_index_array_initialization
  PROVE  FrameIInv'
<1> DEFINE D == frame.dst
           S == frame.src
           L == frame.left
           x == IF frame.fn = "mask" THEN frame.at + 1 ELSE frame.at
           silence == IF frame.fn = "mask" THEN 0 ELSE -1
<1>1. /\ FrameTypeOK /\ frame.fn \in {"mask", "index"} /\ ~frame.done /\ Filled
      /\ L \subseteq D \cup S
      /\ \A bit \in (D \cup S) \ L, other \in L : bit < other
      /\ Len(frame.out) = Cardinality(D \ L) /\ frame.at = Cardinality(S \ L)
      /\ frame.fn = "index" => Len(frame.out) < frame.idxcount
      /\ NextBit(x, silence)
  BY DEF FrameIInv, Filled, copy_frame_by_mask, memcpy_by_index_array_initialization
<1>2. PICK bit \in L :
        /\ \A other \in L : bit <= other
        /\ frame' = [frame EXCEPT
             !.left = L \ {bit},
             !.at = IF bit \in S THEN frame.at + 1 ELSE frame.at,
             !.out = IF bit \notin D THEN frame.out
                     ELSE Append(frame.out, IF bit \in S THEN x ELSE silence)]
  BY <1>1 DEF NextBit
<1>3. /\ D \in Masks /\ S \in Masks /\ L \in Masks /\ frame.out \in Seq(Int) /\ frame.at \in Nat
      /\ frame.idxcount \in Nat /\ Len(frame.out) \in Nat
  BY <1>1 DEF FrameTypeOK
<1>4. L \in SUBSET Nat /\ D \subseteq Nat /\ S \subseteq Nat
  BY <1>3, MasksAreFinite
<1>5. /\ frame'.fn = frame.fn /\ frame'.dst = D /\ frame'.src = S /\ frame'.idxcount = frame.idxcount
      /\ frame'.left = L \ {bit} /\ frame'.done = frame.done /\ frame'.returned = frame.returned
      /\ frame'.at = (IF bit \in S THEN frame.at + 1 ELSE frame.at)
      /\ frame'.out = (IF bit \notin D THEN frame.out
                       ELSE Append(frame.out, IF bit \in S THEN x ELSE silence))
  BY <1>1, <1>2 DEF FrameTypeOK
<1>6. /\ Place(D, bit) = Cardinality(D \ L) + 1
      /\ Cardinality(D \ (L \ {bit})) = IF bit \in D THEN Cardinality(D \ L) + 1 ELSE Cardinality(D \ L)
      /\ \A b \in D : Place(D, b) <= Cardinality(D \ (L \ {bit})) =>
              b = bit \/ Place(D, b) <= Cardinality(D \ L)
  <2>1. /\ D \in Masks /\ L \in SUBSET Nat /\ bit \in L
        /\ \A b \in D \ L, other \in L : b < other
        /\ \A other \in L : bit <= other
    BY <1>1, <1>2, <1>3, <1>4
  <2> HIDE DEF D, L
  <2> QED
    BY <2>1, PassIs
<1>7. /\ Place(S, bit) = Cardinality(S \ L) + 1
      /\ Cardinality(S \ (L \ {bit})) = IF bit \in S THEN Cardinality(S \ L) + 1 ELSE Cardinality(S \ L)
  <2>1. /\ S \in Masks /\ L \in SUBSET Nat /\ bit \in L
        /\ \A b \in S \ L, other \in L : b < other
        /\ \A other \in L : bit <= other
    BY <1>1, <1>2, <1>3, <1>4
  <2> HIDE DEF S, L
  <2> QED
    BY <2>1, PassIs
<1>8. x \in Int /\ silence \in Int
  BY <1>3
<1>9. /\ Filled' /\ frame'.out \in Seq(Int)
      /\ Len(frame'.out) = IF bit \in D THEN Len(frame.out) + 1 ELSE Len(frame.out)
  <2>1. CASE bit \in D
    <3>1. (IF bit \in S THEN x ELSE silence) = Channel(bit) - IF frame.fn = "mask" THEN 0 ELSE 1
      BY <1>1, <1>3, <1>7 DEF Channel
    <3>2. \A b \in D : Place(D, b) <= Len(frame.out) + 1 =>
            \/ Place(D, b) <= Len(frame.out)
            \/ (IF bit \in S THEN x ELSE silence) = Channel(b) - IF frame.fn = "mask" THEN 0 ELSE 1
      BY <1>1, <1>6, <2>1, <3>1
    <3>3. frame' = [frame EXCEPT !.out = frame'.out, !.at = frame'.at, !.left = frame'.left]
      BY <1>1, <1>2 DEF FrameTypeOK
    <3>4. frame'.out = Append(frame.out, IF bit \in S THEN x ELSE silence)
      BY <1>5, <2>1
    <3> QED
      BY <1>1, <1>8, <2>1, <3>2, <3>3, <3>4, FilledOneMore
  <2>2. CASE bit \notin D
    <3>1. \A b : Channel(b)' = Channel(b)
      BY <1>5 DEF Channel
    <3> QED
      BY <1>1, <1>3, <1>5, <2>2, <3>1 DEF Filled
  <2> QED
    BY <2>1, <2>2
<1>10. FrameTypeOK'
  <2>1. L \ {bit} \in Masks
    BY <1>3, MasksAreFinite
  <2>2. frame'.at \in Nat
    BY <1>3, <1>5
  <2> QED
    BY <1>1, <1>2, <1>9, <2>1, <2>2, <1>5 DEF FrameTypeOK
<1>11. \A b \in (D \cup S) \ (L \ {bit}), other \in L \ {bit} : b < other
  <2> TAKE b \in (D \cup S) \ (L \ {bit}), other \in L \ {bit}
  <2>1. other \in L /\ other # bit /\ other \in Nat /\ bit <= other /\ bit \in Nat
    BY <1>2, <1>4
  <2>2. b = bit \/ b \in (D \cup S) \ L
    OBVIOUS
  <2> QED
    BY <1>1, <2>1, <2>2
<1>12. frame'.fn = "mask" \/ Len(frame'.out) <= frame'.idxcount
  BY <1>1, <1>3, <1>5, <1>9
<1>13. Len(frame'.out) = Cardinality(D \ (L \ {bit})) /\ frame'.at = Cardinality(S \ (L \ {bit}))
  BY <1>1, <1>5, <1>6, <1>7, <1>9
<1> QED
  BY <1>1, <1>5, <1>9, <1>10, <1>11, <1>12, <1>13 DEF FrameIInv, Filled

\* One more bit of an index mask, on either side.
LEMMA SrcIndexKeeps ==
  ASSUME FrameIInv, memcpy_by_index_array_initialization_src_index
  PROVE  FrameIInv'
<1> DEFINE D == frame.dst
           S == frame.src
           n == Len(frame.out)
           x == IF n \in S THEN frame.at ELSE -1
<1>1. /\ FrameTypeOK /\ frame.fn = "src_index" /\ ~frame.done /\ Filled
      /\ frame.at = Cardinality(Below(S, n))
      /\ n < Cardinality(D) /\ n < frame.idxcount
      /\ frame' = [frame EXCEPT !.at = IF n \in S THEN frame.at + 1 ELSE frame.at,
                                !.out = Append(frame.out, x)]
  BY DEF FrameIInv, Filled, memcpy_by_index_array_initialization_src_index, Filling
<1>2. /\ D \in Masks /\ S \in Masks /\ frame.out \in Seq(Int) /\ frame.at \in Nat
      /\ frame.idxcount \in Nat /\ n \in Nat
  BY <1>1 DEF FrameTypeOK
<1>3. /\ frame'.fn = frame.fn /\ frame'.dst = D /\ frame'.src = S /\ frame'.idxcount = frame.idxcount
      /\ frame'.left = frame.left /\ frame'.done = frame.done /\ frame'.returned = frame.returned
      /\ frame'.at = (IF n \in S THEN frame.at + 1 ELSE frame.at)
      /\ frame'.out = Append(frame.out, x)
  BY <1>1 DEF FrameTypeOK
<1>4. /\ Place(S, n) = frame.at + 1
      /\ Cardinality(Below(S, n + 1)) = IF n \in S THEN frame.at + 1 ELSE frame.at
  <2> HIDE DEF n
  <2>1. /\ Place(S, n) = Cardinality(Below(S, n)) + 1
        /\ Cardinality(Below(S, n + 1)) =
             IF n \in S THEN Cardinality(Below(S, n)) + 1 ELSE Cardinality(Below(S, n))
    BY <1>2, CountingIs
  <2> QED
    BY <1>1, <2>1
<1>5. Filled' /\ Len(frame'.out) = n + 1 /\ frame'.out \in Seq(Int)
  <2>1. \A bit \in D : Place(D, bit) = n + 1 => x = Channel(bit) - 1
    BY <1>1, <1>2, <1>4 DEF Channel
  <2>2. \A bit \in D : Place(D, bit) \in Nat
    BY <1>2, PlaceIs
  <2>3. \A bit \in D : Place(D, bit) <= n + 1 =>
          Place(D, bit) <= n \/ x = Channel(bit) - IF frame.fn = "mask" THEN 0 ELSE 1
    BY <1>1, <1>2, <2>1, <2>2
  <2>4. frame' = [frame EXCEPT !.out = frame'.out, !.at = frame'.at, !.left = frame'.left]
    BY <1>1 DEF FrameTypeOK
  <2>5. x \in Int
    BY <1>2
  <2> QED
    BY <1>1, <1>3, <2>3, <2>4, <2>5, FilledOneMore
<1>6. FrameTypeOK'
  <2>1. frame'.at \in Nat
    BY <1>2, <1>3
  <2> QED
    BY <1>1, <1>3, <1>5, <2>1 DEF FrameTypeOK
<1>7. Len(frame'.out) <= frame'.idxcount /\ Len(frame'.out) <= Cardinality(D)
  <2>1. Cardinality(D) \in Nat
    BY <1>2, CountIs
  <2> QED
    BY <1>1, <1>2, <1>3, <1>5, <2>1
<1>8. frame'.at = Cardinality(Below(frame'.src, Len(frame'.out)))
  BY <1>3, <1>4, <1>5
<1> QED
  BY <1>1, <1>3, <1>5, <1>6, <1>7, <1>8 DEF FrameIInv, Filled

LEMMA DstIndexKeeps ==
  ASSUME FrameIInv, memcpy_by_index_array_initialization_dst_index
  PROVE  FrameIInv'
<1> DEFINE D == frame.dst
           n == frame.at
           x == IF n < Cardinality(frame.src) THEN n ELSE -1
<1>1. /\ FrameTypeOK /\ frame.fn = "dst_index" /\ ~frame.done /\ Filled
      /\ Len(frame.out) = Cardinality(Below(D, n))
      /\ Len(frame.out) < frame.idxcount
      /\ frame' = [frame EXCEPT !.at = n + 1,
                                !.out = IF n \notin D THEN frame.out ELSE Append(frame.out, x)]
  BY DEF FrameIInv, Filled, memcpy_by_index_array_initialization_dst_index, Filling
<1>2. /\ D \in Masks /\ frame.src \in Masks /\ frame.out \in Seq(Int) /\ n \in Nat
      /\ frame.idxcount \in Nat /\ Len(frame.out) \in Nat
  BY <1>1 DEF FrameTypeOK
<1>3. /\ frame'.fn = frame.fn /\ frame'.dst = D /\ frame'.src = frame.src
      /\ frame'.idxcount = frame.idxcount
      /\ frame'.left = frame.left /\ frame'.done = frame.done /\ frame'.returned = frame.returned
      /\ frame'.at = n + 1
      /\ frame'.out = (IF n \notin D THEN frame.out ELSE Append(frame.out, x))
  BY <1>1 DEF FrameTypeOK
<1>4. /\ Cardinality(Below(D, n + 1)) =
           IF n \in D THEN Cardinality(Below(D, n)) + 1 ELSE Cardinality(Below(D, n))
      /\ \A b \in D : Place(D, b) <= Cardinality(Below(D, n + 1)) =>
           b = n \/ Place(D, b) <= Cardinality(Below(D, n))
  BY <1>2, CountingIs
<1>5. /\ Filled' /\ frame'.out \in Seq(Int)
      /\ Len(frame'.out) = IF n \in D THEN Len(frame.out) + 1 ELSE Len(frame.out)
  <2>1. CASE n \in D
    <3>1. x = Channel(n) - 1
      BY <1>1, <1>2 DEF Channel
    <3>2. \A bit \in D : Place(D, bit) <= Len(frame.out) + 1 =>
            \/ Place(D, bit) <= Len(frame.out)
            \/ x = Channel(bit) - IF frame.fn = "mask" THEN 0 ELSE 1
      BY <1>1, <1>4, <2>1, <3>1
    <3>3. frame' = [frame EXCEPT !.out = frame'.out, !.at = frame'.at, !.left = frame'.left]
      BY <1>1 DEF FrameTypeOK
    <3>4. x \in Int
      BY <1>2
    <3> QED
      BY <1>1, <1>3, <2>1, <3>2, <3>3, <3>4, FilledOneMore
  <2>2. CASE n \notin D
    <3>1. \A b : Channel(b)' = Channel(b)
      BY <1>3 DEF Channel
    <3> QED
      BY <1>1, <1>2, <1>3, <2>2, <3>1 DEF Filled
  <2> QED
    BY <2>1, <2>2
<1>6. FrameTypeOK'
  <2>1. frame'.at \in Nat
    BY <1>2, <1>3
  <2> QED
    BY <1>1, <1>3, <1>5, <2>1 DEF FrameTypeOK
<1>7. Len(frame'.out) <= frame'.idxcount
  BY <1>1, <1>2, <1>3, <1>5
<1>8. Len(frame'.out) = Cardinality(Below(frame'.dst, frame'.at))
  BY <1>1, <1>3, <1>4, <1>5
<1> QED
  BY <1>1, <1>3, <1>5, <1>6, <1>7, <1>8 DEF FrameIInv, Filled

\* The frame is copied.
LEMMA MaskDone ==
  ASSUME FrameIInv, memcpy_by_channel_mask
  PROVE  FrameIInv'
<1> DEFINE D == frame.dst
           result == IF D = frame.src THEN [i \in 1..Cardinality(D) |-> i] ELSE frame.out
<1>1. /\ FrameTypeOK /\ frame.fn = "mask" /\ ~frame.done /\ Filled
      /\ Len(frame.out) = Cardinality(D \ frame.left)
      /\ D = frame.src \/ frame.left = {}
      /\ frame' = [frame EXCEPT !.done = TRUE, !.returned = Cardinality(D), !.out = result]
  BY DEF FrameIInv, Filled, memcpy_by_channel_mask
<1>2. D \in Masks /\ frame.out \in Seq(Int) /\ Cardinality(D) \in Nat
  BY <1>1, CountIs DEF FrameTypeOK
<1>3. /\ frame'.fn = "mask" /\ frame'.dst = D /\ frame'.src = frame.src /\ frame'.done
      /\ frame'.returned = Cardinality(D) /\ frame'.out = result
  BY <1>1 DEF FrameTypeOK
<1>4. result \in Seq(Int) /\ Len(result) = Cardinality(D)
  <2>1. CASE D = frame.src
    BY <1>2, <2>1
  <2>2. CASE D # frame.src
    <3>1. D \ frame.left = D
      BY <1>1, <2>2
    <3> QED
      BY <1>1, <1>2, <2>2, <3>1
  <2> QED
    BY <2>1, <2>2
<1>5. \A bit \in D : Place(D, bit) \in 1..Cardinality(D)
  <2>1. \A bit \in D : Place(D, bit) \in Nat /\ Place(D, bit) >= 1 /\ Place(D, bit) <= Cardinality(D)
    BY <1>2, PlaceIs
  <2> QED
    BY <1>2, <2>1
<1>6. \A bit \in D : result[Place(D, bit)] = Channel(bit)
  <2>1. CASE D = frame.src
    BY <1>1, <1>5, <2>1 DEF Channel
  <2>2. CASE D # frame.src
    <3>1. \A bit \in D : Channel(bit) \in Nat
      BY <1>1, ChannelIs
    <3> QED
      BY <1>1, <1>4, <1>5, <2>2, <3>1 DEF Filled
  <2> QED
    BY <2>1, <2>2
<1>7. FrameTypeOK'
  BY <1>1, <1>2, <1>4 DEF FrameTypeOK
<1>8. \A bit : Channel(bit)' = Channel(bit)
  BY <1>1, <1>3 DEF Channel
<1> HIDE DEF result
<1>9. KeepsChannels'
  BY <1>3, <1>4, <1>6, <1>8 DEF KeepsChannels
<1> QED
  BY <1>3, <1>7, <1>9 DEF FrameIInv

LEMMA IndexDone ==
  ASSUME FrameIInv, memcpy_by_index_array
  PROVE  FrameIInv'
<1> DEFINE D == frame.dst
           n == Len(frame.out)
           result == [i \in DOMAIN frame.out |-> IF frame.out[i] < 0 THEN 0 ELSE frame.out[i] + 1]
           returned == CASE frame.fn = "index" -> n + Cardinality(frame.left \cap D)
                         [] frame.fn # "index" /\ frame.idxcount = 0 -> Cardinality(D)
                         [] OTHER -> n
<1>1. /\ FrameTypeOK /\ frame.fn # "mask" /\ ~frame.done /\ Filled /\ n <= frame.idxcount
      /\ frame' = [frame EXCEPT !.done = TRUE, !.returned = returned, !.out = result]
  BY DEF FrameIInv, Filled, memcpy_by_index_array
<1>2. /\ D \in Masks /\ frame.left \in Masks /\ frame.out \in Seq(Int) /\ n \in Nat
      /\ frame.idxcount \in Nat /\ Cardinality(D) \in Nat
      /\ frame.fn \in {"index", "src_index", "dst_index"}
  BY <1>1, CountIs DEF FrameTypeOK
<1>3. /\ frame'.fn = frame.fn /\ frame'.dst = D /\ frame'.src = frame.src /\ frame'.done
      /\ frame'.idxcount = frame.idxcount /\ frame'.returned = returned /\ frame'.out = result
  BY <1>1 DEF FrameTypeOK
<1>4. Len(result) = n /\ result \in Seq(Int)
  BY <1>2
<1>5. \A bit \in D : Place(D, bit) <= n => result[Place(D, bit)] = Channel(bit)
  <2> TAKE bit \in D
  <2>1. Place(D, bit) \in Nat /\ Place(D, bit) >= 1 /\ Channel(bit) \in Nat
    BY <1>1, <1>2, PlaceIs, ChannelIs
  <2>2. Place(D, bit) <= n => frame.out[Place(D, bit)] = Channel(bit) - 1 /\ Place(D, bit) \in DOMAIN frame.out
    BY <1>1, <1>2, <2>1 DEF Filled
  <2> QED
    BY <2>1, <2>2
<1> DEFINE most == IF frame.idxcount > Cardinality(D) THEN Cardinality(D) ELSE frame.idxcount
<1>6. ASSUME frame.fn = "index"
      PROVE  n = most /\ returned = Cardinality(D)
  <2>1. n = Cardinality(D \ frame.left) /\ (frame.left = {} \/ n >= frame.idxcount)
    BY <1>6 DEF FrameIInv, memcpy_by_index_array
  <2> DEFINE passed == D \ frame.left
             other == frame.left \cap D
  <2>2. IsFiniteSet(passed) /\ IsFiniteSet(other) /\ passed \cap other = {} /\ passed \cup other = D
    BY <1>2, MasksAreFinite, FS_Subset
  <2>3. /\ Cardinality(passed) \in Nat /\ Cardinality(other) \in Nat
        /\ Cardinality(D) = Cardinality(passed) + Cardinality(other)
    <3> HIDE DEF passed, other
    <3>1. Cardinality(passed) \in Nat /\ Cardinality(other) \in Nat
      BY <2>2, FS_CardinalityType
    <3>2. Cardinality(passed \cup other) =
            Cardinality(passed) + Cardinality(other) - Cardinality(passed \cap other)
      BY <2>2, FS_Union
    <3>3. Cardinality(passed \cap other) = 0
      BY <2>2, FS_EmptySet
    <3>4. Cardinality(passed \cup other) = Cardinality(D)
      BY <2>2
    <3> QED
      BY <3>1, <3>2, <3>3, <3>4
  <2>4. returned = Cardinality(D)
    BY <1>6, <2>1, <2>3
  <2>5. frame.left = {} => n = Cardinality(D)
    <3> SUFFICES ASSUME frame.left = {}
                 PROVE  n = Cardinality(D)
      OBVIOUS
    <3>1. D \ frame.left = D
      OBVIOUS
    <3> QED
      BY <2>1, <3>1
  <2>6. n = most
    BY <1>1, <1>2, <2>1, <2>3, <2>5
  <2> QED
    BY <2>4, <2>6
<1>7. ASSUME frame.fn \in {"src_index", "dst_index"}
      PROVE  /\ n = most /\ returned \in Nat
             /\ frame.idxcount \notin 1..(Cardinality(D) - 1) => returned = Cardinality(D)
  <2>1. n <= Cardinality(D)
    <3>1. CASE frame.fn = "src_index"
      BY <1>1, <3>1 DEF FrameIInv
    <3>2. CASE frame.fn = "dst_index"
      <4>1. n = Cardinality(Below(D, frame.at))
        BY <1>1, <3>2 DEF FrameIInv
      <4>2. Below(D, frame.at) \in SUBSET D
        BY DEF Below
      <4> QED
        BY <1>2, <4>1, <4>2, CountIs
    <3> QED
      BY <1>7, <3>1, <3>2
  <2>2. n >= Cardinality(D) \/ n >= frame.idxcount
    BY <1>2, <1>7 DEF memcpy_by_index_array, Filling
  <2>3. n = most
    BY <1>1, <1>2, <2>1, <2>2
  <2>4. returned = IF frame.idxcount = 0 THEN Cardinality(D) ELSE n
    BY <1>7
  <2>5. frame.idxcount \notin 1..(Cardinality(D) - 1) => returned = Cardinality(D)
    BY <1>2, <2>3, <2>4
  <2> QED
    BY <1>2, <2>3, <2>4, <2>5
<1>8. /\ n = most /\ returned \in Nat
      /\ frame.fn = "index" \/ frame.idxcount \notin 1..(Cardinality(D) - 1) => returned = Cardinality(D)
  BY <1>2, <1>6, <1>7
<1>9. FrameTypeOK'
  BY <1>1, <1>4, <1>8 DEF FrameTypeOK
<1>10. \A bit : Channel(bit)' = Channel(bit)
  BY <1>3 DEF Channel
<1> HIDE DEF result, returned
<1>11. KeepsChannels'
  BY <1>1, <1>3, <1>4, <1>5, <1>8, <1>10 DEF KeepsChannels
<1> QED
  BY <1>3, <1>9, <1>11 DEF FrameIInv

\* So every step keeps what is known of the frame.
LEMMA FrameStepKeeps ==
  ASSUME FrameIInv, FrameStep
  PROVE  FrameIInv'
BY NextBitKeeps, SrcIndexKeeps, DstIndexKeeps, MaskDone, IndexDone DEF FrameStep

-----------------------------------------------------------------------------
(***************************************************************************)
(* The theorem.                                                            *)
(***************************************************************************)

\* KeepsEverySample: whatever the samples and however many, a conversion in
\* place ends with each of them to one step of the new format, untorn and where
\* it belongs; and whatever the channel masks and the array of indices, a
\* channel of the destination gets the source's or silence (primitives.c and the
\* inline functions of primitives.h, with the code's widths and with TLC's).
THEOREM ConversionsKeepEverySample == Spec => []KeepsEverySample
<1> DEFINE IInv == CopyIInv /\ FrameIInv
<1>1. Init => IInv
  BY CopyStarts, FrameStarts DEF Init
<1>2. IInv /\ [Next]_vars => IInv'
  <2> SUFFICES ASSUME CopyIInv, FrameIInv, [Next]_vars
               PROVE  CopyIInv' /\ FrameIInv'
    OBVIOUS
  <2>1. \/ CopyStep /\ UNCHANGED frame
        \/ FrameStep /\ UNCHANGED copy
        \/ UNCHANGED <<copy, frame>>
    BY DEF Next, vars, CopyStep, FrameStep
  <2>2. UNCHANGED copy => CopyIInv'
    BY DEF CopyIInv, Converted, Holds, Group
  <2>3. UNCHANGED frame => FrameIInv'
    BY DEF FrameIInv, FrameTypeOK, KeepsChannels, Filled, Channel
  <2>4. CASE CopyStep /\ UNCHANGED frame
    BY <2>3, <2>4, CopyStepKeeps
  <2>5. CASE FrameStep /\ UNCHANGED copy
    BY <2>2, <2>5, FrameStepKeeps
  <2> QED
    BY <2>1, <2>2, <2>3, <2>4, <2>5
<1>3. IInv => KeepsEverySample
  <2> SUFFICES ASSUME CopyIInv, FrameIInv
               PROVE  KeepsSamples /\ KeepsChannels
    BY DEF KeepsEverySample
  <2>1. KeepsSamples
    BY AllConverted
  <2>2. KeepsChannels
    BY DEF FrameIInv, KeepsChannels
  <2> QED
    BY <2>1, <2>2
<1> QED
  BY <1>1, <1>2, <1>3, PTL DEF Spec
==============================================================================
