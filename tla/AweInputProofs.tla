---------------------------- MODULE AweInputProofs ----------------------------
(***************************************************************************)
(* AweInput for every ring, chunk and stream length, when no push is as    *)
(* long as the ring (ShortPushes): the DSP gets the pushed stream, no push *)
(* overruns it, and the ring is freed last.  IInv (AweInput) is inductive: *)
(* Offsets and Measured say that the room a push found and the chunks the  *)
(* worker measured outlast the steps until they are used, and Content that *)
(* the frames between the offsets, and the wrapped part of a chunk, are    *)
(* the stream.                                                             *)
(***************************************************************************)
EXTENDS AweInput, ModularArithmetic

ShortPushes == Pushes \subseteq 1 .. Size - 1

LEMMA SizeFacts ==
  /\ Size \in Nat \ {0} /\ Chunk \in Nat \ {0} /\ Size > Chunk
  /\ Word \in Nat \ {0} /\ Word > 2 * Size
BY AweInputAssumption

LEMMA Types ==
  ASSUME TypeOK
  PROVE  /\ wr \in 0 .. Size - 1 /\ rd \in 0 .. Size - 1
         /\ nwr \in Nat /\ nrd \in Nat /\ told \in Nat
         /\ app.pc \in AppPc /\ app.size \in Nat
         /\ worker.pc \in WorkerPc /\ worker.chunks \in Nat
         /\ \A a \in Address : buf[a] \in Nat \cup {Stale}
BY DEF TypeOK

\* The measure of the ring from its reduced offsets is the true one.
LEMMA Measures ==
  ASSUME TypeOK, Offsets
  PROVE  /\ nwr - nrd \in 0 .. Size - 1
         /\ Fullness = nwr - nrd
         /\ wr > rd => wr - rd = nwr - nrd
         /\ wr = rd => nwr - nrd = 0
         /\ wr < rd => (Size + wr) - rd = nwr - nrd
<1> DEFINE L == nwr - nrd
<1>1. /\ Size \in Nat \ {0} /\ wr \in 0 .. Size - 1 /\ rd \in 0 .. Size - 1
      /\ nwr \in Int /\ nrd \in Int
  BY SizeFacts, Types
<1>2. Pushing \in Nat /\ nrd <= nwr /\ (nwr + Pushing) - nrd <= Size - 1
  BY Types DEF Offsets, Pushing
<1>3. L \in 0 .. Size - 1
  BY <1>1, <1>2
<1>4. (wr - rd) % Size = L
  <2>1. ((nwr % Size) - (nrd % Size)) % Size = L
    BY <1>1, <1>3, ModMinus, Zenon
  <2>2. wr = nwr % Size /\ rd = nrd % Size
    BY DEF Offsets
  <2> QED
    BY <2>1, <2>2, Zenon
<1>5. CASE wr >= rd
  <2>1. wr - rd \in 0 .. Size - 1
    BY <1>1, <1>5
  <2>2. wr - rd = L
    BY <1>1, <1>4, <2>1, ModSmall
  <2> QED
    BY <1>1, <1>3, <1>5, <2>2 DEF Fullness
<1>6. CASE wr < rd
  <2>1. /\ (Size + wr) - rd \in 0 .. Size - 1
        /\ wr - rd = Size * (-1) + ((Size + wr) - rd)
        /\ wr - rd \in Int /\ -1 \in Int
    BY <1>1, <1>6
  <2>2. (wr - rd) % Size = (Size + wr) - rd
    BY <1>1, <2>1, ModIs, Zenon
  <2>3. (Size + wr) - rd = L
    BY <1>4, <2>2
  <2> QED
    BY <1>1, <1>3, <1>6, <2>3 DEF Fullness
<1> QED
  BY <1>1, <1>5, <1>6

\* A push that is not refused fits, with a slot to spare.
LEMMA Room ==
  ASSUME TypeOK, Offsets, NEW n \in 1 .. Size - 1, Space >= n
  PROVE  (nwr + n) - nrd <= Size - 1
<1>1. /\ Size \in Nat \ {0} /\ Word \in Nat \ {0} /\ Word > 2 * Size
      /\ wr \in 0 .. Size - 1 /\ rd \in 0 .. Size - 1 /\ nwr \in Int /\ nrd \in Int
  BY SizeFacts, Types
<1>2. CASE wr > rd
  <2>1. ((Size + rd) - wr) - 1 \in 0 .. Word - 1
    BY <1>1, <1>2
  <2>2. (((Size + rd) - wr) - 1) % Word = ((Size + rd) - wr) - 1
    BY <1>1, <2>1, ModSmall, Zenon
  <2>3. n <= ((Size + rd) - wr) - 1
    BY <1>1, <1>2, <2>2 DEF Space
  <2> QED
    BY <1>1, <1>2, <2>3, Measures
<1>3. CASE wr < rd
  <2>1. (rd - wr) - 1 \in 0 .. Word - 1
    BY <1>1, <1>3
  <2>2. ((rd - wr) - 1) % Word = (rd - wr) - 1
    BY <1>1, <2>1, ModSmall, Zenon
  <2>3. n <= (rd - wr) - 1
    BY <1>1, <1>3, <2>2 DEF Space
  <2> QED
    BY <1>1, <1>3, <2>3, Measures
<1>4. CASE wr = rd
  BY <1>1, <1>4, Measures
<1> QED
  BY <1>1, <1>2, <1>3, <1>4

LEMMA InitInv == Init => IInv
<1> SUFFICES ASSUME Init PROVE IInv
  OBVIOUS
<1>1. 0 % Size = 0 /\ Size \in Nat \ {0} /\ Chunk \in Nat \ {0}
  BY SizeFacts, ModSmall
<1>2. buf \in [Address -> Nat \cup {Stale}] /\ work \in Seq(Nat \cup {Stale})
  BY DEF Init
<1>3. TypeOK
  <2>1. app \in [pc : AppPc, size : Nat] /\ worker \in [pc : WorkerPc, chunks : Nat]
    BY DEF Init, AppPc, WorkerPc
  <2>2. wr \in 0 .. Size - 1 /\ rd \in 0 .. Size - 1
    BY <1>1 DEF Init
  <2>3. /\ live \in BOOLEAN /\ sem \in Nat /\ exit \in BOOLEAN /\ posts \in Nat
        /\ nwr \in Nat /\ nrd \in Nat /\ told \in Nat
    BY DEF Init
  <2> QED
    BY <1>2, <2>1, <2>2, <2>3 DEF TypeOK
<1>4. Offsets /\ Measured
  BY <1>1 DEF Init, Offsets, Measured, Pushing, InHand
<1>5. Content
  BY <1>1 DEF Init, Content
<1>6. Closing /\ FeedsTheStream
  BY DEF Init, Closing, FeedsTheStream
<1>7. app.size \in 0 .. Size
  BY <1>1 DEF Init
<1> QED
  BY <1>3, <1>4, <1>5, <1>6, <1>7 DEF IInv

-----------------------------------------------------------------------------
(***************************************************************************)
(* The application's steps.                                                *)
(***************************************************************************)

LEMMA PushBufPreserves ==
  ASSUME ShortPushes, IInv, NEW n \in Pushes, PushBuf(n)
  PROVE  IInv'
<1> USE DEF IInv
<1>0. /\ app.pc = "idle" /\ Space >= n /\ app' = [pc |-> "copy", size |-> n]
      /\ UNCHANGED <<wr, rd, buf, live, sem, exit, worker, work, posts, nwr, nrd, told>>
  BY DEF PushBuf, At, ring, ghosts
<1>1. n \in 1 .. Size - 1 /\ Size \in Nat
  BY SizeFacts DEF ShortPushes
<1>2. (nwr + n) - nrd <= Size - 1
  BY <1>0, <1>1, Room
<1>3. TypeOK' /\ app'.size \in 0 .. Size
  BY <1>0, <1>1 DEF TypeOK, AppPc
<1>4. Offsets'
  BY <1>0, <1>2 DEF Offsets, Pushing
<1>5. Measured' /\ Content' /\ Closing' /\ FeedsTheStream'
  BY <1>0 DEF Measured, InHand, Content, Closing, FeedsTheStream
<1> QED
  BY <1>3, <1>4, <1>5

\* Where position p of the stream lies relative to the write offset.
LEMMA Distance ==
  ASSUME NEW p \in Int, TypeOK, Offsets
  PROVE  /\ p % Size \in 0 .. Size - 1
         /\ p - nwr \in 0 .. Size - 1 => ((p % Size) - wr) % Size = p - nwr
         /\ nwr - p \in 1 .. Size - 1 => ((p % Size) - wr) % Size = Size - (nwr - p)
<1>1. Size \in Nat \ {0} /\ nwr \in Int /\ wr = nwr % Size
  BY SizeFacts, Types DEF Offsets
<1>2. p % Size \in 0 .. Size - 1
  BY <1>1, ModType, Zenon
<1>3. ASSUME p - nwr \in 0 .. Size - 1
      PROVE  ((p % Size) - wr) % Size = p - nwr
  BY <1>1, <1>3, ModMinus, Zenon
<1>4. ASSUME nwr - p \in 1 .. Size - 1
      PROVE  ((p % Size) - wr) % Size = Size - (nwr - p)
  <2> DEFINE d == Size - (nwr - p)
             c == p - d
  <2>1. d \in 0 .. Size - 1 /\ p - c = d /\ c \in Int /\ c = nwr - Size
    BY <1>1, <1>4
  <2>2. ((p % Size) - (c % Size)) % Size = d
    BY <1>1, <2>1, ModMinus, Zenon
  <2>3. c % Size = nwr % Size
    <3>1. PICK q \in Int : nwr = Size * q + (nwr % Size) /\ nwr % Size \in 0 .. Size - 1
      BY <1>1, DivMod
    <3>2. nwr - Size = Size * (q - 1) + (nwr % Size) /\ q - 1 \in Int
      BY <1>1, <3>1
    <3>3. nwr - Size \in Int
      BY <1>1
    <3>4. (nwr - Size) % Size = nwr % Size
      BY <1>1, <3>1, <3>2, <3>3, ModIs, Zenon
    <3> QED
      BY <2>1, <3>4
  <2> QED
    BY <1>1, <2>2, <2>3
<1> QED
  BY <1>2, <1>3, <1>4

\* The copy puts the pushed frames behind what is there, and nowhere else.
LEMMA PushCopyPreserves ==
  ASSUME IInv, PushCopy
  PROVE  IInv'
<1> USE DEF IInv
<1>0. /\ app.pc = "copy" /\ app' = [app EXCEPT !.pc = "update"]
      /\ buf' = [a \in Address |->
                   IF a < Size /\ (a - wr) % Size < app.size
                   THEN nwr + ((a - wr) % Size) ELSE buf[a]]
      /\ UNCHANGED <<wr, rd, live, sem, exit, worker, work, posts, nwr, nrd, told>>
  BY DEF PushCopy, At, AppGoes, ghosts
<1>1. /\ Size \in Nat \ {0} /\ Chunk \in Nat /\ nwr \in Nat /\ nrd \in Nat
      /\ wr \in 0 .. Size - 1 /\ rd \in 0 .. Size - 1
      /\ app.size \in 0 .. Size /\ nrd <= nwr
      /\ (nwr + app.size) - nrd <= Size - 1
  BY <1>0, SizeFacts, Types DEF Offsets, Pushing
<1>2. app'.pc = "update" /\ app'.size = app.size /\ app' \in [pc : AppPc, size : Nat]
  BY <1>0 DEF TypeOK, AppPc
<1>3. \A a \in Address : buf'[a] \in Nat \cup {Stale}
  <2> SUFFICES ASSUME NEW a \in Address PROVE buf'[a] \in Nat \cup {Stale}
    OBVIOUS
  <2>1. a - wr \in Int
    BY <1>1 DEF Address
  <2>2. (a - wr) % Size \in 0 .. Size - 1
    BY <1>1, <2>1, ModType, Zenon
  <2> DEFINE d == (a - wr) % Size
  <2>3. d \in Nat
    BY <1>1, <2>2
  <2>4. buf'[a] = IF a < Size /\ d < app.size THEN nwr + d ELSE buf[a]
    BY <1>0
  <2>5. buf[a] \in Nat \cup {Stale}
    BY Types
  <2> HIDE DEF d
  <2> QED
    BY <1>1, <2>3, <2>4, <2>5
<1>4. TypeOK' /\ app'.size \in 0 .. Size
  <2>1. buf' \in [Address -> Nat \cup {Stale}]
    BY <1>0, <1>3
  <2> QED
    BY <1>0, <1>1, <1>2, <2>1 DEF TypeOK
<1>5. Offsets' /\ Measured' /\ Closing' /\ FeedsTheStream'
  BY <1>0, <1>2 DEF Offsets, Pushing, Measured, InHand, Closing, FeedsTheStream
<1>6. \A p \in nrd .. nwr - 1 : buf'[p % Size] = p
  <2> SUFFICES ASSUME NEW p \in nrd .. nwr - 1 PROVE buf'[p % Size] = p
    OBVIOUS
  <2> DEFINE a == p % Size
             d == (a - wr) % Size
  <2>1. p \in Int /\ nwr - p \in 1 .. Size - 1 /\ nwr - p <= nwr - nrd
    BY <1>1
  <2>2. a \in 0 .. Size - 1 /\ d = Size - (nwr - p)
    BY <2>1, Distance
  <2>3. buf[a] = p
    BY DEF Content
  <2>4. a \in Address => buf'[a] = IF a < Size /\ d < app.size THEN nwr + d ELSE buf[a]
    BY <1>0
  <2> HIDE DEF a, d
  <2>5. a \in Address /\ ~(d < app.size)
    BY <1>1, <2>1, <2>2 DEF Address
  <2> QED
    BY <2>3, <2>4, <2>5 DEF a
<1>7. \A p \in nwr .. (nwr + app.size) - 1 : buf'[p % Size] = p
  <2> SUFFICES ASSUME NEW p \in nwr .. (nwr + app.size) - 1 PROVE buf'[p % Size] = p
    OBVIOUS
  <2> DEFINE a == p % Size
             d == (a - wr) % Size
  <2>1. p \in Int /\ p - nwr \in 0 .. Size - 1 /\ p - nwr < app.size
    BY <1>1
  <2>2. a \in 0 .. Size - 1 /\ d = p - nwr
    BY <2>1, Distance
  <2>3. a \in Address => buf'[a] = IF a < Size /\ d < app.size THEN nwr + d ELSE buf[a]
    BY <1>0
  <2> HIDE DEF a, d
  <2>4. a \in Address /\ a < Size /\ d < app.size /\ nwr + d = p
    BY <1>1, <2>1, <2>2 DEF Address
  <2> QED
    BY <2>3, <2>4 DEF a
<1>8. worker.pc = "extract" => \A a \in Size .. (rd + Chunk) - 1 : buf'[a] = nrd + (a - rd)
  <2> SUFFICES ASSUME worker.pc = "extract", NEW a \in Size .. (rd + Chunk) - 1
               PROVE  buf'[a] = nrd + (a - rd)
    OBVIOUS
  <2>1. a \in Address /\ ~(a < Size)
    BY <1>1 DEF Address
  <2>2. buf'[a] = buf[a]
    BY <1>0, <2>1
  <2> QED
    BY <2>2 DEF Content
<1>9. Content'
  BY <1>0, <1>2, <1>6, <1>7, <1>8 DEF Content
<1> QED
  BY <1>4, <1>5, <1>9

LEMMA PushUpdatePreserves ==
  ASSUME IInv, PushUpdate
  PROVE  IInv'
<1> USE DEF IInv
<1>0. /\ app.pc = "update" /\ app' = [app EXCEPT !.pc = "post"]
      /\ wr' = (wr + app.size) % Size /\ nwr' = nwr + app.size
      /\ UNCHANGED <<rd, buf, live, sem, exit, worker, work, posts, nrd, told>>
  BY DEF PushUpdate, At, AppGoes
<1>1. /\ Size \in Nat \ {0} /\ Chunk \in Nat /\ nwr \in Nat /\ nrd \in Nat
      /\ nwr \in Int /\ app.size \in Int
      /\ app.size \in 0 .. Size /\ nrd <= nwr
      /\ (nwr + app.size) - nrd <= Size - 1
  BY <1>0, SizeFacts, Types DEF Offsets, Pushing
<1>2. app'.pc = "post" /\ app'.size = app.size /\ app' \in [pc : AppPc, size : Nat]
  BY <1>0 DEF TypeOK, AppPc
<1>3. wr' = nwr' % Size
  <2>1. ((nwr % Size) + app.size) % Size = (nwr + app.size) % Size
    BY <1>1, ModPlus, Zenon
  <2> QED
    BY <1>0, <2>1 DEF Offsets
<1>4. wr' \in 0 .. Size - 1
  <2>1. nwr' \in Int
    BY <1>0, <1>1
  <2>2. nwr' % Size \in 0 .. Size - 1
    BY <1>1, <2>1, ModType, Zenon
  <2> QED
    BY <1>3, <2>2
<1>5. TypeOK' /\ app'.size \in 0 .. Size
  BY <1>0, <1>1, <1>2, <1>4 DEF TypeOK
<1>6. Offsets'
  BY <1>0, <1>1, <1>2, <1>3 DEF Offsets, Pushing
<1>7. Measured'
  <2> DEFINE m == (worker.chunks * Chunk) + InHand
  <2>1. m <= nwr - nrd /\ m \in Nat
    BY <1>1, Types DEF Measured, InHand
  <2>2. Measured' <=> m <= nwr' - nrd
    BY <1>0 DEF Measured, InHand
  <2> HIDE DEF m
  <2>3. m <= nwr' - nrd
    BY <1>0, <1>1, <2>1
  <2> QED
    BY <2>2, <2>3
<1>8. Content'
  <2>1. \A p \in nrd .. nwr' - 1 : buf[p % Size] = p
    BY <1>0, <1>1 DEF Content
  <2> QED
    BY <1>0, <1>2, <2>1 DEF Content
<1>9. Closing' /\ FeedsTheStream'
  BY <1>0, <1>2 DEF Closing, FeedsTheStream
<1> QED
  BY <1>5, <1>6, <1>7, <1>8, <1>9

\* The steps that leave the ring and the stream alone.
LEMMA PostPreserves ==
  ASSUME IInv, PushPost \/ EndFreeRun \/ Close \/ ClosePost \/ CloseJoin
  PROVE  IInv'
<1> USE DEF IInv
<1>0. /\ app.pc \in {"post", "idle", "close", "join"}
      /\ app'.pc \in {"idle", "close", "join", "closed"}
      /\ app'.pc = "closed" => live' = FALSE /\ worker.pc = "done"
      /\ app'.pc # "closed" => live' = live
      /\ app' \in [pc : AppPc, size : Nat] /\ app'.size \in 0 .. Size
      /\ sem' \in Nat /\ exit' \in BOOLEAN /\ posts' \in Nat /\ live' \in BOOLEAN
      /\ UNCHANGED <<wr, rd, buf, worker, work, nwr, nrd, told>>
  <2> USE DEF At, AppGoes, ring, ghosts, TypeOK, AppPc
  <2>1. CASE PushPost
    BY <2>1, SizeFacts DEF PushPost
  <2>2. CASE EndFreeRun
    BY <2>2 DEF EndFreeRun
  <2>3. CASE Close
    BY <2>3 DEF Close
  <2>4. CASE ClosePost
    BY <2>4 DEF ClosePost
  <2>5. CASE CloseJoin
    BY <2>5 DEF CloseJoin
  <2> QED
    BY <2>1, <2>2, <2>3, <2>4, <2>5
<1>1. TypeOK' /\ app'.size \in 0 .. Size
  BY <1>0 DEF TypeOK
<1>2. Offsets'
  BY <1>0 DEF Offsets, Pushing
<1>3. Measured' /\ Content' /\ FeedsTheStream'
  BY <1>0 DEF Measured, InHand, Content, FeedsTheStream
<1>4. Closing'
  BY <1>0 DEF Closing
<1> QED
  BY <1>1, <1>2, <1>3, <1>4

-----------------------------------------------------------------------------
(***************************************************************************)
(* The worker's steps.                                                     *)
(***************************************************************************)

LEMMA TestWaitPreserves ==
  ASSUME IInv, Test \/ Wait
  PROVE  IInv'
<1> USE DEF IInv
<1>0. /\ worker.pc \in {"test", "wait"}
      /\ worker'.pc \in {"done", "wait", "measure"} /\ worker'.chunks = worker.chunks
      /\ worker' \in [pc : WorkerPc, chunks : Nat]
      /\ sem' \in Nat
      /\ UNCHANGED <<wr, rd, buf, live, exit, app, work, posts, nwr, nrd, told>>
  <2> USE DEF WorkerGoes, ring, ghosts, TypeOK, WorkerPc
  <2>1. CASE Test
    BY <2>1 DEF Test
  <2>2. CASE Wait
    BY <2>2 DEF Wait
  <2> QED
    BY <2>1, <2>2
<1>1. TypeOK'
  BY <1>0 DEF TypeOK
<1>2. Offsets' /\ Measured' /\ Content' /\ FeedsTheStream'
  BY <1>0 DEF Offsets, Pushing, Measured, InHand, Content, FeedsTheStream
<1>3. Closing'
  BY <1>0 DEF Closing
<1> QED
  BY <1>0, <1>1, <1>2, <1>3

\* numOfChunk whole chunks lie in the ring.
LEMMA MeasurePreserves ==
  ASSUME IInv, Measure
  PROVE  IInv'
<1> USE DEF IInv
<1> DEFINE k == Fullness \div Chunk
<1>0. /\ worker.pc = "measure" /\ worker' = [pc |-> "loop", chunks |-> k]
      /\ UNCHANGED <<wr, rd, buf, live, sem, exit, app, work, posts, nwr, nrd, told>>
  BY DEF Measure, ring, ghosts
<1>1. nwr - nrd \in 0 .. Size - 1 /\ Fullness = nwr - nrd
  BY Measures
<1>2. Fullness \in Nat /\ Chunk \in Nat \ {0}
  BY <1>1, SizeFacts
<1>3. k \in Nat /\ k * Chunk <= Fullness
  BY <1>2
<1> HIDE DEF k
<1>4. TypeOK'
  BY <1>0, <1>3 DEF TypeOK, WorkerPc
<1>5. Measured'
  BY <1>0, <1>1, <1>2, <1>3 DEF Measured, InHand
<1>6. Offsets' /\ Content' /\ FeedsTheStream' /\ Closing'
  BY <1>0 DEF Offsets, Pushing, Content, FeedsTheStream, Closing
<1> QED
  BY <1>0, <1>4, <1>5, <1>6

LEMMA OneChunkLess ==
  ASSUME NEW k \in Nat, k # 0
  PROVE  /\ k - 1 \in Nat
         /\ ((k - 1) * Chunk) + Chunk = k * Chunk
         /\ Chunk <= k * Chunk
BY SizeFacts

\* What has wrapped of the next chunk is in the ring, and is copied behind it.
LEMMA LoopPreserves ==
  ASSUME IInv, Loop
  PROVE  IInv'
<1> USE DEF IInv
<1>0. /\ worker.pc = "loop"
      /\ UNCHANGED <<wr, rd, live, sem, exit, app, work, posts, nwr, nrd, told>>
  BY DEF Loop, ghosts
<1>1. CASE worker.chunks = 0
  <2>1. buf' = buf /\ worker' = [worker EXCEPT !.pc = "test"]
    BY <1>1 DEF Loop, WorkerGoes
  <2>2. /\ worker'.pc = "test" /\ worker'.chunks = worker.chunks
        /\ worker' \in [pc : WorkerPc, chunks : Nat]
    BY <2>1 DEF TypeOK, WorkerPc
  <2>3. TypeOK'
    BY <1>0, <2>1, <2>2 DEF TypeOK
  <2> QED
    BY <1>0, <2>1, <2>2, <2>3
       DEF Offsets, Pushing, Measured, InHand, Content, FeedsTheStream, Closing
<1>2. CASE worker.chunks # 0
  <2> DEFINE k == worker.chunks
  <2>1. /\ worker' = [pc |-> "extract", chunks |-> k - 1]
        /\ buf' = [a \in Address |->
                     IF a \in Size .. (rd + Chunk) - 1 THEN buf[a - Size] ELSE buf[a]]
    BY <1>2 DEF Loop
  <2>2. /\ k - 1 \in Nat /\ ((k - 1) * Chunk) + Chunk = k * Chunk
        /\ Chunk <= k * Chunk
    BY <1>2, Types, OneChunkLess
  <2>3. k * Chunk <= nwr - nrd
    <3>1. (k * Chunk) + 0 <= nwr - nrd
      BY <1>0 DEF Measured, InHand
    <3>2. k * Chunk \in Int
      BY SizeFacts, Types
    <3> QED
      BY <3>1, <3>2
  <2>4. Chunk <= nwr - nrd
    <3>1. k * Chunk \in Int /\ Chunk \in Int /\ nwr - nrd \in Int
      BY SizeFacts, Types
    <3> QED
      BY <2>2, <2>3, <3>1
  <2>5. Measured'
    BY <1>0, <2>1, <2>2, <2>3 DEF Measured, InHand
  <2>6. /\ Size \in Nat \ {0} /\ Chunk \in Nat \ {0} /\ Chunk < Size
        /\ rd \in 0 .. Size - 1 /\ nwr \in Nat /\ nrd \in Nat
    BY SizeFacts, Types
  <2>7. \A a \in Address : buf'[a] \in Nat \cup {Stale}
    <3> SUFFICES ASSUME NEW a \in Address PROVE buf'[a] \in Nat \cup {Stale}
      OBVIOUS
    <3>1. a \in Size .. (rd + Chunk) - 1 => a - Size \in Address
      BY <2>6 DEF Address
    <3> QED
      BY <2>1, <3>1, Types
  <2>8. TypeOK'
    <3>1. buf' \in [Address -> Nat \cup {Stale}]
      BY <2>1, <2>7
    <3>2. worker' \in [pc : WorkerPc, chunks : Nat]
      BY <2>1, <2>2 DEF WorkerPc
    <3> QED
      BY <1>0, <3>1, <3>2 DEF TypeOK
  <2>9. \A a \in 0 .. Size - 1 : buf'[a] = buf[a]
    <3> SUFFICES ASSUME NEW a \in 0 .. Size - 1 PROVE buf'[a] = buf[a]
      OBVIOUS
    <3>1. a \in Address /\ a \notin Size .. (rd + Chunk) - 1
      BY <2>6 DEF Address
    <3> QED
      BY <2>1, <3>1
  <2>10. \A a \in Size .. (rd + Chunk) - 1 : buf'[a] = nrd + (a - rd)
    <3> SUFFICES ASSUME NEW a \in Size .. (rd + Chunk) - 1
                 PROVE  buf'[a] = nrd + (a - rd)
      OBVIOUS
    <3> DEFINE j == a - rd
               q == nrd + j
    <3>1. /\ a \in Address /\ a \in Size .. (2 * Size) - 1
          /\ j \in Int /\ rd + j = a /\ q \in nrd .. nwr - 1 /\ nrd \in Int
      BY <2>4, <2>6 DEF Address
    <3>2. ((nrd % Size) + j) % Size = q % Size
      BY <2>6, <3>1, ModPlus, Zenon
    <3>3. rd = nrd % Size
      BY DEF Offsets
    <3>4. a % Size = q % Size
      BY <3>1, <3>2, <3>3
    <3>5. a % Size = a - Size
      BY <2>6, <3>1, ModWrap, Zenon
    <3>6. buf[q % Size] = q
      BY <3>1 DEF Content
    <3> HIDE DEF j, q
    <3>7. buf'[a] = buf[a - Size]
      BY <2>1, <3>1
    <3>8. buf'[a] = q
      BY <3>4, <3>5, <3>6, <3>7
    <3> QED
      BY <3>8 DEF q, j
  <2>11. \A p \in Int : buf'[p % Size] = buf[p % Size]
    <3> SUFFICES ASSUME NEW p \in Int PROVE buf'[p % Size] = buf[p % Size]
      OBVIOUS
    <3>1. p % Size \in 0 .. Size - 1
      BY <2>6, ModType, Zenon
    <3> QED
      BY <2>9, <3>1, Zenon
  <2>12. Content'
    <3>1. \A p \in nrd .. nwr - 1 : buf'[p % Size] = p
      BY <2>6, <2>11 DEF Content
    <3>2. app.pc = "update" => \A p \in nwr .. (nwr + app.size) - 1 : buf'[p % Size] = p
      <4> SUFFICES ASSUME app.pc = "update", NEW p \in nwr .. (nwr + app.size) - 1
                   PROVE  buf'[p % Size] = p
        OBVIOUS
      <4>1. p \in Int /\ buf[p % Size] = p
        BY <2>6, Types DEF Content
      <4> QED
        BY <2>11, <4>1, Zenon
    <3> QED
      BY <1>0, <2>10, <3>1, <3>2 DEF Content
  <2>13. Offsets' /\ FeedsTheStream' /\ Closing'
    BY <1>0, <2>1 DEF Offsets, Pushing, FeedsTheStream, Closing
  <2> QED
    BY <1>0, <2>5, <2>8, <2>12, <2>13
<1> QED
  BY <1>1, <1>2

\* The extracted chunk is the stream: in the ring, or behind its end.
LEMMA ExtractPreserves ==
  ASSUME IInv, Extract
  PROVE  IInv'
<1> USE DEF IInv
<1>0. /\ worker.pc = "extract" /\ worker' = [worker EXCEPT !.pc = "process"]
      /\ work' = [i \in 1 .. Chunk |-> buf[rd + i - 1]]
      /\ UNCHANGED <<wr, rd, buf, live, sem, exit, app, posts, nwr, nrd, told>>
  BY DEF Extract, aml_ch_extract_s16le, WorkerGoes, ring, ghosts
<1>1. /\ worker'.pc = "process" /\ worker'.chunks = worker.chunks
      /\ worker' \in [pc : WorkerPc, chunks : Nat]
  BY <1>0 DEF TypeOK, WorkerPc
<1>2. /\ Size \in Nat \ {0} /\ Chunk \in Nat \ {0} /\ Chunk < Size
      /\ rd \in 0 .. Size - 1 /\ nwr \in Nat /\ nrd \in Nat
  BY SizeFacts, Types
<1>3. Chunk <= nwr - nrd
  <2> DEFINE m == worker.chunks * Chunk
  <2>1. m + Chunk <= nwr - nrd
    BY <1>0 DEF Measured, InHand
  <2>2. m \in Nat
    BY <1>2, Types
  <2> HIDE DEF m
  <2> QED
    BY <1>2, <2>1, <2>2
<1>4. \A i \in 1 .. Chunk : /\ rd + i - 1 \in Address
                            /\ buf[rd + i - 1] = nrd + i - 1
  <2> SUFFICES ASSUME NEW i \in 1 .. Chunk
               PROVE  rd + i - 1 \in Address /\ buf[rd + i - 1] = nrd + i - 1
    OBVIOUS
  <2> DEFINE a == rd + i - 1
             j == i - 1
             q == nrd + i - 1
  <2>1. a \in Address /\ a - rd = j /\ q \in nrd .. nwr - 1 /\ j \in Int
    BY <1>2, <1>3 DEF Address
  <2>2. CASE a \in Size .. (rd + Chunk) - 1
    <3>1. buf[a] = nrd + (a - rd)
      BY <1>0, <2>2 DEF Content
    <3> QED
      BY <1>2, <2>1, <3>1
  <2>3. CASE a \in 0 .. Size - 1
    <3>1. nrd \in Int /\ nrd + j = q /\ rd + j = a
      BY <1>2
    <3>2. ((nrd % Size) + j) % Size = (nrd + j) % Size
      BY <1>2, <2>1, <3>1, ModPlus, Zenon
    <3>3. rd = nrd % Size
      BY DEF Offsets
    <3>4. a % Size = a
      BY <1>2, <2>3, ModSmall, Zenon
    <3> HIDE DEF a, j, q
    <3>5. q % Size = a
      BY <3>1, <3>2, <3>3, <3>4
    <3>6. buf[q % Size] = q
      BY <2>1 DEF Content
    <3> QED
      BY <2>1, <3>5, <3>6 DEF a, q
  <2>4. a \in 0 .. Size - 1 \/ a \in Size .. (rd + Chunk) - 1
    BY <1>2
  <2> QED
    BY <2>1, <2>2, <2>3, <2>4
<1>5. work' = [i \in 1 .. Chunk |-> nrd + i - 1]
  BY <1>0, <1>4
<1>6. work' \in Seq(Nat \cup {Stale})
  <2>1. \A i \in 1 .. Chunk : nrd + i - 1 \in Nat \cup {Stale}
    BY <1>2
  <2> QED
    BY <1>2, <1>5, <2>1
<1>7. TypeOK'
  BY <1>0, <1>1, <1>6 DEF TypeOK
<1>8. FeedsTheStream'
  BY <1>0, <1>5 DEF FeedsTheStream
<1>9. Offsets' /\ Measured' /\ Content' /\ Closing'
  BY <1>0, <1>1 DEF Offsets, Pushing, Measured, InHand, Content, Closing
<1> QED
  BY <1>0, <1>7, <1>8, <1>9

\* The DSP takes no more than the chunk in the worker's hands.
LEMMA ProcessPreserves ==
  ASSUME IInv, NEW t \in Takes, Process(t)
  PROVE  IInv'
<1> USE DEF IInv
<1>0. /\ worker.pc = "process" /\ worker' = [worker EXCEPT !.pc = "loop"]
      /\ rd' = (rd + t) % Size /\ nrd' = nrd + t /\ told' = told + 1
      /\ UNCHANGED <<wr, buf, live, sem, exit, app, work, posts, nwr>>
  BY DEF Process, WorkerGoes
<1>1. /\ worker'.pc = "loop" /\ worker'.chunks = worker.chunks
      /\ worker' \in [pc : WorkerPc, chunks : Nat]
  BY <1>0 DEF TypeOK, WorkerPc
<1>2. /\ Size \in Nat \ {0} /\ Chunk \in Nat \ {0}
      /\ nwr \in Nat /\ nrd \in Nat /\ nrd \in Int
      /\ t \in 0 .. Chunk /\ t \in Int /\ Pushing \in Nat
  BY SizeFacts, Types, AweInputAssumption DEF Pushing
<1> DEFINE m == worker.chunks * Chunk
<1>3. m \in Nat /\ m + Chunk <= nwr - nrd
  BY <1>0, <1>2, Types DEF Measured, InHand
<1>4. Measured' <=> m + 0 <= nwr - nrd'
  BY <1>0, <1>1 DEF Measured, InHand
<1> HIDE DEF m
<1>5. Measured'
  BY <1>0, <1>2, <1>3, <1>4
<1>6. rd' = nrd' % Size
  <2>1. ((nrd % Size) + t) % Size = (nrd + t) % Size
    BY <1>2, ModPlus, Zenon
  <2> QED
    BY <1>0, <2>1 DEF Offsets
<1>7. rd' \in 0 .. Size - 1 /\ nrd' \in Nat /\ told' \in Nat
  <2>1. nrd' \in Int /\ nrd' \in Nat
    BY <1>0, <1>2
  <2>2. nrd' % Size \in 0 .. Size - 1
    BY <1>2, <2>1, ModType, Zenon
  <2>3. told' \in Nat
    BY <1>0, Types
  <2> QED
    BY <1>6, <2>1, <2>2, <2>3
<1>8. TypeOK'
  BY <1>0, <1>1, <1>7 DEF TypeOK
<1>9. Offsets'
  <2>1. nrd' <= nwr /\ (nwr + Pushing) - nrd' <= Size - 1
    BY <1>0, <1>2, <1>3 DEF Offsets
  <2>2. Pushing' = Pushing
    BY <1>0 DEF Pushing
  <2> QED
    BY <1>0, <1>6, <2>1, <2>2 DEF Offsets
<1>10. Content'
  <2>1. \A p \in nrd' .. nwr - 1 : buf[p % Size] = p
    BY <1>0, <1>2 DEF Content
  <2> QED
    BY <1>0, <1>1, <2>1 DEF Content
<1>11. FeedsTheStream' /\ Closing'
  BY <1>0, <1>1 DEF FeedsTheStream, Closing
<1> QED
  BY <1>0, <1>5, <1>8, <1>9, <1>10, <1>11

LEMMA StutterPreserves ==
  ASSUME IInv, UNCHANGED vars
  PROVE  IInv'
BY DEF IInv, TypeOK, Offsets, Pushing, Measured, InHand, Content, Closing,
       FeedsTheStream, vars

-----------------------------------------------------------------------------
(***************************************************************************)
(* Theorems of the specification.                                          *)
(***************************************************************************)

\* The inductive invariant of the wake engine's input ring.
THEOREM AweInputInvariant ==
  ASSUME ShortPushes
  PROVE  Spec => []IInv
<1>1. IInv /\ [Next]_vars => IInv'
  <2> SUFFICES ASSUME IInv, [Next]_vars PROVE IInv'
    OBVIOUS
  <2>1. CASE \E n \in Pushes : PushBuf(n)
    BY <2>1, PushBufPreserves
  <2>2. CASE PushCopy
    BY <2>2, PushCopyPreserves
  <2>3. CASE PushUpdate
    BY <2>3, PushUpdatePreserves
  <2>4. CASE PushPost \/ EndFreeRun \/ Close \/ ClosePost \/ CloseJoin
    BY <2>4, PostPreserves
  <2>5. CASE Test \/ Wait
    BY <2>5, TestWaitPreserves
  <2>6. CASE Measure
    BY <2>6, MeasurePreserves
  <2>7. CASE Loop
    BY <2>7, LoopPreserves
  <2>8. CASE Extract
    BY <2>8, ExtractPreserves
  <2>9. CASE \E t \in internal_aml_awe_process(Chunk) : Process(t)
    BY <2>9, ProcessPreserves DEF internal_aml_awe_process
  <2>10. CASE UNCHANGED vars
    BY <2>10, StutterPreserves
  <2> QED
    BY <2>1, <2>2, <2>3, <2>4, <2>5, <2>6, <2>7, <2>8, <2>9, <2>10
       DEF Next, AppGoesOn, WorkerStep
<1> QED
  BY InitInv, <1>1, PTL DEF Spec

\* The offsets, the ring and the two threads keep their types.
THEOREM AweInputTypeOK ==
  ASSUME ShortPushes
  PROVE  Spec => []TypeOK
<1>1. IInv => TypeOK
  BY DEF IInv
<1> QED
  BY <1>1, AweInputInvariant, PTL

\* Every chunk AML_VSP_Process is given is the stream AML_AWE_PushBuf took,
\* for every ring and chunk length and whatever the DSP leaves.
THEOREM AweInputFeedsTheStream ==
  ASSUME ShortPushes
  PROVE  Spec => []FeedsTheStream
<1>1. IInv => FeedsTheStream
  BY DEF IInv
<1> QED
  BY <1>1, AweInputInvariant, PTL

\* No push overruns the frames not taken, and the worker takes none that is
\* not pushed: aml_awe_ring_buf_fullness is the true distance.
THEOREM AweInputNoOverrun ==
  ASSUME ShortPushes
  PROVE  Spec => []NoOverrun
<1>1. IInv => NoOverrun
  <2> SUFFICES ASSUME IInv PROVE NoOverrun
    OBVIOUS
  <2>1. nwr - nrd \in 0 .. Size - 1 /\ Fullness = nwr - nrd
    BY Measures DEF IInv
  <2> DEFINE m == worker.chunks * Chunk
  <2>2. m + InHand <= nwr - nrd /\ m \in Nat /\ InHand \in Nat
    BY SizeFacts, Types DEF IInv, Measured, InHand
  <2>3. nrd <= nwr /\ nwr \in Nat /\ nrd \in Nat
    BY Types DEF IInv, Offsets
  <2> HIDE DEF m
  <2>4. m <= nwr - nrd
    BY <2>2, <2>3
  <2> QED
    BY <2>1, <2>3, <2>4 DEF NoOverrun, m
<1> QED
  BY <1>1, AweInputInvariant, PTL

\* AML_AWE_Close never frees the ring under the worker.
THEOREM AweInputLiveRing ==
  ASSUME ShortPushes
  PROVE  Spec => []WorkerSeesLiveRing
<1>1. IInv => WorkerSeesLiveRing
  BY DEF IInv, Closing, WorkerSeesLiveRing
<1> QED
  BY <1>1, AweInputInvariant, PTL
=============================================================================
