------------------------------ MODULE SharedProofs ------------------------------
(***************************************************************************)
(* Theorems about the two components whose threads share what was opened   *)
(* once: the bridge's lines (AudioBridge), for any lines, frames, periods  *)
(* and rings, and the pool's devices (ShmPool), for any number of threads, *)
(* blocks and calls.                                                       *)
(*                                                                         *)
(* Lifetime (AudioBridge): which of a line's ring and threads there are    *)
(*           together.                                                     *)
(* Whole:    the ring holds the beginning of a run of whole frames.        *)
(* Holder (ShmPool): the thread in the initialisation is the one with the  *)
(*           mutex.                                                        *)
(* Stages:   what is set at each stage of it, and at none.                 *)
(* Shape:    what each operation knows of its handle at each place.        *)
(* Accounts: where the blocks are, while no request has failed.            *)
(***************************************************************************)
EXTENDS AudioBridge, ShmPool, ModularArithmetic, SequenceTheorems, TLAPS

Lifetime ==
  /\ main \in {"create", "report", "loop"} => \A l \in Line : rbuf[l] # "freed"
  /\ \A l \in Line :
       /\ rbuf[l] = "null" => capture[l] = "none" /\ playback[l] = "none"
       /\ rbuf[l] = "freed" =>
            capture[l] \in {"none", "ended"} /\ playback[l] \in {"none", "ended"}

Whole(content) == \E k \in 0 .. Capacity : k % Frame = 0 /\ content = Captured(k)

Others ==
  /\ running \in BOOLEAN /\ crashed \in BOOLEAN
  /\ main \in {"create", "report", "loop", "destroy", "done"}
  /\ at \in DOMAIN Lines
  /\ rbuf \in [Line -> {"null", "live", "freed"}]
  /\ capture \in [Line -> {"none", "open", "test", "read", "close", "ended"}]
  /\ playback \in [Line -> {"none", "open", "test", "write", "refill", "close", "ended"}]
  /\ unopened \subseteq Thread
  /\ overrun \subseteq AlsaSource

Rings ==
  /\ DOMAIN ring = Line
  /\ ring = [l \in Line |-> ring[l]]
  /\ \A l \in Line : Whole(ring[l])

IInv == Others /\ Lifetime /\ Rings

-----------------------------------------------------------------------------

\* What is assumed of the sizes, one by one.
LEMMA Sizes ==
  /\ Frame \in Nat \ {0} /\ Frame \in Int
  /\ Capacity \in Nat /\ Capacity % Frame = 0
  /\ Period \in Nat /\ Period % Frame = 0
  /\ \A n \in Reads : n \in Nat /\ n % Frame = 0
<1>1. \A n \in {Period, Capacity} \cup Reads : n \in Nat \ {0} /\ n % Frame = 0
  BY AudioBridgeAssumption
<1>2. Frame \in Nat \ {0} /\ Frame \in Int
  BY AudioBridgeAssumption
<1> QED
  BY <1>1, <1>2

\* What a device yields is a sequence of places in a frame.
LEMMA CapturedSeq ==
  ASSUME NEW k \in Nat
  PROVE  /\ Captured(k) \in Seq(0 .. Frame - 1)
         /\ Len(Captured(k)) = k
         /\ \A i \in 1 .. k : Captured(k)[i] = (i - 1) % Frame
<1>1. ASSUME NEW i \in 1 .. k PROVE (i - 1) % Frame \in 0 .. Frame - 1
  <2>1. i - 1 \in Int
    OBVIOUS
  <2> QED
    BY <2>1, Sizes, ModType, Zenon
<1>2. Captured(k) \in [1 .. k -> 0 .. Frame - 1]
  BY <1>1 DEF Captured
<1>3. Captured(k) \in Seq(0 .. Frame - 1)
  BY <1>2, SeqDef
<1>4. Len(Captured(k)) = k
  BY <1>2, <1>3, LenProperties
<1> QED
  BY <1>3, <1>4 DEF Captured

\* After whole frames the places start over.
LEMMA FramesStartOver ==
  ASSUME NEW k \in Nat, k % Frame = 0, NEW i \in Nat
  PROVE  (k + i) % Frame = i % Frame
<1>1. k \in Int /\ i \in Int /\ 0 + i = i
  OBVIOUS
<1>2. ((k % Frame) + i) % Frame = (k + i) % Frame
  BY <1>1, Sizes, ModPlus, Zenon
<1> QED
  BY <1>1, <1>2

\* Whole frames less whole frames are whole frames.
LEMMA FramesLess ==
  ASSUME NEW k \in Nat, NEW n \in Nat, k % Frame = 0, n % Frame = 0
  PROVE  (k - n) % Frame = 0
<1>1. k \in Int /\ n \in Int /\ k - 0 = k
  OBVIOUS
<1>2. (k - (n % Frame)) % Frame = (k - n) % Frame
  BY <1>1, Sizes, ModMinusReduced, Zenon
<1> QED
  BY <1>1, <1>2

\* rb_write of whole frames, cut off where the ring is full, keeps the ring
\* whole.
LEMMA WrittenWhole ==
  ASSUME NEW content, Whole(content), NEW n \in Nat, n % Frame = 0
  PROVE  Whole(Written(content, Captured(n)))
<1>1. PICK k \in 0 .. Capacity : k % Frame = 0 /\ content = Captured(k)
  BY DEF Whole
<1> DEFINE m == IF n < Capacity - k THEN n ELSE Capacity - k
           part == SubSeq(Captured(n), 1, m)
<1>2. /\ Capacity \in Nat /\ k \in Nat
      /\ m \in Nat /\ m <= n /\ k + m \in 0 .. Capacity
  BY Sizes
<1>3. m % Frame = 0
  <2>1. (Capacity - k) % Frame = 0
    BY <1>1, <1>2, Sizes, FramesLess
  <2> QED
    BY <2>1
<1>4. (k + m) % Frame = 0
  BY <1>1, <1>2, <1>3, FramesStartOver, Zenon
<1>5. Len(Captured(n)) = n /\ Len(content) = k
  BY <1>1, <1>2, CapturedSeq
<1>6. Written(content, Captured(n)) = content \o part
  BY <1>5 DEF Written
<1>7. \A i \in 1 .. m : Captured(n)[i] \in 0 .. Frame - 1 /\ Captured(n)[i] = (i - 1) % Frame
  <2> HIDE DEF m
  <2>1. TAKE i \in 1 .. m
  <2>2. i \in 1 .. n /\ i - 1 \in Int
    BY <1>2
  <2>3. Captured(n)[i] = (i - 1) % Frame
    BY <2>2, CapturedSeq
  <2> QED
    BY <2>2, <2>3, Sizes, ModType, Zenon
<1>8. /\ part \in Seq(0 .. Frame - 1)
      /\ Len(part) = m
      /\ \A i \in 1 .. m : part[i] = (i - 1) % Frame
  <2> HIDE DEF m
  <2>1. /\ part \in Seq(0 .. Frame - 1)
        /\ Len(part) = IF 1 <= m THEN m - 1 + 1 ELSE 0
        /\ \A i \in 1 .. m - 1 + 1 : part[i] = Captured(n)[1 + i - 1]
    BY <1>2, <1>7, SubSeqProperties
  <2>2. \A i \in 1 .. m : 1 + i - 1 = i /\ i \in 1 .. m - 1 + 1
    BY <1>2
  <2> QED
    BY <1>2, <1>7, <2>1, <2>2
<1> HIDE DEF m, part
<1>9. content \in Seq(0 .. Frame - 1) /\ \A i \in 1 .. k : content[i] = (i - 1) % Frame
  BY <1>1, <1>2, CapturedSeq
<1>10. /\ content \o part \in Seq(0 .. Frame - 1)
       /\ Len(content \o part) = k + m
       /\ \A i \in 1 .. k + m :
            (content \o part)[i] = IF i <= k THEN content[i] ELSE part[i - k]
  <2>1. /\ content \o part \in Seq(0 .. Frame - 1)
        /\ Len(content \o part) = Len(content) + Len(part)
        /\ \A i \in 1 .. Len(content) + Len(part) :
             (content \o part)[i] = IF i <= Len(content) THEN content[i]
                                    ELSE part[i - Len(content)]
    BY <1>8, <1>9, ConcatProperties, Zenon
  <2> QED
    BY <1>5, <1>8, <2>1, Zenon
<1>11. ASSUME NEW i \in 1 .. k + m
       PROVE  (content \o part)[i] = (i - 1) % Frame
  <2>1. CASE i <= k
    BY <1>2, <1>9, <1>10, <2>1
  <2>2. CASE i > k
    <3>1. i - k \in 1 .. m /\ (i - k) - 1 \in Nat /\ k + ((i - k) - 1) = i - 1
      BY <1>2, <2>2
    <3>2. (k + ((i - k) - 1)) % Frame = ((i - k) - 1) % Frame
      BY <1>1, <1>2, <3>1, FramesStartOver
    <3>3. (content \o part)[i] = part[i - k]
      BY <1>2, <1>10, <2>2
    <3>4. part[i - k] = ((i - k) - 1) % Frame
      BY <1>8, <3>1, Zenon
    <3> QED
      BY <3>1, <3>2, <3>3, <3>4
  <2>3. i <= k \/ i > k
    BY <1>2
  <2> QED
    BY <2>1, <2>2, <2>3, Zenon
<1>12. content \o part = Captured(k + m)
  <2>1. /\ Captured(k + m) \in Seq(0 .. Frame - 1)
        /\ Len(Captured(k + m)) = k + m
        /\ \A i \in 1 .. k + m : Captured(k + m)[i] = (i - 1) % Frame
    BY <1>2, CapturedSeq
  <2> QED
    BY <1>10, <1>11, <2>1, SeqEqual, Zenon
<1> QED
  BY <1>2, <1>4, <1>6, <1>12 DEF Whole

\* So does rb_read of whole frames.
LEMMA TakenWhole ==
  ASSUME NEW content, Whole(content), NEW n \in Nat, n <= Len(content), n % Frame = 0
  PROVE  Whole(SubSeq(content, n + 1, Len(content)))
<1>1. PICK k \in 0 .. Capacity : k % Frame = 0 /\ content = Captured(k)
  BY DEF Whole
<1> DEFINE rest == SubSeq(content, n + 1, k)
<1>2. k \in Nat /\ Capacity \in Nat
  BY Sizes
<1>3. /\ content \in Seq(0 .. Frame - 1) /\ Len(content) = k
      /\ \A i \in 1 .. k : content[i] = (i - 1) % Frame
  BY <1>1, <1>2, CapturedSeq
<1>4. k - n \in 0 .. Capacity /\ (k - n) % Frame = 0
  BY <1>1, <1>2, <1>3, FramesLess
<1>5. \A i \in n + 1 .. k : content[i] \in 0 .. Frame - 1
  <2>1. TAKE i \in n + 1 .. k
  <2>2. i \in 1 .. Len(content)
    BY <1>2, <1>3
  <2> QED
    BY <1>3, <2>2, ElementOfSeq, Zenon
<1>6. /\ rest \in Seq(0 .. Frame - 1)
      /\ Len(rest) = IF n + 1 <= k THEN k - (n + 1) + 1 ELSE 0
      /\ \A i \in 1 .. k - (n + 1) + 1 : rest[i] = content[(n + 1) + i - 1]
  BY <1>2, <1>5, SubSeqProperties
<1>7. Len(rest) = k - n
  BY <1>2, <1>3, <1>6
<1>8. ASSUME NEW i \in 1 .. k - n
      PROVE  rest[i] = (i - 1) % Frame
  <2>1. /\ i \in 1 .. k - (n + 1) + 1 /\ (n + 1) + i - 1 = n + i
        /\ n + i \in 1 .. k /\ (n + i) - 1 = n + (i - 1) /\ i - 1 \in Nat
    BY <1>2, <1>3
  <2>2. rest[i] = content[n + i]
    BY <1>6, <2>1
  <2>3. content[n + i] = (n + (i - 1)) % Frame
    BY <1>3, <2>1
  <2> QED
    BY <2>1, <2>2, <2>3, FramesStartOver
<1> HIDE DEF rest
<1>9. rest = Captured(k - n)
  BY <1>4, <1>6, <1>7, <1>8, CapturedSeq, SeqEqual
<1> QED
  BY <1>3, <1>4, <1>9 DEF Whole, rest
-----------------------------------------------------------------------------

\* Nothing is created, and no ring holds a byte.
LEMMA InitInv == Init => IInv
<1> SUFFICES ASSUME Init PROVE IInv
  OBVIOUS
<1>1. Others
  <2>1. 1 \in DOMAIN Lines
    BY AudioBridgeAssumption
  <2> QED
    BY <2>1 DEF Init, Others
<1>2. Lifetime
  BY DEF Init, Lifetime
<1>3. Whole(<< >>)
  <2>1. 0 \in 0 .. Capacity /\ 0 % Frame = 0
    BY Sizes
  <2>2. Captured(0) = << >>
    BY DEF Captured
  <2> QED
    BY <2>1, <2>2 DEF Whole
<1>4. Rings
  BY <1>3 DEF Init, Rings
<1> QED
  BY <1>1, <1>2, <1>4 DEF IInv

\* The types, but for the rings.
LEMMA OthersStep == Others /\ [Next]_vars => Others'
<1> SUFFICES ASSUME Others, [Next]_vars PROVE Others'
  OBVIOUS
<1>1. CASE UNCHANGED vars
  BY <1>1 DEF Others, vars
<1>2. Lines[at] \in Line /\ Len(Lines) \in Nat /\ DOMAIN Lines = 1 .. Len(Lines)
  BY AudioBridgeAssumption DEF Others, Line
<1>3. CASE Create
  <2> DEFINE l == Lines[at]
  <2>1. at' \in DOMAIN Lines /\ main' \in {"create", "report"}
    BY <1>2, <1>3 DEF Others, Create, MainGoesOn
  <2>2. /\ rbuf' = rbuf \/ rbuf' = [rbuf EXCEPT ![l] = "live"]
        /\ capture' = capture \/ capture' = [capture EXCEPT ![l] = "open"]
        /\ playback' = playback \/ playback' = [playback EXCEPT ![l] = "open"]
        /\ running' \in {running, FALSE}
        /\ UNCHANGED <<crashed, unopened, overrun>>
    BY <1>3 DEF Create
  <2>3. l \in Line
    BY <1>2
  <2> HIDE DEF l
  <2>4. rbuf' \in [Line -> {"null", "live", "freed"}]
    BY <2>2, <2>3 DEF Others
  <2>5. capture' \in [Line -> {"none", "open", "test", "read", "close", "ended"}]
    BY <2>2, <2>3 DEF Others
  <2>6. playback' \in [Line -> {"none", "open", "test", "write", "refill", "close", "ended"}]
    BY <2>2, <2>3 DEF Others
  <2>7. running' \in BOOLEAN /\ crashed' \in BOOLEAN
    BY <2>2 DEF Others
  <2> QED
    BY <2>1, <2>2, <2>4, <2>5, <2>6, <2>7 DEF Others
<1>4. CASE Report
  BY <1>4 DEF Others, Report
<1>5. CASE Stop \/ LoopEnds \/ JoinOfNothing
  BY <1>5 DEF Others, Stop, LoopEnds, JoinOfNothing
<1>6. CASE Destroy
  BY <1>2, <1>6 DEF Others, Destroy, rb_deinit, MainGoesOn
<1>7. ASSUME NEW l \in Line, OpenCapture(l) \/ OpenPlayback(l) PROVE Others'
  <2>1. /\ running' \in {running, FALSE}
        /\ unopened' \subseteq unopened \cup Thread
        /\ UNCHANGED <<main, at, rbuf, overrun>>
    <3>1. \E kind \in {"capture", "playback"} : <<kind, l>> \in Thread /\
            \/ UNCHANGED <<running, unopened>>
            \/ running' = FALSE /\ UNCHANGED unopened
            \/ running' = FALSE /\ unopened' = unopened \cup {<<kind, l>>}
      BY <1>7 DEF OpenCapture, OpenPlayback, Opens, Thread
    <3>2. UNCHANGED <<main, at, rbuf, overrun>>
      BY <1>7 DEF OpenCapture, OpenPlayback, Opens
    <3> QED
      BY <3>1, <3>2
  <2>2. /\ crashed' \in BOOLEAN
        /\ capture' = capture \/ capture' = [capture EXCEPT ![l] = "test"]
        /\ playback' = playback \/ playback' = [playback EXCEPT ![l] = "test"]
    BY <1>7, Zenon DEF OpenCapture, OpenPlayback, Others
  <2>3. capture' \in [Line -> {"none", "open", "test", "read", "close", "ended"}]
    BY <2>2 DEF Others
  <2>4. playback' \in [Line -> {"none", "open", "test", "write", "refill", "close", "ended"}]
    BY <2>2 DEF Others
  <2> QED
    BY <2>1, <2>2, <2>3, <2>4 DEF Others
<1>8. ASSUME NEW l \in Line, TestCapture(l) \/ CloseCapture(l) PROVE Others'
  <2>1. CASE TestCapture(l)
    BY <2>1 DEF Others, TestCapture
  <2>2. CASE CloseCapture(l)
    <3>1. crashed' = (<<"capture", l>> \in unopened)
      BY <2>2 DEF CloseCapture
    <3>2. crashed' \in BOOLEAN
      BY <3>1
    <3> QED
      BY <2>2, <3>2 DEF Others, CloseCapture
  <2> QED
    BY <1>8, <2>1, <2>2
<1>9. ASSUME NEW l \in Line, TestPlayback(l) \/ ClosePlayback(l) PROVE Others'
  <2>1. CASE TestPlayback(l)
    BY <2>1 DEF Others, TestPlayback
  <2>2. CASE ClosePlayback(l)
    <3>1. crashed' = (<<"playback", l>> \in unopened)
      BY <2>2 DEF ClosePlayback
    <3>2. crashed' \in BOOLEAN
      BY <3>1
    <3> QED
      BY <2>2, <3>2 DEF Others, ClosePlayback
  <2> QED
    BY <1>9, <2>1, <2>2
<1>10. ASSUME NEW l \in Line, CaptureData(l) \/ CaptureNothing(l) PROVE Others'
  BY <1>10 DEF Others, CaptureData, CaptureNothing
<1>11. ASSUME NEW l \in Line, Play(l) \/ Restore(l) PROVE Others'
  BY <1>11 DEF Others, Play, Restore
<1> QED
  BY <1>1, <1>3, <1>4, <1>5, <1>6, <1>7, <1>8, <1>9, <1>10, <1>11
  DEF Next, MainStep, CaptureStep, PlaybackStep

\* A ring comes before its threads and goes after them.
LEMMA LifetimeStep == Others /\ Lifetime /\ [Next]_vars => Lifetime'
<1> SUFFICES ASSUME Others, Lifetime, [Next]_vars PROVE Lifetime'
  OBVIOUS
<1>1. CASE UNCHANGED vars
  BY <1>1 DEF Lifetime, vars
<1>2. Lines[at] \in Line
  BY DEF Others, Line
<1>3. CASE Create
  BY <1>2, <1>3 DEF Others, Lifetime, Create, MainGoesOn
<1>4. CASE Report
  BY <1>4 DEF Lifetime, Report
<1>5. CASE Stop \/ LoopEnds \/ JoinOfNothing
  BY <1>5 DEF Lifetime, Stop, LoopEnds, JoinOfNothing
<1>6. CASE Destroy
  BY <1>2, <1>6 DEF Others, Lifetime, Destroy, rb_deinit, MainGoesOn, Joined
<1>7. ASSUME NEW l \in Line, OpenCapture(l) \/ OpenPlayback(l) PROVE Lifetime'
  BY <1>7 DEF Others, Lifetime, OpenCapture, OpenPlayback, Opens
<1>8. ASSUME NEW l \in Line, TestCapture(l) \/ CloseCapture(l) PROVE Lifetime'
  BY <1>8 DEF Others, Lifetime, TestCapture, CloseCapture
<1>9. ASSUME NEW l \in Line, TestPlayback(l) \/ ClosePlayback(l) PROVE Lifetime'
  BY <1>9 DEF Others, Lifetime, TestPlayback, ClosePlayback
<1>10. ASSUME NEW l \in Line, CaptureData(l) \/ CaptureNothing(l) PROVE Lifetime'
  BY <1>10 DEF Others, Lifetime, CaptureData, CaptureNothing
<1>11. ASSUME NEW l \in Line, Play(l) \/ Restore(l) PROVE Lifetime'
  BY <1>11 DEF Others, Lifetime, Play, Restore
<1> QED
  BY <1>1, <1>3, <1>4, <1>5, <1>6, <1>7, <1>8, <1>9, <1>10, <1>11
  DEF Next, MainStep, CaptureStep, PlaybackStep

\* The rings stay whole: only the two loops move them.
LEMMA RingsStep == Rings /\ [Next]_vars => Rings'
<1> SUFFICES ASSUME Rings, [Next]_vars PROVE Rings'
  OBVIOUS
<1>1. CASE UNCHANGED ring
  BY <1>1 DEF Rings
<1>2. ASSUME NEW l \in Line, NEW s, Whole(s), ring' = [ring EXCEPT ![l] = s]
      PROVE  Rings'
  BY <1>2 DEF Rings
<1>3. ASSUME NEW l \in Line, CaptureData(l) PROVE Rings'
  <2>1. PICK n \in Reads : ring' = [ring EXCEPT ![l] = Written(ring[l], Captured(n))]
    BY <1>3 DEF CaptureData, Rings
  <2>2. Whole(Written(ring[l], Captured(n)))
    BY Sizes, WrittenWhole DEF Rings
  <2> QED
    BY <1>2, <2>1, <2>2
<1>4. ASSUME NEW l \in Line, Play(l) PROVE Rings'
  <2> DEFINE n == IF Period < Len(ring[l]) THEN Period ELSE Len(ring[l])
  <2>1. ring' = [ring EXCEPT ![l] = SubSeq(ring[l], n + 1, Len(ring[l]))]
    BY <1>4 DEF Play, Rings
  <2>2. Whole(ring[l])
    BY DEF Rings
  <2>3. Len(ring[l]) \in Nat /\ Len(ring[l]) % Frame = 0
    BY <2>2, CapturedSeq, Sizes DEF Whole
  <2>4. n \in Nat /\ n <= Len(ring[l]) /\ n % Frame = 0
    <3>1. CASE Period < Len(ring[l])
      BY <2>3, <3>1, Sizes
    <3>2. CASE ~(Period < Len(ring[l]))
      <4>1. n = Len(ring[l]) /\ Len(ring[l]) <= Len(ring[l])
        BY <2>3, <3>2
      <4> QED
        BY <2>3, <4>1, Zenon
    <3> QED
      BY <3>1, <3>2
  <2> HIDE DEF n
  <2>5. Whole(SubSeq(ring[l], n + 1, Len(ring[l])))
    BY <2>2, <2>4, TakenWhole
  <2> QED
    BY <1>2, <2>1, <2>5
<1>5. CASE MainStep \/ Stop
  BY <1>1, <1>5 DEF MainStep, Create, Report, LoopEnds, JoinOfNothing, Destroy, rb_deinit, Stop
<1>6. ASSUME NEW l \in Line, OpenCapture(l) \/ TestCapture(l) \/ CaptureNothing(l)
                            \/ CloseCapture(l)
      PROVE Rings'
  BY <1>1, <1>6 DEF OpenCapture, Opens, TestCapture, CaptureNothing, CloseCapture
<1>7. ASSUME NEW l \in Line, OpenPlayback(l) \/ TestPlayback(l) \/ Restore(l)
                            \/ ClosePlayback(l)
      PROVE Rings'
  BY <1>1, <1>7 DEF OpenPlayback, Opens, TestPlayback, Restore, ClosePlayback
<1> QED
  BY <1>1, <1>3, <1>4, <1>5, <1>6, <1>7 DEF Next, CaptureStep, PlaybackStep, vars

\* The inductive invariant, for any lines, frames, periods and rings.
THEOREM BridgeInvariant == Spec => []IInv
<1>1. IInv /\ [Next]_vars => IInv'
  BY OthersStep, LifetimeStep, RingsStep DEF IInv
<1> QED
  BY <1>1, InitInv, PTL DEF Spec

\* Type correctness: no ring ever holds more than its capacity.
THEOREM BridgeTypeOK == Spec => []TypeOK
<1>1. IInv => TypeOK
  <2> SUFFICES ASSUME IInv PROVE TypeOK
    OBVIOUS
  <2>1. ASSUME NEW l \in Line
        PROVE  ring[l] \in UNION {[1 .. n -> 0 .. Frame - 1] : n \in 0 .. Capacity}
    <3>1. PICK k \in 0 .. Capacity : ring[l] = Captured(k)
      BY DEF IInv, Rings, Whole
    <3>2. k \in Nat
      BY Sizes
    <3>3. Captured(k) \in Seq(0 .. Frame - 1) /\ Len(Captured(k)) = k
      BY <3>2, CapturedSeq
    <3>4. Captured(k) \in [1 .. k -> 0 .. Frame - 1]
      BY <3>3, LenProperties
    <3> QED
      BY <3>1, <3>4
  <2>2. ring \in [Line -> UNION {[1 .. n -> 0 .. Frame - 1] : n \in 0 .. Capacity}]
    BY <2>1 DEF IInv, Rings
  <2> QED
    BY <2>2 DEF IInv, Others, TypeOK
<1> QED
  BY <1>1, BridgeInvariant, PTL

\* The ring is there for its threads, whatever failed in between.
THEOREM BridgeRingOutlivesThreads == Spec => []RingOutlivesThreads
<1>1. IInv => RingOutlivesThreads
  BY DEF IInv, Others, Lifetime, RingOutlivesThreads
<1> QED
  BY <1>1, BridgeInvariant, PTL

\* Dropped bytes never shift the channels.
THEOREM BridgeWholeFrames == Spec => []WholeFrames
<1>1. IInv => WholeFrames
  <2> SUFFICES ASSUME IInv, NEW l \in Line
               PROVE  Len(ring[l]) % Frame = 0 /\ ring[l] = Captured(Len(ring[l]))
    BY DEF WholeFrames
  <2>1. PICK k \in 0 .. Capacity : k % Frame = 0 /\ ring[l] = Captured(k)
    BY DEF IInv, Rings, Whole
  <2>2. k \in Nat
    BY Sizes
  <2>3. Len(ring[l]) = k
    BY <2>1, <2>2, CapturedSeq
  <2> QED
    BY <2>1, <2>3
<1> QED
  BY <1>1, BridgeInvariant, PTL

-----------------------------------------------------------------------------
(***************************************************************************)
(* ShmPool.                                                                *)
(***************************************************************************)

InitFaults == {"info", "map", "rpc"}
Sound == InitFaults \cap faults = {}

Holder == \A t \in Threads : (call[t].pc \in InInit) <=> (mutex = t)

Stages ==
  /\ ~fd => ~info /\ map = "none" /\ ~rpchdl
  /\ rpchdl => fd /\ info /\ map # "none" /\ (Sound => map = "mapped")
  /\ \A t \in Threads :
       /\ At(t, "open") => ~fd
       /\ At(t, "info") => fd /\ ~info /\ map = "none" /\ ~rpchdl
       /\ At(t, "map") => fd /\ info /\ map = "none" /\ ~rpchdl
       /\ At(t, "rpc") => /\ fd /\ info /\ map # "none" /\ ~rpchdl
                          /\ Sound => map = "mapped"
       /\ At(t, "unlock") \/ At(t, "use") =>
            fd /\ (Sound => rpchdl /\ map = "mapped")
  /\ fd /\ (\A t \in Threads : call[t].pc \notin InitFaults) =>
       (Sound => rpchdl /\ map = "mapped")
  /\ opened.shm = IF fd THEN 1 ELSE 0
  /\ opened.rpc = IF rpchdl THEN 1 ELSE 0

\* Where a call is and what it has of its handle.
Shape ==
  \A t \in Threads :
    /\ At(t, "idle") <=> call[t].op = "none"
    /\ call[t].op = "allocate" =>
         held[t] = Null /\ (~At(t, "read") => call[t].h = Null)
    /\ call[t].op = "free" => held[t] = Null /\ call[t].pc \in {"write", "read"}
    /\ call[t].op = "use" => call[t].pc \notin {"write", "read"}

NoLoss == faults \cap {"write", "read"} = {}

Accounts ==
  /\ \A t \in Threads : InHand(t) # Null => InHand(t) \in live
  /\ \A b \in live : \E t \in Threads : InHand(t) = b
  /\ \A t, u \in Threads : t # u /\ InHand(t) # Null => InHand(t) # InHand(u)

PoolIInv == PoolTypeOK /\ Holder /\ Stages /\ Shape /\ (NoLoss => Accounts)

-----------------------------------------------------------------------------

\* The types are kept by every step.
LEMMA TypeStep == PoolTypeOK /\ [PoolNext]_poolVars => PoolTypeOK'
<1> USE ShmPoolAssumption
<1> SUFFICES ASSUME PoolTypeOK, [PoolNext]_poolVars PROVE PoolTypeOK'
    OBVIOUS
<1> USE DEF PoolTypeOK, Pc, InInit, Null, Junk, Idle, Goes, Returns, Fails, pool
<1>1. CASE UNCHANGED poolVars
  BY <1>1 DEF poolVars
<1>2. ASSUME NEW t \in Threads, Calls(t) PROVE PoolTypeOK'
  BY <1>2 DEF Calls
<1>3. ASSUME NEW t \in Threads, Ask(t) \/ Use(t) PROVE PoolTypeOK'
  BY <1>3 DEF Ask, Use, Operation
<1>4. ASSUME NEW t \in Threads, Lock(t) \/ Test(t) PROVE PoolTypeOK'
  BY <1>4 DEF Lock, Test
<1>5. ASSUME NEW t \in Threads, Open(t) PROVE PoolTypeOK'
  <2>1. call' \in [Threads -> [pc : Pc, op : {"none", "allocate", "use", "free"},
                                   h : Blocks \cup {Null, Junk}]]
    BY <1>5 DEF Open
  <2>2. opened' \in [shm : Nat, rpc : Nat]
    BY <1>5 DEF Open
  <2>3. faults' \subseteq {"open", "info", "map", "rpc", "write", "read"} /\ fd' \in BOOLEAN
    BY <1>5 DEF Open
  <2> QED
    BY <1>5, <2>1, <2>2, <2>3 DEF Open
<1>6. ASSUME NEW t \in Threads, Info(t) \/ Map(t) PROVE PoolTypeOK'
  <2>1. call' \in [Threads -> [pc : Pc, op : {"none", "allocate", "use", "free"},
                                   h : Blocks \cup {Null, Junk}]]
    BY <1>6 DEF Info, Map
  <2>2. faults' \subseteq {"open", "info", "map", "rpc", "write", "read"}
    BY <1>6 DEF Info, Map
  <2> QED
    BY <1>6, <2>1, <2>2 DEF Info, Map
<1>7. ASSUME NEW t \in Threads, RpcInit(t) PROVE PoolTypeOK'
  <2>1. call' \in [Threads -> [pc : Pc, op : {"none", "allocate", "use", "free"},
                                   h : Blocks \cup {Null, Junk}]]
    BY <1>7 DEF RpcInit
  <2>2. opened' \in [shm : Nat, rpc : Nat]
    BY <1>7 DEF RpcInit
  <2>3. faults' \subseteq {"open", "info", "map", "rpc", "write", "read"} /\ rpchdl' \in BOOLEAN
    BY <1>7 DEF RpcInit
  <2> QED
    BY <1>7, <2>1, <2>2, <2>3 DEF RpcInit
<1>8. ASSUME NEW t \in Threads, Unlock(t) \/ UnlockFailed(t) PROVE PoolTypeOK'
  BY <1>8 DEF Unlock, UnlockFailed, Operation
<1>9. ASSUME NEW t \in Threads, Write(t) PROVE PoolTypeOK'
  BY <1>9 DEF Write
<1>10. ASSUME NEW t \in Threads, WriteFails(t) \/ Read(t) \/ ReadFails(t) PROVE PoolTypeOK'
  <2>1. call' \in [Threads -> [pc : Pc, op : {"none", "allocate", "use", "free"},
                                   h : Blocks \cup {Null, Junk}]]
    BY <1>10 DEF WriteFails, Read, ReadFails
  <2>2. held' \in [Threads -> Blocks \cup {Null, Junk}]
    BY <1>10 DEF WriteFails, Read, ReadFails
  <2>3. faults' \subseteq {"open", "info", "map", "rpc", "write", "read"}
    BY <1>10 DEF WriteFails, Read, ReadFails
  <2> QED
    BY <1>10, <2>1, <2>2, <2>3 DEF WriteFails, Read, ReadFails
<1> QED
  BY <1>1, <1>2, <1>3, <1>4, <1>5, <1>6, <1>7, <1>8, <1>9, <1>10 DEF PoolNext, Step

-----------------------------------------------------------------------------

\* A step of one thread leaves the others where they are.
LEMMA OthersStand ==
  ASSUME PoolTypeOK, NEW t \in Threads, Calls(t) \/ Step(t),
         NEW u \in Threads, u # t
  PROVE  call'[u] = call[u] /\ held'[u] = held[u]
<1>1. CASE Calls(t)
  BY <1>1 DEF PoolTypeOK, Calls
<1>2. CASE Ask(t) \/ Use(t) \/ Lock(t) \/ Test(t)
  BY <1>2 DEF PoolTypeOK, Ask, Use, Lock, Test, Goes, Returns
<1>3. CASE Open(t) \/ Info(t) \/ Map(t) \/ RpcInit(t)
  BY <1>3 DEF PoolTypeOK, Open, Info, Map, RpcInit, Goes, Returns
<1>4. CASE Unlock(t) \/ UnlockFailed(t)
  BY <1>4 DEF PoolTypeOK, Unlock, UnlockFailed, Goes, Returns
<1>5. CASE Write(t)
  BY <1>5 DEF PoolTypeOK, Write, Goes
<1>6. CASE WriteFails(t) \/ Read(t) \/ ReadFails(t)
  BY <1>6 DEF PoolTypeOK, WriteFails, Read, ReadFails, Returns
<1> QED
  BY <1>1, <1>2, <1>3, <1>4, <1>5, <1>6 DEF Step

\* A step that keeps the pool and moves its thread between places outside the
\* initialisation keeps what is known of it.
LEMMA OutsideStep ==
  ASSUME PoolTypeOK, Holder, Stages, NEW t \in Threads, Calls(t) \/ Step(t),
         UNCHANGED <<mutex, pool, opened>>,
         call[t].pc \notin InInit, call'[t].pc \notin InInit,
         call'[t].pc = "use" => rpchdl,
         faults \subseteq faults'
  PROVE  Holder' /\ Stages'
<1>1. \A u \in Threads : u # t => call'[u] = call[u]
  BY OthersStand
<1>2. Sound' => Sound
  BY DEF Sound
<1>3. Holder'
  BY <1>1 DEF Holder
<1>4. ~(\A u \in Threads : call[u].pc \notin InitFaults) =>
      ~(\A u \in Threads : call'[u].pc \notin InitFaults)
  BY <1>1 DEF InitFaults, InInit
<1>5. ASSUME NEW u \in Threads
      PROVE /\ At(u, "open")' => ~fd'
            /\ At(u, "info")' => fd' /\ ~info' /\ map' = "none" /\ ~rpchdl'
            /\ At(u, "map")' => fd' /\ info' /\ map' = "none" /\ ~rpchdl'
            /\ At(u, "rpc")' => /\ fd' /\ info' /\ map' # "none" /\ ~rpchdl'
                                /\ Sound' => map' = "mapped"
            /\ At(u, "unlock")' \/ At(u, "use")' =>
                 fd' /\ (Sound' => rpchdl' /\ map' = "mapped")
  <2>1. CASE u = t
    BY <1>2, <2>1 DEF Stages, pool, InInit, At
  <2>2. CASE u # t
    BY <1>1, <1>2, <2>2 DEF Stages, pool, At
  <2> QED
    BY <2>1, <2>2
<1> QED
  BY <1>2, <1>3, <1>4, <1>5 DEF Stages, pool

\* A step of the initialisation.
LEMMA InsideStep ==
  ASSUME PoolTypeOK, Holder, Stages, NEW t \in Threads,
         \/ Lock(t) \/ Test(t) \/ Open(t) \/ Info(t) \/ Map(t) \/ RpcInit(t)
         \/ Unlock(t) \/ UnlockFailed(t)
  PROVE  Holder' /\ Stages'
<1>1. \A u \in Threads : u # t => call'[u] = call[u]
  BY OthersStand DEF Step
<1>2. call[t] \in [pc : Pc, op : {"none", "allocate", "use", "free"},
                    h : Blocks \cup {Null, Junk}]
  BY DEF PoolTypeOK
<1>3. \A u \in Threads : call[u].pc \in InInit <=> mutex = u
  BY DEF Holder
<1> USE ShmPoolAssumption
<1> HIDE DEF InInit
<1>4. CASE Lock(t)
  <2>1. call'[t].pc = "test" /\ call[t].pc = "lock"
    BY <1>4 DEF PoolTypeOK, At, Lock, Goes
  <2>2. Holder'
    BY <1>1, <1>3, <1>4, <2>1 DEF Lock, Holder, InInit
  <2>3. Stages'
    BY <1>1, <1>3, <1>4, <2>1 DEF Lock, Stages, Sound, InitFaults, InInit, Fails, At, pool, PoolTypeOK
  <2> QED
    BY <2>2, <2>3
<1>5. CASE Test(t)
  <2>1. call'[t].pc = (IF fd THEN "unlock" ELSE "open") /\ call[t].pc = "test"
    BY <1>5 DEF PoolTypeOK, At, Test, Goes
  <2>2. Holder'
    BY <1>1, <1>3, <1>5, <2>1 DEF Test, Holder, InInit
  <2>3. Stages'
    BY <1>1, <1>3, <1>5, <2>1 DEF Test, Stages, Sound, InitFaults, InInit, Fails, At, pool, PoolTypeOK
  <2> QED
    BY <2>2, <2>3
<1>6. CASE Open(t)
  <2>1. call'[t].pc = (IF fd' THEN "info" ELSE "fail") /\ call[t].pc = "open"
    BY <1>6 DEF PoolTypeOK, At, Open, Goes, Stages
  <2>2. Holder'
    BY <1>1, <1>3, <1>6, <2>1 DEF Open, Holder, InInit
  <2>3. Stages'
    BY <1>1, <1>3, <1>6, <2>1 DEF Open, Stages, Sound, InitFaults, InInit, Fails, At, pool, PoolTypeOK
  <2> QED
    BY <2>2, <2>3
<1>7. CASE Info(t)
  <2>1. call'[t].pc = (IF info' THEN "map" ELSE "fail") /\ call[t].pc = "info"
    BY <1>7 DEF PoolTypeOK, At, Info, Goes, Stages
  <2>2. Holder'
    BY <1>1, <1>3, <1>7, <2>1 DEF Info, Holder, InInit
  <2>3. Stages'
    BY <1>1, <1>3, <1>7, <2>1 DEF Info, Stages, Sound, InitFaults, InInit, Fails, At, pool, PoolTypeOK
  <2> QED
    BY <2>2, <2>3
<1>8. CASE Map(t)
  <2>1. call'[t].pc = "rpc" /\ call[t].pc = "map"
    BY <1>8 DEF PoolTypeOK, At, Map, Goes
  <2>2. Holder'
    BY <1>1, <1>3, <1>8, <2>1 DEF Map, Holder, InInit
  <2>3. /\ fd /\ info /\ ~rpchdl /\ map = "none"
    BY <1>8, <2>1 DEF Stages, At
  <2>4. map' # "none" /\ (Sound' => Sound /\ map' = "mapped")
    BY <1>8, <2>3 DEF Map, Fails, Sound, InitFaults
  <2>5. UNCHANGED <<fd, info, rpchdl, opened>>
    BY <1>8 DEF Map
  <2>6. ASSUME NEW u \in Threads, u # t
        PROVE  At(u, "use")' => (Sound' => FALSE)
    BY <1>1, <2>3, <2>4, <2>6 DEF Stages, At
  <2>7. ASSUME NEW u \in Threads, u # t
        PROVE  call'[u].pc \notin InInit
    BY <1>1, <1>3, <2>1, <2>7 DEF InInit
  <2>8. Stages'
    BY <2>1, <2>3, <2>4, <2>5, <2>6, <2>7 DEF Stages, At, InInit, InitFaults
  <2> QED
    BY <2>2, <2>8
<1>9. CASE RpcInit(t)
  <2>1. call'[t].pc = "unlock" /\ call[t].pc = "rpc"
    BY <1>9 DEF PoolTypeOK, At, RpcInit, Goes
  <2>2. Holder'
    BY <1>1, <1>3, <1>9, <2>1 DEF RpcInit, Holder, InInit
  <2>3. /\ fd /\ info /\ ~rpchdl /\ map # "none" /\ (Sound => map = "mapped")
    BY <1>9, <2>1 DEF Stages, At
  <2>4. (Sound' => Sound /\ rpchdl') /\ opened'.shm = opened.shm /\ opened'.rpc = IF rpchdl' THEN 1 ELSE 0
    BY <1>9, <2>3 DEF RpcInit, Fails, Sound, InitFaults, Stages, PoolTypeOK
  <2>5. UNCHANGED <<fd, info, map>>
    BY <1>9 DEF RpcInit
  <2>6. ASSUME NEW u \in Threads, u # t
        PROVE  At(u, "use")' => (Sound' => FALSE)
    BY <1>1, <2>3, <2>4, <2>6 DEF Stages, At
  <2>7. ASSUME NEW u \in Threads, u # t
        PROVE  call'[u].pc \notin InInit
    BY <1>1, <1>3, <2>1, <2>7 DEF InInit
  <2>8. Stages'
    BY <2>1, <2>3, <2>4, <2>5, <2>6, <2>7 DEF Stages, At, InInit, InitFaults
  <2> QED
    BY <2>2, <2>8
<1>10. CASE Unlock(t)
  <2>1. call'[t].pc \in {"write", "use"} /\ call[t].pc = "unlock"
    BY <1>10 DEF PoolTypeOK, At, Unlock, Goes, Operation
  <2>2. Holder'
    BY <1>1, <1>3, <1>10, <2>1 DEF Unlock, Holder, InInit
  <2>3. Stages'
    BY <1>1, <1>3, <1>10, <2>1 DEF Unlock, Stages, Sound, InitFaults, InInit, Fails, At, pool, PoolTypeOK
  <2> QED
    BY <2>2, <2>3
<1>11. CASE UnlockFailed(t)
  <2>1. call'[t].pc = "idle" /\ call[t].pc = "fail"
    BY <1>11 DEF PoolTypeOK, At, UnlockFailed, Returns, Idle
  <2>2. Holder'
    BY <1>1, <1>3, <1>11, <2>1 DEF UnlockFailed, Holder, InInit
  <2>3. Stages'
    BY <1>1, <1>3, <1>11, <2>1 DEF UnlockFailed, Stages, Sound, InitFaults, InInit, Fails, At, pool, PoolTypeOK
  <2> QED
    BY <2>2, <2>3
<1> QED
  BY <1>4, <1>5, <1>6, <1>7, <1>8, <1>9, <1>10, <1>11
-----------------------------------------------------------------------------

\* What is known of a call at each place.
LEMMA ShapeStep ==
  ASSUME PoolTypeOK, Shape, NEW t \in Threads, Calls(t) \/ Step(t)
  PROVE  Shape'
<1>1. \A u \in Threads : u # t => call'[u] = call[u] /\ held'[u] = held[u]
  BY OthersStand
<1>2. SUFFICES
        /\ call'[t].pc = "idle" <=> call'[t].op = "none"
        /\ call'[t].op = "allocate" =>
             held'[t] = Null /\ (call'[t].pc # "read" => call'[t].h = Null)
        /\ call'[t].op = "free" => held'[t] = Null /\ call'[t].pc \in {"write", "read"}
        /\ call'[t].op = "use" => call'[t].pc \notin {"write", "read"}
  BY <1>1 DEF Shape, At
<1> USE DEF PoolTypeOK, Shape, At, Goes, Returns, Idle, Operation
<1>3. CASE Calls(t)
  BY <1>3 DEF Calls
<1>4. CASE Ask(t) \/ Use(t) \/ Lock(t) \/ Test(t)
  BY <1>4 DEF Ask, Use, Lock, Test
<1>5. CASE Open(t) \/ Info(t) \/ Map(t) \/ RpcInit(t)
  BY <1>5 DEF Open, Info, Map, RpcInit
<1>6. CASE Unlock(t) \/ UnlockFailed(t)
  BY <1>6 DEF Unlock, UnlockFailed
<1>7. CASE Write(t)
  BY <1>7 DEF Write
<1>8. CASE WriteFails(t) \/ Read(t) \/ ReadFails(t)
  BY <1>8 DEF WriteFails, Read, ReadFails
<1> QED
  BY <1>3, <1>4, <1>5, <1>6, <1>7, <1>8 DEF Step

\* Only the DSP's answer changes what is in a thread's hands: until then a
\* block of its own is on the way back, afterwards one is on the way here.
LEMMA HandStands ==
  ASSUME PoolTypeOK, Shape, NEW t \in Threads, Calls(t) \/ Step(t), ~Write(t), NoLoss'
  PROVE  InHand(t)' = InHand(t) /\ live' = live
<1> USE DEF PoolTypeOK, Shape, At, Goes, Returns, Idle, Operation, InHand
<1>1. CASE Calls(t)
  BY <1>1 DEF Calls
<1>2. CASE Ask(t) \/ Use(t) \/ Lock(t) \/ Test(t)
  BY <1>2 DEF Ask, Use, Lock, Test
<1>3. CASE Open(t) \/ Info(t) \/ Map(t) \/ RpcInit(t)
  BY <1>3 DEF Open, Info, Map, RpcInit
<1>4. CASE Unlock(t) \/ UnlockFailed(t)
  BY <1>4 DEF Unlock, UnlockFailed
<1>5. CASE Read(t)
  BY <1>5 DEF Read
<1>6. CASE WriteFails(t) \/ ReadFails(t)
  BY <1>6 DEF WriteFails, ReadFails, Fails, NoLoss
<1> QED
  BY <1>1, <1>2, <1>3, <1>4, <1>5, <1>6 DEF Step

\* The blocks are accounted for after every step.
LEMMA AccountsStep ==
  ASSUME PoolTypeOK, Shape, Accounts, NEW t \in Threads, Calls(t) \/ Step(t), NoLoss'
  PROVE  Accounts'
<1>1. \A u \in Threads : u # t => InHand(u)' = InHand(u)
  BY OthersStand DEF InHand, At
<1>2. CASE ~Write(t)
  <2>1. InHand(t)' = InHand(t) /\ live' = live
    BY <1>2, HandStands
  <2> QED
    BY <1>1, <2>1 DEF Accounts
<1>3. CASE Write(t) /\ call[t].op = "free"
  <2>1. live' = live \ {call[t].h} /\ InHand(t) = call[t].h
    BY <1>3 DEF Write, InHand, At
  <2>2. InHand(t)' = Null
    BY <1>3 DEF Write, InHand, At, Goes, PoolTypeOK, Shape
  <2> QED
    BY <1>1, <2>1, <2>2 DEF Accounts
<1>4. CASE Write(t) /\ call[t].op # "free"
  <2>1. call[t].op = "allocate" /\ InHand(t) = Null /\ call[t].h = Null
    BY <1>4 DEF Write, InHand, At, PoolTypeOK, Shape
  <2>2. CASE live = Blocks
    <3>1. live' = live /\ InHand(t)' = Null
      BY <1>4, <2>1, <2>2 DEF Write, InHand, At, Goes, PoolTypeOK, Shape
    <3> QED
      BY <1>1, <2>1, <3>1 DEF Accounts
  <2>3. CASE live # Blocks
    <3>1. PICK b \in Blocks \ live :
            /\ live' = live \cup {b}
            /\ call' = [call EXCEPT ![t].pc = "read", ![t].h = b]
      BY <1>4, <2>1, <2>3 DEF Write
    <3>2. InHand(t)' = b
      BY <2>1, <3>1 DEF InHand, At, PoolTypeOK
    <3>3. b # Null
      BY ShmPoolAssumption DEF Null
    <3>4. \A u \in Threads : u # t /\ InHand(u) # Null => InHand(u) \in live
      BY DEF Accounts
    <3>5. \A u \in Threads : InHand(u)' # Null => InHand(u)' \in live'
      BY <1>1, <3>1, <3>2, <3>4
    <3>6. \A c \in live' : \E u \in Threads : InHand(u)' = c
      <4>1. TAKE c \in live'
      <4>2. CASE c = b
        BY <3>2, <4>2
      <4>3. CASE c # b
        <5>1. PICK u \in Threads : InHand(u) = c
          BY <3>1, <4>3 DEF Accounts
        <5>2. u # t
          BY <2>1, <3>1, <4>1, <4>3, <5>1, ShmPoolAssumption DEF Null, PoolTypeOK
        <5> QED
          BY <1>1, <5>1, <5>2
      <4> QED
        BY <4>2, <4>3
    <3>7. ASSUME NEW u \in Threads, NEW v \in Threads, u # v, InHand(u)' # Null
          PROVE  InHand(u)' # InHand(v)'
      <4>1. CASE u = t
        BY <1>1, <3>1, <3>2, <3>3, <3>4, <3>7, <4>1
      <4>2. CASE v = t
        BY <1>1, <3>1, <3>2, <3>3, <3>4, <3>7, <4>2
      <4>3. CASE u # t /\ v # t
        BY <1>1, <3>7, <4>3 DEF Accounts
      <4> QED
        BY <4>1, <4>2, <4>3
    <3> QED
      BY <3>5, <3>6, <3>7 DEF Accounts
  <2> QED
    BY <2>2, <2>3
<1> QED
  BY <1>2, <1>3, <1>4
-----------------------------------------------------------------------------

\* The pool starts closed and every thread idle.
LEMMA PoolInitInv == PoolInit => PoolIInv
<1> SUFFICES ASSUME PoolInit PROVE PoolIInv
  OBVIOUS
<1> USE ShmPoolAssumption DEF PoolInit, Idle, At
<1>1. PoolTypeOK
  BY DEF PoolTypeOK, Pc, Null
<1>2. Holder
  BY DEF Holder, InInit
<1>3. Stages
  BY DEF Stages
<1>4. Shape
  BY DEF Shape, Null
<1>5. Accounts
  BY DEF Accounts, InHand
<1> QED
  BY <1>1, <1>2, <1>3, <1>4, <1>5 DEF PoolIInv

\* Nothing that failed is forgotten.
LEMMA FaultsGrow ==
  ASSUME NEW t \in Threads, Calls(t) \/ Step(t)
  PROVE  faults \subseteq faults'
  BY DEF Calls, Step, Ask, Use, Lock, Test, Open, Info, Map, RpcInit, Unlock,
         UnlockFailed, Write, WriteFails, Read, ReadFails, Fails

\* The steps outside the initialisation.
LEMMA OutsideKeeps ==
  ASSUME PoolTypeOK, Holder, Stages, Shape, NEW t \in Threads,
         Calls(t) \/ Ask(t) \/ Use(t) \/ Write(t) \/ WriteFails(t) \/ Read(t) \/ ReadFails(t)
  PROVE  Holder' /\ Stages'
<1>1. Calls(t) \/ Step(t)
  BY DEF Step
<1>2. UNCHANGED <<mutex, pool, opened>>
  BY DEF Calls, Ask, Use, Write, WriteFails, Read, ReadFails, pool
<1>3. call[t].pc \notin InInit
  BY DEF Calls, Ask, Use, Write, WriteFails, Read, ReadFails, At, InInit
<1>4. call'[t].pc \notin InInit /\ (call'[t].pc = "use" => rpchdl)
  <2> USE DEF PoolTypeOK, At, Goes, Returns, Idle, InInit
  <2>1. CASE Calls(t)
    BY <2>1 DEF Calls
  <2>2. CASE Ask(t) \/ Use(t)
    BY <2>2 DEF Ask, Use, Operation
  <2>3. CASE Write(t)
    BY <2>3 DEF Write
  <2>4. CASE WriteFails(t) \/ Read(t) \/ ReadFails(t)
    BY <2>4 DEF WriteFails, Read, ReadFails
  <2> QED
    BY <2>1, <2>2, <2>3, <2>4
<1> QED
  BY <1>1, <1>2, <1>3, <1>4, FaultsGrow, OutsideStep

\* Every step keeps the invariant.
LEMMA PoolNextInv == PoolIInv /\ [PoolNext]_poolVars => PoolIInv'
<1> SUFFICES ASSUME PoolIInv, [PoolNext]_poolVars PROVE PoolIInv'
  OBVIOUS
<1>1. CASE UNCHANGED poolVars
  BY <1>1 DEF PoolIInv, poolVars, pool, PoolTypeOK, Holder, Stages, Sound, Shape, NoLoss,
              Accounts, InHand, At
<1>2. ASSUME NEW t \in Threads, Calls(t) \/ Step(t) PROVE PoolIInv'
  <2>1. PoolTypeOK'
    BY TypeStep DEF PoolIInv
  <2>2. Holder' /\ Stages'
    BY <1>2, InsideStep, OutsideKeeps DEF PoolIInv, Step
  <2>3. Shape'
    BY <1>2, ShapeStep DEF PoolIInv
  <2>4. NoLoss' => Accounts'
    BY <1>2, FaultsGrow, AccountsStep DEF PoolIInv, NoLoss
  <2> QED
    BY <2>1, <2>2, <2>3, <2>4 DEF PoolIInv
<1> QED
  BY <1>1, <1>2 DEF PoolNext

\* The inductive invariant, for any number of threads, blocks and calls.
THEOREM PoolInvariant == PoolSpec => []PoolIInv
<1> QED
  BY PoolInitInv, PoolNextInv, PTL DEF PoolSpec

\* Type correctness.
THEOREM PoolTypes == PoolSpec => []PoolTypeOK
<1>1. PoolIInv => PoolTypeOK
  BY DEF PoolIInv
<1> QED
  BY <1>1, PoolInvariant, PTL

\* Who sees the handle, or has waited for the mutex, finds the whole pool.
THEOREM PoolReady == PoolSpec => []ReadyMeansComplete
<1>1. PoolIInv => ReadyMeansComplete
  BY DEF PoolIInv, Stages, Sound, InitFaults, ReadyMeansComplete
<1> QED
  BY <1>1, PoolInvariant, PTL

\* Each device is opened once, however many threads meet.
THEOREM PoolOpenedOnce == PoolSpec => []OpenedOnce
<1>1. PoolIInv => OpenedOnce
  BY DEF PoolIInv, PoolTypeOK, Stages, OpenedOnce
<1> QED
  BY <1>1, PoolInvariant, PTL

\* Unless a request fails, every block given out is in exactly one hand.
THEOREM PoolBlocks == PoolSpec => []BlocksAccounted
<1>1. PoolIInv => BlocksAccounted
  <2> SUFFICES ASSUME PoolIInv, NoLoss PROVE
        /\ live = {InHand(t) : t \in Threads} \ {Null}
        /\ \A t, u \in Threads : t # u /\ InHand(t) # Null => InHand(t) # InHand(u)
    BY DEF BlocksAccounted, NoLoss
  <2>1. Null \notin live
    BY ShmPoolAssumption DEF PoolIInv, PoolTypeOK, Null
  <2> QED
    BY <2>1 DEF PoolIInv, Accounts
<1> QED
  BY <1>1, PoolInvariant, PTL
================================================================================
