------------------------------ MODULE TBufProofs ------------------------------
(***************************************************************************)
(* TBuf for every ring size, chunk, stream length and number of joins: the *)
(* master reader is enabled, no reader is lapped, and the writer's block   *)
(* is apart from the readers'.  IInv (TBuf) is inductive: Window says the  *)
(* room the writer measured is still there though it measured it two steps *)
(* ago, and Feeding that the bytes a reader has out are behind the writer. *)
(* For sizes in whole chunks StreamInv says more: the ring holds the       *)
(* stream, and so the DSP is fed it.                                       *)
(***************************************************************************)
EXTENDS TBuf, ModularArithmetic

LEMMA SizeFacts ==
  /\ Size \in Nat \ {0}
  /\ Chunk \in 1 .. Size
  /\ ReadChunk \in 1 .. Size
  /\ Total \in Nat
BY TBufAssumption

LEMMA ReaderFacts ==
  /\ Reader = {"A", "B"} /\ Inv \notin Reader
  /\ \A x \in Reader : Other(x) \in Reader /\ Other(x) # x
  /\ \A x, y \in Reader : y # x => y = Other(x)
BY DEF Reader, Other, Inv

\* The types of the fields the steps compute with.
LEMMA Types ==
  ASSUME TypeOK
  PROVE  /\ wr \in 0 .. Size - 1 /\ nwr \in Nat
         /\ writer \in Thread /\ writer.len \in 0 .. Size
         /\ \A x \in Reader : /\ rd[x] \in 0 .. Size - 1 /\ nrd[x] \in Nat
                              /\ reader[x] \in Thread /\ reader[x].len \in 0 .. Size
BY DEF TypeOK, Thread

\* While a reader is less than a ring behind the writer, the two measures
\* computed from the reduced offsets are the true distances.
LEMMA Measures ==
  ASSUME TypeOK, Offsets, NEW x \in Reader,
         nwr - nrd[x] \in 0 .. Size - 1
  PROVE  /\ Fullness(x) = nwr - nrd[x]
         /\ SpaceFor(x) = (Size - 1) - (nwr - nrd[x])
         /\ wr >= rd[x] => wr = rd[x] + (nwr - nrd[x])
         /\ wr < rd[x] => wr + Size = rd[x] + (nwr - nrd[x])
<1> DEFINE L == nwr - nrd[x]
<1>1. /\ Size \in Nat \ {0} /\ wr \in 0 .. Size - 1 /\ rd[x] \in 0 .. Size - 1
      /\ nwr \in Int /\ nrd[x] \in Int
  BY SizeFacts, Types
<1>2. (wr - rd[x]) % Size = L
  <2>1. ((nwr % Size) - (nrd[x] % Size)) % Size = L
    BY <1>1, ModMinus, Zenon
  <2>2. wr = nwr % Size /\ rd[x] = nrd[x] % Size
    BY DEF Offsets
  <2> QED
    BY <2>1, <2>2, Zenon
<1>3. CASE wr >= rd[x]
  <2>1. wr - rd[x] \in 0 .. Size - 1
    BY <1>1, <1>3
  <2>2. wr - rd[x] = L
    BY <1>1, <1>2, <2>1, ModSmall
  <2> QED
    BY <1>1, <1>3, <2>2 DEF Fullness, SpaceFor
<1>4. CASE wr < rd[x]
  <2>1. /\ (Size + wr) - rd[x] \in 0 .. Size - 1
        /\ wr - rd[x] = Size * (-1) + ((Size + wr) - rd[x])
        /\ wr - rd[x] \in Int /\ -1 \in Int
    BY <1>1, <1>4
  <2>2. (wr - rd[x]) % Size = (Size + wr) - rd[x]
    BY <1>1, <2>1, ModIs, Zenon
  <2>3. (Size + wr) - rd[x] = L
    BY <1>2, <2>2
  <2> QED
    BY <1>1, <1>4, <2>3 DEF Fullness, SpaceFor
<1> QED
  BY <1>1, <1>3, <1>4

\* A counted reader is less than a ring behind the writer.
LEMMA Lag ==
  ASSUME IInv, NEW x \in enabled \ late
  PROVE  /\ x \in Reader
         /\ nwr - nrd[x] \in 0 .. Size - 1
         /\ (nwr - nrd[x]) + writer.len <= Size - 1
         /\ reader[x].len <= nwr - nrd[x]
<1>1. x \in Reader
  BY DEF IInv, TypeOK
<1>2. /\ nrd[x] <= nwr /\ (nwr + writer.len) - nrd[x] <= Size - 1
      /\ nrd[x] + reader[x].len <= nwr
  BY <1>1 DEF IInv, Window, Feeding
<1> QED
  BY <1>1, <1>2, SizeFacts, Types DEF IInv

\* Where the bytes since the last wrap begin.
LEMMA LastWrap ==
  ASSUME TypeOK, Offsets
  PROVE  nwr - wr \in Nat /\ (nwr - wr) % Size = 0
<1>1. Size \in Nat \ {0} /\ nwr \in Int /\ nwr \in Nat /\ wr = nwr % Size
  BY SizeFacts, Types DEF Offsets
<1>2. PICK q \in Int : nwr = Size * q + wr /\ wr \in 0 .. Size - 1
  BY <1>1, DivMod
<1>3. nwr - wr = Size * q + 0 /\ nwr - wr \in Int /\ 0 \in 0 .. Size - 1
  BY <1>1, <1>2
<1>4. (nwr - wr) % Size = 0
  BY <1>1, <1>3, ModIs, Zenon
<1>5. q >= 0
  <2> SUFFICES ASSUME -q >= 1 PROVE FALSE
    BY <1>2
  <2>1. Size * (-q) >= Size
    BY <1>1, MultipleIsLarge
  <2>2. Size * (-q) = -(Size * q)
    BY <1>1, <1>2
  <2> QED
    BY <1>1, <1>2, <2>1, <2>2
<1>6. Size * q >= 0
  BY <1>1, <1>5
<1>7. nwr - wr \in Nat
  <2> DEFINE p == Size * q
  <2>1. nwr - wr = p + 0 /\ p >= 0 /\ nwr - wr \in Int
    BY <1>3, <1>6
  <2>2. p \in Int
    BY <1>1, <1>2
  <2> HIDE DEF p
  <2> QED
    BY <2>1, <2>2
<1> QED
  BY <1>4, <1>7

LEMMA InitInv == Init => IInv
<1> SUFFICES ASSUME Init PROVE IInv
  OBVIOUS
<1>1. 0 % Size = 0
  BY SizeFacts, ModSmall
<1>2. TypeOK
  BY SizeFacts DEF Init, TypeOK, Reader, Thread, Inv, Address, Stale
<1> QED
  BY <1>1, <1>2, SizeFacts
     DEF Init, IInv, MasterIsEnabled, Offsets, Window, Feeding, Reader

-----------------------------------------------------------------------------
(***************************************************************************)
(* Every step preserves IInv.                                              *)
(***************************************************************************)

LEMMA AddPreserves ==
  ASSUME IInv, NEW x \in Reader, AddConsumer(x)
  PROVE  IInv'
<1> USE DEF IInv
<1>0. /\ Size \in Nat \ {0} /\ reader[x].pc = "wait"
      /\ rdMaster \in Reader \cup {Inv} /\ MaxJoins \in Nat
      /\ rdMaster' = x /\ enabled' = enabled \cup {x}
      /\ wr' = wr /\ mem' = mem /\ writer' = writer /\ reader' = reader
      /\ nwr' = nwr /\ joins' \in Nat
  BY TBufAssumption DEF AddConsumer, TypeOK
<1>1. CASE rdMaster = Inv
  <2>1. /\ rd' = [rd EXCEPT ![x] = 0]
        /\ nrd' = [nrd EXCEPT ![x] = nwr - wr]
        /\ late' = IF writer.pc = "wait" THEN late ELSE late \cup {x}
    BY <1>1, ReaderFacts DEF AddConsumer
  <2>2. enabled = {} /\ late = {}
    BY <1>1, ReaderFacts DEF MasterIsEnabled, TypeOK
  <2>3. nwr - wr \in Nat /\ (nwr - wr) % Size = 0
    BY LastWrap
  <2>4. TypeOK'
    BY <1>0, <2>1, <2>2, <2>3 DEF TypeOK
  <2>5. MasterIsEnabled' /\ (late \subseteq enabled)'
    BY <1>0, <2>1, <2>2 DEF MasterIsEnabled
  <2>6. Offsets'
    BY <1>0, <2>1, <2>3 DEF Offsets, TypeOK
  <2>7. nrd'[x] = nwr - wr
    BY <2>1 DEF TypeOK
  <2>8. \A y \in enabled' \ late' : y = x /\ writer.pc = "wait"
    BY <1>0, <2>1, <2>2
  <2>9. Window'
    BY <1>0, <2>7, <2>8, Types DEF Window, Feeding
  <2>10. Feeding'
    BY <1>0, <2>7, <2>8, Types DEF Feeding
  <2> QED
    BY <2>4, <2>5, <2>6, <2>9, <2>10
<1>2. CASE rdMaster = Other(x)
  <2> DEFINE o == Other(x)
  <2>0. o \in Reader /\ o # x /\ o # Inv
    BY ReaderFacts
  <2>1. /\ rd' = [rd EXCEPT ![x] = rd[o]]
        /\ nrd' = [nrd EXCEPT ![x] = nrd[o]]
        /\ late' = IF o \in late THEN late \cup {x} ELSE late \ {x}
    BY <1>2, <2>0 DEF AddConsumer
  <2>2. o \in enabled
    BY <1>2, <2>0 DEF MasterIsEnabled
  <2> HIDE DEF o
  <2>3. TypeOK'
    BY <1>0, <2>0, <2>1 DEF TypeOK
  <2>4. MasterIsEnabled' /\ (late \subseteq enabled)'
    BY <1>0, <2>1 DEF MasterIsEnabled
  <2>5. Offsets'
    BY <1>0, <2>0, <2>1 DEF Offsets, TypeOK
  <2>6. \A y \in enabled' \ late' :
          \E z \in enabled \ late : /\ nrd'[y] = nrd[z]
                                    /\ y # x => z = y
    BY <1>0, <2>0, <2>1, <2>2 DEF TypeOK
  <2>7. Window'
    BY <1>0, <2>6, Types DEF Window
  <2>8. \A y \in enabled' \ late' : y \in Reader
    BY <2>3 DEF TypeOK
  <2>9. reader[x].len = 0 /\ \A z \in enabled \ late : nrd[z] <= nwr /\ nrd[z] \in Nat
    BY <1>0, Types DEF Window, Feeding, TypeOK
  <2>10. \A y \in enabled' \ late' : nrd'[y] + reader[y].len <= nwr
    <3> SUFFICES ASSUME NEW y \in enabled' \ late'
                 PROVE  nrd'[y] + reader[y].len <= nwr
      OBVIOUS
    <3>1. PICK z \in enabled \ late : nrd'[y] = nrd[z] /\ (y # x => z = y)
      BY <2>6
    <3>2. CASE y = x
      BY <2>9, <3>1, <3>2
    <3>3. CASE y # x
      BY <2>8, <3>1, <3>3 DEF Feeding
    <3> QED
      BY <3>2, <3>3
  <2>11. Feeding'
    BY <1>0, <2>10 DEF Feeding
  <2> QED
    BY <2>3, <2>4, <2>5, <2>7, <2>11
<1>3. CASE rdMaster = x
  <2>1. UNCHANGED <<rd, nrd, late>>
    BY <1>3, ReaderFacts DEF AddConsumer
  <2>2. x \in enabled /\ enabled' = enabled
    BY <1>0, <1>3, ReaderFacts DEF MasterIsEnabled
  <2>3. TypeOK'
    BY <1>0, <2>1, <2>2 DEF TypeOK
  <2> QED
    BY <1>0, <1>3, <2>1, <2>2, <2>3 DEF MasterIsEnabled, Offsets, Window, Feeding
<1> QED
  BY <1>0, <1>1, <1>2, <1>3, ReaderFacts

LEMMA RemovePreserves ==
  ASSUME IInv, NEW x \in Reader, RemoveConsumer(x)
  PROVE  IInv'
<1> USE DEF IInv
<1>0. /\ reader[x].pc = "wait"
      /\ enabled' = enabled \ {x} /\ late' = late \ {x}
      /\ rdMaster' = IF Other(x) \in enabled THEN Other(x) ELSE Inv
      /\ UNCHANGED <<wr, rd, mem, writer, reader, joins, nwr, nrd>>
  BY DEF RemoveConsumer
<1>1. TypeOK'
  BY <1>0, ReaderFacts DEF TypeOK
<1>2. MasterIsEnabled'
  BY <1>0, ReaderFacts DEF MasterIsEnabled, TypeOK
<1>3. Offsets'
  BY <1>0 DEF Offsets
<1>4. Window' /\ (late \subseteq enabled)'
  BY <1>0 DEF Window
<1>5. Feeding'
  BY <1>0 DEF Feeding
<1> QED
  BY <1>1, <1>2, <1>3, <1>4, <1>5

\* The chunk measured fits behind every reader that holds the writer back.
LEMMA WriterMeasurePreserves ==
  ASSUME IInv, WriterMeasure
  PROVE  IInv'
<1> USE DEF IInv
<1> DEFINE n == IF Total - nwr < Chunk THEN Total - nwr ELSE Chunk
<1>0. /\ writer' = [pc |-> "fill", len |-> n]
      /\ writer.pc = "wait" /\ nwr < Total /\ HasSpace(Chunk)
      /\ UNCHANGED <<wr, rd, enabled, rdMaster, mem, reader, joins, nwr, nrd, late>>
  BY DEF WriterMeasure, offsets
<1>1. n \in 0 .. Size /\ n <= Chunk /\ Chunk \in Nat
  BY <1>0, SizeFacts, Types
<1> HIDE DEF n
<1>2. TypeOK'
  BY <1>0, <1>1 DEF TypeOK, Thread
<1>3. Window'
  <2> SUFFICES ASSUME NEW x \in enabled \ late
               PROVE  nrd[x] <= nwr /\ (nwr + n) - nrd[x] <= Size - 1
    BY <1>0 DEF Window
  <2>1. x \in Reader /\ nwr - nrd[x] \in 0 .. Size - 1
    BY Lag
  <2>2. Chunk <= (Size - 1) - (nwr - nrd[x])
    BY <1>0, <2>1, Measures DEF HasSpace
  <2> QED
    BY <1>1, <2>1, <2>2, SizeFacts, Types
<1>4. Offsets'
  BY <1>0 DEF Offsets
<1>5. Feeding'
  BY <1>0 DEF Feeding
<1>6. MasterIsEnabled' /\ (late \subseteq enabled)'
  BY <1>0 DEF MasterIsEnabled
<1> QED
  BY <1>2, <1>3, <1>4, <1>5, <1>6

LEMMA WriterFillPreserves ==
  ASSUME IInv, WriterFill
  PROVE  IInv'
<1> USE DEF IInv
<1>0. /\ writer.pc = "fill" /\ writer' = [writer EXCEPT !.pc = "update"]
      /\ mem' = [a \in Address |-> IF a \in wr .. (wr + writer.len) - 1
                                   THEN nwr + (a - wr) ELSE mem[a]]
      /\ UNCHANGED <<wr, rd, enabled, rdMaster, reader, joins, nwr, nrd, late>>
  BY DEF WriterFill, AML_TBUF_GetWrPtr, offsets
<1>1. writer'.len = writer.len /\ writer'.pc = "update" /\ writer' \in Thread
  BY <1>0, Types DEF Thread
<1>2. \A a \in Address : mem'[a] \in Nat \cup {Stale}
  <2> SUFFICES ASSUME NEW a \in Address PROVE mem'[a] \in Nat \cup {Stale}
    OBVIOUS
  <2>1. a \in Int /\ mem[a] \in Nat \cup {Stale}
    BY SizeFacts DEF Address, TypeOK
  <2> QED
    BY <1>0, <2>1, Types
<1>3. mem' \in [Address -> Nat \cup {Stale}]
  BY <1>0, <1>2
<1>4. TypeOK'
  BY <1>0, <1>1, <1>3 DEF TypeOK
<1>5. Window' /\ Offsets' /\ Feeding' /\ MasterIsEnabled' /\ (late \subseteq enabled)'
  BY <1>0, <1>1 DEF Window, Offsets, Feeding, MasterIsEnabled
<1> QED
  BY <1>4, <1>5

LEMMA WriterUpdatePreserves ==
  ASSUME IInv, WriterUpdate
  PROVE  IInv'
<1> USE DEF IInv
<1>0. /\ wr' = (wr + writer.len) % Size /\ nwr' = nwr + writer.len
      /\ writer' = [pc |-> "wait", len |-> 0]
      /\ UNCHANGED <<rd, enabled, rdMaster, mem, reader, joins, nrd, late>>
  BY DEF WriterUpdate
<1>1. Size \in Nat \ {0} /\ nwr \in Int /\ writer.len \in Int
  BY SizeFacts, Types
<1>2. ((nwr % Size) + writer.len) % Size = (nwr + writer.len) % Size
  BY <1>1, ModPlus, Zenon
<1>3. wr' = nwr' % Size
  BY <1>0, <1>2 DEF Offsets
<1>4. nwr + writer.len \in Int /\ nwr + writer.len \in Nat
  BY <1>1, Types
<1>5. (nwr + writer.len) % Size \in 0 .. Size - 1
  BY <1>1, <1>4, ModType, Zenon
<1>6. wr' \in 0 .. Size - 1 /\ nwr' \in Nat
  BY <1>0, <1>3, <1>4, <1>5
<1>7. TypeOK'
  BY <1>0, <1>6, SizeFacts DEF TypeOK, Thread
<1>8. Offsets'
  BY <1>0, <1>3 DEF Offsets
<1>9. Window' /\ Feeding'
  <2>1. \A x \in Reader : nrd[x] \in Nat /\ reader[x].len \in Nat
    BY SizeFacts, Types
  <2>2. \A x \in enabled \ late : x \in Reader
    BY DEF TypeOK
  <2>3. writer.len \in Nat /\ nwr \in Nat /\ Size \in Nat
    BY SizeFacts, Types
  <2>4. Window'
    BY <1>0, <2>1, <2>2, <2>3 DEF Window
  <2>5. Feeding'
    BY <1>0, <2>1, <2>2, <2>3 DEF Feeding
  <2> QED
    BY <2>4, <2>5
<1>10. MasterIsEnabled' /\ (late \subseteq enabled)'
  BY <1>0 DEF MasterIsEnabled
<1> QED
  BY <1>7, <1>8, <1>9, <1>10

\* What a reader takes out is behind the writer.
LEMMA ReaderMeasurePreserves ==
  ASSUME IInv, NEW x \in Reader, ReaderMeasure(x)
  PROVE  IInv'
<1> USE DEF IInv
<1>0. /\ x \in enabled /\ reader[x].pc = "wait"
      /\ UNCHANGED <<wr, rd, enabled, rdMaster, mem, writer, joins, nwr, nrd, late>>
  BY DEF ReaderMeasure, offsets
<1>1. ReadChunk \in Nat /\ ReadChunk <= Size /\ ReadChunk >= 1 /\ Fullness(x) \in Int
  BY SizeFacts, Types DEF Fullness
<1>2. PICK n \in 1 .. Size :
        n <= Fullness(x) /\ reader' = [reader EXCEPT ![x] = [pc |-> "take", len |-> n]]
  <2>1. CASE Fullness(x) >= ReadChunk
             /\ reader' = [reader EXCEPT ![x] = [pc |-> "take", len |-> ReadChunk]]
    BY <1>1, <2>1, SizeFacts
  <2>2. CASE Fullness(x) \in 1 .. ReadChunk - 1
             /\ reader' = [reader EXCEPT ![x] = [pc |-> "take", len |-> Fullness(x)]]
    <3> DEFINE f == Fullness(x)
    <3>1. f \in 1 .. Size /\ f <= f
      BY <1>1, <2>2, SizeFacts
    <3>2. reader' = [reader EXCEPT ![x] = [pc |-> "take", len |-> f]]
      BY <2>2
    <3> HIDE DEF f
    <3>3. \E n \in 1 .. Size :
            n <= f /\ reader' = [reader EXCEPT ![x] = [pc |-> "take", len |-> n]]
      BY <3>1, <3>2, Zenon
    <3> QED
      BY <3>3 DEF f
  <2> QED
    BY <2>1, <2>2 DEF ReaderMeasure
<1>3. TypeOK'
  BY <1>0, <1>2, SizeFacts DEF TypeOK, Thread
<1>4. x \notin late => nrd[x] + n <= nwr
  <2> SUFFICES ASSUME x \notin late PROVE nrd[x] + n <= nwr
    OBVIOUS
  <2>1. nwr - nrd[x] \in 0 .. Size - 1
    BY <1>0, Lag
  <2>2. Fullness(x) = nwr - nrd[x]
    BY <2>1, Measures
  <2> QED
    BY <1>2, <2>2, Types, SizeFacts
<1>5. /\ reader'[x] = [pc |-> "take", len |-> n]
      /\ \A y \in Reader : y # x => reader'[y] = reader[y]
  BY <1>2 DEF TypeOK
<1>6. Feeding'
  BY <1>0, <1>4, <1>5 DEF Feeding, TypeOK
<1>7. Window' /\ Offsets' /\ MasterIsEnabled' /\ (late \subseteq enabled)'
  BY <1>0 DEF Window, Offsets, MasterIsEnabled
<1> QED
  BY <1>3, <1>6, <1>7

LEMMA ReaderTakenPreserves ==
  ASSUME IInv, NEW x \in Reader, ReaderTaken(x)
  PROVE  IInv'
<1> USE DEF IInv
<1>0. /\ reader[x].pc = "take" /\ reader' = [reader EXCEPT ![x].pc = "update"]
      /\ UNCHANGED <<wr, rd, enabled, rdMaster, mem, writer, joins, nwr, nrd, late>>
  BY DEF ReaderTaken, offsets
<1>1. /\ reader'[x].len = reader[x].len /\ reader'[x].pc = "update"
      /\ \A y \in Reader : y # x => reader'[y] = reader[y]
  BY <1>0, Types DEF TypeOK, Thread
<1>2. TypeOK'
  BY <1>0 DEF TypeOK, Thread
<1>3. Feeding'
  BY <1>0, <1>1 DEF Feeding
<1>4. Window' /\ Offsets' /\ MasterIsEnabled' /\ (late \subseteq enabled)'
  BY <1>0 DEF Window, Offsets, MasterIsEnabled
<1> QED
  BY <1>2, <1>3, <1>4

LEMMA ReaderUpdatePreserves ==
  ASSUME IInv, NEW x \in Reader, ReaderUpdate(x)
  PROVE  IInv'
<1> USE DEF IInv
<1>0. /\ rd' = [rd EXCEPT ![x] = (@ + reader[x].len) % Size]
      /\ nrd' = [nrd EXCEPT ![x] = @ + reader[x].len]
      /\ reader' = [reader EXCEPT ![x] = [pc |-> "wait", len |-> 0]]
      /\ UNCHANGED <<wr, enabled, rdMaster, mem, writer, joins, nwr, late>>
  BY DEF ReaderUpdate
<1>1. /\ rd'[x] = (rd[x] + reader[x].len) % Size
      /\ nrd'[x] = nrd[x] + reader[x].len
      /\ reader'[x].pc = "wait" /\ reader'[x].len = 0
      /\ \A y \in Reader : y # x => /\ rd'[y] = rd[y] /\ nrd'[y] = nrd[y]
                                    /\ reader'[y] = reader[y]
  BY <1>0 DEF TypeOK
<1>2. /\ Size \in Nat \ {0} /\ nrd[x] \in Int /\ reader[x].len \in Int
      /\ nrd[x] + reader[x].len \in Nat /\ nrd[x] + reader[x].len \in Int
  BY SizeFacts, Types
<1>3. ((nrd[x] % Size) + reader[x].len) % Size = (nrd[x] + reader[x].len) % Size
  BY <1>2, ModPlus, Zenon
<1>4. rd'[x] = nrd'[x] % Size
  BY <1>1, <1>3 DEF Offsets
<1>5. (nrd[x] + reader[x].len) % Size \in 0 .. Size - 1
  BY <1>2, ModType, Zenon
<1>6. rd'[x] \in 0 .. Size - 1 /\ nrd'[x] \in Nat
  BY <1>1, <1>2, <1>4, <1>5
<1>7. TypeOK'
  <2>1. /\ rd' \in [Reader -> 0 .. Size - 1]
        /\ nrd' \in [Reader -> Nat]
    BY <1>0, <1>1, <1>6 DEF TypeOK
  <2>2. reader' \in [Reader -> Thread]
    BY <1>0, SizeFacts DEF TypeOK, Thread
  <2> QED
    BY <1>0, <2>1, <2>2 DEF TypeOK
<1>8. Offsets'
  BY <1>0, <1>1, <1>4 DEF Offsets
<1>9. Window'
  <2> SUFFICES ASSUME NEW y \in enabled \ late
               PROVE  nrd'[y] <= nwr /\ (nwr + writer.len) - nrd'[y] <= Size - 1
    BY <1>0 DEF Window
  <2>1. y \in Reader
    BY DEF TypeOK
  <2>2. CASE y = x
    BY <1>1, <2>1, <2>2, Lag, SizeFacts, Types
  <2>3. CASE y # x
    BY <1>1, <2>1, <2>3 DEF Window
  <2> QED
    BY <2>2, <2>3
<1>10. Feeding'
  <2>1. \A y \in enabled \ late : nrd'[y] + reader'[y].len <= nwr
    <3> SUFFICES ASSUME NEW y \in enabled \ late
                 PROVE  nrd'[y] + reader'[y].len <= nwr
      OBVIOUS
    <3>1. y \in Reader /\ nrd[y] + reader[y].len <= nwr
      BY DEF TypeOK, Feeding
    <3>2. CASE y = x
      BY <1>1, <1>2, <3>1, <3>2
    <3>3. CASE y # x
      BY <1>1, <3>1, <3>3
    <3> QED
      BY <3>2, <3>3
  <2> QED
    BY <1>0, <1>1, <2>1 DEF Feeding
<1>11. MasterIsEnabled' /\ (late \subseteq enabled)'
  BY <1>0 DEF MasterIsEnabled
<1> QED
  BY <1>7, <1>8, <1>9, <1>10, <1>11

LEMMA StutterPreserves ==
  ASSUME IInv, UNCHANGED vars
  PROVE  IInv'
BY DEF IInv, TypeOK, MasterIsEnabled, Offsets, Window, Feeding, vars

-----------------------------------------------------------------------------
(***************************************************************************)
(* Theorems of the specification.                                          *)
(***************************************************************************)

\* The inductive invariant of the T buffer.
THEOREM TBufInvariant == Spec => []IInv
<1>1. IInv /\ [Next]_vars => IInv'
  <2> SUFFICES ASSUME IInv, [Next]_vars PROVE IInv'
    OBVIOUS
  <2>1. CASE \E x \in Reader : AddConsumer(x)
    BY <2>1, AddPreserves
  <2>2. CASE \E x \in Reader : RemoveConsumer(x)
    BY <2>2, RemovePreserves
  <2>3. CASE WriterMeasure
    BY <2>3, WriterMeasurePreserves
  <2>4. CASE WriterFill
    BY <2>4, WriterFillPreserves
  <2>5. CASE WriterUpdate
    BY <2>5, WriterUpdatePreserves
  <2>6. CASE \E x \in Reader : ReaderMeasure(x)
    BY <2>6, ReaderMeasurePreserves
  <2>7. CASE \E x \in Reader : ReaderTaken(x)
    BY <2>7, ReaderTakenPreserves
  <2>8. CASE \E x \in Reader : ReaderUpdate(x)
    BY <2>8, ReaderUpdatePreserves
  <2>9. CASE UNCHANGED vars
    BY <2>9, StutterPreserves
  <2> QED
    BY <2>1, <2>2, <2>3, <2>4, <2>5, <2>6, <2>7, <2>8, <2>9
       DEF Next, WriterStep, ReaderStep
<1> QED
  BY InitInv, <1>1, PTL DEF Spec

\* The offsets, threads and memory keep their types, for every ring.
THEOREM TBufTypeOK == Spec => []TypeOK
<1>1. IInv => TypeOK
  BY DEF IInv
<1> QED
  BY <1>1, TBufInvariant, PTL

\* AML_TBUF_AddConsumer never copies the offset of a reader that has left.
THEOREM TBufMasterIsEnabled == Spec => []MasterIsEnabled
<1>1. IInv => MasterIsEnabled
  BY DEF IInv
<1> QED
  BY <1>1, TBufInvariant, PTL

\* AML_TBUF_GetSpace and GetFullness keep the writer from lapping a reader,
\* whatever joins and leaves between a measure and its update.
THEOREM TBufNeverLapped == Spec => []NeverLapped
<1>1. IInv => NeverLapped
  <2> SUFFICES ASSUME IInv, NEW x \in enabled \ late
               PROVE  /\ nrd[x] <= nwr
                      /\ nwr - nrd[x] <= Size - 1
                      /\ Fullness(x) = nwr - nrd[x]
    BY DEF NeverLapped
  <2>1. x \in Reader /\ nwr - nrd[x] \in 0 .. Size - 1
    BY Lag
  <2>2. Fullness(x) = nwr - nrd[x]
    BY <2>1, Measures DEF IInv
  <2> QED
    BY <2>1, <2>2, SizeFacts, Types DEF IInv
<1> QED
  BY <1>1, TBufInvariant, PTL

\* The capture device never writes, in the ring or in the pad, to bytes that
\* a feeding thread has handed out.
THEOREM TBufBlocksAreDisjoint == Spec => []BlocksAreDisjoint
<1>1. IInv => BlocksAreDisjoint
  <2> SUFFICES ASSUME IInv, NEW x \in enabled \ late,
                      NEW a \in wr .. (wr + writer.len) - 1,
                      a \in rd[x] .. (rd[x] + reader[x].len) - 1
               PROVE  FALSE
    BY DEF BlocksAreDisjoint, AML_TBUF_GetWrPtr, AML_TBUF_GetRdPtr
  <2> DEFINE L == nwr - nrd[x]
  <2>1. /\ x \in Reader /\ L \in 0 .. Size - 1
        /\ L + writer.len <= Size - 1 /\ reader[x].len <= L
    BY Lag
  <2>2. /\ wr >= rd[x] => wr = rd[x] + L
        /\ wr < rd[x] => wr + Size = rd[x] + L
    BY <2>1, Measures DEF IInv
  <2>3. /\ Size \in Nat \ {0} /\ wr \in Int /\ writer.len \in Int
        /\ rd[x] \in Int /\ reader[x].len \in Int
    BY <2>1, SizeFacts, Types DEF IInv
  <2> HIDE DEF L
  <2> QED
    BY <2>1, <2>2, <2>3
<1> QED
  BY <1>1, TBufInvariant, PTL

-----------------------------------------------------------------------------
(***************************************************************************)
(* In a ring of whole chunks the readers feed the captured stream.         *)
(***************************************************************************)

\* A chunk that starts at a multiple of its size inside the ring ends inside
\* the ring, and the next one starts at a multiple again.
LEMMA ChunkEnds ==
  ASSUME NEW c \in 1 .. Size, Size % c = 0, NEW o \in 0 .. Size - 1, o % c = 0
  PROVE  o + c <= Size /\ ((o + c) % Size) % c = 0
<1>0. /\ Size \in Nat \ {0} /\ c \in Nat \ {0} /\ o \in Int /\ Size \in Int /\ -o \in Int
      /\ c \in Int
  BY SizeFacts
<1>1. 0 % c = 0
  BY <1>0, ModSmall
<1>2. (-o) % c = 0
  <2>0. 0 \in Int /\ 0 - 0 = 0 /\ 0 - o = -o
    BY <1>0
  <2>1. (0 - (o % c)) % c = (0 - o) % c
    BY <1>0, <2>0, ModMinusReduced, Zenon
  <2> QED
    BY <1>1, <2>0, <2>1, Zenon
<1>3. (Size - o) % c = 0
  <2>1. ((Size % c) + (-o)) % c = (Size + (-o)) % c
    BY <1>0, ModPlus, Zenon
  <2>2. 0 + (-o) = -o /\ Size + (-o) = Size - o
    BY <1>0
  <2> QED
    BY <1>2, <2>1, <2>2
<1>4. o + c <= Size
  <2> SUFFICES ASSUME Size - o < c PROVE FALSE
    BY <1>0
  <2>1. Size - o \in 0 .. c - 1 /\ Size - o # 0
    BY <1>0
  <2> QED
    BY <1>0, <1>3, <2>1, ModSmall
<1>5. (o + c) % c = 0
  <2>1. ((o % c) + c) % c = (o + c) % c
    BY <1>0, ModPlus, Zenon
  <2>2. 0 + c = c * 1 + 0 /\ 0 \in 0 .. c - 1 /\ 0 + c \in Int
    BY <1>0
  <2>3. (0 + c) % c = 0
    BY <1>0, <2>2, ModIs
  <2> QED
    BY <2>1, <2>3
<1>6. CASE o + c = Size
  <2>1. Size = Size * 1 + 0 /\ 0 \in 0 .. Size - 1
    BY <1>0
  <2>2. Size % Size = 0
    BY <1>0, <2>1, ModIs
  <2> QED
    BY <1>1, <1>4, <1>6, <2>2
<1>7. CASE o + c < Size
  <2>1. o + c \in 0 .. Size - 1
    BY <1>0, <1>7
  <2>2. (o + c) % Size = o + c
    BY <1>0, <2>1, ModSmall
  <2> QED
    BY <1>4, <1>5, <2>2
<1> QED
  BY <1>0, <1>4, <1>6, <1>7

\* A byte j behind the offset of position n is byte n + j, up to the end of
\* the ring.
LEMMA CellOf ==
  ASSUME NEW n \in Nat, NEW o \in 0 .. Size - 1, o = n % Size,
         NEW j \in Nat, o + j < Size
  PROVE  (n + j) % Size = o + j
<1>1. Size \in Nat \ {0} /\ n \in Int /\ j \in Int /\ o + j \in 0 .. Size - 1
  BY SizeFacts
<1>2. ((n % Size) + j) % Size = (n + j) % Size
  BY <1>1, ModPlus, Zenon
<1>3. (o + j) % Size = o + j
  BY <1>1, ModSmall
<1> QED
  BY <1>2, <1>3

LEMMA InitStream == Init => StreamInv
<1>1. 0 % Chunk = 0
  BY SizeFacts, ModSmall
<1> QED
  BY <1>1, SizeFacts
     DEF Init, StreamInv, WritesWholeChunks, ReadsWholeChunks, Holds

\* The steps that leave the writer, its position and the memory alone.
LEMMA WriterIdle ==
  ASSUME StreamInv, UNCHANGED <<wr, mem, writer, nwr>>
  PROVE  WritesWholeChunks' /\ Holds'
BY DEF StreamInv, WritesWholeChunks, Holds

LEMMA AddStream ==
  ASSUME WholeChunks, IInv, StreamInv, NEW x \in Reader, AddConsumer(x)
  PROVE  StreamInv'
<1>0. /\ reader[x].pc = "wait" /\ reader[x].len = 0 /\ reader' = reader
      /\ rdMaster \in Reader \cup {Inv}
      /\ enabled' = enabled \cup {x} /\ UNCHANGED <<wr, mem, writer, nwr>>
  BY DEF AddConsumer, IInv, Feeding, TypeOK
<1>1. WritesWholeChunks' /\ Holds'
  BY <1>0, WriterIdle
<1>2. ReadsWholeChunks'
  <2>1. CASE rdMaster = Inv
    <3>1. /\ rd' = [rd EXCEPT ![x] = 0]
          /\ nrd' = [nrd EXCEPT ![x] = nwr - wr]
          /\ late' = IF writer.pc = "wait" THEN late ELSE late \cup {x}
      BY <2>1, ReaderFacts DEF AddConsumer
    <3>2. enabled = {}
      BY <2>1, ReaderFacts DEF MasterIsEnabled, IInv, TypeOK
    <3>3. \A y \in enabled' \ late' : y = x /\ rd'[y] = 0
      BY <1>0, <3>1, <3>2 DEF IInv, TypeOK
    <3>4. 0 % ReadChunk = 0
      BY SizeFacts, ModSmall
    <3> QED
      BY <1>0, <3>3, <3>4 DEF ReadsWholeChunks
  <2>2. CASE rdMaster = Other(x)
    <3> DEFINE o == Other(x)
    <3>0. o \in Reader /\ o # x /\ o # Inv
      BY ReaderFacts
    <3>1. /\ rd' = [rd EXCEPT ![x] = rd[o]]
          /\ nrd' = [nrd EXCEPT ![x] = nrd[o]]
          /\ late' = IF o \in late THEN late \cup {x} ELSE late \ {x}
      BY <2>2, <3>0 DEF AddConsumer
    <3>2. o \in enabled
      BY <2>2, <3>0 DEF MasterIsEnabled, IInv
    <3> HIDE DEF o
    <3>3. \A y \in enabled' \ late' :
            \E z \in enabled \ late : /\ rd'[y] = rd[z] /\ nrd'[y] = nrd[z]
                                      /\ y # x => z = y
      BY <1>0, <3>0, <3>1, <3>2 DEF IInv, TypeOK
    <3> QED
      BY <1>0, <3>3 DEF ReadsWholeChunks, TailFits, StreamInv
  <2>3. CASE rdMaster = x
    <3>1. UNCHANGED <<rd, nrd, late>> /\ enabled' = enabled
      BY <1>0, <2>3, ReaderFacts DEF AddConsumer, MasterIsEnabled, IInv
    <3> QED
      BY <1>0, <3>1 DEF ReadsWholeChunks, TailFits, StreamInv
  <2> QED
    BY <1>0, <2>1, <2>2, <2>3, ReaderFacts
<1> QED
  BY <1>1, <1>2 DEF StreamInv

LEMMA WriterMeasureStream ==
  ASSUME WholeChunks, IInv, StreamInv, WriterMeasure
  PROVE  StreamInv'
<1> DEFINE n == IF Total - nwr < Chunk THEN Total - nwr ELSE Chunk
<1>0. /\ writer' = [pc |-> "fill", len |-> n]
      /\ writer.pc = "wait" /\ nwr < Total
      /\ UNCHANGED <<wr, rd, enabled, rdMaster, mem, reader, joins, nwr, nrd, late>>
  BY DEF WriterMeasure, offsets
<1>1. /\ Size \in Nat /\ Chunk \in 1 .. Size /\ Total \in Nat /\ nwr \in Nat
      /\ wr \in 0 .. Size - 1 /\ writer.len = 0
  BY <1>0, SizeFacts, Types DEF IInv, Feeding
<1>2. wr + Chunk <= Size
  BY <1>0, <1>1, ChunkEnds DEF WholeChunks, StreamInv, WritesWholeChunks
<1>3. n \in Nat /\ n <= Chunk /\ nwr + n <= Total /\ (n = Chunk \/ nwr + n = Total)
  BY <1>0, <1>1
<1> HIDE DEF n
<1>4. WritesWholeChunks'
  BY <1>0, <1>1, <1>2, <1>3 DEF StreamInv, WritesWholeChunks
<1>5. ReadsWholeChunks'
  BY <1>0 DEF StreamInv, ReadsWholeChunks, TailFits
<1>6. Holds'
  BY <1>0, <1>1, <1>3 DEF StreamInv, Holds
<1> QED
  BY <1>4, <1>5, <1>6 DEF StreamInv

\* The block filled replaces no byte that Holds speaks of: two positions less
\* than a ring apart have two cells.
LEMMA WriterFillStream ==
  ASSUME WholeChunks, IInv, StreamInv, WriterFill
  PROVE  StreamInv'
<1>0. /\ writer.pc = "fill" /\ writer' = [writer EXCEPT !.pc = "update"]
      /\ mem' = [a \in Address |-> IF a \in wr .. (wr + writer.len) - 1
                                   THEN nwr + (a - wr) ELSE mem[a]]
      /\ UNCHANGED <<wr, rd, enabled, rdMaster, reader, joins, nwr, nrd, late>>
  BY DEF WriterFill, AML_TBUF_GetWrPtr, offsets
<1>1. /\ Size \in Nat \ {0} /\ nwr \in Nat /\ wr \in 0 .. Size - 1 /\ wr = nwr % Size
      /\ writer.len \in Nat /\ wr + writer.len <= Size
  BY <1>0, SizeFacts, Types DEF IInv, Offsets, StreamInv, WritesWholeChunks
<1>2. writer'.len = writer.len /\ writer'.pc = "update"
  BY <1>0, Types DEF IInv, Thread
<1>3. WritesWholeChunks'
  BY <1>0, <1>1, <1>2 DEF StreamInv, WritesWholeChunks
<1>4. ReadsWholeChunks'
  BY <1>0 DEF StreamInv, ReadsWholeChunks, TailFits
<1>5. Holds'
  <2> SUFFICES ASSUME NEW p \in 0 .. (nwr + writer.len) - 1,
                      (nwr + writer.len) - Size <= p
               PROVE  mem'[p % Size] = p
    BY <1>0, <1>2 DEF Holds
  <2>0. p \in Int /\ p \in Nat /\ nwr \in Int
    BY <1>1
  <2>1. p % Size \in 0 .. Size - 1
    BY <1>1, <2>0, ModType
  <2>2. p % Size \in Address /\ Size \in Int
    BY <1>1, <2>1 DEF Address
  <2>3. CASE p >= nwr
    <3> DEFINE j == p - nwr
    <3>1. j \in Nat /\ j < writer.len /\ wr + j < Size /\ p = nwr + j
      BY <1>1, <2>0, <2>3
    <3> HIDE DEF j
    <3>2. p % Size = wr + j
      BY <1>1, <3>1, CellOf
    <3>3. wr + j \in wr .. (wr + writer.len) - 1 /\ (wr + j) - wr = j
      BY <1>1, <3>1
    <3>4. mem'[p % Size] = nwr + ((p % Size) - wr)
      BY <1>0, <2>2, <3>2, <3>3
    <3> QED
      BY <3>1, <3>2, <3>3, <3>4
  <2>4. CASE p < nwr
    <3>1. mem[p % Size] = p
      BY <2>4 DEF StreamInv, Holds
    <3>2. p % Size \notin wr .. (wr + writer.len) - 1
      <4> SUFFICES ASSUME p % Size \in wr .. (wr + writer.len) - 1 PROVE FALSE
        OBVIOUS
      <4> DEFINE j == (p % Size) - wr
                 q == nwr + j
      <4>1. j \in Nat /\ j < writer.len /\ wr + j < Size /\ p % Size = wr + j
        BY <1>1, <2>1
      <4>2. q \in Int /\ q - p \in 0 .. Size - 1 /\ q # p
        BY <1>1, <2>0, <2>4, <4>1
      <4> HIDE DEF j
      <4>3. q % Size = p % Size
        BY <1>1, <4>1, CellOf
      <4> HIDE DEF q
      <4> QED
        BY <1>1, <2>0, <4>2, <4>3, ModApart
    <3> QED
      BY <1>0, <2>2, <3>1, <3>2
  <2> QED
    BY <1>1, <2>0, <2>3, <2>4
<1> QED
  BY <1>3, <1>4, <1>5 DEF StreamInv

LEMMA WriterUpdateStream ==
  ASSUME WholeChunks, IInv, StreamInv, WriterUpdate
  PROVE  StreamInv'
<1>0. /\ writer.pc = "update"
      /\ wr' = (wr + writer.len) % Size /\ nwr' = nwr + writer.len
      /\ writer' = [pc |-> "wait", len |-> 0]
      /\ UNCHANGED <<rd, enabled, rdMaster, mem, reader, joins, nrd, late>>
  BY DEF WriterUpdate
<1>1. /\ Size \in Nat \ {0} /\ Chunk \in 1 .. Size /\ Total \in Nat
      /\ nwr \in Nat /\ wr \in 0 .. Size - 1 /\ writer.len \in Nat
      /\ nwr + writer.len <= Total
      /\ writer.len = Chunk \/ writer.len = 0 \/ nwr + writer.len = Total
      /\ nwr < Total => wr % Chunk = 0
  BY <1>0, SizeFacts, Types DEF IInv, StreamInv, WritesWholeChunks
<1>2. nwr + writer.len < Total => wr' % Chunk = 0
  <2> SUFFICES ASSUME nwr + writer.len < Total PROVE wr' % Chunk = 0
    OBVIOUS
  <2>1. wr % Chunk = 0 /\ (writer.len = Chunk \/ writer.len = 0)
    BY <1>1
  <2>2. CASE writer.len = Chunk
    BY <1>0, <1>1, <2>1, <2>2, ChunkEnds DEF WholeChunks
  <2>3. CASE writer.len = 0
    <3>1. wr + 0 = wr /\ wr % Size = wr
      BY <1>1, ModSmall
    <3> QED
      BY <1>0, <2>1, <2>3, <3>1
  <2> QED
    BY <2>1, <2>2, <2>3
<1>3. WritesWholeChunks'
  BY <1>0, <1>1, <1>2 DEF WritesWholeChunks
<1>4. ReadsWholeChunks'
  BY <1>0 DEF StreamInv, ReadsWholeChunks, TailFits
<1>5. Holds'
  BY <1>0, <1>1 DEF StreamInv, Holds
<1> QED
  BY <1>3, <1>4, <1>5 DEF StreamInv

\* The writer's positions never pass the end of the stream, nor do the readers'.
LEMMA Ends ==
  ASSUME IInv, StreamInv, NEW x \in enabled \ late
  PROVE  /\ x \in Reader /\ nrd[x] \in Nat /\ reader[x].len \in Nat
         /\ nwr \in Nat /\ Total \in Nat /\ nwr <= Total
         /\ nrd[x] + reader[x].len <= Total
<1>1. x \in Reader /\ nrd[x] + reader[x].len <= nwr
  BY Lag, Types, SizeFacts DEF IInv, Feeding
<1>2. nwr + writer.len <= Total /\ writer.len \in Nat /\ nwr \in Nat
  BY Types, SizeFacts DEF IInv, StreamInv, WritesWholeChunks
<1> QED
  BY <1>1, <1>2, Types, SizeFacts DEF IInv

LEMMA ReaderMeasureStream ==
  ASSUME WholeChunks, IInv, StreamInv, NEW x \in Reader, ReaderMeasure(x)
  PROVE  StreamInv'
<1>0. /\ x \in enabled
      /\ UNCHANGED <<wr, rd, enabled, rdMaster, mem, writer, joins, nwr, nrd, late>>
  BY DEF ReaderMeasure, offsets
<1>1. WritesWholeChunks' /\ Holds'
  BY <1>0, WriterIdle
<1>2. /\ \A y \in Reader : y # x => reader'[y] = reader[y]
      /\ reader'[x].len = ReadChunk \/ Total - nrd[x] < ReadChunk
  BY DEF ReaderMeasure, IInv, TypeOK
<1>3. \A y \in enabled \ late : y \in Reader
  BY DEF IInv, TypeOK
<1>4. ReadsWholeChunks'
  BY <1>0, <1>2, <1>3 DEF StreamInv, ReadsWholeChunks, TailFits
<1> QED
  BY <1>1, <1>4 DEF StreamInv

LEMMA ReaderTakenStream ==
  ASSUME WholeChunks, IInv, StreamInv, NEW x \in Reader, ReaderTaken(x)
  PROVE  StreamInv'
<1>0. /\ reader[x].pc = "take" /\ reader' = [reader EXCEPT ![x].pc = "update"]
      /\ UNCHANGED <<wr, rd, enabled, rdMaster, mem, writer, joins, nwr, nrd, late>>
  BY DEF ReaderTaken, offsets
<1>1. WritesWholeChunks' /\ Holds'
  BY <1>0, WriterIdle
<1>2. \A y \in Reader : reader'[y].len = reader[y].len
  BY <1>0, Types DEF IInv, TypeOK, Thread
<1>3. \A y \in enabled \ late : y \in Reader
  BY DEF IInv, TypeOK
<1>4. ReadsWholeChunks'
  BY <1>0, <1>2, <1>3 DEF StreamInv, ReadsWholeChunks, TailFits
<1> QED
  BY <1>1, <1>4 DEF StreamInv

\* Where a reader's next block starts: at a chunk, or inside the last one.
LEMMA ReaderUpdateStream ==
  ASSUME WholeChunks, IInv, StreamInv, NEW x \in Reader, ReaderUpdate(x)
  PROVE  StreamInv'
<1>0. /\ rd' = [rd EXCEPT ![x] = (@ + reader[x].len) % Size]
      /\ nrd' = [nrd EXCEPT ![x] = @ + reader[x].len]
      /\ reader' = [reader EXCEPT ![x] = [pc |-> "wait", len |-> 0]]
      /\ UNCHANGED <<wr, enabled, rdMaster, mem, writer, joins, nwr, late>>
  BY DEF ReaderUpdate
<1>1. /\ rd'[x] = (rd[x] + reader[x].len) % Size
      /\ nrd'[x] = nrd[x] + reader[x].len
      /\ reader'[x].len = 0
      /\ \A y \in Reader : y # x => /\ rd'[y] = rd[y] /\ nrd'[y] = nrd[y]
                                    /\ reader'[y] = reader[y]
  BY <1>0 DEF IInv, TypeOK
<1>2. WritesWholeChunks' /\ Holds'
  BY <1>0, WriterIdle
<1>3. ASSUME x \in enabled \ late
      PROVE  rd'[x] % ReadChunk = 0 \/ TailFits(x)'
  <2> DEFINE n == reader[x].len
             o == rd[x]
             left == Total - nrd[x]
  <2>1. /\ Size \in Nat \ {0} /\ ReadChunk \in 1 .. Size /\ o \in 0 .. Size - 1
        /\ n \in Nat /\ left \in Nat /\ n <= left
        /\ Total - nrd'[x] = left - n
    BY <1>1, <1>3, Ends, SizeFacts, Types DEF IInv
  <2>2. /\ o % ReadChunk = 0 \/ (left < ReadChunk /\ o + left <= Size)
        /\ n \in {0, ReadChunk} \/ left < ReadChunk
    BY <1>3 DEF StreamInv, ReadsWholeChunks, TailFits
  <2>3. o % ReadChunk = 0 =>
          o + ReadChunk <= Size /\ ((o + ReadChunk) % Size) % ReadChunk = 0
    BY <2>1, ChunkEnds DEF WholeChunks
  <2>4. o % Size = o /\ 0 % ReadChunk = 0
    BY <2>1, ModSmall
  <2>5. rd'[x] = (o + n) % Size
    BY <1>1
  <2> HIDE DEF n, o, left
  <2>6. CASE n = 0
    <3>1. o + n = o /\ left - n = left
      BY <2>1, <2>6
    <3> QED
      BY <2>1, <2>2, <2>4, <2>5, <3>1 DEF TailFits
  <2>7. CASE n = ReadChunk /\ o % ReadChunk = 0
    BY <2>3, <2>5, <2>7
  <2>8. CASE left < ReadChunk
    <3>1. o + left <= Size
      BY <2>1, <2>2, <2>3, <2>8
    <3>2. CASE o + n < Size
      <4>1. (o + n) % Size = o + n
        BY <2>1, <3>2, ModSmall
      <4> QED
        BY <2>1, <2>5, <2>8, <3>1, <4>1 DEF TailFits
    <3>3. CASE o + n = Size
      <4>1. Size = Size * 1 + 0 /\ 0 \in 0 .. Size - 1 /\ Size \in Int
        BY <2>1
      <4>2. Size % Size = 0
        BY <2>1, <4>1, ModIs
      <4> QED
        BY <2>4, <2>5, <3>3, <4>2
    <3> QED
      BY <2>1, <3>1, <3>2, <3>3
  <2> QED
    BY <2>1, <2>2, <2>6, <2>7, <2>8
<1>4. \A y \in enabled \ late : y \in Reader
  BY DEF IInv, TypeOK
<1>5. ReadsWholeChunks'
  BY <1>0, <1>1, <1>3, <1>4 DEF StreamInv, ReadsWholeChunks, TailFits
<1> QED
  BY <1>2, <1>5 DEF StreamInv

\* In a ring of whole chunks, StreamInv is inductive relative to IInv.
THEOREM TBufStreamInvariant ==
  ASSUME WholeChunks
  PROVE  Spec => []StreamInv
<1>1. IInv /\ StreamInv /\ [Next]_vars => StreamInv'
  <2> SUFFICES ASSUME IInv, StreamInv, [Next]_vars PROVE StreamInv'
    OBVIOUS
  <2>1. CASE \E x \in Reader : AddConsumer(x)
    BY <2>1, AddStream
  <2>2. CASE \E x \in Reader : RemoveConsumer(x)
    <3>1. /\ enabled' \ late' \subseteq enabled \ late
          /\ UNCHANGED <<wr, rd, mem, writer, reader, nwr, nrd>>
      BY <2>2 DEF RemoveConsumer
    <3> QED
      BY <3>1, WriterIdle DEF StreamInv, ReadsWholeChunks, TailFits
  <2>3. CASE WriterMeasure
    BY <2>3, WriterMeasureStream
  <2>4. CASE WriterFill
    BY <2>4, WriterFillStream
  <2>5. CASE WriterUpdate
    BY <2>5, WriterUpdateStream
  <2>6. CASE \E x \in Reader : ReaderMeasure(x)
    BY <2>6, ReaderMeasureStream
  <2>7. CASE \E x \in Reader : ReaderTaken(x)
    BY <2>7, ReaderTakenStream
  <2>8. CASE \E x \in Reader : ReaderUpdate(x)
    BY <2>8, ReaderUpdateStream
  <2>9. CASE UNCHANGED vars
    BY <2>9, WriterIdle DEF vars, StreamInv, ReadsWholeChunks, TailFits
  <2> QED
    BY <2>1, <2>2, <2>3, <2>4, <2>5, <2>6, <2>7, <2>8, <2>9
       DEF Next, WriterStep, ReaderStep
<1> QED
  BY InitStream, <1>1, TBufInvariant, PTL DEF Spec

\* In a ring of whole chunks, every byte captured that a counted reader has not
\* read yet is still in the ring: AML_TBUF_GetSpace keeps the writer from it,
\* and no block of the writer's runs into the pad instead.
THEOREM TBufKeepsTheUnread ==
  ASSUME WholeChunks
  PROVE  Spec => []KeepsTheUnread
<1>1. IInv /\ StreamInv => KeepsTheUnread
  <2> SUFFICES ASSUME IInv, StreamInv, NEW x \in enabled \ late, NEW p \in nrd[x] .. nwr - 1
               PROVE  mem[p % Size] = p
    BY DEF KeepsTheUnread
  <2>1. /\ nrd[x] \in Nat /\ nwr \in Nat /\ Size \in Nat \ {0}
        /\ writer.len \in Nat /\ (nwr - nrd[x]) + writer.len <= Size - 1
    BY Lag, SizeFacts, Types DEF IInv
  <2>2. /\ p \in 0 .. (nwr + writer.len) - 1
        /\ (nwr + writer.len) - Size <= p /\ p < nwr
    BY <2>1
  <2> QED
    BY <2>2 DEF StreamInv, Holds
<1> QED
  BY <1>1, TBufInvariant, TBufStreamInvariant, PTL

\* In a ring of whole chunks, as the test's is, every block handed to
\* AML_FLATBUF_Write is the captured stream, whoever joins and leaves.
THEOREM TBufFeedsTheStream ==
  ASSUME WholeChunks
  PROVE  Spec => []FeedsTheStream
<1>1. IInv /\ StreamInv => FeedsTheStream
  <2> SUFFICES ASSUME IInv, StreamInv, NEW x \in enabled \ late,
                      NEW i \in 0 .. reader[x].len - 1
               PROVE  mem[rd[x] + i] = nrd[x] + i
    BY DEF FeedsTheStream, AML_TBUF_GetRdPtr
  <2> DEFINE p == nrd[x] + i
             n == reader[x].len
  <2>1. /\ x \in Reader /\ nrd[x] \in Nat /\ n \in Nat /\ nwr \in Nat
        /\ nrd[x] + n <= nwr /\ nrd[x] + n <= Total /\ Total \in Nat
        /\ (nwr + writer.len) - nrd[x] <= Size - 1
    BY Ends DEF IInv, Window, Feeding
  <2>2. /\ Size \in Nat \ {0} /\ rd[x] \in 0 .. Size - 1 /\ rd[x] = nrd[x] % Size
        /\ writer.len \in Nat /\ i \in Nat /\ i < n
    BY <2>1, SizeFacts, Types DEF IInv, Offsets
  <2>3. rd[x] + n <= Size
    <3>1. /\ rd[x] % ReadChunk = 0 \/ TailFits(x)
          /\ n \in {0, ReadChunk} \/ Total - nrd[x] < ReadChunk
      BY DEF StreamInv, ReadsWholeChunks
    <3>2. ReadChunk \in 1 .. Size
      BY SizeFacts
    <3>3. CASE rd[x] % ReadChunk = 0
      <4>1. rd[x] + ReadChunk <= Size
        BY <2>2, <3>2, <3>3, ChunkEnds DEF WholeChunks
      <4>2. n <= ReadChunk
        BY <2>1, <3>1, <3>2
      <4> QED
        BY <2>1, <2>2, <3>2, <4>1, <4>2
    <3>4. CASE TailFits(x)
      BY <2>1, <2>2, <3>4 DEF TailFits
    <3> QED
      BY <3>1, <3>3, <3>4
  <2>4. p % Size = rd[x] + i
    BY <2>1, <2>2, <2>3, CellOf
  <2>5. /\ p \in 0 .. (nwr + writer.len) - 1
        /\ (nwr + writer.len) - Size <= p /\ p < nwr
    BY <2>1, <2>2
  <2> QED
    BY <2>4, <2>5 DEF StreamInv, Holds
<1> QED
  BY <1>1, TBufInvariant, TBufStreamInvariant, PTL
=============================================================================
