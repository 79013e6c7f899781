---------------------------- MODULE RingBufProofs ----------------------------
(***************************************************************************)
(* The ring's safety properties hold for every word, every power-of-two    *)
(* size below it (every size that divides it at least twice), every        *)
(* length of the calls and every build: IInv is inductive and implies      *)
(* them.                                                                   *)
(***************************************************************************)
EXTENDS RingBuf, ModularArithmetic, SequenceTheorems

LEMMA BoundTypes == MaxLen \in Nat \ {0} /\ Word \in Nat
BY RingAssumption

LEMMA SizeFacts ==
  ASSUME NEW s \in Sizes
  PROVE  /\ s \in Nat \ {0} /\ Word \in Nat \ {0}
         /\ s < Word
         /\ \E k \in Nat \ {0} : Word = s * k
<1>1. s \in Nat \ {0} /\ Word \in Nat
  BY RingAssumption
<1>2. PICK k \in 2 .. Word : Word = s * k
  BY RingAssumption
<1>3. k \in Nat \ {0} /\ k >= 2
  BY <1>1, <1>2
<1>4. s * (k - 1) >= s
  BY <1>1, <1>3, MultipleIsLarge
<1>5. s * k = s * (k - 1) + s
  BY <1>1, <1>3
<1>6. s < Word
  BY <1>1, <1>2, <1>3, <1>4, <1>5
<1> QED
  BY <1>1, <1>2, <1>3, <1>6

\* Whatever the split into two memcpys, byte i of a copy that starts at stream
\* position c lies at position c + i reduced by the ring size.
LEMMA SlotIs ==
  ASSUME size \in Sizes, NEW c \in Nat, NEW len \in 0 .. size,
         NEW i \in 0 .. len - 1
  PROVE  Slot(c % Word, len, i) = (c + i) % size
<1>0. size \in Nat \ {0}
  BY SizeFacts
<1>1. PICK k \in Nat \ {0} : Word = size * k
  BY SizeFacts
<1> DEFINE pos == c % size
<1>t. c \in Int /\ i \in Int
  BY <1>0
<1>2. (c % Word) % size = pos
  <2>1. (c % (size * k)) % size = c % size
    BY <1>0, <1>t, ModMod, Zenon
  <2> QED
    BY <1>1, <2>1
<1>3. pos \in 0 .. size - 1
  BY <1>0, <1>t, ModType, Zenon
<1>4. (pos + i) % size = (c + i) % size
  BY <1>0, <1>t, ModPlus, Zenon
<1> HIDE DEF pos
<1>5. CASE pos + i < size
  <2>1. (pos + i) % size = pos + i
    BY <1>0, <1>3, <1>5, ModSmall
  <2> QED
    BY <1>0, <1>2, <1>3, <1>4, <1>5, <2>1 DEF Slot
<1>6. CASE pos + i >= size
  <2>1. (pos + i) % size = pos + i - size
    BY <1>0, <1>3, <1>6, ModWrap
  <2> QED
    BY <1>0, <1>2, <1>3, <1>4, <1>6, <2>1 DEF Slot
<1> QED
  BY <1>0, <1>3, <1>5, <1>6

\* The words measure the counters, across any number of wraps.
LEMMA Measures ==
  ASSUME TypeOK, Counters
  PROVE  /\ Used = nin - nout
         /\ Free = size - (nin - nout)
         /\ Used \in 0 .. size /\ Free \in 0 .. size
<1>0. size \in Nat \ {0} /\ Word \in Nat \ {0} /\ size < Word
  BY SizeFacts DEF TypeOK
<1>1. nin \in Nat /\ nout \in Nat /\ nin - nout \in 0 .. size
  BY <1>0 DEF TypeOK, Counters
<1>2. Used = nin - nout
  BY <1>0, <1>1, ModMinus DEF Used, Counters
<1>3. Free = size - (nin - nout)
  <2> DEFINE a == size - (nin % Word)
             x == nin % Word
             y == nout % Word
  <2>0. x \in Int /\ y \in Int /\ a = size - x
    BY <1>0, <1>1, ModType
  <2>1. (y + a) % Word = (nout + a) % Word
    <3>1. nout \in Int /\ a \in Int
      BY <1>0, <1>1, <2>0
    <3> QED
      BY <1>0, <3>1, ModPlus, Zenon
  <2>2. ((nout + size) - x) % Word = ((nout + size) - nin) % Word
    <3>1. nout + size \in Int /\ nin \in Int
      BY <1>0, <1>1
    <3> QED
      BY <1>0, <3>1, ModMinusReduced, Zenon
  <2>3. ((nout + size) - nin) % Word = size - (nin - nout)
    BY <1>0, <1>1, ModSmall
  <2>4. Free = (size - x + y) % Word
    BY DEF Free, Counters
  <2> HIDE DEF x, y, a
  <2>5. nout + a = (nout + size) - x /\ size - x + y = y + a
    BY <1>0, <1>1, <2>0
  <2> QED
    BY <2>1, <2>2, <2>3, <2>4, <2>5
<1> QED
  BY <1>0, <1>1, <1>2, <1>3

-----------------------------------------------------------------------------
(***************************************************************************)
(* IInv is inductive: one lemma per step of the two threads.               *)
(***************************************************************************)

LEMMA InitIInv == Init => IInv
<1> SUFFICES ASSUME Init PROVE IInv
  OBVIOUS
<1>1. size \in Nat \ {0} /\ Word \in Nat \ {0} /\ size < Word
  BY SizeFacts DEF Init
<1>2. 0 % Word = 0
  BY <1>1, ModSmall
<1>3. NoCall \in Call
  BY <1>1, BoundTypes DEF NoCall, Call, Steps
<1>4. TypeOK
  BY <1>1, <1>3 DEF Init, TypeOK
<1>5. Counters /\ Producer /\ Consumer
  BY <1>1, <1>2 DEF Init, Counters, Producer, Consumer, NoCall
<1>6. Content /\ ReadsTheStream
  BY <1>1 DEF Init, Content, ReadsTheStream, NoCall
<1> QED
  BY <1>4, <1>5, <1>6 DEF IInv

LEMMA WriteCallIInv == IInv /\ WriteCall => IInv'
<1> SUFFICES ASSUME IInv, WriteCall PROVE IInv'
  OBVIOUS
<1> USE DEF IInv
<1>1. Free = size - (nin - nout) /\ Free \in 0 .. size
  BY Measures
<1>2. size \in Nat \ {0} /\ Word \in Nat \ {0} /\ size < Word
  BY SizeFacts DEF TypeOK
<1>3. PICK n \in 1 .. MaxLen :
        w' = [NoCall EXCEPT !.pc = "sized", !.asked = n, !.seen = Free,
                            !.base = in, !.from = nin]
  BY DEF WriteCall
<1>4. w' = [pc |-> "sized", asked |-> n, seen |-> Free, len |-> 0,
            base |-> in, from |-> nin, todo |-> {}]
  BY <1>3 DEF NoCall
<1>5. TypeOK'
  <2>1. n \in 0 .. MaxLen /\ Free \in 0 .. Word - 1 /\ 0 \in 0 .. Word - 1
    BY <1>1, <1>2, BoundTypes
  <2>2. w' \in Call
    BY <1>4, <2>1 DEF Call, TypeOK
  <2> QED
    BY <2>2 DEF WriteCall, TypeOK
<1>6. Counters' /\ Consumer'
  BY DEF WriteCall, Counters, Consumer, NoCall
<1>7. Producer'
  <2>1. nin \in Nat /\ nout \in Nat
    BY DEF TypeOK
  <2>2. /\ w'.pc = "sized" /\ w'.len = 0 /\ w'.todo = {}
        /\ w'.base = in /\ w'.from = nin /\ w'.seen = Free
    BY <1>4
  <2>3. /\ in' = in /\ out' = out /\ nin' = nin /\ nout' = nout
        /\ size' = size /\ build' = build
    BY DEF WriteCall
  <2>4. in = nin % Word /\ Free <= size - (nin - nout)
    BY <1>1, <1>2, <2>1 DEF Counters
  <2> QED
    BY <1>1, <1>2, <2>2, <2>3, <2>4 DEF Producer
<1>8. Content' /\ ReadsTheStream'
  BY <1>4 DEF WriteCall, Content, ReadsTheStream, Trusted
<1> QED
  BY <1>5, <1>6, <1>7, <1>8

LEMMA ReadCallIInv == IInv /\ ReadCall => IInv'
<1> SUFFICES ASSUME IInv, ReadCall PROVE IInv'
  OBVIOUS
<1> USE DEF IInv
<1>1. Used = nin - nout /\ Used \in 0 .. size
  BY Measures
<1>2. size \in Nat \ {0} /\ Word \in Nat \ {0} /\ size < Word
  BY SizeFacts DEF TypeOK
<1>3. PICK n \in 1 .. MaxLen :
        r' = [NoCall EXCEPT !.pc = "sized", !.asked = n, !.seen = Used,
                            !.base = out, !.from = nout]
  BY DEF ReadCall
<1>4. r' = [pc |-> "sized", asked |-> n, seen |-> Used, len |-> 0,
            base |-> out, from |-> nout, todo |-> {}]
  BY <1>3 DEF NoCall
<1>5. TypeOK'
  <2>1. n \in 0 .. MaxLen /\ Used \in 0 .. Word - 1 /\ 0 \in 0 .. Word - 1
    BY <1>1, <1>2, BoundTypes
  <2>2. r' \in Call
    BY <1>4, <2>1 DEF Call, TypeOK
  <2> QED
    BY <2>2 DEF ReadCall, TypeOK
<1>6. Counters' /\ Producer'
  BY DEF ReadCall, Counters, Producer, NoCall
<1>7. Consumer'
  <2>1. nin \in Nat /\ nout \in Nat
    BY DEF TypeOK
  <2>2. /\ r'.pc = "sized" /\ r'.len = 0 /\ r'.todo = {}
        /\ r'.base = out /\ r'.from = nout /\ r'.seen = Used
    BY <1>4
  <2>3. /\ in' = in /\ out' = out /\ nin' = nin /\ nout' = nout
        /\ size' = size /\ build' = build
    BY DEF ReadCall
  <2>4. out = nout % Word /\ Used <= nin - nout
    BY <1>1, <1>2, <2>1 DEF Counters
  <2> QED
    BY <1>1, <1>2, <2>2, <2>3, <2>4 DEF Consumer
<1>8. Content' /\ ReadsTheStream'
  BY <1>4 DEF ReadCall, Content, ReadsTheStream, Trusted
<1> QED
  BY <1>5, <1>6, <1>7, <1>8

\* The length fixed by min never exceeds what the counters allow now: room
\* only grows under the producer, fullness only under the consumer.
LEMMA SizedIs ==
  ASSUME NEW call \in Call, NEW fresh \in 0 .. Word - 1, build \in Builds,
         call.seen <= fresh, call.pc = "sized"
  PROVE  LET c == Sized(call, fresh)
         IN  /\ c \in Call
             /\ c.pc = "move" /\ c.todo = Steps
             /\ c.asked = call.asked /\ c.base = call.base /\ c.from = call.from
             /\ c.len <= fresh
             /\ ~build.reload => c.len <= c.asked
<1> DEFINE l == IF call.asked < call.seen THEN call.asked ELSE Again(call, fresh)
<1>1. call.seen \in 0 .. Word - 1 /\ call.asked \in Nat
  BY BoundTypes DEF Call
<1>2. l \in 0 .. Word - 1 /\ l <= fresh /\ (~build.reload => l <= call.asked)
  BY <1>1, BoundTypes DEF Again
<1> HIDE DEF l
<1>3. Sized(call, fresh) = [call EXCEPT !.pc = "move", !.len = l, !.todo = Steps]
  BY DEF Sized, l
<1> QED
  BY <1>2, <1>3 DEF Call

LEMMA WriteSizeIInv == IInv /\ WriteSize => IInv'
<1> SUFFICES ASSUME IInv, WriteSize PROVE IInv'
  OBVIOUS
<1> USE DEF IInv
<1>1. Free = size - (nin - nout) /\ Free \in 0 .. size
  BY Measures
<1>2. size \in Nat \ {0} /\ Word \in Nat \ {0} /\ size < Word
  BY SizeFacts DEF TypeOK
<1>3. /\ w' \in Call /\ w'.pc = "move" /\ w'.todo = Steps
      /\ w'.asked = w.asked /\ w'.base = w.base /\ w'.from = w.from
      /\ w'.len <= Free
      /\ ~build.reload => w'.len <= w'.asked
  BY <1>1, <1>2, SizedIs DEF WriteSize, TypeOK, Producer
<1>4. TypeOK'
  BY <1>3 DEF WriteSize, TypeOK
<1>5. Counters' /\ Consumer'
  BY DEF WriteSize, Counters, Consumer, NoCall
<1>6. Producer'
  <2>1. w.from = nin /\ nin \in Nat /\ nout \in Nat /\ nout <= nin
    BY DEF WriteSize, Producer, Counters, TypeOK
  <2>2. w'.from + w'.len - nout <= size /\ w'.len <= size
    BY <1>1, <1>2, <1>3, <2>1 DEF Call
  <2> QED
    BY <1>3, <2>1, <2>2 DEF WriteSize, Producer, Steps
<1>7. Content' /\ ReadsTheStream'
  BY <1>3 DEF WriteSize, Content, ReadsTheStream, Trusted, Steps
<1> QED
  BY <1>4, <1>5, <1>6, <1>7

LEMMA ReadSizeIInv == IInv /\ ReadSize => IInv'
<1> SUFFICES ASSUME IInv, ReadSize PROVE IInv'
  OBVIOUS
<1> USE DEF IInv
<1>1. Used = nin - nout /\ Used \in 0 .. size
  BY Measures
<1>2. size \in Nat \ {0} /\ Word \in Nat \ {0} /\ size < Word
  BY SizeFacts DEF TypeOK
<1>3. /\ r' \in Call /\ r'.pc = "move" /\ r'.todo = Steps
      /\ r'.asked = r.asked /\ r'.base = r.base /\ r'.from = r.from
      /\ r'.len <= Used
      /\ ~build.reload => r'.len <= r'.asked
  BY <1>1, <1>2, SizedIs DEF ReadSize, TypeOK, Consumer
<1>4. TypeOK'
  BY <1>3 DEF ReadSize, TypeOK
<1>5. Counters' /\ Producer'
  BY DEF ReadSize, Counters, Producer, NoCall
<1>6. Consumer'
  <2>1. r.from = nout /\ nin \in Nat /\ nout \in Nat /\ nout <= nin
    BY DEF ReadSize, Consumer, Counters, TypeOK
  <2>2. r'.from + r'.len <= nin /\ r'.len <= size
    BY <1>1, <1>2, <1>3, <2>1 DEF Call
  <2> QED
    BY <1>3, <2>1, <2>2 DEF ReadSize, Consumer, Steps
<1>7. Content' /\ ReadsTheStream'
  BY <1>3 DEF ReadSize, Content, ReadsTheStream, Trusted, Steps
<1> QED
  BY <1>4, <1>5, <1>6, <1>7

\* After a step of a move the call is over, or has its other step to do.
LEMMA DoneIs ==
  ASSUME NEW call \in Call, NEW step \in call.todo
  PROVE  LET c == Done(call, step)
         IN  /\ c \in Call
             /\ call.todo = {step} => c = NoCall
             /\ call.todo # {step} =>
                  /\ c.pc = call.pc /\ c.todo = call.todo \ {step}
                  /\ c.todo # {} /\ step \notin c.todo
                  /\ c.asked = call.asked /\ c.len = call.len
                  /\ c.base = call.base /\ c.from = call.from
<1>1. CASE call.todo = {step}
  <2>1. 0 \in 0 .. MaxLen /\ 0 \in 0 .. Word - 1
    BY BoundTypes, <1>1 DEF Call
  <2>2. NoCall \in Call
    BY <2>1 DEF NoCall, Call
  <2> QED
    BY <1>1, <2>2 DEF Done
<1>2. CASE call.todo # {step}
  <2>1. Done(call, step) = [call EXCEPT !.todo = @ \ {step}]
    BY <1>2 DEF Done
  <2> QED
    BY <1>2, <2>1 DEF Call
<1> QED
  BY <1>1, <1>2

LEMMA CallTypes ==
  ASSUME NEW call \in Call
  PROVE  /\ call.len \in Nat /\ call.from \in Nat /\ call.asked \in Nat
         /\ call.seen \in Nat /\ call.base \in Nat
         /\ call.todo \subseteq Steps
<1>1. \A n \in 0 .. Word - 1 : n \in Nat
  BY BoundTypes
<1>2. \A n \in 0 .. MaxLen : n \in Nat
  BY BoundTypes
<1> QED
  BY <1>1, <1>2 DEF Call

LEMMA NoCallIs ==
  NoCall.pc = "idle" /\ NoCall.todo = {} /\ NoCall.len = 0
BY DEF NoCall

LEMMA WritePublishIInv == IInv /\ WritePublish => IInv'
<1> SUFFICES ASSUME IInv, WritePublish PROVE IInv'
  OBVIOUS
<1> USE DEF IInv
<1>1. size \in Nat \ {0} /\ Word \in Nat \ {0} /\ size < Word
  BY SizeFacts DEF TypeOK
<1>2. /\ w \in Call /\ w.pc = "move" /\ "publish" \in w.todo
      /\ build.relaxed \/ "copy" \notin w.todo
      /\ w.todo \subseteq Steps /\ w.len \in Nat /\ w.from \in Nat
      /\ nin \in Nat /\ nout \in Nat
  BY CallTypes DEF WritePublish, MayPublish, TypeOK
<1>3. /\ w.from = nin /\ w.len <= size /\ w.from + w.len - nout <= size
      /\ w.base = w.from % Word
  BY <1>2 DEF Producer
<1>4. /\ w' = Done(w, "publish") /\ nin' = nin + w.len
      /\ in' = (in + w.len) % Word
      /\ build' = build /\ size' = size /\ out' = out /\ buffer' = buffer
      /\ r' = r /\ data' = data /\ nout' = nout
  BY DEF WritePublish
<1>5. /\ w' \in Call
      /\ w.todo = {"publish"} => w' = NoCall
      /\ w.todo # {"publish"} =>
           /\ w'.pc = "move" /\ w'.todo # {} /\ "publish" \notin w'.todo
           /\ w'.asked = w.asked /\ w'.len = w.len
           /\ w'.base = w.base /\ w'.from = w.from
  BY <1>2, <1>4, DoneIs
<1>6. in' = nin' % Word
  <2>1. nin \in Int /\ w.len \in Int
    BY <1>2
  <2>2. ((nin % Word) + w.len) % Word = (nin + w.len) % Word
    BY <1>1, <2>1, ModPlus, Zenon
  <2> QED
    BY <1>4, <2>2 DEF Counters
<1>7. TypeOK'
  <2>0. nin' \in Int
    BY <1>2, <1>4
  <2>1. in' \in 0 .. Word - 1
    BY <1>1, <1>6, <2>0, ModType, Zenon
  <2> QED
    BY <1>2, <1>4, <1>5, <2>1 DEF TypeOK
<1>8. Counters'
  <2>1. nout <= nin + w.len /\ (nin + w.len) - nout <= size
    BY <1>1, <1>2, <1>3 DEF Counters
  <2> QED
    BY <1>4, <1>6, <2>1 DEF Counters
<1>9. Producer'
  <2>1. CASE w.todo = {"publish"}
    BY <1>5, <2>1, NoCallIs DEF Producer
  <2>2. CASE w.todo # {"publish"}
    <3>1. build.relaxed
      BY <1>2, <2>2 DEF Steps
    <3> QED
      BY <1>2, <1>3, <1>4, <1>5, <2>2, <3>1 DEF Producer
  <2> QED
    BY <2>1, <2>2
<1>10. Consumer'
  <2>1. r \in Call /\ r.len \in Nat /\ r.from \in Nat /\ r.seen \in Nat
    BY CallTypes DEF TypeOK
  <2>2. r.pc = "sized" => r.seen <= (nin + w.len) - nout
    BY <1>2, <2>1 DEF Consumer
  <2>3. r.pc = "move" => r.from + r.len <= nin + w.len
    BY <1>2, <2>1 DEF Consumer
  <2> QED
    BY <1>4, <2>2, <2>3 DEF Consumer
<1>11. Content'
  <2> SUFFICES ASSUME Trusted PROVE Content'
    BY <1>4 DEF Content, Trusted
  <2>1. w.todo = {"publish"}
    BY <1>2 DEF Steps, Trusted
  <2>2. \A p \in w.from .. w.from + w.len - 1 : buffer[p % size] = p
    BY <2>1 DEF Content
  <2>3. \A p \in nout .. nin - 1 : buffer[p % size] = p
    BY DEF Content
  <2>4. \A p \in nout .. nin' - 1 : buffer[p % size] = p
    <3> TAKE p \in nout .. nin' - 1
    <3>1. CASE p <= nin - 1
      BY <1>2, <1>4, <2>3, <3>1
    <3>2. CASE p >= nin
      BY <1>2, <1>3, <1>4, <2>2, <3>2
    <3> QED
      BY <1>2, <1>4, <3>1, <3>2
  <2> QED
    BY <1>4, <1>5, <2>1, <2>4, NoCallIs DEF Content
<1>12. ReadsTheStream'
  BY <1>4 DEF ReadsTheStream, Trusted
<1> QED
  BY <1>7, <1>8, <1>9, <1>10, <1>11, <1>12

LEMMA ReadPublishIInv == IInv /\ ReadPublish => IInv'
<1> SUFFICES ASSUME IInv, ReadPublish PROVE IInv'
  OBVIOUS
<1> USE DEF IInv
<1>1. size \in Nat \ {0} /\ Word \in Nat \ {0} /\ size < Word
  BY SizeFacts DEF TypeOK
<1>2. /\ r \in Call /\ r.pc = "move" /\ "publish" \in r.todo
      /\ build.relaxed \/ "copy" \notin r.todo
      /\ r.todo \subseteq Steps /\ r.len \in Nat /\ r.from \in Nat
      /\ nin \in Nat /\ nout \in Nat
  BY CallTypes DEF ReadPublish, MayPublish, TypeOK
<1>3. /\ r.from = nout /\ r.len <= size /\ r.from + r.len <= nin
      /\ r.base = r.from % Word
  BY <1>2 DEF Consumer
<1>4. /\ r' = Done(r, "publish") /\ nout' = nout + r.len
      /\ out' = (out + r.len) % Word
      /\ build' = build /\ size' = size /\ in' = in /\ buffer' = buffer
      /\ w' = w /\ data' = data /\ nin' = nin
  BY DEF ReadPublish
<1>5. /\ r' \in Call
      /\ r.todo = {"publish"} => r' = NoCall
      /\ r.todo # {"publish"} =>
           /\ r'.pc = "move" /\ r'.todo # {} /\ "publish" \notin r'.todo
           /\ r'.asked = r.asked /\ r'.len = r.len
           /\ r'.base = r.base /\ r'.from = r.from
  BY <1>2, <1>4, DoneIs
<1>6. out' = nout' % Word
  <2>1. nout \in Int /\ r.len \in Int
    BY <1>2
  <2>2. ((nout % Word) + r.len) % Word = (nout + r.len) % Word
    BY <1>1, <2>1, ModPlus, Zenon
  <2> QED
    BY <1>4, <2>2 DEF Counters
<1>7. TypeOK'
  <2>0. nout' \in Int
    BY <1>2, <1>4
  <2>1. out' \in 0 .. Word - 1
    BY <1>1, <1>6, <2>0, ModType, Zenon
  <2> QED
    BY <1>2, <1>4, <1>5, <2>1 DEF TypeOK
<1>8. Counters'
  <2>1. nout + r.len <= nin /\ nin - (nout + r.len) <= size
    BY <1>1, <1>2, <1>3 DEF Counters
  <2> QED
    BY <1>4, <1>6, <2>1 DEF Counters
<1>9. Consumer'
  <2>1. CASE r.todo = {"publish"}
    BY <1>5, <2>1, NoCallIs DEF Consumer
  <2>2. CASE r.todo # {"publish"}
    <3>1. build.relaxed
      BY <1>2, <2>2 DEF Steps
    <3> QED
      BY <1>2, <1>3, <1>4, <1>5, <2>2, <3>1 DEF Consumer
  <2> QED
    BY <2>1, <2>2
<1>10. Producer'
  <2>1. w \in Call /\ w.len \in Nat /\ w.from \in Nat /\ w.seen \in Nat
    BY CallTypes DEF TypeOK
  <2>2. w.pc = "sized" => w.seen <= size - (nin - (nout + r.len))
    BY <1>1, <1>2, <2>1 DEF Producer
  <2>3. w.pc = "move" => w.from + w.len - (nout + r.len) <= size
    BY <1>1, <1>2, <2>1 DEF Producer
  <2> QED
    BY <1>4, <2>2, <2>3 DEF Producer
<1>11. Content'
  BY <1>2, <1>4 DEF Content, Trusted
<1>12. ReadsTheStream'
  BY <1>2, <1>4, <1>5, NoCallIs DEF ReadsTheStream, Trusted
<1> QED
  BY <1>7, <1>8, <1>9, <1>10, <1>11, <1>12

\* The slot of a position in a copy the invariant admits.
LEMMA CopySlot ==
  ASSUME IInv, NEW call \in {w, r}, call.pc = "move",
         NEW i \in 0 .. call.len - 1
  PROVE  /\ Slot(call.base, call.len, i) = (call.from + i) % size
         /\ (call.from + i) % size \in 0 .. size - 1
<1>1. size \in Sizes /\ size \in Nat \ {0}
  BY SizeFacts DEF IInv, TypeOK
<1>2. /\ call \in Call /\ call.len \in 0 .. size /\ call.from \in Nat
      /\ call.base = call.from % Word
  <2>1. call \in Call
    BY DEF IInv, TypeOK
  <2>2. call.len \in Nat /\ call.from \in Nat
    BY <2>1, CallTypes
  <2>3. call.len <= size /\ call.base = call.from % Word
    BY DEF IInv, Producer, Consumer
  <2> QED
    BY <1>1, <2>1, <2>2, <2>3
<1>3. call.from + i \in Int
  BY <1>2
<1> QED
  BY <1>1, <1>2, <1>3, SlotIs, ModType

\* Stream positions of bytes in the ring are less than a ring apart.
LEMMA SamePosition ==
  ASSUME NEW s \in Nat \ {0}, NEW p \in Nat, NEW q \in Nat,
         p - q < s, q - p < s, p % s = q % s
  PROVE  p = q
<1>1. p \in Int /\ q \in Int
  OBVIOUS
<1>2. CASE p >= q
  <2>1. p - q \in 0 .. s - 1
    BY <1>2
  <2> QED
    BY <1>1, <2>1, ModApart, Zenon
<1>3. CASE q >= p
  <2>1. q - p \in 0 .. s - 1
    BY <1>3
  <2> QED
    BY <1>1, <2>1, ModApart, Zenon
<1> QED
  BY <1>1, <1>2, <1>3

\* What rb_write's copy leaves in memory.
LEMMA CopiedBytes ==
  ASSUME IInv, WriteCopy, Trusted
  PROVE  /\ \A i \in 0 .. w.len - 1 : buffer'[(w.from + i) % size] = w.from + i
         /\ \A s \in 0 .. size - 1 :
              (\A i \in 0 .. w.len - 1 : (w.from + i) % size # s)
                 => buffer'[s] = buffer[s]
<1>1. size \in Nat \ {0}
  BY SizeFacts DEF IInv, TypeOK
<1>2. /\ w.pc = "move" /\ w.len \in Nat /\ w.from \in Nat
      /\ w.len <= size /\ w.len <= w.asked /\ w.asked \in Nat
  BY CallTypes DEF IInv, TypeOK, WriteCopy, Producer, Trusted
<1> DEFINE In(s) == \E i \in 0 .. w.len - 1 : Slot(w.base, w.len, i) = s
           At(s) == CHOOSE i \in 0 .. w.len - 1 : Slot(w.base, w.len, i) = s
<1>3. buffer' = [s \in 0 .. size - 1 |->
                   IF In(s)
                   THEN IF At(s) < w.asked THEN w.from + At(s) ELSE Junk
                   ELSE buffer[s]]
  BY DEF WriteCopy
<1>4. \A i \in 0 .. w.len - 1 :
        /\ Slot(w.base, w.len, i) = (w.from + i) % size
        /\ (w.from + i) % size \in 0 .. size - 1
  BY <1>2, CopySlot
<1>5. ASSUME NEW i \in 0 .. w.len - 1
      PROVE  buffer'[(w.from + i) % size] = w.from + i
  <2> DEFINE s == (w.from + i) % size
  <2>1. s \in 0 .. size - 1 /\ Slot(w.base, w.len, i) = s
    BY <1>4
  <2>2. In(s)
    BY <2>1
  <2>3. At(s) \in 0 .. w.len - 1 /\ Slot(w.base, w.len, At(s)) = s
    BY <2>2
  <2>4. (w.from + At(s)) % size = s
    BY <1>4, <2>3
  <2>5. w.from + At(s) = w.from + i
    <3> DEFINE j == At(s)
    <3>0. j \in 0 .. w.len - 1
      BY <2>3
    <3>1. (w.from + j) % size = (w.from + i) % size
      BY <2>4
    <3> HIDE DEF j
    <3>2. /\ w.from + j \in Nat /\ w.from + i \in Nat
          /\ (w.from + j) - (w.from + i) < size
          /\ (w.from + i) - (w.from + j) < size
      BY <1>1, <1>2, <3>0
    <3>3. w.from + j = w.from + i
      BY <1>1, <3>1, <3>2, SamePosition
    <3> QED
      BY <3>3 DEF j
  <2>6. At(s) < w.asked
    BY <1>2, <2>3
  <2> HIDE DEF s, In, At
  <2> QED
    BY <1>3, <2>1, <2>2, <2>5, <2>6 DEF s
<1>6. ASSUME NEW s \in 0 .. size - 1,
             \A i \in 0 .. w.len - 1 : (w.from + i) % size # s
      PROVE  buffer'[s] = buffer[s]
  <2>1. ~In(s)
    BY <1>4, <1>6
  <2> HIDE DEF In, At
  <2> QED
    BY <1>3, <2>1
<1> QED
  BY <1>5, <1>6

LEMMA WriteCopyIInv == IInv /\ WriteCopy => IInv'
<1> SUFFICES ASSUME IInv, WriteCopy PROVE IInv'
  OBVIOUS
<1>1. size \in Nat \ {0}
  BY SizeFacts DEF IInv, TypeOK
<1>2. /\ w \in Call /\ w.pc = "move" /\ "copy" \in w.todo
      /\ w.todo \subseteq Steps /\ w.len \in Nat /\ w.from \in Nat
      /\ nin \in Nat /\ nout \in Nat /\ r \in Call
  BY CallTypes DEF IInv, WriteCopy, TypeOK
<1>4. /\ w' = Done(w, "copy") /\ build' = build /\ size' = size
      /\ in' = in /\ out' = out /\ r' = r /\ data' = data
      /\ nin' = nin /\ nout' = nout
  BY DEF WriteCopy
<1>5. /\ w' \in Call
      /\ w.todo = {"copy"} => w' = NoCall
      /\ w.todo # {"copy"} =>
           /\ w'.pc = "move" /\ w'.todo = w.todo \ {"copy"} /\ w'.todo # {}
           /\ w'.asked = w.asked /\ w'.len = w.len
           /\ w'.base = w.base /\ w'.from = w.from
  BY <1>2, <1>4, DoneIs
<1>6. TypeOK'
  <2>1. buffer' \in [0 .. size - 1 -> Nat \cup {Junk}]
    <3>1. ASSUME NEW i \in 0 .. w.len - 1 PROVE w.from + i \in Nat
      BY <1>2
    <3>2. \A s \in 0 .. size - 1 : buffer[s] \in Nat \cup {Junk}
      BY DEF IInv, TypeOK
    <3> QED
      BY <3>1, <3>2 DEF WriteCopy
  <2> QED
    BY <1>4, <1>5, <2>1 DEF IInv, TypeOK
<1>7. Counters' /\ Consumer'
  BY <1>4 DEF IInv, Counters, Consumer
<1>8. Producer'
  <2>1. CASE w.todo = {"copy"}
    BY <1>5, <2>1, NoCallIs DEF Producer
  <2>2. CASE w.todo # {"copy"}
    BY <1>2, <1>4, <1>5, <2>2 DEF IInv, Producer
  <2> QED
    BY <2>1, <2>2
<1>9. Content'
  <2> SUFFICES ASSUME Trusted PROVE Content'
    BY <1>4 DEF Content, Trusted
  <2>1. "publish" \in w.todo /\ w.from = nin /\ w.from + w.len - nout <= size
    BY <1>2 DEF IInv, Producer, Trusted
  <2>2. w'.todo = {"publish"} /\ w'.from = w.from /\ w'.len = w.len
    BY <1>2, <1>5, <2>1 DEF Steps
  <2>3. \A i \in 0 .. w.len - 1 : buffer'[(w.from + i) % size] = w.from + i
    BY CopiedBytes
  <2>4. ASSUME NEW p \in nout .. nin - 1
        PROVE  buffer'[p % size] = p
    <3>1. p \in Nat /\ p \in Int
      BY <1>2
    <3>2. ASSUME NEW i \in 0 .. w.len - 1
          PROVE  (w.from + i) % size # p % size
      <4>1. /\ w.from + i \in Nat /\ (w.from + i) - p < size
            /\ p - (w.from + i) < size /\ w.from + i # p
        BY <1>1, <1>2, <2>1
      <4> QED
        BY <1>1, <3>1, <4>1, SamePosition
    <3>3. p % size \in 0 .. size - 1
      BY <1>1, <3>1, ModType
    <3>4. buffer'[p % size] = buffer[p % size]
      BY <3>2, <3>3, CopiedBytes
    <3> QED
      BY <3>4 DEF IInv, Content
  <2>5. ASSUME NEW p \in w.from .. w.from + w.len - 1
        PROVE  buffer'[p % size] = p
    <3>1. p - w.from \in 0 .. w.len - 1 /\ w.from + (p - w.from) = p
      BY <1>2
    <3> QED
      BY <2>3, <3>1
  <2> QED
    BY <1>4, <2>2, <2>4, <2>5 DEF Content
<1>10. ReadsTheStream'
  BY <1>4 DEF IInv, ReadsTheStream, Trusted
<1> QED
  BY <1>6, <1>7, <1>8, <1>9, <1>10 DEF IInv

LEMMA ReadCopyIInv == IInv /\ ReadCopy => IInv'
<1> SUFFICES ASSUME IInv, ReadCopy PROVE IInv'
  OBVIOUS
<1>1. size \in Nat \ {0}
  BY SizeFacts DEF IInv, TypeOK
<1>2. /\ r \in Call /\ r.pc = "move" /\ "copy" \in r.todo
      /\ r.todo \subseteq Steps /\ r.len \in Nat /\ r.from \in Nat
      /\ nin \in Nat /\ nout \in Nat /\ w \in Call
  BY CallTypes DEF IInv, ReadCopy, TypeOK
<1>3. data' = [i \in 1 .. r.len |-> buffer[Slot(r.base, r.len, i - 1)]]
  BY DEF ReadCopy
<1>4. /\ r' = Done(r, "copy") /\ build' = build /\ size' = size
      /\ in' = in /\ out' = out /\ w' = w /\ buffer' = buffer
      /\ nin' = nin /\ nout' = nout
  BY DEF ReadCopy
<1>5. /\ r' \in Call
      /\ r.todo = {"copy"} => r' = NoCall
      /\ r.todo # {"copy"} =>
           /\ r'.pc = "move" /\ r'.todo = r.todo \ {"copy"} /\ r'.todo # {}
           /\ r'.asked = r.asked /\ r'.len = r.len
           /\ r'.base = r.base /\ r'.from = r.from
  BY <1>2, <1>4, DoneIs
<1>6. ASSUME NEW i \in 1 .. r.len
      PROVE  /\ Slot(r.base, r.len, i - 1) = (r.from + (i - 1)) % size
             /\ Slot(r.base, r.len, i - 1) \in 0 .. size - 1
  <2>1. i - 1 \in 0 .. r.len - 1
    BY <1>2
  <2> QED
    BY <1>2, <2>1, CopySlot
<1>7. TypeOK'
  <2>1. \A i \in 1 .. r.len :
          buffer[Slot(r.base, r.len, i - 1)] \in Nat \cup {Junk}
    BY <1>6 DEF IInv, TypeOK
  <2>2. data' \in Seq(Nat \cup {Junk})
    BY <1>2, <1>3, <2>1
  <2> QED
    BY <1>4, <1>5, <2>2 DEF IInv, TypeOK
<1>8. Counters' /\ Producer'
  BY <1>4 DEF IInv, Counters, Producer
<1>9. Consumer'
  <2>1. CASE r.todo = {"copy"}
    BY <1>5, <2>1, NoCallIs DEF Consumer
  <2>2. CASE r.todo # {"copy"}
    BY <1>2, <1>4, <1>5, <2>2 DEF IInv, Consumer
  <2> QED
    BY <2>1, <2>2
<1>10. Content'
  BY <1>4 DEF IInv, Content, Trusted
<1>11. ReadsTheStream'
  <2> SUFFICES ASSUME Trusted PROVE ReadsTheStream'
    BY <1>4 DEF ReadsTheStream, Trusted
  <2>1. "publish" \in r.todo /\ r.from = nout /\ r.from + r.len <= nin
    BY <1>2 DEF IInv, Consumer, Trusted
  <2>2. r'.from = r.from /\ r'.len = r.len
    BY <1>2, <1>5, <2>1
  <2>3. ASSUME NEW i \in 1 .. r.len
        PROVE  buffer[Slot(r.base, r.len, i - 1)] = r.from + i - 1
    <3>1. r.from + (i - 1) \in nout .. nin - 1 /\ r.from + (i - 1) = r.from + i - 1
      BY <1>2, <2>1
    <3>2. buffer[(r.from + (i - 1)) % size] = r.from + (i - 1)
      BY <3>1 DEF IInv, Content
    <3> QED
      BY <1>6, <3>1, <3>2
  <2>4. data' = [i \in 1 .. r.len |-> r.from + i - 1]
    BY <1>3, <2>3
  <2> QED
    BY <2>2, <2>4 DEF ReadsTheStream
<1> QED
  BY <1>7, <1>8, <1>9, <1>10, <1>11 DEF IInv

LEMMA NextIInv == IInv /\ [Next]_vars => IInv'
<1> SUFFICES ASSUME IInv, [Next]_vars PROVE IInv'
  OBVIOUS
<1>1. CASE UNCHANGED vars
  BY <1>1 DEF vars, IInv, TypeOK, Counters, Producer, Consumer, Content,
              ReadsTheStream, Trusted
<1>2. CASE Next
  BY <1>2, WriteCallIInv, WriteSizeIInv, WriteCopyIInv, WritePublishIInv,
     ReadCallIInv, ReadSizeIInv, ReadCopyIInv, ReadPublishIInv DEF Next
<1> QED
  BY <1>1, <1>2

THEOREM RingInvariant == Spec => []IInv
BY InitIInv, NextIInv, PTL DEF Spec

-----------------------------------------------------------------------------
(***************************************************************************)
(* The properties.                                                         *)
(***************************************************************************)

\* Every variable of the ring keeps its type, for every value of the constants.
THEOREM RingTypeOK == Spec => []TypeOK
<1>1. IInv => TypeOK
  BY DEF IInv
<1> QED
  BY <1>1, RingInvariant, PTL

\* rb_get_size_of_already_used and rb_get_size_of_left are exact in every
\* build, across any number of wraps of the two words.
THEOREM RingCounters == Spec => []CountersTellTheTruth
<1>1. IInv => CountersTellTheTruth
  <2> SUFFICES ASSUME IInv PROVE CountersTellTheTruth
    OBVIOUS
  <2>1. size \in Nat
    BY SizeFacts DEF IInv, TypeOK
  <2> QED
    BY <2>1, Measures DEF IInv, TypeOK, Counters, CountersTellTheTruth
<1> QED
  BY <1>1, RingInvariant, PTL

\* rb_write and rb_read move no more than they were asked to, when min's
\* arguments are evaluated once.
THEOREM RingNeverMoreThanAsked == Spec => []NeverMoreThanAsked
<1>1. ASSUME IInv PROVE NeverMoreThanAsked
  <2> SUFFICES ASSUME ~build.reload, NEW call \in {w, r}
               PROVE  call.len <= call.asked
    BY DEF NeverMoreThanAsked
  <2>1. call \in Call /\ call.asked \in Nat
    BY <1>1, CallTypes DEF IInv, TypeOK
  <2>2. CASE call.pc = "move"
    BY <1>1, <2>2 DEF IInv, Producer, Consumer
  <2>3. CASE call.pc # "move"
    <3>1. call.pc \in {"idle", "sized"}
      BY <2>1, <2>3 DEF Call
    <3>2. call.len = 0
      BY <1>1, <3>1, NoCallIs DEF IInv, Producer, Consumer
    <3> QED
      BY <2>1, <3>2
  <2> QED
    BY <2>2, <2>3
<1> QED
  BY <1>1, RingInvariant, PTL

\* rb_read delivers the accepted stream in order and without a gap, in a
\* build that orders its accesses and reads the counters once.
THEOREM RingReadsTheStream == Spec => []ReadsTheStream
<1>1. IInv => ReadsTheStream
  BY DEF IInv
<1> QED
  BY <1>1, RingInvariant, PTL

\* The producer and the consumer never copy to and from one slot at once.
THEOREM RingCopiesAreDisjoint == Spec => []CopiesAreDisjoint
<1>1. ASSUME IInv PROVE CopiesAreDisjoint
  <2> SUFFICES ASSUME ~build.relaxed, NEW s \in Touched(w), s \in Touched(r)
               PROVE  FALSE
    BY DEF CopiesAreDisjoint
  <2>1. /\ w.pc = "move" /\ r.pc = "move"
        /\ size \in Nat \ {0} /\ nin \in Nat /\ nout \in Nat
        /\ w.from \in Nat /\ w.len \in Nat /\ r.from \in Nat /\ r.len \in Nat
    BY <1>1, SizeFacts, CallTypes DEF IInv, TypeOK, Touched
  <2>2. /\ w.from = nin /\ w.from + w.len - nout <= size
        /\ r.from = nout /\ r.from + r.len <= nin
    BY <1>1, <2>1 DEF IInv, Producer, Consumer
  <2>3. PICK i \in 0 .. w.len - 1 : s = Slot(w.base, w.len, i)
    BY <2>1 DEF Touched
  <2>4. PICK j \in 0 .. r.len - 1 : s = Slot(r.base, r.len, j)
    BY <2>1 DEF Touched
  <2>5. (w.from + i) % size = (r.from + j) % size
    BY <1>1, <2>1, <2>3, <2>4, CopySlot
  <2>6. /\ w.from + i \in Nat /\ r.from + j \in Nat
        /\ (w.from + i) - (r.from + j) < size
        /\ (r.from + j) - (w.from + i) < size
        /\ w.from + i # r.from + j
    BY <2>1, <2>2, <2>3, <2>4
  <2> QED
    BY <2>1, <2>5, <2>6, SamePosition
<1> QED
  BY <1>1, RingInvariant, PTL

-----------------------------------------------------------------------------
(***************************************************************************)
(* The ring implements ByteFifo: WritePublish puts, ReadCopy gets, and the *)
(* other steps stutter.                                                    *)
(***************************************************************************)

\* The stream from position a up to, and without, position b.
Stream(a, b) == [i \in 1 .. b - a |-> a + i - 1]

LEMMA StreamSeq ==
  ASSUME NEW a \in Nat, NEW b \in Nat, a <= b
  PROVE  /\ Stream(a, b) \in Seq(Nat)
         /\ Len(Stream(a, b)) = b - a
         /\ \A i \in 1 .. b - a : Stream(a, b)[i] = a + i - 1
<1>1. b - a \in Nat /\ \A i \in 1 .. b - a : a + i - 1 \in Nat
  OBVIOUS
<1>2. Stream(a, b) \in [1 .. b - a -> Nat]
  BY <1>1 DEF Stream
<1>3. Stream(a, b) \in Seq(Nat)
  BY <1>1, <1>2, SeqDef
<1>4. Len(Stream(a, b)) = b - a
  BY <1>1, <1>2, <1>3, LenProperties
<1> QED
  BY <1>3, <1>4 DEF Stream

\* Putting the next n bytes of the stream.
LEMMA StreamPut ==
  ASSUME NEW a \in Nat, NEW b \in Nat, a <= b, NEW n \in Nat
  PROVE  Stream(a, b) \o [i \in 1 .. n |-> b + i - 1] = Stream(a, b + n)
<1> DEFINE s == Stream(a, b)
           t == Stream(b, b + n)
<1>1. b + n \in Nat /\ b <= b + n /\ a <= b + n /\ (b + n) - b = n
  OBVIOUS
<1>2. [i \in 1 .. n |-> b + i - 1] = t
  BY <1>1 DEF Stream
<1>3. /\ s \in Seq(Nat) /\ Len(s) = b - a
      /\ \A i \in 1 .. b - a : s[i] = a + i - 1
  BY StreamSeq
<1>4. /\ t \in Seq(Nat) /\ Len(t) = n
      /\ \A i \in 1 .. n : t[i] = b + i - 1
  BY <1>1, StreamSeq
<1>5. /\ Stream(a, b + n) \in Seq(Nat) /\ Len(Stream(a, b + n)) = (b + n) - a
      /\ \A i \in 1 .. (b + n) - a : Stream(a, b + n)[i] = a + i - 1
  BY <1>1, StreamSeq
<1> HIDE DEF s, t
<1>6. /\ s \o t \in Seq(Nat)
      /\ Len(s \o t) = Len(s) + Len(t)
      /\ \A i \in 1 .. Len(s) + Len(t) :
           (s \o t)[i] = IF i <= Len(s) THEN s[i] ELSE t[i - Len(s)]
  BY <1>3, <1>4, ConcatProperties, Zenon
<1>7. ASSUME NEW i \in 1 .. (b + n) - a
      PROVE  (s \o t)[i] = a + i - 1
  <2>1. CASE i <= b - a
    BY <1>3, <1>4, <1>6, <2>1
  <2>2. CASE i > b - a
    <3>1. i - (b - a) \in 1 .. n /\ b + (i - (b - a)) - 1 = a + i - 1
      BY <2>2
    <3>2. (s \o t)[i] = t[i - (b - a)]
      BY <1>3, <1>4, <1>6, <2>2
    <3> QED
      BY <1>4, <3>1, <3>2
  <2>3. i <= b - a \/ i > b - a
    OBVIOUS
  <2> QED
    BY <2>1, <2>2, <2>3, Zenon
<1>8. Len(s \o t) = (b + n) - a
  BY <1>3, <1>4, <1>6
<1>9. s \o t = Stream(a, b + n)
  BY <1>5, <1>6, <1>7, <1>8, SeqEqual
<1> QED
  BY <1>2, <1>9 DEF s

\* Getting the n oldest bytes.
LEMMA StreamGet ==
  ASSUME NEW a \in Nat, NEW b \in Nat, a <= b, NEW n \in 0 .. b - a
  PROVE  /\ SubSeq(Stream(a, b), 1, n) = Stream(a, a + n)
         /\ SubSeq(Stream(a, b), n + 1, Len(Stream(a, b))) = Stream(a + n, b)
<1> DEFINE s == Stream(a, b)
<1>1. n \in Nat /\ a + n \in Nat /\ a <= a + n /\ a + n <= b
  OBVIOUS
<1>2. /\ s \in Seq(Nat) /\ Len(s) = b - a
      /\ \A i \in 1 .. b - a : s[i] = a + i - 1
  BY StreamSeq
<1>3. \A i \in 1 .. b - a : s[i] \in Nat
  BY <1>2
<1> HIDE DEF s
<1>4. SubSeq(s, 1, n) = Stream(a, a + n)
  <2>1. /\ SubSeq(s, 1, n) \in Seq(Nat)
        /\ Len(SubSeq(s, 1, n)) = IF 1 <= n THEN n - 1 + 1 ELSE 0
        /\ \A i \in 1 .. n - 1 + 1 : SubSeq(s, 1, n)[i] = s[1 + i - 1]
    BY <1>1, <1>3, SubSeqProperties
  <2>2. /\ Stream(a, a + n) \in Seq(Nat) /\ Len(Stream(a, a + n)) = (a + n) - a
        /\ \A i \in 1 .. (a + n) - a : Stream(a, a + n)[i] = a + i - 1
    BY <1>1, StreamSeq
  <2>3. Len(SubSeq(s, 1, n)) = n /\ Len(Stream(a, a + n)) = n
    BY <1>1, <2>1, <2>2
  <2>4. \A i \in 1 .. n : SubSeq(s, 1, n)[i] = Stream(a, a + n)[i]
    BY <1>1, <1>2, <2>1, <2>2
  <2> QED
    BY <2>1, <2>2, <2>3, <2>4, SeqEqual
<1>5. SubSeq(s, n + 1, b - a) = Stream(a + n, b)
  <2>1. /\ SubSeq(s, n + 1, b - a) \in Seq(Nat)
        /\ Len(SubSeq(s, n + 1, b - a)) =
             IF n + 1 <= b - a THEN (b - a) - (n + 1) + 1 ELSE 0
        /\ \A i \in 1 .. (b - a) - (n + 1) + 1 :
             SubSeq(s, n + 1, b - a)[i] = s[(n + 1) + i - 1]
    BY <1>1, <1>3, SubSeqProperties
  <2>2. /\ Stream(a + n, b) \in Seq(Nat) /\ Len(Stream(a + n, b)) = b - (a + n)
        /\ \A i \in 1 .. b - (a + n) : Stream(a + n, b)[i] = (a + n) + i - 1
    BY <1>1, StreamSeq
  <2>3. Len(SubSeq(s, n + 1, b - a)) = b - (a + n)
    BY <1>1, <2>1
  <2>4. \A i \in 1 .. b - (a + n) : SubSeq(s, n + 1, b - a)[i] = Stream(a + n, b)[i]
    BY <1>1, <1>2, <2>1, <2>2
  <2> QED
    BY <2>1, <2>2, <2>3, <2>4, SeqEqual
<1> QED
  BY <1>2, <1>4, <1>5 DEF s

\* The content of the abstract channel: what lies between the counters, less
\* what the reader has copied out.
Queue == [i \in 1 .. Used - Taken |-> buffer[(out + Taken + i - 1) % size]]

\* Where its oldest byte is.
LEMMA OldestIs ==
  ASSUME IInv, NEW i \in Nat
  PROVE  /\ Taken \in Nat /\ nout \in Nat /\ nin \in Nat
         /\ (out + Taken + i) % size = ((nout + Taken) + i) % size
         /\ (out + Taken + i) % size \in 0 .. size - 1
<1>1. size \in Nat \ {0} /\ Word \in Nat \ {0}
  BY SizeFacts DEF IInv, TypeOK
<1>2. PICK k \in Nat \ {0} : Word = size * k
  BY SizeFacts DEF IInv, TypeOK
<1>3. nout \in Nat /\ nin \in Nat /\ r \in Call /\ out = nout % Word
  BY DEF IInv, TypeOK, Counters
<1>4. Taken \in Nat
  BY <1>3, CallTypes DEF Taken
<1> DEFINE d == Taken + i
<1>5. nout \in Int /\ d \in Int /\ out \in Int /\ out + d \in Int
  <2>1. out \in Int
    BY DEF IInv, TypeOK
  <2> QED
    BY <1>3, <1>4, <2>1
<1>6. out + Taken + i = out + d /\ (nout + Taken) + i = nout + d
  BY <1>3, <1>4, <1>5
<1> HIDE DEF d
<1>7. out % size = nout % size
  <2>1. (nout % (size * k)) % size = nout % size
    BY <1>1, <1>2, <1>5, ModMod, Zenon
  <2> QED
    BY <1>2, <1>3, <2>1
<1>8. ((out % size) + d) % size = (out + d) % size
  BY <1>1, <1>5, ModPlus, Zenon
<1>9. ((nout % size) + d) % size = (nout + d) % size
  BY <1>1, <1>5, ModPlus, Zenon
<1>10. (out + d) % size \in 0 .. size - 1
  BY <1>1, <1>5, ModType, Zenon
<1> QED
  BY <1>3, <1>4, <1>6, <1>7, <1>8, <1>9, <1>10, Zenon

\* In every build the channel holds no more than its capacity.
LEMMA QueueLen ==
  ASSUME IInv
  PROVE  Len(Queue) = (nin - nout) - Taken /\ Len(Queue) \in 0 .. size
<1>1. size \in Nat \ {0} /\ nin \in Nat /\ nout \in Nat /\ Taken \in Nat
  BY SizeFacts, OldestIs DEF IInv, TypeOK
<1>2. Used = nin - nout /\ nin - nout \in 0 .. size
  BY Measures DEF IInv
<1>3. Taken <= nin - nout
  <2>1. CASE r.todo = {"publish"}
    <3>1. r.pc = "move"
      BY <2>1 DEF IInv, TypeOK, Call, Consumer, NoCall
    <3>2. r.len \in Nat /\ r.from \in Nat /\ r.from + r.len <= nin /\ nout = r.from
      BY <2>1, <3>1, CallTypes DEF IInv, TypeOK, Consumer
    <3> QED
      BY <1>1, <2>1, <3>2 DEF Taken
  <2>2. CASE r.todo # {"publish"}
    BY <1>1, <1>2, <2>2 DEF Taken
  <2> QED
    BY <2>1, <2>2
<1> DEFINE n == (nin - nout) - Taken
<1>4. n \in Nat /\ n <= size
  BY <1>1, <1>2, <1>3
<1>5. ASSUME NEW i \in 1 .. n
      PROVE  buffer[(out + Taken + i - 1) % size] \in Nat \cup {Junk}
  <2>1. i - 1 \in Nat /\ out \in Int
    BY <1>4 DEF IInv, TypeOK
  <2>2. out + Taken + i - 1 = out + Taken + (i - 1)
    BY <1>1, <2>1
  <2>3. (out + Taken + (i - 1)) % size \in 0 .. size - 1
    BY <2>1, OldestIs
  <2> QED
    BY <2>2, <2>3, Zenon DEF IInv, TypeOK
<1>6. Queue = [i \in 1 .. n |-> buffer[(out + Taken + i - 1) % size]]
  BY <1>2 DEF Queue
<1> HIDE DEF n
<1>7. Queue \in [1 .. n -> Nat \cup {Junk}]
  BY <1>5, <1>6
<1>8. Queue \in Seq(Nat \cup {Junk})
  BY <1>4, <1>7, SeqDef
<1>9. Len(Queue) = n
  BY <1>4, <1>7, <1>8, LenProperties
<1> QED
  BY <1>4, <1>9 DEF n

\* In a trusted build it holds the stream.
LEMMA QueueIs ==
  ASSUME IInv, Trusted
  PROVE  /\ nout + Taken \in Nat /\ nin \in Nat /\ nout + Taken <= nin
         /\ Queue = Stream(nout + Taken, nin)
<1>1. size \in Nat \ {0} /\ nin \in Nat /\ nout \in Nat /\ Taken \in Nat
  BY SizeFacts, OldestIs DEF IInv, TypeOK
<1>2. (nin - nout) - Taken \in Nat
  BY QueueLen
<1>3. Used = nin - nout
  BY Measures DEF IInv
<1>4. ASSUME NEW i \in 1 .. (nin - nout) - Taken
      PROVE  buffer[(out + Taken + i - 1) % size] = (nout + Taken) + i - 1
  <2>1. i - 1 \in Nat /\ out \in Int
    BY <1>2 DEF IInv, TypeOK
  <2>2. out + Taken + i - 1 = out + Taken + (i - 1)
    BY <1>1, <2>1
  <2> DEFINE p == (nout + Taken) + (i - 1)
  <2>3. (out + Taken + (i - 1)) % size = p % size
    BY <2>1, OldestIs
  <2>4. p \in nout .. nin - 1 /\ p = (nout + Taken) + i - 1
    BY <1>1, <1>2
  <2> HIDE DEF p
  <2>5. buffer[p % size] = p
    BY <2>4 DEF IInv, Content
  <2> QED
    BY <2>2, <2>3, <2>4, <2>5, Zenon
<1>5. nin - (nout + Taken) = (nin - nout) - Taken
  BY <1>1
<1>6. Queue = Stream(nout + Taken, nin)
  BY <1>3, <1>4, <1>5 DEF Queue, Stream
<1> QED
  BY <1>1, <1>2, <1>6

\* The two abstract operations, spelled out on the ring's own state.
Puts ==
  \E n \in 0 .. size :
    /\ n <= size - Len(Queue)
    /\ Queue' = Queue \o [i \in 1 .. n |-> nin + i - 1]
    /\ nin' = nin + n
    /\ UNCHANGED data
Gets ==
  \E n \in 0 .. size :
    /\ n <= Len(Queue)
    /\ data' = SubSeq(Queue, 1, n)
    /\ Queue' = SubSeq(Queue, n + 1, Len(Queue))
    /\ UNCHANGED nin

\* A step that neither publishes nor takes leaves the channel alone.
LEMMA Stutters ==
  ASSUME IInv, IInv', Trusted, Trusted',
         nout' + Taken' = nout + Taken, nin' = nin
  PROVE  Queue' = Queue
<1>1. Queue = Stream(nout + Taken, nin)
  BY QueueIs
<1>2. (Queue = Stream(nout + Taken, nin))'
  BY QueueIs, PTL
<1> QED
  BY <1>1, <1>2 DEF Stream

\* rb_write puts when it advances the counter.
LEMMA PublishPuts ==
  ASSUME IInv, IInv', Trusted, Trusted', WritePublish
  PROVE  Puts
<1>1. /\ nin' = nin + w.len /\ nout' = nout /\ r' = r /\ data' = data
      /\ w.pc = "move" /\ "publish" \in w.todo
  BY DEF WritePublish, MayPublish
<1>2. /\ w.len \in Nat /\ w.from \in Nat /\ nin \in Nat /\ nout \in Nat
      /\ Taken \in Nat /\ size \in Nat
  BY CallTypes, OldestIs, SizeFacts DEF IInv, TypeOK
<1>3. w.from = nin /\ w.len <= size /\ w.from + w.len - nout <= size
  BY <1>1 DEF IInv, Producer
<1>4. Taken' = Taken
  BY <1>1 DEF Taken
<1>5. /\ Queue = Stream(nout + Taken, nin) /\ nout + Taken \in Nat /\ nout + Taken <= nin
  BY QueueIs
<1>6. (Queue = Stream(nout + Taken, nin))'
  BY QueueIs, PTL
<1>7. Queue' = Stream(nout + Taken, nin + w.len)
  BY <1>1, <1>4, <1>6 DEF Stream
<1>8. Queue \o [i \in 1 .. w.len |-> nin + i - 1] = Stream(nout + Taken, nin + w.len)
  BY <1>2, <1>5, StreamPut
<1>9. Len(Queue) = (nin - nout) - Taken
  BY QueueLen
<1>10. w.len \in 0 .. size /\ w.len <= size - Len(Queue)
  BY <1>2, <1>3, <1>9
<1> QED
  BY <1>1, <1>7, <1>8, <1>10 DEF Puts

\* rb_read gets when it copies.
LEMMA CopyGets ==
  ASSUME IInv, IInv', Trusted, Trusted', ReadCopy
  PROVE  Gets
<1>1. /\ r' = Done(r, "copy") /\ nin' = nin /\ nout' = nout
      /\ r.pc = "move" /\ "copy" \in r.todo /\ r \in Call
  BY DEF ReadCopy, IInv, TypeOK
<1>2. /\ r.len \in Nat /\ r.from \in Nat /\ nin \in Nat /\ nout \in Nat
      /\ size \in Nat
  BY <1>1, CallTypes, SizeFacts DEF IInv, TypeOK
<1>3. "publish" \in r.todo /\ r.from = nout /\ r.len <= size /\ r.from + r.len <= nin
  BY <1>1 DEF IInv, Consumer, Trusted
<1>4. r.todo # {"publish"} /\ r.todo # {"copy"} /\ r.todo = {"copy", "publish"}
  BY <1>1, <1>3 DEF Call, Steps
<1>5. r'.todo = {"publish"} /\ r'.len = r.len /\ r'.from = r.from
  BY <1>1, <1>4, DoneIs
<1>6. Taken = 0 /\ Taken' = r.len
  BY <1>4, <1>5 DEF Taken
<1>7. Queue = Stream(nout, nin) /\ nout <= nin
  BY <1>2, <1>6, QueueIs
<1>8. (Queue = Stream(nout + Taken, nin))'
  BY QueueIs, PTL
<1>9. Queue' = Stream(nout + r.len, nin)
  BY <1>1, <1>6, <1>8 DEF Stream
<1>10. data' = Stream(nout, nout + r.len)
  <2>1. ReadsTheStream' /\ Trusted'
    BY DEF IInv
  <2>2. data' = [i \in 1 .. r'.len |-> r'.from + i - 1]
    BY <1>5, <2>1 DEF ReadsTheStream
  <2>3. (nout + r.len) - nout = r.len
    BY <1>2
  <2> QED
    BY <1>3, <1>5, <2>2, <2>3 DEF Stream
<1>11. r.len \in 0 .. nin - nout /\ r.len \in 0 .. size
  BY <1>2, <1>3
<1>12. /\ SubSeq(Queue, 1, r.len) = Stream(nout, nout + r.len)
       /\ SubSeq(Queue, r.len + 1, Len(Queue)) = Stream(nout + r.len, nin)
  BY <1>2, <1>7, <1>11, StreamGet
<1>13. Len(Queue) = nin - nout
  BY <1>2, <1>6, QueueLen
<1>14. r.len <= Len(Queue)
  BY <1>2, <1>11, <1>13
<1> QED
  BY <1>1, <1>9, <1>10, <1>11, <1>12, <1>14, Zenon DEF Gets

\* The other steps, in a trusted build.
LEMMA OthersStutter ==
  ASSUME IInv, IInv', Trusted, Trusted',
         \/ WriteCall \/ WriteSize \/ WriteCopy
         \/ ReadCall \/ ReadSize \/ ReadPublish
         \/ UNCHANGED vars
  PROVE  Queue' = Queue /\ nin' = nin /\ data' = data
<1>1. CASE WriteCall \/ WriteSize \/ WriteCopy \/ UNCHANGED vars
  <2>1. nin' = nin /\ nout' = nout /\ r' = r /\ data' = data
    BY <1>1 DEF WriteCall, WriteSize, WriteCopy, vars
  <2>2. Taken' = Taken
    BY <2>1 DEF Taken
  <2> QED
    BY <2>1, <2>2, Stutters
<1>2. CASE ReadCall \/ ReadSize
  <2>1. nin' = nin /\ nout' = nout /\ data' = data
    BY <1>2 DEF ReadCall, ReadSize
  <2>2. r.todo = {}
    BY <1>2 DEF ReadCall, ReadSize, IInv, Consumer, NoCall
  <2>3. r'.todo \in {{}, Steps}
    BY <1>2 DEF ReadCall, ReadSize, Sized, NoCall, IInv, TypeOK, Call
  <2>4. Taken = 0 /\ Taken' = 0
    BY <2>2, <2>3 DEF Taken, Steps
  <2> QED
    BY <2>1, <2>4, Stutters
<1>3. CASE ReadPublish
  <2>1. /\ nin' = nin /\ nout' = nout + r.len /\ data' = data
        /\ r' = Done(r, "publish") /\ "publish" \in r.todo /\ "copy" \notin r.todo
        /\ r \in Call
    BY <1>3 DEF ReadPublish, MayPublish, Trusted, IInv, TypeOK
  <2>2. r.todo = {"publish"}
    BY <2>1 DEF Call, Steps
  <2>3. r' = NoCall
    BY <2>1, <2>2 DEF Done
  <2>4. Taken = r.len /\ Taken' = 0
    BY <2>2, <2>3, NoCallIs DEF Taken
  <2>5. nout \in Nat /\ r.len \in Nat
    BY <2>1, CallTypes DEF IInv, TypeOK
  <2> QED
    BY <2>1, <2>4, <2>5, Stutters
<1> QED
  BY <1>1, <1>2, <1>3

\* The ring (audio_bridge ring buffer, write and read) implements ByteFifo for
\* every size and word: in a build that gives the promise every step of it puts,
\* gets, or leaves the channel as it is; in the others the amount is bounded.
THEOREM RingIsAFifo == Spec => IsAFifo
<1>1. Init => Channel!Init
  <2> SUFFICES ASSUME Init PROVE Channel!Init
    OBVIOUS
  <2>1. IInv
    BY InitIInv
  <2>2. nin = 0 /\ nout = 0 /\ r.todo = {} /\ data = << >>
    BY DEF Init, NoCall
  <2>3. size \in Nat /\ Trusted \in BOOLEAN
    BY <2>1, SizeFacts DEF IInv, TypeOK, Trusted
  <2>4. Taken = 0
    BY <2>2 DEF Taken
  <2>5. Used = 0
    BY <2>1, <2>2, Measures DEF IInv
  <2>6. [i \in 1 .. Used - Taken |-> buffer[(out + Taken + i - 1) % size]] = << >>
    BY <2>4, <2>5
  <2> QED
    BY <2>2, <2>3, <2>6 DEF Channel!Init
<1>2. IInv /\ IInv' /\ [Next]_vars => [Channel!Next]_(Channel!vars)
  <2> SUFFICES ASSUME IInv, IInv', [Next]_vars PROVE [Channel!Next]_(Channel!vars)
    OBVIOUS
  <2>1. build' = build /\ size' = size
    BY DEF Next, vars, WriteCall, WriteSize, WriteCopy, WritePublish,
           ReadCall, ReadSize, ReadCopy, ReadPublish
  <2>2. Trusted' = Trusted
    BY <2>1 DEF Trusted
  <2>3. CASE Trusted
    <3>1. \/ Puts \/ Gets
          \/ Queue' = Queue /\ nin' = nin /\ data' = data
      BY <2>2, <2>3, PublishPuts, CopyGets, OthersStutter DEF Next
    <3> QED
      BY <2>1, <2>2, <2>3, <3>1
      DEF Puts, Gets, Queue, Channel!Next, Channel!Put, Channel!Get, Channel!vars
  <2>4. CASE ~Trusted
    <3>1. (Len(Queue) \in 0 .. size)'
      BY QueueLen, PTL
    <3>2. size \in Nat
      BY SizeFacts DEF IInv, TypeOK
    <3>3. Len(Queue') <= size
      BY <2>1, <3>1, <3>2
    <3> QED
      BY <2>1, <2>2, <2>4, <3>3
      DEF Queue, Channel!Next, Channel!Anything
  <2> QED
    BY <2>3, <2>4
<1> QED
  BY <1>1, <1>2, RingInvariant, PTL DEF Spec, IsAFifo, Channel!Spec
=============================================================================
