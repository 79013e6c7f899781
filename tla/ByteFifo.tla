------------------------------ MODULE ByteFifo ------------------------------
(***************************************************************************)
(* What the ring of the audio bridge promises to its two threads: a        *)
(* bounded first-in first-out channel of bytes.  Bytes are named by their  *)
(* position in the stream of accepted bytes, so the channel holds          *)
(* consecutive numbers.                                                    *)
(*                                                                         *)
(* `trusted' says whether the build gives the promise at all: when it does *)
(* not (see RingBuf, Builds), only the amount held is bounded.             *)
(***************************************************************************)
EXTENDS Naturals, Sequences

VARIABLES
  trusted,    \* the build orders its memory accesses and reads counters once
  capacity,   \* bytes the channel can hold
  accepted,   \* bytes ever accepted from the producer
  queue,      \* bytes held, oldest first
  delivered   \* the bytes the last completed read handed to the consumer

vars == <<trusted, capacity, accepted, queue, delivered>>

Init ==
  /\ trusted \in BOOLEAN
  /\ capacity \in Nat
  /\ accepted = 0
  /\ queue = << >>
  /\ delivered = << >>

\* The producer's call accepts n bytes: no more than there is room for.
Put(n) ==
  /\ n <= capacity - Len(queue)
  /\ queue' = queue \o [i \in 1 .. n |-> accepted + i - 1]
  /\ accepted' = accepted + n
  /\ UNCHANGED delivered

\* The consumer's call takes the n oldest bytes.
Get(n) ==
  /\ n <= Len(queue)
  /\ delivered' = SubSeq(queue, 1, n)
  /\ queue' = SubSeq(queue, n + 1, Len(queue))
  /\ UNCHANGED accepted

\* In an untrusted build only the amount is bounded.
Anything == Len(queue') <= capacity

Next ==
  /\ UNCHANGED <<trusted, capacity>>
  /\ IF trusted
     THEN \E n \in 0 .. capacity : Put(n) \/ Get(n)
     ELSE Anything

Spec == Init /\ [][Next]_vars
=============================================================================
