-------------------------------- MODULE TBuf --------------------------------
(***************************************************************************)
(* The T buffer (hifi4rpc_client/aml_tbuf_api.c): one writer, two readers  *)
(* A and B that may come and go, in shared memory.  A reader that is not   *)
(* enabled does not hold the writer back; a reader that joins starts where *)
(* the master reader is.  AddConsumer, RemoveConsumer and GetSpace take    *)
(* tMutex; the offset updates, GetFullness and the two pointer getters do  *)
(* not.                                                                    *)
(*                                                                         *)
(* The threads around it are those of hifi4rpc_test/hifi4_tbuf_test.c: a   *)
(* capture thread, one feeding thread per reader, and the thread that adds *)
(* and removes the readers.  A reader is removed, or added again, only     *)
(* while its own thread is between two chunks.                             *)
(*                                                                         *)
(* Memory holds stream positions: byte p of the captured stream is p.      *)
(***************************************************************************)
EXTENDS Integers

CONSTANTS
  Size,      \* tbufSize; the allocation is twice as long
  Chunk,     \* the writer's CHUNK_BYTES
  ReadChunk, \* the readers' CHUNK_BYTES
  Total,     \* bytes the writer captures before it ends (remaindSize)
  MaxJoins   \* bound: calls of AddConsumer

ASSUME TBufAssumption ==
  /\ Size \in Nat \ {0}
  /\ Chunk \in 1 .. Size
  /\ ReadChunk \in 1 .. Size
  /\ Total \in Nat
  /\ MaxJoins \in Nat

Reader == {"A", "B"}
Other(x) == IF x = "A" THEN "B" ELSE "A"

\* TBUF_READER_INV
Inv == "INV"

VARIABLES
  wr,        \* tbuf->wr
  rd,        \* tbuf->rdA and rdB
  enabled,   \* the readers with isAEnabled, isBEnabled set
  rdMaster,  \* tbuf->rdMaster
  mem,       \* the shared memory, the pad included
  writer,    \* the capture thread: where it is, and the length it moves
  reader,    \* the feeding threads
  joins,     \* calls of AddConsumer made (bounded)
  nwr, nrd,  \* ghosts: the writer's and the readers' stream positions
  late       \* ghost: readers that joined an unread buffer during a write

offsets == <<wr, rd, enabled, rdMaster>>
vars == <<wr, rd, enabled, rdMaster, mem, writer, reader, joins, nwr, nrd, late>>

Stale == -1
Address == 0 .. 2 * Size - 1

Init ==
  /\ wr = 0
  /\ rd = [x \in Reader |-> 0]
  /\ enabled = {}
  /\ rdMaster = Inv
  /\ mem = [a \in Address |-> Stale]
  /\ writer = [pc |-> "wait", len |-> 0]
  /\ reader = [x \in Reader |-> [pc |-> "wait", len |-> 0]]
  /\ joins = 0
  /\ nwr = 0
  /\ nrd = [x \in Reader |-> 0]
  /\ late = {}

-----------------------------------------------------------------------------
(***************************************************************************)
(* The two measures.                                                       *)
(***************************************************************************)

\* (A bug to be caught: a full ring looks empty.)
SpaceForAll(x) == IF rd[x] > wr THEN rd[x] - wr ELSE (Size + rd[x]) - wr

\* One reader's part of AML_TBUF_GetSpace.
SpaceFor(x) == IF rd[x] > wr THEN (rd[x] - wr) - 1 ELSE ((Size + rd[x]) - wr) - 1

\* (A bug to be caught: the larger of the two parts.)
HasSpaceForOne(n) == n <= Size /\ (enabled = {} \/ \E x \in enabled : n <= SpaceFor(x))

\* (A bug to be caught: only the master reader is asked.)
HasSpaceForMaster(n) == n <= Size /\ (rdMaster # Inv => n <= SpaceFor(rdMaster))

\* AML_TBUF_GetSpace: the smaller of the two parts; a reader that is not
\* enabled counts as the whole buffer.
HasSpace(n) == n <= Size /\ \A x \in enabled : n <= SpaceFor(x)

\* AML_TBUF_GetFullness.
Fullness(x) == IF wr >= rd[x] THEN wr - rd[x] ELSE (Size + wr) - rd[x]

-----------------------------------------------------------------------------
(***************************************************************************)
(* The control thread.                                                     *)
(***************************************************************************)

\* AML_TBUF_AddConsumer: the first reader starts at offset 0, where the bytes
\* since the last wrap begin; the next one starts where the master is.
AddConsumer(x) ==
  /\ joins < MaxJoins
  /\ joins' = joins + 1
  /\ reader[x].pc = "wait"
  /\ CASE rdMaster = Inv ->
            /\ rd' = [rd EXCEPT ![x] = 0]
            /\ nrd' = [nrd EXCEPT ![x] = nwr - wr]
            /\ late' = IF writer.pc = "wait" THEN late ELSE late \cup {x}
       [] rdMaster = Other(x) ->
            /\ rd' = [rd EXCEPT ![x] = rd[Other(x)]]
            /\ nrd' = [nrd EXCEPT ![x] = nrd[Other(x)]]
            /\ late' = IF Other(x) \in late THEN late \cup {x} ELSE late \ {x}
       [] rdMaster = x -> UNCHANGED <<rd, nrd, late>>
  /\ rdMaster' = x
  /\ enabled' = enabled \cup {x}
  /\ UNCHANGED <<wr, mem, writer, reader, nwr>>

\* AML_TBUF_RemoveConsumer
RemoveConsumer(x) ==
  /\ reader[x].pc = "wait"
  /\ enabled' = enabled \ {x}
  /\ rdMaster' = IF Other(x) \in enabled THEN Other(x) ELSE Inv
  /\ late' = late \ {x}
  /\ UNCHANGED <<wr, rd, mem, writer, reader, joins, nwr, nrd>>

-----------------------------------------------------------------------------
(***************************************************************************)
(* The capture thread: measure the space, fill, advance the write offset.  *)
(***************************************************************************)

\* It polls until a whole chunk fits, and ends with the stream.
WriterMeasure ==
  /\ writer.pc = "wait"
  /\ nwr < Total
  /\ HasSpace(Chunk)
  /\ writer' = [pc |-> "fill",
                len |-> IF Total - nwr < Chunk THEN Total - nwr ELSE Chunk]
  /\ UNCHANGED <<offsets, mem, reader, joins, nwr, nrd, late>>

AML_TBUF_GetWrPtr == wr

\* The capture device writes one contiguous block at the write pointer: past
\* the end of the ring it goes into the pad.
WriterFill ==
  LET at == AML_TBUF_GetWrPtr IN
  /\ writer.pc = "fill"
  /\ mem' = [a \in Address |-> IF a \in at .. (at + writer.len) - 1
                               THEN nwr + (a - at) ELSE mem[a]]
  /\ writer' = [writer EXCEPT !.pc = "update"]
  /\ UNCHANGED <<offsets, reader, joins, nwr, nrd, late>>

\* AML_TBUF_UpdateWrOffset
WriterUpdate ==
  /\ writer.pc = "update"
  /\ wr' = (wr + writer.len) % Size
  /\ nwr' = nwr + writer.len
  /\ writer' = [pc |-> "wait", len |-> 0]
  /\ UNCHANGED <<rd, enabled, rdMaster, mem, reader, joins, nrd, late>>

-----------------------------------------------------------------------------
(***************************************************************************)
(* The feeding thread of reader x: measure, hand the block at the read     *)
(* pointer to the DSP, advance the read offset by what it took.            *)
(***************************************************************************)

\* (A bug to be caught: more than a chunk is waited for.)
ReaderMeasureMore(x) ==
  /\ x \in enabled
  /\ reader[x].pc = "wait"
  /\ Fullness(x) > ReadChunk
  /\ reader' = [reader EXCEPT ![x] = [pc |-> "take", len |-> ReadChunk]]
  /\ UNCHANGED <<offsets, mem, writer, joins, nwr, nrd, late>>

\* A whole chunk, or what there is when less than a chunk of the stream is left
\* to feed (a thread's remaindSize: it is set up for the stream from where its
\* reader joins).
ReaderMeasure(x) ==
  /\ x \in enabled
  /\ reader[x].pc = "wait"
  /\ \/ /\ Fullness(x) >= ReadChunk
        /\ reader' = [reader EXCEPT ![x] = [pc |-> "take", len |-> ReadChunk]]
     \/ /\ Fullness(x) \in 1 .. ReadChunk - 1
        /\ Total - nrd[x] < ReadChunk
        /\ reader' = [reader EXCEPT ![x] = [pc |-> "take", len |-> Fullness(x)]]
  /\ UNCHANGED <<offsets, mem, writer, joins, nwr, nrd, late>>

AML_TBUF_GetRdPtr(x) == rd[x]

\* AML_FLATBUF_Write returned: the DSP took the block at the read pointer.
ReaderTaken(x) ==
  /\ reader[x].pc = "take"
  /\ reader' = [reader EXCEPT ![x].pc = "update"]
  /\ UNCHANGED <<offsets, mem, writer, joins, nwr, nrd, late>>

\* AML_TBUF_UpdateRdOffset
ReaderUpdate(x) ==
  /\ reader[x].pc = "update"
  /\ rd' = [rd EXCEPT ![x] = (@ + reader[x].len) % Size]
  /\ nrd' = [nrd EXCEPT ![x] = @ + reader[x].len]
  /\ reader' = [reader EXCEPT ![x] = [pc |-> "wait", len |-> 0]]
  /\ UNCHANGED <<wr, enabled, rdMaster, mem, writer, joins, nwr, late>>

WriterStep == WriterMeasure \/ WriterFill \/ WriterUpdate
ReaderStep(x) == ReaderMeasure(x) \/ ReaderTaken(x) \/ ReaderUpdate(x)

Next ==
  \/ \E x \in Reader : AddConsumer(x) \/ RemoveConsumer(x) \/ ReaderStep(x)
  \/ WriterStep

Spec == Init /\ [][Next]_vars

\* Each thread polls and so takes its next step when it can; readers need not
\* ever be added or removed.
FairSpec == Spec /\ WF_vars(WriterStep) /\ \A x \in Reader : WF_vars(ReaderStep(x))

-----------------------------------------------------------------------------
(***************************************************************************)
(* Properties                                                              *)
(***************************************************************************)

Thread == [pc : {"wait", "fill", "take", "update"}, len : 0 .. Size]

TypeOK ==
  /\ wr \in 0 .. Size - 1
  /\ rd \in [Reader -> 0 .. Size - 1]
  /\ enabled \subseteq Reader
  /\ rdMaster \in Reader \cup {Inv}
  /\ mem \in [Address -> Nat \cup {Stale}]
  /\ writer \in Thread
  /\ reader \in [Reader -> Thread]
  /\ joins \in Nat
  /\ nwr \in Nat
  /\ nrd \in [Reader -> Nat]
  /\ late \subseteq Reader

\* The master is always an enabled reader, and there is one as soon as a
\* reader is enabled: a joining reader never copies the offset of a reader
\* that no longer holds the writer back.
MasterIsEnabled ==
  IF enabled = {} THEN rdMaster = Inv ELSE rdMaster \in enabled

\* The writer never laps a reader, though it measures the space long before
\* it fills it and readers join and leave meanwhile; and the reader's measure
\* is the true distance.  (A reader that joined an unread buffer during a
\* write was not counted by that write.)
NeverLapped ==
  \A x \in enabled \ late :
    /\ nrd[x] <= nwr
    /\ nwr - nrd[x] <= Size - 1
    /\ Fullness(x) = nwr - nrd[x]

\* What the DSP is given is the captured stream: while the block of reader x
\* is out, byte i of it is byte nrd[x] + i of the stream.
FeedsTheStream ==
  \A x \in enabled \ late :
    reader[x].pc = "take" =>
      \A i \in 0 .. reader[x].len - 1 : mem[AML_TBUF_GetRdPtr(x) + i] = nrd[x] + i

\* The block the writer fills is never one a reader is still feeding from.
BlocksAreDisjoint ==
  writer.pc = "fill" =>
    \A x \in enabled \ late :
      reader[x].pc = "take" =>
        LET at == AML_TBUF_GetWrPtr
            from == AML_TBUF_GetRdPtr(x)
        IN  (at .. (at + writer.len) - 1) \cap (from .. (from + reader[x].len) - 1) = {}

\* A reader that stays gets everything: the writer does not stop for lack of
\* room while a reader waits for data.
EverythingIsFed ==
  \A x \in Reader :
    []<>(x \notin enabled \/ x \in late \/ nrd[x] = Total)

-----------------------------------------------------------------------------
(***************************************************************************)
(* The inductive invariant behind MasterIsEnabled, NeverLapped and         *)
(* BlocksAreDisjoint (TBufProofs).                                         *)
(***************************************************************************)

Offsets ==
  /\ wr = nwr % Size
  /\ \A x \in Reader : rd[x] = nrd[x] % Size

\* What the writer has in flight fits behind every reader it has counted.
Window ==
  \A x \in enabled \ late :
    /\ nrd[x] <= nwr
    /\ (nwr + writer.len) - nrd[x] <= Size - 1

\* What a reader has out is behind the writer, and the reader stays enabled.
Feeding ==
  /\ writer.pc = "wait" => writer.len = 0
  /\ \A x \in Reader :
       /\ reader[x].pc # "wait" => x \in enabled
       /\ reader[x].pc = "wait" => reader[x].len = 0
       /\ x \in enabled \ late => nrd[x] + reader[x].len <= nwr

IInv ==
  /\ TypeOK /\ MasterIsEnabled /\ late \subseteq enabled
  /\ Offsets /\ Window /\ Feeding

-----------------------------------------------------------------------------
(***************************************************************************)
(* What FeedsTheStream rests on (TBufProofs).  Nobody copies the pad to    *)
(* the front of the ring or back, so a block is right only where it does   *)
(* not reach the pad: the ring is a whole number of the writer's chunks    *)
(* and of the readers' (the test's is ten of each).                        *)
(***************************************************************************)

WholeChunks == Size % Chunk = 0 /\ Size % ReadChunk = 0

\* What the writer has out is a block of the ring, for it starts at a chunk:
\* only the last chunk of the stream is short.
WritesWholeChunks ==
  /\ nwr + writer.len <= Total
  /\ nwr < Total => wr % Chunk = 0
  /\ writer.pc = "wait" \/ wr + writer.len <= Size
  /\ writer.len = Chunk \/ writer.len = 0 \/ nwr + writer.len = Total

\* A reader is at a chunk too, or in the last one.
TailFits(x) == Total - nrd[x] < ReadChunk /\ rd[x] + (Total - nrd[x]) <= Size
ReadsWholeChunks ==
  \A x \in enabled \ late :
    /\ rd[x] % ReadChunk = 0 \/ TailFits(x)
    /\ reader[x].len \in {0, ReadChunk} \/ Total - nrd[x] < ReadChunk

\* The ring holds the last bytes of the stream, those that what the writer has
\* in flight does not replace, and once that is filled it as well.
Holds ==
  \A p \in 0 .. (nwr + writer.len) - 1 :
    /\ (nwr + writer.len) - Size <= p
    /\ p < nwr \/ writer.pc = "update"
    => mem[p % Size] = p

StreamInv == WritesWholeChunks /\ ReadsWholeChunks /\ Holds

\* What a reader has not read yet is still in the ring, at its place, whatever
\* the writer and the other reader do.
KeepsTheUnread ==
  \A x \in enabled \ late : \A p \in nrd[x] .. nwr - 1 : mem[p % Size] = p
=============================================================================
