------------------------------- MODULE ShmPool -------------------------------
(***************************************************************************)
(* The client of the memory shared with the DSP (hifi4rpc_client/          *)
(* rpc_client_shm.c over hifi4rpc/rpc_dev.c), used by any number of        *)
(* threads.  The pool is initialised by the first call that needs it,      *)
(* under a mutex, but whether it needs it is asked outside: rpchdl < 0.    *)
(* A request to the DSP is a write and a read on the one RPC device.       *)
(*                                                                         *)
(* Opening a device, its ioctl, mmap, write and read may fail.  The DSP's  *)
(* side is not in this repository: it gives out blocks of a finite pool,   *)
(* and a thread's read gets the answer to that thread's write.             *)
(***************************************************************************)
EXTENDS Integers

CONSTANTS
  Threads,   \* the callers
  Blocks,    \* the names of the DSP's blocks: positive numbers
  MaxCalls   \* bound: calls of the library

ASSUME ShmPoolAssumption ==
  /\ "free" \notin Threads
  /\ Blocks \subseteq Nat \ {0}
  /\ MaxCalls \in Nat

\* A null handle, and what is found in an argument block nobody filled in.
Null == 0
Junk == -1

VARIABLES
  mutex,     \* the thread that holds gACodecShmPoolInfo.mutex, or "free"
  fd,        \* gACodecShmPoolInfo.fd >= 0
  info,      \* ShmPhyBase and size are set
  map,       \* ShmVirBase: "none", "mapped", or "failed" (MAP_FAILED)
  rpchdl,    \* gACodecShmPoolInfo.rpchdl >= 0
  call,      \* per thread: where it is, in which function, and its handle
  live,      \* DSP: the blocks given out
  held,      \* per thread: the handle it was given and has not freed, or Null
  opened,    \* ghost: how often the pool's and the RPC device are open
  faults,    \* ghost: what failed so far
  calls      \* calls made (bounded)

pool == <<fd, info, map, rpchdl>>
poolVars == <<mutex, pool, call, live, held, opened, faults, calls>>

Idle == [pc |-> "idle", op |-> "none", h |-> Null]

PoolInit ==
  /\ mutex = "free"
  /\ fd = FALSE /\ info = FALSE /\ map = "none" /\ rpchdl = FALSE
  /\ call = [t \in Threads |-> Idle]
  /\ live = {}
  /\ held = [t \in Threads |-> Null]
  /\ opened = [shm |-> 0, rpc |-> 0]
  /\ faults = {}
  /\ calls = 0

At(t, pc) == call[t].pc = pc
Goes(t, pc) == call' = [call EXCEPT ![t].pc = pc]
Returns(t) == call' = [call EXCEPT ![t] = Idle]
Fails(what) == faults' = faults \cup {what}

-----------------------------------------------------------------------------
(***************************************************************************)
(* The functions of the library.                                           *)
(***************************************************************************)

\* AML_MEM_Allocate; AML_MEM_GetVirtAddr, AML_MEM_Clean and AML_MEM_Invalidate
\* of a block; AML_MEM_Free, which does not ask whether the pool is ready.
Calls(t) ==
  /\ At(t, "idle")
  /\ calls < MaxCalls
  /\ calls' = calls + 1
  /\ \/ /\ held[t] = Null
        /\ call' = [call EXCEPT ![t] = [pc |-> "ask", op |-> "allocate", h |-> Null]]
        /\ UNCHANGED held
     \/ /\ held[t] # Null
        /\ call' = [call EXCEPT ![t] = [pc |-> "ask", op |-> "use", h |-> held[t]]]
        /\ UNCHANGED held
     \/ /\ held[t] # Null
        /\ call' = [call EXCEPT ![t] = [pc |-> "write", op |-> "free", h |-> held[t]]]
        /\ held' = [held EXCEPT ![t] = Null]
  /\ UNCHANGED <<mutex, pool, live, opened, faults>>

Operation(t) == IF call[t].op = "allocate" THEN "write" ELSE "use"

\* if (gACodecShmPoolInfo.rpchdl < 0)
Ask(t) ==
  /\ At(t, "ask")
  /\ Goes(t, IF rpchdl THEN Operation(t) ELSE "lock")
  /\ UNCHANGED <<mutex, pool, live, held, opened, faults, calls>>

\* The address of the block, or the cache ioctl on it.
Use(t) ==
  /\ At(t, "use")
  /\ Returns(t)
  /\ UNCHANGED <<mutex, pool, live, held, opened, faults, calls>>

-----------------------------------------------------------------------------
(***************************************************************************)
(* Aml_ACodecMemory_Init                                                   *)
(***************************************************************************)

Lock(t) ==
  /\ At(t, "lock")
  /\ mutex = "free"
  /\ mutex' = t
  /\ Goes(t, "test")
  /\ UNCHANGED <<pool, live, held, opened, faults, calls>>

\* (A bug to be caught: the pool that another thread opened is opened again.)
TestNothing(t) ==
  /\ At(t, "test")
  /\ Goes(t, "open")
  /\ UNCHANGED <<mutex, pool, live, held, opened, faults, calls>>

\* Another thread, or an attempt that failed later than open, was here before.
Test(t) ==
  /\ At(t, "test")
  /\ Goes(t, IF fd THEN "unlock" ELSE "open")
  /\ UNCHANGED <<mutex, pool, live, held, opened, faults, calls>>

Open(t) ==
  /\ At(t, "open")
  /\ \/ /\ fd' = TRUE
        /\ opened' = [opened EXCEPT !.shm = @ + 1]
        /\ Goes(t, "info")
        /\ UNCHANGED faults
     \/ /\ Goes(t, "fail")
        /\ Fails("open")
        /\ UNCHANGED <<fd, opened>>
  /\ UNCHANGED <<mutex, info, map, rpchdl, live, held, calls>>

\* (A bug to be caught: the RPC handle is set before the pool is mapped.)
InfoAndRpc(t) ==
  /\ At(t, "info")
  /\ \/ info' = TRUE /\ rpchdl' = TRUE /\ Goes(t, "map") /\ UNCHANGED faults
     \/ Goes(t, "fail") /\ Fails("info") /\ UNCHANGED <<info, rpchdl>>
  /\ UNCHANGED <<mutex, fd, map, live, held, opened, calls>>

\* ioctl(HIFI4DSP_GET_INFO); its failure leaves the device open.
Info(t) ==
  /\ At(t, "info")
  /\ \/ info' = TRUE /\ Goes(t, "map") /\ UNCHANGED faults
     \/ Goes(t, "fail") /\ Fails("info") /\ UNCHANGED info
  /\ UNCHANGED <<mutex, fd, map, rpchdl, live, held, opened, calls>>

\* mmap, whose failure is not looked at.
Map(t) ==
  /\ At(t, "map")
  /\ \/ map' = "mapped" /\ UNCHANGED faults
     \/ map' = "failed" /\ Fails("map")
  /\ Goes(t, "rpc")
  /\ UNCHANGED <<mutex, fd, info, rpchdl, live, held, opened, calls>>

\* xAudio_Ipc_init, whose failure is not looked at either.
RpcInit(t) ==
  /\ At(t, "rpc")
  /\ \/ /\ rpchdl' = TRUE
        /\ opened' = [opened EXCEPT !.rpc = @ + 1]
        /\ UNCHANGED faults
     \/ Fails("rpc") /\ UNCHANGED <<rpchdl, opened>>
  /\ Goes(t, "unlock")
  /\ UNCHANGED <<mutex, fd, info, map, live, held, calls>>

Unlock(t) ==
  /\ At(t, "unlock")
  /\ mutex' = "free"
  /\ Goes(t, Operation(t))
  /\ UNCHANGED <<pool, live, held, opened, faults, calls>>

\* (A bug to be caught: an error path keeps the mutex.)
UnlockForgotten(t) ==
  /\ At(t, "fail")
  /\ Returns(t)
  /\ UNCHANGED <<mutex, pool, live, held, opened, faults, calls>>

\* With -1: the caller returns NULL or -1.
UnlockFailed(t) ==
  /\ At(t, "fail")
  /\ mutex' = "free"
  /\ Returns(t)
  /\ UNCHANGED <<pool, live, held, opened, faults, calls>>

-----------------------------------------------------------------------------
(***************************************************************************)
(* RPC_invoke                                                              *)
(***************************************************************************)

\* The request reaches the DSP, which has answered when the write returns.
Write(t) ==
  /\ At(t, "write")
  /\ rpchdl
  /\ IF call[t].op = "free"
     THEN /\ live' = live \ {call[t].h}
          /\ Goes(t, "read")
     ELSE IF live = Blocks
     THEN /\ Goes(t, "read")
          /\ UNCHANGED live
     ELSE \E b \in Blocks \ live :
            /\ live' = live \cup {b}
            /\ call' = [call EXCEPT ![t].pc = "read", ![t].h = b]
  /\ UNCHANGED <<mutex, pool, held, opened, faults, calls>>

\* The write fails, for want of a device too: the argument block stays as the
\* caller left it, and AML_MEM_Allocate returns what it finds there.
WriteFails(t) ==
  /\ At(t, "write")
  /\ Fails("write")
  /\ held' = IF call[t].op = "allocate"
             THEN [held EXCEPT ![t] = Junk] ELSE held
  /\ Returns(t)
  /\ UNCHANGED <<mutex, pool, live, opened, calls>>

\* (A bug to be caught: the handle is taken from every answer, that of a free too.)
ReadAnyAnswer(t) ==
  /\ At(t, "read")
  /\ held' = [held EXCEPT ![t] = call[t].h]
  /\ Returns(t)
  /\ UNCHANGED <<mutex, pool, live, opened, faults, calls>>

Read(t) ==
  /\ At(t, "read")
  /\ held' = IF call[t].op = "allocate"
             THEN [held EXCEPT ![t] = call[t].h] ELSE held
  /\ Returns(t)
  /\ UNCHANGED <<mutex, pool, live, opened, faults, calls>>

\* The read fails: the argument block was cleared before.
ReadFails(t) ==
  /\ At(t, "read")
  /\ Fails("read")
  /\ Returns(t)
  /\ UNCHANGED <<mutex, pool, live, held, opened, calls>>

Step(t) ==
  \/ Ask(t) \/ Use(t)
  \/ Lock(t) \/ Test(t) \/ Open(t) \/ Info(t) \/ Map(t) \/ RpcInit(t)
  \/ Unlock(t) \/ UnlockFailed(t)
  \/ Write(t) \/ WriteFails(t) \/ Read(t) \/ ReadFails(t)

PoolNext == \E t \in Threads : Calls(t) \/ Step(t)

PoolSpec == PoolInit /\ [][PoolNext]_poolVars

\* A call that can go on does; nobody need call.
PoolFairSpec == PoolSpec /\ \A t \in Threads : WF_poolVars(Step(t))

-----------------------------------------------------------------------------
(***************************************************************************)
(* Properties                                                              *)
(***************************************************************************)

InInit == {"test", "open", "info", "map", "rpc", "unlock", "fail"}
Pc == {"idle", "ask", "use", "lock", "write", "read"} \cup InInit

PoolTypeOK ==
  /\ mutex \in Threads \cup {"free"}
  /\ fd \in BOOLEAN /\ info \in BOOLEAN /\ rpchdl \in BOOLEAN
  /\ map \in {"none", "mapped", "failed"}
  /\ call \in [Threads -> [pc : Pc, op : {"none", "allocate", "use", "free"},
                           h : Blocks \cup {Null, Junk}]]
  /\ live \subseteq Blocks
  /\ held \in [Threads -> Blocks \cup {Null, Junk}]
  /\ opened \in [shm : Nat, rpc : Nat]
  /\ faults \subseteq {"open", "info", "map", "rpc", "write", "read"}
  /\ calls \in Nat

\* A thread that saw rpchdl set, without the mutex, finds everything else of
\* the pool, and one that waited for another's initialisation finds it done:
\* the handle is set last, and fd is asked only under the mutex.  Only an
\* attempt that failed half way leaves a pool that is open and not ready.
ReadyMeansComplete ==
  /\ rpchdl => fd /\ info /\ map # "none"
  /\ \A t \in Threads : At(t, "use") =>
       /\ fd
       /\ faults \cap {"info", "map", "rpc"} = {} => rpchdl /\ map = "mapped"

\* However many threads find the pool not ready at once, and however often an
\* attempt fails, each device is opened once.
OpenedOnce ==
  /\ opened.shm <= 1 /\ opened.rpc <= 1
  /\ fd <=> opened.shm = 1

\* Every block the DSP has given out is in the hands of exactly one thread or
\* on its way there, and a handle in hand is a block; unless a write failed,
\* which leaves the handle undefined, or a read, which loses the block.
InHand(t) == IF call[t].op = "allocate" /\ At(t, "read") THEN call[t].h
             ELSE IF call[t].op = "free" /\ At(t, "write") THEN call[t].h ELSE held[t]
BlocksAccounted ==
  faults \cap {"write", "read"} = {} =>
    /\ live = {InHand(t) : t \in Threads} \ {Null}
    /\ \A t, u \in Threads : t # u /\ InHand(t) # Null => InHand(t) # InHand(u)

\* Every call returns: each way out of the initialisation gives the mutex back.
EveryCallReturns == \A t \in Threads : ~At(t, "idle") ~> At(t, "idle")
=============================================================================
