---------------------------- MODULE AweLifecycle ----------------------------
(***************************************************************************)
(* Creating, opening, closing and destroying a wake engine                 *)
(* (hifi4rpc_client/aml_wakeup_api.c), with every allocation, the DSP's    *)
(* open, sem_init and pthread_create free to fail, and the calls that the  *)
(* status admits in between.  One application thread; the worker is only   *)
(* running or not here (AweInput and AweFreeRun are about what it does).   *)
(*                                                                         *)
(* Every block, in shared memory or on the heap, has a name of its own; a  *)
(* field of the AWE structure keeps the name of a block that is freed.     *)
(***************************************************************************)
EXTENDS Integers, FiniteSets

CONSTANTS
  Bufs,      \* micInChannels + refInChannels + outChannels
  MaxCalls   \* bound: calls of the API

ASSUME AweLifecycleAssumption == Bufs \in Nat \ {0} /\ MaxCalls \in Nat

Null == 0
Core == {"hParam", "hInput", "hOutput"}
Work == 1 .. Bufs

VARIABLES
  obj,       \* the application's AWE*: it has one or not
  status,    \* aweStatus
  core,      \* hParam, hInput, hOutput
  vsp,       \* hVsp
  work,      \* hinWorkBuf, then houtWorkBuf
  user,      \* userFillBuf
  running,   \* the worker thread runs
  enabled,   \* the DSP's instance is open (AML_VSP_Open, AML_VSP_Close)
  blocks,    \* the blocks allocated
  next,      \* the name of the next block
  wrong,     \* ghost: what was freed while not allocated, or by the wrong free
  failed,    \* ghost: an open of this engine failed
  behind,    \* ghost: one of them had opened the DSP's instance
  closed,    \* ghost: this engine was closed
  faults,    \* ghost: what went wrong before, of Fault
  last,      \* the last call and what it returned
  calls      \* calls made (bounded)

vars == <<obj, status, core, vsp, work, user, running, enabled, blocks, next, wrong,
          failed, behind, closed, faults, last, calls>>
fields == <<core, vsp, work, user>>

\* A create failed; an open failed, then another; an engine was closed twice.
Fault == {"create", "reopen", "reclose"}

Init ==
  /\ obj = FALSE
  /\ status = "IDLE"
  /\ core = [f \in Core |-> Null]
  /\ vsp = Null
  /\ work = [k \in Work |-> Null]
  /\ user = Null
  /\ running = FALSE /\ enabled = FALSE
  /\ blocks = {} /\ next = 1
  /\ wrong = {}
  /\ failed = FALSE /\ behind = FALSE /\ closed = FALSE /\ faults = {}
  /\ last = [call |-> "none", ret |-> "OK"]
  /\ calls = 0

Returns(call, ret) ==
  /\ calls < MaxCalls
  /\ calls' = calls + 1
  /\ last' = [call |-> call, ret |-> ret]

\* Freeing the blocks named (a null field is not freed).
NonNull(names) == names \ {Null}
FreeAll(names, allocated) ==
  /\ blocks' = allocated \ names
  /\ wrong' = wrong \cup (NonNull(names) \ allocated)

-----------------------------------------------------------------------------
\* AML_AWE_Create: three blocks, any of which may fail, and the DSP's engine.
CreateOK ==
  /\ ~obj
  /\ Returns("Create", "OK")
  /\ obj' = TRUE
  /\ status' = "IDLE"
  /\ core' = [f \in Core |-> CASE f = "hInput"  -> next
                               [] f = "hOutput" -> next + 1
                               [] f = "hParam"  -> next + 2]
  /\ vsp' = next + 3
  /\ work' = [k \in Work |-> Null]
  /\ user' = Null
  /\ blocks' = blocks \cup (next .. next + 3)
  /\ next' = next + 4
  /\ enabled' = FALSE
  /\ failed' = FALSE /\ behind' = FALSE /\ closed' = FALSE
  /\ UNCHANGED <<running, wrong, faults>>

\* The failure path frees hParam and hInput, hInput again in place of hOutput,
\* and the DSP's engine as if it were shared memory.
CreateFails ==
  /\ ~obj
  /\ Returns("Create", "NO_MEM")
  /\ \E got \in (SUBSET Core) \ {Core} :
       LET named == (IF "hInput" \in got THEN {next} ELSE {})
                    \cup (IF "hParam" \in got THEN {next + 2} ELSE {})
           output == IF "hOutput" \in got THEN {next + 1} ELSE {}
       IN  /\ blocks' = blocks \cup output \cup {next + 3}
           /\ wrong' = wrong \cup {next + 3}
                       \cup (IF "hOutput" \in got /\ "hInput" \in got THEN {next} ELSE {})
  /\ next' = next + 4
  /\ faults' = faults \cup {"create"}
  /\ UNCHANGED <<obj, status, fields, running, enabled, failed, behind, closed>>

-----------------------------------------------------------------------------
(***************************************************************************)
(* AML_AWE_Open, after the parameters are read: the DSP's open, one block  *)
(* per channel in order, the ring, the semaphore, the thread.  `stage' is  *)
(* the first of these that fails.                                          *)
(***************************************************************************)

\* 0 is the DSP, k the k-th work buffer.
Ring == Bufs + 1    \* userFillBuf
Thread == Bufs + 3  \* after the semaphore, Bufs + 2

\* The blocks allocated before the stage, and the fields then.
Allocated(stage) ==
  {next + (k - 1) : k \in {k \in Work : k < stage}}
  \cup (IF stage > Ring THEN {next + Bufs} ELSE {})
WorkAt(stage) ==
  [k \in Work |-> CASE k < stage -> next + (k - 1)
                    [] k = stage -> Null
                    [] k > stage -> work[k]]
\* (A bug to be caught: the ring is not recorded in its field.)
UserUnrecorded(stage) == IF stage = Ring THEN Null ELSE user

UserAt(stage) ==
  CASE stage < Ring -> user
    [] stage = Ring -> Null
    [] stage > Ring -> next + Bufs

\* (A bug to be caught: a ring left by an earlier attempt is taken over.)
OpenReuses ==
  /\ obj /\ status = "IDLE"
  /\ Returns("Open", "OK")
  /\ work' = [k \in Work |-> next + (k - 1)]
  /\ user' = IF user = Null THEN next + Bufs ELSE user
  /\ blocks' = blocks \cup (next .. next + Bufs)
  /\ next' = next + Bufs + 1
  /\ running' = TRUE
  /\ status' = "EXECUTE"
  /\ enabled' \in {enabled, TRUE}
  /\ UNCHANGED <<obj, core, vsp, wrong, failed, behind, closed, faults>>

\* (AML_VSP_Open says AWE_RET_OK of a request that was not sent, and the DSP's
\* instance stays as it was; so does AML_VSP_Close.)
OpenOK ==
  /\ obj /\ status = "IDLE"
  /\ Returns("Open", "OK")
  /\ work' = [k \in Work |-> next + (k - 1)]
  /\ user' = next + Bufs
  /\ blocks' = blocks \cup (next .. next + Bufs)
  /\ next' = next + Bufs + 1
  /\ running' = TRUE
  /\ status' = "EXECUTE"
  /\ enabled' \in {enabled, TRUE}
  /\ UNCHANGED <<obj, core, vsp, wrong, failed, behind, closed, faults>>

\* An allocation that fails leaves ret as AML_VSP_Open set it: AWE_RET_OK.  The
\* fields keep the names of the blocks freed, those of an earlier attempt too,
\* and the DSP's instance stays open: the path has no AML_VSP_Close.
\* (The path also joins a thread that was never created, which POSIX leaves
\* undefined: the call returns, as here, or the program ends.)
OpenFails ==
  /\ obj /\ status = "IDLE"
  /\ \E stage \in 0 .. Thread :
       /\ Returns("Open", IF stage \in 1 .. Ring THEN "OK" ELSE "ERROR")
       /\ work' = WorkAt(stage)
       /\ user' = UserAt(stage)
       /\ FreeAll({user'} \cup {work'[k] : k \in Work}, blocks \cup Allocated(stage))
       /\ enabled' \in (IF stage = 0 THEN {enabled} ELSE {enabled, TRUE})
       /\ behind' = (behind \/ stage > 0)
  /\ next' = next + Bufs + 1
  /\ failed' = TRUE
  /\ faults' = IF failed THEN faults \cup {"reopen"} ELSE faults
  /\ UNCHANGED <<obj, status, core, vsp, running, closed>>

-----------------------------------------------------------------------------
\* AML_AWE_Close: stop and join the worker, free what Open allocated, close the
\* DSP's instance.  The status stays EXECUTE.
Close ==
  /\ obj /\ status = "EXECUTE"
  /\ \E ret \in {"OK", "ERROR"} : Returns("Close", ret)
  /\ running' = FALSE
  /\ FreeAll({user} \cup {work[k] : k \in Work}, blocks)
  /\ enabled' \in {enabled, FALSE}
  /\ closed' = TRUE
  /\ faults' = IF closed THEN faults \cup {"reclose"} ELSE faults
  /\ UNCHANGED <<obj, status, fields, next, failed, behind>>

CloseRefused ==
  /\ obj /\ status # "EXECUTE"
  /\ Returns("Close", "NOT_SUPPORT")
  /\ UNCHANGED <<obj, status, fields, running, enabled, blocks, next, wrong,
                 failed, behind, closed, faults>>

\* (A bug to be caught: what AML_AWE_Close freed is freed again.)
DestroyAgain ==
  /\ obj /\ last.call = "Close"
  /\ Returns("Destroy", "OK")
  /\ obj' = FALSE
  /\ FreeAll({core[f] : f \in Core} \cup {vsp, user}, blocks)
  /\ enabled' = FALSE
  /\ UNCHANGED <<status, fields, running, next, failed, behind, closed, faults>>

\* (A bug to be caught: hOutput is forgotten.)
DestroyLess ==
  /\ obj /\ last.call = "Close"
  /\ Returns("Destroy", "OK")
  /\ obj' = FALSE
  /\ FreeAll({core["hInput"], core["hParam"], vsp}, blocks)
  /\ enabled' = FALSE
  /\ UNCHANGED <<status, fields, running, next, failed, behind, closed, faults>>

\* AML_AWE_Destroy, which the callers reach only through AML_AWE_Close; the
\* DSP's instance ends with the engine (AML_VSP_Deinit).
Destroy ==
  /\ obj /\ last.call = "Close"
  /\ Returns("Destroy", "OK")
  /\ obj' = FALSE
  /\ FreeAll({core[f] : f \in Core} \cup {vsp}, blocks)
  /\ enabled' = FALSE
  /\ UNCHANGED <<status, fields, running, next, failed, behind, closed, faults>>

\* AML_AWE_Process and AML_AWE_PushBuf ask for the status and no more.
Use(call) ==
  /\ obj
  /\ Returns(call, IF status = "EXECUTE" THEN "OK" ELSE "NOT_SUPPORT")
  /\ UNCHANGED <<obj, status, fields, running, enabled, blocks, next, wrong,
                 failed, behind, closed, faults>>

\* AML_AWE_AddDataHandler, AML_AWE_AddEventHandler: before the engine works
\* only, for the worker reads the handlers without a lock.
AddHandler ==
  /\ obj
  /\ Returns("AddHandler", IF status = "IDLE" THEN "OK" ELSE "NOT_SUPPORT")
  /\ UNCHANGED <<obj, status, fields, running, enabled, blocks, next, wrong,
                 failed, behind, closed, faults>>

\* AML_AWE_GetParam asks the DSP in any status, through hParam.
GetParam ==
  /\ obj
  /\ \E ret \in {"OK", "ERROR"} : Returns("GetParam", ret)
  /\ UNCHANGED <<obj, status, fields, running, enabled, blocks, next, wrong,
                 failed, behind, closed, faults>>

Next ==
  \/ CreateOK \/ CreateFails
  \/ OpenOK \/ OpenFails
  \/ Close \/ CloseRefused
  \/ Destroy
  \/ \E call \in {"Process", "PushBuf"} : Use(call)
  \/ AddHandler \/ GetParam

Spec == Init /\ [][Next]_vars

-----------------------------------------------------------------------------
(***************************************************************************)
(* Properties                                                              *)
(***************************************************************************)

Held == {core[f] : f \in Core} \cup {vsp}
Opened == {user} \cup {work[k] : k \in Work}

TypeOK ==
  /\ obj \in BOOLEAN /\ running \in BOOLEAN /\ enabled \in BOOLEAN
  /\ status \in {"IDLE", "EXECUTE"}
  /\ next \in Nat \ {0}
  /\ core \in [Core -> 0 .. next - 1]
  /\ vsp \in 0 .. next - 1
  /\ work \in [Work -> 0 .. next - 1]
  /\ user \in 0 .. next - 1
  /\ blocks \subseteq 1 .. next - 1
  /\ wrong \subseteq 1 .. next - 1
  /\ failed \in BOOLEAN /\ behind \in BOOLEAN /\ closed \in BOOLEAN
  /\ faults \subseteq Fault
  /\ calls \in Nat
  /\ last \in [call : {"none", "Create", "Open", "Close", "Destroy", "Process", "PushBuf",
                      "AddHandler", "GetParam"},
               ret : {"OK", "NO_MEM", "ERROR", "NOT_SUPPORT"}]

\* An engine in status EXECUTE that is not closed has everything the worker
\* and the callers use, all different, whatever failed in earlier attempts to
\* open it.
ExecuteMeansReady ==
  obj /\ status = "EXECUTE" /\ ~closed =>
    /\ running
    /\ Held \cup Opened \subseteq blocks
    /\ Cardinality(Held \cup Opened) = Bufs + 5

\* A failed open releases what it allocated, however far it came and whatever
\* the fields still named from an earlier attempt: the library holds what
\* AML_AWE_Create allocated and no more, and there is no worker.  The one thing
\* that stays is the DSP's instance, open after an open that failed behind
\* AML_VSP_Open (the failure path does not close it) and after no other.
FailedOpenReleases ==
  obj /\ status = "IDLE" /\ "create" \notin faults =>
    /\ ~running
    /\ blocks = Held
    /\ enabled => behind

\* A block is freed once and by its own free, unless a create failed, an open
\* failed again or an engine is closed again: fields keep naming freed blocks.
\* An open that succeeds after one that failed is no such case.
FreesOnce == wrong # {} => faults # {}

\* include/aml_wakeup_api.h of AML_AWE_Destroy: "Destory AWE instance and all
\* resources allocated": nothing of an engine that was closed first stays
\* behind, whatever failed or was repeated, if every create succeeded.
DestroyReleasesAll ==
  last.call = "Destroy" /\ "create" \notin faults => blocks = {} /\ ~running

\* include/aml_wakeup_api.h of AML_AWE_Open: "AWE is moved to working status
\* after this call", "return AWE_RET_OK if successful".
OpenTellsTheTruth == last = [call |-> "Open", ret |-> "OK"] => status = "EXECUTE"

\* include/aml_wakeup_api.h of AML_AWE_Close: "The API AML_AWE_Process can not
\* working after this call."
CloseEndsProcess ==
  closed => last # [call |-> "Process", ret |-> "OK"]
=============================================================================
