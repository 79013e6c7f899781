----------------------------- MODULE AweFreeRun -----------------------------
(***************************************************************************)
(* The wake engine fed by the DSP (hifi4rpc_client/aml_wakeup_api.c,       *)
(* AWE_DSP_INPUT_MODE), from AML_AWE_Open to AML_AWE_Close.  The worker    *)
(* thread calls AML_VSP_Process in a loop.  To let the DSP listen on its   *)
(* own, a controller sets AWE_PARA_FREE_RUN_MODE to 1: it raises           *)
(* bKickFreeRun and spins until the worker has lowered it on its way to    *)
(* sem_wait, then tells the DSP; set to 0, it tells the DSP and posts.     *)
(* Another thread may close the engine at any time.                        *)
(*                                                                         *)
(* bKickFreeRun is shared without synchronisation, which C leaves          *)
(* undefined: an optimised build may read it once and spin on a register   *)
(* (Hoists).                                                               *)
(***************************************************************************)
EXTENDS Naturals

CONSTANTS
  Hoists,        \* the outcomes of that race explored, a set of BOOLEANs
  MaxSetParams   \* bound: calls of AML_AWE_SetParam

ASSUME AweFreeRunAssumption == Hoists \subseteq BOOLEAN /\ MaxSetParams \in Nat

VARIABLES
  hoist,     \* the outcome this behaviour is about; never changes
  kick,      \* bKickFreeRun
  sem,       \* the value of userFillSem
  exit,      \* work_thread_exit
  free,      \* the DSP's free-run mode
  worker,    \* where the worker is
  ctrl,      \* where the controller is in AML_AWE_SetParam
  closer,    \* where the closing thread is in AML_AWE_Close
  setParams, \* calls of AML_AWE_SetParam made (bounded)
  sober      \* ghost: the controller has alternated 1 and 0 so far

freeRunVars == <<hoist, kick, sem, exit, free, worker, ctrl, closer, setParams, sober>>

FreeRunInit ==
  /\ hoist \in Hoists
  /\ kick = FALSE
  /\ sem = 0
  /\ exit = FALSE
  /\ free = FALSE
  /\ worker = "test"
  /\ ctrl = "idle"
  /\ closer = "open"
  /\ setParams = 0
  /\ sober = TRUE

-----------------------------------------------------------------------------
(***************************************************************************)
(* The worker, awe_thread_process_data.                                    *)
(***************************************************************************)

\* while (!work_thread_exit)
Test ==
  /\ worker = "test"
  /\ worker' = IF exit THEN "done" ELSE "check"
  /\ UNCHANGED <<hoist, kick, sem, exit, free, ctrl, closer, setParams, sober>>

Check ==
  /\ worker = "check"
  /\ worker' = IF kick THEN "lower" ELSE "process"
  /\ UNCHANGED <<hoist, kick, sem, exit, free, ctrl, closer, setParams, sober>>

\* (A bug to be caught: the flag is not lowered.)
LowerForgotten ==
  /\ worker = "lower"
  /\ worker' = "wait"
  /\ UNCHANGED <<hoist, kick, sem, exit, free, ctrl, closer, setParams, sober>>

Lower ==
  /\ worker = "lower"
  /\ kick' = FALSE
  /\ worker' = "wait"
  /\ UNCHANGED <<hoist, sem, exit, free, ctrl, closer, setParams, sober>>

\* sem_wait
Wait ==
  /\ worker = "wait"
  /\ sem > 0
  /\ sem' = sem - 1
  /\ worker' = "process"
  /\ UNCHANGED <<hoist, kick, exit, free, ctrl, closer, setParams, sober>>

\* AML_VSP_Process returns, and the handlers are called.
Process ==
  /\ worker = "process"
  /\ worker' = "test"
  /\ UNCHANGED <<hoist, kick, sem, exit, free, ctrl, closer, setParams, sober>>

-----------------------------------------------------------------------------
(***************************************************************************)
(* The controller, AML_AWE_SetParam(AWE_PARA_FREE_RUN_MODE).               *)
(***************************************************************************)

Call ==
  /\ ctrl = "idle"
  /\ closer # "closed"
  /\ setParams < MaxSetParams
  /\ setParams' = setParams + 1

\* freeRunMode 1: raise the flag ...
Enter ==
  /\ Call
  /\ kick' = TRUE
  /\ sober' = (sober /\ ~free)
  /\ ctrl' = "spin"
  /\ UNCHANGED <<hoist, sem, exit, free, worker, closer>>

\* (A bug to be caught: the DSP is told while the worker is on its way.)
SpinSkipped ==
  /\ ctrl = "spin"
  /\ ctrl' = "set"
  /\ UNCHANGED <<hoist, kick, sem, exit, free, worker, closer, setParams, sober>>

\* ... spin while it is up ...
SpinEnds ==
  /\ ctrl = "spin"
  /\ ~kick /\ ~hoist
  /\ ctrl' = "set"
  /\ UNCHANGED <<hoist, kick, sem, exit, free, worker, closer, setParams, sober>>

\* ... and tell the DSP.
SetFree ==
  /\ ctrl = "set"
  /\ free' = TRUE
  /\ ctrl' = "idle"
  /\ UNCHANGED <<hoist, kick, sem, exit, worker, closer, setParams, sober>>

\* freeRunMode 0: tell the DSP, then post.
Leave ==
  /\ Call
  /\ free' = FALSE
  /\ sober' = (sober /\ free)
  /\ ctrl' = "post"
  /\ UNCHANGED <<hoist, kick, sem, exit, worker, closer>>

\* (A bug to be caught: the worker is not woken.)
LeavePostForgotten ==
  /\ ctrl = "post"
  /\ ctrl' = "idle"
  /\ UNCHANGED <<hoist, kick, sem, exit, free, worker, closer, setParams, sober>>

LeavePost ==
  /\ ctrl = "post"
  /\ sem' = sem + 1
  /\ ctrl' = "idle"
  /\ UNCHANGED <<hoist, kick, exit, free, worker, closer, setParams, sober>>

-----------------------------------------------------------------------------
(***************************************************************************)
(* The closing thread, AML_AWE_Close.                                      *)
(***************************************************************************)

CloseExit ==
  /\ closer = "open"
  /\ exit' = TRUE
  /\ closer' = "post"
  /\ UNCHANGED <<hoist, kick, sem, free, worker, ctrl, setParams, sober>>

\* (A bug to be caught: the worker is not woken.)
ClosePostForgotten ==
  /\ closer = "post"
  /\ closer' = "join"
  /\ UNCHANGED <<hoist, kick, sem, exit, free, worker, ctrl, setParams, sober>>

ClosePost ==
  /\ closer = "post"
  /\ sem' = sem + 1
  /\ closer' = "join"
  /\ UNCHANGED <<hoist, kick, exit, free, worker, ctrl, setParams, sober>>

\* pthread_join; the buffers are freed and the DSP's engine closed.
CloseJoin ==
  /\ closer = "join"
  /\ worker = "done"
  /\ closer' = "closed"
  /\ UNCHANGED <<hoist, kick, sem, exit, free, worker, ctrl, setParams, sober>>

WorkerStep == Test \/ Check \/ Lower \/ Wait \/ Process
CtrlGoesOn == SpinEnds \/ SetFree \/ LeavePost
CloserGoesOn == ClosePost \/ CloseJoin

FreeRunNext == WorkerStep \/ Enter \/ Leave \/ CtrlGoesOn \/ CloseExit \/ CloserGoesOn

FreeRunSpec == FreeRunInit /\ [][FreeRunNext]_freeRunVars

\* The worker runs and the DSP answers; a call once made goes on.  Nobody need
\* call.
FairSpec ==
  FreeRunSpec /\ WF_freeRunVars(WorkerStep) /\ WF_freeRunVars(CtrlGoesOn) /\ WF_freeRunVars(CloserGoesOn)

-----------------------------------------------------------------------------
(***************************************************************************)
(* Properties                                                              *)
(***************************************************************************)

FreeRunTypeOK ==
  /\ hoist \in Hoists
  /\ kick \in BOOLEAN /\ exit \in BOOLEAN /\ free \in BOOLEAN /\ sober \in BOOLEAN
  /\ sem \in Nat /\ setParams \in Nat
  /\ worker \in {"test", "check", "lower", "wait", "process", "done"}
  /\ ctrl \in {"idle", "spin", "set", "post"}
  /\ closer \in {"open", "post", "join", "closed"}

\* The worker never asks the DSP to process while the DSP runs on its own:
\* the kick is lowered only by a worker that is past its last Process, and no
\* post is left over from the round before.  It holds while the controller
\* alternates; AML_AWE_Close wakes the worker for one last Process.
NoProcessInFreeRun == sober /\ ~exit /\ free => worker = "wait"

\* AML_AWE_SetParam(1) returns, unless the build hoists the flag, the
\* controller asks twice, or the engine is closed meanwhile: then the spin has
\* no end.
EnterReturns == (ctrl = "spin") ~> (ctrl # "spin" \/ hoist \/ ~sober \/ exit)

\* The post of AML_AWE_SetParam(0) is not lost: while the DSP is not on its
\* own and nobody asks, the worker goes on processing.
ProcessingResumes ==
  []<>(worker = "process" \/ free \/ ctrl # "idle" \/ ~sober \/ exit)

\* AML_AWE_Close returns, wherever the worker is when the flag is set, parked
\* or about to park.
CloseReturns == (closer = "post") ~> (closer = "closed")

-----------------------------------------------------------------------------
(***************************************************************************)
(* The inductive invariant behind NoProcessInFreeRun (AweEngineProofs):   *)
(* the controller is in a round's free run exactly while the worker is     *)
(* parked without a post.                                                  *)
(***************************************************************************)

Parked == worker = "wait" /\ sem = 0
InRound == ctrl \in {"set", "post"} \/ (ctrl = "spin" /\ ~kick) \/ (ctrl = "idle" /\ free)

Handshake ==
  sober /\ ~exit =>
    /\ Parked <=> InRound
    /\ kick => ctrl = "spin"
    /\ free => ctrl = "idle"
    /\ worker = "lower" => kick
    /\ sem > 0 => worker = "wait" /\ sem = 1

FreeRunIInv == FreeRunTypeOK /\ Handshake /\ (closer # "open" => exit)
=============================================================================
