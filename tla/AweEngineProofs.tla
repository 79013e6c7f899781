--------------------------- MODULE AweEngineProofs ---------------------------
(***************************************************************************)
(* Theorems about the wake engine: what its calls allocate and release     *)
(* (AweLifecycle), for any number of work buffers and calls, and its free  *)
(* run (AweFreeRun), for any number of calls in every build.               *)
(*                                                                         *)
(* Handshake (AweFreeRun): a worker parked without a post is the same      *)
(*         thing as a round of free run, and there is never more than one  *)
(*         post to be had.                                                 *)
(* Names:  an engine's own blocks are four in a row, allocated, and older  *)
(*         than whatever AML_AWE_Open allocated for it.                    *)
(* Ready:  what an engine in EXECUTE has.                                  *)
(* Exact:  what is allocated, at each stage of its life.                   *)
(* Before: what the history tells of the fields.                           *)
(***************************************************************************)
EXTENDS AweLifecycle, AweFreeRun, FiniteSetTheorems, TLAPS

Names ==
  obj =>
    /\ core["hInput"] # Null
    /\ core["hOutput"] = core["hInput"] + 1
    /\ core["hParam"] = core["hInput"] + 2
    /\ vsp = core["hInput"] + 3
    /\ \A k \in Work : work[k] = Null \/ work[k] > vsp
    /\ user = Null \/ user > vsp
    /\ Held \subseteq blocks

Ready ==
  obj /\ status = "EXECUTE" /\ ~closed =>
    /\ running
    /\ \A k \in Work : work[k] = work[1] + (k - 1)
    /\ user = work[1] + Bufs
    /\ work[1] > vsp
    /\ Opened \subseteq blocks

Exact ==
  "create" \notin faults =>
    /\ ~obj => ~running /\ blocks = {}
    /\ obj /\ (status = "IDLE" \/ closed) => ~running /\ blocks = Held
    /\ obj /\ status = "EXECUTE" /\ ~closed => blocks = Held \cup Opened

Before ==
  /\ obj /\ status = "IDLE" => ~closed
  /\ obj /\ status = "IDLE" /\ enabled => behind
  /\ obj /\ status = "IDLE" /\ ~failed => Opened = {Null}
  /\ obj /\ status = "EXECUTE" /\ last.call = "Close" => closed
  /\ last.call = "Destroy" => ~obj
  /\ faults = {} => wrong = {}

IInv == TypeOK /\ Names /\ Ready /\ Exact /\ Before

-----------------------------------------------------------------------------

\* The names of the three blocks of the structure and of the DSP's engine.
LEMMA HeldIs ==
  ASSUME IInv, obj
  PROVE  /\ core["hInput"] \in Nat \ {0}
         /\ Held = core["hInput"] .. core["hInput"] + 3
         /\ vsp = core["hInput"] + 3 /\ vsp < next /\ next \in Nat
<1>1. /\ core["hInput"] \in 0 .. next - 1 /\ vsp \in 0 .. next - 1 /\ next \in Nat \ {0}
  BY DEF IInv, TypeOK, Core
<1>2. /\ core["hInput"] # 0 /\ core["hOutput"] = core["hInput"] + 1
      /\ core["hParam"] = core["hInput"] + 2 /\ vsp = core["hInput"] + 3
  BY DEF IInv, Names, Null
<1>3. Held = {core["hParam"], core["hInput"], core["hOutput"], vsp}
  BY DEF Held, Core
<1> QED
  BY <1>1, <1>2, <1>3

\* No engine, and nothing allocated.
LEMMA InitInv == Init => IInv
<1> SUFFICES ASSUME Init PROVE IInv
  OBVIOUS
<1>1. /\ core \in [Core -> 0 .. next - 1] /\ work \in [Work -> 0 .. next - 1]
      /\ vsp \in 0 .. next - 1 /\ user \in 0 .. next - 1 /\ next \in Nat \ {0}
  BY DEF Init, Null
<1>2. last \in [call : {"none", "Create", "Open", "Close", "Destroy", "Process", "PushBuf"},
                ret : {"OK", "NO_MEM", "ERROR", "NOT_SUPPORT"}]
  BY DEF Init
<1>3. TypeOK
  BY <1>1, <1>2 DEF Init, TypeOK
<1>4. Opened = {Null}
  BY AweLifecycleAssumption DEF Init, Opened, Work
<1> QED
  BY <1>3, <1>4 DEF Init, IInv, Names, Ready, Exact, Before

\* AML_AWE_Create.
LEMMA CreateOKInv == IInv /\ CreateOK => IInv'
<1> SUFFICES ASSUME IInv, CreateOK PROVE IInv'
  OBVIOUS
<1>1. /\ next \in Nat \ {0} /\ blocks \subseteq 1 .. next - 1 /\ wrong \subseteq 1 .. next - 1
      /\ calls \in Nat
  BY DEF IInv, TypeOK
<1>2. /\ ~obj /\ obj' = TRUE /\ status' = "IDLE" /\ vsp' = next + 3 /\ user' = Null
      /\ work' = [k \in Work |-> Null] /\ next' = next + 4
      /\ blocks' = blocks \cup (next .. next + 3)
      /\ failed' = FALSE /\ behind' = FALSE /\ closed' = FALSE /\ enabled' = FALSE
      /\ running' = running /\ wrong' = wrong /\ faults' = faults
      /\ calls' = calls + 1 /\ last' = [call |-> "Create", ret |-> "OK"]
  BY DEF CreateOK, Returns
<1>3. /\ core' \in [Core -> next .. next + 2]
      /\ core'["hInput"] = next /\ core'["hOutput"] = next + 1 /\ core'["hParam"] = next + 2
  BY <1>1 DEF CreateOK, Core
<1>4. TypeOK'
  <2>1. core' \in [Core -> 0 .. next' - 1]
    BY <1>1, <1>2, <1>3
  <2>2. work' \in [Work -> 0 .. next' - 1] /\ user' \in 0 .. next' - 1 /\ vsp' \in 0 .. next' - 1
    BY <1>1, <1>2 DEF Null
  <2>3. blocks' \subseteq 1 .. next' - 1 /\ wrong' \subseteq 1 .. next' - 1 /\ next' \in Nat \ {0}
    BY <1>1, <1>2
  <2>4. last' \in [call : {"none", "Create", "Open", "Close", "Destroy", "Process", "PushBuf"},
                   ret : {"OK", "NO_MEM", "ERROR", "NOT_SUPPORT"}]
    BY <1>2
  <2>5. /\ obj' \in BOOLEAN /\ failed' \in BOOLEAN /\ closed' \in BOOLEAN
        /\ enabled' \in BOOLEAN /\ behind' \in BOOLEAN
    BY <1>2
  <2>6. running' \in BOOLEAN
    BY <1>2 DEF IInv, TypeOK
  <2>7. status' \in {"IDLE", "EXECUTE"} /\ faults' \subseteq Fault /\ calls' \in Nat
    BY <1>1, <1>2 DEF IInv, TypeOK
  <2> QED
    BY <2>1, <2>2, <2>3, <2>4, <2>5, <2>6, <2>7 DEF TypeOK
<1>5. Held' = next .. next + 3
  BY <1>1, <1>2, <1>3 DEF Held, Core
<1>6. Opened' = {Null}
  BY <1>2, AweLifecycleAssumption DEF Opened, Work
<1>7. Names'
  BY <1>1, <1>2, <1>3, <1>5 DEF Names, Null
<1>8. Ready' /\ Exact' /\ Before'
  BY <1>2, <1>5, <1>6 DEF IInv, Ready, Exact, Before
<1> QED
  BY <1>4, <1>7, <1>8 DEF IInv

\* A create that fails leaves no engine, and a fault to be named.
LEMMA CreateFailsInv == IInv /\ CreateFails => IInv'
<1> SUFFICES ASSUME IInv, CreateFails PROVE IInv'
  OBVIOUS
<1>1. /\ next \in Nat \ {0} /\ blocks \subseteq 1 .. next - 1 /\ wrong \subseteq 1 .. next - 1
      /\ calls \in Nat
  BY DEF IInv, TypeOK
<1>2. /\ ~obj /\ next' = next + 4 /\ faults' = faults \cup {"create"}
      /\ UNCHANGED <<obj, status, core, vsp, work, user, running, enabled, failed, behind, closed>>
      /\ calls' = calls + 1 /\ last' = [call |-> "Create", ret |-> "NO_MEM"]
  BY DEF CreateFails, Returns, fields
<1>3. blocks' \subseteq blocks \cup (next .. next + 3) /\ wrong' \subseteq wrong \cup (next .. next + 3)
  BY <1>1 DEF CreateFails
<1>4. TypeOK'
  BY <1>1, <1>2, <1>3 DEF IInv, TypeOK, Fault
<1> QED
  BY <1>2, <1>4 DEF IInv, Names, Ready, Exact, Before

\* Names grow.
LEMMA OlderNames ==
  ASSUME NEW m \in Nat, NEW n \in Nat, m <= n
  PROVE  0 .. m - 1 \subseteq 0 .. n - 1
OBVIOUS

\* AML_AWE_Open, when all of it succeeds.
LEMMA OpenOKInv == IInv /\ OpenOK => IInv'
<1> SUFFICES ASSUME IInv, OpenOK PROVE IInv'
  OBVIOUS
<1> USE AweLifecycleAssumption
<1>1. /\ next \in Nat \ {0} /\ blocks \subseteq 1 .. next - 1 /\ wrong \subseteq 1 .. next - 1
      /\ calls \in Nat
  BY DEF IInv, TypeOK
<1>2. /\ obj /\ status = "IDLE" /\ next' = next + Bufs + 1 /\ user' = next + Bufs
      /\ work' = [k \in Work |-> next + (k - 1)]
      /\ blocks' = blocks \cup (next .. next + Bufs)
      /\ running' = TRUE /\ status' = "EXECUTE"
      /\ UNCHANGED <<obj, core, vsp, wrong, failed, behind, closed, faults>>
      /\ enabled' \in {enabled, TRUE}
      /\ calls' = calls + 1 /\ last' = [call |-> "Open", ret |-> "OK"]
  BY DEF OpenOK, Returns
<1>3. next' \in Nat /\ next <= next'
  BY <1>1, <1>2
<1>4. TypeOK'
  <2>1. core' \in [Core -> 0 .. next' - 1] /\ vsp' \in 0 .. next' - 1 /\ next' \in Nat \ {0}
    <3>1. core \in [Core -> 0 .. next - 1] /\ vsp \in 0 .. next - 1
      BY DEF IInv, TypeOK
    <3>2. 0 .. next - 1 \subseteq 0 .. next' - 1
      BY <1>1, <1>3, OlderNames
    <3> QED
      BY <3>1, <3>2, <1>1, <1>2
  <2>2. work' \in [Work -> 0 .. next' - 1] /\ user' \in 0 .. next' - 1
    BY <1>1, <1>2 DEF Work
  <2>3. blocks' \subseteq 1 .. next' - 1 /\ wrong' \subseteq 1 .. next' - 1
    BY <1>1, <1>2
  <2>4. last' \in [call : {"none", "Create", "Open", "Close", "Destroy", "Process", "PushBuf"},
                   ret : {"OK", "NO_MEM", "ERROR", "NOT_SUPPORT"}]
    BY <1>2
  <2>5. /\ obj' \in BOOLEAN /\ failed' \in BOOLEAN /\ closed' \in BOOLEAN
        /\ enabled' \in BOOLEAN /\ behind' \in BOOLEAN
    BY <1>2 DEF IInv, TypeOK
  <2>6. running' \in BOOLEAN
    BY <1>2
  <2>7. status' \in {"IDLE", "EXECUTE"} /\ faults' \subseteq Fault /\ calls' \in Nat
    BY <1>1, <1>2 DEF IInv, TypeOK
  <2> QED
    BY <2>1, <2>2, <2>3, <2>4, <2>5, <2>6, <2>7 DEF TypeOK
<1>5. Held' = Held
  BY <1>2 DEF Held
<1>6. Opened' \subseteq next .. next + Bufs
  BY <1>1, <1>2 DEF Opened, Work
<1>7. next .. next + Bufs \subseteq Opened'
  <2> SUFFICES ASSUME NEW n \in next .. next + Bufs PROVE n \in Opened'
    OBVIOUS
  <2>1. CASE n = next + Bufs
    BY <2>1, <1>2 DEF Opened
  <2>2. CASE n # next + Bufs
    <3>1. n - next + 1 \in Work /\ next + ((n - next + 1) - 1) = n
      BY <2>2, <1>1 DEF Work
    <3>2. work'[n - next + 1] = n
      BY <3>1, <1>2
    <3> QED
      BY <3>1, <3>2 DEF Opened
  <2> QED
    BY <2>1, <2>2
<1>8. Opened' = next .. next + Bufs
  BY <1>6, <1>7
<1>9. vsp < next /\ vsp \in Nat
  BY <1>2, HeldIs DEF IInv, TypeOK
<1>10. Names'
  <2>1. \A k \in Work : work'[k] > vsp
    BY <1>1, <1>2, <1>9 DEF Work
  <2>2. user' > vsp
    BY <1>1, <1>2, <1>9
  <2> QED
    BY <2>1, <2>2, <1>2, <1>5 DEF IInv, Names
<1>11. Ready'
  <2>1. 1 \in Work /\ work'[1] = next
    BY <1>1, <1>2 DEF Work
  <2>2. \A k \in Work : work'[k] = work'[1] + (k - 1)
    BY <2>1, <1>2
  <2> QED
    BY <2>1, <2>2, <1>1, <1>2, <1>8, <1>9 DEF Ready
<1>12. Exact' /\ Before'
  BY <1>2, <1>5, <1>8 DEF IInv, Exact, Before
<1> QED
  BY <1>4, <1>10, <1>11, <1>12 DEF IInv

\* An open that fails frees nothing of the engine's own, and all it allocated.
LEMMA OpenFailsInv == IInv /\ OpenFails => IInv'
<1> SUFFICES ASSUME IInv, OpenFails PROVE IInv'
  OBVIOUS
<1> USE AweLifecycleAssumption
<1>1. /\ next \in Nat \ {0} /\ blocks \subseteq 1 .. next - 1 /\ wrong \subseteq 1 .. next - 1
      /\ calls \in Nat /\ work \in [Work -> 0 .. next - 1] /\ user \in 0 .. next - 1
  BY DEF IInv, TypeOK
<1>2. /\ obj /\ status = "IDLE" /\ next' = next + Bufs + 1 /\ failed' = TRUE
      /\ faults' = (IF failed THEN faults \cup {"reopen"} ELSE faults)
      /\ UNCHANGED <<obj, status, core, vsp, running, closed>>
  BY DEF OpenFails
<1>3. PICK stage \in 0 .. Thread :
       /\ Returns("Open", IF stage \in 1 .. Ring THEN "OK" ELSE "ERROR")
       /\ work' = WorkAt(stage)
       /\ user' = UserAt(stage)
       /\ FreeAll({user'} \cup {work'[k] : k \in Work}, blocks \cup Allocated(stage))
       /\ enabled' \in (IF stage = 0 THEN {enabled} ELSE {enabled, TRUE})
       /\ behind' = (behind \/ stage > 0)
  BY DEF OpenFails
<1> DEFINE New == Allocated(stage)
<1>4. /\ blocks' = (blocks \cup New) \ Opened'
      /\ wrong' = wrong \cup (NonNull(Opened') \ (blocks \cup New))
  BY <1>3 DEF FreeAll, Opened
<1>5. stage \in Nat /\ Ring = Bufs + 1 /\ Ring \in Nat
  BY DEF Ring, Thread
<1>6. \A k \in Work : /\ k < stage => work'[k] = next + (k - 1)
                      /\ k = stage => work'[k] = Null
                      /\ k > stage => work'[k] = work[k]
  BY <1>3, <1>5 DEF WorkAt, Work
<1>7. /\ stage < Ring => user' = user
      /\ stage = Ring => user' = Null
      /\ stage > Ring => user' = next + Bufs
  BY <1>3, <1>5 DEF UserAt
<1>8. New \subseteq Opened'
  <2> SUFFICES ASSUME NEW n \in New PROVE n \in Opened'
    OBVIOUS
  <2>1. CASE \E k \in Work : k < stage /\ n = next + (k - 1)
    BY <2>1, <1>6 DEF Opened
  <2>2. CASE stage > Ring /\ n = next + Bufs
    BY <2>2, <1>7 DEF Opened
  <2> QED
    BY <2>1, <2>2 DEF Allocated
<1>9. vsp < next /\ vsp \in Nat /\ Held = core["hInput"] .. vsp /\ core["hInput"] \in Nat \ {0}
  BY <1>2, HeldIs DEF IInv, TypeOK
<1>10. /\ \A k \in Work : work'[k] = Null \/ (work'[k] > vsp /\ work'[k] \in 0 .. next' - 1)
       /\ user' = Null \/ (user' > vsp /\ user' \in 0 .. next' - 1)
  <2>1. /\ \A k \in Work : work[k] = Null \/ work[k] > vsp
        /\ user = Null \/ user > vsp
    BY <1>2 DEF IInv, Names
  <2>2. ASSUME NEW k \in Work
        PROVE  work'[k] = Null \/ (work'[k] > vsp /\ work'[k] \in 0 .. next' - 1)
    <3>1. CASE k < stage
      BY <3>1, <1>1, <1>2, <1>6, <1>9 DEF Work
    <3>2. CASE k = stage
      BY <3>2, <1>6
    <3>3. CASE k > stage
      <4>1. work'[k] = work[k] /\ work[k] \in 0 .. next - 1
        BY <3>3, <1>1, <1>6
      <4> QED
        BY <4>1, <2>1, <1>1, <1>2
    <3> QED
      BY <3>1, <3>2, <3>3, <1>5 DEF Work
  <2>3. user' = Null \/ (user' > vsp /\ user' \in 0 .. next' - 1)
    BY <2>1, <1>1, <1>2, <1>5, <1>7, <1>9
  <2> QED
    BY <2>2, <2>3
<1>11. Opened' \cap Held = {}
  BY <1>9, <1>10 DEF Opened, Null
<1>12. Held' = Held
  BY <1>2 DEF Held
<1>13. TypeOK'
  <2>1. core' \in [Core -> 0 .. next' - 1] /\ vsp' \in 0 .. next' - 1 /\ next' \in Nat \ {0}
    <3>1. core \in [Core -> 0 .. next - 1] /\ vsp \in 0 .. next - 1
      BY DEF IInv, TypeOK
    <3>2. next' \in Nat /\ next <= next'
      BY <1>1, <1>2
    <3>3. 0 .. next - 1 \subseteq 0 .. next' - 1
      BY <1>1, <3>2, OlderNames
    <3> QED
      BY <3>1, <3>3, <1>1, <1>2
  <2>2. work' \in [Work -> 0 .. next' - 1] /\ user' \in 0 .. next' - 1
    <3>1. 0 \in 0 .. next' - 1
      BY <1>1, <1>2
    <3>2. \A k \in Work : WorkAt(stage)[k] \in 0 .. next' - 1
      BY <3>1, <1>3, <1>10 DEF Null
    <3>3. WorkAt(stage) \in [Work -> 0 .. next' - 1]
      <4> DEFINE Name(k) == CASE k < stage -> next + (k - 1)
                              [] k = stage -> Null
                              [] k > stage -> work[k]
      <4>1. WorkAt(stage) = [k \in Work |-> Name(k)]
        BY DEF WorkAt
      <4> HIDE DEF Name
      <4> QED
        BY <3>2, <4>1
    <3> QED
      BY <3>1, <3>3, <1>3, <1>10 DEF Null
  <2>3. New \subseteq 1 .. next' - 1
    BY <1>1, <1>2 DEF Allocated, Work
  <2>4. blocks' \subseteq 1 .. next' - 1
    <3>1. ASSUME NEW n \in blocks PROVE n \in 1 .. next' - 1
      BY <1>1, <1>2
    <3> QED
      BY <2>3, <3>1, <1>4
  <2>5. Opened' \subseteq 0 .. next' - 1
    BY <2>2 DEF Opened
  <2>6. wrong' \subseteq 1 .. next' - 1
    <3>1. NonNull(Opened') \subseteq 1 .. next' - 1
      BY <2>5, <1>1, <1>2 DEF NonNull, Null
    <3>2. ASSUME NEW n \in wrong PROVE n \in 1 .. next' - 1
      BY <1>1, <1>2
    <3> QED
      BY <3>1, <3>2, <1>4
  <2>7. last' \in [call : {"none", "Create", "Open", "Close", "Destroy", "Process", "PushBuf"},
                   ret : {"OK", "NO_MEM", "ERROR", "NOT_SUPPORT"}]
    BY <1>3 DEF Returns
  <2>8. /\ obj' \in BOOLEAN /\ failed' \in BOOLEAN /\ closed' \in BOOLEAN
        /\ enabled' \in BOOLEAN /\ behind' \in BOOLEAN
    BY <1>2, <1>3 DEF IInv, TypeOK
  <2>9. running' \in BOOLEAN
    BY <1>2 DEF IInv, TypeOK
  <2>10. status' \in {"IDLE", "EXECUTE"} /\ faults' \subseteq Fault /\ calls' \in Nat
    BY <1>1, <1>2, <1>3 DEF IInv, TypeOK, Fault, Returns
  <2> QED
    BY <2>1, <2>2, <2>4, <2>6, <2>7, <2>8, <2>9, <2>10 DEF TypeOK
<1>14. Names'
  <2>1. Held \subseteq blocks'
    BY <1>2, <1>4, <1>11 DEF IInv, Names
  <2> QED
    BY <2>1, <1>2, <1>10, <1>12 DEF IInv, Names
<1>15. Ready'
  BY <1>2 DEF Ready
<1>16. Exact'
  <2> SUFFICES ASSUME "create" \notin faults' PROVE ~running' /\ blocks' = Held'
    BY <1>2 DEF Exact
  <2>1. ~running /\ blocks = Held
    BY <1>2 DEF IInv, Exact
  <2> QED
    BY <2>1, <1>2, <1>4, <1>8, <1>11, <1>12
<1>17. faults' = {} => wrong' = {}
  <2> SUFFICES ASSUME faults' = {} PROVE wrong' = {}
    OBVIOUS
  <2>1. ~failed /\ faults = {}
    BY <1>2
  <2>2. wrong = {} /\ Opened = {Null}
    BY <2>1, <1>2 DEF IInv, Before
  <2>3. user = Null /\ \A k \in Work : work[k] = Null
    BY <2>2 DEF Opened
  <2>4. ASSUME NEW k \in Work PROVE work'[k] = Null \/ work'[k] \in New
    <3>1. CASE k < stage
      BY <3>1, <1>6 DEF Allocated
    <3>2. CASE k >= stage
      BY <3>2, <2>3, <1>5, <1>6 DEF Work
    <3> QED
      BY <3>1, <3>2, <1>5 DEF Work
  <2>5. user' = Null \/ user' \in New
    BY <2>3, <1>5, <1>7 DEF Allocated
  <2>6. NonNull(Opened') \subseteq New
    BY <2>4, <2>5 DEF NonNull, Opened
  <2> QED
    BY <2>2, <2>6, <1>4
<1>18. Before'
  <2>1. last'.call = "Open"
    BY <1>3 DEF Returns
  <2>2. enabled' => behind'
    <3>1. CASE stage = 0
      BY <3>1, <1>2, <1>3 DEF IInv, Before
    <3>2. CASE stage # 0
      <4>1. stage > 0
        BY <3>2, <1>5
      <4> QED
        BY <4>1, <1>3, Zenon
    <3> QED
      BY <3>1, <3>2
  <2> QED
    BY <2>1, <2>2, <1>2, <1>17 DEF IInv, Before
<1> QED
  BY <1>13, <1>14, <1>15, <1>16, <1>18 DEF IInv

\* AML_AWE_Close frees nothing of the engine's own, and all that Open allocated.
LEMMA CloseInv == IInv /\ Close => IInv'
<1> SUFFICES ASSUME IInv, Close PROVE IInv'
  OBVIOUS
<1>1. /\ next \in Nat \ {0} /\ blocks \subseteq 1 .. next - 1 /\ wrong \subseteq 1 .. next - 1
      /\ calls \in Nat /\ work \in [Work -> 0 .. next - 1] /\ user \in 0 .. next - 1
  BY DEF IInv, TypeOK
<1>2. /\ obj /\ status = "EXECUTE" /\ running' = FALSE /\ closed' = TRUE
      /\ faults' = (IF closed THEN faults \cup {"reclose"} ELSE faults)
      /\ UNCHANGED <<obj, status, core, vsp, work, user, next, failed, behind>>
      /\ enabled' \in {enabled, FALSE}
      /\ blocks' = blocks \ Opened /\ wrong' = wrong \cup (NonNull(Opened) \ blocks)
  BY DEF Close, FreeAll, fields, Opened
<1>3. calls' = calls + 1 /\ last'.call = "Close"
      /\ last' \in [call : {"none", "Create", "Open", "Close", "Destroy", "Process", "PushBuf"},
                   ret : {"OK", "NO_MEM", "ERROR", "NOT_SUPPORT"}]
  BY DEF Close, Returns
<1>4. Held' = Held /\ Opened' = Opened
  BY <1>2 DEF Held, Opened
<1>5. Opened \cap Held = {}
  <2>1. /\ \A k \in Work : work[k] = 0 \/ work[k] > vsp
        /\ user = 0 \/ user > vsp
    BY <1>2 DEF IInv, Names, Null
  <2>2. vsp \in Nat /\ Held = core["hInput"] .. vsp /\ core["hInput"] \in Nat \ {0}
    BY <1>2, HeldIs DEF IInv, TypeOK
  <2> QED
    BY <2>1, <2>2 DEF Opened
<1>6. NonNull(Opened) \subseteq 1 .. next - 1
  BY <1>1 DEF NonNull, Opened, Null
<1>7. TypeOK'
  <2>1. blocks' \subseteq 1 .. next' - 1 /\ wrong' \subseteq 1 .. next' - 1
    BY <1>1, <1>2, <1>6
  <2>2. /\ core' \in [Core -> 0 .. next' - 1] /\ work' \in [Work -> 0 .. next' - 1]
        /\ vsp' \in 0 .. next' - 1 /\ user' \in 0 .. next' - 1 /\ next' \in Nat \ {0}
    BY <1>2 DEF IInv, TypeOK
  <2>3. obj' \in BOOLEAN /\ failed' \in BOOLEAN /\ behind' \in BOOLEAN /\ enabled' \in BOOLEAN
    BY <1>2 DEF IInv, TypeOK
  <2>4. closed' \in BOOLEAN /\ running' \in BOOLEAN
    BY <1>2
  <2>5. status' \in {"IDLE", "EXECUTE"} /\ faults' \subseteq Fault /\ calls' \in Nat
    BY <1>1, <1>2, <1>3 DEF IInv, TypeOK, Fault
  <2> QED
    BY <2>1, <2>2, <2>3, <2>4, <2>5, <1>3 DEF TypeOK
<1>8. Names'
  <2>1. Held \subseteq blocks'
    BY <1>2, <1>5 DEF IInv, Names
  <2> QED
    BY <2>1, <1>2, <1>4 DEF IInv, Names
<1>9. Ready'
  BY <1>2 DEF Ready
<1>10. Exact'
  <2> SUFFICES ASSUME "create" \notin faults' PROVE ~running' /\ blocks' = Held'
    BY <1>2 DEF Exact
  <2>1. blocks = Held \/ blocks = Held \cup Opened
    BY <1>2 DEF IInv, Exact
  <2> QED
    BY <2>1, <1>2, <1>4, <1>5
<1>11. faults' = {} => wrong' = {}
  <2> SUFFICES ASSUME faults' = {} PROVE wrong' = {}
    OBVIOUS
  <2>1. ~closed /\ faults = {}
    BY <1>2
  <2>2. wrong = {} /\ Opened \subseteq blocks
    BY <2>1, <1>2 DEF IInv, Before, Ready
  <2> QED
    BY <2>2, <1>2 DEF NonNull
<1>12. Before'
  BY <1>2, <1>3, <1>11 DEF IInv, Before
<1> QED
  BY <1>7, <1>8, <1>9, <1>10, <1>12 DEF IInv

\* AML_AWE_Destroy, after a Close: the engine's own blocks are all there is.
LEMMA DestroyInv == IInv /\ Destroy => IInv'
<1> SUFFICES ASSUME IInv, Destroy PROVE IInv'
  OBVIOUS
<1>1. /\ next \in Nat \ {0} /\ blocks \subseteq 1 .. next - 1 /\ wrong \subseteq 1 .. next - 1
      /\ calls \in Nat
  BY DEF IInv, TypeOK
<1>2. /\ obj /\ last.call = "Close" /\ obj' = FALSE
      /\ enabled' = FALSE
      /\ UNCHANGED <<status, core, vsp, work, user, running, next, failed, behind, closed, faults>>
      /\ blocks' = blocks \ Held /\ wrong' = wrong \cup (NonNull(Held) \ blocks)
  BY DEF Destroy, FreeAll, fields, Held
<1>3. calls' = calls + 1 /\ last'.call = "Destroy"
      /\ last' \in [call : {"none", "Create", "Open", "Close", "Destroy", "Process", "PushBuf"},
                   ret : {"OK", "NO_MEM", "ERROR", "NOT_SUPPORT"}]
  BY DEF Destroy, Returns
<1>4. wrong' = wrong
  BY <1>2 DEF IInv, Names, NonNull
<1>5. TypeOK'
  <2>1. blocks' \subseteq 1 .. next' - 1 /\ wrong' \subseteq 1 .. next' - 1
    BY <1>1, <1>2, <1>4
  <2>2. /\ core' \in [Core -> 0 .. next' - 1] /\ work' \in [Work -> 0 .. next' - 1]
        /\ vsp' \in 0 .. next' - 1 /\ user' \in 0 .. next' - 1 /\ next' \in Nat \ {0}
    BY <1>2 DEF IInv, TypeOK
  <2>3. closed' \in BOOLEAN /\ failed' \in BOOLEAN /\ behind' \in BOOLEAN /\ enabled' \in BOOLEAN
    BY <1>2 DEF IInv, TypeOK
  <2>4. running' \in BOOLEAN
    BY <1>2 DEF IInv, TypeOK
  <2>5. status' \in {"IDLE", "EXECUTE"} /\ faults' \subseteq Fault /\ calls' \in Nat
    BY <1>1, <1>2, <1>3 DEF IInv, TypeOK
  <2>6. obj' \in BOOLEAN
    BY <1>2
  <2> QED
    BY <2>1, <2>2, <2>3, <2>4, <2>5, <2>6, <1>3 DEF TypeOK
<1>6. "create" \notin faults => ~running /\ blocks = Held
  <2>1. status = "IDLE" \/ closed
    BY <1>2 DEF IInv, TypeOK, Before
  <2> QED
    BY <2>1, <1>2 DEF IInv, Exact
<1>7. Exact'
  BY <1>2, <1>6 DEF Exact
<1>8. Names' /\ Ready' /\ Before'
  BY <1>2, <1>3, <1>4 DEF IInv, Names, Ready, Before
<1> QED
  BY <1>5, <1>7, <1>8 DEF IInv

\* The other calls change nothing but what was called last.
LEMMA OthersInv ==
  ASSUME IInv, UNCHANGED <<obj, status, core, vsp, work, user, running, enabled, blocks, next,
                           wrong, failed, behind, closed, faults>>,
         calls' \in Nat,
         last' \in [call : {"Close", "Process", "PushBuf", "AddHandler", "GetParam"},
                    ret : {"OK", "ERROR", "NOT_SUPPORT"}],
         last'.call = "Close" => status # "EXECUTE"
  PROVE  IInv'
<1>1. /\ last'.call \in {"Close", "Process", "PushBuf", "AddHandler", "GetParam"}
      /\ last' \in [call : {"none", "Create", "Open", "Close", "Destroy", "Process", "PushBuf",
                           "AddHandler", "GetParam"},
                   ret : {"OK", "NO_MEM", "ERROR", "NOT_SUPPORT"}]
  OBVIOUS
<1>2. TypeOK'
  BY <1>1 DEF IInv, TypeOK
<1>3. Held' = Held /\ Opened' = Opened
  BY DEF Held, Opened
<1>4. Names' /\ Ready' /\ Exact'
  BY <1>3 DEF IInv, Names, Ready, Exact
<1>5. Before'
  BY <1>1, <1>3 DEF IInv, Before
<1> QED
  BY <1>2, <1>4, <1>5 DEF IInv

LEMMA NextInv == IInv /\ [Next]_vars => IInv'
<1> SUFFICES ASSUME IInv, [Next]_vars PROVE IInv'
  OBVIOUS
<1>1. calls \in Nat
  BY DEF IInv, TypeOK
<1>2. CASE CreateOK
  BY <1>2, CreateOKInv
<1>3. CASE CreateFails
  BY <1>3, CreateFailsInv
<1>4. CASE OpenOK
  BY <1>4, OpenOKInv
<1>5. CASE OpenFails
  BY <1>5, OpenFailsInv
<1>6. CASE Close
  BY <1>6, CloseInv
<1>7. CASE CloseRefused
  BY <1>1, <1>7, OthersInv DEF CloseRefused, Returns, fields
<1>8. CASE Destroy
  BY <1>8, DestroyInv
<1>9. CASE \E call \in {"Process", "PushBuf"} : Use(call)
  BY <1>1, <1>9, OthersInv DEF Use, Returns, fields
<1>10. CASE AddHandler \/ GetParam
  BY <1>1, <1>10, OthersInv DEF AddHandler, GetParam, Returns, fields
<1>11. CASE UNCHANGED vars
  <2>1. Held' = Held /\ Opened' = Opened
    BY <1>11 DEF vars, Held, Opened
  <2> QED
    BY <1>11, <2>1 DEF vars, IInv, TypeOK, Names, Ready, Exact, Before
<1> QED
  BY <1>2, <1>3, <1>4, <1>5, <1>6, <1>7, <1>8, <1>9, <1>10, <1>11 DEF Next

-----------------------------------------------------------------------------

\* The inductive invariant, of every reachable state (aml_wakeup_api.c).
THEOREM LifecycleInvariant == Spec => []IInv
<1> QED
  BY InitInv, NextInv, PTL DEF Spec

\* Type correctness, for any number of work buffers.
THEOREM LifecycleTypeOK == Spec => []TypeOK
<1>1. IInv => TypeOK
  BY DEF IInv
<1> QED
  BY <1>1, LifecycleInvariant, PTL

\* An engine in EXECUTE that is not closed has all its blocks, all different:
\* AML_AWE_Create's are four in a row, AML_AWE_Open's Bufs + 1 in a row after.
LEMMA ReadyFollows == IInv => ExecuteMeansReady
<1> SUFFICES ASSUME IInv, obj, status = "EXECUTE", ~closed
             PROVE  /\ running
                    /\ Held \cup Opened \subseteq blocks
                    /\ Cardinality(Held \cup Opened) = Bufs + 5
  BY DEF ExecuteMeansReady
<1> USE AweLifecycleAssumption
<1>1. running /\ Held \cup Opened \subseteq blocks
  BY DEF IInv, Names, Ready
<1> DEFINE a == core["hInput"]
           b == work[1]
<1>2. a \in Nat /\ Held = a .. a + 3 /\ vsp = a + 3
  BY HeldIs
<1>3. b \in Nat /\ b > a + 3
  <2>1. 1 \in Work /\ next \in Nat /\ work \in [Work -> 0 .. next - 1] /\ work[1] > vsp
    BY DEF IInv, TypeOK, Ready, Work
  <2> QED
    BY <2>1, <1>2
<1>4. user = b + Bufs /\ \A k \in Work : work[k] = b + (k - 1)
  BY DEF IInv, Ready
<1>5. Opened = b .. b + Bufs
  <2>1. Opened \subseteq b .. b + Bufs
    BY <1>3, <1>4 DEF Opened, Work
  <2>2. ASSUME NEW n \in b .. b + Bufs PROVE n \in Opened
    <3>1. CASE n = b + Bufs
      BY <3>1, <1>4 DEF Opened
    <3>2. CASE n # b + Bufs
      <4>1. n - b + 1 \in Work /\ b + ((n - b + 1) - 1) = n
        BY <3>2, <1>3 DEF Work
      <4>2. work[n - b + 1] = n
        BY <4>1, <1>4
      <4> QED
        BY <4>1, <4>2 DEF Opened
    <3> QED
      BY <3>1, <3>2
  <2> QED
    BY <2>1, <2>2
<1> HIDE DEF a, b
<1>6. IsFiniteSet(Held) /\ Cardinality(Held) = 4
  <2>1. IsFiniteSet(a .. a + 3) /\ Cardinality(a .. a + 3) = (IF a > a + 3 THEN 0 ELSE (a + 3) - a + 1)
    BY <1>2, FS_Interval
  <2> QED
    BY <2>1, <1>2
<1>7. IsFiniteSet(Opened) /\ Cardinality(Opened) = Bufs + 1
  <2>1. IsFiniteSet(b .. b + Bufs) /\ Cardinality(b .. b + Bufs) = (IF b > b + Bufs THEN 0 ELSE (b + Bufs) - b + 1)
    BY <1>3, FS_Interval
  <2> QED
    BY <2>1, <1>3, <1>5
<1>8. Held \cap Opened = {}
  BY <1>2, <1>3, <1>5
<1>9. Cardinality(Held \cup Opened) = Cardinality(Held) + Cardinality(Opened)
  <2>1. Cardinality(Held \cup Opened)
          = Cardinality(Held) + Cardinality(Opened) - Cardinality(Held \cap Opened)
    BY <1>6, <1>7, FS_Union, Zenon
  <2>2. Cardinality(Held \cap Opened) = 0
    BY <1>8, FS_EmptySet, Zenon
  <2> QED
    BY <1>6, <1>7, <2>1, <2>2
<1> QED
  BY <1>1, <1>6, <1>7, <1>9

\* Whatever failed in earlier attempts, an engine in EXECUTE that is not closed
\* has its worker and all its blocks (AML_AWE_Create, AML_AWE_Open).
THEOREM LifecycleReady == Spec => []ExecuteMeansReady
<1> QED
  BY ReadyFollows, LifecycleInvariant, PTL

\* An open that fails at any stage leaves what AML_AWE_Create allocated and no
\* more, and no worker; the DSP's instance stays open only after an open that
\* failed behind AML_VSP_Open.
THEOREM LifecycleFailedOpen == Spec => []FailedOpenReleases
<1>1. IInv => FailedOpenReleases
  BY DEF IInv, Exact, Before, FailedOpenReleases
<1> QED
  BY <1>1, LifecycleInvariant, PTL

\* A block is freed once and by its own free, unless one of the faults named
\* came first.
THEOREM LifecycleFreesOnce == Spec => []FreesOnce
<1>1. IInv => FreesOnce
  BY DEF IInv, Before, FreesOnce
<1> QED
  BY <1>1, LifecycleInvariant, PTL

\* AML_AWE_Destroy after AML_AWE_Close leaves nothing, if every create succeeded.
THEOREM LifecycleDestroy == Spec => []DestroyReleasesAll
<1>1. IInv => DestroyReleasesAll
  BY DEF IInv, Before, Exact, DestroyReleasesAll
<1> QED
  BY <1>1, LifecycleInvariant, PTL

-----------------------------------------------------------------------------
(***************************************************************************)
(* The free run (AweFreeRun): a controller that alternates never has the   *)
(* worker process while the DSP is on its own.                             *)
(***************************************************************************)

LEMMA FreeRunInitInv == FreeRunInit => FreeRunIInv
<1> SUFFICES ASSUME FreeRunInit PROVE FreeRunIInv
  OBVIOUS
<1>1. FreeRunTypeOK
  BY DEF FreeRunInit, FreeRunTypeOK
<1>2. Handshake
  BY DEF FreeRunInit, Handshake, Parked, InRound
<1>3. closer # "open" => exit
  BY DEF FreeRunInit
<1> QED
  BY <1>1, <1>2, <1>3 DEF FreeRunIInv

\* The worker's steps: it parks only when the kick is up, and leaves only with
\* the post that ends the round.
LEMMA WorkerPreserves ==
  ASSUME FreeRunIInv, WorkerStep
  PROVE  FreeRunIInv'
<1> USE DEF FreeRunIInv, FreeRunTypeOK, Handshake, Parked, InRound
<1>1. CASE Test
  BY <1>1 DEF Test
<1>2. CASE Check
  BY <1>2 DEF Check
<1>3. CASE Lower
  <2>1. /\ worker = "lower" /\ kick' = FALSE /\ worker' = "wait"
        /\ UNCHANGED <<hoist, sem, exit, free, ctrl, closer, setParams, sober>>
    BY <1>3 DEF Lower
  <2>2. FreeRunTypeOK' /\ (closer # "open" => exit)'
    BY <2>1
  <2>3. ASSUME sober, ~exit PROVE sem = 0 /\ ctrl = "spin" /\ ~free
    BY <2>1, <2>3
  <2>4. Handshake'
    BY <2>1, <2>3
  <2> QED
    BY <2>2, <2>4
<1>4. CASE Wait
  BY <1>4 DEF Wait
<1>5. CASE Process
  BY <1>5 DEF Process
<1> QED
  BY <1>1, <1>2, <1>3, <1>4, <1>5 DEF WorkerStep

\* The controller's steps.
LEMMA CtrlPreserves ==
  ASSUME FreeRunIInv, Enter \/ Leave \/ CtrlGoesOn
  PROVE  FreeRunIInv'
<1> USE DEF FreeRunIInv, FreeRunTypeOK, Handshake, Parked, InRound
<1>1. CASE Enter
  BY <1>1 DEF Enter, Call
<1>2. CASE Leave
  <2>1. /\ ctrl = "idle" /\ free' = FALSE /\ sober' = (sober /\ free) /\ ctrl' = "post"
        /\ setParams' = setParams + 1
        /\ UNCHANGED <<hoist, kick, sem, exit, worker, closer>>
    BY <1>2 DEF Leave, Call
  <2>2. FreeRunTypeOK' /\ (closer # "open" => exit)'
    <3>1. sober' \in BOOLEAN
      BY <2>1, Zenon
    <3>2. free' \in BOOLEAN
      BY <2>1, Zenon
    <3>3. setParams' \in Nat
      BY <2>1
    <3> QED
      BY <2>1, <3>1, <3>2, <3>3
  <2>3. ASSUME sober, free, ~exit PROVE Parked /\ ~kick
    BY <2>1, <2>3
  <2>4. ASSUME sober' PROVE sober /\ free
    BY <2>1, <2>4, Zenon
  <2>5. Handshake'
    BY <2>1, <2>3, <2>4
  <2> QED
    BY <2>2, <2>5
<1>3. CASE SpinEnds
  BY <1>3 DEF SpinEnds
<1>4. CASE SetFree
  BY <1>4 DEF SetFree
<1>5. CASE LeavePost
  BY <1>5 DEF LeavePost
<1> QED
  BY <1>1, <1>2, <1>3, <1>4, <1>5 DEF CtrlGoesOn

\* The closing thread's steps.
LEMMA CloserPreserves ==
  ASSUME FreeRunIInv, CloseExit \/ CloserGoesOn
  PROVE  FreeRunIInv'
<1> USE DEF FreeRunIInv, FreeRunTypeOK, Handshake, Parked, InRound
<1>1. CASE CloseExit
  BY <1>1 DEF CloseExit
<1>2. CASE ClosePost
  BY <1>2 DEF ClosePost
<1>3. CASE CloseJoin
  BY <1>3 DEF CloseJoin
<1> QED
  BY <1>1, <1>2, <1>3 DEF CloserGoesOn

\* The handshake between AML_AWE_SetParam and the worker.
THEOREM FreeRunInvariant == FreeRunSpec => []FreeRunIInv
<1>1. FreeRunIInv /\ [FreeRunNext]_freeRunVars => FreeRunIInv'
  <2> SUFFICES ASSUME FreeRunIInv, [FreeRunNext]_freeRunVars PROVE FreeRunIInv'
    OBVIOUS
  <2>1. CASE UNCHANGED freeRunVars
    BY <2>1 DEF freeRunVars, FreeRunIInv, FreeRunTypeOK, Handshake, Parked, InRound
  <2> QED
    BY <2>1, WorkerPreserves, CtrlPreserves, CloserPreserves DEF FreeRunNext
<1> QED
  BY FreeRunInitInv, <1>1, PTL DEF FreeRunSpec

\* The flags, the semaphore and the three threads keep their types.
THEOREM FreeRunTypes == FreeRunSpec => []FreeRunTypeOK
<1>1. FreeRunIInv => FreeRunTypeOK
  BY DEF FreeRunIInv
<1> QED
  BY <1>1, FreeRunInvariant, PTL

\* The worker is never in AML_VSP_Process while the DSP runs on its own.
THEOREM FreeRunNoProcess == FreeRunSpec => []NoProcessInFreeRun
<1>1. FreeRunIInv => NoProcessInFreeRun
  BY DEF FreeRunIInv, FreeRunTypeOK, Handshake, Parked, InRound, NoProcessInFreeRun
<1> QED
  BY <1>1, FreeRunInvariant, PTL
=============================================================================
