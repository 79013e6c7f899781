------------------------------ MODULE DspClients ------------------------------
(***************************************************************************)
(* Executing the programs of the DSP's clients.  Only what a step of the   *)
(* environment decides (an allocation, an open, an RPC) is a choice.       *)
(*                                                                         *)
(* An RPC is a write and a read of the device, and fails in two ways: a    *)
(* write that fails leaves the DSP and the argument as they were; a read   *)
(* that fails comes after the DSP did its work and leaves an argument of   *)
(* zeros.  Most callers look at the argument only.                         *)
(***************************************************************************)
EXTENDS DspPrograms

CONSTANTS
  Programs,    \* the programs to run, a subset of DOMAIN Script
  MaxFailed    \* how many calls may fail in a run

VARIABLES
  program,   \* the program
  todo,      \* what is left of its script
  val,       \* the value of every field: Null, Garbage or the object it names
  born,      \* per object made so far: the field it was made for
  live,      \* the objects that exist
  lost,      \* those that exist because a failed RPC hid or kept them
  fault,     \* what ended the program early, or "none"
  failed     \* how many calls have failed

clientVars == <<program, todo, val, born, live, lost, fault, failed>>

Starts(name, script) ==
  /\ program = name /\ todo = script
  /\ val = [f \in Field |-> Null]
  /\ born = << >> /\ live = {} /\ lost = {}
  /\ fault = "none" /\ failed = 0
ClientInit == \E name \in Programs : Starts(name, Script[name])
ClientIdle == Starts("hifi4_media_tool", << >>)

At(ops) == todo # << >> /\ Head(todo).op \in ops
F == Head(todo).f
Fd == <<F[1], "fd">>

\* What stands in the way of the next instruction: a context that is not
\* there, or is no longer.
Bad(f) == IF val[f] = Null THEN "null" ELSE IF val[f] = Garbage THEN "garbage"
          ELSE IF val[f] \notin live THEN "dead" ELSE "none"
Context == IF F[1] \in {"main", "last"} \/ F[2] = "self" THEN "none" ELSE Bad(Self(F[1]))

Goes(rest) == todo' = rest \o Tail(todo)
Dies(why) == fault' = why /\ todo' = << >> /\ UNCHANGED <<val, born, live, lost, failed>>
MayFail == failed < MaxFailed /\ failed' = failed + 1

\* The field names a new object; a new context starts with its members Null.
Obtains(isLost) ==
  LET id == Len(born) + 1 IN
  /\ born' = Append(born, F)
  /\ live' = live \cup {id}
  /\ lost' = IF isLost THEN lost \cup {id} ELSE lost
  /\ val' = [f \in Field |-> IF f = F /\ ~isLost THEN id
                             ELSE IF f = F \/ (F[2] = "self" /\ f[1] = F[1]) THEN Null
                             ELSE IF f = Sent /\ isLost THEN Null
                             ELSE IF f \in {Sent, Ok} /\ ~At({"new", "try"}) THEN 1
                             ELSE val[f]]
Said(sent, ok) == [val EXCEPT ![Sent] = sent, ![Ok] = ok]

Crash == todo # << >> /\ Context # "none" /\ Dies(Context)

\* malloc, open and fopen.
Acquire ==
  /\ At({"new", "try"}) /\ Context = "none"
  /\ Goes(<< >>) /\ UNCHANGED fault
  /\ \/ Obtains(FALSE) /\ UNCHANGED failed
     \/ Head(todo).op = "try" /\ MayFail
        /\ val' = [val EXCEPT ![F] = Null] /\ UNCHANGED <<born, live, lost>>

\* Through the next RPC's descriptor: the memory pool keeps its own open.
CanSend == IF At({"free", "alloc", "dealloc"}) THEN TRUE ELSE val[Fd] # Null

\* An object of the DSP: made, refused, not asked for, or made and not told.
Construct ==
  /\ At({"make", "alloc"}) /\ Context = "none"
  /\ Goes(<< >>) /\ UNCHANGED fault
  /\ \/ CanSend /\ Obtains(FALSE) /\ UNCHANGED failed
     \/ CanSend /\ MayFail /\ val' = [Said(1, 1) EXCEPT ![F] = Null]
        /\ UNCHANGED <<born, live, lost>>
     \/ /\ IF CanSend THEN MayFail ELSE UNCHANGED failed
        /\ val' = [Said(Null, 1) EXCEPT
                     ![F] = IF At({"alloc"}) \/ F[1] \in FlatBuffers THEN Garbage ELSE Null]
        /\ UNCHANGED <<born, live, lost>>
     \/ /\ CanSend /\ MayFail
        /\ Obtains(TRUE)

\* free and close; giving an object of the DSP up, done or lost on the way.
Release ==
  /\ At({"free", "drop", "dealloc"}) /\ Context = "none"
  /\ Bad(F) \in {"none", "null"}
  /\ Goes(<< >>) /\ UNCHANGED <<fault, born, val>>
  /\ \/ /\ CanSend
        /\ live' = live \ {val[F]} /\ UNCHANGED <<lost, failed>>
     \/ /\ ~At({"free"})
        /\ IF CanSend THEN MayFail ELSE UNCHANGED failed
        /\ lost' = IF Bad(F) = "null" THEN lost ELSE lost \cup {val[F]}
        /\ UNCHANGED live
ReleaseWrong ==
  /\ At({"free", "drop", "dealloc"}) /\ Context = "none"
  /\ Bad(F) \in {"garbage", "dead"}
  /\ Dies(Bad(F))

\* Any other RPC.  Its argument holds zeros before the call, and zero is OK.
Invoke ==
  /\ At({"call"}) /\ Context = "none"
  /\ Goes(<< >>) /\ UNCHANGED <<fault, born, live, lost>>
  /\ \/ CanSend /\ val' = Said(1, 1) /\ UNCHANGED failed
     \/ CanSend /\ MayFail /\ val' = Said(1, Null)
     \/ /\ IF CanSend THEN MayFail ELSE UNCHANGED failed
        /\ val' = Said(Null, 1)

Access ==
  /\ At({"touch", "fclose"}) /\ Context = "none"
  /\ IF Bad(F) = "none"
     THEN /\ Goes(<< >>)
          /\ live' = IF At({"fclose"}) THEN live \ {val[F]} ELSE live
          /\ UNCHANGED <<val, born, lost, fault, failed>>
     ELSE Dies(Bad(F))

Assign ==
  /\ At({"clear", "soil", "fail"}) /\ Context = "none"
  /\ Goes(<< >>)
  /\ val' = [val EXCEPT ![F] = IF At({"soil"}) THEN Garbage ELSE Null]
  /\ UNCHANGED <<born, live, lost, fault, failed>>

\* The DSP takes back every block of the process.
TakesBack ==
  /\ At({"recycle"})
  /\ Goes(<< >>) /\ UNCHANGED <<fault, born, val>>
  /\ \/ live' = {} /\ UNCHANGED <<lost, failed>>
     \/ MayFail /\ lost' = lost \cup live /\ UNCHANGED live

Branch ==
  /\ At({"if"}) /\ Context = "none"
  /\ Goes(IF val[F] # Null THEN Head(todo).yes ELSE Head(todo).no)
  /\ UNCHANGED <<val, born, live, lost, fault, failed>>
Choose ==
  /\ At({"either"})
  /\ Goes(Head(todo).yes) \/ Goes(Head(todo).no)
  /\ UNCHANGED <<val, born, live, lost, fault, failed>>

RoundAgain ==
  /\ At({"forever"})
  /\ todo' = Head(todo).yes \o todo
  /\ UNCHANGED <<val, born, live, lost, fault, failed>>

ClientNext ==
  /\ \/ Crash \/ Acquire \/ Construct \/ Release \/ ReleaseWrong \/ TakesBack \/ Invoke
     \/ Access \/ Assign \/ Branch \/ Choose \/ RoundAgain
  /\ UNCHANGED program

-----------------------------------------------------------------------------
(***************************************************************************)
(* Properties.                                                             *)
(***************************************************************************)

\* What the code itself leaves behind, for the end of the process to clear:
\* dspplay, dspcap and playwav on a file that does not open or is not taken;
\* mp3dec's file when there is no frame in it; a decoder the DSP refuses, and the
\* jump out of aac_offload_dec past its blocks; pcm_gain when the DSP makes no
\* gain; tbuf_file whose second output does not open; do_cmd's and the two fifos'
\* descriptors; the sources, mixer and device of vad_main; the bridge's device
\* objects; and, when its flat buffer is not made, the DSP's buffer of
\* pcm_process_client_alloc_buffer.
aac_leaks == {<<"aac", "fd">>, Local("in"), Local("out")}
KnownLeaks ==
  CASE program = "dspplay" -> {Config} \cup {<<"pcm", x>> : x \in {"self", "fd", "srv"}}
    [] program = "dspcap" -> {Local("fileOut")}
    [] program = "playwav" -> {Config}
    [] program = "mp3dec" -> {Local("fileIn")}
    [] program \in {"aacdec", "dspplay_buildin"} -> aac_leaks
    [] program = "pcm_gain" -> {Self("gain")}
    [] program = "tbuf_file" -> {Local("out"), Local("param")}
    [] program = "do_cmd" -> {Local("fd")}
    [] program \in {"voip_data_receiver", "vsp_awe_dspin"} -> {Local("fd2")}
    [] program = "vad_main" -> {Local("param"), Local("out"), Local("fd")}
    [] program \in {"line0_capture", "line0_playback", "line1_capture", "line1_playback"}
         -> {Local("param")}
    [] program = "other_calls" -> {<<"dspc", "buf">>}
    [] OTHER -> {}

\* Whatever calls fail, a program that runs to its end has given back every
\* context, descriptor, block and object of the DSP, but for those a failed
\* RPC took out of its hands and those of the few error paths named above.
NothingLeaks ==
  todo = << >> /\ fault = "none" => \A o \in live \ lost : born[o] \in KnownLeaks

\* No error path and no order of clean-up releases an object twice or goes
\* through a context that was freed.
ReleasesOnce == fault # "dead"
=============================================================================
