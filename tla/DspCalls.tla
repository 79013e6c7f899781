------------------------------- MODULE DspCalls -------------------------------
(***************************************************************************)
(* What a call of the DSP's client libraries (hifi4rpc_client) obtains,    *)
(* uses and releases: heap contexts, device descriptors, shared memory     *)
(* blocks and the objects the DSP keeps for them.                          *)
(*                                                                         *)
(* A C function is a script: the sequence of its instructions in the order *)
(* of the code, with its conditions.  DspPrograms has the programs made of *)
(* these calls and DspClients executes them under every failure.           *)
(***************************************************************************)
EXTENDS Integers, Sequences

Null == 0
Garbage == -1   \* what an uninitialised variable holds

\* A field is a member of a context; "main" holds a program's own variables
\* and "last" what the last RPC said: TRUE is any value but Null.
Self(c) == <<c, "self">>
Local(x) == <<"main", x>>
Sent == <<"last", "sent">>
Ok == <<"last", "ret">>

FlatBuffers == {"fb", "fbA", "fbB", "fbC"}

Field ==
  {"pcm", "dspc", "apcm", "vsp", "mp3", "aac", "gain", "rsp"}
    \X {"self", "fd", "srv", "in", "out", "conf", "param", "buf"}
  \cup FlatBuffers \X {"self", "fd", "srv"}
  \cup {"tbuf", "srcs"} \X {"self", "in"}
  \cup {Local(x) : x \in {"in", "out", "param", "fileIn", "fileOut", "fd", "fd2", "awe"}}
  \cup {Sent, Ok}

-----------------------------------------------------------------------------
(***************************************************************************)
(* The instructions.                                                       *)
(***************************************************************************)

Do(op, f) == << [op |-> op, f |-> f] >>

New(f) == Do("new", f)          \* malloc whose result the code trusts
Try(f) == Do("try", f)          \* malloc, open or fopen: it may yield Null
Free(f) == Do("free", f)        \* free, close: Null is let through
Clear(f) == Do("clear", f)      \* an assignment of Null
Soil(f) == Do("soil", f)        \* a variable whose initialisation is jumped over
Make(f) == Do("make", f)        \* an RPC that yields an object of the DSP
Drop(f) == Do("drop", f)        \* an RPC that gives the object up
Call(c) == Do("call", <<c, "srv">>)  \* any other RPC on the object
Alloc(f) == Do("alloc", f)      \* AML_MEM_Allocate
Dealloc(f) == Do("dealloc", f)  \* AML_MEM_Free
Touch(f) == Do("touch", f)      \* an access through a pointer or AML_MEM_GetVirtAddr
Recycle == Do("recycle", Ok)    \* AML_MEM_Recycle: all blocks of the process
\* The DSP copies one block into another, over the pool's own connection; without
\* either the program ends here rather than at its own next access.
AML_MEM_Transfer(dst, src) == Touch(src) \o Touch(dst)

If(f, yes, no) == << [op |-> "if", f |-> f, yes |-> yes, no |-> no] >>
When(f, yes) == If(f, yes, << >>)
\* round and round, for ever
Forever(body) == << [op |-> "forever", f |-> Ok, yes |-> body] >>
Either(one, other) == << [op |-> "either", f |-> Ok, yes |-> one, no |-> other] >>

-----------------------------------------------------------------------------
(***************************************************************************)
(* The libraries.                                                          *)
(***************************************************************************)

xAudio_Ipc_init(c) == Try(<<c, "fd">>)
xAudio_Ipc_Deinit(c) == Free(<<c, "fd">>)

pcm_client_open == New(Self("pcm")) \o xAudio_Ipc_init("pcm") \o Make(<<"pcm", "srv">>)
pcm_client_close == Drop(<<"pcm", "srv">>) \o xAudio_Ipc_Deinit("pcm") \o Free(Self("pcm"))
pcm_client_writei == Call("pcm")
pcm_client_readi == Call("pcm")
pcm_client_get_latency == Call("pcm")
pcm_client_frame_to_bytes == Touch(Self("pcm"))
pcm_client_bytes_to_frame == Touch(Self("pcm"))

pcm_process_client_open ==
  New(Self("dspc")) \o xAudio_Ipc_init("dspc") \o Make(<<"dspc", "srv">>)
pcm_process_client_close ==
  Drop(<<"dspc", "srv">>) \o xAudio_Ipc_Deinit("dspc") \o Free(Self("dspc"))
pcm_process_client_start == Call("dspc")
pcm_process_client_stop == Call("dspc")
pcm_process_client_readi == Call("dspc")
pcm_process_client_writei == << >>   \* refuses every write
pcm_process_client_dqbuf == Call("dspc")
pcm_process_client_qbuf == Call("dspc")
pcm_process_client_get_volume_gain == Call("dspc")
pcm_process_client_set_volume_gain == Call("dspc")

AML_FLATBUF_Create(c) ==
  LET No == Free(Self(c)) \o Clear(Self(c))
      Created == If(Sent, << >>, xAudio_Ipc_Deinit(c) \o No)
  IN  Try(Self(c))
      \o When(Self(c), xAudio_Ipc_init(c)
           \o If(<<c, "fd">>, Make(<<c, "srv">>) \o Created, No))
AML_FLATBUF_Destroy(c) == Drop(<<c, "srv">>) \o xAudio_Ipc_Deinit(c) \o Free(Self(c))
\* The block they copy through came with the DSP's object.
AML_FLATBUF_Read(c) == Call(c) \o When(Sent, Touch(<<c, "srv">>))
AML_FLATBUF_Write(c) == Touch(<<c, "srv">>) \o Call(c)
AML_FLATBUF_Reset(c) == Call(c)
AML_FLATBUF_GetFullness(c) == Call(c)
AML_FLATBUF_GetSpace(c) == Call(c)

\* The DSP's buffer is asked for without a look at the answer, and stays when
\* the flat buffer over it is not created.
pcm_process_client_alloc_buffer == Make(<<"dspc", "buf">>) \o AML_FLATBUF_Create("fb")
pcm_process_client_free_buffer == AML_FLATBUF_Destroy("fb") \o Drop(<<"dspc", "buf">>)
pcm_process_client_flatbuf_readi == AML_FLATBUF_Read("fb")

internal_pcm_close ==
  When(<<"apcm", "srv">>, Drop(<<"apcm", "srv">>)) \o xAudio_Ipc_Deinit("apcm")
  \o Dealloc(<<"apcm", "in">>) \o Free(Self("apcm"))
AML_PCM_Close == internal_pcm_close
AML_PCM_Open ==
  LET No == internal_pcm_close \o Clear(Self("apcm"))
      GetSrv == Make(<<"apcm", "srv">>) \o If(<<"apcm", "srv">>, << >>, No)
      GetShm == Alloc(<<"apcm", "in">>) \o If(<<"apcm", "in">>, GetSrv, No)
  IN  Try(Self("apcm"))
      \o If(Self("apcm"),
            xAudio_Ipc_init("apcm") \o If(<<"apcm", "fd">>, GetShm, No),
            No)
AML_PCM_Read == Call("apcm") \o Touch(<<"apcm", "in">>)

internal_tbuf_destroy ==
  When(Self("tbuf"), When(<<"tbuf", "in">>, Dealloc(<<"tbuf", "in">>)) \o Free(Self("tbuf")))
AML_TBUF_Destroy == internal_tbuf_destroy
AML_TBUF_Create ==
  Try(Self("tbuf"))
  \o When(Self("tbuf"), Alloc(<<"tbuf", "in">>)
       \o If(<<"tbuf", "in">>, << >>, internal_tbuf_destroy \o Clear(Self("tbuf"))))

\* The rate converter (SampleRate): its context and, for the filter that only some
\* rates ask for, a block of its own.
Filter == <<"srcs", "in">>
srcs16le_init(filter) == New(Self("srcs")) \o filter
srcs16le_exec == Touch(Self("srcs")) \o When(Filter, Touch(Filter))
AML_SRCS16LE_DeInit == Touch(Self("srcs")) \o When(Filter, Free(Filter)) \o Free(Self("srcs"))

\* The reader of MP3 files (Mp3Reader): its file, which a stream without a frame
\* leaves open.
Mp3Reader_init(rest, failed) ==
  Try(Local("fileIn")) \o If(Local("fileIn"), Either(failed, rest), failed)
Mp3Reader_close == Free(Local("fileIn"))

AML_VSP_Init == New(Self("vsp")) \o xAudio_Ipc_init("vsp") \o Make(<<"vsp", "srv">>)
\* (A bug to be caught: the descriptor is left open.)
AML_VSP_Deinit_open == Drop(<<"vsp", "srv">>) \o Free(Self("vsp"))
AML_VSP_Deinit == Drop(<<"vsp", "srv">>) \o xAudio_Ipc_Deinit("vsp") \o Free(Self("vsp"))
AML_VSP_Open == Call("vsp")
AML_VSP_Close == Call("vsp")
AML_VSP_SetParam == Call("vsp")
AML_VSP_GetParam == Call("vsp")
AML_VSP_Process == Call("vsp")

aml_resampler_init ==
  New(Self("rsp")) \o Alloc(Local("param")) \o Touch(Local("param")) \o AML_VSP_Init
  \o Alloc(<<"rsp", "in">>) \o Alloc(<<"rsp", "out">>) \o Dealloc(Local("param"))
aml_resampler == Touch(<<"rsp", "in">>) \o AML_VSP_Process \o When(Ok, Touch(<<"rsp", "out">>))
aml_resampler_destroy ==
  AML_VSP_Deinit \o Dealloc(<<"rsp", "in">>) \o Dealloc(<<"rsp", "out">>) \o Free(Self("rsp"))

AmlACodecInit_Mp3Dec ==
  New(Self("mp3")) \o xAudio_Ipc_init("mp3") \o Make(<<"mp3", "srv">>)
  \o Alloc(<<"mp3", "in">>) \o Alloc(<<"mp3", "out">>)
AmlACodecDeInit_Mp3Dec ==
  Drop(<<"mp3", "srv">>) \o xAudio_Ipc_Deinit("mp3")
  \o Dealloc(<<"mp3", "in">>) \o Dealloc(<<"mp3", "out">>) \o Free(Self("mp3"))
\* With the decoder's configuration copied out and back.
mp3_decoding_exec == Call("mp3")
AmlACodecExec_Mp3Dec ==
  Touch(<<"mp3", "in">>) \o mp3_decoding_exec \o Touch(<<"mp3", "out">>)
\* The caller's blocks.
AmlACodecExec_UserAllocIoShm_Mp3Dec == mp3_decoding_exec

\* A decoder the DSP refuses gives its context back, not its descriptor.
AmlACodecInit_AacDec ==
  New(Self("aac")) \o xAudio_Ipc_init("aac") \o Make(<<"aac", "srv">>)
  \o If(<<"aac", "srv">>,
        Alloc(<<"aac", "in">>) \o Alloc(<<"aac", "out">>) \o Alloc(<<"aac", "conf">>),
        Free(Self("aac")) \o Clear(Self("aac")))
AmlACodecDeInit_AacDec ==
  Drop(<<"aac", "srv">>) \o xAudio_Ipc_Deinit("aac")
  \o Dealloc(<<"aac", "in">>) \o Dealloc(<<"aac", "out">>) \o Dealloc(<<"aac", "conf">>)
  \o Free(Self("aac"))
aac_decoding_exec == Call("aac")
AmlACodecExec_AacDec ==
  Touch(<<"aac", "in">>) \o aac_decoding_exec \o Touch(<<"aac", "out">>)
AmlACodecExec_UserAllocIoShm_AacDec == aac_decoding_exec
AmlACodecSetParam == Call("aac")
AmlACodecAncInit == Call("aac")
AmlACodecConfigRaw == Touch(<<"aac", "conf">>) \o Call("aac")

\* Without parameter memory the context is not handed out and not freed.
AML_PCMGAIN_Create ==
  New(Self("gain")) \o Alloc(<<"gain", "param">>)
  \o If(<<"gain", "param">>, AML_VSP_Init, Clear(Self("gain")))
AML_PCMGAIN_Destroy ==
  Dealloc(<<"gain", "param">>) \o AML_VSP_Deinit \o Free(Self("gain"))
\* (A bug to be caught: the input block is freed when the output block fails.)
AML_PCMGAIN_Open_frees ==
  LET No == Do("fail", Ok)
      GetOutput == Alloc(<<"gain", "out">>)
                   \o If(<<"gain", "out">>, AML_VSP_Open, Dealloc(<<"gain", "in">>) \o No)
  IN  Alloc(<<"gain", "in">>) \o If(<<"gain", "in">>, GetOutput, No)
\* Yields Ok: a failure leaves what was allocated to AML_PCMGAIN_Close.
AML_PCMGAIN_Open ==
  LET No == Do("fail", Ok)
      GetOutput == Alloc(<<"gain", "out">>)
                   \o If(<<"gain", "out">>, AML_VSP_Open, Dealloc(<<"gain", "out">>) \o No)
  IN  Alloc(<<"gain", "in">>) \o If(<<"gain", "in">>, GetOutput, No)
AML_PCMGAIN_Close ==
  AML_VSP_Close \o Dealloc(<<"gain", "in">>) \o Clear(<<"gain", "in">>)
  \o Dealloc(<<"gain", "out">>) \o Clear(<<"gain", "out">>)
AML_PCMGAIN_SetParam == Touch(<<"gain", "param">>) \o AML_VSP_SetParam
AML_PCMGAIN_GetParam == AML_VSP_GetParam \o When(Ok, Touch(<<"gain", "param">>))
AML_PCMGAIN_Process ==
  Touch(<<"gain", "in">>) \o AML_VSP_Process \o When(Ok, Touch(<<"gain", "out">>))
===============================================================================
