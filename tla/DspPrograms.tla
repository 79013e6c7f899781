----------------------------- MODULE DspPrograms -----------------------------
(***************************************************************************)
(* The programs that call the DSP's client libraries: the client test and  *)
(* the RPC test (hifi4rpc_test, test), the media and the voice tool        *)
(* (hifi4_tool, vad_test) and the bridge's device classes.  Each is the    *)
(* script of what it obtains, uses and releases; a thread is a script of   *)
(* its own.                                                                *)
(***************************************************************************)
EXTENDS DspCalls, TLC

-----------------------------------------------------------------------------
(***************************************************************************)
(* The programs.  A loop over a file runs once or not at all.              *)
(***************************************************************************)

Loop(body) == Either(body, << >>)
End(s, rest) == Either(s, rest)   \* an input or an argument ends the program early
str2hifiId(rest) == End(<< >>, rest)   \* a name that is no DSP's ends the process

\* pcm_client_open's configuration is the program's own block; the file it plays
\* or fills is opened before the device or after it.
Config == Local("param")
play(io) == pcm_client_frame_to_bytes \o Alloc(Local("in")) \o Loop(Touch(Local("in")) \o io)
            \o pcm_client_close \o Dealloc(Local("in")) \o Free(Config)
pcm_play_buildin ==
  New(Config) \o pcm_client_open \o pcm_client_bytes_to_frame \o play(pcm_client_writei)
play_wav ==
  New(Config) \o Try(Local("fileIn"))
  \o When(Local("fileIn"),
       Either(<< >>, pcm_client_open \o play(pcm_client_writei)) \o Free(Local("fileIn")))
pcm_play_test ==
  New(Config) \o pcm_client_open \o Try(Local("fileIn"))
  \o When(Local("fileIn"), play(pcm_client_writei) \o Free(Local("fileIn")))
pcm_capture_test ==
  Try(Local("fileOut"))
  \o When(Local("fileOut"),
       End(<< >>, New(Config) \o pcm_client_open \o play(pcm_client_readi)
                  \o Free(Local("fileOut"))))

flat_buffers_cmd(io) ==
  AML_FLATBUF_Create("fb") \o When(Self("fb"), Loop(io) \o AML_FLATBUF_Destroy("fb"))

\* The calls no program of the repository makes, as their header offers them.
other_calls ==
  pcm_process_client_open \o pcm_process_client_writei \o pcm_process_client_set_volume_gain
  \o pcm_process_client_get_volume_gain \o pcm_process_client_alloc_buffer
  \o When(Self("fb"), pcm_process_client_flatbuf_readi \o pcm_process_client_free_buffer)
  \o pcm_process_client_close
  \o pcm_client_open \o pcm_client_get_latency \o pcm_client_close
  \o flat_buffers_cmd(AML_FLATBUF_GetFullness("fb") \o AML_FLATBUF_GetSpace("fb")
                      \o AML_FLATBUF_Reset("fb"))

flat_buffers_read_cmd == flat_buffers_cmd(AML_FLATBUF_Read("fb"))
flat_buffers_write_cmd == flat_buffers_cmd(AML_FLATBUF_Write("fb"))

thread_dump ==
  New(Local("in")) \o Loop(AML_FLATBUF_Read("fb") \o Touch(Local("fileOut")))
  \o Free(Local("in"))
audio_dump ==
  Try(Local("fileOut"))
  \o When(Local("fileOut"), AML_FLATBUF_Create("fb") \o When(Self("fb"), thread_dump))
  \o When(Self("fb"), AML_FLATBUF_Destroy("fb")) \o Free(Local("fileOut"))
reg_dump == xAudio_Ipc_init("main") \o Call("main") \o xAudio_Ipc_Deinit("main")
hifi4_media_tool == End(<< >>, Either(audio_dump, reg_dump))

\* AML_PCM_Open's NULL goes straight into AML_PCM_Read.
thread_aml_pcm_test == AML_PCM_Open \o AML_PCM_Read \o AML_PCM_Close

AllocIo == Alloc(Local("in")) \o Touch(Local("in")) \o Alloc(Local("out"))
FreeIo == Dealloc(Local("in")) \o Dealloc(Local("out"))

mp3_offload_dec ==
  LET Closed == Mp3Reader_close \o Free(Local("fileOut"))
      Decode == Either(AllocIo \o Loop(AmlACodecExec_UserAllocIoShm_Mp3Dec) \o Closed \o FreeIo,
                       Loop(AmlACodecExec_Mp3Dec) \o Closed)
      Write == Try(Local("fileOut")) \o If(Local("fileOut"), Decode, Mp3Reader_close)
  IN  AmlACodecInit_Mp3Dec \o Mp3Reader_init(Write, << >>) \o AmlACodecDeInit_Mp3Dec

\* The output is opened with the first decoded frame, and closed even when
\* there was none.
aac_offload_dec ==
  LET Decoded(exec) == Loop(exec \o When(Ok, Try(Local("fileOut"))))
      Closed == Do("fclose", Local("fileOut"))
      Shm == Alloc(Local("in")) \o Alloc(Local("out"))
             \o If(Local("out"),
                   If(Local("in"), Decoded(AmlACodecExec_UserAllocIoShm_AacDec) \o Closed
                                   \o FreeIo, << >>),
                   << >>)
  IN  AmlACodecInit_AacDec
      \o When(Self("aac"),
           End(<< >>, Either(Shm, Decoded(AmlACodecExec_AacDec) \o Closed))
           \o AmlACodecDeInit_AacDec)

\* A jump to the end before the files are opened leaves them uninitialised.
aml_pcm_gain_unit_test ==
  LET AndThen(s, rest) == s \o When(Ok, rest)
      Run == AndThen(AML_PCMGAIN_GetParam, AndThen(AML_PCMGAIN_SetParam,
             AndThen(AML_PCMGAIN_Open, AndThen(AML_PCMGAIN_SetParam,
             Loop(AML_PCMGAIN_Process)))))
      Io == Try(Local("fileIn")) \o Try(Local("fileOut"))
            \o When(Local("fileIn"), When(Local("fileOut"),
                 AML_PCMGAIN_Create \o When(Self("gain"), Run)))
      NoFiles == Soil(Local("fileIn")) \o Soil(Local("fileOut"))
  IN  Try(Local("in")) \o Try(Local("out"))
      \o If(Local("in"), If(Local("out"), Io, NoFiles), NoFiles)
      \o When(Self("gain"), AML_PCMGAIN_Close) \o When(Self("gain"), AML_PCMGAIN_Destroy)
      \o Free(Local("in")) \o Free(Local("out"))
      \o When(Local("fileIn"), Free(Local("fileIn")))
      \o When(Local("fileOut"), Free(Local("fileOut")))

aml_rsp_unit_test ==
  LET Run == aml_resampler_init \o Loop(aml_resampler) IN
  Try(Local("fileIn"))
  \o When(Local("fileIn"), Try(Local("fileOut")) \o When(Local("fileOut"), Run))
  \o Free(Local("fileIn")) \o Free(Local("fileOut"))
  \o When(Self("rsp"), aml_resampler_destroy)

offload_vsp_rsp ==
  AllocIo \o Alloc(Local("param")) \o Touch(Local("param")) \o AML_VSP_Init
  \o Loop(AML_VSP_Process) \o FreeIo \o Dealloc(Local("param")) \o AML_VSP_Deinit

-----------------------------------------------------------------------------
(***************************************************************************)
(* Programs that only send, and look at the answer if at all.              *)
(***************************************************************************)

sends(calls) == xAudio_Ipc_init("main") \o calls \o xAudio_Ipc_Deinit("main")
once == sends(Call("main"))
repeated == sends(Call("main") \o Loop(Call("main")))  \* until a wrong answer

ipc_uint_test == repeated
ipc_uint_test1 == repeated
rpc_unit_test == End(<< >>, once)       \* in the parent and in the child
aml_hifi4_inside_wakeup == once
aml_hifi4_timer_wakeup == once
rpc_meminfo == once
aml_hifi_vad_awe_wakeup == End(<< >>, once)
xaf_test == End(<< >>, str2hifiId(once))
flat_buf_test == sends(Loop(Call("main") \o Call("main")))
mbox_uint3 == repeated
mbox_uint4 == repeated
mbox_uint5 == repeated
mbox_uint6 == repeated
mbox_uint7thread == repeated
mbox_uint89 == once

\* Test 1 leaves the device open, test 2 listens for ever.
do_cmd ==
  End(<< >>, xAudio_Ipc_init("main") \o Either(Call("main"), Forever(Call("main"))))

\* Each thread gets a block of its own; a block is written before the check that
\* it is there.
mbox_uint7 ==
  LET p1 == Local("in")
      p2 == Local("out")
      p3 == Local("param")
      Third == Try(p3) \o Touch(p3) \o Free(p3)
      Second == Try(p2) \o Touch(p2) \o Either(<< >>, Third) \o Free(p2)
  IN  Try(p1) \o When(p1, Either(<< >>, Second) \o Free(p1))

-----------------------------------------------------------------------------
(***************************************************************************)
(* Programs with files, buffers and threads.                               *)
(***************************************************************************)

WithFiles(rest) ==
  Try(Local("fileIn"))
  \o When(Local("fileIn"), Try(Local("fileOut")) \o When(Local("fileOut"), rest))
CloseFiles == Free(Local("fileIn")) \o Free(Local("fileOut"))

\* A block that does not come back as it was sent ends the rounds; what that
\* leaves behind, and what the second half never frees, goes with the process.
shm_uint_test ==
  LET src == Local("in")
      dst == Local("out")
  IN  Alloc(dst) \o Alloc(src) \o Touch(src) \o AML_MEM_Transfer(dst, src) \o Touch(dst)
      \o Either(<< >>, Dealloc(src) \o Dealloc(dst))
      \o Alloc(Local("param")) \o Recycle

aml_s16leresampler ==
  WithFiles(srcs16le_init(Either(New(Filter), << >>)) \o New(Local("in")) \o New(Local("out"))
        \o Loop(Touch(Local("in")) \o srcs16le_exec \o Touch(Local("out")))
        \o Free(Local("in")) \o Free(Local("out")) \o AML_SRCS16LE_DeInit)
  \o CloseFiles

\* The flat buffer is used whether it was created or not.
bcm_feed(input, io) ==
  Try(input)
  \o When(input, AML_FLATBUF_Create("fb") \o New(Local("in"))
       \o Loop(io \o AML_FLATBUF_Write("fb"))
       \o Free(input) \o Free(Local("in")) \o AML_FLATBUF_Destroy("fb"))
bcm_file_test == End(<< >>, str2hifiId(bcm_feed(Local("fileIn"), Touch(Local("fileIn")))))
bcm_pcm_test == End(<< >>, str2hifiId(bcm_feed(Local("fd"), Touch(Local("fd")))))

xaf_dump ==
  End(<< >>, str2hifiId(
    Try(Local("fileOut")) \o AML_FLATBUF_Create("fb") \o New(Local("in"))
    \o Forever(AML_FLATBUF_Read("fb") \o Touch(Local("fileOut")))))

moves(io) ==
  New(Local("in")) \o AML_FLATBUF_Create("fb")
  \o If(Self("fb"), Loop(io) \o Free(Local("in")) \o AML_FLATBUF_Destroy("fb"),
        Free(Local("in")))
thread_write_pcm == moves(AML_FLATBUF_Write("fb"))
thread_read_pcm == moves(AML_FLATBUF_Read("fb"))

\* From a file, from a sound card, or from nothing.
pcm_loopback_test ==
  LET Loopback == Try(Local("fileOut")) \o When(Local("fileOut"), once)
      FromFile == Try(Local("fileIn")) \o When(Local("fileIn"), Loopback)
      FromCard == Try(Local("param")) \o When(Local("param"), End(<< >>, Loopback))
      CloseAll == Free(Local("fileIn")) \o Free(Local("param")) \o Free(Local("fileOut"))
  IN  End(<< >>, str2hifiId(Either(FromFile, Either(FromCard, Loopback)) \o CloseAll))

\* One file for each DSP asked for.  A file that does not open ends the test, its
\* thread already under way.
aml_pcm_test ==
  LET A == Local("fileIn")
      B == Local("fileOut")
      Dual == Try(A) \o When(A, Try(B)) \o CloseFiles
      Single == str2hifiId(Either(Try(A), Try(B)) \o CloseFiles)
  IN  End(CloseFiles, Either(Dual, Single))

\* A second output that does not open leaves the first one open: no reader has
\* it yet.  No flat buffer is looked at before the threads use it.
hifi4_tbuf_test ==
  LET Destroy(c) == When(Self(c), AML_FLATBUF_Destroy(c))
      Outputs == <<Local("out"), Local("param")>>
      Ready == \* the two loopback descriptors
        Try(Local("fd")) \o Try(Local("fd2"))
        \o When(Local("fd"), When(Local("fd2"),
             AML_FLATBUF_Write("fb") \o AML_FLATBUF_Write("fbA")
             \o AML_FLATBUF_Read("fbB") \o AML_FLATBUF_Read("fbC")))
      Closed == Free(Outputs[1]) \o Free(Outputs[2])
      Buffers ==
        AML_TBUF_Create
        \o When(Self("tbuf"),
             AML_FLATBUF_Create("fb") \o AML_FLATBUF_Create("fbA")
             \o AML_FLATBUF_Create("fbB") \o AML_FLATBUF_Create("fbC") \o Ready
             \o Destroy("fb") \o Destroy("fbA") \o Destroy("fbB") \o Destroy("fbC")
             \o Free(Local("fd")) \o Free(Local("fd2")) \o Closed)
  IN  Try(Local("fileIn"))
      \o When(Local("fileIn"),
           Try(Outputs[1]) \o Try(Outputs[2])
           \o When(Outputs[1], When(Outputs[2], Buffers))
           \o Free(Local("fileIn")))
      \o AML_TBUF_Destroy

\* Of the files and buffers that are opened, checked and closed alike, one
\* stands for all.  The second reference is not checked.
aml_wake_engine_unit_test ==
  LET ref1 == Local("param")
      AWE == Local("awe")
      Run == Try(AWE) \o When(AWE, End(<< >>, Loop(Touch(Local("fileIn")) \o Touch(ref1))))
      Buffers == Try(Local("in")) \o Try(Local("out"))
                 \o When(Local("in"), When(Local("out"), Run))
  IN  Try(Local("fileIn")) \o Try(ref1) \o Try(Local("fileOut"))
      \o When(Local("fileIn"), When(Local("fileOut"), Buffers))
      \o Free(AWE) \o Free(Local("in")) \o Free(Local("out"))
      \o Free(Local("fileIn")) \o Free(ref1) \o Free(Local("fileOut"))

\* The command fifo is never closed.
aml_wake_engine_voip_data_receiver ==
  Try(Local("fd"))
  \o When(Local("fd"), Try(Local("fd2"))
       \o When(Local("fd2"), Try(Local("fileOut"))
            \o When(Local("fileOut"),
                 srcs16le_init(New(Filter)) \o New(Local("in")) \o New(Local("out"))
                 \o Loop(Touch(Local("in")) \o srcs16le_exec \o Touch(Local("out")))
                 \o AML_SRCS16LE_DeInit \o Free(Local("out")) \o Free(Local("in")))))
  \o Free(Local("fileOut")) \o Free(Local("fd"))

dumper_close ==
  When(Local("param"),
    Free(Local("fileOut")) \o When(Self("fb"), AML_FLATBUF_Destroy("fb"))
    \o Free(Local("in")) \o Free(Local("param")))
dumper_open ==
  LET No == dumper_close \o Clear(Local("param"))
      Buf == Try(Local("in")) \o If(Local("in"), << >>, No)
  IN  Try(Local("param"))
      \o When(Local("param"), Try(Local("fileOut"))
           \o If(Local("fileOut"),
                 AML_FLATBUF_Create("fb") \o If(Self("fb"), Buf, No), No))
dumper_thread == AML_FLATBUF_Read("fb")

\* A jump to the end skips the initialisation of the dumper and of its thread;
\* the command fifo is never closed, nor is the data fifo a fork that fails met.
aml_wake_engine_dspin_test ==
  LET AWE == Local("awe")
      asr == Local("out")
      Soiled == Soil(Local("param"))
      Joined == Touch(Local("param")) \o dumper_close
      Dump == dumper_open
              \o If(Local("param"), Either(<< >>, Loop(dumper_thread)) \o dumper_close, << >>)
      Run == Try(AWE) \o If(AWE, Either(Soiled \o Joined, Dump), Soiled \o Joined)
      Open == Try(Local("fd"))
              \o If(Local("fd"), Try(Local("fd2"))
                   \o If(Local("fd2"), Try(asr) \o If(asr, Run, Soiled \o Joined),
                         Soiled \o Joined),
                   Soiled \o Joined)
  IN  Either(Soiled \o Joined, Open)
      \o Free(AWE) \o Free(asr) \o Free(Local("fd"))

\* Both threads read through the one client the main thread opened.
pro_read_dspc_data(f) == Try(f) \o When(f, Loop(Call("dspc") \o Touch(f)) \o Free(f))
pro_read_dspc_rawdata == pro_read_dspc_data(Local("fileIn"))
pro_read_dspc_processeddata == pro_read_dspc_data(Local("fileOut"))
dspc_pro_pcm ==
  End(<< >>, pcm_process_client_open
             \o pro_read_dspc_rawdata \o pro_read_dspc_processeddata
             \o pcm_process_client_close)

\* The list of sound cards, and the list of devices: behind its last line the
\* search takes a number out of nothing.
get_card == Try(Local("fileIn")) \o Free(Local("fileIn"))
get_device ==
  Try(Local("fileOut"))
  \o When(Local("fileOut"),
       Either(<< >>, Clear(Local("in")) \o Touch(Local("in"))) \o Free(Local("fileOut")))

\* A device that is not ready stays open, and its capture ends with a signal.
capturing_audio ==
  LET pcm == Local("fd") IN
  Try(pcm)
  \o When(pcm, Either(<< >>,
       Try(Local("in")) \o When(Local("in"), Loop(Touch(pcm)))
       \o Free(Local("in")) \o Free(pcm)))

vad_main ==
  LET vad_src == Local("param")
      pmixer == Local("out")
  IN  Either(New(vad_src), << >>)
      \o Either(<< >>, get_card \o When(vad_src, get_device) \o Try(pmixer)
           \o When(vad_src, When(pmixer,
                Either(<< >>, capturing_audio \o Free(pmixer) \o Free(vad_src)))))

-----------------------------------------------------------------------------
(***************************************************************************)
(* The bridge (hifi4rpc_audio_bridge): its device classes and the threads  *)
(* of its two lines.                                                       *)
(***************************************************************************)

PCM_MODE == {"PCM_CARTURE", "PCM_PLAYBACK"}
Unnamed == {"U8", "U16_LE", "U16_BE", "U24_LE", "U24_BE", "U32_LE", "U32_BE"}
PCM_FORMAT ==
  {"S8", "S16_LE", "S16_BE", "S24_LE", "S24_BE", "U24_3LE", "U24_3BE", "S32_LE", "S32_BE"}
  \cup Unnamed

\* What a class opens: a device and mode of its table, in a format it has a name for.
aml_adev ==
  {"TDMA", "TDMB", "SPDIFIN", "UVC"} \X PCM_MODE
  \cup {"LOOPBACK", "PDMIN"} \X {"PCM_CARTURE"}
aml_dsp_adev ==
  {"TDMA", "TDMB"} \X PCM_MODE
  \cup {"SPDIFIN", "LOOPBACK", "PDMIN"} \X {"PCM_CARTURE"}
find_alsa_format_node == PCM_FORMAT \ Unnamed
find_dsp_format_node == PCM_FORMAT \ Unnamed

Device(type, dev, mode) == [type |-> type, dev |-> dev, mode |-> mode, format |-> "S16_LE"]
Named(d, table, formats) == <<d.dev, d.mode>> \in table /\ d.format \in formats

\* A setting ALSA refuses fails the opening and leaves the handle to pcm_close.
AudioAlsa_pcm_open(d) ==
  IF Named(d, aml_adev, find_alsa_format_node) THEN Try(Local("fd")) ELSE << >>
AudioAlsa(d) ==
  [handle |-> Local("fd"), open |-> AudioAlsa_pcm_open(d), close |-> Do("fclose", Local("fd")),
   alloc |-> Try(Local("in")), free |-> Free(Local("in")), start |-> << >>, stop |-> << >>,
   read |-> Touch(Local("fd")) \o Touch(Local("in")), write |-> Touch(Local("fd")),
   restore |-> Touch(Local("fd"))]

AudioDspc_pcm_open(d) ==
  IF ~Named(d, aml_dsp_adev, find_dsp_format_node) THEN << >>
  ELSE IF d.mode = "PCM_PLAYBACK" THEN pcm_client_open ELSE pcm_process_client_open
AudioDspc(d) ==
  LET plays == d.mode = "PCM_PLAYBACK" IN
  [handle |-> Self(IF plays THEN "pcm" ELSE "dspc"), open |-> AudioDspc_pcm_open(d),
   close |-> IF plays THEN pcm_client_close ELSE pcm_process_client_close,
   alloc |-> Alloc(Local("in")) \o When(Local("in"), Touch(Local("in"))),
   free |-> Dealloc(Local("in")),
   start |-> IF plays THEN << >> ELSE pcm_process_client_start,
   stop |-> IF plays THEN << >> ELSE pcm_process_client_stop,
   read |-> pcm_process_client_dqbuf
            \o Either(<< >>, Touch(Local("in")) \o pcm_process_client_qbuf),
   write |-> pcm_client_writei, restore |-> << >>]

AudioHal(d) == IF d.type = "DEV_INTALSA" THEN AudioAlsa(d) ELSE AudioDspc(d)

\* A thread's device object is its own and is not deleted.  A device or a buffer
\* that is not there lowers the flag the loop looks at.
Bridged(hal, body) ==
  New(Local("param")) \o hal.open \o hal.alloc \o hal.start
  \o When(hal.handle, When(Local("in"), Loop(body)))
  \o hal.stop \o hal.free \o hal.close
capture_pthread(d) == Bridged(AudioHal(d), AudioHal(d).read)
playback_pthread(d) ==
  Bridged(AudioHal(d),
          Touch(Local("in")) \o AudioHal(d).write \o Either(<< >>, AudioHal(d).restore))

PcmLine0 == [src |-> Device("DEV_DSPC", "LOOPBACK", "PCM_CARTURE"),
             dst |-> Device("DEV_INTALSA", "UVC", "PCM_PLAYBACK")]
PcmLine1 == [src |-> Device("DEV_INTALSA", "UVC", "PCM_CARTURE"),
             dst |-> Device("DEV_DSPC", "TDMB", "PCM_PLAYBACK")]

-----------------------------------------------------------------------------
\* hifi4rpc_client_test: what each of its options runs.  The built-in sound
\* falls through to the AAC decoder.
client_test ==
  [ipc |-> ipc_uint_test, ipc1 |-> ipc_uint_test1,
   ipc2 |-> str2hifiId(ipc_uint_test \o str2hifiId(ipc_uint_test1)), shm |-> shm_uint_test,
   mp3dec |-> mp3_offload_dec, dspplay |-> pcm_play_test, dspcap |-> pcm_capture_test,
   dspplay_buildin |-> pcm_play_buildin \o Either(aac_offload_dec, << >>),
   aacdec |-> aac_offload_dec, vsp_rsp |-> aml_rsp_unit_test, rpc |-> rpc_unit_test,
   vsp_awe_unit |-> aml_wake_engine_unit_test, vsp_awe_dspin |-> aml_wake_engine_dspin_test,
   hifiwake |-> aml_hifi4_inside_wakeup, resampler |-> aml_s16leresampler,
   timerwakeup |-> aml_hifi4_timer_wakeup, flatbuf_unit |-> flat_buf_test,
   pcm_gain |-> aml_pcm_gain_unit_test, pcm_loopback |-> pcm_loopback_test,
   pcm_file |-> bcm_file_test, pcm_cap |-> bcm_pcm_test, xaf |-> xaf_test,
   tbuf_file |-> hifi4_tbuf_test, pcm_dump |-> xaf_dump, aml_pcm |-> aml_pcm_test,
   meminfo |-> str2hifiId(rpc_meminfo), vad_awe_wakeup |-> aml_hifi_vad_awe_wakeup,
   playwav |-> play_wav, dspc_pro_pcm |-> dspc_pro_pcm]

\* The threads these start, and the other programs.
Script ==
  client_test @@
  [flat_buffers_read |-> flat_buffers_read_cmd, flat_buffers_write |-> flat_buffers_write_cmd,
   thread_read_pcm |-> thread_read_pcm, thread_write_pcm |-> thread_write_pcm,
   thread_aml_pcm_test |-> thread_aml_pcm_test, offload_vsp_rsp |-> offload_vsp_rsp,
   voip_data_receiver |-> aml_wake_engine_voip_data_receiver,
   hifi4_media_tool |-> hifi4_media_tool,
   line0_capture |-> capture_pthread(PcmLine0.src),
   line0_playback |-> playback_pthread(PcmLine0.dst),
   line1_capture |-> capture_pthread(PcmLine1.src),
   line1_playback |-> playback_pthread(PcmLine1.dst),
   uint3 |-> mbox_uint3, uint7 |-> mbox_uint7, uint7thread |-> mbox_uint7thread,
   uint89 |-> mbox_uint89, do_cmd |-> do_cmd, vad_main |-> vad_main,
   other_calls |-> other_calls]
=============================================================================
