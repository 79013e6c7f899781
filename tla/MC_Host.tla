-------------------------------- MODULE MC_Host --------------------------------
(***************************************************************************)
(* Small programs, streams, files and command lines for Host: all the      *)
(* programs and loops, with the inputs below.                              *)
(***************************************************************************)
EXTENDS Host, TLC

AllPrograms == DOMAIN Script

\* SampleFormats: samples at the ends of their range and around zero; a float
\* next to 1.
MCInputs ==
  [f \in Formats |-> IF f = float THEN {-(2^18), -1, 2^16 - 1, 2^18} ELSE {-f.high - 1, -1, f.high}]

\* SampleRate: up, down, and down behind the filter; where a chunk yields more
\* than the caller's room the behaviour ends with the assertion.
MCRates == {<<16, 8>>, <<1, 1>>, <<2, 1>>, <<1, 2>>, <<3, 2>>, <<4, 6>>, <<1, 3>>, <<5, 3>>}
MCInput == <<3, -4, 0, 5, 1, -2, 7, 7, -6, 2, 4, -1>>
MCFiltered == {<<16, 8>>}

\* WavFile: every three chunks of these, under a RIFF size that fits them or
\* not; and files cut off at each byte of their data.
Head16 == Fmt(16, "PCM_16", 1)
Part(n, f) == SubSeq(Stored([k \in 1..4 |-> Value(k, f)], f), 1, n)
MCChunks == {Head16, Fmt(18, "PCM_24", 2), [Head16 EXCEPT !.good = FALSE],
             Other(3), Data(0, << >>), Data(6, Part(6, i16)), Data(7, Part(7, i16))}
Total(cs) == 4 + FoldLeft(LAMBDA n, c : n + 8 + c.size, 0, cs)
MCForeign ==
  {file \in {[riffSize |-> Total(cs) + d, chunks |-> cs] :
     cs \in UNION {[1..n -> MCChunks] : n \in 0..3}, d \in {-14, -8, -4, 0, 3, 8}} :
     file.riffSize \in Nat}
  \cup {[riffSize |-> Total(<<Head16, Data(8, << >>)>>),
         chunks |-> <<Head16, Data(8, Part(n, i16))>>] : n \in 0..7}

\* Mp3Reader: tags, noise, false headers and frames of two sizes and two kinds
\* before, between and behind two runs of frames.
Header(bits, pad) ==
  [version |-> 0, layer |-> 1, bitrate_index |-> bits, sampling_rate_index |-> 1, padding |-> pad]
OtherHeader == [Header(1, 0) EXCEPT !.layer = 3]
Frame(h) == [len |-> frame_size(h), headers |-> 0 :> h, tags |-> << >>]
Noise(n) == [len |-> n, headers |-> << >>, tags |-> << >>]
Tag(n) == [len |-> n + 10, headers |-> << >>, tags |-> 0 :> n]
FalseFrame(h, n) == [len |-> n, headers |-> 0 :> h, tags |-> << >>]
Lay(segs) ==
  LET at[i \in 0..Len(segs)] == IF i = 0 THEN 0 ELSE at[i - 1] + segs[i].len
      Of(get(_)) == [p \in {at[i - 1] : i \in {j \in 1..Len(segs) : get(segs[j]) # << >>}} |->
                       get(segs[CHOOSE i \in 1..Len(segs) : at[i - 1] = p])[0]]
  IN  [size |-> at[Len(segs)], headers |-> Of(LAMBDA s : s.headers), tags |-> Of(LAMBDA s : s.tags)]
Long == Frame(Header(1, 1))
Short == Frame(Header(1, 0))
Run4 == <<Short, Long, Short, Short>>
MCFiles ==
  {Lay(pre \o Run4 \o gap \o Run4 \o <<Long>> \o tail) :
     pre \in {<< >>, <<Tag(5)>>, <<Tag(0), Tag(9)>>, <<Noise(3)>>, <<Tag(2), Noise(29)>>,
              <<FalseFrame(Header(1, 0), 30)>>, <<Frame(OtherHeader), Short>>},
     gap \in {<< >>, <<Noise(1)>>, <<Noise(37)>>, <<Frame(OtherHeader)>>,
              <<FalseFrame(Header(1, 0), 20)>>, <<FalseFrame(Header(15, 0), 39)>>,
              <<Noise(140)>>, <<Short, Noise(7)>>},
     tail \in {<< >>, <<FalseFrame(Header(1, 0), 20)>>, <<Noise(2)>>}}
  \cup {Lay(<<Noise(8)>>), Lay(<<Tag(4)>>), Lay(Run4)}

\* DspUtil: two options of any kind, three of the telling ones, and the four
\* lines of dsp_start.
Plain == {<<x, "">> : x \in {"l", "L", "r", "S", "s", "k", "w", "h", "?", "a"}}
Naming == {<<"d", "hifi4a">>, <<"d", "hifi4b">>, <<"d", "dsp">>, <<"f", "dspbootb.bin">>, <<"f", "">>,
           <<"M", "m.bin">>, <<"N", "n.bin">>}
Telling == {<<"l", "">>, <<"L", "">>, <<"S", "">>, <<"s", "">>, <<"d", "hifi4b">>,
            <<"f", "dspbootb.bin">>}
Boot(dsp, firmware) == << <<<<"d", dsp>>, <<"f", firmware>>, <<"l", "">>>>, <<<<"d", dsp>>, <<"S", "">>>> >>
MCLines ==
  {Boot("hifi4a", "dspboota.bin") \o Boot("hifi4b", "dspbootb.bin")}
  \cup {<<s>> : s \in UNION {[1..n -> Plain \cup Naming] : n \in 0..2} \cup [1..3 -> Telling]}
  \cup {<<<<o, <<"operand", "">>>>>> : o \in Plain \cup Naming}
MCWorlds ==
  {[devices |-> d, files |-> f] :
     d \in {{}, {0}, {0, 1}},
     f \in {{<<"/vendor/firmware/", "dspbootb.bin">>,
             <<"/vendor/etc/firmware/hifi4dsp/", "dspaboot.bin">>,
             <<"/lib/firmware/", "m.bin">>, <<"/lib/firmware/", "dspboot_sdram.bin">>},
            {<<"/lib/firmware/", "dspboot_sram.bin">>, <<"/lib/firmware/", "dspboot_sdram.bin">>,
             <<"/vendor/firmware/", "dspboota.bin">>}}}
=============================================================================
