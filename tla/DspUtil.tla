-------------------------------- MODULE DspUtil --------------------------------
(***************************************************************************)
(* dsp_util, which loads, starts and stops the DSPs through their device   *)
(* files, and dsp_start, which runs it for every DSP at boot.              *)
(*                                                                         *)
(* A command line is a sequence of options <<letter, argument>>; "operand" *)
(* is an element that is no option.  getopt_long puts operands last.       *)
(* Firmware is looked up as the Android build does it.                     *)
(***************************************************************************)
EXTENDS Integers, Sequences, FiniteSetsExt

CONSTANTS
  CommandLines,   \* the sequences of command lines run one after another
  Worlds          \* what there is: [devices, files]

ASSUME DspUtilAssumption ==
  CommandLines \subseteq Seq(Seq(STRING \X STRING))

VARIABLE util

\* The commands in the order main looks for them, with their bits.
Table == << <<"l", 256>>, <<"L", 16384>>, <<"r", 512>>, <<"S", 1024>>, <<"s", 2048>>,
            <<"k", 4096>>, <<"w", 8192>> >>
Letters == {"l", "L", "r", "S", "s", "k", "w"}
Row(letter) == CHOOSE i \in DOMAIN Table : Table[i][1] = letter
Bit(letter) == Table[Row(letter)][2]
Has(cmd, bit) == (cmd \div bit) % 2 = 1
Or(cmd, bit) == IF Has(cmd, bit) THEN cmd ELSE cmd + bit
Flag == [d |-> 16, f |-> 32, a |-> 64, M |-> 4, N |-> 8]
DspId == [hifi4a |-> 0, hifi4b |-> 1]

NoInfo == [id |-> 0, f |-> "", M |-> "", N |-> ""]

UtilStart(lines, world) ==
  [lines |-> lines, world |-> world, phase |-> "next", given |-> << >>, optind |-> 1,
   cmd |-> 0, err |-> FALSE, info |-> NoInfo, row |-> 1, tried |-> << >>]
UtilInit == \E lines \in CommandLines, world \in Worlds : util = UtilStart(lines, world)
UtilIdle == util = UtilStart(<< >>, [devices |-> {}, files |-> {}])

\* dsp_start forks, runs the next command line and waits for its end; what it
\* returned, and whether it could be run at all, makes no difference.
Launch ==
  /\ util.phase = "next" /\ util.lines # << >>
  /\ util' = [UtilStart(Tail(util.lines), util.world)
                EXCEPT !.phase = "parse", !.given = Head(util.lines)]
NotRun ==
  /\ util.phase = "next" /\ Len(util.lines) > 1
  /\ util' = [util EXCEPT !.lines = Tail(util.lines)]

\* An option.  A command adds its bit, whether it is there already or not.
Option ==
  LET option == util.given[util.optind]
      letter == option[1]
      rest == [util EXCEPT !.optind = util.optind + 1]
  IN
  /\ util.phase = "parse" /\ util.optind <= Len(util.given) /\ letter # "operand"
  /\ util' =
       CASE letter \in Letters -> [rest EXCEPT !.cmd = util.cmd + Bit(letter)]
         [] letter = "d" /\ option[2] \notin DOMAIN DspId -> [rest EXCEPT !.phase = "next"]
         [] letter = "d" /\ option[2] \in DOMAIN DspId ->
              [rest EXCEPT !.cmd = Or(util.cmd, Flag.d), !.info.id = DspId[option[2]]]
         [] letter \in {"f", "M", "N"} ->
              [rest EXCEPT !.cmd = Or(util.cmd, Flag[letter]), !.info[letter] = option[2]]
         [] letter = "a" -> [rest EXCEPT !.cmd = Or(util.cmd, Flag.a)]
         [] letter = "?" -> [rest EXCEPT !.err = TRUE]
         [] OTHER -> rest       \* h prints its message and goes on
\* Without debug output the loop over the operands does not advance: it prints
\* the usage for ever.
Operand ==
  /\ util.phase = "parse" /\ util.optind <= Len(util.given)
  /\ util.given[util.optind][1] = "operand"
  /\ util' = [util EXCEPT !.phase = "usage"]
Parsed ==
  /\ util.phase = "parse" /\ util.optind > Len(util.given)
  /\ util' = [util EXCEPT !.phase = IF util.err THEN "next" ELSE "run"]

dsp_dev_is_exist(info) == info.id \in util.world.devices
dsp_firmware_is_exist(info) ==
  \E dir \in {"/vendor/etc/firmware/hifi4dsp/", "/vendor/firmware/"} :
    <<dir, info.f>> \in util.world.files
dsp_2firmware_is_exist(info) ==
  \A name \in {info.M, info.N} : <<"/lib/firmware/", name>> \in util.world.files

Default(name, default) == IF name = "" THEN default ELSE name
\* (A bug to be caught: the device's existence alone decides.)
Ready_device(letter, info) == dsp_dev_is_exist(info)
\* dsp_load, dsp_2firmware_load, and the other five.
Ready(letter, info) ==
  /\ dsp_dev_is_exist(info)
  /\ letter = "l" => dsp_firmware_is_exist(info)
  /\ letter = "L" => dsp_2firmware_is_exist(info)

\* The next row of main's table: its bit is not set, its files are not there, or
\* it is handed to dsp_ctl, which returns -1 when the device does not open and 0
\* otherwise, whatever the ioctl said.  main looks at neither.
Command ==
  LET letter == Table[util.row][1]
      info == CASE letter = "l" -> [util.info EXCEPT !.f = Default(@, "dspaboot.bin")]
                [] letter = "L" -> [util.info EXCEPT !.M = Default(@, "dspboot_sram.bin"),
                                                     !.N = Default(@, "dspboot_sdram.bin")]
                [] OTHER -> util.info
  IN
  /\ util.phase = "run" /\ util.row <= Len(Table)
  /\ util' = IF ~Has(util.cmd, Table[util.row][2]) THEN [util EXCEPT !.row = util.row + 1]
             ELSE [util EXCEPT !.row = util.row + 1, !.info = info,
                     !.tried = IF Ready(letter, info) THEN Append(@, <<letter, info>>) ELSE @]
Exit ==
  /\ util.phase = "run" /\ util.row > Len(Table)
  /\ util' = [util EXCEPT !.phase = "next"]

UtilNext == Launch \/ NotRun \/ Option \/ Operand \/ Parsed \/ Command \/ Exit

-----------------------------------------------------------------------------
(***************************************************************************)
(* Property.                                                               *)
(***************************************************************************)

\* What the command line asks for, read as a whole: the argument an option was
\* last given, and the rows of the table.
Given(letter) == {i \in DOMAIN util.given : util.given[i][1] = letter}
LastGiven(letter) == IF Given(letter) = {} THEN "" ELSE util.given[Max(Given(letter))][2]
TheDsp == DspId[Default(LastGiven("d"), "hifi4a")]
File(letter, default) == Default(LastGiven(letter), default)

InError ==
  \/ Given("?") # {} \/ Given("operand") # {}
  \/ \E i \in Given("d") : util.given[i][2] \notin DOMAIN DspId
Possible(letter) ==
  /\ TheDsp \in util.world.devices
  /\ letter = "l" => \E dir \in {"/vendor/etc/firmware/hifi4dsp/", "/vendor/firmware/"} :
                        <<dir, File("f", "dspaboot.bin")>> \in util.world.files
  /\ letter = "L" =>
       {<<"/lib/firmware/", File("M", "dspboot_sram.bin")>>,
        <<"/lib/firmware/", File("N", "dspboot_sdram.bin")>>} \subseteq util.world.files
Asked ==
  IF InError THEN {} ELSE {letter \in Letters : Given(letter) # {} /\ Possible(letter)}
Repeats == \E letter \in Letters : \E i, j \in Given(letter) : i # j

\* The commands handed to dsp_ctl so far are these, in the order of main, for the DSP and
\* the files of the command line.
Tried(letters) ==
  /\ {util.tried[i][1] : i \in DOMAIN util.tried} = letters
  /\ \A i, j \in DOMAIN util.tried : i < j => Row(util.tried[i][1]) < Row(util.tried[j][1])
  /\ \A i \in DOMAIN util.tried :
       LET info == util.tried[i][2] IN
       /\ info.id = TheDsp
       /\ util.tried[i][1] = "l" => info.f = File("f", "dspaboot.bin")
       /\ util.tried[i][1] = "L" => /\ info.M = File("M", "dspboot_sram.bin")
                                   /\ info.N = File("N", "dspboot_sdram.bin")

\* A command line with no command twice (two of one make the bit of another)
\* hands dsp_ctl exactly the commands it names, in the order of main and not of
\* the line, on the DSP it names, and for none that lacks its device or
\* its firmware: the sums of bits do not carry, nothing of an earlier line is
\* left, and a line in error runs nothing.
RunsWhatWasAsked == util.phase = "next" /\ ~Repeats => Tried(Asked)

-----------------------------------------------------------------------------
(***************************************************************************)
(* The inductive invariant.                                                *)
(***************************************************************************)

\* No name, the default ones, or any other.
FileNames == {"", "dspaboot.bin", "dspboot_sram.bin", "dspboot_sdram.bin"} \cup STRING
Infos == [id : {0, 1}, f : FileNames, M : FileNames, N : FileNames]
UtilTypeOK ==
  util \in [lines : Seq(Seq(STRING \X STRING)), world : {util.world},
            phase : {"next", "parse", "usage", "run"}, given : Seq(STRING \X STRING),
            optind : 1..(Len(util.given) + 1), cmd : Nat, err : BOOLEAN, info : Infos,
            row : 1..(Len(Table) + 1), tried : Seq(Letters \X Infos)]

\* The options of a kind that have been read, and the last one's argument.
Read(letter) == {i \in Given(letter) : i < util.optind}
LastRead(letter) == IF Read(letter) = {} THEN "" ELSE util.given[Max(Read(letter))][2]
Once(letter, bit) == IF Read(letter) = {} THEN 0 ELSE bit

\* The bits are those of the options read, each there once.
Summed ==
  util.cmd = Once("M", 4) + Once("N", 8) + Once("d", 16) + Once("f", 32) + Once("a", 64)
             + Once("l", 256) + Once("r", 512) + Once("S", 1024) + Once("s", 2048)
             + Once("k", 4096) + Once("w", 8192) + Once("L", 16384)
Parses ==
  /\ util.phase \in {"parse", "run"} =>
      /\ util.err <=> Read("?") # {}
      /\ Read("operand") = {}
      /\ \A i \in Read("d") : util.given[i][2] \in DOMAIN DspId
      /\ util.info.id = DspId[Default(LastRead("d"), "hifi4a")]
      /\ ~Repeats => Summed
  /\ util.phase = "parse" =>
      /\ util.tried = << >> /\ util.row = 1
      /\ \A file \in {"f", "M", "N"} : util.info[file] = LastRead(file)

\* What dsp_ctl was handed is what of the command line lies above the row.
Runs ==
  util.phase = "run" =>
    /\ util.optind = Len(util.given) + 1 /\ ~util.err
    /\ Default(util.info.f, "dspaboot.bin") = File("f", "dspaboot.bin")
    /\ Default(util.info.M, "dspboot_sram.bin") = File("M", "dspboot_sram.bin")
    /\ Default(util.info.N, "dspboot_sdram.bin") = File("N", "dspboot_sdram.bin")
    /\ ~Repeats => Tried({letter \in Asked : Row(letter) < util.row})

UtilIInv == UtilTypeOK /\ Parses /\ Runs /\ RunsWhatWasAsked
=============================================================================
