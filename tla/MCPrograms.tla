----------------------------- MODULE MCPrograms -----------------------------
(* A file system for TLC with every program, blocks of two bytes, and text *)
(* files whose lines cross the ends of grep's reads.                       *)
EXTENDS Programs

Bytes == <<"sh", "c", "l", "h", "n", "p", "i", "b", "g", "y", "f", "a">>
MCProgramOf == [k \in Range(Bytes) |->
  <<"shell", "cat", "ls", "hello", "counter", "testprint", "sigtest", "pingpong",
    "grep", "syserr", "fish", "any">>[SelectInSeq(Bytes, LAMBDA b : b = k)]]

(* Texts: lines that are cut by a read of five bytes, frames of different  *)
(* shapes, a line longer than the array, bytes with a NUL, an empty file.  *)
Texts == << <<"b", "NL", "a", "a", "a", "b", "NL", "a", "b">>,
            <<"a", " ", "NL", "b">>, <<"a", " ", "b", "NL", "b", "NL">>,
            <<"a", "a", "a", "a", "a", "b", "NL", "NUL", "b", "NL", "a">>, <<>> >>
Contents == Texts \o [i \in DOMAIN Bytes |-> <<"ELF", Bytes[i]>>]

(* File i begins at block 10 * i.                                          *)
MCInodes == [i \in 0..(Len(Contents) - 1) |->
  [length |-> Len(Contents[i + 1]), dataBlocks |-> [k \in 1..6 |-> 10 * i + k]]]
MCBlocks == [b \in 0..(10 * Len(Contents)) |-> [k \in 0..1 |->
  LET file == Contents[1 + Least(b \div 10, Len(Contents) - 1)]
      at == 2 * ((b % 10) - 1) + k + 1
  IN IF at \in DOMAIN file THEN file[at] ELSE "NUL"]]

Dentry(name, type, inode) == [fileName |-> name, fileType |-> type, inodeNum |-> inode]
TextNames == << <<"t", "x">>, <<"0">>, <<"1">>, <<"z">>, <<"e">> >>
ProgramNames == << <<"s", "h">>, <<"c">>, <<"l">>, <<"h">>, <<"n">>, <<"p">>, <<"i">>,
                   <<"b">>, <<"g">>, <<"y">>, <<"f">>, <<"a">> >>
MCDirectory ==
  << Dentry(<<".">>, DIRECTORY_FILETYPE, 0), Dentry(<<"r">>, RTC_DEVICE_FILETYPE, 0) >>
  \o [i \in 1..Len(Contents) |->
        Dentry((TextNames \o ProgramNames)[i], REGULAR_FILE_FILETYPE, i - 1)]

(* Commands of the arbitrary program, and lines: commands, some with       *)
(* spaces in every place, choices, an empty line.                          *)
MCCommands ==
  SeqOf({"a", " "}, 3) \cup {<<"a", " ", "b", "b", "b">>, <<"a", "a", " ", "b">>, <<"c", " ", "e">>}
Typed ==
  {<<"a", " ", " ", "b">>, <<"a">>, <<" ", "a">>, <<"x">>, <<"q">>, <<"e">>, <<".">>, <<>>,
   <<"c", " ", "t", "x">>, <<"c", " ", "z">>, <<"c", " ", "o">>, <<"c", " ", "o", "i">>, <<"c", " ", "r">>, <<"c", " ", "q">>, <<"c", " ", ".">>,
   <<"c">>, <<"l">>, <<"h">>, <<"n">>, <<"p">>, <<"i", " ", "1">>, <<"i", " ", "0">>, <<"b">>,
   <<"g", " ", "b">>, <<"g", " ", "a", "b">>, <<"g">>, <<"y">>, <<"f">>, <<"s", "h", " ", "b">>,
   <<"0">>, <<"1">>, <<"2">>, <<"3">>, <<"8">>}
MCLines == {Append(line, NL) : line \in Typed}

Stdout == <<"o">>
Stdin == <<"o", "i">>
WordX == <<"x">>
NameDot == <<".">>
NameRtc == <<"r">>
NameShell == <<"s", "h">>
NameHello == <<"h">>
MCFrames == [f \in 0..1 |-> IF f = 0 THEN <<"0">> ELSE <<"1">>]
MCMaxima == <<1, 11, 2>>
MCResidue == {[k \in 0..(ARG_SIZE - 1) |-> IF k < n THEN "b" ELSE NUL] : n \in {0, 1, ARG_SIZE}}
MCStack == {NUL, NL}
MCStatuses == {0, 3, -1, 256}
NoNames == {}
=============================================================================
