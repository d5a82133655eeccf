---------------------------- MODULE FileStreams ----------------------------
(***************************************************************************)
(* What the file system calls promise a program: a descriptor is a stream  *)
(* of the bytes (or, for a directory, the names) that are still to come.   *)
(* Processes are nested by execute; the innermost one makes the calls and  *)
(* the streams of the others wait for it to halt.                          *)
(***************************************************************************)
EXTENDS Integers, Sequences

CONSTANTS
  Depth,       \* processes that may be nested
  Descriptors, \* descriptors a program can get from open
  Files,       \* regular files
  Content,     \* Content[f]: the bytes of f, a sequence
  Names,       \* the names in the directory, a sequence
  Sizes,       \* the numbers of bytes programs ask for
  Lines        \* the lines users type

Closed == [kind |-> "closed"]
FileStream(s) == [kind |-> "file", rest |-> s]
DirStream(s)  == [kind |-> "dir", rest |-> s]
Device        == [kind |-> "device"]

VARIABLES
  level,       \* number of the process that runs
  streams,     \* streams[p][d]: stream of descriptor d of process p
  out          \* what the last read gave

svars == <<level, streams, out>>

NoStreams == [d \in Descriptors |-> Closed]

StreamsInit ==
  /\ level = 0
  /\ streams = [p \in 0..(Depth - 1) |-> NoStreams]
  /\ out = <<>>

----------------------------------------------------------------------------
Set(d, s) == streams' = [streams EXCEPT ![level][d] = s]

(* open: a closed descriptor gets a stream from its beginning.             *)
StreamOpen(d) ==
  /\ streams[level][d] = Closed
  /\ \/ \E f \in Files : Set(d, FileStream(Content[f]))
     \/ Set(d, DirStream(Names))
     \/ Set(d, Device)
  /\ out' = <<>> /\ level' = level

StreamClose(d) ==
  /\ streams[level][d] # Closed
  /\ Set(d, Closed)
  /\ out' = <<>> /\ level' = level

(* read: the next n bytes, or all that are left.                           *)
StreamRead(d, n) ==
  LET s == streams[level][d] IN
  /\ s.kind = "file"
  /\ LET k == IF n < Len(s.rest) THEN n ELSE Len(s.rest) IN
       /\ out' = SubSeq(s.rest, 1, k)
       /\ Set(d, FileStream(SubSeq(s.rest, k + 1, Len(s.rest))))
  /\ level' = level

(* read on a directory: the next name; after the last, once nothing.       *)
StreamList(d) ==
  LET s == streams[level][d] IN
  /\ s.kind = "dir"
  /\ IF s.rest = <<>>
     THEN out' = <<>> /\ Set(d, DirStream(Names))
     ELSE out' = Head(s.rest) /\ Set(d, DirStream(Tail(s.rest)))
  /\ level' = level

(* read of a line the user has typed, cut to the buffer.                   *)
StreamType(n) ==
  /\ \E line \in Lines : out' = SubSeq(line, 1, IF n < Len(line) THEN n ELSE Len(line))
  /\ UNCHANGED <<level, streams>>

(* A failed call, a write, or a call on a device.                          *)
StreamNothing == out' = <<>> /\ UNCHANGED <<level, streams>>

(* A new process starts with no open descriptor and loses nothing of its   *)
(* parent's.                                                               *)
StreamExecute ==
  /\ level + 1 < Depth
  /\ level' = level + 1
  /\ streams' = [streams EXCEPT ![level + 1] = NoStreams]
  /\ out' = <<>>

StreamHalt ==
  /\ level > 0
  /\ level' = level - 1
  /\ streams' = [streams EXCEPT ![level] = NoStreams]
  /\ out' = <<>>

StreamsNext ==
  \/ StreamNothing \/ StreamExecute \/ StreamHalt
  \/ \E n \in Sizes : StreamType(n)
  \/ \E d \in Descriptors :
       StreamOpen(d) \/ StreamClose(d) \/ StreamList(d) \/ \E n \in Sizes : StreamRead(d, n)

StreamsSpec == StreamsInit /\ [][StreamsNext]_svars
=============================================================================
