------------------------------- MODULE Files -------------------------------
(***************************************************************************)
(* Files and file descriptors: open, close, read and write on the tables   *)
(* of descriptors of a chain of processes, and the read-only file system   *)
(* underneath (boot block, inodes, data blocks).                           *)
(*                                                                         *)
(* A call works on the table of the process that makes it: module Sched    *)
(* shows that fdt and cur_pid name that process in user mode and that no   *)
(* tick within a call changes this.  The rest of a call touches nothing    *)
(* another process uses, so one call is one step.  How a read of stdin and *)
(* of the clock waits is in modules Terminal and RTC; here they return.    *)
(***************************************************************************)
EXTENDS Integers, Sequences, SequencesExt, FiniteSets

CONSTANTS
  FILESYSTEM_BLOCKSIZE,  \* bytes of a block (filesystem.h:11)
  MAX_FILENAME_LENGTH,   \* characters of a name (filesystem.h:10)
  MAX_NUM_FDT_ENTRIES,   \* entries of a table (lib.h:17)
  Depth,                 \* processes that may be nested
  fileDirectory,         \* dentries: a sequence of [fileName, fileType, inodeNum]
  inodes,                \* inodes[i]: [length, dataBlocks], i in 0..numInodes - 1
  blocks,                \* blocks[b][k]: byte k of data block b
  Filenames,             \* the names programs pass to open
  StdinName, StdoutName, \* "stdin", "stdout"
  Fds, Sizes,            \* the descriptors and sizes programs pass
  Lines                  \* the lines users type, with their newline

ASSUME SizesAssumption ==
  /\ FILESYSTEM_BLOCKSIZE \in Nat \ {0} /\ MAX_FILENAME_LENGTH \in Nat \ {0}
  /\ MAX_NUM_FDT_ENTRIES \in Nat /\ MAX_NUM_FDT_ENTRIES > 2
  /\ Depth \in Nat \ {0} /\ Fds \subseteq Int /\ Sizes \subseteq Int
ASSUME LinesAssumption == \A line \in Lines : line \in Seq(Range(line))
ASSUME ImageAssumption ==
  /\ Len(fileDirectory) \in Nat
  /\ \A i \in 1..Len(fileDirectory) :
       /\ fileDirectory[i].fileName \in Seq(Range(fileDirectory[i].fileName))
       /\ Len(fileDirectory[i].fileName) <= MAX_FILENAME_LENGTH
       /\ fileDirectory[i].fileType = 2 => fileDirectory[i].inodeNum \in DOMAIN inodes
  /\ \A i \in DOMAIN inodes :
       /\ inodes[i].length \in Nat
       /\ \A k \in 0..(inodes[i].length - 1) :
            inodes[i].dataBlocks[1 + k \div FILESYSTEM_BLOCKSIZE] \in DOMAIN blocks
  /\ \A b \in DOMAIN blocks : DOMAIN blocks[b] = 0..(FILESYSTEM_BLOCKSIZE - 1)

(* File types and flags (systemcall.h).                                    *)
RTC_DEVICE_FILETYPE   == 0
DIRECTORY_FILETYPE    == 1
REGULAR_FILE_FILETYPE == 2
UNUSED_FLAG    == 0
STDIN_FLAG     == 1
STDOUT_FLAG    == 2
RTC_FLAG       == 3
DIRECTORY_FLAG == 4
REGFILE_FLAG   == 5
NOT_IN_OUT     == 2
ERROR_VAL == -1

Processes == 0..(Depth - 1)
Entries   == 0..(MAX_NUM_FDT_ENTRIES - 1)

----------------------------------------------------------------------------
(* The file system.                                                        *)

Least(a, b) == IF a < b THEN a ELSE b

(* strncmp of a name with the one in a dentry, over MAX_FILENAME_LENGTH    *)
(* characters: what follows them in fname is not looked at.                *)
SameName(fname, name) ==
  SubSeq(fname, 1, Least(Len(fname), MAX_FILENAME_LENGTH)) = name

(* read_dentry_by_name: the first match, or ERROR_VAL.                     *)
read_dentry_by_name(fname) ==
  LET matches == {i \in 1..Len(fileDirectory) : SameName(fname, fileDirectory[i].fileName)}
  IN IF matches = {} THEN ERROR_VAL
     ELSE CHOOSE i \in matches : \A j \in matches : i <= j

read_dentry_by_index(i) == IF i >= Len(fileDirectory) \/ i < 0 THEN ERROR_VAL ELSE i + 1

strcpyFile(name) == SubSeq(name, 1, Least(Len(name), MAX_FILENAME_LENGTH))

OffsetAfterBlock(state) == 0

(* The copying loop of read_data, one iteration for each data block.       *)
CopyBlock(inode, copyLength, state) ==
  LET block    == blocks[inodes[inode].dataBlocks[1 + state.dataBlockIndex]]
      copy_len == Least(FILESYSTEM_BLOCKSIZE - state.dataBlockOffset,
                        copyLength - Len(state.buf))
  IN [dataBlockIndex  |-> state.dataBlockIndex + 1,
      dataBlockOffset |-> OffsetAfterBlock(state),
      buf |-> state.buf \o [k \in 1..copy_len |-> block[state.dataBlockOffset + k - 1]]]

CopyLoop(inode, offset, copyLength) ==
  LET after[n \in Nat] ==
        IF n = 0 THEN [dataBlockIndex  |-> offset \div FILESYSTEM_BLOCKSIZE,
                       dataBlockOffset |-> offset % FILESYSTEM_BLOCKSIZE,
                       buf             |-> <<>>]
        ELSE LET state == after[n - 1]
             IN IF Len(state.buf) < copyLength THEN CopyBlock(inode, copyLength, state)
                ELSE state
  IN after[copyLength].buf

(* What read_data returns, and the bytes it copies to buf.                 *)
Failed == [ret |-> ERROR_VAL, buf |-> <<>>]
Copied(bytes) == [ret |-> Len(bytes), buf |-> bytes]

read_data(inode, offset, length) ==
  IF inode \notin DOMAIN inodes THEN Failed
  ELSE IF offset = inodes[inode].length THEN Copied(<<>>)
  ELSE IF offset < 0 \/ offset > inodes[inode].length THEN Failed
  ELSE Copied(CopyLoop(inode, offset, Least(length, inodes[inode].length - offset)))

----------------------------------------------------------------------------
(* The descriptor tables.                                                  *)

VARIABLES
  cur_pid,     \* process that runs; its ancestors are the smaller numbers
  process_fdt, \* process_fdt[p][fd]: [inodeNum, file_position, flags]
  ret,         \* result of the last call
  buf, size,   \* what the last call copied, and the size of the buffer
  index        \* entry of the table the last call looked at, 0 if none

vars == <<cur_pid, process_fdt, ret, buf, size, index>>

fdt == process_fdt[cur_pid]

Unused == [inodeNum |-> 0, file_position |-> -1, flags |-> UNUSED_FLAG]

(* initialize_FDT.                                                         *)
FreshTable == [fd \in Entries |->
  IF fd = 0 THEN [Unused EXCEPT !.flags = STDIN_FLAG, !.file_position = 0]
  ELSE IF fd = 1 THEN [Unused EXCEPT !.flags = STDOUT_FLAG, !.file_position = 0]
  ELSE Unused]

Init ==
  /\ cur_pid = 0
  /\ process_fdt = [p \in Processes |-> FreshTable]
  /\ ret = 0 /\ buf = <<>> /\ size = 0 /\ index = 0

(* The entry a call finds: past the table lies memory never written.       *)
Entry(fd) == IF fd \in Entries THEN fdt[fd] ELSE Unused

Put(fd, e) == process_fdt' = [process_fdt EXCEPT ![cur_pid][fd] = e]

Return(r, b) == ret' = r /\ buf' = b /\ cur_pid' = cur_pid
NoBuffer == size' = 0
NoEntry == index' = 0
Fail == Return(ERROR_VAL, <<>>) /\ UNCHANGED process_fdt

----------------------------------------------------------------------------
FlagOf(fileType) ==
  CASE fileType = RTC_DEVICE_FILETYPE   -> RTC_FLAG
    [] fileType = DIRECTORY_FILETYPE    -> DIRECTORY_FLAG
    [] fileType = REGULAR_FILE_FILETYPE -> REGFILE_FLAG
    [] OTHER                            -> UNUSED_FLAG

Free == {fd \in Entries : fd >= NOT_IN_OUT /\ fdt[fd].flags = UNUSED_FLAG}

(* sys_open of stdin or stdout, by prefix.                                 *)
OpenStandard(filename) ==
  /\ IsPrefix(StdinName, filename) \/ IsPrefix(StdoutName, filename)
  /\ Return(IF IsPrefix(StdinName, filename) THEN 0 ELSE 1, <<>>)
  /\ NoBuffer /\ NoEntry /\ UNCHANGED process_fdt

(* sys_open: the first free entry; an unknown file type fails after the    *)
(* entry has been partly filled in.                                        *)
OpenFile(filename) ==
  LET d == read_dentry_by_name(filename) IN
  /\ ~IsPrefix(StdinName, filename) /\ ~IsPrefix(StdoutName, filename)
  /\ Free # {} /\ d # ERROR_VAL
  /\ \E fd \in Free :
       LET type == fileDirectory[d].fileType IN
       /\ \A g \in Free : fd <= g
       /\ index' = fd /\ NoBuffer
       /\ Put(fd, [inodeNum |-> IF type = REGULAR_FILE_FILETYPE
                                THEN fileDirectory[d].inodeNum ELSE 0,
                   file_position |-> 0,
                   flags |-> FlagOf(type)])
       /\ Return(IF FlagOf(type) = UNUSED_FLAG THEN ERROR_VAL ELSE fd, <<>>)

OpenFails(filename) ==
  /\ ~IsPrefix(StdinName, filename) /\ ~IsPrefix(StdoutName, filename)
  /\ Free = {} \/ read_dentry_by_name(filename) = ERROR_VAL
  /\ NoEntry /\ NoBuffer /\ Fail

sys_open(filename) == OpenStandard(filename) \/ OpenFile(filename) \/ OpenFails(filename)

----------------------------------------------------------------------------
(* sys_close.                                                              *)
CloseRefusedNegative(fd) == fd < 0 \/ fd > MAX_NUM_FDT_ENTRIES
CloseRefused(fd) == fd < NOT_IN_OUT \/ fd > MAX_NUM_FDT_ENTRIES

sys_close(fd) ==
  \/ CloseRefused(fd) /\ Fail /\ NoBuffer /\ NoEntry
  \/ /\ ~CloseRefused(fd)
     /\ index' = fd /\ NoBuffer
     /\ IF Entry(fd).flags = UNUSED_FLAG THEN Fail
        ELSE Put(fd, [fdt[fd] EXCEPT !.flags = UNUSED_FLAG]) /\ Return(0, <<>>)

(* fileRead.                                                               *)
PositionAfter(fd, n) == fdt[fd].file_position + n

fileRead(fd, nbytes) ==
  LET data == read_data(fdt[fd].inodeNum, fdt[fd].file_position, nbytes) IN
  IF data.ret = ERROR_VAL THEN Fail
  ELSE /\ Put(fd, [fdt[fd] EXCEPT !.file_position = PositionAfter(fd, data.ret)])
       /\ Return(data.ret, data.buf)

(* directoryRead: strcpyFile copies the whole name, whatever nbytes is.    *)
directoryRead(fd, nbytes) ==
  LET i == fdt[fd].file_position
      d == read_dentry_by_index(i)
  IN IF i = Len(fileDirectory)
     THEN Put(fd, [fdt[fd] EXCEPT !.file_position = 0]) /\ Return(0, <<>>)
     ELSE IF d = ERROR_VAL THEN Fail
     ELSE LET name == strcpyFile(fileDirectory[d].fileName) IN
          /\ Put(fd, [fdt[fd] EXCEPT !.file_position = i + 1])
          /\ Return(Len(name), name)

(* terminalRead: a line, or as much of it as the buffer holds.             *)
CutLine(line, nbytes) == SubSeq(line, 1, Least(Len(line), nbytes))

(* The read operation of an entry, as initialize_fops sets them up.  Reads *)
(* of the terminal and the clock are in modules Terminal and RTC.          *)
fops_read(fd, nbytes) ==
  CASE Entry(fd).flags = REGFILE_FLAG   -> fileRead(fd, nbytes)
    [] Entry(fd).flags = DIRECTORY_FLAG -> directoryRead(fd, nbytes)
    [] Entry(fd).flags = RTC_FLAG  -> Return(0, <<>>) /\ UNCHANGED process_fdt
    [] Entry(fd).flags = STDIN_FLAG ->
         /\ \E line \in Lines :
              Return(Len(CutLine(line, nbytes)), CutLine(line, nbytes))
         /\ UNCHANGED process_fdt
    [] OTHER -> Fail

(* sys_read: 1 is refused for being stdout.                                *)
ReadRefused(fd, nbytes) ==
  fd = STDIN_FLAG \/ fd > MAX_NUM_FDT_ENTRIES \/ fd < 0 \/ nbytes < 0

sys_read(fd, nbytes) ==
  \/ ReadRefused(fd, nbytes) /\ Fail /\ size' = nbytes /\ NoEntry
  \/ /\ ~ReadRefused(fd, nbytes)
     /\ index' = fd /\ size' = nbytes
     /\ fops_read(fd, nbytes)

(* The write operation: files and directories are read-only.               *)
fops_write(fd, nbytes) ==
  CASE Entry(fd).flags = STDOUT_FLAG -> Return(nbytes, <<>>) /\ UNCHANGED process_fdt
    [] Entry(fd).flags = RTC_FLAG ->
         (\E r \in {0, ERROR_VAL} : Return(r, <<>>)) /\ UNCHANGED process_fdt
    [] OTHER -> Fail

WriteRefused(fd, nbytes) == fd <= 0 \/ fd > MAX_NUM_FDT_ENTRIES \/ nbytes < 0

sys_write(fd, nbytes) ==
  \/ WriteRefused(fd, nbytes) /\ Fail /\ size' = nbytes /\ NoEntry
  \/ /\ ~WriteRefused(fd, nbytes)
     /\ index' = fd /\ size' = nbytes
     /\ fops_write(fd, nbytes)

----------------------------------------------------------------------------
TableKept(p) == process_fdt[p]
TableFor(p) == FreshTable

(* A program starts another one, which gets a fresh table ...              *)
Execute ==
  /\ cur_pid + 1 \in Processes
  /\ cur_pid' = cur_pid + 1
  /\ process_fdt' = [process_fdt EXCEPT ![cur_pid + 1] = TableFor(cur_pid + 1)]
  /\ ret' = 0 /\ buf' = <<>> /\ NoBuffer /\ NoEntry

(* ... and comes back when that one halts.  The close operations sys_halt  *)
(* calls change nothing.                                                   *)
Halt(status) ==
  /\ cur_pid > 0
  /\ cur_pid' = cur_pid - 1
  /\ ret' = status /\ buf' = <<>> /\ NoBuffer /\ NoEntry
  /\ UNCHANGED process_fdt

Next == \/ \E f \in Filenames : sys_open(f)
        \/ \E fd \in Fds : sys_close(fd)
        \/ \E fd \in Fds, n \in Sizes : sys_read(fd, n) \/ sys_write(fd, n)
        \/ Execute \/ Halt(0)

SafetySpec == Init /\ [][Next]_vars

----------------------------------------------------------------------------
(* Every call looks only at entries of the table.                          *)
DescriptorInTable == index \in Entries

(* A read never copies more than the program's buffer holds.               *)
ReadFitsBuffer == Len(buf) <= size

(* Descriptors are the streams of FileStreams.                             *)
FileContent(i) == [k \in 1..inodes[i].length |->
  blocks[inodes[i].dataBlocks[1 + (k - 1) \div FILESYSTEM_BLOCKSIZE]]
        [(k - 1) % FILESYSTEM_BLOCKSIZE]]
AllNames == [i \in 1..Len(fileDirectory) |-> fileDirectory[i].fileName]
From(s, k) == SubSeq(s, k + 1, Len(s))

(* The descriptors open gives out, the stream of an entry, and the streams *)
(* of every process: those of one that has halted are closed.              *)
OpenFds == {fd \in Entries : fd >= NOT_IN_OUT}

StreamOf(e) ==
  CASE e.flags = UNUSED_FLAG -> [kind |-> "closed"]
    [] e.flags = REGFILE_FLAG ->
         [kind |-> "file", rest |-> From(FileContent(e.inodeNum), e.file_position)]
    [] e.flags = DIRECTORY_FLAG -> [kind |-> "dir", rest |-> From(AllNames, e.file_position)]
    [] OTHER -> [kind |-> "device"]

streamsBar == [p \in Processes |-> [fd \in OpenFds |->
  IF p > cur_pid THEN [kind |-> "closed"] ELSE StreamOf(process_fdt[p][fd])]]

S == INSTANCE FileStreams
  WITH Descriptors <- OpenFds,
       Files <- DOMAIN inodes,
       Content <- [i \in DOMAIN inodes |-> FileContent(i)],
       Names <- AllNames,
       level <- cur_pid,
       out <- buf,
       streams <- streamsBar

(* Whatever a program opens, reads and closes, and whatever the programs   *)
(* it executes do in between: a descriptor gives the bytes of its file, or *)
(* the names of the directory, in order, each once, and 0 at the end.      *)
ImplementsStreams == S!StreamsSpec
=============================================================================
