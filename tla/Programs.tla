------------------------------ MODULE Programs ------------------------------
(***************************************************************************)
(* The user programs: shell, cat, ls, hello, counter, testprint, sigtest   *)
(* and pingpong here, grep in GrepSearch, syserr and fish below; and a     *)
(* program for what those never do: it gets its arguments, executes, halts *)
(* and crashes in any order, with any of the commands and statuses.        *)
(***************************************************************************)
EXTENDS UserLib, GrepSearch

CONSTANTS
  SBUFSIZE,                \* of ls and grep, a name and a NUL (33)
  ExitWord, Dot, RtcName,  \* "exit", ".", "rtc"
  ShellName, HelloName,    \* "shell", "hello"
  Frames,                  \* Frames[f]: "frame0.txt", "frame1.txt"
  Maxima,                  \* how far counter counts: 100, 10000, 100000
  WAIT, LASTWAIT,          \* of fish: 200, 80*25
  COLS, OFFSET,            \* of fish: 80, 40
  StackBytes,              \* what grep's array data may hold before it is used
  Commands, Statuses       \* what the arbitrary program executes and returns

ASSUME ProgramSizes ==
  /\ BUFSIZE \in Nat /\ BUFSIZE >= ARG_SIZE /\ SBUFSIZE \in Nat /\ SBUFSIZE > MAX_FILENAME_LENGTH
  /\ BUFSIZE >= SBUFSIZE
  /\ WAIT \in Nat \ {0}
ASSUME ArbitraryInputs ==
  /\ \A command \in Commands : command \in Seq(Range(command)) /\ NUL \notin Range(command)
  /\ Statuses \subseteq Int

----------------------------------------------------------------------------
(* shell.  What is left in out is what it said last.                       *)
Says(bytes) ==
  /\ Trap(SYS_WRITE, 1, Len(bytes), 0)
  /\ out' = [out EXCEPT ![cur_pid] = bytes]

CommandIn(line) == IF line # <<>> /\ Last(line) = NL THEN Front(line) ELSE line

Message(rval) ==
  CASE rval = -1  -> <<"no such command">>
    [] rval = 256 -> <<"program terminated by exception">>
    [] rval = 0   -> <<>>
    [] OTHER      -> <<"program terminated abnormally">>

Shell ==
  \/ At("shell", "start") /\ Says(<<"Starting 391 Shell">>) /\ done' = None /\ Goto("line")
  \/ At("shell", "line") /\ Read(0, BUFSIZE - 1, BUFSIZE - 1) /\ Silent /\ Goto("typed")
  \/ /\ At("shell", "typed")
     /\ LET command == String(CommandIn(buf)) IN
        CASE ret = -1            -> Exit(<<"read from keyboard failed">>, 3)
          [] command = ExitWord  -> Exit(<<>>, 0)
          [] command = <<>>      -> Says(<<>>) /\ done' = None /\ Goto("line")
          [] OTHER               -> Exec(command, "ran")
  \/ At("shell", "ran") /\ Says(Message(ret)) /\ done' = done /\ Goto("line")

(* cat.  The terminal as a file, `cat stdin`, has no end: each read gives  *)
(* a line, at least its newline.  What is left in out then is the line     *)
(* written last.                                                           *)
Copies(bytes) == IF Me.fd = 0 THEN Says(bytes) /\ done' = None ELSE Write(bytes)

Cat ==
  \/ At("cat", "start") /\ GetArgs(BUFSIZE, BUFSIZE) /\ Silent /\ Goto("args")
  \/ /\ At("cat", "args")
     /\ IF ret # 0 THEN Exit(<<"could not read arguments">>, 3)
        ELSE Open(ArgString) /\ Silent /\ Goto("opened")
  \/ /\ At("cat", "opened")
     /\ IF ret = -1 THEN Exit(<<"file not found">>, 2)
        ELSE Read(ret, BUFSIZE, BUFSIZE) /\ Silent /\ With("read", ret, None)
  \/ /\ At("cat", "read")
     /\ CASE ret = 0  -> Exit(<<>>, 0)
          [] ret = -1 -> Exit(<<"file read failed">>, 3)
          [] OTHER    -> Copies(buf) /\ Goto("written")
  \/ /\ At("cat", "written")
     /\ IF ret = -1 THEN Exit(<<>>, 3)
        ELSE Read(Me.fd, BUFSIZE, BUFSIZE) /\ Silent /\ Goto("read")

(* ls.                                                                     *)
Ls ==
  \/ At("ls", "start") /\ Open(Dot) /\ Silent /\ Goto("opened")
  \/ /\ At("ls", "opened")
     /\ IF ret = -1 THEN Exit(<<"directory open failed">>, 2)
        ELSE Read(ret, SBUFSIZE - 1, SBUFSIZE - 1) /\ Silent /\ With("name", ret, None)
  \/ /\ At("ls", "name")
     /\ CASE ret = 0  -> Exit(<<>>, 0)
          [] ret = -1 -> Exit(<<"directory entry read failed">>, 3)
          [] OTHER    -> Write(buf \o <<NL>>) /\ Goto("written")
  \/ /\ At("ls", "written")
     /\ IF ret = -1 THEN Exit(<<>>, 3)
        ELSE Read(Me.fd, SBUFSIZE - 1, SBUFSIZE - 1) /\ Silent /\ Goto("name")

(* hello.                                                                  *)
Hello ==
  \/ At("hello", "start") /\ Write(<<"Hi, what's your name?">>) /\ Goto("ask")
  \/ At("hello", "ask") /\ Read(0, BUFSIZE - 1, BUFSIZE - 1) /\ Silent /\ Goto("name")
  \/ /\ At("hello", "name")
     /\ IF ret = -1 THEN Exit(<<"Can't read name from keyboard.">>, 3)
        ELSE Exit(<<"Hello, ">> \o String(buf), 0)

(* counter.                                                                *)
WrongChoice(choice) ==
  Len(choice) > 2 \/ (Len(choice) = 2 /\ choice[1] \notin {"0", "1", "2"})
MaxOf(choice) ==
  CASE choice[1] = "0" -> Maxima[1]
    [] choice[1] = "1" -> Maxima[2]
    [] choice[1] = "2" -> Maxima[3]
    [] OTHER           -> 0

CountsTo(i, max) ==
  IF i = max THEN Exit(<<>>, 0)
  ELSE Write(ece391_itoa(i + 1, 10) \o <<NL>>) /\ With("count", None, [i |-> i + 1, max |-> max])

Counter ==
  \/ At("counter", "start") /\ Write(<<"Enter the Test Number">>) /\ Goto("ask")
  \/ At("counter", "ask") /\ Read(0, BUFSIZE - 1, BUFSIZE - 1) /\ Silent /\ Goto("choice")
  \/ /\ At("counter", "choice")
     /\ CASE ret = -1                 -> Exit(<<"Can't read the number from keyboard.">>, 3)
          [] WrongChoice(String(buf)) -> Exit(<<"Wrong Choice!">>, 0)
          [] OTHER                    -> CountsTo(0, MaxOf(buf))
  \/ At("counter", "count") /\ CountsTo(Me.mem.i, Me.mem.max)

Testprint == At("testprint", "start") /\ Exit(<<"Hello, if this ran, the program was correct.">>, 0)

(* sigtest: the handlers are never installed, and the store through the    *)
(* null pointer is a page fault.                                           *)
Sigtest ==
  \/ At("sigtest", "start") /\ GetArgs(BUFSIZE, BUFSIZE) /\ Silent /\ Goto("args")
  \/ /\ At("sigtest", "args")
     /\ CASE ret # 0 -> Exit(<<"could not read argument">>, 3)
          [] ret = 0 /\ argbuf[0] = "1" ->
               Call(SYS_SET_HANDLER, 1, 0) /\ Prints(<<"Installing signal handlers">>) /\ Goto("alarm")
          [] OTHER   -> Write(<<"Hi, what's your name?">>) /\ Goto("ask")
  \/ At("sigtest", "alarm") /\ Call(SYS_SET_HANDLER, 2, 0) /\ Silent /\ Goto("hi")
  \/ At("sigtest", "hi") /\ Write(<<"Hi, what's your name?">>) /\ Goto("ask")
  \/ At("sigtest", "ask") /\ Read(0, BUFSIZE - 1, BUFSIZE - 1) /\ Silent /\ Goto("name")
  \/ /\ At("sigtest", "name")
     /\ IF ret = -1 THEN Exit(<<"Can't read name from keyboard.">>, 3) ELSE Crash

(* pingpong: the rate is written once, then a line after every interrupt   *)
(* of the clock, without end.  What the lines show is left out.            *)
Pingpong ==
  \/ At("pingpong", "start") /\ Open(RtcName) /\ Silent /\ Goto("opened")
  \/ At("pingpong", "opened") /\ Call(SYS_WRITE, ret, 4) /\ Silent /\ With("draw", ret, None)
  \/ At("pingpong", "draw") /\ Says(<<"line">>) /\ done' = None /\ Goto("wait")
  \/ At("pingpong", "wait") /\ Read(Me.fd, 4, 4) /\ Silent /\ Goto("draw")

----------------------------------------------------------------------------
(* grep: main reads the directory, do_one_file the files.  mem is the      *)
(* string, the descriptor of the directory, the name, and data and last of *)
(* do_one_file; data begins with what the stack held.                      *)
RoomWhole(last) == BUFSIZE
RoomLeft(last) == BUFSIZE - last

NextName(dir, mem) == Read(dir, SBUFSIZE - 1, SBUFSIZE - 1) /\ Silent /\ With("name", dir, mem)
ReadOn(fd, mem) ==
  Read(fd, RoomLeft(mem.last), BUFSIZE - mem.last) /\ With("data", fd, mem)

Found(fname, lines) == [k \in DOMAIN lines |-> [file |-> fname, text |-> lines[k]]]

Grep ==
  \/ At("grep", "start") /\ GetArgs(BUFSIZE, BUFSIZE) /\ Silent /\ Goto("args")
  \/ /\ At("grep", "args")
     /\ IF ret # 0 THEN Exit(<<"could not read argument">>, 3)
        ELSE /\ Open(Dot) /\ Silent
             /\ \E b \in StackBytes :
                  With("dir", None, [s |-> ArgString, dir |-> None, fname |-> <<>>, last |-> 0,
                                     data |-> [k \in DataIndices |-> b], stack |-> b])
  \/ /\ At("grep", "dir")
     /\ IF ret = -1 THEN Exit(<<"directory open failed">>, 2)
        ELSE NextName(ret, [Me.mem EXCEPT !.dir = ret])
  \/ /\ At("grep", "name")
     /\ CASE ret = 0       -> Exit(<<>>, 0)
          [] ret = -1      -> Exit(<<"directory entry read failed">>, 3)
          [] ret > 0 /\ buf[1] = "." -> NextName(Me.fd, Me.mem)
          [] OTHER         -> /\ Open(buf) /\ Silent
                              /\ With("opened", None, [Me.mem EXCEPT !.fname = buf])
  \/ /\ At("grep", "opened")
     /\ IF ret = -1 THEN Exit(<<"file open failed">>, 3)
        ELSE ReadOn(ret, [Me.mem EXCEPT !.last = 0]) /\ Silent
  \/ /\ At("grep", "data")
     /\ IF ret = -1 THEN Exit(<<"file read failed">>, 3)
        ELSE LET m == Me.mem
                 filled == [k \in DataIndices |->
                              IF k - m.last \in 0..(ret - 1) THEN buf[k - m.last + 1] ELSE m.data[k]]
                 pass == SearchLines(filled, m.last + ret, ret, m.s)
                 mem == [m EXCEPT !.data = pass.data, !.last = pass.last]
             IN /\ Prints(Found(m.fname, pass.lines))
                /\ IF ret # 0 THEN ReadOn(Me.fd, mem)
                   ELSE Call(SYS_CLOSE, Me.fd, 0) /\ With("closed", None, mem)
  \/ /\ At("grep", "closed")
     /\ IF ret = -1 THEN Exit(<<"file close failed">>, 3) ELSE NextName(Me.mem.dir, Me.mem)

----------------------------------------------------------------------------
(* syserr: the calls of its tests, as <<eax, ebx, ecx>>.  Each must return *)
(* -1; of the opens of test 3 exactly one must.                            *)
NEG_FD == -1073741823
BIG_FD == 1073741823

ReadWriteClose(fd) == << <<SYS_READ, fd, 31>>, <<SYS_WRITE, fd, 31>>, <<SYS_CLOSE, fd, 0>> >>
On(fds, eax) == [i \in DOMAIN fds |-> <<eax, fds[i], IF eax = SYS_CLOSE THEN 0 ELSE 31>>]
err_neg_fd == ReadWriteClose(NEG_FD)
err_big_fd == ReadWriteClose(BIG_FD)
err_open_lots == [k \in 1..7 |-> <<SYS_OPEN, Dot, 0>>] \o On([i \in 1..6 |-> i + 1], SYS_CLOSE)
err_open ==
  << <<SYS_OPEN, Append(HelloName, Last(HelloName)), 0>>, <<SYS_OPEN, Front(ShellName), 0>>,
     <<SYS_OPEN, <<>>, 0>> >>
err_unopened ==
  On([i \in 1..8 |-> i - 1], SYS_CLOSE) \o On([i \in 1..6 |-> i + 1], SYS_READ)
    \o On([i \in 1..6 |-> i + 1], SYS_WRITE)
err_vidmap == << <<SYS_VIDMAP, 0, 0>>, <<SYS_VIDMAP, 4, 0>> >>
err_stdin_out == << <<SYS_WRITE, 0, 31>>, <<SYS_READ, 1, 31>> >>
err_syscall_num == << <<BIG_FD, 0, 0>>, <<NEG_FD, 0, 0>>, <<0, 0, 0>> >>

Tests == << err_neg_fd, err_big_fd, err_open_lots, err_open, err_unopened, err_vidmap,
            err_stdin_out, err_syscall_num >>

(* The image the programs are made for: the names of directories begin     *)
(* with a dot and those of the clock and the frames do not; of the names   *)
(* syserr opens, "." is the directory and the others name nothing.  The    *)
(* table has the eight entries syserr counts.                              *)
ASSUME ImageNames ==
  /\ MAX_NUM_FDT_ENTRIES = 8
  /\ \A i \in 1..Len(fileDirectory) :
       fileDirectory[i].fileType = DIRECTORY_FILETYPE =>
         fileDirectory[i].fileName # <<>> /\ fileDirectory[i].fileName[1] = "."
  /\ \A name \in {RtcName, Frames[0], Frames[1]} :
       name \in Seq(Range(name)) /\ name # <<>> /\ name[1] # "."
  /\ LET d == read_dentry_by_name(Dot)
     IN d # ERROR_VAL /\ fileDirectory[d].fileType = DIRECTORY_FILETYPE
  /\ \A i \in DOMAIN err_open : read_dentry_by_name(err_open[i][2]) = ERROR_VAL
  /\ \A name \in {Dot} \cup {err_open[i][2] : i \in DOMAIN err_open} :
       ~IsPrefix(StdinName, name) /\ ~IsPrefix(StdoutName, name)

Passed(n, failures) == IF n = 3 THEN failures = 1 ELSE failures = Len(Tests[n])
Digit(c) == SelectInSeq(lookup, LAMBDA d : d = c) - 1

(* mem: the tests to come, the calls to come of the first one, how many of *)
(* its calls returned -1, and the sum of the results.                      *)
Asked(m) ==
  LET c == Head(m.calls) IN
  /\ Trap(c[1], c[2], c[3], IF c[1] = SYS_READ THEN 31 ELSE 0)
  /\ done' = None /\ Silent
  /\ With("asked", None, m)
TestBegins(tests, fail, all) ==
  Asked([tests |-> tests, calls |-> Tests[Head(tests)], failures |-> 0, fail |-> fail, all |-> all])

Syserr ==
  \/ At("syserr", "start") /\ Write(<<"Choose from tests 1-8">>) /\ Goto("ask")
  \/ At("syserr", "ask") /\ Read(0, BUFSIZE - 1, BUFSIZE - 1) /\ Silent /\ Goto("choice")
  \/ /\ At("syserr", "choice")
     /\ CASE ret = -1 -> Exit(<<"Can't read test #">>, 2)
          [] ret # -1 /\ Digit(buf[1]) = 0       -> TestBegins(<<1, 2, 3, 4, 5, 6, 7, 8>>, 0, TRUE)
          [] ret # -1 /\ Digit(buf[1]) \in 1..8 -> TestBegins(<<Digit(buf[1])>>, 0, FALSE)
          [] OTHER -> Exit(<<"Invalid test number">>, 0)
  \/ /\ At("syserr", "asked")
     /\ LET m == Me.mem
            n == Head(m.tests)
            counts == ret = -1 /\ (n = 3 => Head(m.calls)[1] = SYS_OPEN)
            next == [m EXCEPT !.calls = Tail(@), !.failures = @ + (IF counts THEN 1 ELSE 0)]
        IN IF next.calls # <<>> THEN Asked(next)
           ELSE LET result == IF Passed(n, next.failures) THEN 0 ELSE 2
                IN /\ Write(<<IF result = 0 THEN "PASS" ELSE "FAIL">>)
                   /\ With("tested", None, [next EXCEPT !.tests = Tail(@), !.fail = @ + result])
  \/ /\ At("syserr", "tested")
     /\ LET m == Me.mem IN
        CASE m.tests # <<>> -> TestBegins(m.tests, m.fail, m.all)
          [] m.tests = <<>> /\ m.all ->
               Exit(<<IF m.fail = 0 THEN "PASS" ELSE "FAIL">>, m.fail)
          [] OTHER          -> Exit(<<>>, m.fail)

----------------------------------------------------------------------------
(* fish: add_frames reads its two files side by side, a byte of each at a  *)
(* time, and adds a blinker for every place where one of them has a        *)
(* character; main then calls the clock and the blinkers (module Blink).   *)
(* What is in out is the calls of mp1_ioctl.                               *)
Blank == {" ", NL}
OtherAsRead(c) == c
Other(c) == IF c = NL THEN " " ELSE c
Zeros == [f \in 0..1 |-> "0"]

(* The next byte of frame f, unless its line is at its end; then that of   *)
(* the other frame.                                                        *)
FishRead ==
  LET m == Me.mem IN
  /\ At("fish", "read")
  /\ IF m.c[m.f] # NL THEN Read(m.fds[m.f], 1, 1) /\ Silent /\ Goto("got")
     ELSE Compute /\ Silent /\ With(IF m.f = 0 THEN "read" ELSE "both", Me.fd, [m EXCEPT !.f = 1 - @])
FishGot ==
  LET m == [Me.mem EXCEPT !.f = 1 - @]
      f == Me.mem.f
  IN /\ At("fish", "got")
     /\ Compute /\ Silent
     /\ With(IF f = 0 THEN "read" ELSE "both", Me.fd,
             IF ret = 0 THEN [m EXCEPT !.c[f] = NL, !.eof[f] = TRUE]
             ELSE [m EXCEPT !.c[f] = buf[1]])

(* At the end of both lines the frames that are at their end are closed,   *)
(* again for every further line of the other one.                          *)
FishBoth ==
  LET m == Me.mem IN
  /\ At("fish", "both")
  /\ Compute
  /\ IF m.c[0] = NL /\ m.c[1] = NL THEN Silent /\ Goto("end")
     ELSE /\ IF {m.c[0], m.c[1]} \subseteq Blank THEN Silent
             ELSE Prints(<<[add |-> m.row * COLS + m.col + OFFSET,
                            on |-> Other(m.c[0]), off |-> Other(m.c[1])]>>)
          /\ With("read", Me.fd, [m EXCEPT !.col = @ + 1])

FishEnd ==
  LET f == Me.mem.f
      m == [Me.mem EXCEPT !.f = 1 - f, !.c[f] = IF Me.mem.eof[f] THEN NL ELSE "0"]
  IN /\ At("fish", "end")
     /\ Silent
     /\ IF m.eof[f] THEN Call(SYS_CLOSE, m.fds[f], 0) ELSE Compute
     /\ IF f = 0 THEN With("end", Me.fd, m)
        ELSE With(IF m.eof[0] /\ m.eof[1] THEN "rate" ELSE "read", Me.fd,
                  [m EXCEPT !.row = @ + 1, !.col = 0])

(* The waits of main and what it does after each.                          *)
Ticks == <<WAIT, WAIT, WAIT, LASTWAIT>>
FishCalls ==
  << <<[add |-> 6 * COLS + 60, on |-> "I", off |-> "M"]>>,
     <<[sync |-> 40, to |-> 6 * COLS + 60]>>, <<[remove |-> WAIT]>>, <<>> >>

Fish ==
  \/ At("fish", "start") /\ Call(SYS_VIDMAP, 129, 0) /\ Silent /\ Goto("video")
  \/ /\ At("fish", "video")
     /\ IF ret = -1 THEN Exit(<<>>, -1) ELSE Open(RtcName) /\ Silent /\ Goto("rtc")
  \/ /\ At("fish", "rtc")
     /\ Open(Frames[0]) /\ Silent /\ With("frame0", ret, None)
  \/ /\ At("fish", "frame0")
     /\ IF ret < 0 THEN Exit(<<>>, -1)
        ELSE Open(Frames[1]) /\ Silent /\ With("frame1", Me.fd, [fd0 |-> ret])
  \/ /\ At("fish", "frame1")
     /\ IF ret < 0 THEN Exit(<<>>, -1)
        ELSE /\ Compute /\ Silent
             /\ With("read", Me.fd,
                     [f |-> 0, fds |-> [f \in 0..1 |-> IF f = 0 THEN Me.mem.fd0 ELSE ret], c |-> Zeros,
                      eof |-> [f \in 0..1 |-> FALSE], row |-> 0, col |-> 0])
  \/ FishRead \/ FishGot \/ FishBoth \/ FishEnd
  \/ /\ At("fish", "rate")
     /\ Call(SYS_WRITE, Me.fd, 4) /\ Silent /\ With("wait", Me.fd, [wait |-> 1, i |-> 0])
  \/ /\ At("fish", "wait")
     /\ LET m == Me.mem IN
        CASE m.wait > 4 -> Exit(<<>>, 0)
          [] m.wait <= 4 /\ m.i < Ticks[m.wait] ->
               Read(Me.fd, 4, 4) /\ Silent /\ With("wait", Me.fd, [m EXCEPT !.i = @ + 1])
          [] OTHER -> /\ Prints(FishCalls[m.wait])
                      /\ IF m.wait = 4 THEN Call(SYS_CLOSE, Me.fd, 0)
                         ELSE Compute
                      /\ With("wait", Me.fd, [wait |-> m.wait + 1, i |-> 0])

----------------------------------------------------------------------------
(* getargs, sigreturn, execute, halt and faults, in any order.  It opens,  *)
(* reads, writes, closes and maps nothing: module Files has these calls in *)
(* any order, module Screen vidmap.                                        *)
Arbitrary ==
  /\ At("any", "start")
  /\ \/ \E n \in {-1, ARG_SIZE} : GetArgs(n, ARG_SIZE) /\ Silent /\ Goto("start")
     \/ Call(SYS_SIGRETURN, 0, 0) /\ Silent /\ Goto("start")
     \/ \E command \in Commands : Exec(command, "start")
     \/ \E status \in Statuses : Exit(<<>>, status)
     \/ Crash

Step == \/ Shell \/ Cat \/ Ls \/ Hello \/ Counter \/ Testprint \/ Sigtest \/ Pingpong
        \/ Grep \/ Syserr \/ Fish \/ Arbitrary \/ Served

ProgramsSpec == ProgramsInit /\ [][Step]_allVars /\ []<><<Step>>_allVars

----------------------------------------------------------------------------
(* getargs gives every program its own arguments (module Args).            *)
GetsOwnArgs == A!GetsOwnArgs

(* The kernel never stores more than the array a program of the repository *)
(* passes can hold: not a directory entry, whose name is not cut to        *)
(* nbytes, and not the arguments, of which ARG_SIZE bytes are stored       *)
(* always.  No call of theirs uses an entry behind the table, which the    *)
(* tests of sys_read and sys_close let through.                            *)
BuffersHold ==
  call = <<>> => /\ Len(buf) <= room
                 /\ nbytes >= 0 => ARG_SIZE <= room
                 /\ index \in Entries

(* What a program that ended well should have written.                     *)
FileNamed(name) == fileDirectory[read_dentry_by_name(name)]
IsFile(name) ==
  /\ read_dentry_by_name(name) # ERROR_VAL
  /\ FileNamed(name).fileType = REGULAR_FILE_FILETYPE
TextOf(name) == FileContent(FileNamed(name).inodeNum)

(* The cells of a frame, blank beyond its lines.                           *)
FrameAt(f, row, col) ==
  LET lines == LinesOf(TextOf(Frames[f]))
  IN IF row + 1 \in DOMAIN lines /\ col + 1 \in DOMAIN lines[row + 1]
     THEN lines[row + 1][col + 1] ELSE " "
Drawn ==
  LET square(k, f) == FrameAt(f, k \div COLS, k % COLS)
      cells == SelectSeq([k \in 1..(COLS * COLS) |-> k - 1],
                         LAMBDA k : square(k, 0) # " " \/ square(k, 1) # " ")
  IN [i \in DOMAIN cells |->
        [add |-> cells[i] + OFFSET, on |-> square(cells[i], 0), off |-> square(cells[i], 1)]]

Value(digits) ==
  FoldLeft(LAMBDA n, d : 10 * n + Digit(d), 0, digits)
CountsUpTo(lines, max) ==
  Len(lines) = max /\ \A k \in 1..max : Value(lines[k]) = k /\ lines[k][1] # "0"

(* A program that has ended has written its answer, all of it and nothing  *)
(* else: cat the file named, in pieces of the buffer's size; ls the names; *)
(* hello the line typed; counter the numbers; fish has added a blinker for *)
(* every character of its two frames, read side by side and of different   *)
(* shapes.                                                                 *)
OutputIsAnswer ==
  done # None /\ done.how = "halted" =>
    LET args == A!Meaning(done.line) IN
    CASE done.prog = "cat" /\ args # <<>> /\ Len(args) < ARG_SIZE /\ IsFile(args) ->
           done.status = 0 /\ done.out = TextOf(args)
      [] done.prog = "ls" ->
           done.status = 0 /\ done.out = FlattenSeq([i \in DOMAIN AllNames |-> Append(AllNames[i], NL)])
      [] done.prog = "hello" ->
           \E line \in Lines :
             done.out = <<"Hi, what's your name?", "Hello, ">> \o CutLine(line, BUFSIZE - 1)
      [] done.prog = "counter" /\ Last(done.out) # "Wrong Choice!" ->
           CountsUpTo(LinesOf(Tail(done.out)), IF done.mem = None THEN 0 ELSE done.mem.max)
      [] done.prog = "fish" ->
           done.status = 0 /\ done.out = Drawn \o FlattenSeq(FishCalls)
      [] OTHER -> TRUE

(* grep prints, of every text file, the lines that contain the string,     *)
(* each once and in order, wherever the ends of its reads fall in a line;  *)
(* unless the stack held a newline just behind its buffer.                 *)
GrepPrintsMatches ==
  done # None /\ done.prog = "grep" /\ A!Meaning(done.line) # <<>> /\ done.mem.stack # NL =>
    LET s == SubSeq(A!Meaning(done.line), 1, Least(Len(A!Meaning(done.line)), ARG_SIZE - 1))
        searched(name) == IsFile(name) /\ Head(name) # "." /\ IsText(TextOf(name))
        names == SelectSeq(AllNames, searched)
    IN /\ done.status = 0
       /\ SelectSeq(done.out, LAMBDA r : searched(r.file))
            = FlattenSeq([i \in DOMAIN names |-> Found(names[i], LinesWith(TextOf(names[i]), s))])

(* Every test of syserr passes: calls with bad descriptors, names, numbers *)
(* and addresses fail, and the table holds exactly six files more than     *)
(* the terminal.                                                           *)
SyserrPasses ==
  done # None /\ done.prog = "syserr" =>
    done.status = 0 /\ \A i \in DOMAIN done.out : done.out[i] # "FAIL"

(* The shell tells how the program ended: not found, ended by an exception *)
(* or with a status whose low byte is not 0, whatever a program returns.   *)
ShellTells ==
  At("shell", "line") /\ done # None =>
    out[cur_pid] = CASE done.how = "refused"   -> <<"no such command">>
                     [] done.how = "exception" -> <<"program terminated by exception">>
                     [] done.how = "halted" /\ done.status % 256 = 0 -> <<>>
                     [] OTHER                  -> <<"program terminated abnormally">>

(* Every program whose loops are bounded by what it reads ends, and the    *)
(* one that started it goes on.  Left out are the programs that go on for  *)
(* ever: the shell, pingpong, and a cat that sys_open has given descriptor *)
(* 0, as it does for `cat stdin`.                                          *)
Ending == {"cat", "ls", "hello", "counter", "testprint", "sigtest", "grep", "syserr", "fish"}
CatsTerminal(p) == run[p].prog = "cat" /\ run[p].fd = 0
ProgramsEnd ==
  \A p \in 1..(Depth - 1) :
    (cur_pid = p /\ run[p].prog \in Ending) ~> (cur_pid # p \/ CatsTerminal(p))
=============================================================================
