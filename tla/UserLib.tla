------------------------------ MODULE UserLib -------------------------------
(***************************************************************************)
(* What the user programs share: the state of a program between its system *)
(* calls, the wrappers of ece391syscall.S and the functions of             *)
(* ece391support.c.                                                        *)
(*                                                                         *)
(* A program steps from one system call to the next: a step looks at what  *)
(* the last call returned, computes, and traps with the next call, which   *)
(* the kernel serves in a step of its own.  Writes to the terminal that    *)
(* follow one another are one call, and those before a halt part of it:    *)
(* the terminal shows them in this order (module Screen) and nothing else  *)
(* reads them.                                                             *)
(***************************************************************************)
EXTENDS Calls, TLC

CONSTANTS None, ProgramOf   \* ProgramOf[b]: the program whose image is ELF, b

NUL == "NUL"
NL  == "NL"

VARIABLES
  run,   \* per process: [prog, pc, fd, mem], a program, where it is, a descriptor
         \* and its other variables
  out,   \* per process: what it has written to the terminal
  call,  \* the system call being made: <<eax, ebx, ecx>>, <<>> in user mode
  room,  \* bytes of the array given to the last call, but for those kept for a NUL
  done   \* the program that has just ended or not started: [prog, line, out, status]

runVars == <<run, out, call, room, done>>
allVars == <<callVars, runVars>>

Me == run[cur_pid]
At(prog, pc) == call = <<>> /\ Me.prog = prog /\ Me.pc = pc

(* The program goes on at pc, with its descriptor and variables changed.   *)
With(pc, fd, mem) == run' = [run EXCEPT ![cur_pid] = [@ EXCEPT !.pc = pc, !.fd = fd, !.mem = mem]]
Goto(pc) == With(pc, Me.fd, Me.mem)

Silent == out' = out
Prints(bytes) == out' = [out EXCEPT ![cur_pid] = @ \o bytes]

Started(prog) == [prog |-> prog, pc |-> "start", fd |-> None, mem |-> None]

ProgramsInit ==
  /\ CallsInit
  /\ run = [p \in Processes |-> IF p = 0 THEN Started("shell") ELSE None]
  /\ out = [p \in Processes |-> <<>>]
  /\ call = <<>> /\ room = 0 /\ done = None

----------------------------------------------------------------------------
(* ece391_strlen, strcpy and fdputs stop at the first NUL.                 *)
String(bytes) ==
  LET i == SelectInSeq(bytes, LAMBDA b : b = NUL)
  IN IF i = 0 THEN bytes ELSE SubSeq(bytes, 1, i - 1)

lookup == <<"0", "1", "2", "3", "4", "5", "6", "7", "8", "9">>
ece391_itoa(value, radix) ==
  LET low[v \in 0..value] ==
        IF v = 0 THEN <<>> ELSE <<lookup[1 + (v % radix)]>> \o low[v \div radix]
  IN IF value = 0 THEN <<"0">> ELSE Reverse(low[value])

(* int 0x80.                                                               *)
Trap(eax, ebx, ecx, bytes) ==
  /\ call' = <<eax, ebx, ecx>>
  /\ room' = bytes
  /\ UNCHANGED callVars

(* Calls that fill an array of the program, ...                            *)
Read(fd, n, bytes) == Trap(SYS_READ, fd, n, bytes) /\ done' = None
GetArgs(n, bytes) == Trap(SYS_GETARGS, None, n, bytes) /\ done' = None

(* ... and calls that do not.                                              *)
Call(eax, ebx, ecx) == Trap(eax, ebx, ecx, 0) /\ done' = None
Open(name) == Call(SYS_OPEN, name, 0)
Write(bytes) == Call(SYS_WRITE, 1, Len(bytes)) /\ Prints(bytes)
Compute == UNCHANGED <<callVars, call, room>> /\ done' = None

(* ece391_execute, ece391_halt and the return from main.                   *)
Exec(command, pc) == Call(SYS_EXECUTE, command, 0) /\ Silent /\ Goto(pc)
Exit(bytes, status) == Call(SYS_HALT, status, 0) /\ Prints(bytes) /\ UNCHANGED run

ArgString == String([k \in 1..ARG_SIZE |-> argbuf[k - 1]])

----------------------------------------------------------------------------
(* The program has ended; if it is still the current one, it has been      *)
(* replaced by a new shell.                                                *)
Ended(how, status) ==
  /\ done' = [prog |-> Me.prog, line |-> typed[cur_pid], mem |-> Me.mem,
              out |-> out[cur_pid], how |-> how, status |-> status]
  /\ run' = [run EXCEPT ![cur_pid] = IF cur_pid' = cur_pid THEN Started("shell") ELSE None]
  /\ out' = [out EXCEPT ![cur_pid] = <<>>]

(* A fault in user mode.                                                   *)
Crash == Exception /\ Ended("exception", 0) /\ room' = 0 /\ call' = call

(* The program of that name has started, or the call has failed.           *)
ImageOf(command) ==
  LET d == read_dentry_by_name(A!fname(command))
  IN read_data(fileDirectory[d].inodeNum, 1, 1).buf[1]

Executed(command) ==
  \/ /\ cur_pid' # cur_pid
     /\ run' = [run EXCEPT ![cur_pid'] = Started(ProgramOf[ImageOf(command)])]
     /\ out' = [out EXCEPT ![cur_pid'] = <<>>]
     /\ done' = None
  \/ /\ cur_pid' = cur_pid
     /\ UNCHANGED <<run, out>>
     /\ done' = [prog |-> None, line |-> command, mem |-> None, out |-> <<>>,
                 how |-> "refused", status |-> 0]

(* The kernel serves the call.                                             *)
Served ==
  /\ call # <<>>
  /\ syscall(call[1], call[2], call[3])
  /\ call' = <<>> /\ room' = room
  /\ \/ call[1] = SYS_HALT /\ Ended("halted", call[2])
     \/ call[1] = SYS_EXECUTE /\ Executed(call[2])
     \/ call[1] \notin {SYS_HALT, SYS_EXECUTE} /\ UNCHANGED <<run, out, done>>
=============================================================================
