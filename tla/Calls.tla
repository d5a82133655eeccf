------------------------------- MODULE Calls --------------------------------
(***************************************************************************)
(* The system calls as programs make them: the dispatcher, and the calls   *)
(* on files (module Files) and arguments (module Args) put together.       *)
(***************************************************************************)
EXTENDS Files

CONSTANTS
  FNAME_SIZE, ARG_SIZE,  \* sizes of the arrays of sys_execute
  ELF,                   \* the magic number of an executable, as one byte
  Residue                \* what an uninitialised args may hold

ASSUME ArgSizes == FNAME_SIZE \in Nat \ {0} /\ ARG_SIZE \in Nat \ {0}

(* The numbers of the calls.                                               *)
SYS_HALT        == 1
SYS_EXECUTE     == 2
SYS_READ        == 3
SYS_WRITE       == 4
SYS_OPEN        == 5
SYS_CLOSE       == 6
SYS_GETARGS     == 7
SYS_VIDMAP      == 8
SYS_SET_HANDLER == 9
SYS_SIGRETURN   == 10
MAX_SYSCALL_NUM == 10

(* sys_execute takes any file that begins with the magic number and is     *)
(* long enough to have a start address, whatever the type in its entry.    *)
IsExecutable(d) ==
  LET inode == fileDirectory[d].inodeNum
  IN read_data(inode, 0, 1).buf = <<ELF>> /\ read_data(inode, 1, 1).ret # ERROR_VAL
Executables ==
  {fileDirectory[d].fileName : d \in {e \in 1..Len(fileDirectory) : IsExecutable(e)}}

VARIABLES
  arg_ptr, typed, nbytes,  \* of module Args
  argbuf                   \* what the last getargs stored

callVars == <<vars, arg_ptr, typed, nbytes, argbuf>>

A == INSTANCE Args WITH buf <- argbuf

CallsInit == Init /\ A!Init

----------------------------------------------------------------------------
sys_execute(command) ==
  \/ Execute /\ A!Execute(command)
  \/ Fail /\ NoBuffer /\ NoEntry /\ A!ExecuteFails(command)

(* sys_halt: the parent gets the low byte of the status, and 1 more if     *)
(* there was an exception.  In place of a base shell a new one starts.     *)
WholeStatus(status) == status
LowByte(status) == status % 256

BaseOrChild == cur_pid <= 1
IsBase == cur_pid = 0

HaltAsBase ==
  /\ process_fdt' = [process_fdt EXCEPT ![cur_pid] = FreshTable]
  /\ ret' = 0 /\ buf' = <<>> /\ NoBuffer /\ NoEntry
  /\ A!OtherCall /\ UNCHANGED cur_pid

sys_halt(status, exception_flag) ==
  \/ ~IsBase /\ Halt(LowByte(status) + exception_flag) /\ A!Halt
  \/ IsBase /\ HaltAsBase

sys_getargs(n) == A!sys_getargs(n) /\ buf' = <<>> /\ NoBuffer /\ NoEntry /\ UNCHANGED process_fdt

(* A call that returns r and does no more.                                 *)
Just(r) == Return(r, <<>>) /\ NoBuffer /\ NoEntry /\ UNCHANGED process_fdt /\ A!OtherCall

(* sys_vidmap: the address, in megabytes, must be in the program's page.   *)
VidmapRefused(screen_start) ==
  screen_start = 0 \/ screen_start < 8 \/ screen_start < 128 \/ screen_start >= 132
sys_vidmap(screen_start) == Just(IF VidmapRefused(screen_start) THEN ERROR_VAL ELSE 0)

(* syscall: ja takes a negative number for a large one.                    *)
InvalidNumber(eax) == eax < 0 \/ eax > MAX_SYSCALL_NUM \/ eax = 0

syscall(eax, ebx, ecx) ==
  \/ InvalidNumber(eax) /\ Just(ERROR_VAL)
  \/ eax = SYS_HALT /\ sys_halt(ebx, 0)
  \/ eax = SYS_EXECUTE /\ sys_execute(ebx)
  \/ eax = SYS_READ /\ sys_read(ebx, ecx) /\ A!OtherCall
  \/ eax = SYS_WRITE /\ sys_write(ebx, ecx) /\ A!OtherCall
  \/ eax = SYS_OPEN /\ sys_open(ebx) /\ A!OtherCall
  \/ eax = SYS_CLOSE /\ sys_close(ebx) /\ A!OtherCall
  \/ eax = SYS_GETARGS /\ sys_getargs(ecx)
  \/ eax = SYS_VIDMAP /\ sys_vidmap(ebx)
  \/ eax \in {SYS_SET_HANDLER, SYS_SIGRETURN} /\ Just(ERROR_VAL)

(* A page fault or another exception halts the program: 255, and the flag. *)
Exception == sys_halt(255, 1)
=============================================================================
