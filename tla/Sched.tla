------------------------------- MODULE Sched -------------------------------
(***************************************************************************)
(* Processes and the timer-driven scheduler of MarvelOS.                   *)
(*                                                                         *)
(* One CPU runs NUM_THREADS round-robin threads, one per terminal.  Each   *)
(* thread is a chain of processes: a base shell and the programs started   *)
(* with execute, of which only the last one runs.  The kernel keeps the    *)
(* running process in globals (cur_pid, fdt, page_directory[32], tss.esp0) *)
(* that PIThandler, sys_execute and sys_halt must keep consistent.         *)
(*                                                                         *)
(* The system-call gate is a trap gate (idt_init.c:359), so the kernel     *)
(* runs system calls with interrupts enabled and a timer tick may arrive   *)
(* between any two of their statements.  The points between the blocks of  *)
(* sys_execute and sys_halt are values of pc; TickPoints names the ones    *)
(* where a tick may land in addition to the ones where it always may.      *)
(* Exception gates are interrupt gates (idt_init.c:271): a halt caused by  *)
(* an exception is not interruptible.                                      *)
(***************************************************************************)
EXTENDS Integers

CONSTANTS
  NUM_THREADS,      \* terminals, each with one scheduled thread (lib.h:19)
  MAX_PROCESSES,    \* slots of PCB_ptrs (lib.h:14)
  Statuses,         \* the exit statuses user programs pass to halt
  TickPoints,       \* kernel points at which a tick may arrive
  EarlyExecute,     \* may a program call execute before all shells started?
  BaseShellFaults   \* may a base shell raise an exception?

ASSUME ThreadsAssumption == NUM_THREADS \in Nat /\ NUM_THREADS >= 2
ASSUME ProcessesAssumption == MAX_PROCESSES \in Nat /\ MAX_PROCESSES >= NUM_THREADS
ASSUME StatusesAssumption == Statuses \subseteq 0..255
ASSUME FlagsAssumption == EarlyExecute \in BOOLEAN /\ BaseShellFaults \in BOOLEAN

Threads == 0..(NUM_THREADS - 1)
Pids    == 0..(MAX_PROCESSES - 1)

(* -1 is "no process" for cur_pid and parent_pid.  Page frames and kernel  *)
(* stacks are computed from a pid (8MB + pid * 4MB, 8MB - pid * 8KB), so   *)
(* the frame and the stack numbered -1 exist too: they are kernel memory.  *)
NoPid  == -1
Index  == Pids \cup {NoPid}
None   == -2

(* Points of sys_execute, of sys_halt, and of a thread as a whole.         *)
ExecPoints == {"exec_start", "exec_pid", "exec_paged", "exec_alloc",
               "exec_cur", "exec_fdt", "exec_go", "exec_ret"}
HaltPoints == {"halt_begin", "halt_freed", "halt_paged", "halt_unlinked",
               "halt_cur"}
Points == {"off", "user", "spin", "dead"} \cup ExecPoints \cup HaltPoints

VARIABLES
  PCB_ptrs,         \* PCB_ptrs[p]: is the slot non-NULL?
  parent_pid, parent_terminal, pde, esp, exception_flag, \* fields of the PCBs
  cur_pid, curThread, shellStarted, fdt, eax_val,        \* kernel globals
  PIDstore, ESPstore,                                    \* saved by PIThandler
  page_dir,         \* frame that page_directory[PROCESS_PAGING_INDEX] maps
  esp0,             \* kernel stack that tss.esp0 points into
  image,            \* image[f]: process whose program was loaded in frame f
  fops,             \* are the fops tables filled in?
  boot,             \* entry(): "init" after sti, "idle" in hlt, "left"
  pitTail,          \* stack PIThandler runs on after the EOI, None outside it
  pc, prog, kstack, \* per thread: point, program in user mode, stack in use
  child, parents_pid, reg_esp, status, \* per thread: locals of the two calls
  eax_thread        \* history: the thread whose halt or exception eax_val is from

pcbs   == <<PCB_ptrs, parent_pid, parent_terminal, pde, esp, exception_flag>>
saves  == <<PIDstore, ESPstore>>
hw     == <<page_dir, esp0, image>>
locals == <<child, parents_pid, reg_esp, status>>
exits  == <<eax_val, eax_thread>>
vars   == <<pcbs, cur_pid, curThread, shellStarted, fdt, exits, saves, hw,
            fops, boot, pitTail, pc, prog, kstack, locals>>

----------------------------------------------------------------------------
(* State after sti() in entry(): PITinit has cleared shellStarted and      *)
(* curThread, everything else is zero-initialised memory.                  *)
Init ==
  /\ PCB_ptrs = [p \in Pids |-> FALSE]
  /\ parent_pid = [p \in Pids |-> NoPid]
  /\ parent_terminal = [p \in Pids |-> 0]
  /\ pde = [p \in Pids |-> NoPid]
  /\ esp = [p \in Pids |-> NoPid]
  /\ exception_flag = [p \in Pids |-> 0]
  /\ cur_pid = 0 /\ curThread = 0
  /\ shellStarted = [t \in Threads |-> 0]
  /\ fdt = NoPid /\ eax_val = 0 /\ eax_thread = None
  /\ PIDstore = [t \in Threads |-> 0]
  /\ ESPstore = [t \in Threads |-> NoPid]
  /\ page_dir = NoPid /\ esp0 = 0
  /\ image = [f \in Index |-> NoPid]
  /\ fops = FALSE /\ boot = "init" /\ pitTail = None
  /\ pc = [t \in Threads |-> "off"]
  /\ prog = [t \in Threads |-> NoPid]
  /\ kstack = [t \in Threads |-> 0]
  /\ child = [t \in Threads |-> NoPid]
  /\ parents_pid = [t \in Threads |-> NoPid]
  /\ reg_esp = [t \in Threads |-> NoPid]
  /\ status = [t \in Threads |-> 0]

(* The rest of entry(): initialize_fops, initialize_PCB_pointers and       *)
(* terminalOpen, after which the boot code only waits in hlt.              *)
FinishBoot ==
  /\ boot = "init"
  /\ boot' = "idle" /\ fops' = TRUE
  /\ cur_pid' = NoPid
  /\ PCB_ptrs' = [p \in Pids |-> FALSE]
  /\ UNCHANGED <<parent_pid, parent_terminal, pde, esp, exception_flag,
                 curThread, shellStarted, fdt, exits, saves, hw, pitTail,
                 pc, prog, kstack, locals>>

----------------------------------------------------------------------------
(* The CPU executes thread t: it is scheduled and PIThandler has moved to  *)
(* its stack.                                                              *)
Running(t) == t = curThread /\ pitTail = None

Goto(t, from, to) == Running(t) /\ pc[t] = from /\ pc' = [pc EXCEPT ![t] = to]

(* The locals of sys_execute and sys_halt die with their stack frames.     *)
DropLocals(t) ==
  /\ child' = [child EXCEPT ![t] = NoPid]
  /\ parents_pid' = [parents_pid EXCEPT ![t] = NoPid]
  /\ reg_esp' = [reg_esp EXCEPT ![t] = NoPid]
  /\ status' = [status EXCEPT ![t] = 0]

(* A system call or interrupt taken in user mode starts on tss.esp0.       *)
StackInUse == IF pitTail # None THEN pitTail
              ELSE IF pc[curThread] \in {"user", "off"} THEN esp0
              ELSE kstack[curThread]

(* sys_execute runs inside PIThandler, on behalf of no program.            *)
InPIThandler(t) == pc[t] \in ExecPoints /\ prog[t] = NoPid

(* Where the tick arrives, as the points are named in TickPoints.          *)
TickPoint ==
  IF boot # "left" THEN (IF boot = "init" THEN "boot" ELSE "idle")
  ELSE IF pitTail # None THEN "pit_tail"
  ELSE IF InPIThandler(curThread) THEN "pit_exec"
  ELSE pc[curThread]

(* User mode, the hlt of entry() and the final loop of sys_halt are always *)
(* interruptible; an exception's final loop never is.                      *)
Interruptible == TickPoint \in (TickPoints \cup {"idle", "user", "spin"}) \ {"dead"}

(* The number of the kernel stack whose top is 8MB - p * 8KB - 4, and of   *)
(* the page frame at 8MB + p * 4MB.                                        *)
StackOf(p) == p
FrameOneLow(p) == p - 1
FrameOf(p) == p

(* PCB_ptrs[p]->process_fdt, with p possibly -1 or PCB_ptrs[p] NULL.       *)
FdtOf(p) == IF p \in Pids /\ PCB_ptrs[p] THEN p ELSE NoPid

(* The globals a shell start sets before calling sys_execute("shell").     *)
BeginShell(t) ==
  /\ cur_pid' = NoPid
  /\ shellStarted' = [shellStarted EXCEPT ![t] = 1]
  /\ pc' = [pc EXCEPT ![t] = "exec_start"]
  /\ prog' = [prog EXCEPT ![t] = NoPid]
  /\ kstack' = [kstack EXCEPT ![t] = StackInUse]
  /\ boot' = "left" /\ pitTail' = None
  /\ DropLocals(t)
  /\ UNCHANGED <<pcbs, fdt, exits, hw, fops>>

(* PIThandler, first test: the current thread has no shell.                *)
TickStartCurrent ==
  /\ Interruptible
  /\ shellStarted[curThread] = 0
  /\ BeginShell(curThread)
  /\ UNCHANGED <<curThread, saves>>

NextThreadShort == (curThread + 1) % (NUM_THREADS - 1)
NextThread == (curThread + 1) % NUM_THREADS

SaveAfterSwitch ==
  /\ ESPstore' = [ESPstore EXCEPT ![NextThread] = StackInUse]
  /\ PIDstore' = [PIDstore EXCEPT ![NextThread] = cur_pid]
  /\ curThread' = NextThread

(* The stack and the pid of the interrupted thread are stored.             *)
SaveCurrent ==
  /\ ESPstore' = [ESPstore EXCEPT ![curThread] = StackInUse]
  /\ PIDstore' = [PIDstore EXCEPT ![curThread] = cur_pid]
  /\ curThread' = NextThread

(* PIThandler, second test: the next thread has no shell.                  *)
TickStartNext ==
  /\ Interruptible
  /\ shellStarted[curThread] # 0
  /\ SaveCurrent
  /\ shellStarted[NextThread] = 0
  /\ BeginShell(NextThread)

(* PIThandler up to the EOI: every global of the next thread is loaded but *)
(* the CPU is still on the stack of the previous one.                      *)
TickSwitch ==
  /\ Interruptible
  /\ shellStarted[curThread] # 0
  /\ SaveCurrent
  /\ shellStarted[NextThread] # 0
  /\ cur_pid' = PIDstore[NextThread]
  /\ fdt' = FdtOf(PIDstore[NextThread])
  /\ page_dir' = FrameOf(PIDstore[NextThread])
  /\ esp0' = StackOf(PIDstore[NextThread])
  /\ pitTail' = StackInUse
  /\ UNCHANGED <<pcbs, shellStarted, exits, image, fops, boot, pc, prog,
                 kstack, locals>>

(* PIThandler after the EOI: ESP and EBP of the next thread, then iret.    *)
TickResume ==
  /\ pitTail # None
  /\ pitTail' = None
  /\ kstack' = [kstack EXCEPT ![curThread] = ESPstore[curThread]]
  /\ UNCHANGED <<pcbs, cur_pid, curThread, shellStarted, fdt, exits, saves,
                 hw, fops, boot, pc, prog, locals>>

Tick == TickStartCurrent \/ TickStartNext \/ TickSwitch

----------------------------------------------------------------------------
(* The execute system call of a user program.                              *)
SysExecute(t) ==
  /\ Goto(t, "user", "exec_start")
  /\ EarlyExecute \/ \A u \in Threads : shellStarted[u] # 0
  /\ kstack' = [kstack EXCEPT ![t] = esp0]
  /\ UNCHANGED <<pcbs, cur_pid, curThread, shellStarted, fdt, exits, saves,
                 hw, fops, boot, pitTail, prog, locals>>

(* Slots that sys_execute may choose.                                      *)
FreePids == {p \in Pids : ~PCB_ptrs[p]}

(* The next available process id.                                          *)
ExecPick(t) ==
  /\ Goto(t, "exec_start", "exec_pid")
  /\ \E p \in FreePids :
       /\ \A q \in FreePids : p <= q
       /\ child' = [child EXCEPT ![t] = p]
  /\ UNCHANGED <<pcbs, cur_pid, curThread, shellStarted, fdt, exits, saves,
                 hw, fops, boot, pitTail, prog, kstack, parents_pid, reg_esp,
                 status>>

(* sys_execute returns -1 to the program that called it: no free slot, no  *)
(* such file, or not an executable.                                        *)
ExecFail(t) ==
  /\ \/ Goto(t, "exec_start", "user") /\ FreePids = {}
     \/ Goto(t, "exec_pid", "user")
  /\ prog[t] # NoPid
  /\ DropLocals(t)
  /\ UNCHANGED <<pcbs, cur_pid, curThread, shellStarted, fdt, exits, saves,
                 hw, fops, boot, pitTail, prog, kstack>>

PreviousThread == (curThread + NUM_THREADS - 1) % NUM_THREADS

(* sys_execute("shell") fails inside PIThandler for want of a slot:        *)
(* PIThandler returns into what it interrupted, which is the previous      *)
(* thread's code, with its locals, when the handler's frame is on the      *)
(* previous thread's stack, and the loop that ended sys_halt otherwise.    *)
ShellFail(t) ==
  LET u == PreviousThread IN
  /\ Running(t) /\ pc[t] = "exec_start" /\ prog[t] = NoPid
  /\ FreePids = {}
  /\ IF kstack[t] = ESPstore[u]
     THEN /\ pc' = [pc EXCEPT ![t] = pc[u]]
          /\ prog' = [prog EXCEPT ![t] = prog[u]]
          /\ child' = [child EXCEPT ![t] = child[u]]
          /\ parents_pid' = [parents_pid EXCEPT ![t] = parents_pid[u]]
          /\ reg_esp' = [reg_esp EXCEPT ![t] = reg_esp[u]]
          /\ status' = [status EXCEPT ![t] = status[u]]
     ELSE /\ pc' = [pc EXCEPT ![t] = "spin"]
          /\ UNCHANGED <<prog, locals>>
  /\ eax_thread' = IF eax_thread = t THEN None ELSE eax_thread
  /\ UNCHANGED <<pcbs, cur_pid, curThread, shellStarted, fdt, eax_val, saves,
                 hw, fops, boot, pitTail, kstack>>

(* The file is an executable; init_process_paging maps the new frame.      *)
ExecPaging(t) ==
  /\ Goto(t, "exec_pid", "exec_paged")
  /\ page_dir' = FrameOf(child[t])
  /\ UNCHANGED <<pcbs, cur_pid, curThread, shellStarted, fdt, exits, saves,
                 esp0, image, fops, boot, pitTail, prog, kstack, locals>>

(* The terminal of a new process: its parent's, or the one being started.  *)
FirstTerminal(p) == 0
TerminalOf(p) == IF p = NoPid THEN curThread ELSE parent_terminal[p]

(* The PCB is linked in, with its parent and its terminal.                 *)
ExecAlloc(t) ==
  /\ Goto(t, "exec_paged", "exec_alloc")
  /\ PCB_ptrs' = [PCB_ptrs EXCEPT ![child[t]] = TRUE]
  /\ parent_pid' = [parent_pid EXCEPT ![child[t]] = cur_pid]
  /\ parent_terminal' = [parent_terminal EXCEPT ![child[t]] = TerminalOf(cur_pid)]
  /\ UNCHANGED <<pde, esp, exception_flag, cur_pid, curThread, shellStarted,
                 fdt, exits, saves, hw, fops, boot, pitTail, prog, kstack,
                 locals>>

FlagKept(p) == exception_flag
FlagCleared(p) == [exception_flag EXCEPT ![p] = 0]

(* The new process becomes the current one.                                *)
ExecCur(t) ==
  /\ Goto(t, "exec_alloc", "exec_cur")
  /\ cur_pid' = child[t]
  /\ exception_flag' = FlagCleared(child[t])
  /\ UNCHANGED <<PCB_ptrs, parent_pid, parent_terminal, pde, esp, curThread,
                 shellStarted, fdt, exits, saves, hw, fops, boot, pitTail,
                 prog, kstack, locals>>

(* The PDE is recorded in the PCB and initialize_FDT selects the new fdt.  *)
ExecFdt(t) ==
  /\ Goto(t, "exec_cur", "exec_fdt")
  /\ pde' = [pde EXCEPT ![child[t]] = page_dir]
  /\ fdt' = child[t]
  /\ UNCHANGED <<PCB_ptrs, parent_pid, parent_terminal, esp, exception_flag,
                 cur_pid, curThread, shellStarted, exits, saves, hw, fops,
                 boot, pitTail, prog, kstack, locals>>

(* The program is copied to 0x08048000, that is into the mapped frame, and *)
(* the frame of this sys_execute is recorded for sys_halt to return to.    *)
(* read_data does not fail: it has read this inode from offset 0 already.  *)
ExecLoad(t) ==
  /\ Goto(t, "exec_fdt", "exec_go")
  /\ image' = [image EXCEPT ![page_dir] = child[t]]
  /\ esp0' = StackOf(child[t])
  /\ esp' = [esp EXCEPT ![child[t]] = kstack[t]]
  /\ UNCHANGED <<PCB_ptrs, parent_pid, parent_terminal, pde, exception_flag,
                 cur_pid, curThread, shellStarted, fdt, exits, saves,
                 page_dir, fops, boot, pitTail, prog, kstack, locals>>

(* switch_to_user_mode, with interrupts off up to the iret.                *)
ExecGo(t) ==
  /\ Goto(t, "exec_go", "user")
  /\ prog' = [prog EXCEPT ![t] = child[t]]
  /\ DropLocals(t)
  /\ UNCHANGED <<pcbs, cur_pid, curThread, shellStarted, fdt, exits, saves,
                 hw, fops, boot, pitTail, kstack>>

----------------------------------------------------------------------------
(* The halt system call up to the test for a base shell.                   *)
SysHalt(t, s) ==
  /\ cur_pid \in Pids
  /\ Goto(t, "user", "halt_begin")
  /\ kstack' = [kstack EXCEPT ![t] = esp0]
  /\ status' = [status EXCEPT ![t] = s]
  /\ eax_val' = s + exception_flag[cur_pid] /\ eax_thread' = t
  /\ fdt' = FdtOf(cur_pid)
  /\ child' = [child EXCEPT ![t] = cur_pid]
  /\ parents_pid' = [parents_pid EXCEPT ![t] = parent_pid[cur_pid]]
  /\ UNCHANGED <<pcbs, cur_pid, curThread, shellStarted, saves, hw, fops,
                 boot, pitTail, prog, reg_esp>>

(* PCB_ptrs once process p has given up its slot.                          *)
SlotKept(p) == PCB_ptrs
SlotFreed(p) == [PCB_ptrs EXCEPT ![p] = FALSE]

(* A base shell gives up its slot ...                                      *)
HaltBase(t) ==
  /\ Goto(t, "halt_begin", "halt_freed")
  /\ parents_pid[t] = NoPid
  /\ PCB_ptrs' = SlotFreed(child[t])
  /\ UNCHANGED <<parent_pid, parent_terminal, pde, esp, exception_flag,
                 cur_pid, curThread, shellStarted, fdt, exits, saves, hw,
                 fops, boot, pitTail, prog, kstack, locals>>

HaltSpinStarted(t) ==
  /\ Goto(t, "halt_freed", "spin")
  /\ DropLocals(t)
  /\ UNCHANGED <<pcbs, cur_pid, curThread, shellStarted, fdt, exits, saves,
                 hw, fops, boot, pitTail, prog, kstack>>

(* ... and asks the scheduler for a new shell, in a loop without end.      *)
HaltSpin(t) ==
  /\ Goto(t, "halt_freed", "spin")
  /\ shellStarted' = [shellStarted EXCEPT ![curThread] = 0]
  /\ DropLocals(t)
  /\ UNCHANGED <<pcbs, cur_pid, curThread, fdt, exits, saves, hw, fops,
                 boot, pitTail, prog, kstack>>

(* The page directory entry that process c restores when it halts, p being *)
(* its parent.                                                             *)
OwnPde(c, p) == pde[c]
ParentPde(c, p) == pde[p]

(* A child restores its parent's frame and file descriptors ...            *)
HaltPaging(t) ==
  /\ Goto(t, "halt_begin", "halt_paged")
  /\ parents_pid[t] # NoPid
  /\ reg_esp' = [reg_esp EXCEPT ![t] = esp[child[t]]]
  /\ page_dir' = ParentPde(child[t], parents_pid[t])
  /\ fdt' = FdtOf(parents_pid[t])
  /\ UNCHANGED <<pcbs, cur_pid, curThread, shellStarted, exits, saves, esp0,
                 image, fops, boot, pitTail, prog, kstack, child, parents_pid,
                 status>>

(* ... gives up its slot ...                                               *)
HaltUnlink(t) ==
  /\ Goto(t, "halt_paged", "halt_unlinked")
  /\ PCB_ptrs' = SlotFreed(child[t])
  /\ UNCHANGED <<parent_pid, parent_terminal, pde, esp, exception_flag,
                 cur_pid, curThread, shellStarted, fdt, exits, saves, hw,
                 fops, boot, pitTail, prog, kstack, locals>>

(* ... makes the parent current ...                                        *)
HaltCur(t) ==
  /\ Goto(t, "halt_unlinked", "halt_cur")
  /\ cur_pid' = parents_pid[t]
  /\ UNCHANGED <<pcbs, curThread, shellStarted, fdt, exits, saves, hw, fops,
                 boot, pitTail, prog, kstack, locals>>

(* ... and jumps into the parent's sys_execute, on the parent's stack.  A  *)
(* kernel stack is numbered like the process that enters the kernel on it. *)
HaltReturn(t) ==
  /\ Goto(t, "halt_cur", "exec_ret")
  /\ esp0' = StackOf(parents_pid[t])
  /\ prog' = [prog EXCEPT ![t] = reg_esp[t]]
  /\ kstack' = [kstack EXCEPT ![t] = reg_esp[t]]
  /\ UNCHANGED <<pcbs, cur_pid, curThread, shellStarted, fdt, exits, saves,
                 page_dir, image, fops, boot, pitTail, locals>>

(* jump_point: sys_execute returns to the parent, with eax_val in EAX.     *)
ExecReturn(t) ==
  /\ Goto(t, "exec_ret", "user")
  /\ DropLocals(t)
  /\ UNCHANGED <<pcbs, cur_pid, curThread, shellStarted, fdt, exits, saves,
                 hw, fops, boot, pitTail, prog, kstack>>

----------------------------------------------------------------------------
(* eh0 .. eh19 in a program: exception_flag, then sys_halt(255) with       *)
(* interrupts off, so the whole chain is one step.                         *)
ExceptionChild(t) ==
  /\ cur_pid \in Pids
  /\ parent_pid[cur_pid] \in Pids
  /\ Running(t) /\ pc[t] = "user"
  /\ exception_flag' = [exception_flag EXCEPT ![cur_pid] = 1]
  /\ eax_val' = 255 + 1 /\ eax_thread' = t
  /\ page_dir' = ParentPde(cur_pid, parent_pid[cur_pid])
  /\ fdt' = FdtOf(parent_pid[cur_pid])
  /\ PCB_ptrs' = SlotFreed(cur_pid)
  /\ cur_pid' = parent_pid[cur_pid]
  /\ esp0' = StackOf(parent_pid[cur_pid])
  /\ prog' = [prog EXCEPT ![t] = esp[cur_pid]]
  /\ UNCHANGED <<parent_pid, parent_terminal, pde, esp, curThread,
                 shellStarted, saves, image, fops, boot, pitTail, pc, kstack,
                 locals>>

(* The same in a base shell: the final loop runs with interrupts off.      *)
ExceptionBase(t) ==
  /\ BaseShellFaults
  /\ cur_pid \in Pids
  /\ parent_pid[cur_pid] = NoPid
  /\ Goto(t, "user", "dead")
  /\ exception_flag' = [exception_flag EXCEPT ![cur_pid] = 1]
  /\ eax_val' = 255 + 1 /\ eax_thread' = t
  /\ fdt' = FdtOf(cur_pid)
  /\ PCB_ptrs' = SlotFreed(cur_pid)
  /\ shellStarted' = [shellStarted EXCEPT ![curThread] = 0]
  /\ UNCHANGED <<parent_pid, parent_terminal, pde, esp, cur_pid, curThread,
                 saves, hw, fops, boot, pitTail, prog, kstack, locals>>

----------------------------------------------------------------------------
Exec(t) == ExecPick(t) \/ ExecFail(t) \/ ShellFail(t) \/ ExecPaging(t)
           \/ ExecAlloc(t) \/ ExecCur(t) \/ ExecFdt(t) \/ ExecLoad(t)
           \/ ExecGo(t) \/ ExecReturn(t)

Halt(t) == HaltBase(t) \/ HaltSpin(t) \/ HaltPaging(t) \/ HaltUnlink(t)
           \/ HaltCur(t) \/ HaltReturn(t)

KernelStep(t) == Exec(t) \/ Halt(t)

Program(t) == SysExecute(t) \/ (\E s \in Statuses : SysHalt(t, s))
              \/ ExceptionChild(t) \/ ExceptionBase(t)

Next == FinishBoot \/ Tick \/ TickResume
        \/ \E t \in Threads : KernelStep(t) \/ Program(t)

(* The boot code and the timer's handler always go on.  The PIC latches a  *)
(* tick until the CPU accepts it, so a CPU that is interruptible again and *)
(* again takes one; and as a shell exits only when its user types exit,    *)
(* not every tick finds a shell that has just halted (a tick that does     *)
(* restarts it and leaves the other threads waiting).  A thread scheduled  *)
(* again and again gets to execute kernel code in one of its time slices   *)
(* of 28 ms.                                                               *)
Fairness == /\ WF_vars(FinishBoot) /\ WF_vars(TickResume)
            /\ SF_vars(TickStartCurrent) /\ SF_vars(TickStartNext)
            /\ SF_vars(TickSwitch)
            /\ \A t \in Threads : SF_vars(KernelStep(t))

SafetySpec == Init /\ [][Next]_vars
Spec == SafetySpec /\ Fairness
----------------------------------------------------------------------------
(* Points at which a tick harms nothing, in addition to user mode and the  *)
(* two idle loops: cur_pid names the process whose frame, fdt and kernel   *)
(* stack the interrupted code goes on with, so TickSwitch restores them.   *)
SafePoints == {"exec_start", "exec_cur", "exec_fdt", "exec_go", "exec_ret",
               "halt_begin"}

InUser(t) == Running(t) /\ pc[t] = "user"

(* A thread's shell exists or is being started.                            *)
Started(t) == pc[t] \notin {"off", "spin", "dead"}

Live(t) == {p \in Pids : PCB_ptrs[p] /\ parent_terminal[p] = t}

(* Types of all variables.                                                 *)
TypeOK ==
  /\ PCB_ptrs \in [Pids -> BOOLEAN]
  /\ parent_pid \in [Pids -> Index]
  /\ parent_terminal \in [Pids -> Threads]
  /\ pde \in [Pids -> Index]
  /\ esp \in [Pids -> Index]
  /\ exception_flag \in [Pids -> {0, 1}]
  /\ cur_pid \in Index /\ curThread \in Threads
  /\ shellStarted \in [Threads -> {0, 1}]
  /\ fdt \in Index /\ eax_val \in 0..256
  /\ eax_thread \in Threads \cup {None}
  /\ PIDstore \in [Threads -> Index]
  /\ ESPstore \in [Threads -> Index]
  /\ page_dir \in Index /\ esp0 \in Index
  /\ image \in [Index -> Index]
  /\ fops \in BOOLEAN /\ boot \in {"init", "idle", "left"}
  /\ pitTail \in Index \cup {None}
  /\ pc \in [Threads -> Points]
  /\ prog \in [Threads -> Index]
  /\ kstack \in [Threads -> Index]
  /\ child \in [Threads -> Index]
  /\ parents_pid \in [Threads -> Index]
  /\ reg_esp \in [Threads -> Index]
  /\ status \in [Threads -> Statuses \cup {0}]

(* A program in user mode executes its own image, never the one a sibling  *)
(* or its child left in the page that PIThandler, sys_execute and sys_halt *)
(* map at 128 MB.                                                          *)
RunsOwnImage ==
  \A t \in Threads : InUser(t) =>
    page_dir = prog[t] /\ image[page_dir] = prog[t]

(* When a program is in user mode the kernel's globals all describe it:    *)
(* cur_pid and fdt (its system calls act on its own files), tss.esp0 (they *)
(* run on its own stack), and its PCB is linked in, on this terminal.      *)
GlobalsDescribeProgram ==
  \A t \in Threads : InUser(t) =>
    /\ fops
    /\ cur_pid = prog[t] /\ fdt = prog[t] /\ esp0 = prog[t]
    /\ PCB_ptrs[prog[t]]
    /\ parent_terminal[prog[t]] = t

(* What PIThandler saved for a suspended thread lies on the kernel stack   *)
(* of a process of that thread that still exists: no other thread can get  *)
(* that stack from sys_execute and overwrite the saved frame.              *)
SavedStackOwned ==
  \A t \in Threads : t # curThread /\ Started(t) =>
    /\ PIDstore[t] \in Live(t)
    /\ ESPstore[t] \in Live(t)

(* The processes of a terminal form one chain: a single base shell, every  *)
(* other process with a live parent on the same terminal, and no process   *)
(* with two live children.  Only the last one runs.                        *)
OneChainPerTerminal ==
  \A t \in Threads :
    /\ \A p, q \in Live(t) : parent_pid[p] = parent_pid[q] => p = q
    /\ \A p \in Live(t) : parent_pid[p] # NoPid => parent_pid[p] \in Live(t)
    /\ InUser(t) => \A p \in Live(t) : parent_pid[p] # prog[t]

(* A slot of PCB_ptrs that is in use is not handed out again: the process  *)
(* in it keeps its parent and terminal until sys_halt frees the slot.      *)
(* sys_execute looks for "the next available process id"                   *)
(* (systemcall.c:314) and links its PCB in at line 373.                    *)
SlotNotReused ==
  [][\A p \in Pids : PCB_ptrs[p] /\ PCB_ptrs'[p] =>
       /\ parent_pid'[p] = parent_pid[p]
       /\ parent_terminal'[p] = parent_terminal[p]]_vars

(* When the scheduler starts or restarts a shell there is a free slot,     *)
(* although PIThandler ignores a failure of sys_execute.                   *)
ShellFindsSlot ==
  \A t \in Threads :
    Running(t) /\ pc[t] = "exec_start" /\ prog[t] = NoPid => FreePids # {}

(* The kernel's own 4 MB page is never overwritten by a loaded program.    *)
KernelImageIntact == image[NoPid] = NoPid

(* execute returns to the parent the status its child passed to halt, with *)
(* no flag of an earlier process of the slot added to it and through any   *)
(* switch of threads, as long as no other thread has stored in the global  *)
(* eax_val on the way.                                                     *)
ExitStatusReturned ==
  \A t \in Threads :
    Running(t) /\ pc[t] = "exec_ret" /\ eax_thread = t => eax_val = status[t]

(* The same whatever the other terminals do: "the low byte of EBX (the     *)
(* status argument) is returned to the calling task"                       *)
(* (syscalls/ece391syscall.h:10).                                          *)
StatusReachesParent ==
  \A t \in Threads : Running(t) /\ pc[t] = "exec_ret" => eax_val = status[t]

(* Every terminal's thread is scheduled again and again.                   *)
EveryThreadScheduled == \A t \in Threads : []<>(Running(t))

(* A halted base shell is replaced by a new one.                           *)
ShellRestarted == \A t \in Threads : pc[t] = "spin" ~> pc[t] = "user"

(* execute and halt end, in a program running in user mode.                *)
CallsComplete ==
  \A t \in Threads : pc[t] \in ExecPoints \cup HaltPoints ~> pc[t] = "user"

(* The kernel implements the chains of ProcTree.  A process exists while   *)
(* its slot is non-NULL; what runs is what the frame mapped at 128 MB      *)
(* holds while the CPU is in user mode.                                    *)
ownerBar   == [p \in Pids |-> IF PCB_ptrs[p] THEN parent_terminal[p] ELSE None]
parentBar  == [p \in Pids |-> IF PCB_ptrs[p] THEN parent_pid[p] ELSE NoPid]
runningBar == IF boot = "left" /\ InUser(curThread) THEN image[page_dir] ELSE NoPid

Tree == INSTANCE ProcTree
          WITH owner <- ownerBar, parent <- parentBar, running <- runningBar

(* execute, halt, exceptions and the scheduler only ever extend a chain at *)
(* its end, take away its end, or run the program at its end.              *)
ImplementsProcTree == Tree!TreeSpec
=============================================================================
