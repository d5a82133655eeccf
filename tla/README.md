# MarvelOS in TLA+

A verification project for MarvelOS: the 32-bit kernel under
`src/student-distrib/` (one CPU, three terminals, a timer-driven round-robin
scheduler, nested programs started with `execute` and ended with `halt`, a
read-only file system, a real-time clock driver, and a keyboard and screen
driver with three virtual terminals) and the programs that run on it, under
`src/syscalls/` and `src/fish/`.

The project consists of TLA+ modules that model the components of the kernel and
the programs, TLC configurations that check them on small instances, and proofs,
checked by TLAPS, of the properties that matter most, for every size of the system:
the scheduler and the process calls, the nesting of interrupt handlers, the line
buffers, the modifier keys, the clock driver, the descriptors and the file system,
the memory and string functions of `lib.c`, the screens, and what the system calls
hand to the programs and the shell says of them. `PROJECT.json` lists the components, the runs,
the mutants that show each property can fail, the source lines of every
definition, the hazards and the theorems.

    tlc -workers 2 -config SchedSafety.cfg MCSched     # one run
    for m in Sched Irq Screen Device Terminal Files Lib Programs; do tlapm ${m}Proofs.tla; done

## 1. Inventory

| Component | Source | State | Operations | Interacts with |
|---|---|---|---|---|
| Scheduler | `pit.c` | `curThread`, `shellStarted`, `PIDstore`, `ESPstore`, `EBPstore` | `PIThandler` (tick), `PITinit` | restores `cur_pid`, `fdt`, the program page, `tss.esp0`; calls `sys_execute("shell")` |
| Processes | `systemcall.c`, `systemcall_asm.S` | `PCB_ptrs`, `cur_pid`, `fdt`, `eax_val`, page directory entry 32, `tss.esp0` | `sys_execute`, `sys_halt` | scheduler, file system, exceptions |
| Exceptions | `idt_init.c` | `exception_flag` of a PCB | `eh0` .. `eh19` | `sys_halt(255)` |
| Boot | `kernel.c`, `boot.S` | all of the above | `entry` | enables interrupts before it has initialised everything |
| System call dispatch | `systemcall_asm.S`, `ece391syscall.S` | - | `syscall`, the wrappers of the programs | every call |
| Line buffer | `terminal.c` | `KBbuf`, `buf_loc`, `readWaiting`, `readReady` | `KBhandler`, `terminalOpen`, `terminalRead` | scheduler (preemption), screens |
| Modifier keys | `terminal.c` | seven flags | `KBhandler` | terminal switches, screens |
| Screens | `lib.c`, `systemcall.c`, `terminal.c` | four pages of video memory, `screen_x`, `screen_y`, VGA cursor, `user_page_table` | `putc`, `KBputc`, `clear`, `erase_char`, `switchTerminal`, `sys_vidmap` | line buffer, programs |
| Real-time clock | `RTC.c` | `RTC_read_flag`, chip registers A and C, index port | `RTCOpen`, `RTCRead`, `RTCWrite`, `RTChandler` | scheduler |
| File system | `filesystem.c` | the image (constant) | `read_dentry_by_name`, `read_dentry_by_index`, `read_data` | descriptors, `sys_execute` |
| Descriptors | `systemcall.c` | `process_fdt` of every PCB | `sys_open`, `sys_close`, `sys_read`, `sys_write`, `fileRead`, `directoryRead` | file system, terminal, clock |
| Paging | `paging.c` | page directory and tables | `init_paging`, `init_process_paging` | program page in Sched, video pages in Screen |
| Interrupt controller | `i8259.c` | masks, in-service bits | `enable_irq`, `disable_irq`, `send_eoi` | every handler |
| Program arguments | `systemcall.c` | `arg_ptr` of a PCB | parsing in `sys_execute`, `sys_getargs` | - |
| Signals | `systemcall.c` | - | `sys_sethandler`, `sys_sigreturn`, which only return -1 | - |
| Library | `lib.c` | - | `printf`, `itoa`, `mem*`, `str*` | all |
| User programs | `src/syscalls/`, `fish.c` | their local variables and arrays | shell, cat, ls, grep, hello, counter, testprint, sigtest, pingpong, syserr, fish | system calls |
| Blinkers | `blink.S`, `fish.c` | `blink_array`, `mp1_list_head`, the screen | `mp1_ioctl` (add, remove, find, sync), `mp1_rtc_tasklet` | fish, vidmap, clock |

### What is hard in this code

The system-call gate and the gates of the device interrupts are *trap* gates:
they leave interrupts enabled. The kernel therefore runs system calls, and the
keyboard and clock handlers, with the timer able to switch to another terminal
between any two instructions; only exceptions (interrupt gates) and the few
blocks between `cli` and `sti` are safe. There are no locks. Everything shared
is exposed: the globals that describe the running process, the process table,
`eax_val`, the clock's index and data port, the keyboard buffers, the put
locations of the screens. Secondly, the control flow is not structured:
`PIThandler` may start a shell instead of returning, `sys_halt` jumps into the
middle of an earlier `sys_execute` on another stack, and a halted base shell
spins until a tick replaces it. Thirdly there are the usual boundaries: pid -1
used as an index, full tables, the last descriptor, the ends of blocks and rows,
and in the programs the lines that a read cuts in two and the statuses that the
kernel cuts to a byte.
The list of hazards in `PROJECT.json` names them one by one.

What makes each component correct:

* *scheduler and processes*: in user mode the mapped frame, `cur_pid`, `fdt` and
  `tss.esp0` all belong to the running program; what is saved for a suspended
  thread belongs to it; the processes of a terminal form one chain whose end
  runs; no slot is handed out twice; a shell start finds a slot; every thread is
  scheduled, every call ends, a halted shell is replaced;
* *line buffer*: a read returns the line the user ended, the buffer is never
  left, Enter wakes the reader;
* *modifiers*: the flags say what is held down;
* *screens*: a terminal shows its own text, in order, and nothing else;
* *clock*: a read blocks until the next interrupt and then returns, a write takes
  effect;
* *interrupts*: a handler is not entered again before its EOI, no line stays in
  service without a handler, every request is served;
* *arguments and library*: a program gets its own arguments, copies are exact,
  `printf` prints what it should;
* *programs*: the kernel never stores beyond the arrays they pass, each writes its
  answer and nothing else, each that has an end to its input ends, and the shell tells
  how it ended;
* *blinkers*: the linked list in the array is a list, and each blinker blinks in
  its rhythm;
* *files*: a descriptor gives the bytes of its file in order, each once, and
  processes do not disturb one another's descriptors.

## 2. Modules

| Module | Models | Abstract specification | Instance |
|---|---|---|---|
| `Sched` | `PIThandler`, `sys_execute`, `sys_halt`, exceptions, end of `entry` | `ProcTree` | `MCSched` |
| `SchedInv` | the inductive invariant of `Sched` | | |
| `SchedProofs` | proofs about `Sched` | | |
| `Terminal` | line buffers: `KBhandler`, `terminalRead` | `LineDiscipline` | `MCTerminal` |
| `TerminalProofs` | proofs about `Terminal` | | |
| `Keyboard` | scan codes and modifier flags | | itself |
| `Screen` | video pages, echo, output, switches, vidmap | `Screens` | `MCScreen` |
| `ScreenProofs` | proofs about `Screen` | | |
| `RTC` | clock driver and chip | | `MCRTC` |
| `DeviceProofs` | proofs about `Keyboard` and `RTC` | | |
| `Files` | descriptors and file system | `FileStreams` | `MCFiles` |
| `FilesProofs` | proofs about `Files` | | |
| `Irq` | both 8259s, nesting of the interrupt handlers | | itself |
| `IrqProofs` | proofs about `Irq` | | |
| `Args` | parsing of commands, `sys_getargs` | | |
| `Calls` | the dispatcher; composes `Files` and `Args` into the system calls | | |
| `UserLib` | traps, `ece391support.c`, start and end of programs | | |
| `GrepSearch` | how grep looks through its array | its own reference | |
| `Programs` | the user programs, on `Calls` | | `MCPrograms` |
| `ProgramsProofs` | proofs about `Programs` and what it is composed of | | |
| `Blink` | the blinker library of fish | `Blinkers` | `MCBlink` |
| `Mem` | memory and string functions of `lib.c` | | |
| `Printf` | `printf` and `itoa` | | |
| `Lib` | `lib.c`: composes `Mem` and `Printf` | | `MCLib` |
| `LibProofs` | proofs about the part of `Lib` that is `Mem` | | |

### Sched

`Threads` are the terminals, `Pids` the slots of `PCB_ptrs`. A frame of physical
memory and a kernel stack are numbered like the pid they are computed from, so
`page_dir`, `esp0`, `kstack` and `image` hold pids; -1 (`NoPid`) is a legal
index there, because the code computes addresses from it: the frame of pid -1 is
the kernel's own 4 MB page. `image[f]` says whose program was last loaded into
frame `f`.

`pc[t]` is where thread `t` is: `off` (no shell yet), `user`, a point of
`sys_execute` (`exec_...`) or of `sys_halt` (`halt_...`), or a final loop (`spin`,
or `dead` with interrupts off). One action is one block of statements between
two such points. The points are placed wherever one of the shared globals has
been changed and another one not yet, so that a tick between any two statements
of the code has the effect of a tick at one of the points. A tick is
`TickStartCurrent`, `TickStartNext` or `TickSwitch`, the three paths of
`PIThandler`; the last part of the handler, after its EOI, is `TickResume`.

`TickPoints` is the set of kernel points where a tick may arrive, in addition to
user mode and the two idle loops. With all points allowed the kernel is wrong in
several ways (section 4). `SafePoints` are the six points at which a tick does no
harm, and the passing runs and the theorems are about this set: they say that
protecting the blocks between these points, and nothing else, makes the
scheduler correct. `EarlyExecute` lets programs call `execute` before all base
shells have started (a user would have to type within the first 84 ms), and
`BaseShellFaults` lets a base shell raise an exception. `eax_thread` is a history
variable: the thread whose `halt` or exception the shared `eax_val` comes from.

Some modules have history variables of this kind. The kernel is not protected against
ticks, repeated keys or keys typed ahead, and its promises are broken in some of these
cases. Where it is possible to say which state has been spoilt, the model lets
them happen at every statement and records it, and the properties promise the
rest, instead of leaving the cases out.

`ProcTree` is the promise: every terminal owns a chain of processes, `execute`
adds a free process at the end of a chain, `halt` takes the end away, and the CPU
runs only ends of chains. A process exists in `ProcTree` while its slot is
non-NULL; what runs is what the mapped frame holds.

### Terminal

`KBhandler` is one action per statement that changes a buffer (`KBstore`,
`KBadvance`, `KBready`, `KBflush`, `KBflushzero`, `KBerase`, `KBzero`), because a tick
may let a reader run in between. The two-dimensional array `KBbuf` is modelled
flat, so a store past the end of a row lands where it does in C. `terminalRead`
is `ReadCall` and, with interrupts off, `ReadCopy`. `TypeAhead` lets keys arrive
before the completed line has been read; the history variable `ahead` then keeps
the terminals on which Enter or Backspace was pressed on such a line, and `MaxStray`
bounds how far `buf_loc` may leave its row in the model. `LineDiscipline` is the
promise for users who wait; the refinement mapping counts a key as typed when its
last statement is done.

### Keyboard

One scan code is one step: a key is pressed, released, or repeats while it is held.
`held` is the truth about the keys, the flags are what `KBhandler` believes. The history variable
`inverted` has the modifiers of which an odd number of codes were miscounted: repetitions,
at each of which the flag toggles, and moves of a shift key under Ctrl or Alt,
which `KBhandler` swallows. `Taken`, the keys it takes for pressed, is `held` with these turned around.

### Screen

`video` holds the displayed page, the page behind it for every terminal, the put
locations and the cursor. The operators named like functions of `lib.c` map one
value of `video` to the next. An echo is five actions, one per statement of `KBputc`
(store, move on, wrap, go down, scroll), a switch two, and Ctrl-L clears in one step
and then echoes the buffer again character by character. Programs may print and draw
between any two of these steps. The history variable `mixed` keeps the displayed terminals
whose screen this has spoilt, until they are cleared. `Screens` is the promise: one grid and one position per
terminal; of a `spoilt` screen it promises nothing, but output can spoil only the screen that is displayed.

### RTC

One port access is one action. `PF` is the flag in register C that only a read
of C clears and without which the chip makes no further edge. The clock's interrupt
and the timer may come between any two accesses. Three history variables say what that
has done: `split` has the threads in `RTCWrite` that have lost the register they selected,
`torn` is set when one of them has written register A, and `missed` when the last
`RTChandler` read another register than C, so that the interrupt was not acknowledged.

### Files

A call is one step: by the theorems about `Sched` its table is that of the
calling process, and nothing else touches it. `read_data` is the copying loop as
a recursive function, block by block, and is compared with the file's contents
through the streams of `FileStreams`. The image has files that end at, before
and after a block boundary, blocks out of order, names of full and more than full
length, and one entry of unknown type.

### Irq

The masks and in-service bits of the two controllers, the requests of keyboard
and clock, and for every thread the handlers on its stack. A tick is one step,
since the timer's line has the highest priority and its EOI comes after the
thread has been changed. When a tick preempts a handler that runs over an endless loop
(`hlt` in `entry`, `while(1)` in `sys_halt`), `PIThandler` starts a shell and what is on the stack is left
for ever; the history variable `abandoned` keeps the interrupts whose handler was lost so
before its EOI. The other
modules rely on this one: a handler is never entered again before its EOI
(`NoReentry`), and only the timer preempts a handler on behalf of another thread.

### Args and Calls

A command is a sequence of characters; the loops of `sys_execute` over it are
operators that give the index where each loop stops. `Residue` is what the
uninitialised local `args` may hold. `typed` remembers the command, to compare
with what `getargs` gives. `Calls` puts `Files` and `Args` together behind the
dispatcher: `syscall(eax, ebx, ecx)` tests the number and is one of the ten calls,
each the conjunction of what it does in the two modules. `sys_halt` cuts the status
to a byte and adds the exception flag. One chain of processes is enough here: by
the theorems about `Sched` the terminals do not disturb one another.

### UserLib, GrepSearch and Programs

Every program is one action per stretch of its code between two system calls:
it looks at the last result (`ret`, `buf`, `argbuf`), computes, prints, and traps.
`Served` is the kernel's step; it also starts the program of an `execute` and
ends that of a `halt`. `run[p]` holds the place, the descriptor and the variables
of process `p`'s program, `out[p]` what it has written, `done` how the last program
ended, until the shell has told the user. `room` is the size of the array
passed to the last call, which the kernel does not know. The image of a program is
two bytes, the magic number and a letter that `ProgramOf` takes for the program.
`Arbitrary` is a program that asks for its arguments, executes anything, returns any status,
or crashes, in any order; it opens and reads nothing. `cat stdin` is a command like any
other: `sys_open` gives descriptor 0, and cat then copies lines for ever; of what it has written, `out` keeps the last line.
Of pingpong the model keeps its calls and not the layout of the lines it bounces.

`GrepSearch` is the inner loop of `do_one_file` as a function on the array; its
last part says what lines a text has and which contain a string. `fish` here is
`main` and `add_frames`, its `mp1_ioctl` calls recorded in `out`. (In passing: after the third
wait `main` sets `blink_struct.location = 60` and then removes the blinker at
location `i`, which is `WAIT`.)

### Blink

The array of structures, the pointers in it and the screen; the calls and the
tasklet are one step each, since fish has one thread. `Blinkers` is the promise:
a plain sequence of blinkers with an age and a state.

### Mem, Printf and Lib

`Mem` has the functions of `lib.c` as operators on a small memory, with the
direction flag as state that other code sets as it likes; the reference says
which byte each address must hold afterwards. `Printf` is the loop of `printf`
character by character; the reference is the comment above it, directive by
directive, with positional notation for the numbers. `Lib` puts the two together:
a caller makes one call at a time.

## 3. Passing runs

| Run | Instance | Shows |
|---|---|---|
| `sched_safety` | 3 terminals, 4 slots, ticks at `SafePoints`, faulting shells | `IndInv` and, following from it, that globals, frames, stacks and chains are consistent; `execute` returns the child's own status unless another thread has stored in `eax_val`; `Sched` implements `ProcTree` |
| `sched_live` | 2 terminals, 3 slots, `EarlyExecute` | every thread is scheduled, calls end, shells are replaced, even when a shell start fails in `PIThandler` |
| `terminal_line` | 2 terminals, buffers of 3, nothing typed on an ended line | line discipline, no store outside the buffer, Enter wakes the reader |
| `keyboard_keys` | 3 terminals, keys repeat | the flags follow the keys but for the miscounted codes, and keys do what the flags say |
| `rtc_driver` | 2 threads, 2 frequencies, interrupts and ticks between all accesses | writes take effect unless their register was lost; reads block until an interrupt and return, unless one was not acknowledged |
| `files_nested` | two nested processes, table of 3 | descriptors are streams, no process disturbs another's |
| `screen_shown` | 2 terminals of 2 x 2, output between all statements of `KBhandler` | every terminal that is not spoilt shows exactly its own text; locations come back to the screen, vidmap maps the own page |
| `irq_nesting` | 2 threads, 2 frames, ticks over all code | no handler is entered again before its EOI, lines in service belong to live handlers or abandoned ones, requests are served unless one of their own or a higher priority was abandoned |
| `programs` | 3 nested processes, 12 programs, 5 texts, 33 lines a user may type, arrays of 5, names of 2 and arguments of 3 bytes, 8 descriptors | a program gets its own arguments; no array is overrun; outputs are right; grep finds its lines; syserr passes; the shell tells how programs ended; programs end, but for `cat stdin` |
| `blink_list` | an array of 3, 2 locations, words of 3 bits | the blinker list implements `Blinkers` |
| `lib_calls` | 12 bytes, words of 4; 2 directives, 3 hexadecimal digits | fills and copies are exact, `strncmp` compares prefixes, every format prints what the comment says |

**Bounds.** Three terminals are the code's number. `MAX_PROCESSES` is 6 in the
code; 4 slots with 3 terminals is the least number with one slot to compete for,
and the theorems remove the bound. `sched_live` has the least number of slots with
one child and two shells, and early children can take them all; its ticks (`LiveTicks`)
leave out two of the `SafePoints`, the begin of `halt` and the return from `execute`, to
keep the graph small. Buffers of 3 hold an empty, a partial and a full line (Enter is
accepted in a full one); `ReadSizes` has a size below and one above a line. In
`Files` a block has 2 bytes and files have none, one and one and a half blocks, so reads
start and end at every position within a block; a table of 3 has one entry to
open, close and reuse in each of the two processes. A 2 x 2 screen reaches every wrap and scroll in
four characters; `VIEW Seen` drops from the states what is not looked at before it is overwritten. In `Programs` an array of 5 bytes and texts of 4 to 11 make reads
end within, at and before the end of a line; three processes are a shell, a shell
or an arbitrary program in it, and a program in that; the table has its real 8
entries, since syserr counts them; counter's greatest number has two digits. In `Blink` three structures
can be first, middle and last in the list and two of them at one place. `RTC` uses the least
frequency, that of `RTCOpen`, the greatest and four invalid ones; the theorem is about all. In `Irq`
two frames hold a handler and one that interrupts it; there are two devices, and
each can be in service once, so a third frame could only hold a finished handler.
Twelve bytes hold an unaligned head, a word and a tail, and a copy of them that
overlaps or not. Two directives show every pair of neighbours; a third meets the
same state as the second. `CHECK_DEADLOCK FALSE`
stands only where a base shell may fault, after which the kernel really stops.

**Fairness.** `Sched`: the boot code and `PIThandler` run on (weak fairness). The
PIC latches a tick until it is accepted, so a CPU that is interruptible again and
again takes one, and since shells halt only when their user types `exit`, not
every tick finds a shell that has just halted: strong fairness of the three paths
of a tick. A thread that is scheduled again and again executes kernel code in one
of its time slices of 28 ms: strong fairness of its kernel steps. User programs
need do nothing. `Terminal`: `KBhandler` ends, and by `EveryThreadScheduled` a
spinning reader gets to look at `readReady`. `RTC`: the chip runs, a latched
request is accepted, the scheduler ticks, the handler and a scheduled thread's
driver code go on. `Irq`: requests are latched until they are accepted, ticks as in
`Sched`, and a handler that again and again is on top of the running thread's stack
goes on, since keys and clock periods are far longer than handlers. `Programs`: some
program or the kernel always takes a further step (`[]<><<Step>>_allVars`; a step is
always enabled, so this is weak fairness of `Step`): by `EveryThreadScheduled` and
`CallsComplete` the terminal's thread goes on, by `EnterWakesReader` and `ReadReturns` reads of the
terminal and the clock return, for a user who types. Nothing is assumed of the
arbitrary program, and `ProgramsEnd` says nothing of it, of the shell, of pingpong or of `cat stdin`,
which `sys_open` gives descriptor 0 and which never ends: every read of the terminal
returns at least the newline.

## 4. Where the code departs from its comments

The passing runs state under which conditions, or with which exceptions, the code keeps its
promises. `sched_page_window` is kept as a run of its own, since it is the
reason for `SafePoints`: with a tick between mapping the new frame
(`systemcall.c:370`) and `cur_pid = pid` (line 382), the child is loaded over its
parent. `PROJECT.json` quotes the comment it contradicts.

The others are obtained from a passing run by the change given here, checking only
the property named; TLC then shows the behaviour described. "Without" means the property
without the exception that a history variable or a conjunct makes in it. In quotation marks
is the comment of the code that the behaviour contradicts.

| Run and change | Property | What happens |
|---|---|---|
| `sched_safety`, `PidTicks` | `SlotNotReused` | a tick between the search for a pid (`systemcall.c:315`) and the store of its PCB (line 373): two programs in one slot; "Find the next available process id" (line 314) |
| `sched_safety`, `Statuses = {0, 7}` | `StatusReachesParent` | a tick between halt and return: `execute` returns another program's status, since `eax_val` is one global; "only the low byte of EBX (the status argument) is returned to the calling task" (`ece391syscall.h:9`) |
| `sched_safety`, `HaltTicks` | `RunsOwnImage` | a tick between restoring the parent's page and `cur_pid = parents_pid`: the parent runs in the child's frame |
| `sched_safety`, `ShellTicks` | `KernelImageIntact` | a tick while `PIThandler` starts a shell with `cur_pid` -1: the shell is loaded over the kernel |
| `sched_safety`, `BootTicks` | `GlobalsDescribeProgram` | a tick between `sti` and the rest of `entry`: a shell starts before the file operations exist |
| `sched_live`, `BaseShellFaults` | deadlock | an exception in a base shell: the final loop runs with interrupts off, the system stops |
| `terminal_line`, `TypeAhead`, `MaxStray = 1` | `StoresInBounds` without `ahead` | repeated Enter before the reader runs: stores past the buffer; a read between Backspace's test for an empty line and its step back: a store before it |
| `terminal_line`, `TypeAhead`, `MaxStray = 2` | `ReadsOneLine` | Backspace on an ended line that nobody has read yet: the read returns zeros; "reads one line into the specified buffer, but reads less if the buffer gets filled" (`terminal.c:240`) |
| `keyboard_keys` | `FlagsShowButtons` | a held modifier repeats, or Shift is released under Ctrl or Alt: the flag is inverted for good; "Flags for indicating if various buttons are pressed" (`terminal.c:32`) |
| `rtc_driver` | `WriteSetsFrequency` | the clock's interrupt between select and data: the write is lost; "RTC device will start producing periodic interrupts at specified frequency(if valid)." (`RTC.c:40`) |
| `rtc_driver` | `ReadReturns` without `missed` | a tick between select and acknowledge: the clock falls silent |
| `files_nested`, `Fds <- AlsoAfter` | `DescriptorInTable` | the test is `fd > MAX_NUM_FDT_ENTRIES`: the entry after the table is used |
| `files_nested` | `ReadFitsBuffer` | a directory read ignores the size of the buffer |
| `screen_shown` | `PutcReachesTerminal` | a program prints in the middle of an echo or of a switch: the character is lost, or on the wrong terminal; "Output a character to the calling process's terminal" (`lib.c:291`) |
| `screen_shown` | `CursorAtLocation` | Backspace over the end of a row leaves the cursor behind |
| `irq_nesting` | `InServiceHasHandler` without `abandoned` | a tick preempts a handler over an endless loop: its EOI is never sent, the device is silent |
| `programs` | `GetsOwnArgs` without `args # <<>>` | a program without arguments gets what was on the kernel stack |
| `programs` | `GrepPrintsMatches` without `stack # NL` | grep looks at the byte behind those it has read: a newline there cuts a line in two |
| `blink_list`, a request and a location 0 | `ImplementsBlinkers` | the structure of the blinker counts as free and is used again |
| `blink_list`, a length of `WORD / 2` or more | `ImplementsBlinkers` | the countdown is compared as a signed word and expires at once |
| `blink_list` | `SyncShowsStatus` | `cmovl` after `testb` never moves: a synchronised blinker that is on shows its off character |

## 5. Proofs

A proof module extends the module of the component it is about. Where the code keeps its
promise only under a condition that the module has as a constant, the theorem has it as a
hypothesis; section 4 shows what happens without it. Where the module has
history variables the theorems have no hypothesis: the property itself says what was spoilt.

| Module | Theorems | Hypothesis |
|---|---|---|
| `SchedProofs` | see below | `SafeTiming`, but for `TypeCorrect` |
| `IrqProofs` | `NeverReentered` (`NoReentry`), `ServiceHasHandler` (`InServiceHasHandler`) | none |
| `ScreenProofs` | `LocationsStayOnScreen`, `VidmapShowsOwnScreen`, `ScreenImplementsScreens` | none |
| `TerminalProofs` | `StoresStayInBounds` | none |
| | `BuffersHoldLines`, `ReadsAreLines`, `TerminalImplementsDiscipline` | `~TypeAhead` |
| `DeviceProofs` | `FlagsFollowKeys`, `KeysDoWhatIsHeld`, `ReadBlocks`, `WritesTakeEffect` | none |
| `FilesProofs` | `FilesImplementStreams` | none |
| `LibProofs` | `CopiesAreExact`, `ComparesPrefixes` | none |
| `ProgramsProofs` | `ProgramsGetOwnArgs`, `ProgramsShellTells`, `ProgramsBuffersHold`, `ProgramsSyserrPasses` | none |

### The scheduler

`SchedProofs` is about every `NUM_THREADS >= 2`, `MAX_PROCESSES >= NUM_THREADS`,
every set of exit statuses up to 255 and both values of `BaseShellFaults`. The
condition `SafeTiming` (ticks at `SafePoints` only, no `EarlyExecute`) is a
hypothesis of every theorem but the first.

| Theorem | Statement |
|---|---|
| `TypeCorrect` | `SafetySpec => []TypeOK`, for all `TickPoints` |
| `IndInvHolds` | `SafeTiming => (SafetySpec => []IndInv)` |
| `OwnImage` | `... => []RunsOwnImage` |
| `GlobalsDescribe` | `... => []GlobalsDescribeProgram` |
| `SavedStack` | `... => []SavedStackOwned` |
| `OneChain` | `... => []OneChainPerTerminal` |
| `SlotFound` | `... => []ShellFindsSlot` |
| `Refinement` | `... => ImplementsProcTree` |
| `ExitStatus` | `... => []ExitStatusReturned` |

None of the invariants is inductive. A tick restores the frame, the descriptors
and the stack of a thread from `PIDstore`, so `RunsOwnImage` after a tick depends
on what was true when the thread was suspended, possibly in the middle of a
call; and `halt` returns to a parent that may have been suspended for a long
time, so its frame, stack and place in the chain must have been kept. `IndInv` says
what is true of a thread at each of its points:

* `InvSettled`: a thread that goes on in, or on behalf of, an existing program:
  the process on record for it (`Top`: `cur_pid` or `PIDstore`) is that program,
  it is the leaf of the thread's chain, and its frame, descriptors and stack are
  in place, or are what the next tick will put in place;
* `InvLoading`: a thread between `cur_pid = pid` and user mode: the same of the
  child, whose parent is the calling program, on whose stack the thread still is;
* `InvExclusive`: the blocks no tick may interrupt: only the running thread is in
  one, and the exact state of the globals at each of their points; a thread whose
  shell is being started has no base process and finds a slot;
* `InvProcess`: every process has its own frame and image, returns to its
  parent's stack, and has a living parent on its terminal that no one else has;
* `InvBoot`: while shells are being started, thread `t`'s shell is process `t`, so
  that a slot is left for every later one.

The proof has one lemma per action with one step per part; `Interrupted` says
what a tick finds, and `EarlierShells` what the boot phase guarantees. The
theorems about the other invariants follow from `IndInv`. For
`Refinement` a step that leaves the process table alone is a `Dispatch`
(`DispatchStep`: what runs afterwards is a leaf), `ExecAlloc` is a `Spawn`
(`SpawnStep`), and `HaltBase`, `HaltUnlink` and the exceptions are an `Exit`
(`ExitStep`).

For `ExitStatus` the invariant is `IndInv` with two more parts. `InvStatus`: while a thread is on
its way from `halt` to the return of `execute` and `eax_thread` is that thread, `eax_val` is
the status it carries; a tick on the way does not matter, a store by another thread ends the
promise. `InvFlags`: a process in use has no `exception_flag` of an earlier process
of its slot, except between its allocation and the assignment that clears it.

### Interrupts and screens

`IrqProofs` proves `NeverReentered`, `SafetySpec => []NoReentry`, for every
`NUM_THREADS >= 2` and every `MaxFrames`, wherever ticks arrive. `NoReentry`
is not inductive: a handler is entered when its line is not in service, which says
something about the stacks only with `LineHeld`, that the line of a handler
without EOI is in service. Conversely `send_eoi` releases the line of the handler on
top, and `LineHeld` survives because, by `NoReentry`, no other frame counts on that
line (`EoiStep`). A tick changes neither, whatever it leaves on a stack (`Keeps`,
`PopStep`). `InServiceHasHandler` (theorem `ServiceHasHandler`) is inductive
with the types: a handler that is entered holds the lines it sets (`EnterServes`), `send_eoi`
clears no line but those of the handler on top (`EoiServes`), a tick that changes
threads keeps every stack (`ServiceKeeps`), and one that starts a shell on a stack puts what it leaves
there into `abandoned`, and nothing of any other stack (`StartAbandons`).

`ScreenProofs` proves `LocationsStayOnScreen`, `SafetySpec => []LocationOnScreen`, and
`VidmapShowsOwnScreen`, `SafetySpec => []VidmapOwnScreen`, for every size of the
screen, number of terminals and size of the buffers, with output between any two statements
of `KBhandler`: the preemption that may put a character in the wrong place (section 4) never
leaves the next one off the screen. `LocationOnScreen` speaks of the moments between keys; `ScreenInv`
adds what holds within one. `RowsBelowLimit` and `ColumnsBelowLimit`: the row of the displayed terminal may
be the one below the screen, and its column the one to the right of it, at given statements of an echo and only there, because
a program's own `putc` in between wraps and scrolls (`CharKeepsRows`). The statements move
the location one by one (`MoveOnMoves`, `WrapMoves`, `GoDownMoves`). `CursorOnScreen` is about the statements
outside an echo, at whose end the cursor is set, after the scroll. `RoomForKey` keeps `buf_loc` in
its buffer, `LineToEcho` and `SwitchIsReal` say what a redraw and a switch rest on. There is one
lemma for each function of `lib.c` and one for each action; the products of rows and
columns, which are not linear, are confined to `RowCells`.

`ScreenImplementsScreens`, `SafetySpec => ImplementsScreens`, is for the same sizes and the same ticks.
A screen of `Screens` is one row of cells and a place in it; `gridBar` takes the page a
terminal is shown on as that row, `atBar` takes `screen_y * NUM_COLS + screen_x` as
the place, both as they will be at the end of an echo that is under way. The proof goes
function by function: `CharWritten` shows that a character with its advance and
scroll, wherever it falls, is one `Write` of the abstract screen (`AdvanceLocation` and
`ScrollConsole`, the wrap and the scroll, are where rows and the flat numbering meet),
`EraseCharErases` the same of an erasure, `ClearEmpties` and `RedrawnWrites` of a cleared
screen on which the line being typed is redrawn, an induction over that line (`Counting`). Then
every action is a step of `Screens` on one terminal that leaves the others alone
(`OneBecomes`) or a stutter (`NoneBecomes`); a switch copies pages and shows the
same texts, on another page (`switchTerminalIsShow`). What output does in the middle of a key
is in `PutcIsOutput` and `StoreVidmapIsDraw`: on the displayed terminal, or in a switch on either of the
two, it spoils the screen shown (`MaySpoil`) and nothing else, which has to be shown of the echo that
goes on afterwards (`OutputInEcho`); on any other terminal it is an ordinary `Output`, and
what is still to come of the echo is not changed by it (`PendingSame`, `PendingOthers`).

### Line buffers and keys

`TerminalProofs` is about every `BUF_SIZE >= 2`, every number of terminals, every set of
characters and of read sizes, with ticks between all statements of `KBhandler`.
`StoresStayInBounds` goes beyond the run: it is about users who type at any time, with any `MaxStray`. Its invariant `BoundInv`
says for a row that is not `ahead` that `buf_loc` is in it, or just behind it if the line
is ended (`RowBound`), and what `KBhandler` has tested when it stores or steps back
(`HandlerBound`); a read sets the location back, and the handler that a read has overlapped keeps its
terminal in `ahead`. The other three have the
hypothesis `~TypeAhead`: no key arrives between the end of a line and its read.
The properties speak of the moments between keys; the invariant `LineInv` says what a row of
`KBbuf` holds at every statement (`RowHoldsLine`: characters, then the newline if there
is one, then zeros, except the cell the handler has stored to and not yet counted, or
stepped back from and not yet cleared), that a line is ended only for a program that
waits (`EndedIsWanted`), and what each statement relies on (`HandlerReady`; a newline may
go into the last cell, a character may not). The array is flat, so that rows do not overlap
is a lemma about products (`CellOnce`). `TerminalImplementsDiscipline` maps the row, up to the key
that is still being handled, to the line of `LineDiscipline` (`lineBar`): the last statement of a key is the step,
the others are stutters, and `ReadCopy` takes what the discipline gives (`CopyIs`).

The first half of `DeviceProofs` is about all sequences of scan codes, repetitions included. `KeyInv`
is the two properties and the types of the flags: a code that `KBhandler` counts changes the flag
and `Taken` together, also a repetition (`CountedFlips`), and one it swallows changes neither,
although the key has moved (`LostKeeps`). What is done with a key depends on the flags, and so on `Taken`
(`DownMeansTaken`, `KeysAlone`).

### Clock

`ReadBlocks` holds for every number of threads and wherever interrupts and ticks come
between port accesses: only the handler lowers a flag that is waited for.
So does `WritesTakeEffect`. `PortInv` says that the index port selects register A between the two
accesses of a thread in `RTCWrite` that is not in `split`, that what such a thread has read from it has the
time base `DIV_32768`, and that the chip has it, as long as nothing is `torn`. Every other access to the
index port puts the threads whose selection it changes into `split`. What
`RTCWrite` computes by halving is the exponent of the frequency (`HalfIs`, `RateIs`).

### Descriptors and files

`FilesImplementStreams` is about every file system image that is well formed
(`ImageAssumption`: names no longer than their field, inodes and blocks that exist, blocks
of full size), every block size, table size, depth of nesting and set of buffer sizes. `FilesInv` says that
an open file is positioned within its content and the directory within its names
(`Positioned`); the mapping takes a descriptor to what remains to be read. The work is in
`read_data`. Its loop is a recursive function on states, of which the prover knows nothing
until some function is shown to satisfy the equation: `Iterate` gives the sequence of the states of
a loop, `CopyBlockKeeps` is the loop's invariant, and `CopyLoopIs` concludes
that the loop copies the bytes at the offset, wherever blocks begin. The inductions over the
number of rounds are over sets of numbers (`Counting`, from the well-foundedness of `<`).

### Memory and strings

`LibProofs` is about every size of memory, word and byte, every alignment, overlap, and
direction flag. `rep movs` and `rep stos` are recursive functions too (`Reps`, `MovsUp`,
`MovsDown`); `memcpy` and `memmove` are a head, words and a tail, and `CopiedJoin` and `Pieces`
put exact copies together, upwards or downwards so that what is still to be copied has
not been overwritten. For `strncmp` the loop stops at the first index where the strings
differ, one ends or `n` is reached (`StrncmpStops`), and `FirstDifference` relates this index to
the sets of pairs by which `ComparesPrefix` describes the strings.

### Programs

`ProgramsProofs` is about every image, block size, depth of nesting, size of
the arrays and of the argument buffer, every set of lines a user may type, and an arbitrary program with
any commands (without a NUL, `ArbitraryInputs`) and any statuses, which makes no other calls than
`getargs`, `sigreturn`, `execute` and `halt`. `GetsOwnArgs` and
`ShellTells` are not inductive: the first compares what `getargs` has copied with the line of
a process that may have been waiting for its children, the second what the shell
wrote with the end of a program two system calls earlier. `ProgramsInv` says of every state

* `Tables`: every process from the first shell to the current one has a program at one of its
  places, and a shell below the current one waits for its `execute`;
* `Terminals`: descriptor 0 is the terminal, so what a shell has read is a line;
* `Arguments`: the copy in every PCB is the parsed command, cut and filled as `strncpy` does, and
  what `getargs` has just returned is that copy of the current process;
* `Calling`: a pending `execute` has a string, a pending `halt` a number, and the calls of the shell
  are those of its places;
* `Telling`: after an `execute` the shell holds a result from which `Message` makes what `ShellTells`
  asks for, and then it has written that message.

A program's step is a step of one process that traps or computes (`GoesKeeps`, with one
lemma per program, `ShellGoes`, `CatGoes`, ..., to show it is of that kind); the kernel's
step is `ServedHalt`, `ServedExecute` or, for the calls that change neither the
process nor its arguments, `ServedOther`. `EndKeeps` and `CrashKeeps` are the two ends of a program, with the
cut of the status to a byte and 256 for an exception. These two theorems use nothing of the
files but `ImageAssumption`; that a program's image is that of its file plays no part.

`BuffersHold` and `SyserrPasses` depend on what the files are called and on the sizes of the
arrays. `ImageNames` says which image the programs are made for: names of directories begin
with a dot (which grep looks at) and those of the clock and of the frames of fish do not; `.` is
the directory; the other names syserr opens name nothing; and the table has the eight entries syserr
counts. `ProgramSizes` says that the small array (of ls and grep) holds a file name, and
that the large one holds the argument buffer and is no smaller than the small one. TLC evaluates both. The invariant is
`AllInv == ProgramsInv /\ FilesInv /\ HoldInv`, and `HoldInv` adds

* `Fits`: the pending call leaves room for what it stores (`FitsIn`), and the current program
  `Knows` at its place what makes the next calls fit. `ReaderKnows`: a descriptor it keeps is not
  that of the entry behind the table, the one number the kernel's test lets through; `GrepKnows`: it never reads a directory into what is left of its array, and `last`
  stays within the array; `FishKnows` and `DeviceKnows`: no directory is open; `SyserrKnows`: after
  `k` calls of test `n`, which entries are in use (`Used`) and how many calls have failed
  (`FailuresIn`);
* `Waiting`: only shells and the arbitrary program execute others, so of a program that waits for its
  children nothing need be known;
* `Writes`: syserr writes no message of failure and ends with 0, which is what `SyserrPasses`
  says of it once it has ended.

`ReadGives`, `OpenGives`, `CloseGives`, `WriteGives`, `CallGives`, `HaltGives` and
`ExecuteGives` say what the kernel gives back and what it does to the table; one
lemma per program (`LsHolds`, `GrepHolds`, ...) shows that its step keeps `Fits`; `BadFails` and
`LotsGives` are about the calls of syserr's tests; `EndHolds`, `ExecuteHolds` and `OtherHolds` are the
kernel's steps.

### Only model-checked

* all liveness properties: fairness and ENABLED are out of the prover's reach;
* `PrintsMeanings`: the digits of `itoa` by repeated division against powers of the
  radix, which the provers do not reason about, and a format that is a fold over sequences;
* `OutputIsAnswer` and `GrepPrintsMatches`: what a loop of a program has written after all its
  rounds, and the search of grep, which are inductions over the text;
* `ImplementsBlinkers`: the linked list is followed by recursion over pointers.

## 6. Not modelled

* of `lib.c`, `memset_word`, `memset_dword` and `test_interrupts`, and of `i8259.c`,
  `disable_irq`, which nothing calls; the registers that the dispatcher in
  `systemcall_asm.S` saves;
* static descriptor tables and multiboot parsing, which run once and change nothing
  later; the static mappings of `init_paging`;
* of sigtest, what follows its store through the null pointer, and its handlers:
  the kernel installs no handler, so nothing reaches them;
* `ece391emulate.c`, which runs the programs on a Linux host in place of the kernel;
* the tools `createfs` and `elfconvert`, which are binaries.

Abstractions worth knowing: attribute bytes and the wording of messages are left
out; in `Screen` an erasure and a clear are one step, and of the line buffers only
lengths are kept; in `Files` reads of stdin and of the clock only return; in
`Programs` what a message says is one symbol, and an address is its megabyte, and
of pingpong's lines only that they are written.

## 7. Plan

Done: the inventory; `Sched` with `ProcTree`; `Terminal`, `Keyboard`, `Screen`, `RTC`,
`Files` with their abstract specifications and runs; `Irq` and `Lib` with their runs; the
dispatcher, the composed system calls and all programs (`Calls`, `Programs`); `Blink` with
`Blinkers`; the proofs of section 5.

What would come next: `Irq` composed with `Sched`, the points where a handler may be
preempted as `TickPoints`, and the lost EOI as a consequence of `TickStartCurrent`.
