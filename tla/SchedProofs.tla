---------------------------- MODULE SchedProofs -----------------------------
(***************************************************************************)
(* Proofs about Sched: types, the inductive invariant IndInv of SchedInv,  *)
(* the safety properties that follow from it, and the refinement of        *)
(* ProcTree.                                                               *)
(***************************************************************************)
EXTENDS SchedInv, TLAPS

USE DEF NoPid, None

(* The successor of a thread in the round-robin order.                     *)
LEMMA NextThreadIs ==
  ASSUME curThread \in Threads
  PROVE  /\ NextThread \in Threads
         /\ NextThread # curThread
         /\ curThread < NUM_THREADS - 1 => NextThread = curThread + 1
         /\ curThread = NUM_THREADS - 1 => NextThread = 0
<1>1. /\ NUM_THREADS \in Nat /\ NUM_THREADS >= 2
      /\ curThread \in 0..(NUM_THREADS - 1)
  BY ThreadsAssumption DEF Threads
<1>2. CASE curThread < NUM_THREADS - 1
  <2>1. (curThread + 1) % NUM_THREADS = curThread + 1
    BY <1>1, <1>2
  <2> QED  BY <1>1, <1>2, <2>1 DEF NextThread, Threads
<1>3. CASE curThread = NUM_THREADS - 1
  <2>1. (curThread + 1) % NUM_THREADS = 0
    BY <1>1, <1>3
  <2> QED  BY <1>1, <1>3, <2>1 DEF NextThread, Threads
<1> QED  BY <1>1, <1>2, <1>3

(* The thread PIThandler came from is a thread.                            *)
LEMMA PreviousThreadIs ==
  ASSUME curThread \in Threads
  PROVE  PreviousThread \in Threads
<1>1. /\ NUM_THREADS \in Nat /\ NUM_THREADS >= 2
      /\ curThread \in 0..(NUM_THREADS - 1)
  BY ThreadsAssumption DEF Threads
<1> QED  BY <1>1 DEF PreviousThread, Threads

(* What the proofs need of the index sets.                                 *)
LEMMA ConstantFacts ==
  /\ NoPid \notin Pids /\ None \notin Pids
  /\ 0 \in Pids /\ 0 \in Threads
  /\ Threads \subseteq Pids /\ Pids \subseteq Nat
BY ThreadsAssumption, ProcessesAssumption DEF Threads, Pids

(* The types are inductive whatever points ticks arrive at.                *)
LEMMA TypeIndStep == TypeInd /\ [Next]_vars => TypeInd'
<1> SUFFICES ASSUME TypeInd, [Next]_vars PROVE TypeInd'
  OBVIOUS
<1> USE ConstantFacts
<1> USE DEF Index, Points, ExecPoints, HaltPoints, pcbs, exits, saves, hw, locals
<1>1. CASE FinishBoot
  BY <1>1 DEF FinishBoot, TypeInd, TypeOK
<1>2. CASE TickStartCurrent
  BY <1>2
     DEF TickStartCurrent, BeginShell, DropLocals, StackInUse, TypeInd, TypeOK
<1>3. CASE TickStartNext
  BY <1>3, NextThreadIs
     DEF TickStartNext, BeginShell, DropLocals, StackInUse, SaveCurrent,
         TypeInd, TypeOK
<1>4. CASE TickSwitch
  BY <1>4, NextThreadIs
     DEF TickSwitch, SaveCurrent, StackInUse, FdtOf, FrameOf, StackOf, TypeInd,
         TypeOK
<1>5. CASE TickResume
  BY <1>5 DEF TickResume, TypeInd, TypeOK
<1>6. ASSUME NEW t \in Threads, SysExecute(t) PROVE TypeInd'
  BY <1>6 DEF SysExecute, Goto, Running, TypeInd, TypeOK
<1>7. ASSUME NEW t \in Threads, ExecPick(t) PROVE TypeInd'
  BY <1>7 DEF ExecPick, Goto, Running, FreePids, TypeInd, TypeOK
<1>8. ASSUME NEW t \in Threads, ExecFail(t) PROVE TypeInd'
  BY <1>8 DEF ExecFail, Goto, Running, DropLocals, TypeInd, TypeOK
<1>9. ASSUME NEW t \in Threads, ShellFail(t) PROVE TypeInd'
  <2>1. PreviousThread \in Threads
    BY PreviousThreadIs DEF TypeInd, TypeOK
  <2>2. CASE kstack[t] = ESPstore[PreviousThread]
    BY <1>9, <2>1, <2>2 DEF ShellFail, Running, TypeInd, TypeOK
  <2>3. CASE kstack[t] # ESPstore[PreviousThread]
    BY <1>9, <2>3 DEF ShellFail, Running, TypeInd, TypeOK
  <2> QED  BY <2>2, <2>3
<1>10. ASSUME NEW t \in Threads, ExecPaging(t) PROVE TypeInd'
  BY <1>10 DEF ExecPaging, Goto, Running, FrameOf, TypeInd, TypeOK
<1>11. ASSUME NEW t \in Threads, ExecAlloc(t) PROVE TypeInd'
  BY <1>11 DEF ExecAlloc, Goto, Running, TerminalOf, TypeInd, TypeOK
<1>12. ASSUME NEW t \in Threads, ExecCur(t) PROVE TypeInd'
  BY <1>12 DEF ExecCur, Goto, Running, FlagCleared, TypeInd, TypeOK
<1>13. ASSUME NEW t \in Threads, ExecFdt(t) PROVE TypeInd'
  BY <1>13 DEF ExecFdt, Goto, Running, TypeInd, TypeOK
<1>14. ASSUME NEW t \in Threads, ExecLoad(t) PROVE TypeInd'
  BY <1>14 DEF ExecLoad, Goto, Running, StackOf, TypeInd, TypeOK
<1>15. ASSUME NEW t \in Threads, ExecGo(t) PROVE TypeInd'
  BY <1>15 DEF ExecGo, Goto, Running, DropLocals, TypeInd, TypeOK
<1>16. ASSUME NEW t \in Threads, ExecReturn(t) PROVE TypeInd'
  BY <1>16 DEF ExecReturn, Goto, Running, DropLocals, TypeInd, TypeOK
<1>17. ASSUME NEW t \in Threads, NEW s \in Statuses, SysHalt(t, s)
       PROVE  TypeInd'
  <2>1. s \in 0..255
    BY StatusesAssumption
  <2>2. exception_flag[cur_pid] \in {0, 1}
    BY <1>17 DEF SysHalt, TypeInd, TypeOK
  <2>3. s + exception_flag[cur_pid] \in 0..256
    BY <2>1, <2>2
  <2> QED  BY <1>17, <2>3 DEF SysHalt, Goto, Running, FdtOf, TypeInd, TypeOK
<1>18. ASSUME NEW t \in Threads, HaltBase(t) PROVE TypeInd'
  BY <1>18 DEF HaltBase, Goto, Running, SlotFreed, TypeInd, TypeOK
<1>19. ASSUME NEW t \in Threads, HaltSpin(t) PROVE TypeInd'
  BY <1>19 DEF HaltSpin, Goto, Running, DropLocals, TypeInd, TypeOK
<1>20. ASSUME NEW t \in Threads, HaltPaging(t) PROVE TypeInd'
  BY <1>20 DEF HaltPaging, Goto, Running, FdtOf, ParentPde, TypeInd, TypeOK
<1>21. ASSUME NEW t \in Threads, HaltUnlink(t) PROVE TypeInd'
  BY <1>21 DEF HaltUnlink, Goto, Running, SlotFreed, TypeInd, TypeOK
<1>22. ASSUME NEW t \in Threads, HaltCur(t) PROVE TypeInd'
  BY <1>22 DEF HaltCur, Goto, Running, TypeInd, TypeOK
<1>23. ASSUME NEW t \in Threads, HaltReturn(t) PROVE TypeInd'
  BY <1>23 DEF HaltReturn, Goto, Running, StackOf, TypeInd, TypeOK
<1>24. ASSUME NEW t \in Threads, ExceptionChild(t) PROVE TypeInd'
  BY <1>24
     DEF ExceptionChild, Running, SlotFreed, FdtOf, StackOf, ParentPde, TypeInd,
         TypeOK
<1>25. ASSUME NEW t \in Threads, ExceptionBase(t) PROVE TypeInd'
  BY <1>25 DEF ExceptionBase, Goto, Running, SlotFreed, FdtOf, TypeInd, TypeOK
<1>26. CASE UNCHANGED vars
  BY <1>26 DEF vars, TypeInd, TypeOK
<1> QED
  BY <1>1, <1>2, <1>3, <1>4, <1>5, <1>6, <1>7, <1>8, <1>9, <1>10, <1>11, <1>12,
     <1>13, <1>14, <1>15, <1>16, <1>17, <1>18, <1>19, <1>20, <1>21, <1>22,
     <1>23, <1>24, <1>25, <1>26
     DEF Next, Tick, KernelStep, Exec, Halt, Program

(* Every variable keeps its type, wherever ticks arrive.                   *)
THEOREM TypeCorrect == SafetySpec => []TypeOK
<1>1. ASSUME Init PROVE TypeInd
  <2>1. PCB_ptrs \in [Pids -> BOOLEAN] /\ fops \in BOOLEAN
    BY <1>1, Zenon DEF Init
  <2>2. TypeOK
    BY <1>1, <2>1, ConstantFacts DEF Init, TypeOK, Index, Points
  <2>3. \A t \in Threads : pc[t] \notin HaltPoints
    BY <1>1 DEF Init, HaltPoints
  <2> QED  BY <2>2, <2>3 DEF TypeInd
<1>2. TypeInd => TypeOK
  BY DEF TypeInd
<1> QED  BY <1>1, <1>2, TypeIndStep, PTL DEF SafetySpec


(* A tick finds the CPU in the idle loop, in the loop of a halted shell,   *)
(* or in code whose kernel stack is that of an existing program.           *)
LEMMA Interrupted ==
  ASSUME SafeTiming, IndInv, Interruptible
  PROVE  /\ pitTail = None /\ boot # "init"
         /\ boot = "left" => pc[curThread] \in SafePoints \cup {"user", "spin"}
         /\ boot = "left" /\ pc[curThread] # "spin" =>
               prog[curThread] # NoPid /\ StackInUse = prog[curThread]
<1>1. pitTail = None /\ boot # "init"
  BY DEF SafeTiming, SafePoints, IndInv, InvBoot, Interruptible, TickPoint
<1>2. ASSUME boot = "left"
      PROVE  /\ pc[curThread] \in SafePoints \cup {"user", "spin"}
             /\ ~InPIThandler(curThread)
  <2>1. TickPoint \in SafePoints \cup {"idle", "user", "spin"}
    BY DEF SafeTiming, Interruptible
  <2>2. ~InPIThandler(curThread)
    BY <1>1, <1>2, <2>1 DEF TickPoint, SafePoints
  <2>3. pc[curThread] = TickPoint /\ pc[curThread] # "idle"
    BY <1>1, <1>2, <2>2
       DEF TickPoint, IndInv, TypeOK, Points, ExecPoints, HaltPoints
  <2> QED  BY <2>1, <2>2, <2>3
<1>3. ASSUME boot = "left", pc[curThread] # "spin"
      PROVE  prog[curThread] # NoPid /\ StackInUse = prog[curThread]
  <2>1. curThread \in Threads
    BY DEF IndInv, TypeOK
  <2>2. CASE pc[curThread] = "user"
    BY <1>1, <2>1, <2>2, ConstantFacts
       DEF IndInv, InvSettled, Settled, LeafOf, StackInUse
  <2>3. CASE pc[curThread] \in {"exec_ret", "halt_begin"}
    BY <1>1, <2>1, <2>3, ConstantFacts
       DEF IndInv, InvSettled, Settled, LeafOf, StackInUse, Running
  <2>4. CASE pc[curThread] \in {"exec_start", "exec_cur", "exec_fdt", "exec_go"}
    BY <1>1, <1>2, <1>3, <2>1, <2>4, ConstantFacts
       DEF IndInv, InvSettled, InvLoading, Settled, LeafOf, StackInUse, Running,
           InPIThandler, ExecPoints
  <2> QED  BY <1>2, <1>3, <2>2, <2>3, <2>4 DEF SafePoints
<1> QED  BY <1>1, <1>2, <1>3

(* While shells are being started, those of the earlier threads exist.     *)
LEMMA EarlierShells ==
  ASSUME IndInv, boot = "left", NEW o \in Threads, pc[o] = "off",
         NEW u \in Threads, u < curThread
  PROVE  PCB_ptrs[u]
<1>1. u # curThread /\ pc[u] # "off"
  BY ConstantFacts DEF IndInv, TypeOK, InvBoot, Threads
<1>2. \A p \in Pids :
        PCB_ptrs[p] => parent_terminal[p] = p /\ parent_pid[p] = NoPid
  BY DEF IndInv, InvBoot
<1>3. CASE Settled(u)
  BY <1>2, <1>3 DEF IndInv, InvSettled, LeafOf
<1>4. CASE pc[u] \in {"exec_cur", "exec_fdt", "exec_go"}
  BY <1>1, <1>2, <1>4 DEF IndInv, InvLoading, LeafOf
<1>5. CASE pc[u] \in Exclusive \/ (pc[u] = "exec_start" /\ prog[u] = NoPid)
  BY <1>1, <1>5 DEF IndInv, InvExclusive, Running
<1> QED
  BY <1>1, <1>3, <1>4, <1>5
     DEF IndInv, TypeOK, Points, ExecPoints, HaltPoints, Settled, Exclusive

(* entry() ends its initialisation and idles.                              *)
LEMMA FinishBootStep ==
  ASSUME SafeTiming, IndInv, TypeOK', FinishBoot
  PROVE  IndInv'
<1>1. InvSettled'
  BY DEF FinishBoot, IndInv, InvSettled, InvBoot, Settled
<1>2. InvLoading'
  BY DEF FinishBoot, IndInv, InvLoading, InvBoot
<1>3. InvExclusive'
  BY DEF FinishBoot, IndInv, InvExclusive, InvBoot, Running
<1>4. InvProcess'
  BY DEF FinishBoot, InvProcess
<1>5. InvBoot'
  BY DEF FinishBoot, IndInv, TypeOK, hw, InvBoot
<1> QED  BY <1>1, <1>2, <1>3, <1>4, <1>5 DEF IndInv

(* A tick starts a shell on the current thread.                            *)
LEMMA TickStartCurrentStep ==
  ASSUME SafeTiming, IndInv, TypeOK', TickStartCurrent
  PROVE  IndInv'
<1>1. Interruptible /\ curThread \in Threads
  BY DEF TickStartCurrent, IndInv, TypeOK
<1>2. pc[curThread] \in {"off", "spin"}
  BY <1>1, Interrupted
     DEF TickStartCurrent, IndInv, InvExclusive, InvBoot, SafePoints
<1>3. FreePids # {} /\ NoBase(curThread) /\ pitTail = None
  BY <1>1, <1>2, Interrupted, ConstantFacts
     DEF IndInv, InvBoot, InvExclusive, FreePids, NoBase, TypeOK
<1>4. FreePids' = FreePids
  BY DEF TickStartCurrent, BeginShell, pcbs, FreePids
<1>5. InvSettled'
  BY DEF TickStartCurrent, BeginShell, DropLocals, IndInv, TypeOK, pcbs, saves,
         InvSettled, Top, Leaf, LeafOf, Settled, Running
<1>6. InvLoading'
  BY DEF TickStartCurrent, BeginShell, DropLocals, IndInv, TypeOK, pcbs, saves,
         InvLoading, Top, Leaf, LeafOf, Running
<1>7. InvExclusive'
  BY <1>3, <1>4
     DEF TickStartCurrent, BeginShell, IndInv, TypeOK, pcbs, InvExclusive,
         NoBase, Exclusive, Running
<1>8. InvProcess'
  BY ConstantFacts
     DEF TickStartCurrent, BeginShell, DropLocals, IndInv, TypeOK, pcbs, hw,
         InvExclusive, InvProcess, Starting, BeingLoaded
<1>9. InvBoot'
  BY Interrupted, ConstantFacts
     DEF TickStartCurrent, BeginShell, DropLocals, IndInv, TypeOK, Index, pcbs,
         hw, InvBoot
<1> QED  BY <1>5, <1>6, <1>7, <1>8, <1>9 DEF IndInv

(* A tick starts a shell on the next thread.                               *)
LEMMA TickStartNextStep ==
  ASSUME SafeTiming, IndInv, TypeOK', TickStartNext
  PROVE  IndInv'
<1>1. Interruptible /\ curThread \in Threads
  BY DEF TickStartNext, IndInv, TypeOK
<1>2. boot = "left" /\ pc[curThread] \notin {"off", "spin", "dead"}
  BY <1>1, Interrupted DEF TickStartNext, IndInv, TypeOK, InvBoot, InvExclusive
<1>3. pc[NextThread] = "off"
  BY <1>1, NextThreadIs
     DEF TickStartNext, IndInv, InvExclusive, Exclusive, Running
<1>4. NextThread = curThread + 1
  <2>1. ASSUME curThread = NUM_THREADS - 1 PROVE FALSE
    <3>1. NextThread = 0 /\ 0 <= curThread /\ 0 \in Threads
      BY <1>1, <2>1, NextThreadIs, ThreadsAssumption DEF Threads
    <3> QED  BY <1>2, <1>3, <3>1 DEF IndInv, InvBoot
  <2> QED  BY <1>1, <2>1, NextThreadIs, ThreadsAssumption DEF Threads
<1>5. /\ FreePids # {} /\ NoBase(NextThread)
      /\ pc[curThread] \notin Exclusive
      /\ pc[curThread] = "exec_start" => prog[curThread] # NoPid
  <2>1. NextThread \in FreePids
    BY <1>1, <1>2, <1>3, <1>4, NextThreadIs, ConstantFacts
       DEF IndInv, InvBoot, FreePids, Threads
  <2>2. NoBase(NextThread)
    BY <1>1, <1>2, <1>3, <1>4, NextThreadIs, ConstantFacts
       DEF IndInv, InvBoot, NoBase, Threads, TypeOK
  <2> QED  BY <1>1, <1>2, <2>1, <2>2, Interrupted DEF Exclusive, SafePoints
<1>6. FreePids' = FreePids
  BY DEF TickStartNext, BeginShell, pcbs, FreePids
<1>7. InvSettled'
  BY <1>2, Interrupted
     DEF TickStartNext, BeginShell, DropLocals, SaveCurrent, IndInv, TypeOK,
         pcbs, InvSettled, Top, Leaf, LeafOf, Settled, Running
<1>8. InvLoading'
  BY <1>2, Interrupted
     DEF TickStartNext, BeginShell, DropLocals, SaveCurrent, IndInv, TypeOK,
         pcbs, InvLoading, Top, Leaf, LeafOf, Running
<1>9. InvExclusive'
  BY <1>5, <1>6
     DEF TickStartNext, BeginShell, SaveCurrent, IndInv, TypeOK, pcbs,
         InvExclusive, NoBase, Exclusive, Running
<1>10. InvProcess'
  BY <1>3
     DEF TickStartNext, BeginShell, DropLocals, IndInv, pcbs, hw, InvProcess,
         Starting, BeingLoaded
<1>11. InvBoot'
  BY <1>2, <1>4
     DEF TickStartNext, BeginShell, DropLocals, SaveCurrent, IndInv, TypeOK,
         Index, pcbs, hw, InvBoot
<1> QED  BY <1>7, <1>8, <1>9, <1>10, <1>11 DEF IndInv

(* A tick switches to the next thread.                                     *)
LEMMA TickSwitchStep ==
  ASSUME SafeTiming, IndInv, TypeOK', TickSwitch
  PROVE  IndInv'
<1>1. Interruptible /\ curThread \in Threads
  BY DEF TickSwitch, IndInv, TypeOK
<1>2. boot = "left" /\ pc[curThread] \notin {"off", "spin", "dead"}
  BY <1>1, Interrupted DEF TickSwitch, IndInv, TypeOK, InvBoot, InvExclusive
<1>3. pc[NextThread] \notin {"off", "spin", "dead"}
  BY <1>1, NextThreadIs DEF TickSwitch, IndInv, InvExclusive
<1>4. \A u \in Threads : pc[u] # "off"
  <2>1. CASE curThread < NUM_THREADS - 1
    BY <1>1, <1>2, <1>3, <2>1, NextThreadIs, ThreadsAssumption
       DEF IndInv, InvBoot, Threads
  <2>2. CASE curThread = NUM_THREADS - 1
    BY <1>1, <1>2, <2>2, ThreadsAssumption DEF IndInv, InvBoot, Threads
  <2> QED  BY <1>1, <2>1, <2>2, ThreadsAssumption DEF Threads
<1>5. \A u \in Threads : /\ pc[u] \notin Exclusive
                         /\ pc[u] = "exec_start" => prog[u] # NoPid
  BY <1>1, <1>2, Interrupted
     DEF IndInv, InvExclusive, Exclusive, Running, SafePoints
<1>6. InvSettled'
  BY NextThreadIs, Interrupted, ConstantFacts
     DEF TickSwitch, SaveCurrent, StackInUse, FdtOf, FrameOf, StackOf, IndInv,
         TypeOK, Index, pcbs, locals, InvSettled, Top, Leaf, LeafOf, Settled,
         Running
<1>7. InvLoading'
  BY <1>2, NextThreadIs, Interrupted, ConstantFacts
     DEF TickSwitch, SaveCurrent, FdtOf, FrameOf, StackOf, IndInv, TypeOK,
         Index, pcbs, locals, InvLoading, Top, Leaf, LeafOf, Running
<1>8. InvExclusive'
  BY <1>5 DEF TickSwitch, IndInv, InvExclusive, Exclusive
<1>9. InvProcess'
  BY DEF TickSwitch, IndInv, pcbs, locals, InvProcess, BeingLoaded
<1>10. InvBoot'
  BY <1>4 DEF TickSwitch, IndInv, TypeOK, InvBoot
<1> QED  BY <1>6, <1>7, <1>8, <1>9, <1>10 DEF IndInv

(* PIThandler restores the stack of the thread it switched to.             *)
LEMMA TickResumeStep ==
  ASSUME SafeTiming, IndInv, TypeOK', TickResume
  PROVE  IndInv'
<1>1. InvSettled'
  BY DEF TickResume, IndInv, TypeOK, pcbs, saves, hw, locals, InvSettled, Top,
         Leaf, LeafOf, Settled, Running
<1>2. InvLoading'
  BY DEF TickResume, IndInv, TypeOK, pcbs, saves, hw, locals, InvLoading, Top,
         Leaf, LeafOf, Running
<1>3. InvExclusive'
  BY DEF TickResume, IndInv, InvExclusive, Exclusive, Running
<1>4. InvProcess'
  BY DEF TickResume, IndInv, pcbs, hw, locals, InvProcess, BeingLoaded
<1>5. InvBoot'
  BY DEF TickResume, IndInv, pcbs, hw, locals, InvBoot
<1> QED  BY <1>1, <1>2, <1>3, <1>4, <1>5 DEF IndInv

(* A program calls execute.                                                *)
LEMMA SysExecuteStep ==
  ASSUME SafeTiming, IndInv, TypeOK', NEW t \in Threads, SysExecute(t)
  PROVE  IndInv'
<1>1. InvSettled'
  BY DEF SysExecute, Goto, IndInv, TypeOK, pcbs, saves, hw, locals, InvSettled,
         Top, Leaf, LeafOf, Settled, Running
<1>2. InvLoading'
  BY DEF SysExecute, Goto, IndInv, pcbs, saves, locals, InvLoading, Top, Leaf,
         LeafOf, Running
<1>3. InvExclusive'
  BY ConstantFacts
     DEF SysExecute, Goto, IndInv, InvSettled, InvExclusive, LeafOf, Settled,
         Exclusive, Running
<1>4. InvProcess'
  BY DEF SysExecute, Goto, IndInv, pcbs, hw, locals, InvProcess, Starting,
         BeingLoaded
<1>5. InvBoot'
  BY DEF SysExecute, Goto, SafeTiming, IndInv, hw, InvExclusive, InvBoot
<1> QED  BY <1>1, <1>2, <1>3, <1>4, <1>5 DEF IndInv

(* sys_execute finds a free slot.                                          *)
LEMMA ExecPickStep ==
  ASSUME SafeTiming, IndInv, TypeOK', NEW t \in Threads, ExecPick(t)
  PROVE  IndInv'
<1>1. PICK p \in FreePids : /\ \A q \in FreePids : p <= q
                            /\ child' = [child EXCEPT ![t] = p]
  BY DEF ExecPick
<1>2. ASSUME NEW o \in Threads, pc[o] = "off" PROVE p = t
  <2>1. t = curThread /\ boot = "left" /\ prog[t] = NoPid /\ t \in Pids
    BY <1>2, ConstantFacts DEF ExecPick, Goto, Running, IndInv, TypeOK, InvBoot
  <2>2. t \in FreePids
    BY <1>2, <2>1
       DEF ExecPick, Goto, IndInv, InvExclusive, InvBoot, NoBase, FreePids
  <2>3. ASSUME p < t PROVE FALSE
    <3>1. p \in Threads
      BY <2>1, <2>3, ThreadsAssumption, ConstantFacts DEF FreePids, Threads
    <3> QED  BY <1>2, <2>1, <2>3, <3>1, EarlierShells DEF FreePids
  <2> QED  BY <1>1, <2>1, <2>2, <2>3, ConstantFacts DEF FreePids
<1>3. InvSettled'
  BY DEF ExecPick, Goto, IndInv, pcbs, saves, hw, InvSettled, Top, Leaf, LeafOf,
         Settled, Running
<1>4. InvLoading'
  BY DEF ExecPick, Goto, IndInv, pcbs, saves, InvLoading, Top, Leaf, LeafOf,
         Running
<1>5. InvExclusive'
  BY DEF ExecPick, Goto, FreePids, IndInv, TypeOK, pcbs, hw, InvSettled,
         InvExclusive, Top, Leaf, NoBase, LeafOf, Settled, Running, FreePids
<1>6. InvProcess'
  BY DEF ExecPick, Goto, IndInv, pcbs, hw, InvProcess, Starting, BeingLoaded
<1>7. InvBoot'
  BY <1>1, <1>2 DEF ExecPick, Goto, IndInv, TypeOK, pcbs, hw, InvBoot
<1> QED  BY <1>3, <1>4, <1>5, <1>6, <1>7 DEF IndInv

(* sys_execute fails for a program.                                        *)
LEMMA ExecFailStep ==
  ASSUME SafeTiming, IndInv, TypeOK', NEW t \in Threads, ExecFail(t)
  PROVE  IndInv'
<1>1. /\ Running(t) /\ prog[t] # NoPid /\ pc[t] \in {"exec_start", "exec_pid"}
      /\ pc' = [pc EXCEPT ![t] = "user"]
  BY DEF ExecFail, Goto
<1>2. InvSettled'
  BY DEF ExecFail, Goto, DropLocals, IndInv, TypeOK, pcbs, saves, hw,
         InvSettled, InvExclusive, Top, Leaf, LeafOf, Settled, Running
<1>3. InvLoading'
  BY DEF ExecFail, Goto, DropLocals, IndInv, TypeOK, pcbs, saves, InvLoading,
         Top, Leaf, LeafOf, Running
<1>4. InvExclusive'
  BY DEF ExecFail, Goto, IndInv, TypeOK, InvExclusive, Exclusive, Running
<1>5. InvProcess'
  BY <1>1, ConstantFacts
     DEF ExecFail, Goto, DropLocals, IndInv, pcbs, hw, InvProcess, Starting,
         BeingLoaded
<1>6. InvBoot'
  BY DEF ExecFail, Goto, DropLocals, IndInv, TypeOK, pcbs, hw, InvBoot
<1> QED  BY <1>2, <1>3, <1>4, <1>5, <1>6 DEF IndInv

(* sys_execute fails inside PIThandler.                                    *)
LEMMA ShellFailStep ==
  ASSUME SafeTiming, IndInv, TypeOK', NEW t \in Threads, ShellFail(t)
  PROVE  IndInv'
<1>1. InvSettled'
  BY DEF ShellFail, IndInv, InvSettled, InvExclusive
<1>2. InvLoading'
  BY DEF ShellFail, IndInv, InvLoading, InvExclusive
<1>3. InvExclusive'
  BY DEF ShellFail, IndInv, InvExclusive
<1>4. InvProcess'
  BY DEF ShellFail, IndInv, InvExclusive, InvProcess
<1>5. InvBoot'
  BY DEF ShellFail, IndInv, InvExclusive, InvBoot
<1> QED  BY <1>1, <1>2, <1>3, <1>4, <1>5 DEF IndInv

(* sys_execute maps the frame of the new process.                          *)
LEMMA ExecPagingStep ==
  ASSUME SafeTiming, IndInv, TypeOK', NEW t \in Threads, ExecPaging(t)
  PROVE  IndInv'
<1>1. InvSettled'
  BY DEF ExecPaging, Goto, IndInv, pcbs, saves, locals, InvSettled, Top, Leaf,
         LeafOf, Settled, Running
<1>2. InvLoading'
  BY DEF ExecPaging, Goto, IndInv, pcbs, saves, locals, InvLoading, Top, Leaf,
         LeafOf, Running
<1>3. InvExclusive'
  BY DEF ExecPaging, Goto, FrameOf, IndInv, TypeOK, pcbs, locals, InvExclusive,
         Leaf, NoBase, LeafOf, Exclusive, Running, FreePids
<1>4. InvProcess'
  BY DEF ExecPaging, Goto, IndInv, pcbs, locals, InvProcess, Starting,
         BeingLoaded
<1>5. InvBoot'
  BY DEF ExecPaging, Goto, IndInv, pcbs, locals, InvBoot
<1> QED  BY <1>1, <1>2, <1>3, <1>4, <1>5 DEF IndInv

(* sys_execute fills in the PCB and its links.                             *)
LEMMA ExecAllocStep ==
  ASSUME SafeTiming, IndInv, TypeOK', NEW t \in Threads, ExecAlloc(t)
  PROVE  IndInv'
<1>1. InvSettled'
  BY ConstantFacts
     DEF ExecAlloc, Goto, IndInv, TypeOK, saves, locals, InvSettled,
         InvExclusive, Top, Leaf, LeafOf, Settled, Running, FreePids
<1>2. InvLoading'
  BY ConstantFacts
     DEF ExecAlloc, Goto, IndInv, TypeOK, saves, locals, InvLoading,
         InvExclusive, Top, Leaf, LeafOf, Running, FreePids
<1>3. InvExclusive'
  BY ConstantFacts
     DEF ExecAlloc, Goto, TerminalOf, IndInv, TypeOK, hw, locals, InvExclusive,
         InvProcess, Leaf, LeafOf, Exclusive, Running, FreePids
<1>4. InvProcess'
  BY DEF ExecAlloc, Goto, TerminalOf, IndInv, TypeOK, hw, locals, InvExclusive,
         InvProcess, Leaf, NoBase, LeafOf, Starting, BeingLoaded, Running,
         FreePids
<1>5. InvBoot'
  <2>1. /\ t = curThread /\ boot = "left" /\ pc[t] = "exec_paged"
        /\ cur_pid = prog[t] /\ child[t] \in FreePids
        /\ prog[t] # NoPid => LeafOf(t, prog[t])
    BY DEF ExecAlloc, Goto, Running, IndInv, InvExclusive, InvBoot
  <2>2. /\ UNCHANGED <<boot, fops, image, curThread>>
        /\ pc' = [pc EXCEPT ![t] = "exec_alloc"]
    BY DEF ExecAlloc, Goto, hw
  <2>3. ASSUME NEW o \in Threads, pc'[o] = "off"
        PROVE  pc[o] = "off" /\ child[t] = t /\ cur_pid = NoPid
    BY <2>1, <2>2, <2>3 DEF IndInv, TypeOK, InvBoot, LeafOf, FreePids
  <2>4. ASSUME NEW o \in Threads, pc'[o] = "off", NEW p \in Pids, PCB_ptrs'[p]
        PROVE  parent_terminal'[p] = p /\ parent_pid'[p] = NoPid /\ p <= curThread
    <3>1. CASE p = child[t]
      BY <2>1, <2>3, <2>4, <3>1, ConstantFacts
         DEF ExecAlloc, TerminalOf, IndInv, TypeOK, FreePids
    <3>2. CASE p # child[t]
      BY <2>3, <2>4, <3>2 DEF ExecAlloc, IndInv, TypeOK, InvBoot
    <3> QED  BY <3>1, <3>2
  <2> QED  BY <2>1, <2>2, <2>3, <2>4 DEF IndInv, TypeOK, InvBoot
<1> QED  BY <1>1, <1>2, <1>3, <1>4, <1>5 DEF IndInv

(* cur_pid becomes the new process.                                        *)
LEMMA ExecCurStep ==
  ASSUME SafeTiming, IndInv, TypeOK', NEW t \in Threads, ExecCur(t)
  PROVE  IndInv'
<1>1. InvSettled'
  BY DEF ExecCur, Goto, IndInv, saves, locals, InvSettled, Top, Leaf, LeafOf,
         Settled, Running
<1>2. InvLoading'
  BY DEF ExecCur, Goto, IndInv, saves, hw, locals, InvLoading, InvExclusive,
         Top, Leaf, LeafOf, Running
<1>3. InvExclusive'
  BY DEF ExecCur, Goto, IndInv, TypeOK, InvExclusive, Exclusive, Running
<1>4. InvProcess'
  BY DEF ExecCur, Goto, IndInv, hw, locals, InvProcess, Starting, BeingLoaded
<1>5. InvBoot'
  BY DEF ExecCur, Goto, IndInv, hw, locals, InvBoot
<1> QED  BY <1>1, <1>2, <1>3, <1>4, <1>5 DEF IndInv

(* sys_execute initialises the descriptors.                                *)
LEMMA ExecFdtStep ==
  ASSUME SafeTiming, IndInv, TypeOK', NEW t \in Threads, ExecFdt(t)
  PROVE  IndInv'
<1>1. InvSettled'
  BY DEF ExecFdt, Goto, IndInv, saves, locals, InvSettled, Top, Leaf, LeafOf,
         Settled, Running
<1>2. InvLoading'
  BY DEF ExecFdt, Goto, IndInv, TypeOK, saves, hw, locals, InvLoading, Top,
         Leaf, LeafOf, Running
<1>3. InvExclusive'
  BY DEF ExecFdt, Goto, IndInv, InvExclusive, Exclusive, Running
<1>4. InvProcess'
  BY DEF ExecFdt, Goto, IndInv, hw, locals, InvLoading, InvProcess, LeafOf,
         Starting, BeingLoaded
<1>5. InvBoot'
  BY DEF ExecFdt, Goto, IndInv, hw, locals, InvBoot
<1> QED  BY <1>1, <1>2, <1>3, <1>4, <1>5 DEF IndInv

(* sys_execute loads the program and saves its stack.                      *)
LEMMA ExecLoadStep ==
  ASSUME SafeTiming, IndInv, TypeOK', NEW t \in Threads, ExecLoad(t)
  PROVE  IndInv'
<1>1. InvSettled'
  BY DEF ExecLoad, Goto, IndInv, saves, locals, InvSettled, Top, Leaf, LeafOf,
         Settled, Running
<1>2. InvLoading'
  BY DEF ExecLoad, Goto, StackOf, IndInv, saves, locals, InvLoading, Top, Leaf,
         LeafOf, Running
<1>3. InvExclusive'
  BY DEF ExecLoad, Goto, IndInv, InvExclusive, Exclusive, Running
<1>4. InvProcess'
  BY DEF ExecLoad, Goto, IndInv, TypeOK, locals, InvLoading, InvProcess,
         BeingLoaded, Running
<1>5. InvBoot'
  BY DEF ExecLoad, Goto, IndInv, InvLoading, InvBoot, Running
<1> QED  BY <1>1, <1>2, <1>3, <1>4, <1>5 DEF IndInv

(* The new program enters user mode.                                       *)
LEMMA ExecGoStep ==
  ASSUME SafeTiming, IndInv, TypeOK', NEW t \in Threads, ExecGo(t)
  PROVE  IndInv'
<1>1. InvSettled'
  BY DEF ExecGo, Goto, DropLocals, IndInv, TypeOK, pcbs, saves, hw, InvSettled,
         InvLoading, Top, Leaf, LeafOf, Settled, Running
<1>2. InvLoading'
  BY DEF ExecGo, Goto, DropLocals, IndInv, TypeOK, pcbs, saves, InvLoading, Top,
         Leaf, LeafOf, Running
<1>3. InvExclusive'
  BY DEF ExecGo, Goto, IndInv, InvExclusive, Exclusive, Running
<1>4. InvProcess'
  BY DEF ExecGo, Goto, DropLocals, IndInv, pcbs, hw, InvProcess, Starting,
         BeingLoaded
<1>5. InvBoot'
  BY DEF ExecGo, Goto, DropLocals, IndInv, pcbs, hw, InvBoot
<1> QED  BY <1>1, <1>2, <1>3, <1>4, <1>5 DEF IndInv

(* sys_execute returns to the calling program.                             *)
LEMMA ExecReturnStep ==
  ASSUME SafeTiming, IndInv, TypeOK', NEW t \in Threads, ExecReturn(t)
  PROVE  IndInv'
<1>1. InvSettled'
  BY DEF ExecReturn, Goto, DropLocals, IndInv, pcbs, saves, hw, InvSettled, Top,
         Leaf, LeafOf, Settled, Running
<1>2. InvLoading'
  BY DEF ExecReturn, Goto, DropLocals, IndInv, pcbs, saves, InvLoading, Top,
         Leaf, LeafOf, Running
<1>3. InvExclusive'
  BY DEF ExecReturn, Goto, IndInv, InvExclusive, Exclusive, Running
<1>4. InvProcess'
  BY DEF ExecReturn, Goto, DropLocals, IndInv, pcbs, hw, InvProcess, Starting,
         BeingLoaded
<1>5. InvBoot'
  BY DEF ExecReturn, Goto, DropLocals, IndInv, pcbs, hw, InvBoot
<1> QED  BY <1>1, <1>2, <1>3, <1>4, <1>5 DEF IndInv

(* A program calls halt.                                                   *)
LEMMA SysHaltStep ==
  ASSUME SafeTiming, IndInv, TypeOK', NEW t \in Threads, NEW s \in Statuses,
         SysHalt(t, s)
  PROVE  IndInv'
<1>1. InvSettled'
  BY DEF SysHalt, Goto, FdtOf, IndInv, TypeOK, pcbs, saves, hw, InvSettled, Top,
         Leaf, LeafOf, Settled, Running
<1>2. InvLoading'
  BY DEF SysHalt, Goto, IndInv, pcbs, saves, InvLoading, Top, Leaf, LeafOf,
         Running
<1>3. InvExclusive'
  BY DEF SysHalt, Goto, IndInv, InvExclusive, Exclusive, Running
<1>4. InvProcess'
  BY DEF SysHalt, Goto, IndInv, pcbs, hw, InvProcess, Starting, BeingLoaded
<1>5. InvBoot'
  BY DEF SysHalt, Goto, IndInv, pcbs, hw, InvBoot
<1> QED  BY <1>1, <1>2, <1>3, <1>4, <1>5 DEF IndInv

(* sys_halt frees the slot of a base shell.                                *)
LEMMA HaltBaseStep ==
  ASSUME SafeTiming, IndInv, TypeOK', NEW t \in Threads, HaltBase(t)
  PROVE  IndInv'
<1>1. InvSettled'
  BY DEF HaltBase, Goto, SlotFreed, IndInv, TypeOK, saves, locals, InvSettled,
         Top, Leaf, LeafOf, Settled, Running
<1>2. InvLoading'
  BY DEF HaltBase, Goto, SlotFreed, IndInv, saves, locals, InvSettled,
         InvLoading, Top, Leaf, LeafOf, Settled, Running
<1>3. InvExclusive'
  BY DEF HaltBase, Goto, SlotFreed, IndInv, TypeOK, InvSettled, InvExclusive,
         InvProcess, NoBase, LeafOf, Settled, Exclusive, Running, FreePids
<1>4. InvProcess'
  BY DEF HaltBase, Goto, SlotFreed, IndInv, TypeOK, hw, locals, InvSettled,
         InvProcess, Leaf, LeafOf, BeingLoaded, Settled, Running
<1>5. InvBoot'
  BY DEF HaltBase, Goto, SlotFreed, IndInv, hw, locals, InvBoot
<1> QED  BY <1>1, <1>2, <1>3, <1>4, <1>5 DEF IndInv

(* A halted base shell enters its loop.                                    *)
LEMMA HaltSpinStep ==
  ASSUME SafeTiming, IndInv, TypeOK', NEW t \in Threads, HaltSpin(t)
  PROVE  IndInv'
<1>1. InvSettled'
  BY DEF HaltSpin, Goto, DropLocals, IndInv, pcbs, saves, InvSettled, Top, Leaf,
         LeafOf, Settled, Running
<1>2. InvLoading'
  BY DEF HaltSpin, Goto, DropLocals, IndInv, pcbs, saves, InvLoading, Top, Leaf,
         LeafOf, Running
<1>3. InvExclusive'
  BY DEF HaltSpin, Goto, IndInv, TypeOK, pcbs, InvExclusive, NoBase, Exclusive,
         Running, FreePids
<1>4. InvProcess'
  BY DEF HaltSpin, Goto, DropLocals, IndInv, pcbs, hw, InvProcess, Starting,
         BeingLoaded
<1>5. InvBoot'
  BY DEF HaltSpin, Goto, DropLocals, IndInv, pcbs, hw, InvBoot
<1> QED  BY <1>1, <1>2, <1>3, <1>4, <1>5 DEF IndInv

(* sys_halt restores the parent's frame and descriptors.                   *)
LEMMA HaltPagingStep ==
  ASSUME SafeTiming, IndInv, TypeOK', NEW t \in Threads, HaltPaging(t)
  PROVE  IndInv'
<1>1. InvSettled'
  BY DEF HaltPaging, Goto, IndInv, TypeOK, pcbs, saves, InvSettled, Top, Leaf,
         LeafOf, Settled, Running
<1>2. InvLoading'
  BY DEF HaltPaging, Goto, IndInv, pcbs, saves, InvLoading, Top, Leaf, LeafOf,
         Running
<1>3. InvExclusive'
  BY DEF HaltPaging, Goto, FdtOf, ParentPde, IndInv, TypeOK, Index, pcbs,
         InvSettled, InvExclusive, InvProcess, Top, Leaf, LeafOf, Starting,
         BeingLoaded, Settled, Exclusive, Running
<1>4. InvProcess'
  BY DEF HaltPaging, Goto, IndInv, pcbs, InvProcess, Starting, BeingLoaded
<1>5. InvBoot'
  BY DEF HaltPaging, Goto, IndInv, pcbs, InvBoot
<1> QED  BY <1>1, <1>2, <1>3, <1>4, <1>5 DEF IndInv

(* sys_halt frees the slot of a child.                                     *)
LEMMA HaltUnlinkStep ==
  ASSUME SafeTiming, IndInv, TypeOK', NEW t \in Threads, HaltUnlink(t)
  PROVE  IndInv'
<1>1. InvSettled'
  BY DEF HaltUnlink, Goto, SlotFreed, IndInv, saves, locals, InvSettled,
         InvExclusive, Top, Leaf, LeafOf, Settled, Running
<1>2. InvLoading'
  BY DEF HaltUnlink, Goto, SlotFreed, IndInv, saves, locals, InvLoading,
         InvExclusive, Top, Leaf, LeafOf, Running
<1>3. InvExclusive'
  BY ConstantFacts
     DEF HaltUnlink, Goto, SlotFreed, IndInv, TypeOK, hw, locals, InvExclusive,
         InvProcess, Leaf, NoBase, LeafOf, Running, FreePids
<1>4. InvProcess'
  BY DEF HaltUnlink, Goto, SlotFreed, IndInv, TypeOK, hw, locals, InvExclusive,
         InvProcess, Leaf, LeafOf, BeingLoaded
<1>5. InvBoot'
  BY DEF HaltUnlink, Goto, SlotFreed, IndInv, hw, locals, InvBoot
<1> QED  BY <1>1, <1>2, <1>3, <1>4, <1>5 DEF IndInv

(* cur_pid becomes the parent.                                             *)
LEMMA HaltCurStep ==
  ASSUME SafeTiming, IndInv, TypeOK', NEW t \in Threads, HaltCur(t)
  PROVE  IndInv'
<1>1. InvSettled'
  BY DEF HaltCur, Goto, IndInv, pcbs, saves, locals, InvSettled, Top, Leaf,
         LeafOf, Settled, Running
<1>2. InvLoading'
  BY DEF HaltCur, Goto, IndInv, pcbs, saves, locals, InvLoading, Top, Leaf,
         LeafOf, Running
<1>3. InvExclusive'
  BY DEF HaltCur, Goto, IndInv, pcbs, hw, locals, InvExclusive, Leaf, LeafOf,
         Exclusive, Running
<1>4. InvProcess'
  BY DEF HaltCur, Goto, IndInv, pcbs, hw, locals, InvProcess, Starting,
         BeingLoaded
<1>5. InvBoot'
  BY DEF HaltCur, Goto, IndInv, pcbs, hw, locals, InvBoot
<1> QED  BY <1>1, <1>2, <1>3, <1>4, <1>5 DEF IndInv

(* sys_halt jumps to the end of the parent's sys_execute.                  *)
LEMMA HaltReturnStep ==
  ASSUME SafeTiming, IndInv, TypeOK', NEW t \in Threads, HaltReturn(t)
  PROVE  IndInv'
<1>1. InvSettled'
  BY DEF HaltReturn, Goto, StackOf, IndInv, TypeOK, pcbs, saves, locals,
         InvSettled, InvExclusive, Top, Leaf, LeafOf, Settled, Running
<1>2. InvLoading'
  BY DEF HaltReturn, Goto, IndInv, pcbs, saves, locals, InvLoading, Top, Leaf,
         LeafOf, Running
<1>3. InvExclusive'
  BY DEF HaltReturn, Goto, IndInv, pcbs, locals, InvExclusive, Leaf, LeafOf,
         Exclusive, Running
<1>4. InvProcess'
  BY DEF HaltReturn, Goto, IndInv, pcbs, locals, InvProcess, Starting,
         BeingLoaded
<1>5. InvBoot'
  BY DEF HaltReturn, Goto, IndInv, pcbs, locals, InvBoot
<1> QED  BY <1>1, <1>2, <1>3, <1>4, <1>5 DEF IndInv

(* A child raises an exception.                                            *)
LEMMA ExceptionChildStep ==
  ASSUME SafeTiming, IndInv, TypeOK', NEW t \in Threads, ExceptionChild(t)
  PROVE  IndInv'
<1>1. InvSettled'
  BY ConstantFacts
     DEF ExceptionChild, SlotFreed, FdtOf, StackOf, ParentPde, IndInv, TypeOK,
         saves, locals, InvSettled, InvProcess, Top, Leaf, LeafOf, Starting,
         BeingLoaded, Settled, Running
<1>2. InvLoading'
  BY DEF ExceptionChild, SlotFreed, IndInv, saves, locals, InvSettled,
         InvLoading, Top, Leaf, LeafOf, Settled, Running
<1>3. InvExclusive'
  BY DEF ExceptionChild, IndInv, InvExclusive, Exclusive, Running
<1>4. InvProcess'
  BY DEF ExceptionChild, SlotFreed, IndInv, locals, InvSettled, InvProcess, Top,
         Leaf, LeafOf, BeingLoaded, Settled, Running
<1>5. InvBoot'
  BY ConstantFacts
     DEF ExceptionChild, IndInv, InvSettled, InvBoot, Top, LeafOf, Settled,
         Running
<1> QED  BY <1>1, <1>2, <1>3, <1>4, <1>5 DEF IndInv

(* A base shell raises an exception.                                       *)
LEMMA ExceptionBaseStep ==
  ASSUME SafeTiming, IndInv, TypeOK', NEW t \in Threads, ExceptionBase(t)
  PROVE  IndInv'
<1>1. InvSettled'
  BY DEF ExceptionBase, Goto, SlotFreed, IndInv, TypeOK, saves, locals,
         InvSettled, Top, Leaf, LeafOf, Settled, Running
<1>2. InvLoading'
  BY DEF ExceptionBase, Goto, SlotFreed, IndInv, saves, locals, InvLoading, Top,
         Leaf, LeafOf, Running
<1>3. InvExclusive'
  BY DEF ExceptionBase, Goto, SlotFreed, IndInv, TypeOK, InvSettled,
         InvExclusive, InvProcess, Top, Leaf, NoBase, LeafOf, Settled, Running,
         FreePids
<1>4. InvProcess'
  BY DEF ExceptionBase, Goto, SlotFreed, IndInv, hw, locals, InvSettled,
         InvProcess, Top, Leaf, LeafOf, Starting, BeingLoaded, Settled, Running
<1>5. InvBoot'
  BY DEF ExceptionBase, Goto, SlotFreed, IndInv, hw, InvBoot, Running
<1> QED  BY <1>1, <1>2, <1>3, <1>4, <1>5 DEF IndInv


----------------------------------------------------------------------------
(* IndInv is inductive: one step per action.                               *)
LEMMA IndInvStep == SafeTiming /\ IndInv /\ TypeOK' /\ [Next]_vars => IndInv'
<1> SUFFICES ASSUME SafeTiming, IndInv, TypeOK', [Next]_vars PROVE IndInv'
  OBVIOUS
<1>1. CASE FinishBoot
  BY <1>1, FinishBootStep
<1>2. CASE Tick
  BY <1>2, TickStartCurrentStep, TickStartNextStep, TickSwitchStep DEF Tick
<1>3. CASE TickResume
  BY <1>3, TickResumeStep
<1>4. ASSUME NEW t \in Threads, Exec(t) PROVE IndInv'
  BY <1>4, ExecPickStep, ExecFailStep, ShellFailStep, ExecPagingStep,
     ExecAllocStep, ExecCurStep, ExecFdtStep, ExecLoadStep, ExecGoStep,
     ExecReturnStep DEF Exec
<1>5. ASSUME NEW t \in Threads, Halt(t) PROVE IndInv'
  BY <1>5, HaltBaseStep, HaltSpinStep, HaltPagingStep, HaltUnlinkStep,
     HaltCurStep, HaltReturnStep DEF Halt
<1>6. ASSUME NEW t \in Threads, Program(t) PROVE IndInv'
  BY <1>6, SysExecuteStep, SysHaltStep, ExceptionChildStep,
     ExceptionBaseStep DEF Program
<1>7. CASE UNCHANGED vars
  <2>1. InvSettled' /\ InvLoading'
    BY <1>7
       DEF IndInv, InvSettled, InvLoading, Settled, LeafOf, Leaf, Top, Running,
       vars, exits, pcbs, saves, hw, locals
  <2>2. InvExclusive'
    BY <1>7 DEF IndInv, InvExclusive, LeafOf, Leaf, NoBase, FreePids, Running,
       vars, pcbs, hw, locals
  <2>3. InvProcess' /\ InvBoot'
    BY <1>7
       DEF IndInv, InvProcess, BeingLoaded, InvBoot, vars, exits, pcbs, saves, hw,
           locals
  <2> QED  BY <2>1, <2>2, <2>3 DEF IndInv
<1> QED
  BY <1>1, <1>2, <1>3, <1>4, <1>5, <1>6, <1>7 DEF Next, KernelStep

(* It holds when the kernel enables interrupts.                            *)
LEMMA InitIndInv == Init => IndInv
<1> SUFFICES ASSUME Init PROVE IndInv
  OBVIOUS
<1>1. PCB_ptrs \in [Pids -> BOOLEAN] /\ fops \in BOOLEAN
  BY Zenon DEF Init
<1>2. TypeOK
  BY <1>1, ConstantFacts DEF Init, TypeOK, Index, Points
<1>3. InvSettled /\ InvLoading /\ InvExclusive
  BY <1>2
     DEF Init, TypeOK, InvSettled, Settled, InvLoading, InvExclusive, Exclusive
<1>4. InvProcess /\ InvBoot
  BY <1>2, ConstantFacts DEF Init, TypeOK, InvProcess, InvBoot, Index
<1> QED  BY <1>2, <1>3, <1>4 DEF IndInv

(* When ticks arrive only at SafePoints and all base shells start before   *)
(* the first execute, PIThandler, sys_execute and sys_halt keep IndInv.    *)
THEOREM IndInvHolds == SafeTiming => (SafetySpec => []IndInv)
<1> SUFFICES ASSUME SafeTiming PROVE SafetySpec => []IndInv
  OBVIOUS
<1>1. IndInv /\ TypeOK' /\ [Next]_vars => IndInv'
  BY IndInvStep
<1> QED  BY <1>1, InitIndInv, TypeCorrect, PTL DEF SafetySpec

(* A program in user mode executes its own image (RunsOwnImage): the frame *)
(* that PIThandler, sys_execute and sys_halt leave mapped is its own.      *)
THEOREM OwnImage == SafeTiming => (SafetySpec => []RunsOwnImage)
<1> SUFFICES ASSUME SafeTiming PROVE SafetySpec => []RunsOwnImage
  OBVIOUS
<1>1. IndInv => RunsOwnImage
  BY DEF IndInv, InvSettled, InvProcess, Settled, LeafOf, Leaf, BeingLoaded,
     Starting, RunsOwnImage, InUser, Running
<1> QED  BY <1>1, IndInvHolds, PTL

(* In user mode cur_pid, fdt and tss.esp0 describe the running program     *)
(* (GlobalsDescribeProgram).                                               *)
THEOREM GlobalsDescribe ==
  SafeTiming => (SafetySpec => []GlobalsDescribeProgram)
<1> SUFFICES ASSUME SafeTiming PROVE SafetySpec => []GlobalsDescribeProgram
  OBVIOUS
<1>1. ASSUME IndInv PROVE GlobalsDescribeProgram
  <2>1. curThread \in Threads /\ boot \in {"init", "idle", "left"}
    BY <1>1 DEF IndInv, TypeOK
  <2>2. InUser(curThread) => fops
    BY <1>1, <2>1 DEF IndInv, InvBoot, InUser
  <2> QED
    BY <1>1, <2>1, <2>2 DEF IndInv, InvSettled, Settled, LeafOf, Top,
       GlobalsDescribeProgram, InUser, Running
<1> QED  BY <1>1, IndInvHolds, PTL

(* The pid and the stack that PIThandler saved for a suspended thread are  *)
(* those of living processes of that thread (SavedStackOwned).             *)
THEOREM SavedStack == SafeTiming => (SafetySpec => []SavedStackOwned)
<1> SUFFICES ASSUME SafeTiming PROVE SafetySpec => []SavedStackOwned
  OBVIOUS
<1>1. ASSUME IndInv, NEW t \in Threads, t # curThread, Started(t)
      PROVE  PIDstore[t] \in Live(t) /\ ESPstore[t] \in Live(t)
  <2>1. pc[t] \in Points /\ prog[t] \in Index
    BY <1>1 DEF IndInv, TypeOK
  <2>2. CASE Settled(t)
    BY <1>1, <2>2 DEF IndInv, InvSettled, LeafOf, Top, Live
  <2>3. CASE pc[t] \in {"exec_cur", "exec_fdt", "exec_go"}
    <3>1. /\ LeafOf(t, child[t]) /\ PIDstore[t] = child[t]
          /\ parent_pid[child[t]] = prog[t]
          /\ prog[t] # NoPid /\ ESPstore[t] = prog[t]
      BY <1>1, <2>3 DEF IndInv, InvLoading, Top
    <3>2. prog[t] \in Live(t)
      BY <1>1, <2>1, <3>1 DEF IndInv, InvProcess, LeafOf, Live, Index
    <3> QED  BY <3>1, <3>2 DEF LeafOf, Live
  <2>4. CASE pc[t] \in Exclusive \/ (pc[t] = "exec_start" /\ prog[t] = NoPid)
    BY <1>1, <2>4 DEF IndInv, InvExclusive, Running
  <2> QED
    BY <1>1, <2>1, <2>2, <2>3, <2>4 DEF Started, Settled, Exclusive, Points,
       ExecPoints, HaltPoints
<1>2. IndInv => SavedStackOwned
  BY <1>1 DEF SavedStackOwned
<1> QED  BY <1>2, IndInvHolds, PTL

(* The processes of a terminal form one chain, of which the last one runs  *)
(* (OneChainPerTerminal).                                                  *)
THEOREM OneChain == SafeTiming => (SafetySpec => []OneChainPerTerminal)
<1> SUFFICES ASSUME SafeTiming PROVE SafetySpec => []OneChainPerTerminal
  OBVIOUS
<1>1. IndInv => OneChainPerTerminal
  BY DEF IndInv, TypeOK, Index, InvProcess, InvSettled, Settled, LeafOf, Leaf,
     OneChainPerTerminal, Live, InUser
<1> QED  BY <1>1, IndInvHolds, PTL

(* sys_execute("shell"), whose failure PIThandler ignores, finds a slot    *)
(* (ShellFindsSlot), for every number of slots from NUM_THREADS upwards.   *)
THEOREM SlotFound == SafeTiming => (SafetySpec => []ShellFindsSlot)
<1> SUFFICES ASSUME SafeTiming PROVE SafetySpec => []ShellFindsSlot
  OBVIOUS
<1>1. IndInv => ShellFindsSlot
  BY DEF IndInv, InvExclusive, ShellFindsSlot
<1> QED  BY <1>1, IndInvHolds, PTL

----------------------------------------------------------------------------
(* A leaf of the process table is a leaf of the chains it implements.      *)
LEMMA LeafBar ==
  ASSUME TypeOK, NEW p \in Pids, PCB_ptrs[p], Leaf(p)
  PROVE  Tree!IsLeaf(p)
<1>1. \A q \in Pids : ownerBar[q] # None <=> PCB_ptrs[q]
  BY ConstantFacts DEF ownerBar, TypeOK
<1>2. \A q \in Pids : PCB_ptrs[q] => parentBar[q] = parent_pid[q]
  BY DEF parentBar
<1> QED  BY <1>1, <1>2 DEF Tree!IsLeaf, Leaf

(* What runs, in the abstract specification, is nothing or a leaf.         *)
RunsLeaf == runningBar = NoPid \/ (runningBar \in Pids /\ Tree!IsLeaf(runningBar))

(* The program in user mode is the end of a chain.                         *)
LEMMA IndInvRunsLeaf == IndInv => RunsLeaf
<1> SUFFICES ASSUME IndInv PROVE RunsLeaf
  OBVIOUS
<1>1. CASE ~(boot = "left" /\ InUser(curThread))
  BY <1>1 DEF RunsLeaf, runningBar
<1>2. CASE boot = "left" /\ InUser(curThread)
  <2>1. curThread \in Threads /\ Settled(curThread)
    BY <1>2 DEF IndInv, TypeOK, Settled, InUser
  <2>2. LeafOf(curThread, prog[curThread]) /\ page_dir = prog[curThread]
    BY <2>1 DEF IndInv, InvSettled
  <2>3. image[prog[curThread]] = prog[curThread]
    BY <1>2, <2>1, <2>2
       DEF IndInv, InvProcess, BeingLoaded, Starting, LeafOf, InUser
  <2>4. Tree!IsLeaf(prog[curThread])
    BY <2>2, LeafBar DEF IndInv, LeafOf
  <2> QED  BY <1>2, <2>2, <2>3, <2>4 DEF RunsLeaf, runningBar, LeafOf
<1> QED  BY <1>1, <1>2

(* A step that leaves the process table alone enters or leaves the kernel. *)
LEMMA DispatchStep ==
  ASSUME RunsLeaf', UNCHANGED <<PCB_ptrs, parent_pid, parent_terminal>>
  PROVE  Tree!Dispatch
<1>1. ownerBar' = ownerBar /\ parentBar' = parentBar
  BY DEF ownerBar, parentBar
<1> QED  BY <1>1 DEF RunsLeaf, Tree!Dispatch, Tree!IsLeaf

(* ExecAlloc adds a process at the end of the chain of its terminal.       *)
LEMMA SpawnStep ==
  ASSUME IndInv, TypeOK', NEW t \in Threads, ExecAlloc(t)
  PROVE  Tree!Spawn(t, child[t], cur_pid)
<1>1. /\ child[t] \in FreePids /\ cur_pid = prog[t]
      /\ prog[t] = NoPid => NoBase(t)
      /\ prog[t] # NoPid => LeafOf(t, prog[t])
      /\ t = curThread /\ t \in Threads
  BY DEF IndInv, InvExclusive, ExecAlloc, Goto, Running
<1>2. child[t] \in Pids /\ ~PCB_ptrs[child[t]] /\ TerminalOf(cur_pid) = t
  BY <1>1 DEF FreePids, TerminalOf, LeafOf
<1>3. ownerBar' = [ownerBar EXCEPT ![child[t]] = t]
  BY <1>2 DEF IndInv, TypeOK, ownerBar, ExecAlloc
<1>4. parentBar' = [parentBar EXCEPT ![child[t]] = cur_pid]
  BY <1>2 DEF IndInv, TypeOK, parentBar, ExecAlloc
<1>5. child[t] \in Tree!Free
  BY <1>2 DEF ownerBar, Tree!Free
<1>6. runningBar' = NoPid
  BY DEF IndInv, TypeOK, runningBar, InUser, ExecAlloc, Goto, Running
<1>7. CASE cur_pid = NoPid
  <2>1. \A r \in Tree!Chain(t) : parentBar[r] # NoPid
    BY <1>1, <1>7, ConstantFacts
       DEF NoBase, Tree!Chain, ownerBar, parentBar, Threads
  <2> QED  BY <1>3, <1>4, <1>5, <1>6, <1>7, <2>1 DEF Tree!Spawn
<1>8. CASE cur_pid # NoPid
  <2>1. cur_pid \in Tree!Chain(t) /\ Tree!IsLeaf(cur_pid)
    BY <1>1, <1>8, LeafBar DEF IndInv, LeafOf, Tree!Chain, ownerBar
  <2> QED  BY <1>3, <1>4, <1>5, <1>6, <2>1 DEF Tree!Spawn
<1> QED  BY <1>7, <1>8

(* Freeing the slot of a leaf takes it off the end of its chain.           *)
LEMMA ExitStep ==
  ASSUME TypeOK, TypeOK', NEW p \in Pids, PCB_ptrs[p], Leaf(p),
         PCB_ptrs' = SlotFreed(p), UNCHANGED <<parent_pid, parent_terminal>>,
         runningBar' \in {NoPid, parent_pid[p]}
  PROVE  Tree!Exit(p)
<1>1. ownerBar' = [ownerBar EXCEPT ![p] = None]
  BY DEF TypeOK, ownerBar, SlotFreed
<1>2. /\ parentBar' = [parentBar EXCEPT ![p] = NoPid]
      /\ parentBar[p] = parent_pid[p]
  BY DEF TypeOK, parentBar, SlotFreed
<1> QED  BY <1>1, <1>2, LeafBar DEF Tree!Exit

(* Every step of the kernel is a step of the chains or none.               *)
LEMMA TreeStep ==
  ASSUME IndInv, IndInv', RunsLeaf', [Next]_vars
  PROVE  Tree!TreeNext \/ UNCHANGED Tree!treeVars
<1> DEFINE Freed == \E p \in Pids : Tree!Exit(p)
<1> USE DEF Index
<1>1. ASSUME NEW t \in Threads, ExecAlloc(t) PROVE Tree!TreeNext
  <2>1. Tree!Spawn(t, child[t], cur_pid)
    BY <1>1, SpawnStep DEF IndInv
  <2>2. child[t] \in Pids /\ cur_pid \in Pids \cup {NoPid}
    BY <1>1 DEF IndInv, TypeOK, InvExclusive, ExecAlloc, Goto, FreePids
  <2> QED  BY <2>1, <2>2 DEF Tree!TreeNext
<1>2. ASSUME NEW t \in Threads, HaltBase(t) PROVE Freed
  <2>1. LeafOf(t, child[t]) /\ t = curThread
    BY <1>2 DEF IndInv, InvSettled, Settled, HaltBase, Goto, Running
  <2>2. runningBar' = NoPid
    BY <1>2, <2>1 DEF IndInv, TypeOK, runningBar, InUser, HaltBase, Goto
  <2> QED  BY <1>2, <2>1, <2>2, ExitStep DEF IndInv, LeafOf, HaltBase
<1>3. ASSUME NEW t \in Threads, HaltUnlink(t) PROVE Freed
  <2>1. LeafOf(t, child[t]) /\ t = curThread
    BY <1>3 DEF IndInv, InvExclusive, HaltUnlink, Goto, Running
  <2>2. runningBar' = NoPid
    BY <1>3, <2>1 DEF IndInv, TypeOK, runningBar, InUser, HaltUnlink, Goto
  <2> QED  BY <1>3, <2>1, <2>2, ExitStep DEF IndInv, LeafOf, HaltUnlink
<1>4. ASSUME NEW t \in Threads, ExceptionBase(t) PROVE Freed
  <2>1. LeafOf(t, cur_pid) /\ t = curThread
    BY <1>4 DEF IndInv, InvSettled, Settled, Top, ExceptionBase, Goto, Running
  <2>2. runningBar' = NoPid
    BY <1>4, <2>1 DEF IndInv, TypeOK, runningBar, InUser, ExceptionBase, Goto
  <2> QED  BY <1>4, <2>1, <2>2, ExitStep DEF IndInv, LeafOf, ExceptionBase
<1>5. ASSUME NEW t \in Threads, ExceptionChild(t) PROVE Freed
  <2>1. LeafOf(t, cur_pid) /\ t = curThread
    BY <1>5 DEF IndInv, InvSettled, Settled, Top, ExceptionChild, Running
  <2>2. /\ Settled(t)' /\ Running(t)' /\ cur_pid' = parent_pid[cur_pid]
        /\ t \in Threads /\ curThread' = t
    BY <1>5 DEF Settled, ExceptionChild, Running
  <2>3. page_dir' = cur_pid' /\ image'[cur_pid'] = cur_pid'
    BY <2>2, <1>5
       DEF IndInv, InvSettled, Top, LeafOf, InvProcess, BeingLoaded, Starting,
           ExceptionChild
  <2>4. runningBar' \in {NoPid, parent_pid[cur_pid]}
    BY <2>2, <2>3 DEF runningBar
  <2> QED  BY <1>5, <2>1, <2>4, ExitStep DEF IndInv, LeafOf, ExceptionChild
<1>6. ASSUME FinishBoot PROVE UNCHANGED <<PCB_ptrs, parent_pid, parent_terminal>>
  BY <1>6 DEF IndInv, TypeOK, InvBoot, FinishBoot
<1>7. ASSUME ~FinishBoot,
             \A t \in Threads : ~ExecAlloc(t) /\ ~HaltBase(t) /\ ~HaltUnlink(t)
                                /\ ~ExceptionBase(t) /\ ~ExceptionChild(t)
      PROVE  UNCHANGED <<PCB_ptrs, parent_pid, parent_terminal>>
  BY <1>7 DEF Next, Tick, TickStartCurrent, TickStartNext, TickSwitch,
     TickResume, BeginShell, KernelStep, Exec, ExecPick, ExecFail, ShellFail,
     ExecPaging, ExecCur, ExecFdt, ExecLoad, ExecGo, ExecReturn, Halt,
     HaltSpin, HaltPaging, HaltCur, HaltReturn, Program, SysExecute, SysHalt,
     vars, pcbs
<1>8. ASSUME UNCHANGED <<PCB_ptrs, parent_pid, parent_terminal>> PROVE Tree!TreeNext
  BY <1>8, DispatchStep DEF Tree!TreeNext
<1> QED  BY <1>1, <1>2, <1>3, <1>4, <1>5, <1>6, <1>7, <1>8 DEF Tree!TreeNext

(* With safe timing the kernel implements the chains of ProcTree: execute, *)
(* halt, exceptions and the scheduler only extend a chain at its end, take *)
(* its end away, or run the program at its end (ImplementsProcTree).       *)
THEOREM Refinement == SafeTiming => (SafetySpec => ImplementsProcTree)
<1> SUFFICES ASSUME SafeTiming PROVE SafetySpec => ImplementsProcTree
  OBVIOUS
<1>1. Init => Tree!TreeInit
  BY DEF Init, Tree!TreeInit, ownerBar, parentBar, runningBar
<1>2. IndInv /\ IndInv' /\ RunsLeaf' /\ [Next]_vars => [Tree!TreeNext]_(Tree!treeVars)
  BY TreeStep
<1> QED
  BY <1>1, <1>2, IndInvRunsLeaf, IndInvHolds, PTL
     DEF SafetySpec, ImplementsProcTree, Tree!TreeSpec


----------------------------------------------------------------------------
(* The exit status on its way from halt to the parent.                     *)

(* Every step keeps what eax_val holds for the thread that stored in it.   *)
LEMMA StatusStep ==
  ASSUME IndInv, InvStatus, InvFlags, [Next]_vars
  PROVE  InvStatus'
<1> USE DEF InvStatus, Returning, Running
<1>0. TypeOK
  BY DEF IndInv
<1>1. CASE Tick
  <2>1. UNCHANGED exits
    BY <1>1 DEF Tick, TickStartCurrent, TickStartNext, TickSwitch, BeginShell
  <2>2. \A t \in Threads : \/ pc'[t] = "exec_start"
                           \/ pc'[t] = pc[t] /\ status'[t] = status[t]
    BY <1>0, <1>1
       DEF Tick, TickStartCurrent, TickStartNext, TickSwitch, BeginShell, DropLocals, locals,
           TypeOK
  <2> QED  BY <2>1, <2>2 DEF exits
<1>2. CASE FinishBoot \/ TickResume \/ UNCHANGED vars
  BY <1>2 DEF FinishBoot, TickResume, vars, exits, locals
<1>3. ASSUME NEW t \in Threads, Exec(t), ~ShellFail(t) PROVE InvStatus'
  BY <1>0, <1>3
     DEF Exec, ExecPick, ExecFail, ExecPaging, ExecAlloc, ExecCur, ExecFdt, ExecLoad, ExecGo,
         ExecReturn, Goto, DropLocals, exits, locals, TypeOK
<1>4. ASSUME NEW t \in Threads, ShellFail(t) PROVE FALSE
  BY <1>4 DEF ShellFail, IndInv, InvExclusive
<1>5. ASSUME NEW t \in Threads, Halt(t) PROVE InvStatus'
  BY <1>0, <1>5
     DEF Halt, HaltBase, HaltSpin, HaltPaging, HaltUnlink, HaltCur, HaltReturn, Goto,
         DropLocals, exits, locals, TypeOK
<1>6. ASSUME NEW t \in Threads, NEW s \in Statuses, SysHalt(t, s) PROVE InvStatus'
  <2>1. PCB_ptrs[cur_pid] /\ cur_pid \in Pids /\ pc[t] = "user" /\ t = curThread
    BY <1>6 DEF SysHalt, Goto, IndInv, InvSettled, Settled, Top, LeafOf
  <2>2. exception_flag[cur_pid] = 0
    BY <1>0, <2>1 DEF InvFlags, IndInv, InvExclusive, Exclusive
  <2>3. eax_val' = s
    BY <1>6, <2>2, StatusesAssumption DEF SysHalt
  <2> QED  BY <1>0, <1>6, <2>1, <2>3 DEF SysHalt, Goto, TypeOK
<1>7. ASSUME NEW t \in Threads, SysExecute(t) \/ ExceptionChild(t) \/ ExceptionBase(t)
      PROVE  InvStatus'
  BY <1>0, <1>7 DEF SysExecute, ExceptionChild, ExceptionBase, Goto, exits, locals, TypeOK
<1> QED
  BY <1>1, <1>2, <1>3, <1>4, <1>5, <1>6, <1>7 DEF Next, KernelStep, Program

LEMMA FlagsStep ==
  ASSUME SafeTiming, IndInv, InvFlags, [Next]_vars
  PROVE  InvFlags'
<1> USE DEF InvFlags
<1>0. TypeOK
  BY DEF IndInv
<1>1. CASE Tick
  <2>1. UNCHANGED <<PCB_ptrs, exception_flag>>
    BY <1>1 DEF Tick, TickStartCurrent, TickStartNext, TickSwitch, BeginShell, pcbs
  <2>2. \A t \in Threads : pc[t] # "exec_alloc"
    BY <1>1, Interrupted
       DEF Tick, TickStartCurrent, TickStartNext, TickSwitch, SafePoints, IndInv,
           InvExclusive, InvBoot, Exclusive, Running
  <2> QED  BY <2>1, <2>2
<1>2. CASE FinishBoot \/ TickResume \/ UNCHANGED vars
  BY <1>0, <1>2 DEF FinishBoot, TickResume, vars, pcbs, locals, TypeOK
<1>3. ASSUME NEW t \in Threads, ExecAlloc(t) PROVE InvFlags'
  <2>1. child[t] \in Pids
    BY <1>3 DEF ExecAlloc, Goto, IndInv, InvExclusive, FreePids
  <2>2. \A u \in Threads : pc[u] # "exec_alloc"
    BY <1>3 DEF ExecAlloc, Goto, IndInv, InvExclusive, Exclusive, Running
  <2> QED  BY <1>0, <1>3, <2>1, <2>2 DEF ExecAlloc, Goto, locals, TypeOK
<1>4. ASSUME NEW t \in Threads, ExecCur(t) PROVE InvFlags'
  <2>1. child[t] \in Pids
    BY <1>4 DEF ExecCur, Goto, IndInv, InvExclusive, LeafOf
  <2>2. \A u \in Threads : pc[u] = "exec_alloc" => u = t
    BY <1>4 DEF ExecCur, Goto, IndInv, InvExclusive, Exclusive, Running
  <2> QED  BY <1>0, <1>4, <2>1, <2>2 DEF ExecCur, Goto, FlagCleared, locals, TypeOK
<1>5. ASSUME NEW t \in Threads, ShellFail(t) PROVE FALSE
  BY <1>5 DEF ShellFail, IndInv, InvExclusive
<1>6. ASSUME NEW t \in Threads, ExecPick(t) \/ ExecFail(t) \/ ExecPaging(t) \/ ExecFdt(t)
                                \/ ExecLoad(t) \/ ExecGo(t) \/ ExecReturn(t)
      PROVE  InvFlags'
  BY <1>0, <1>6
     DEF ExecPick, ExecFail, ExecPaging, ExecFdt, ExecLoad, ExecGo, ExecReturn, Goto,
         DropLocals, pcbs, locals, TypeOK
<1>7. ASSUME NEW t \in Threads, Halt(t) PROVE InvFlags'
  BY <1>0, <1>7
     DEF Halt, HaltBase, HaltSpin, HaltPaging, HaltUnlink, HaltCur, HaltReturn, Goto,
         DropLocals, SlotFreed, pcbs, locals, TypeOK
<1>8. ASSUME NEW t \in Threads, Program(t) PROVE InvFlags'
  BY <1>0, <1>8
     DEF Program, SysExecute, SysHalt, ExceptionChild, ExceptionBase, Goto, SlotFreed,
         pcbs, locals, TypeOK
<1> QED
  BY <1>1, <1>2, <1>3, <1>4, <1>5, <1>6, <1>7, <1>8 DEF Next, KernelStep, Exec

(* execute returns to the parent the status its child passed to halt       *)
(* (ExitStatusReturned), for every status and any number of switches on    *)
(* the way, unless another thread stores in eax_val: no flag of an earlier *)
(* process of the slot is added to it.                                     *)
THEOREM ExitStatus == SafeTiming => (SafetySpec => []ExitStatusReturned)
<1> SUFFICES ASSUME SafeTiming PROVE SafetySpec => []ExitStatusReturned
  OBVIOUS
<1>1. Init => InvStatus /\ InvFlags
  BY DEF Init, InvStatus, InvFlags, Returning
<1>2. IndInv /\ InvStatus /\ InvFlags /\ [Next]_vars => InvStatus' /\ InvFlags'
  BY StatusStep, FlagsStep
<1>3. InvStatus => ExitStatusReturned
  BY DEF InvStatus, ExitStatusReturned, Returning
<1> QED  BY <1>1, <1>2, <1>3, IndInvHolds, PTL DEF SafetySpec
=============================================================================
