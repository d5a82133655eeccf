----------------------------- MODULE SchedInv ------------------------------
(***************************************************************************)
(* The inductive invariant of Sched when ticks arrive only at SafePoints   *)
(* and no program calls execute before all base shells have started.       *)
(***************************************************************************)
EXTENDS Sched

(* The condition under which the scheduler is correct.                     *)
SafeTiming == TickPoints \subseteq SafePoints /\ ~EarlyExecute

(* The process the scheduler has on record for a thread.                   *)
Top(t) == IF t = curThread THEN cur_pid ELSE PIDstore[t]

(* No process is a child of p.                                             *)
Leaf(p) == \A q \in Pids : PCB_ptrs[q] => parent_pid[q] # p

(* Terminal t has no base shell.                                           *)
NoBase(t) == \A q \in Pids : PCB_ptrs[q] /\ parent_terminal[q] = t => parent_pid[q] # NoPid

(* p is a process of terminal t without a child.                           *)
LeafOf(t, p) == p \in Pids /\ PCB_ptrs[p] /\ parent_terminal[p] = t /\ Leaf(p)

Starting == {"exec_alloc", "exec_cur", "exec_fdt"}

(* The program of p is still to be loaded by the sys_execute that made p.  *)
BeingLoaded(p) == /\ child[parent_terminal[p]] = p
                  /\ pc[parent_terminal[p]] \in Starting

(* The thread goes on in, or on behalf of, an existing program.            *)
Settled(t) == \/ pc[t] \in {"user", "exec_ret", "halt_begin"}
              \/ pc[t] = "exec_start" /\ prog[t] # NoPid

(* The thread runs in one of the blocks no tick may interrupt.             *)
Exclusive == {"exec_pid", "exec_paged", "exec_alloc", "halt_freed",
              "halt_paged", "halt_unlinked", "halt_cur", "spin", "dead"}

InvSettled ==
  \A t \in Threads : Settled(t) =>
    /\ LeafOf(t, prog[t])
    /\ Top(t) = prog[t]
    /\ t = curThread => page_dir = prog[t] /\ fdt = prog[t] /\ esp0 = prog[t]
    /\ t # curThread \/ pitTail # None => ESPstore[t] = prog[t]
    /\ Running(t) /\ pc[t] # "user" => kstack[t] = prog[t]
    /\ pc[t] = "halt_begin" => /\ child[t] = prog[t]
                               /\ parents_pid[t] = parent_pid[prog[t]]

InvLoading ==
  \A t \in Threads : pc[t] \in {"exec_cur", "exec_fdt", "exec_go"} =>
    /\ LeafOf(t, child[t])
    /\ Top(t) = child[t]
    /\ parent_pid[child[t]] = prog[t]
    /\ t = curThread => page_dir = child[t]
    /\ pc[t] # "exec_cur" => /\ pde[child[t]] = child[t]
                             /\ t = curThread => fdt = child[t]
    /\ pc[t] = "exec_go" /\ t = curThread => esp0 = child[t]
    /\ t # curThread \/ pitTail # None => prog[t] # NoPid /\ ESPstore[t] = prog[t]
    /\ Running(t) /\ prog[t] # NoPid => kstack[t] = prog[t]

InvExclusive ==
  \A t \in Threads :
    /\ pc[t] \in Exclusive => Running(t)
    /\ pc[t] = "exec_start" /\ prog[t] = NoPid =>
         Running(t) /\ cur_pid = NoPid /\ NoBase(t) /\ FreePids # {}
    /\ pc[t] \in {"exec_pid", "exec_paged"} =>
         /\ child[t] \in FreePids /\ cur_pid = prog[t]
         /\ prog[t] = NoPid => NoBase(t)
         /\ prog[t] # NoPid => LeafOf(t, prog[t]) /\ kstack[t] = prog[t]
    /\ pc[t] = "exec_pid" /\ prog[t] # NoPid =>
         page_dir = prog[t] /\ fdt = prog[t] /\ esp0 = prog[t]
    /\ pc[t] = "exec_paged" => page_dir = child[t]
    /\ pc[t] = "exec_alloc" =>
         /\ LeafOf(t, child[t]) /\ page_dir = child[t]
         /\ parent_pid[child[t]] = cur_pid /\ cur_pid = prog[t]
         /\ prog[t] # NoPid => kstack[t] = prog[t]
    /\ pc[t] \in {"halt_freed", "spin", "dead"} => NoBase(t)
    /\ pc[t] \in {"halt_freed", "spin"} => FreePids # {}
    /\ pc[t] = "halt_paged" =>
         /\ LeafOf(t, child[t]) /\ cur_pid = child[t]
         /\ parents_pid[t] = parent_pid[child[t]]
    /\ pc[t] \in {"halt_unlinked", "halt_cur"} => LeafOf(t, parents_pid[t])
    /\ pc[t] \in {"halt_paged", "halt_unlinked", "halt_cur"} =>
         /\ parents_pid[t] \in Pids /\ reg_esp[t] = parents_pid[t]
         /\ page_dir = parents_pid[t] /\ fdt = parents_pid[t]
    /\ pc[t] = "halt_cur" => cur_pid = parents_pid[t]
    /\ shellStarted[t] = 0 <=> pc[t] \in {"off", "spin", "dead"}

InvProcess ==
  \A p \in Pids : PCB_ptrs[p] =>
    /\ ~BeingLoaded(p) =>
         /\ pde[p] = p /\ image[p] = p
         /\ parent_pid[p] # NoPid => esp[p] = parent_pid[p]
    /\ parent_pid[p] # NoPid =>
         /\ PCB_ptrs[parent_pid[p]]
         /\ parent_terminal[parent_pid[p]] = parent_terminal[p]
    /\ \A q \in Pids : /\ PCB_ptrs[q]
                       /\ parent_terminal[p] = parent_terminal[q]
                       /\ parent_pid[p] = parent_pid[q]
                       => p = q

(* While the base shells are being started, thread t's is process t.       *)
InvBoot ==
  /\ boot # "left" => /\ curThread = 0 /\ pitTail = None
                      /\ \A t \in Threads : pc[t] = "off"
                      /\ \A p \in Pids : ~PCB_ptrs[p]
  /\ boot # "init" => fops
  /\ boot = "left" => pc[curThread] # "off"
  /\ image[NoPid] = NoPid
  /\ \A t \in Threads : pc[t] = "off" =>
       /\ \A u \in Threads : boot = "left" /\ u <= curThread => pc[u] # "off"
       /\ \A u \in Threads : boot = "left" /\ u > curThread => pc[u] = "off"
       /\ \A p \in Pids : PCB_ptrs[p] => /\ parent_terminal[p] = p
                                         /\ parent_pid[p] = NoPid
                                         /\ p <= curThread
       /\ pc[curThread] = "exec_start" => prog[curThread] = NoPid
       /\ pc[curThread] \in {"exec_pid", "exec_paged"} => child[curThread] = curThread

(* What the types alone need: sys_halt works on an existing process id.    *)
TypeInd == TypeOK /\ \A t \in Threads : pc[t] \in HaltPoints => child[t] \in Pids

(* Inductive: whatever a thread is suspended in, the process on record for *)
(* it is the leaf of its chain, and the stack and frame of that process    *)
(* are the ones its kernel code goes on with.                              *)
IndInv == TypeOK /\ InvSettled /\ InvLoading /\ InvExclusive /\ InvProcess /\ InvBoot

Returning == {"halt_begin", "halt_paged", "halt_unlinked", "halt_cur", "exec_ret"}

(* While a thread carries a status and no other thread has stored in       *)
(* eax_val, eax_val is that status.                                        *)
InvStatus ==
  \A t \in Threads : pc[t] \in Returning /\ eax_thread = t => eax_val = status[t]

(* A process has its exception_flag only from an earlier process of its    *)
(* slot, until sys_execute clears it.                                      *)
InvFlags ==
  \A p \in Pids : PCB_ptrs[p] /\ exception_flag[p] # 0 =>
    \E t \in Threads : pc[t] = "exec_alloc" /\ child[t] = p
=============================================================================
