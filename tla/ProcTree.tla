------------------------------ MODULE ProcTree ------------------------------
(***************************************************************************)
(* What execute, halt and the scheduler promise together, without the      *)
(* kernel's globals.  Every terminal owns one chain of processes that      *)
(* starts at its base shell.  execute adds a free process to the end of a  *)
(* chain, halt takes the last one away, and the CPU runs programs only     *)
(* from the ends of chains.                                                *)
(***************************************************************************)
EXTENDS Integers

CONSTANTS Threads, Pids, NoPid, None

VARIABLES
  owner,    \* owner[p]: the terminal of process p, None when p is free
  parent,   \* parent[p]: the process that executed p, NoPid for a base shell
  running   \* the process whose program the CPU executes, NoPid in the kernel

treeVars == <<owner, parent, running>>

Free == {p \in Pids : owner[p] = None}

Chain(t) == {p \in Pids : owner[p] = t}

(* The last process of a chain.                                            *)
IsLeaf(p) == owner[p] # None /\ \A q \in Pids : owner[q] # None => parent[q] # p

TreeInit ==
  /\ owner = [p \in Pids |-> None]
  /\ parent = [p \in Pids |-> NoPid]
  /\ running = NoPid

(* A base shell of a terminal that has none, or a child of the leaf.       *)
Spawn(t, p, q) ==
  /\ p \in Free
  /\ \/ q = NoPid /\ \A r \in Chain(t) : parent[r] # NoPid
     \/ q \in Chain(t) /\ IsLeaf(q)
  /\ owner' = [owner EXCEPT ![p] = t]
  /\ parent' = [parent EXCEPT ![p] = q]
  /\ running' = NoPid

(* The leaf leaves; its parent may go on at once.                          *)
Exit(p) ==
  /\ IsLeaf(p)
  /\ owner' = [owner EXCEPT ![p] = None]
  /\ parent' = [parent EXCEPT ![p] = NoPid]
  /\ running' \in {NoPid, parent[p]}

(* The CPU enters the kernel, or leaves it for the program of a leaf.      *)
Dispatch ==
  /\ running' = NoPid \/ (running' \in Pids /\ IsLeaf(running'))
  /\ UNCHANGED <<owner, parent>>

TreeNext ==
  \/ \E t \in Threads, p \in Pids, q \in Pids \cup {NoPid} : Spawn(t, p, q)
  \/ \E p \in Pids : Exit(p)
  \/ Dispatch

TreeSpec == TreeInit /\ [][TreeNext]_treeVars
=============================================================================
