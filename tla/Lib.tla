-------------------------------- MODULE Lib --------------------------------
(***************************************************************************)
(* The library of the kernel, lib.c, as its callers see it: the functions  *)
(* on memory and strings and printf, one call at a time.  (Its functions   *)
(* for the screens are in Screen.)                                         *)
(***************************************************************************)
EXTENDS Mem, Printf

vars == <<memVars, printfVars>>

Init == MemInit /\ PrintfInit

(* Whoever calls a function waits until it returns.                        *)
OnMemory == pc = "idle" /\ MemNext /\ UNCHANGED printfVars
Printing == call = NoCall /\ PrintfNext /\ UNCHANGED memVars
Next == OnMemory \/ Printing

SafetySpec == Init /\ [][Next]_vars
=============================================================================
