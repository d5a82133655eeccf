------------------------------ MODULE MCSched ------------------------------
(* Instances of Sched for TLC: the kernel points at which a run lets the   *)
(* timer tick arrive.                                                      *)
EXTENDS SchedInv

SafeTicks  == SafePoints
(* Fewer of them, for a graph small enough for the liveness properties.    *)
LiveTicks  == SafePoints \ {"halt_begin", "exec_ret"}
(* Each of these adds one window in which a tick does harm.                *)
PidTicks   == SafePoints \cup {"exec_pid"}
PageTicks  == SafePoints \cup {"exec_alloc"}
HaltTicks  == SafePoints \cup {"halt_paged"}
ShellTicks == SafePoints \cup {"pit_exec"}
BootTicks  == SafePoints \cup {"boot"}
=============================================================================
