-------------------------------- MODULE Args -------------------------------
(***************************************************************************)
(* Program arguments: how sys_execute takes a command apart, where it puts *)
(* the arguments, and what sys_getargs gives to the program.  The actions  *)
(* are parts of those of module Calls.                                     *)
(*                                                                         *)
(* Processes form a chain, as in Files.  The local array args is written   *)
(* only if the command has arguments; otherwise it holds what was on the   *)
(* kernel stack (Residue).                                                 *)
(***************************************************************************)
EXTENDS Integers, Sequences, SequencesExt

CONSTANTS
  FNAME_SIZE,   \* bytes of fname (32)
  ARG_SIZE,     \* bytes of args and of arg_ptr (128)
  Depth,        \* processes that may be nested
  Executables,  \* names of the programs in the file system
  Residue       \* what an uninitialised args may hold

NUL == "NUL"
SPACE == " "
ERROR_VAL == -1
ARG_NULL_TERMINATOR_INDEX == ARG_SIZE - 1

Processes == 0..(Depth - 1)

ArgBytes == 0..(ARG_SIZE - 1)

VARIABLES
  cur_pid,  \* the process that runs; its ancestors are the smaller numbers
  arg_ptr,  \* per PCB
  typed,    \* the command each process was executed with
  buf, ret, \* buffer and result of the last getargs
  nbytes    \* size passed to it, -1 if none

----------------------------------------------------------------------------
(* command[i], with the terminating NUL.                                   *)
CharAt(command, i) == IF i < Len(command) THEN command[i + 1] ELSE NUL

(* The index where the loop over the name stops.                           *)
NameEnds(command, i) == CharAt(command, i) \in {NUL, SPACE} \/ i = FNAME_SIZE
NameLength(command) ==
  CHOOSE i \in 0..Len(command) :
    NameEnds(command, i) /\ \A j \in 0..(i - 1) : ~NameEnds(command, j)
fname(command) == SubSeq(command, 1, NameLength(command))

(* The index where the arguments begin.                                    *)
OneSpaceSkipped(command) ==
  NameLength(command) + (IF CharAt(command, NameLength(command)) = SPACE THEN 1 ELSE 0)
SpacesSkipped(command) ==
  CHOOSE i \in NameLength(command)..Len(command) :
    /\ CharAt(command, i) # SPACE
    /\ \A j \in NameLength(command)..(i - 1) : CharAt(command, j) = SPACE

HasArgs(command) == CharAt(command, SpacesSkipped(command)) # NUL

(* strncpy of the rest of the command into args, and its terminator.       *)
ParsedArgs(command) ==
  [k \in ArgBytes |-> IF k = ARG_NULL_TERMINATOR_INDEX THEN NUL
                      ELSE CharAt(command, SpacesSkipped(command) + k)]

(* strncpy of n bytes: all are NUL after the first.                        *)
strncpy(src) ==
  [k \in ArgBytes |-> IF \E j \in 0..k : src[j] = NUL THEN NUL ELSE src[k]]

----------------------------------------------------------------------------
Empty == [k \in ArgBytes |-> NUL]

Init ==
  /\ arg_ptr = [p \in Processes |-> Empty]
  /\ typed = [p \in Processes |-> <<>>]
  /\ buf = Empty /\ nbytes = -1

(* Another call than getargs returns; what was in buf is forgotten.        *)
Forget == nbytes' = -1 /\ buf' = Empty
OtherCall == Forget /\ UNCHANGED <<arg_ptr, typed>>

(* sys_execute: the command runs if it names a program.                    *)
Execute(command) ==
  /\ cur_pid + 1 < Depth
  /\ fname(command) \in Executables
  /\ \E args \in IF HasArgs(command) THEN {ParsedArgs(command)} ELSE Residue :
       arg_ptr' = [arg_ptr EXCEPT ![cur_pid + 1] = strncpy(args)]
  /\ typed' = [typed EXCEPT ![cur_pid + 1] = command]
  /\ Forget

ExecuteFails(command) ==
  /\ cur_pid + 1 = Depth \/ fname(command) \notin Executables
  /\ OtherCall

(* The PCB is given up; what its slot holds is written before it is read   *)
(* again.                                                                  *)
Halt ==
  /\ typed' = [typed EXCEPT ![cur_pid] = <<>>]
  /\ arg_ptr' = [arg_ptr EXCEPT ![cur_pid] = Empty]
  /\ Forget

sys_getargs(n) ==
  /\ IF n < 0 THEN ret' = ERROR_VAL /\ buf' = Empty
     ELSE /\ buf' = strncpy(arg_ptr[cur_pid])
          /\ ret' = IF buf'[ARG_NULL_TERMINATOR_INDEX] # NUL THEN ERROR_VAL ELSE 0
  /\ nbytes' = n /\ UNCHANGED <<cur_pid, arg_ptr, typed>>

----------------------------------------------------------------------------
(* What a user means by a command: a word, spaces, and the arguments.      *)
Word(command) ==
  CHOOSE word \in Prefixes(command) :
    /\ \A i \in DOMAIN word : word[i] # SPACE
    /\ Len(word) = Len(command) \/ command[Len(word) + 1] = SPACE
Meant(command, args) ==
  /\ args # <<>> => args[1] # SPACE
  /\ \E n \in 0..Len(command) :
       /\ command = Word(command) \o [i \in 1..n |-> SPACE] \o args
       /\ args # <<>> => n > 0

Meaning(command) == CHOOSE args \in Suffixes(command) : Meant(command, args)

(* A successful getargs gives the program the arguments of the command it  *)
(* was executed with, whatever it has executed itself in the meantime,     *)
(* cut to what fits.  A command without arguments says nothing: then the   *)
(* program gets what was on the kernel stack.                              *)
GetsOwnArgs ==
  nbytes >= 0 /\ ret = 0 =>
    LET command == typed[cur_pid]
        args == Meaning(command)
    IN Len(Word(command)) <= FNAME_SIZE /\ args # <<>> =>
         \A k \in 0..(ARG_SIZE - 2) : buf[k] = IF k < Len(args) THEN args[k + 1] ELSE NUL
=============================================================================
