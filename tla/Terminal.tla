------------------------------ MODULE Terminal ------------------------------
(***************************************************************************)
(* The keyboard buffers of the terminals: KBhandler filling them and       *)
(* terminalRead emptying them.                                             *)
(*                                                                         *)
(* Interrupts have trap gates (idt_init.c:326), which leave them enabled,  *)
(* and the timer's IRQ 0 precedes the keyboard's IRQ 1: a tick may preempt *)
(* KBhandler between any two statements and let a reading program run.     *)
(* Another key cannot arrive before the EOI at the end of KBhandler.       *)
(* terminalRead copies and clears with interrupts disabled; it refuses a   *)
(* negative nbytes, and an nbytes of 0 copies nothing (neither is in       *)
(* ReadSizes).  Modifier keys are in module Keyboard.                      *)
(***************************************************************************)
EXTENDS Integers, Sequences, FiniteSets

CONSTANTS
  NUM_TERMINALS,  \* terminals (lib.h:13)
  BUF_SIZE,       \* characters of a keyboard buffer (terminal.h:13)
  Chars,          \* what the character keys produce, '\n' aside
  NL, NUL, Junk,  \* '\n', 0, and what memory next to the buffers holds
  ReadSizes,      \* the nbytes programs pass to terminalRead
  TypeAhead,      \* may keys arrive before a completed line is read?
  MaxStray        \* bound: cells by which buf_loc may have left its row

ASSUME TerminalsAssumption == NUM_TERMINALS \in Nat /\ NUM_TERMINALS >= 1
ASSUME BufSizeAssumption == BUF_SIZE \in Nat /\ BUF_SIZE >= 2
ASSUME CharsAssumption == {NL, NUL, Junk} \cap Chars = {} /\ Cardinality({NL, NUL, Junk}) = 3
ASSUME ReadSizesAssumption == ReadSizes \subseteq Nat \ {0}
ASSUME TypeAheadAssumption == TypeAhead \in BOOLEAN
ASSUME MaxStrayAssumption == MaxStray \in Nat

Terminals == 0..(NUM_TERMINALS - 1)
Cells     == 0..(NUM_TERMINALS * BUF_SIZE - 1)

VARIABLES
  currentTerminal,
  KBbuf,          \* the two-dimensional array, row after row
  buf_loc, readWaiting, readReady,
  kb,             \* KBhandler: the statement to execute next, "idle" outside it
  key,            \* local c of KBhandler
  want,           \* want[t]: nbytes of the terminalRead waiting on t, 0 if none
  got,            \* got[t]: the bytes the last terminalRead on t returned
  ahead           \* history: terminals whose user pressed Enter or Backspace
                  \* on a line that had been ended and not been read

bufs == <<KBbuf, buf_loc, readWaiting, readReady>>
vars == <<currentTerminal, bufs, kb, key, want, got, ahead>>

(* KBbuf[t][i] in C: row t may be left at either end.                      *)
Cell(t, i) == t * BUF_SIZE + i
Load(m, t, i) == IF Cell(t, i) \in DOMAIN m THEN m[Cell(t, i)] ELSE Junk
Store(m, t, i, c) == [m EXCEPT ![Cell(t, i)] = c]

(* State after terminalOpen, called once, by entry().                      *)
Init ==
  /\ currentTerminal = 0
  /\ KBbuf = [x \in Cells |-> NUL]
  /\ buf_loc = [t \in Terminals |-> 0]
  /\ readWaiting = [t \in Terminals |-> 0]
  /\ readReady = [t \in Terminals |-> 0]
  /\ kb = "idle" /\ key = NUL
  /\ want = [t \in Terminals |-> 0]
  /\ got = [t \in Terminals |-> <<>>]
  /\ ahead = {}

----------------------------------------------------------------------------
(* A key interrupt: KBhandler up to the first change of a buffer.          *)
KeyArrives ==
  /\ kb = "idle" /\ (TypeAhead \/ readReady[currentTerminal] = 0)
  /\ TypeAhead => buf_loc[currentTerminal] \in (-MaxStray)..(BUF_SIZE + MaxStray)

EditsAhead ==
  ahead' = IF readReady[currentTerminal] = 1 THEN ahead \cup {currentTerminal} ELSE ahead

RoomUnchecked == TRUE
Room == buf_loc[currentTerminal] < BUF_SIZE - 1

KeyChar(c) ==
  /\ KeyArrives
  /\ Room
  /\ kb' = "store" /\ key' = c
  /\ UNCHANGED <<currentTerminal, bufs, want, got, ahead>>

(* Enter is accepted in a full buffer too.                                 *)
KeyEnter ==
  /\ KeyArrives
  /\ kb' = IF readWaiting[currentTerminal] = 1 THEN "store" ELSE "flush"
  /\ key' = NL
  /\ EditsAhead
  /\ UNCHANGED <<currentTerminal, bufs, want, got>>

KeyBackspace ==
  /\ KeyArrives
  /\ buf_loc[currentTerminal] # 0
  /\ kb' = "erase"
  /\ EditsAhead
  /\ UNCHANGED <<currentTerminal, bufs, key, want, got>>

(* Alt and a function key; the video side of the switch is not here.       *)
KeySwitch(t) ==
  /\ kb = "idle"
  /\ t # currentTerminal
  /\ currentTerminal' = t
  /\ UNCHANGED <<bufs, kb, key, want, got, ahead>>

(* The character, or the newline, goes into the buffer ...                 *)
KBstore ==
  /\ kb = "store"
  /\ KBbuf' = Store(KBbuf, currentTerminal, buf_loc[currentTerminal], key)
  /\ kb' = "advance"
  /\ UNCHANGED <<currentTerminal, buf_loc, readWaiting, readReady, key, want, got, ahead>>

KBadvance ==
  /\ kb = "advance"
  /\ buf_loc' = [buf_loc EXCEPT ![currentTerminal] = @ + 1]
  /\ kb' = IF key = NL THEN "ready" ELSE "idle"
  /\ key' = IF key = NL THEN NL ELSE NUL
  /\ UNCHANGED <<currentTerminal, KBbuf, readWaiting, readReady, want, got, ahead>>

(* ... and a newline releases the waiting program.                         *)
KBreadyLost ==
  /\ kb = "ready"
  /\ readReady' = [readReady EXCEPT ![currentTerminal] = 0]
  /\ kb' = "idle" /\ key' = NUL
  /\ UNCHANGED <<currentTerminal, KBbuf, buf_loc, readWaiting, want, got, ahead>>

KBready ==
  /\ kb = "ready"
  /\ readReady' = [readReady EXCEPT ![currentTerminal] = 1]
  /\ kb' = "idle" /\ key' = NUL
  /\ UNCHANGED <<currentTerminal, KBbuf, buf_loc, readWaiting, want, got, ahead>>

(* A newline no program waits for empties the buffer, from the end.        *)
KBflush ==
  /\ kb = "flush"
  /\ IF buf_loc[currentTerminal] > 0
     THEN /\ buf_loc' = [buf_loc EXCEPT ![currentTerminal] = @ - 1]
          /\ kb' = "flushzero" /\ key' = key
     ELSE buf_loc' = buf_loc /\ kb' = "idle" /\ key' = NUL
  /\ UNCHANGED <<currentTerminal, KBbuf, readWaiting, readReady, want, got, ahead>>

KBflushzero ==
  /\ kb = "flushzero"
  /\ KBbuf' = Store(KBbuf, currentTerminal, buf_loc[currentTerminal], NUL)
  /\ kb' = "flush"
  /\ UNCHANGED <<currentTerminal, buf_loc, readWaiting, readReady, key, want, got, ahead>>

(* Backspace: step back, then clear the cell.                              *)
KBerase ==
  /\ kb = "erase"
  /\ buf_loc' = [buf_loc EXCEPT ![currentTerminal] = @ - 1]
  /\ kb' = "zero"
  /\ UNCHANGED <<currentTerminal, KBbuf, readWaiting, readReady, key, want, got, ahead>>

KBzero ==
  /\ kb = "zero"
  /\ KBbuf' = Store(KBbuf, currentTerminal, buf_loc[currentTerminal], NUL)
  /\ kb' = "idle"
  /\ UNCHANGED <<currentTerminal, buf_loc, readWaiting, readReady, key, want, got, ahead>>

----------------------------------------------------------------------------
(* terminalRead by the running process of terminal t: announce, ...        *)
ReadCall(t, n) ==
  /\ want[t] = 0
  /\ want' = [want EXCEPT ![t] = n]
  /\ readWaiting' = [readWaiting EXCEPT ![t] = 1]
  /\ UNCHANGED <<currentTerminal, KBbuf, buf_loc, readReady, kb, key, got, ahead>>

(* The number of bytes copied: up to and with the first newline, at most n.*)
BytesToCopyNoNewline(t, n) ==
  CHOOSE k \in 1..n :
    /\ k = n \/ Load(KBbuf, t, k) = NL
    /\ \A j \in 1..(k - 1) : Load(KBbuf, t, j) # NL
BytesToCopy(t, n) ==
  CHOOSE k \in 1..n :
    /\ k = n \/ Load(KBbuf, t, k - 1) = NL
    /\ \A j \in 0..(k - 2) : Load(KBbuf, t, j) # NL

ClearedKept(t) == KBbuf
Cleared(t) == [x \in Cells |->
                 IF x \in Cell(t, 0)..Cell(t, BUF_SIZE - 1) THEN NUL ELSE KBbuf[x]]

(* ... spin until readReady, then, with interrupts off, copy and clear the *)
(* buffer and the flags.                                                   *)
ReadCopy(t) ==
  /\ want[t] # 0
  /\ readReady[t] = 1
  /\ got' = [got EXCEPT ![t] =
               [k \in 1..BytesToCopy(t, want[t]) |-> Load(KBbuf, t, k - 1)]]
  /\ KBbuf' = Cleared(t)
  /\ readReady' = [readReady EXCEPT ![t] = 0]
  /\ readWaiting' = [readWaiting EXCEPT ![t] = 0]
  /\ buf_loc' = [buf_loc EXCEPT ![t] = 0]
  /\ want' = [want EXCEPT ![t] = 0]
  /\ ahead' = IF t = currentTerminal /\ kb # "idle" THEN ahead ELSE ahead \ {t}
  /\ UNCHANGED <<currentTerminal, kb, key>>

----------------------------------------------------------------------------
KBhandler == \/ KBstore \/ KBadvance \/ KBready
             \/ KBflush \/ KBflushzero \/ KBerase \/ KBzero

Keys == KeyEnter \/ KeyBackspace \/ (\E c \in Chars : KeyChar(c))
        \/ (\E t \in Terminals : KeySwitch(t))

Next == Keys \/ KBhandler
        \/ \E t \in Terminals : ReadCopy(t) \/ \E n \in ReadSizes : ReadCall(t, n)

(* KBhandler ends and, every thread being scheduled again and again, a     *)
(* spinning reader sees readReady.                                         *)
Fairness == WF_vars(KBhandler) /\ \A t \in Terminals : WF_vars(ReadCopy(t))

SafetySpec == Init /\ [][Next]_vars
Spec == SafetySpec /\ Fairness

----------------------------------------------------------------------------
(* Types of all variables; with TypeAhead buf_loc can leave its buffer.    *)
TypeOK ==
  /\ currentTerminal \in Terminals
  /\ KBbuf \in [Cells -> Chars \cup {NL, NUL}]
  /\ buf_loc \in [Terminals -> IF TypeAhead THEN Int ELSE 0..BUF_SIZE]
  /\ readWaiting \in [Terminals -> {0, 1}]
  /\ readReady \in [Terminals -> {0, 1}]
  /\ kb \in {"idle", "store", "advance", "ready", "flush", "flushzero", "erase", "zero"}
  /\ key \in Chars \cup {NL, NUL}
  /\ want \in [Terminals -> ReadSizes \cup {0}]
  /\ DOMAIN got = Terminals
  /\ ahead \subseteq Terminals

(* KBhandler indexes a terminal's buffer inside its own BUF_SIZE cells,    *)
(* wherever reads preempt it and whatever is typed before a line is read,  *)
(* but for one thing: after an Enter or a Backspace on an ended line that  *)
(* no program has read, buf_loc may be on either side of the row until the *)
(* next read that KBhandler does not overlap.                              *)
StoresInBounds ==
  kb \in {"store", "zero", "flushzero"} /\ currentTerminal \notin ahead =>
    buf_loc[currentTerminal] \in 0..(BUF_SIZE - 1)

(* A read returns one line: characters the user typed up to and with the   *)
(* newline, or as many of them as the program asked for.                   *)
ReadsOneLine ==
  [][\A t \in Terminals : got'[t] # got[t] =>
       /\ \A k \in 1..(Len(got'[t]) - 1) : got'[t][k] \in Chars
       /\ got'[t][Len(got'[t])] = NL \/ Len(got'[t]) = want[t]]_vars

(* The line typed so far is at the front of the buffer, and the rest of    *)
(* the buffer is clear: nothing of an earlier line is left in it.          *)
BufferHoldsLine ==
  kb = "idle" => \A t \in Terminals :
    /\ buf_loc[t] \in 0..BUF_SIZE
    /\ \A i \in 0..(BUF_SIZE - 1) :
         /\ i >= buf_loc[t] => Load(KBbuf, t, i) = NUL
         /\ i < buf_loc[t] => \/ Load(KBbuf, t, i) \in Chars
                              \/ /\ Load(KBbuf, t, i) = NL
                                 /\ i = buf_loc[t] - 1 /\ readReady[t] = 1

(* Enter wakes the program that waits on the displayed terminal.           *)
EnterWakesReader ==
  \A t \in Terminals :
    (kb = "store" /\ key = NL /\ currentTerminal = t) ~> want[t] = 0

(* The driver implements LineDiscipline.  A line counts as ended, and a    *)
(* character as typed or erased, when the last statement for it is done; a *)
(* line that no program waits for is gone when its emptying begins.        *)
Typed(t) ==
  LET n == IF t # currentTerminal THEN buf_loc[t]
           ELSE IF kb \in {"flush", "flushzero"} THEN 0
           ELSE IF kb = "zero" THEN buf_loc[t] + 1
           ELSE IF kb = "ready" THEN buf_loc[t] - 1
           ELSE buf_loc[t]
  IN IF readReady[t] = 1 THEN n - 1 ELSE n

lineBar  == [t \in Terminals |-> [k \in 1..Typed(t) |-> Load(KBbuf, t, k - 1)]]
endedBar == [t \in Terminals |-> readReady[t] = 1]

Discipline == INSTANCE LineDiscipline
  WITH MaxLine <- BUF_SIZE - 1, shown <- currentTerminal, line <- lineBar,
       asked <- want, ended <- endedBar

(* Keys, Enter, reads and terminal switches have the effects LineDiscipline*)
(* allows, and no others, wherever ticks preempt KBhandler.                *)
ImplementsDiscipline == Discipline!LDSpec
=============================================================================
