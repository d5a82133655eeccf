------------------------------ MODULE Keyboard ------------------------------
(***************************************************************************)
(* Scan codes: how KBhandler follows the modifier keys and turns a key     *)
(* into a character, an erasure, a cleared screen or a terminal switch.    *)
(* What it then does to the line buffer is in module Terminal.             *)
(*                                                                         *)
(* No second key interrupt comes before the EOI, and nothing else writes   *)
(* the flags, so one scan code (with its 0xE0 prefix) is one step.         *)
(***************************************************************************)
EXTENDS Integers, FiniteSets

CONSTANTS
  NUM_TERMINALS   \* terminals, switched to with F1, F2, ... (lib.h:13)

ASSUME TerminalsAssumption == NUM_TERMINALS \in Nat \ {0}

Terminals == 0..(NUM_TERMINALS - 1)

CtrlAlt   == {"ctrlL", "ctrlR", "altL", "altR"}
Shifts    == {"shiftL", "shiftR"}
Modifiers == CtrlAlt \cup Shifts

(* The other keys: one letter ('l', the CLEAR code, is a letter too), one  *)
(* key with two symbols, and the keys KBhandler tells apart.               *)
Plain == {"letter", "l", "symbol", "enter", "bksp", "caps"}

VARIABLES
  capsFlag,
  shiftFlagL, shiftFlagR, ctrlFlagL, ctrlFlagR, altFlagL, altFlagR,
  currentTerminal,
  held,           \* the modifier keys the user holds down
  inverted,       \* history: the modifiers whose flag has been left behind
  event           \* what KBhandler did with the last scan code

flags == <<capsFlag, shiftFlagL, shiftFlagR, ctrlFlagL, ctrlFlagR, altFlagL, altFlagR>>
keyboardVars == <<flags, currentTerminal, held, inverted, event>>

(* After terminalOpen, with no key held.                                   *)
KeyboardInit ==
  /\ capsFlag = 0 /\ shiftFlagL = 0 /\ shiftFlagR = 0
  /\ ctrlFlagL = 0 /\ ctrlFlagR = 0 /\ altFlagL = 0 /\ altFlagR = 0
  /\ currentTerminal = 0
  /\ held = {} /\ inverted = {} /\ event = <<"none">>

----------------------------------------------------------------------------
(* The user presses or releases modifier m, or keeps it pressed so that    *)
(* the keyboard repeats its make code.                                     *)
Moves(m) == held' \in {held \cup {m}} \cup (IF m \in held THEN {held \ {m}} ELSE {})
Repeats  == held' = held

(* A code that KBhandler counts though the key has not moved, or does not  *)
(* count though it has, turns the meaning of the flag around.              *)
Flipped(m) == IF m \in inverted THEN inverted \ {m} ELSE inverted \cup {m}
Counted(m) == Moves(m) /\ inverted' = IF Repeats THEN Flipped(m) ELSE inverted
Lost(m)    == Moves(m) /\ inverted' = IF Repeats THEN inverted ELSE Flipped(m)

Toggle(f)   == (f + 1) % 2

(* Ctrl and Alt are tested first, the right ones by their 0xE0 prefix.     *)
CtrlR ==
  /\ Counted("ctrlR")
  /\ ctrlFlagR' = Toggle(ctrlFlagR) /\ event' = <<"none">>
  /\ UNCHANGED <<capsFlag, shiftFlagL, shiftFlagR, ctrlFlagL, altFlagL,
                 altFlagR, currentTerminal>>

AltR ==
  /\ Counted("altR")
  /\ altFlagR' = Toggle(altFlagR) /\ event' = <<"none">>
  /\ UNCHANGED <<capsFlag, shiftFlagL, shiftFlagR, ctrlFlagL, ctrlFlagR,
                 altFlagL, currentTerminal>>

CtrlL ==
  /\ Counted("ctrlL")
  /\ ctrlFlagL' = Toggle(ctrlFlagL) /\ event' = <<"none">>
  /\ UNCHANGED <<capsFlag, shiftFlagL, shiftFlagR, ctrlFlagR, altFlagL,
                 altFlagR, currentTerminal>>

AltLUntested ==
  /\ Counted("altL")
  /\ altFlagL' = IF ctrlFlagL = 1 \/ ctrlFlagR = 1 THEN altFlagL ELSE Toggle(altFlagL)
  /\ event' = <<"none">>
  /\ UNCHANGED <<capsFlag, shiftFlagL, shiftFlagR, ctrlFlagL, ctrlFlagR,
                 altFlagR, currentTerminal>>

AltL ==
  /\ Counted("altL")
  /\ altFlagL' = Toggle(altFlagL) /\ event' = <<"none">>
  /\ UNCHANGED <<capsFlag, shiftFlagL, shiftFlagR, ctrlFlagL, ctrlFlagR,
                 altFlagR, currentTerminal>>

(* With Ctrl, only CLEAR means something; with Alt, only F1, F2, F3 do.    *)
(* All other codes end here, the shift keys' among them.                   *)
CtrlDown == ctrlFlagL = 1 \/ ctrlFlagR = 1
AltDown  == altFlagL = 1 \/ altFlagR = 1

Swallow(k) ==
  /\ IF k \in Shifts THEN Lost(k) ELSE UNCHANGED <<held, inverted>>
  /\ UNCHANGED <<flags, currentTerminal>>

WithCtrl(k) ==
  /\ CtrlDown
  /\ Swallow(k)
  /\ event' = IF k = "l" THEN <<"clear">> ELSE <<"none">>

WithAlt(k) ==
  /\ ~CtrlDown /\ AltDown
  /\ Swallow(k)
  /\ event' = <<"none">>

Switch(n) ==
  /\ ~CtrlDown /\ AltDown
  /\ n # currentTerminal
  /\ currentTerminal' = n /\ event' = <<"switch", n>>
  /\ UNCHANGED <<flags, held, inverted>>

Unmodified == ~CtrlDown /\ ~AltDown

CapsLock ==
  /\ Unmodified
  /\ capsFlag' = Toggle(capsFlag) /\ event' = <<"none">>
  /\ UNCHANGED <<shiftFlagL, shiftFlagR, ctrlFlagL, ctrlFlagR, altFlagL,
                 altFlagR, currentTerminal, held, inverted>>

ShiftL ==
  /\ Unmodified /\ Counted("shiftL")
  /\ shiftFlagL' = Toggle(shiftFlagL) /\ event' = <<"none">>
  /\ UNCHANGED <<capsFlag, shiftFlagR, ctrlFlagL, ctrlFlagR, altFlagL,
                 altFlagR, currentTerminal>>

ShiftR ==
  /\ Unmodified /\ Counted("shiftR")
  /\ shiftFlagR' = Toggle(shiftFlagR) /\ event' = <<"none">>
  /\ UNCHANGED <<capsFlag, shiftFlagL, ctrlFlagL, ctrlFlagR, altFlagL,
                 altFlagR, currentTerminal>>

Backspace ==
  /\ Unmodified
  /\ event' = <<"erase">>
  /\ UNCHANGED <<flags, currentTerminal, held, inverted>>

(* The four tables of ascii_scan, by what they hold for a kind of key.     *)
ascii_scan == [letter |-> <<"lower", "upper", "upper", "lower">>,
               l      |-> <<"lower", "upper", "upper", "lower">>,
               symbol |-> <<"first", "first", "second", "second">>,
               enter  |-> <<"newline", "newline", "newline", "newline">>]

(* The table: capsFlag * CAPS_OFF + (shiftFlagL | shiftFlagR) * SHIFT_OFF. *)
TableLeftShift == 1 + capsFlag + 2 * shiftFlagL
Table == 1 + capsFlag + 2 * (IF shiftFlagL = 1 \/ shiftFlagR = 1 THEN 1 ELSE 0)

Character(k) ==
  /\ Unmodified
  /\ event' = <<"char", k, ascii_scan[k][Table]>>
  /\ UNCHANGED <<flags, currentTerminal, held, inverted>>

(* A function key without Alt or to the same terminal, and the break code  *)
(* of any key but a modifier.                                              *)
Ignored ==
  /\ event' = <<"none">>
  /\ UNCHANGED <<flags, currentTerminal, held, inverted>>

KeyboardNext ==
  \/ CtrlL \/ CtrlR \/ AltL \/ AltR \/ CapsLock \/ ShiftL \/ ShiftR
  \/ Backspace \/ Ignored
  \/ \E k \in Shifts \cup Plain : WithCtrl(k) \/ WithAlt(k)
  \/ \E n \in Terminals : Switch(n)
  \/ \E k \in DOMAIN ascii_scan : Character(k)

KeyboardSpec == KeyboardInit /\ [][KeyboardNext]_keyboardVars

----------------------------------------------------------------------------
Bit(b) == IF b THEN 1 ELSE 0

Flag == [ctrlL |-> ctrlFlagL, ctrlR |-> ctrlFlagR, altL |-> altFlagL,
         altR |-> altFlagR, shiftL |-> shiftFlagL, shiftR |-> shiftFlagR]

(* The modifiers KBhandler takes for pressed.                              *)
Taken == {m \in Modifiers : (m \in held) # (m \in inverted)}

(* Whatever is pressed, kept pressed until it repeats and released, in     *)
(* whatever order, a flag says whether its key is pressed, or the opposite *)
(* after an odd number of codes that KBhandler miscounted: repetitions of  *)
(* the key, and moves of a shift key swallowed by the Ctrl and Alt tests.  *)
(* Nothing else, and no code of another key, turns a flag around.          *)
FlagsTrackKeys == \A m \in Modifiers : Flag[m] = Bit(m \in Taken)

(* A character is typed only with no Ctrl or Alt key taken for pressed, a  *)
(* terminal is switched only with Alt and without Ctrl, and a letter is a  *)
(* capital, a symbol the upper one, when the shift keys say so: where no   *)
(* code has been miscounted, the keys do what the user holds.              *)
KeyDoesWhatIsHeld ==
  /\ event[1] = "switch" => /\ Taken \cap {"altL", "altR"} # {}
                            /\ Taken \cap {"ctrlL", "ctrlR"} = {}
  /\ event[1] = "char" =>
    LET shift == Taken \cap Shifts # {} IN
    /\ Taken \cap CtrlAlt = {}
    /\ event[2] \in {"letter", "l"} =>
         event[3] = IF shift # (capsFlag = 1) THEN "upper" ELSE "lower"
    /\ event[2] = "symbol" => event[3] = IF shift THEN "second" ELSE "first"
    /\ event[2] = "enter" => event[3] = "newline"

(* What the comment on the flags says: they indicate if the buttons are    *)
(* pressed.  A repeated code of a held key is enough to make one wrong.    *)
FlagsShowButtons == \A m \in Modifiers : Flag[m] = Bit(m \in held)
=============================================================================
