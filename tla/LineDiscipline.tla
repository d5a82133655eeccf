--------------------------- MODULE LineDiscipline ---------------------------
(***************************************************************************)
(* What the terminal driver promises a program and its user.  The keys go  *)
(* to one displayed terminal, whose user edits a line there; a program     *)
(* that reads a terminal gets the line the user ended with Enter, whole or *)
(* cut to the size it asked for.                                           *)
(***************************************************************************)
EXTENDS Naturals, Sequences

CONSTANTS Terminals, Chars, NL, MaxLine, ReadSizes

VARIABLES
  shown,    \* the terminal that gets the keys
  line,     \* line[t]: the characters typed and not erased
  asked,    \* asked[t]: the size a program waits to read, 0 if none waits
  ended,    \* ended[t]: the line has been ended with Enter
  got       \* got[t]: what the last read of terminal t returned

ldVars == <<shown, line, asked, ended, got>>

LDInit ==
  /\ shown \in Terminals
  /\ line = [t \in Terminals |-> <<>>]
  /\ asked = [t \in Terminals |-> 0]
  /\ ended = [t \in Terminals |-> FALSE]
  /\ got = [t \in Terminals |-> <<>>]

Type(c) ==
  /\ ~ended[shown]
  /\ Len(line[shown]) < MaxLine
  /\ line' = [line EXCEPT ![shown] = Append(@, c)]
  /\ UNCHANGED <<shown, asked, ended, got>>

Erase ==
  /\ ~ended[shown]
  /\ line[shown] # <<>>
  /\ line' = [line EXCEPT ![shown] = SubSeq(@, 1, Len(@) - 1)]
  /\ UNCHANGED <<shown, asked, ended, got>>

(* Enter ends the line a program waits for, and discards any other.        *)
End ==
  /\ ~ended[shown]
  /\ asked[shown] # 0
  /\ ended' = [ended EXCEPT ![shown] = TRUE]
  /\ UNCHANGED <<shown, line, asked, got>>

Discard ==
  /\ ~ended[shown]
  /\ asked[shown] = 0
  /\ line' = [line EXCEPT ![shown] = <<>>]
  /\ UNCHANGED <<shown, asked, ended, got>>

Show(t) == shown' = t /\ UNCHANGED <<line, asked, ended, got>>

Ask(t, n) ==
  /\ asked[t] = 0
  /\ asked' = [asked EXCEPT ![t] = n]
  /\ UNCHANGED <<shown, line, ended, got>>

Answer(t) ==
  /\ asked[t] # 0 /\ ended[t]
  /\ LET whole == Append(line[t], NL) IN
       got' = [got EXCEPT ![t] =
                 IF Len(whole) <= asked[t] THEN whole ELSE SubSeq(whole, 1, asked[t])]
  /\ line' = [line EXCEPT ![t] = <<>>]
  /\ ended' = [ended EXCEPT ![t] = FALSE]
  /\ asked' = [asked EXCEPT ![t] = 0]
  /\ UNCHANGED shown

LDNext ==
  \/ \E c \in Chars : Type(c)
  \/ Erase \/ End \/ Discard
  \/ \E t \in Terminals : Show(t) \/ Answer(t) \/ \E n \in ReadSizes : Ask(t, n)

LDSpec == LDInit /\ [][LDNext]_ldVars
=============================================================================
