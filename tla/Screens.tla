------------------------------ MODULE Screens ------------------------------
(***************************************************************************)
(* What the screen promises: every terminal has a grid of characters of    *)
(* its own and a place where the next one goes.  What its program writes   *)
(* and what its user types appears there, in order, whichever terminal is  *)
(* displayed.  Output may spoil the screen of the displayed terminal; it   *)
(* is not known then what that screen shows until it is cleared.           *)
(* Positions are numbered from the top left, row by row.                   *)
(***************************************************************************)
EXTENDS Naturals, Sequences

CONSTANTS Terminals, Columns, Cells, Blank, NewLine, Symbols, Lines

VARIABLES shown,  \* the terminal that is displayed and gets the keys
          grid,   \* grid[t][i]: the character at position i of terminal t
          at,     \* at[t]: where the next character of terminal t goes
          spoilt  \* the terminals of whose screen nothing is promised

screenVars == <<shown, grid, at, spoilt>>

End == Cells - 1
Empty == [i \in 0..End |-> Blank]
RowBelow(i) == ((i \div Columns) + 1) * Columns

(* A console s = [text, next]; writing at the end moves the text up a row. *)
MovedUp(s) ==
  IF s.next <= End THEN s
  ELSE [text |-> [i \in 0..End |->
                    IF i + Columns <= End THEN s.text[i + Columns] ELSE Blank],
        next |-> s.next - Columns]

Write(s, c) ==
  MovedUp(IF c = NewLine THEN [s EXCEPT !.next = RowBelow(@)]
          ELSE [text |-> [s.text EXCEPT ![s.next] = c], next |-> s.next + 1])

Written(s, line) ==
  LET after[n \in 0..Len(line)] == IF n = 0 THEN s ELSE Write(after[n - 1], line[n])
  IN after[Len(line)]

Console(t) == [text |-> grid[t], next |-> at[t]]

(* Console t becomes s and no other one changes.                           *)
Becomes(t, s) ==
  \A u \in Terminals \ spoilt' : Console(u)' = IF u = t THEN s ELSE Console(u)

ScreensInit ==
  /\ shown \in Terminals
  /\ grid \in [Terminals -> [0..End -> Symbols \cup {Blank}]]
  /\ at = [t \in Terminals |-> 0]
  /\ spoilt = {}

(* A program of terminal t prints, or stores through its video mapping.    *)
MaySpoil == shown' = shown /\ spoilt' \in {spoilt, spoilt \cup {shown}}

Output(t, c) == MaySpoil /\ Becomes(t, Write(Console(t), c))
Draw(t) ==
  /\ MaySpoil
  /\ \E i \in 0..End, c \in Symbols :
       Becomes(t, [Console(t) EXCEPT !.text = [@ EXCEPT ![i] = c]])

(* The user erases a character, or clears the screen but for the line.     *)
EraseLast ==
  LET i == IF at[shown] = 0 THEN 0 ELSE at[shown] - 1 IN
  /\ UNCHANGED <<shown, spoilt>>
  /\ Becomes(shown, [text |-> [grid[shown] EXCEPT ![i] = Blank], next |-> i])

ClearAll(line) ==
  /\ shown' = shown /\ spoilt' = spoilt \ {shown}
  /\ Becomes(shown, Written([text |-> Empty, next |-> 0], line))

Show(t) == shown' = t /\ spoilt' = spoilt /\ Becomes(t, Console(t))

ScreensNext ==
  \/ \E t \in Terminals : Show(t)
  \/ \E t \in Terminals : Draw(t)
  \/ \E t \in Terminals, c \in Symbols \cup {NewLine} : Output(t, c)
  \/ EraseLast
  \/ \E line \in Lines : ClearAll(line)

ScreensSpec == ScreensInit /\ [][ScreensNext]_screenVars
=============================================================================
