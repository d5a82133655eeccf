--------------------------- MODULE TerminalProofs ---------------------------
(***************************************************************************)
(* Proofs about Terminal: for every size of the buffers and every number   *)
(* of terminals, with ticks between any two statements of KBhandler, the   *)
(* buffers hold the lines the users type and reads return them, as long as *)
(* no key arrives between the end of a line and its read.                  *)
(* That stores stay in their row holds whatever is typed and when.         *)
(***************************************************************************)
EXTENDS Terminal, TLAPS

Index == 0..(BUF_SIZE - 1)

(* Cell i of terminal t's row of KBbuf.                                    *)
Row(t, i) == KBbuf[Cell(t, i)]

(* KBhandler works on the row of terminal t and is at one of points.       *)
At(t, points) == t = currentTerminal /\ kb \in points

(* The newline is in row t, the last character there.                      *)
NewlineIn(t) == readReady[t] = 1 \/ At(t, {"ready"})

(* The characters of the line at the front of row t.                       *)
Count(t) == IF NewlineIn(t) THEN buf_loc[t] - 1 ELSE buf_loc[t]

(* The row holds the characters, then perhaps the newline, then nothing,   *)
(* but for the cell KBhandler has stored to and not yet counted, or has    *)
(* stepped back from and not yet cleared.                                  *)
RowHoldsLine(t) ==
  /\ Count(t) \in Index
  /\ \A i \in Index : i < Count(t) => Row(t, i) \in Chars
  /\ NewlineIn(t) => Row(t, Count(t)) = NL
  /\ \A i \in Index :
       i >= buf_loc[t] /\ ~(At(t, {"advance", "zero", "flushzero"}) /\ i = buf_loc[t])
         => Row(t, i) = NUL

(* A line is ended only for a program that waits.                          *)
EndedIsWanted(t) ==
  /\ readWaiting[t] = 1 <=> want[t] # 0
  /\ readReady[t] = 1 => want[t] # 0

(* What KBhandler relies on at each of its statements.                     *)
KeyFits ==
  LET n == buf_loc[currentTerminal] IN
  \/ key \in Chars /\ n < BUF_SIZE - 1
  \/ key = NL /\ want[currentTerminal] # 0

HandlerReady ==
  /\ kb # "idle" => readReady[currentTerminal] = 0
  /\ kb \in {"store", "advance"} => KeyFits
  /\ kb = "advance" => Row(currentTerminal, buf_loc[currentTerminal]) = key
  /\ kb = "ready" => key = NL /\ want[currentTerminal] # 0
  /\ kb \in {"zero", "flushzero"} => buf_loc[currentTerminal] < BUF_SIZE - 1
  /\ kb = "erase" => buf_loc[currentTerminal] > 0

(* The inductive invariant.                                                *)
LineInv ==
  /\ TypeOK
  /\ \A t \in Terminals : RowHoldsLine(t) /\ EndedIsWanted(t)
  /\ HandlerReady

----------------------------------------------------------------------------
(* The rows of the array.                                                  *)

LEMMA Sizes == BUF_SIZE \in Nat /\ BUF_SIZE >= 2 /\ NUM_TERMINALS \in Nat /\ 0 \in Terminals
BY BufSizeAssumption, TerminalsAssumption DEF Terminals

(* A cell of a row is a cell of the array.                                 *)
LEMMA CellIn ==
  ASSUME NEW t \in Terminals, NEW i \in Index
  PROVE  Cell(t, i) \in Cells
<1> DEFINE rest == NUM_TERMINALS - t - 1
<1>1. rest \in Nat /\ t \in Nat /\ NUM_TERMINALS = t + 1 + rest
  BY Sizes DEF Terminals
<1> HIDE DEF rest
<1>2. NUM_TERMINALS * BUF_SIZE = t * BUF_SIZE + BUF_SIZE + rest * BUF_SIZE
  BY <1>1, Sizes
<1>3. t * BUF_SIZE \in Nat /\ rest * BUF_SIZE \in Nat
  BY <1>1, Sizes
<1> QED  BY <1>2, <1>3, Sizes DEF Cell, Cells, Index

(* Different cells of the rows are different cells of the array.           *)
LEMMA CellOnce ==
  ASSUME NEW t \in Terminals, NEW u \in Terminals, NEW i \in Index, NEW j \in Index,
         Cell(t, i) = Cell(u, j)
  PROVE  t = u /\ i = j
<1>1. t \in Nat /\ u \in Nat /\ i \in 0..(BUF_SIZE - 1) /\ j \in 0..(BUF_SIZE - 1)
  BY Sizes DEF Terminals, Index
<1>2. \A m, n \in Nat : m < n => n * BUF_SIZE >= m * BUF_SIZE + BUF_SIZE
  <2> SUFFICES ASSUME NEW m \in Nat, NEW n \in Nat, m < n
               PROVE  n * BUF_SIZE >= m * BUF_SIZE + BUF_SIZE
    OBVIOUS
  <2>1. PICK d \in Nat : n = m + 1 + d
    <3>1. n - m - 1 \in Nat /\ n = m + 1 + (n - m - 1)
      OBVIOUS
    <3> QED  BY <3>1
  <2>2. n * BUF_SIZE = m * BUF_SIZE + BUF_SIZE + d * BUF_SIZE
    BY <2>1, Sizes
  <2>3. d * BUF_SIZE \in Nat /\ m * BUF_SIZE \in Nat
    BY Sizes
  <2> QED  BY <2>2, <2>3, Sizes
<1>3. t * BUF_SIZE \in Nat /\ u * BUF_SIZE \in Nat
  BY <1>1, Sizes
<1>4. t = u
  BY <1>1, <1>2, <1>3, Sizes DEF Cell
<1> DEFINE start == t * BUF_SIZE
<1>5. start \in Nat /\ start + i = start + j
  BY <1>3, <1>4 DEF Cell
<1> HIDE DEF start
<1> QED  BY <1>1, <1>4, <1>5, Sizes

(* A store to a row changes one cell of it and no other row.               *)
LEMMA StoreRow ==
  ASSUME NEW t \in Terminals, NEW i \in Index, NEW c, DOMAIN KBbuf = Cells,
         KBbuf' = Store(KBbuf, t, i, c), NEW u \in Terminals, NEW j \in Index
  PROVE  Row(u, j)' = IF u = t /\ j = i THEN c ELSE Row(u, j)
BY CellIn, CellOnce DEF Store, Row, Cell

(* A read clears one row.                                                  *)
LEMMA ClearedRow ==
  ASSUME NEW t \in Terminals, KBbuf' = Cleared(t), NEW u \in Terminals, NEW j \in Index
  PROVE  Row(u, j)' = IF u = t THEN NUL ELSE Row(u, j)
<1> DEFINE start == t * BUF_SIZE
<1>1. start \in Nat /\ Cell(u, j) \in Nat
  BY CellIn, Sizes DEF Terminals, Cells
<1>2. Cell(u, j) \in Cells
  BY CellIn
<1>3. Cell(t, 0) = start /\ Cell(t, BUF_SIZE - 1) = start + BUF_SIZE - 1
  BY <1>1, Sizes DEF Cell
<1>4. ASSUME u # t PROVE Cell(u, j) \notin start..(start + BUF_SIZE - 1)
  <2> SUFFICES ASSUME Cell(u, j) \in start..(start + BUF_SIZE - 1) PROVE FALSE
    OBVIOUS
  <2> DEFINE i == Cell(u, j) - start
  <2>1. i \in Index /\ Cell(u, j) = start + i
    <3> HIDE DEF start
    <3> QED  BY <1>1, Sizes DEF Index
  <2>2. Cell(u, j) = Cell(t, i)
    BY <2>1 DEF Cell
  <2> HIDE DEF i
  <2> QED  BY <1>4, <2>1, <2>2, CellOnce
<1>5. ASSUME u = t PROVE Cell(u, j) \in start..(start + BUF_SIZE - 1)
  <2>1. Cell(u, j) = start + j
    BY <1>5 DEF Cell
  <2> HIDE DEF start
  <2> QED  BY <1>1, <2>1, Sizes DEF Index
<1>6. Row(u, j)' = KBbuf'[Cell(u, j)]
  BY DEF Row, Cell
<1> HIDE DEF start
<1> QED  BY <1>2, <1>3, <1>4, <1>5, <1>6 DEF Cleared, Row

(* Inside a row, Load is the cell.                                         *)
LEMMA LoadRow ==
  ASSUME NEW t \in Terminals, NEW i \in Index, DOMAIN KBbuf = Cells
  PROVE  Load(KBbuf, t, i) = Row(t, i)
BY CellIn DEF Load, Row

----------------------------------------------------------------------------
(* The invariant, action by action.                                        *)

(* The types.                                                              *)
LEMMA LineTypes ==
  ASSUME ~TypeAhead, TypeOK
  PROVE  /\ currentTerminal \in Terminals
         /\ KBbuf \in [Cells -> Chars \cup {NL, NUL}] /\ DOMAIN KBbuf = Cells
         /\ buf_loc \in [Terminals -> 0..BUF_SIZE]
         /\ readWaiting \in [Terminals -> {0, 1}]
         /\ readReady \in [Terminals -> {0, 1}]
         /\ want \in [Terminals -> ReadSizes \cup {0}] /\ want \in [Terminals -> Nat]
         /\ DOMAIN got = Terminals
<1>1. buf_loc \in [Terminals -> 0..BUF_SIZE]
  <2>1. (IF TypeAhead THEN Int ELSE 0..BUF_SIZE) = 0..BUF_SIZE
    OBVIOUS
  <2> QED  BY <2>1, Zenon DEF TypeOK
<1>2. ReadSizes \cup {0} \subseteq Nat
  BY ReadSizesAssumption
<1> QED  BY <1>1, <1>2 DEF TypeOK

(* A line whose row and counter a step leaves alone.                       *)
LEMMA SameRow ==
  ASSUME NEW t \in Terminals, RowHoldsLine(t),
         buf_loc'[t] = buf_loc[t], NewlineIn(t)' <=> NewlineIn(t),
         At(t, {"advance", "zero", "flushzero"}) => At(t, {"advance", "zero", "flushzero"})',
         \A i \in Index : Row(t, i)' = Row(t, i)
  PROVE  RowHoldsLine(t)'
<1>1. Count(t)' = Count(t)
  BY DEF Count
<1>2. Count(t) \in Index
  BY DEF RowHoldsLine
<1>3. \A i : i = Count(t) => Row(t, i)' = Row(t, i)
  BY <1>2
<1>4. Row(t, Count(t))' = Row(t, Count(t))
  BY <1>1, <1>3 DEF Row, Cell
<1> QED
  BY <1>1, <1>4 DEF RowHoldsLine, Index

(* The line of a terminal that KBhandler does not work on.                 *)
LEMMA OtherRow ==
  ASSUME NEW t \in Terminals, RowHoldsLine(t), t # currentTerminal, UNCHANGED currentTerminal,
         buf_loc'[t] = buf_loc[t], readReady'[t] = readReady[t],
         \A i \in Index : Row(t, i)' = Row(t, i)
  PROVE  RowHoldsLine(t)'
BY SameRow DEF At, NewlineIn

(* Keys and calls that leave the buffers alone.                            *)
LEMMA SameRows ==
  ASSUME UNCHANGED <<KBbuf, buf_loc, readReady>>, kb \notin {"advance", "zero", "flushzero"},
         At(currentTerminal, {"ready"}) => UNCHANGED <<currentTerminal, kb>>,
         kb' = "ready" => kb = "ready" /\ UNCHANGED currentTerminal,
         NEW t \in Terminals, RowHoldsLine(t)
  PROVE  RowHoldsLine(t)'
<1>1. \A i \in Index : Row(t, i)' = Row(t, i)
  BY DEF Row, Cell
<1>2. NewlineIn(t)' <=> NewlineIn(t)
  BY DEF NewlineIn, At
<1> QED  BY <1>1, <1>2, SameRow DEF At

(* A key interrupt at which KBhandler begins.                              *)
LEMMA KeyKeeps ==
  ASSUME ~TypeAhead, LineInv,
         KeyEnter \/ KeyBackspace \/ (\E c \in Chars : KeyChar(c))
         \/ (\E t \in Terminals : KeySwitch(t))
  PROVE  LineInv'
<1> USE DEF LineInv
<1>1. /\ kb = "idle" /\ UNCHANGED <<KBbuf, buf_loc, readWaiting, readReady, want, got>>
      /\ kb' \in {"idle", "store", "flush", "erase"}
      /\ key' \in Chars \cup {NL, NUL}
      /\ currentTerminal' \in Terminals /\ ahead' \subseteq Terminals
  BY DEF KeyEnter, KeyBackspace, KeyChar, KeySwitch, KeyArrives, EditsAhead, bufs, TypeOK
<1>2. TypeOK'
  BY <1>1 DEF TypeOK
<1>3. \A t \in Terminals : RowHoldsLine(t)' /\ EndedIsWanted(t)'
  BY <1>1, SameRows DEF At, EndedIsWanted
<1>4. HandlerReady'
  <2>1. currentTerminal \in Terminals /\ readReady \in [Terminals -> {0, 1}]
        /\ buf_loc \in [Terminals -> 0..BUF_SIZE]
    BY LineTypes
  <2>2. CASE KeyEnter
    BY <1>1, <2>1, <2>2 DEF KeyEnter, KeyArrives, HandlerReady, KeyFits, EndedIsWanted, bufs
  <2>3. CASE KeyBackspace
    BY <1>1, <2>1, <2>3, Sizes DEF KeyBackspace, KeyArrives, HandlerReady, bufs
  <2>4. ASSUME NEW c \in Chars, KeyChar(c) PROVE HandlerReady'
    BY <1>1, <2>1, <2>4 DEF KeyChar, KeyArrives, Room, HandlerReady, KeyFits, bufs
  <2>5. ASSUME NEW t \in Terminals, KeySwitch(t) PROVE HandlerReady'
    BY <1>1, <2>5 DEF KeySwitch, HandlerReady
  <2> QED  BY <2>2, <2>3, <2>4, <2>5
<1> QED  BY <1>2, <1>3, <1>4

(* KBhandler's own terminal: it has not been ended, its count is buf_loc,  *)
(* and it has a cell left.                                                 *)
LEMMA OwnRow ==
  ASSUME ~TypeAhead, LineInv, kb \notin {"idle", "ready"}
  PROVE  LET t == currentTerminal IN
         /\ t \in Terminals /\ buf_loc[t] \in Index
         /\ readReady[t] = 0 /\ ~NewlineIn(t) /\ Count(t) = buf_loc[t]
         /\ \A i \in Index : i < buf_loc[t] => Row(t, i) \in Chars
<1>1. currentTerminal \in Terminals
  BY LineTypes DEF LineInv
<1>2. RowHoldsLine(currentTerminal) /\ readReady[currentTerminal] = 0
  BY <1>1 DEF LineInv, HandlerReady
<1>3. ~NewlineIn(currentTerminal)
  BY <1>2 DEF NewlineIn, At
<1> QED  BY <1>1, <1>2, <1>3 DEF RowHoldsLine, Count

(* The flags of the readers, for steps that leave them alone.              *)
LEMMA SameFlags ==
  ASSUME UNCHANGED <<readWaiting, readReady, want>>, NEW t \in Terminals, EndedIsWanted(t)
  PROVE  EndedIsWanted(t)'
BY DEF EndedIsWanted

(* What makes a row without a newline hold its line after a step.          *)
LEMMA OpenRow ==
  ASSUME NEW t \in Terminals, NEW n \in Index, buf_loc'[t] = n, ~NewlineIn(t)',
         \A i \in Index : i < n => Row(t, i)' \in Chars,
         \A i \in Index : i > n => Row(t, i)' = NUL,
         At(t, {"advance", "zero", "flushzero"})' \/ Row(t, n)' = NUL
  PROVE  RowHoldsLine(t)'
<1>1. Count(t)' = n
  BY DEF Count
<1>2. \A i \in Index : i >= n => i > n \/ i = n
  BY Sizes DEF Index
<1> QED  BY <1>1, <1>2 DEF RowHoldsLine, Index

(* The key goes into the cell behind the line.                             *)
LEMMA KBstoreKeeps ==
  ASSUME ~TypeAhead, LineInv, KBstore
  PROVE  LineInv'
<1> USE DEF LineInv
<1> DEFINE c == currentTerminal
           n == buf_loc[c]
<1>1. /\ c \in Terminals /\ n \in Index /\ readReady[c] = 0
      /\ \A i \in Index : i < n => Row(c, i) \in Chars
      /\ \A i \in Index : i > n => Row(c, i) = NUL
  BY OwnRow, Sizes DEF KBstore, RowHoldsLine, At, Index
<1>2. /\ KBbuf' = Store(KBbuf, c, n, key) /\ kb' = "advance" /\ kb = "store"
      /\ UNCHANGED <<currentTerminal, buf_loc, readWaiting, readReady, key, want, got, ahead>>
  BY DEF KBstore
<1>3. \A t \in Terminals, i \in Index :
        Row(t, i)' = IF t = c /\ i = n THEN key ELSE Row(t, i)
  BY <1>1, <1>2, LineTypes, StoreRow
<1>4. TypeOK'
  BY <1>2 DEF TypeOK, Store
<1>5. ASSUME NEW t \in Terminals PROVE RowHoldsLine(t)' /\ EndedIsWanted(t)'
  <2>1. CASE t # c
    BY <1>2, <1>3, <2>1, OtherRow, SameFlags
  <2>2. CASE t = c
    <3>1. ~NewlineIn(t)' /\ At(t, {"advance", "zero", "flushzero"})'
      BY <1>1, <1>2, <2>2 DEF NewlineIn, At
    <3>2. \A i \in Index : (i < n => Row(t, i)' \in Chars) /\ (i > n => Row(t, i)' = NUL)
      BY <1>1, <1>3, <2>2, Sizes DEF Index
    <3> QED  BY <1>1, <1>2, <2>2, <3>1, <3>2, OpenRow, SameFlags
  <2> QED  BY <2>1, <2>2
<1>6. HandlerReady'
  <2>1. Row(currentTerminal, buf_loc[currentTerminal])' = key
    <3>1. \A t, i : t = c /\ i = n => Row(t, i)' = key
      BY <1>1, <1>3
    <3> QED  BY <1>2, <3>1 DEF Row, Cell
  <2> QED  BY <1>1, <1>2, <2>1 DEF HandlerReady, KeyFits
<1> QED  BY <1>4, <1>5, <1>6

(* The key is counted; a newline is not a character of the line.           *)
LEMMA KBadvanceKeeps ==
  ASSUME ~TypeAhead, LineInv, KBadvance
  PROVE  LineInv'
<1> USE DEF LineInv
<1> DEFINE c == currentTerminal
           n == buf_loc[c]
<1>1. /\ c \in Terminals /\ n \in Index /\ readReady[c] = 0
      /\ \A i \in Index : i < n => Row(c, i) \in Chars
      /\ \A i \in Index : i > n => Row(c, i) = NUL
  BY OwnRow, Sizes DEF KBadvance, RowHoldsLine, At, Index
<1>2. /\ kb = "advance" /\ buf_loc' = [buf_loc EXCEPT ![c] = n + 1]
      /\ kb' = IF key = NL THEN "ready" ELSE "idle"
      /\ key' = IF key = NL THEN NL ELSE NUL
      /\ UNCHANGED <<currentTerminal, KBbuf, readWaiting, readReady, want, got, ahead>>
  BY DEF KBadvance
<1>3. /\ Row(c, n) = key
      /\ \/ key \in Chars /\ key # NL /\ n < BUF_SIZE - 1
         \/ key = NL /\ want[c] # 0
  BY <1>2, CharsAssumption DEF HandlerReady, KeyFits
<1>4. \A t \in Terminals, i \in Index : Row(t, i)' = Row(t, i)
  BY <1>2 DEF Row, Cell
<1>5. buf_loc \in [Terminals -> 0..BUF_SIZE] /\ buf_loc' \in [Terminals -> 0..BUF_SIZE]
  BY <1>1, <1>2, LineTypes, Sizes DEF Index
<1>6. TypeOK'
  BY <1>2, <1>5 DEF TypeOK
<1>7. ASSUME NEW t \in Terminals PROVE RowHoldsLine(t)' /\ EndedIsWanted(t)'
  <2>1. CASE t # c
    BY <1>2, <1>4, <1>5, <2>1, OtherRow, SameFlags
  <2>2. CASE t = c /\ key # NL
    <3>1. ~NewlineIn(t)' /\ n + 1 \in Index /\ buf_loc'[t] = n + 1
      BY <1>1, <1>2, <1>3, <1>5, <2>2, Sizes DEF NewlineIn, At, Index
    <3>2. \A i \in Index : (i < n + 1 => Row(t, i)' \in Chars)
                         /\ (i >= n + 1 => Row(t, i)' = NUL)
      BY <1>1, <1>3, <1>4, <2>2, Sizes DEF Index
    <3>3. \A m \in Index : m = n + 1 => Row(t, m)' = NUL
      BY <1>1, <3>2, Sizes DEF Index
    <3>4. PICK m \in Index : m = n + 1
      BY <3>1
    <3>5. \A i \in Index : (i < m => Row(t, i)' \in Chars) /\ (i > m => Row(t, i)' = NUL)
      BY <1>1, <3>2, <3>4, Sizes DEF Index
    <3>6. RowHoldsLine(t)'
      BY <3>1, <3>3, <3>4, <3>5, OpenRow
    <3> QED  BY <1>2, <3>6, SameFlags
  <2>3. CASE t = c /\ key = NL
    <3>1. NewlineIn(t)' /\ buf_loc'[t] = n + 1
      BY <1>2, <1>5, <2>3 DEF NewlineIn, At
    <3>2. Count(t)' = n
      BY <1>1, <3>1, Sizes DEF Count, Index
    <3>3. Row(t, Count(t))' = NL
      <4>1. \A i : i = n => Row(t, i)' = NL
        BY <1>1, <1>3, <1>4, <2>3
      <4> QED  BY <3>2, <4>1 DEF Row, Cell
    <3>4. \A i \in Index : (i < n => Row(t, i)' \in Chars)
                         /\ (i >= n + 1 => Row(t, i)' = NUL)
      BY <1>1, <1>4, <2>3, Sizes DEF Index
    <3>5. RowHoldsLine(t)'
      <4>1. (Count(t) \in Index)'
        BY <1>1, <3>2 DEF Index
      <4>2. \A i \in Index : i < Count(t)' => Row(t, i)' \in Chars
        BY <3>2, <3>4
      <4>3. \A i \in Index : i >= buf_loc'[t] => Row(t, i)' = NUL
        BY <3>1, <3>4
      <4> QED  BY <3>3, <4>1, <4>2, <4>3 DEF RowHoldsLine, Index
    <3> QED  BY <1>2, <3>5, SameFlags
  <2> QED  BY <2>1, <2>2, <2>3
<1>8. HandlerReady'
  BY <1>1, <1>2, <1>3 DEF HandlerReady
<1> QED  BY <1>6, <1>7, <1>8

(* The newline releases the program that waits for it.                     *)
LEMMA KBreadyKeeps ==
  ASSUME ~TypeAhead, LineInv, KBready
  PROVE  LineInv'
<1> USE DEF LineInv
<1> DEFINE c == currentTerminal
<1>1. /\ kb = "ready" /\ kb' = "idle" /\ key' = NUL
      /\ readReady' = [readReady EXCEPT ![c] = 1]
      /\ UNCHANGED <<currentTerminal, KBbuf, buf_loc, readWaiting, want, got, ahead>>
  BY DEF KBready
<1>2. /\ c \in Terminals /\ want[c] # 0
      /\ readReady \in [Terminals -> {0, 1}] /\ readReady' \in [Terminals -> {0, 1}]
  BY <1>1, LineTypes DEF HandlerReady
<1>3. TypeOK'
  BY <1>1, <1>2 DEF TypeOK
<1>4. ASSUME NEW t \in Terminals PROVE RowHoldsLine(t)' /\ EndedIsWanted(t)'
  <2>1. \A i \in Index : Row(t, i)' = Row(t, i)
    BY <1>1 DEF Row, Cell
  <2>2. NewlineIn(t)' <=> NewlineIn(t)
    BY <1>1, <1>2 DEF NewlineIn, At
  <2>3. RowHoldsLine(t)'
    BY <1>1, <2>1, <2>2, SameRow DEF At
  <2>4. EndedIsWanted(t)'
    BY <1>1, <1>2 DEF EndedIsWanted
  <2> QED  BY <2>3, <2>4
<1>5. HandlerReady'
  BY <1>1 DEF HandlerReady
<1> QED  BY <1>3, <1>4, <1>5

(* KBhandler steps back over a character, to clear its cell next.          *)
LEMMA BackKeeps ==
  ASSUME ~TypeAhead, LineInv, kb \in {"erase", "flush"}, buf_loc[currentTerminal] > 0,
         buf_loc' = [buf_loc EXCEPT ![currentTerminal] = @ - 1],
         kb' \in {"zero", "flushzero"}, key' = key,
         UNCHANGED <<currentTerminal, KBbuf, readWaiting, readReady, want, got, ahead>>
  PROVE  LineInv'
<1> USE DEF LineInv
<1> DEFINE c == currentTerminal
           n == buf_loc[c]
<1>1. /\ c \in Terminals /\ n \in Index /\ readReady[c] = 0
      /\ \A i \in Index : i < n => Row(c, i) \in Chars
      /\ \A i \in Index : i >= n => Row(c, i) = NUL
  BY OwnRow DEF RowHoldsLine, At
<1>2. buf_loc \in [Terminals -> 0..BUF_SIZE] /\ n - 1 \in Index /\ n - 1 < BUF_SIZE - 1
  BY <1>1, LineTypes, Sizes DEF Index
<1>3. buf_loc' = [buf_loc EXCEPT ![c] = n - 1] /\ buf_loc' \in [Terminals -> 0..BUF_SIZE]
  BY <1>1, <1>2, Sizes DEF Index
<1>4. TypeOK'
  BY <1>3 DEF TypeOK
<1>5. \A t \in Terminals, i \in Index : Row(t, i)' = Row(t, i)
  BY DEF Row, Cell
<1>6. ASSUME NEW t \in Terminals PROVE RowHoldsLine(t)' /\ EndedIsWanted(t)'
  <2>1. CASE t # c
    BY <1>2, <1>3, <1>5, <2>1, OtherRow, SameFlags
  <2>2. CASE t = c
    <3>1. PICK m \in Index : m = n - 1
      BY <1>2
    <3>2. ~NewlineIn(t)' /\ At(t, {"advance", "zero", "flushzero"})' /\ buf_loc'[t] = m
      BY <1>1, <1>2, <1>3, <2>2, <3>1 DEF NewlineIn, At
    <3>3. \A i \in Index : (i < m => Row(t, i)' \in Chars) /\ (i > m => Row(t, i)' = NUL)
      BY <1>1, <1>5, <2>2, <3>1, Sizes DEF Index
    <3>4. RowHoldsLine(t)'
      BY <3>2, <3>3, OpenRow
    <3> QED  BY <3>4, SameFlags
  <2> QED  BY <2>1, <2>2
<1>7. HandlerReady'
  BY <1>1, <1>2, <1>3 DEF HandlerReady
<1> QED  BY <1>4, <1>6, <1>7

(* KBhandler clears the cell it has stepped back to.                       *)
LEMMA ZeroKeeps ==
  ASSUME ~TypeAhead, LineInv, kb \in {"zero", "flushzero"},
         KBbuf' = Store(KBbuf, currentTerminal, buf_loc[currentTerminal], NUL),
         kb' \in {"idle", "flush"}, key' = key,
         UNCHANGED <<currentTerminal, buf_loc, readWaiting, readReady, want, got, ahead>>
  PROVE  LineInv'
<1> USE DEF LineInv
<1> DEFINE c == currentTerminal
           n == buf_loc[c]
<1>1. /\ c \in Terminals /\ n \in Index /\ readReady[c] = 0
      /\ \A i \in Index : i < n => Row(c, i) \in Chars
      /\ \A i \in Index : i > n => Row(c, i) = NUL
  BY OwnRow, Sizes DEF RowHoldsLine, At, Index
<1>2. \A t \in Terminals, i \in Index :
        Row(t, i)' = IF t = c /\ i = n THEN NUL ELSE Row(t, i)
  BY <1>1, LineTypes, StoreRow
<1>3. TypeOK'
  BY DEF TypeOK, Store
<1>4. ASSUME NEW t \in Terminals PROVE RowHoldsLine(t)' /\ EndedIsWanted(t)'
  <2>1. CASE t # c
    BY <1>2, <2>1, OtherRow, SameFlags
  <2>2. CASE t = c
    <3>1. ~NewlineIn(t)' /\ buf_loc'[t] = n
      BY <1>1, <2>2 DEF NewlineIn, At
    <3>2. \A i \in Index : (i < n => Row(t, i)' \in Chars) /\ (i > n => Row(t, i)' = NUL)
      BY <1>1, <1>2, <2>2, Sizes DEF Index
    <3>3. PICK m \in Index : m = n /\ Row(t, m)' = NUL
      BY <1>1, <1>2, <2>2
    <3>4. RowHoldsLine(t)'
      BY <3>1, <3>2, <3>3, OpenRow
    <3> QED  BY <3>4, SameFlags
  <2> QED  BY <2>1, <2>2
<1>5. HandlerReady'
  BY <1>1 DEF HandlerReady
<1> QED  BY <1>3, <1>4, <1>5

(* The buffer has been emptied.                                            *)
LEMMA FlushedKeeps ==
  ASSUME ~TypeAhead, LineInv, kb = "flush", kb' = "idle", key' = NUL,
         UNCHANGED <<currentTerminal, bufs, want, got, ahead>>
  PROVE  LineInv'
<1> USE DEF LineInv, bufs
<1>1. TypeOK'
  BY DEF TypeOK
<1>2. \A t \in Terminals : RowHoldsLine(t)' /\ EndedIsWanted(t)'
  BY SameRows, SameFlags DEF At
<1>3. HandlerReady'
  BY DEF HandlerReady
<1> QED  BY <1>1, <1>2, <1>3

(* terminalRead announces itself.                                          *)
LEMMA ReadCallKeeps ==
  ASSUME ~TypeAhead, LineInv, NEW t \in Terminals, NEW n \in ReadSizes, ReadCall(t, n)
  PROVE  LineInv'
<1> USE DEF LineInv
<1>1. /\ want[t] = 0 /\ want' = [want EXCEPT ![t] = n]
      /\ readWaiting' = [readWaiting EXCEPT ![t] = 1]
      /\ UNCHANGED <<currentTerminal, KBbuf, buf_loc, readReady, kb, key, got, ahead>>
  BY DEF ReadCall
<1>2. n # 0 /\ n \in Nat
  BY ReadSizesAssumption
<1>3. TypeOK'
  BY <1>1 DEF TypeOK
<1>4. want \in [Terminals -> Nat] /\ readWaiting \in [Terminals -> {0, 1}]
      /\ currentTerminal \in Terminals
  BY LineTypes
<1>5. ASSUME NEW u \in Terminals PROVE RowHoldsLine(u)' /\ EndedIsWanted(u)'
  <2>1. \A i \in Index : Row(u, i)' = Row(u, i)
    BY <1>1 DEF Row, Cell
  <2>2. RowHoldsLine(u)'
    BY <1>1, <2>1, SameRow DEF At, NewlineIn
  <2>3. EndedIsWanted(u)'
    BY <1>1, <1>2, <1>4 DEF EndedIsWanted
  <2> QED  BY <2>2, <2>3
<1>6. HandlerReady'
  BY <1>1, <1>2, <1>4 DEF HandlerReady, KeyFits, Row, Cell
<1> QED  BY <1>3, <1>5, <1>6

(* terminalRead copies and clears; KBhandler is not at work on the line.   *)
LEMMA ReadCopyKeeps ==
  ASSUME ~TypeAhead, LineInv, NEW t \in Terminals, ReadCopy(t)
  PROVE  LineInv'
<1> USE DEF LineInv
<1>1. /\ want[t] # 0 /\ readReady[t] = 1
      /\ KBbuf' = Cleared(t)
      /\ readReady' = [readReady EXCEPT ![t] = 0]
      /\ readWaiting' = [readWaiting EXCEPT ![t] = 0]
      /\ buf_loc' = [buf_loc EXCEPT ![t] = 0]
      /\ want' = [want EXCEPT ![t] = 0]
      /\ DOMAIN got' = DOMAIN got
      /\ ahead' \in {ahead, ahead \ {t}}
      /\ UNCHANGED <<currentTerminal, kb, key>>
  BY DEF ReadCopy
<1>2. /\ want \in [Terminals -> Nat] /\ readWaiting \in [Terminals -> {0, 1}]
      /\ readReady \in [Terminals -> {0, 1}] /\ buf_loc \in [Terminals -> 0..BUF_SIZE]
      /\ KBbuf \in [Cells -> Chars \cup {NL, NUL}] /\ currentTerminal \in Terminals
  BY LineTypes
<1>3. t = currentTerminal => kb = "idle"
  BY <1>1 DEF HandlerReady
<1>4. \A u \in Terminals, i \in Index : Row(u, i)' = IF u = t THEN NUL ELSE Row(u, i)
  BY <1>1, ClearedRow
<1>5. TypeOK'
  <2>1. buf_loc' \in [Terminals -> IF TypeAhead THEN Int ELSE 0..BUF_SIZE]
    BY <1>1, <1>2, Sizes
  <2>2. KBbuf' \in [Cells -> Chars \cup {NL, NUL}]
    BY <1>1, <1>2 DEF Cleared
  <2> QED  BY <1>1, <2>1, <2>2 DEF TypeOK
<1>6. ASSUME NEW u \in Terminals PROVE RowHoldsLine(u)' /\ EndedIsWanted(u)'
  <2>1. EndedIsWanted(u)'
    BY <1>1, <1>2 DEF EndedIsWanted
  <2>2. CASE u # t
    <3>1. NewlineIn(u)' <=> NewlineIn(u)
      BY <1>1, <1>2, <2>2 DEF NewlineIn, At
    <3>2. RowHoldsLine(u)'
      BY <1>1, <1>2, <1>4, <2>2, <3>1, SameRow DEF At
    <3> QED  BY <2>1, <3>2
  <2>3. CASE u = t
    <3>1. 0 \in Index /\ ~NewlineIn(u)' /\ buf_loc'[u] = 0
      BY <1>1, <1>2, <1>3, <2>3, Sizes DEF Index, NewlineIn, At
    <3>2. \A i \in Index : Row(u, i)' = NUL /\ ~(i < 0)
      BY <1>4, <2>3, Sizes DEF Index
    <3>3. RowHoldsLine(u)'
      BY <3>1, <3>2, OpenRow
    <3> QED  BY <2>1, <3>3
  <2> QED  BY <2>2, <2>3
<1>7. HandlerReady'
  <2>1. CASE kb = "idle"
    BY <1>1, <2>1 DEF HandlerReady
  <2>2. CASE kb # "idle"
    <3>1. /\ currentTerminal # t
          /\ buf_loc'[currentTerminal] = buf_loc[currentTerminal]
          /\ readReady'[currentTerminal] = readReady[currentTerminal]
          /\ want'[currentTerminal] = want[currentTerminal]
      BY <1>1, <1>2, <1>3, <2>2
    <3>2. kb = "advance" =>
            Row(currentTerminal, buf_loc[currentTerminal])' =
            Row(currentTerminal, buf_loc[currentTerminal])
      <4>1. kb = "advance" => buf_loc[currentTerminal] \in Index
        BY OwnRow
      <4>2. \A u \in Terminals, i \in Index :
              u = currentTerminal /\ i = buf_loc[currentTerminal] => Row(u, i)' = Row(u, i)
        BY <1>4, <3>1
      <4> QED  BY <1>1, <1>2, <3>1, <4>1, <4>2 DEF Row, Cell
    <3> QED  BY <1>1, <3>1, <3>2 DEF HandlerReady, KeyFits
  <2> QED  BY <2>1, <2>2
<1> QED  BY <1>5, <1>6, <1>7

----------------------------------------------------------------------------
LEMMA LineInit == Init => LineInv
<1> SUFFICES ASSUME Init PROVE LineInv
  OBVIOUS
<1>1. TypeOK
  BY Sizes DEF Init, TypeOK
<1>2. HandlerReady
  BY DEF Init, HandlerReady
<1>3. ASSUME NEW t \in Terminals PROVE RowHoldsLine(t) /\ EndedIsWanted(t)
  <2>1. \A i \in Index : Row(t, i) = NUL /\ ~(i < 0)
    BY CellIn, Sizes DEF Init, Row, Index
  <2>2. ~NewlineIn(t) /\ Count(t) = 0 /\ 0 \in Index
    BY Sizes DEF Init, NewlineIn, Count, At, Index
  <2> QED  BY <2>1, <2>2 DEF Init, RowHoldsLine, EndedIsWanted
<1> QED  BY <1>1, <1>2, <1>3 DEF LineInv

(* Without keys between the end of a line and its read, the invariant is   *)
(* inductive.                                                              *)
LEMMA LineStep ==
  ASSUME ~TypeAhead, LineInv, [Next]_vars
  PROVE  LineInv'
<1>1. CASE Keys
  BY <1>1, KeyKeeps DEF Keys
<1>2. CASE KBstore
  BY <1>2, KBstoreKeeps
<1>3. CASE KBadvance
  BY <1>3, KBadvanceKeeps
<1>4. CASE KBready
  BY <1>4, KBreadyKeeps
<1>5. CASE KBflush
  BY <1>5, BackKeeps, FlushedKeeps DEF KBflush, bufs
<1>6. CASE KBflushzero
  BY <1>6, ZeroKeeps DEF KBflushzero
<1>7. CASE KBerase
  BY <1>7, BackKeeps DEF KBerase, LineInv, HandlerReady
<1>8. CASE KBzero
  BY <1>8, ZeroKeeps DEF KBzero
<1>9. ASSUME NEW t \in Terminals, ReadCopy(t) PROVE LineInv'
  BY <1>9, ReadCopyKeeps
<1>10. ASSUME NEW t \in Terminals, NEW n \in ReadSizes, ReadCall(t, n) PROVE LineInv'
  BY <1>10, ReadCallKeeps
<1>11. CASE UNCHANGED vars
  <2>1. TypeOK' /\ HandlerReady'
    BY <1>11 DEF vars, bufs, LineInv, TypeOK, HandlerReady, KeyFits, Row, Cell
  <2>2. \A t \in Terminals : RowHoldsLine(t)' /\ EndedIsWanted(t)'
    BY <1>11 DEF vars, bufs, LineInv, RowHoldsLine, EndedIsWanted, Count, NewlineIn,
                 At, Row, Cell
  <2> QED  BY <2>1, <2>2 DEF LineInv
<1> QED
  BY <1>1, <1>2, <1>3, <1>4, <1>5, <1>6, <1>7, <1>8, <1>9, <1>10, <1>11
     DEF Next, KBhandler

LEMMA LineInvariant == ~TypeAhead => (SafetySpec => []LineInv)
<1> SUFFICES ASSUME ~TypeAhead PROVE SafetySpec => []LineInv
  OBVIOUS
<1>1. LineInv /\ [Next]_vars => LineInv'
  BY LineStep
<1> QED  BY <1>1, LineInit, PTL DEF SafetySpec

----------------------------------------------------------------------------
(* What keeps buf_loc in its row when keys may come at any time.  A row    *)
(* nobody has edited after its end is full only while its newline waits to *)
(* be read; the room KBhandler tests for is still there when it stores;    *)
(* and no read comes between its test for Backspace and the step back.     *)
RowBound(t) ==
  t \notin ahead => /\ buf_loc[t] \in 0..BUF_SIZE
                    /\ buf_loc[t] = BUF_SIZE => readReady[t] = 1 \/ At(t, {"ready"})

HandlerBound ==
  LET n == buf_loc[currentTerminal] IN
  currentTerminal \notin ahead =>
    /\ kb \in {"store", "advance", "zero", "flushzero"} => n <= BUF_SIZE - 1
    /\ kb \in {"store", "advance"} /\ key # NL => n <= BUF_SIZE - 2
    /\ kb = "erase" => n > 0 /\ readReady[currentTerminal] = 0

BoundTypes ==
  /\ currentTerminal \in Terminals
  /\ DOMAIN buf_loc = Terminals /\ readReady \in [Terminals -> {0, 1}]

BoundInv == BoundTypes /\ (\A t \in Terminals : RowBound(t)) /\ HandlerBound

(* A key is characters or Enter, and Enter is no character.                *)
LEMMA NewlineApart == NL \notin Chars
BY CharsAssumption

(* A step of KBhandler that changes at most its own terminal's buf_loc.    *)
LEMMA OwnBound ==
  ASSUME BoundInv, NEW n, buf_loc' = [buf_loc EXCEPT ![currentTerminal] = n],
         UNCHANGED <<currentTerminal, readReady, ahead>>,
         kb # "ready",
         RowBound(currentTerminal)', HandlerBound'
  PROVE  BoundInv'
<1>1. BoundTypes'
  BY DEF BoundInv, BoundTypes
<1>2. ASSUME NEW t \in Terminals, t # currentTerminal PROVE RowBound(t)'
  BY <1>2 DEF BoundInv, BoundTypes, RowBound, At
<1>3. \A t \in Terminals : RowBound(t)'
  BY <1>2
<1> QED  BY <1>1, <1>3 DEF BoundInv

(* A step of KBhandler that leaves buf_loc alone.                          *)
LEMMA StillBound ==
  ASSUME BoundInv, UNCHANGED <<currentTerminal, buf_loc, readReady, ahead>>,
         kb # "ready", HandlerBound'
  PROVE  BoundInv'
BY DEF BoundInv, BoundTypes, RowBound, At

LEMMA BoundStep ==
  ASSUME BoundInv, [Next]_vars
  PROVE  BoundInv'
<1> DEFINE c == currentTerminal
           n == buf_loc[c]
<1>0. /\ c \in Terminals /\ RowBound(c) /\ HandlerBound /\ BoundTypes
      /\ BUF_SIZE \in Nat /\ BUF_SIZE >= 2
  BY Sizes DEF BoundInv, BoundTypes
<1>1. ASSUME NEW k \in Chars, KeyChar(k) PROVE BoundInv'
  <2>1. /\ UNCHANGED <<currentTerminal, buf_loc, readReady, ahead>> /\ kb = "idle"
        /\ kb' = "store" /\ key' = k
    BY <1>1 DEF KeyChar, KeyArrives, bufs
  <2>2. c \notin ahead => n \in Nat /\ n < BUF_SIZE - 1
    BY <1>0, <1>1 DEF KeyChar, Room, RowBound
  <2>3. HandlerBound'
    BY <1>0, <2>1, <2>2, NewlineApart DEF HandlerBound
  <2> QED  BY <2>1, <2>3, StillBound
<1>2. CASE KeyEnter \/ KeyBackspace
  <2>1. /\ UNCHANGED <<currentTerminal, buf_loc, readReady>> /\ kb = "idle"
        /\ ahead' = IF readReady[c] = 1 THEN ahead \cup {c} ELSE ahead
        /\ kb' \in {"store", "flush", "erase"}
        /\ kb' = "store" => key' = NL
        /\ kb' = "erase" => n # 0
    BY <1>2 DEF KeyEnter, KeyBackspace, KeyArrives, EditsAhead, bufs
  <2>2. BoundTypes'
    BY <1>0, <2>1 DEF BoundTypes
  <2>3. \A t \in Terminals : RowBound(t)'
    BY <2>1 DEF BoundInv, RowBound, At
  <2>4. HandlerBound'
    <3> SUFFICES ASSUME c \notin ahead' PROVE HandlerBound'
      BY <2>1 DEF HandlerBound
    <3>1. c \notin ahead /\ readReady[c] # 1
      BY <2>1
    <3>2. n \in 0..BUF_SIZE /\ n # BUF_SIZE
      BY <1>0, <2>1, <3>1 DEF RowBound, At
    <3>3. readReady[c] = 0
      BY <1>0, <3>1 DEF BoundTypes
    <3> QED  BY <1>0, <2>1, <3>2, <3>3 DEF HandlerBound
  <2> QED  BY <2>2, <2>3, <2>4 DEF BoundInv
<1>3. ASSUME NEW t \in Terminals, KeySwitch(t) PROVE BoundInv'
  <2>1. /\ kb = "idle" /\ kb' = "idle" /\ currentTerminal' = t
        /\ UNCHANGED <<buf_loc, readReady, ahead>>
    BY <1>3 DEF KeySwitch, bufs
  <2> QED  BY <1>0, <2>1 DEF BoundInv, BoundTypes, RowBound, HandlerBound, At
<1>4. CASE KBstore
  <2>1. /\ UNCHANGED <<currentTerminal, buf_loc, readReady, ahead, key>>
        /\ kb = "store" /\ kb' = "advance"
    BY <1>4 DEF KBstore
  <2>2. HandlerBound'
    BY <1>0, <2>1 DEF HandlerBound
  <2> QED  BY <2>1, <2>2, StillBound
<1>5. CASE KBadvance
  <2>1. /\ UNCHANGED <<currentTerminal, readReady, ahead>> /\ kb = "advance"
        /\ buf_loc' = [buf_loc EXCEPT ![c] = n + 1]
        /\ kb' = IF key = NL THEN "ready" ELSE "idle"
    BY <1>5 DEF KBadvance
  <2>2. HandlerBound'
    BY <2>1 DEF HandlerBound
  <2>3. c \notin ahead => n \in 0..(BUF_SIZE - 1) /\ (key # NL => n <= BUF_SIZE - 2)
    BY <1>0, <2>1 DEF RowBound, HandlerBound
  <2>4. buf_loc'[c] = n + 1
    BY <1>0, <2>1 DEF BoundTypes
  <2>5. RowBound(c)'
    BY <1>0, <2>1, <2>3, <2>4 DEF RowBound, At
  <2> QED  BY <2>1, <2>2, <2>5, OwnBound
<1>6. CASE KBready
  <2>1. /\ UNCHANGED <<currentTerminal, buf_loc, ahead>> /\ kb = "ready" /\ kb' = "idle"
        /\ readReady' = [readReady EXCEPT ![c] = 1]
    BY <1>6 DEF KBready
  <2>2. BoundTypes' /\ HandlerBound'
    BY <1>0, <2>1 DEF BoundTypes, HandlerBound
  <2>3. \A t \in Terminals : RowBound(t)'
    BY <1>0, <2>1 DEF BoundInv, BoundTypes, RowBound, At
  <2> QED  BY <2>2, <2>3 DEF BoundInv
<1>7. CASE (KBflush /\ n > 0) \/ KBerase
  <2>1. /\ UNCHANGED <<currentTerminal, readReady, ahead>> /\ kb \in {"flush", "erase"}
        /\ buf_loc' = [buf_loc EXCEPT ![c] = n - 1]
        /\ kb' \in {"flushzero", "zero"}
    BY <1>7 DEF KBflush, KBerase
  <2>2. c \notin ahead => n \in 0..BUF_SIZE /\ n > 0
    BY <1>0, <1>7 DEF RowBound, HandlerBound, KBerase
  <2>3. buf_loc'[c] = n - 1
    BY <1>0, <2>1 DEF BoundTypes
  <2>4. HandlerBound'
    BY <1>0, <2>1, <2>2, <2>3 DEF HandlerBound
  <2>5. RowBound(c)'
    BY <1>0, <2>1, <2>2, <2>3 DEF RowBound, At
  <2> QED  BY <2>1, <2>4, <2>5, OwnBound
<1>8. CASE (KBflush /\ ~(n > 0)) \/ KBflushzero \/ KBzero
  <2>1. /\ UNCHANGED <<currentTerminal, buf_loc, readReady, ahead>> /\ kb # "ready"
        /\ kb' \in {"flush", "idle"}
    BY <1>8 DEF KBflush, KBflushzero, KBzero
  <2>2. HandlerBound'
    BY <2>1 DEF HandlerBound
  <2> QED  BY <2>1, <2>2, StillBound
(* A read sets buf_loc to the front of the row; where it overlaps with     *)
(* KBhandler on that row, KBhandler is not about to step back.             *)
<1>9. ASSUME NEW t \in Terminals, ReadCopy(t) PROVE BoundInv'
  <2>1. /\ UNCHANGED <<currentTerminal, kb, key>> /\ readReady[t] = 1
        /\ readReady' = [readReady EXCEPT ![t] = 0]
        /\ buf_loc' = [buf_loc EXCEPT ![t] = 0]
        /\ ahead' = IF t = c /\ kb # "idle" THEN ahead ELSE ahead \ {t}
    BY <1>9 DEF ReadCopy
  <2>2. BoundTypes'
    BY <1>0, <2>1 DEF BoundTypes
  <2>3. ASSUME NEW u \in Terminals PROVE RowBound(u)'
    <3>1. CASE u = t
      BY <1>0, <2>1, <3>1 DEF RowBound, BoundTypes
    <3>2. CASE u # t
      <4>1. /\ buf_loc'[u] = buf_loc[u] /\ readReady'[u] = readReady[u]
            /\ u \in ahead' <=> u \in ahead
        BY <1>0, <2>1, <3>2 DEF BoundTypes
      <4>2. RowBound(u)
        BY DEF BoundInv
      <4> QED  BY <2>1, <4>1, <4>2 DEF RowBound, At
    <3> QED  BY <3>1, <3>2
  <2>4. HandlerBound'
    <3>1. CASE kb = "idle"
      BY <2>1, <3>1 DEF HandlerBound
    <3>2. CASE kb # "idle" /\ t = c
      <4>1. buf_loc'[c] = 0 /\ ahead' = ahead /\ readReady[c] = 1
        BY <1>0, <2>1, <3>2 DEF BoundTypes
      <4> QED  BY <1>0, <2>1, <4>1 DEF HandlerBound
    <3>3. CASE t # c
      <4>1. /\ buf_loc'[c] = n /\ readReady'[c] = readReady[c]
            /\ c \in ahead' <=> c \in ahead
        BY <1>0, <2>1, <3>3 DEF BoundTypes
      <4> QED  BY <1>0, <2>1, <4>1 DEF HandlerBound
    <3> QED  BY <3>1, <3>2, <3>3
  <2> QED  BY <2>2, <2>3, <2>4 DEF BoundInv
<1>10. CASE UNCHANGED vars \/ \E t \in Terminals, k \in ReadSizes : ReadCall(t, k)
  <2>1. UNCHANGED <<currentTerminal, buf_loc, readReady, ahead, kb, key>>
    BY <1>10 DEF vars, bufs, ReadCall
  <2> QED  BY <2>1 DEF BoundInv, BoundTypes, RowBound, HandlerBound, At
<1> QED
  BY <1>1, <1>2, <1>3, <1>4, <1>5, <1>6, <1>7, <1>8, <1>9, <1>10
     DEF Next, Keys, KBhandler

(* For every size of the buffers and every number of terminals, whatever   *)
(* is typed while an ended line waits to be read and wherever reads come   *)
(* between the statements of KBhandler, it stores only inside the row of   *)
(* the displayed terminal, unless Enter or Backspace was pressed there on  *)
(* an ended line that had not been read.                                   *)
THEOREM StoresStayInBounds == SafetySpec => []StoresInBounds
<1>1. Init => BoundInv
  BY Sizes DEF Init, BoundInv, BoundTypes, RowBound, HandlerBound
<1>2. BoundInv /\ [Next]_vars => BoundInv'
  BY BoundStep
<1>3. BoundInv => StoresInBounds
  <2> SUFFICES ASSUME BoundInv, kb \in {"store", "zero", "flushzero"},
                      currentTerminal \notin ahead
               PROVE  buf_loc[currentTerminal] \in 0..(BUF_SIZE - 1)
    BY DEF StoresInBounds
  <2>1. /\ buf_loc[currentTerminal] \in 0..BUF_SIZE
        /\ buf_loc[currentTerminal] <= BUF_SIZE - 1
    BY DEF BoundInv, BoundTypes, RowBound, HandlerBound
  <2> QED  BY <2>1, Sizes
<1> QED  BY <1>1, <1>2, <1>3, PTL DEF SafetySpec

----------------------------------------------------------------------------
(* Outside KBhandler every row holds the line typed so far, then a newline *)
(* if the line is ended and not yet read, and nothing of earlier lines.    *)
THEOREM BuffersHoldLines == ~TypeAhead => (SafetySpec => []BufferHoldsLine)
<1> SUFFICES ASSUME ~TypeAhead PROVE SafetySpec => []BufferHoldsLine
  OBVIOUS
<1>1. ASSUME LineInv, kb = "idle", NEW t \in Terminals, NEW i \in 0..(BUF_SIZE - 1)
      PROVE  /\ buf_loc[t] \in 0..BUF_SIZE
             /\ i >= buf_loc[t] => Load(KBbuf, t, i) = NUL
             /\ i < buf_loc[t] => \/ Load(KBbuf, t, i) \in Chars
                                  \/ /\ Load(KBbuf, t, i) = NL
                                     /\ i = buf_loc[t] - 1 /\ readReady[t] = 1
  <2>1. buf_loc[t] \in 0..BUF_SIZE /\ i \in Index /\ Load(KBbuf, t, i) = Row(t, i)
    BY <1>1, LineTypes, LoadRow DEF LineInv, Index
  <2>2. RowHoldsLine(t) /\ (NewlineIn(t) <=> readReady[t] = 1)
    BY <1>1 DEF LineInv, NewlineIn, At
  <2>3. i >= buf_loc[t] => Row(t, i) = NUL
    BY <1>1, <2>1, <2>2 DEF RowHoldsLine, At
  <2>4. i < buf_loc[t] => \/ Row(t, i) \in Chars
                          \/ Row(t, i) = NL /\ i = buf_loc[t] - 1 /\ readReady[t] = 1
    BY <2>1, <2>2, Sizes DEF RowHoldsLine, Count, Index
  <2> QED  BY <2>1, <2>3, <2>4
<1>2. LineInv => BufferHoldsLine
  <2>1. 0 \in 0..(BUF_SIZE - 1)
    BY Sizes
  <2> QED  BY <1>1, <2>1 DEF BufferHoldsLine
<1> QED  BY <1>2, LineInvariant, PTL

----------------------------------------------------------------------------
(* The refinement of LineDiscipline.                                       *)

(* The characters that count as typed.                                     *)
LEMMA TypedIs ==
  ASSUME ~TypeAhead, LineInv, NEW t \in Terminals
  PROVE  /\ Typed(t) = IF At(t, {"flush", "flushzero"}) THEN 0
                       ELSE IF At(t, {"zero"}) THEN buf_loc[t] + 1 ELSE Count(t)
         /\ Typed(t) \in Index
         /\ lineBar[t] = [k \in 1..Typed(t) |-> Row(t, k - 1)]
<1>1. /\ buf_loc[t] \in 0..BUF_SIZE /\ Count(t) \in Index
      /\ readReady[t] \in {0, 1} /\ (t = currentTerminal /\ kb # "idle" => readReady[t] = 0)
      /\ At(t, {"zero"}) => buf_loc[t] < BUF_SIZE - 1
  BY LineTypes DEF LineInv, RowHoldsLine, HandlerReady, At
<1>2. Typed(t) = IF At(t, {"flush", "flushzero"}) THEN 0
                 ELSE IF At(t, {"zero"}) THEN buf_loc[t] + 1 ELSE Count(t)
  BY <1>1 DEF Typed, Count, NewlineIn, At
<1>3. Typed(t) \in Index
  BY <1>1, <1>2, Sizes DEF Index
<1>4. \A k \in 1..Typed(t) : Load(KBbuf, t, k - 1) = Row(t, k - 1)
  <2>1. \A k \in 1..Typed(t) : k - 1 \in Index
    BY <1>3, Sizes DEF Index
  <2> QED  BY <2>1, LineTypes, LoadRow DEF LineInv
<1> QED  BY <1>2, <1>3, <1>4 DEF lineBar

(* A step that leaves the typed part of a row alone leaves its line alone. *)
LEMMA SameLine ==
  ASSUME ~TypeAhead, LineInv, LineInv', NEW t \in Terminals,
         Typed(t)' = Typed(t),
         \A i \in Index : i < Typed(t) => Row(t, i)' = Row(t, i)
  PROVE  lineBar'[t] = lineBar[t]
<1>1. Typed(t) \in Index /\ lineBar[t] = [k \in 1..Typed(t) |-> Row(t, k - 1)]
  BY TypedIs
<1>2. (lineBar[t] = [k \in 1..Typed(t) |-> Row(t, k - 1)])'
  BY TypedIs, PTL
<1>3. \A k \in 1..Typed(t) : Row(t, k - 1)' = Row(t, k - 1)
  <2> SUFFICES ASSUME NEW k \in 1..Typed(t) PROVE Row(t, k - 1)' = Row(t, k - 1)
    OBVIOUS
  <2>1. k - 1 \in Index /\ k - 1 < Typed(t)
    BY <1>1, Sizes DEF Index
  <2> QED  BY <2>1
<1> QED  BY <1>1, <1>2, <1>3


(* The line after a step.                                                  *)
LEMMA TypedNext ==
  ASSUME ~TypeAhead, LineInv', NEW t \in Terminals
  PROVE  /\ Typed(t)' = IF At(t, {"flush", "flushzero"})' THEN 0
                        ELSE IF At(t, {"zero"})' THEN buf_loc'[t] + 1 ELSE Count(t)'
         /\ Typed(t)' \in Index
         /\ lineBar'[t] = [k \in 1..Typed(t)' |-> Row(t, k - 1)']
<1>1. (/\ Typed(t) = IF At(t, {"flush", "flushzero"}) THEN 0
                     ELSE IF At(t, {"zero"}) THEN buf_loc[t] + 1 ELSE Count(t)
       /\ Typed(t) \in Index
       /\ lineBar[t] = [k \in 1..Typed(t) |-> Row(t, k - 1)])'
  BY TypedIs, PTL
<1> QED  BY <1>1 DEF Index

(* The lines and the ends, terminal by terminal.                           *)
LEMMA Lines ==
  /\ lineBar = [t \in Terminals |-> lineBar[t]]
  /\ lineBar' = [t \in Terminals |-> lineBar'[t]]
  /\ endedBar = [t \in Terminals |-> readReady[t] = 1]
  /\ endedBar' = [t \in Terminals |-> readReady'[t] = 1]
BY DEF lineBar, endedBar

LEMMA OneLine ==
  ASSUME NEW c \in Terminals, NEW s, lineBar'[c] = s,
         \A t \in Terminals : t # c => lineBar'[t] = lineBar[t]
  PROVE  lineBar' = [lineBar EXCEPT ![c] = s]
BY Lines

LEMMA NoLine ==
  ASSUME \A t \in Terminals : lineBar'[t] = lineBar[t]
  PROVE  lineBar' = lineBar
BY Lines

LEMMA Ended == \A t \in Terminals : endedBar[t] <=> readReady[t] = 1
BY Zenon DEF endedBar

(* The line of a terminal that KBhandler does not work on.                 *)
LEMMA OtherLine ==
  ASSUME ~TypeAhead, LineInv, LineInv', NEW t \in Terminals,
         t # currentTerminal, UNCHANGED currentTerminal,
         buf_loc'[t] = buf_loc[t], readReady'[t] = readReady[t],
         \A i \in Index : Row(t, i)' = Row(t, i)
  PROVE  lineBar'[t] = lineBar[t]
<1>1. Typed(t)' = Typed(t)
  BY DEF Typed
<1> QED  BY <1>1, SameLine

(* Steps that change no cell and no count, and do not touch a half-done    *)
(* key, leave the lines alone.                                             *)
LEMMA SameLines ==
  ASSUME ~TypeAhead, LineInv, LineInv', UNCHANGED <<KBbuf, buf_loc, readReady>>,
         UNCHANGED currentTerminal \/ kb = "idle",
         kb' = kb \/ {kb, kb'} \subseteq {"idle", "store", "advance", "erase"}
  PROVE  lineBar' = lineBar /\ endedBar' = endedBar
<1>1. ASSUME NEW t \in Terminals PROVE lineBar'[t] = lineBar[t]
  <2>1. Typed(t)' = Typed(t)
    BY DEF Typed
  <2>2. \A i \in Index : Row(t, i)' = Row(t, i)
    BY DEF Row, Cell
  <2> QED  BY <2>1, <2>2, SameLine
<1> QED  BY <1>1, NoLine DEF endedBar


(* A sequence that extends another by one element, or is a prefix of it.   *)
LEMMA Appended ==
  ASSUME NEW S, NEW n \in Nat, NEW c \in S, NEW f \in [1..n -> S], NEW g \in [1..(n + 1) -> S],
         \A k \in 1..n : g[k] = f[k], g[n + 1] = c
  PROVE  g = Append(f, c) /\ Len(f) = n
<1>1. f \in Seq(S) /\ Len(f) = n /\ g \in Seq(S) /\ Len(g) = n + 1
  OBVIOUS
<1> DEFINE h == Append(f, c)
<1>2. h \in Seq(S) /\ Len(h) = n + 1 /\ h[n + 1] = c /\ \A k \in 1..n : h[k] = f[k]
  BY <1>1
<1> HIDE DEF h
<1>3. \A k \in 1..(n + 1) : g[k] = h[k]
  BY <1>2
<1> QED  BY <1>1, <1>2, <1>3

LEMMA Prefixed ==
  ASSUME NEW S, NEW n \in Nat, NEW m \in Nat, m <= n, NEW f \in [1..n -> S],
         NEW g \in [1..m -> S], \A k \in 1..m : g[k] = f[k]
  PROVE  g = SubSeq(f, 1, m) /\ Len(f) = n /\ Len(g) = m
<1>1. f \in Seq(S) /\ Len(f) = n /\ g \in Seq(S) /\ Len(g) = m
  OBVIOUS
<1> DEFINE h == SubSeq(f, 1, m)
<1>2. h \in Seq(S) /\ Len(h) = m /\ \A k \in 1..m : h[k] = f[k]
  BY <1>1
<1> HIDE DEF h
<1> QED  BY <1>1, <1>2

(* The line is a sequence of the row's first cells.                        *)
LEMMA LineType ==
  ASSUME ~TypeAhead, LineInv, NEW t \in Terminals
  PROVE  /\ Typed(t) \in Index /\ Typed(t) \in Nat
         /\ lineBar[t] \in [1..Typed(t) -> Chars \cup {NL, NUL}]
         /\ \A k \in 1..Typed(t) : lineBar[t][k] = Row(t, k - 1)
         /\ Len(lineBar[t]) = Typed(t)
<1>1. Typed(t) \in Index /\ lineBar[t] = [k \in 1..Typed(t) |-> Row(t, k - 1)]
  BY TypedIs
<1>2. \A k \in 1..Typed(t) : Row(t, k - 1) \in Chars \cup {NL, NUL}
  <2>1. \A k \in 1..Typed(t) : k - 1 \in Index
    BY <1>1, Sizes DEF Index
  <2>2. \A i \in Index : Row(t, i) \in Chars \cup {NL, NUL}
    BY CellIn, LineTypes DEF LineInv, Row
  <2> QED  BY <2>1, <2>2
<1>3. Typed(t) \in Nat
  BY <1>1, Sizes DEF Index
<1> QED  BY <1>1, <1>2, <1>3

LEMMA LineTypeNext ==
  ASSUME ~TypeAhead, LineInv', NEW t \in Terminals
  PROVE  /\ Typed(t)' \in Index /\ Typed(t)' \in Nat
         /\ lineBar'[t] \in [1..Typed(t)' -> Chars \cup {NL, NUL}]
         /\ \A k \in 1..Typed(t)' : lineBar'[t][k] = Row(t, k - 1)'
         /\ Len(lineBar'[t]) = Typed(t)'
<1>1. (/\ Typed(t) \in Index /\ Typed(t) \in Nat
       /\ lineBar[t] \in [1..Typed(t) -> Chars \cup {NL, NUL}]
       /\ \A k \in 1..Typed(t) : lineBar[t][k] = Row(t, k - 1)
       /\ Len(lineBar[t]) = Typed(t))'
  BY LineType, PTL
<1> QED  BY <1>1 DEF Index

----------------------------------------------------------------------------
(* The steps of the refinement.                                            *)

(* A key interrupt: the line is discarded when Enter finds nobody waiting, *)
(* and nothing happens to it yet otherwise.                                *)
LEMMA KeyRefines ==
  ASSUME ~TypeAhead, LineInv, LineInv', Keys
  PROVE  \/ UNCHANGED Discipline!ldVars \/ Discipline!Discard
         \/ \E t \in Terminals : Discipline!Show(t)
<1>1. /\ kb = "idle" /\ UNCHANGED <<KBbuf, buf_loc, readWaiting, readReady, want, got>>
      /\ kb' \in {"idle", "store", "flush", "erase"}
  BY DEF Keys, KeyEnter, KeyBackspace, KeyChar, KeySwitch, KeyArrives, bufs
<1>2. CASE kb' # "flush"
  <2>1. lineBar' = lineBar /\ endedBar' = endedBar
    BY <1>1, <1>2, SameLines
  <2>2. UNCHANGED currentTerminal \/ \E t \in Terminals : currentTerminal' = t
    BY DEF Keys, KeyEnter, KeyBackspace, KeyChar, KeySwitch
  <2> QED  BY <1>1, <2>1, <2>2 DEF Discipline!ldVars, Discipline!Show
<1>3. CASE kb' = "flush"
  <2> DEFINE c == currentTerminal
  <2>1. KeyEnter /\ readWaiting[c] # 1
    BY <1>1, <1>3 DEF Keys, KeyEnter, KeyBackspace, KeyChar, KeySwitch
  <2>2. /\ c \in Terminals /\ readReady[c] = 0 /\ want[c] = 0
        /\ UNCHANGED currentTerminal
    BY <2>1, LineTypes DEF KeyEnter, KeyArrives, LineInv, EndedIsWanted
  <2>3. lineBar'[c] = <<>>
    <3>1. Typed(c)' = 0
      BY <1>1, <1>3, <2>2 DEF Typed
    <3>2. Len(lineBar'[c]) = 0 /\ lineBar'[c] \in [1..0 -> Chars \cup {NL, NUL}]
      BY <2>2, <3>1, LineTypeNext
    <3> QED  BY <3>2
  <2>4. \A t \in Terminals : t # c => lineBar'[t] = lineBar[t]
    <3>1. \A t \in Terminals, i \in Index : Row(t, i)' = Row(t, i)
      BY <1>1 DEF Row, Cell
    <3> QED  BY <1>1, <2>2, <3>1, OtherLine
  <2>5. lineBar' = [lineBar EXCEPT ![c] = <<>>]
    BY <2>2, <2>3, <2>4, OneLine
  <2>6. ~endedBar[c] /\ endedBar' = endedBar
    <3>1. ~endedBar[c]
      BY <2>2, Ended
    <3>2. endedBar' = endedBar
      BY <1>1, Zenon DEF endedBar
    <3> QED  BY <3>1, <3>2
  <2>7. Discipline!Discard
    BY <1>1, <2>2, <2>5, <2>6 DEF Discipline!Discard
  <2> QED  BY <2>7
<1> QED  BY <1>2, <1>3


(* A statement of KBhandler that leaves what is typed alone.               *)
LEMMA HandlerStutters ==
  ASSUME ~TypeAhead, LineInv, LineInv', UNCHANGED <<currentTerminal, readReady, want, got>>,
         \A t \in Terminals : t # currentTerminal =>
           buf_loc'[t] = buf_loc[t] /\ \A i \in Index : Row(t, i)' = Row(t, i),
         \A t \in Terminals : t = currentTerminal =>
           /\ Typed(t)' = Typed(t)
           /\ \A i \in Index : i < Typed(t) => Row(t, i)' = Row(t, i)
  PROVE  UNCHANGED Discipline!ldVars
<1>1. ASSUME NEW t \in Terminals PROVE lineBar'[t] = lineBar[t]
  <2>1. CASE t = currentTerminal
    BY <2>1, SameLine
  <2>2. CASE t # currentTerminal
    BY <2>2, OtherLine
  <2> QED  BY <2>1, <2>2
<1>2. lineBar' = lineBar
  BY <1>1, NoLine
<1>3. endedBar' = endedBar
  BY Zenon DEF endedBar
<1> QED  BY <1>2, <1>3 DEF Discipline!ldVars

(* The rows after a store behind the line, and after no store.             *)
LEMMA StoreBehind ==
  ASSUME ~TypeAhead, LineInv, kb \notin {"idle", "ready"}, NEW c,
         KBbuf' = Store(KBbuf, currentTerminal, buf_loc[currentTerminal], c),
         NEW t \in Terminals, NEW i \in Index, t # currentTerminal \/ i # buf_loc[t]
  PROVE  Row(t, i)' = Row(t, i)
<1>1. currentTerminal \in Terminals /\ buf_loc[currentTerminal] \in Index
  BY OwnRow
<1> QED  BY <1>1, StoreRow, LineTypes DEF LineInv

LEMMA KBstoreRefines ==
  ASSUME ~TypeAhead, LineInv, LineInv', KBstore
  PROVE  UNCHANGED Discipline!ldVars
<1> DEFINE c == currentTerminal
<1>1. /\ kb = "store" /\ kb' = "advance" /\ KBbuf' = Store(KBbuf, c, buf_loc[c], key)
      /\ UNCHANGED <<currentTerminal, buf_loc, readReady, want, got>>
  BY DEF KBstore
<1>2. c \in Terminals /\ buf_loc[c] \in Index /\ Typed(c) = buf_loc[c]
  BY <1>1, OwnRow, TypedIs DEF At
<1>3. \A t \in Terminals, i \in Index : t # c \/ i < buf_loc[c] => Row(t, i)' = Row(t, i)
  <2>1. \A i \in Index : i < buf_loc[c] => i # buf_loc[c]
    BY <1>2 DEF Index
  <2> QED  BY <1>1, <2>1, StoreBehind
<1>4. \A t \in Terminals : t = c => Typed(t)' = Typed(t)
  BY <1>1, <1>2 DEF Typed
<1> QED  BY <1>1, <1>2, <1>3, <1>4, HandlerStutters

(* A character counts as typed when buf_loc passes it.                     *)
LEMMA KBadvanceRefines ==
  ASSUME ~TypeAhead, LineInv, LineInv', KBadvance
  PROVE  UNCHANGED Discipline!ldVars \/ \E d \in Chars : Discipline!Type(d)
<1>0. PICK c \in Terminals, n \in Index : c = currentTerminal /\ n = buf_loc[c] /\ n \in Nat
  BY OwnRow, Sizes DEF KBadvance, Index
<1>1. /\ kb = "advance" /\ buf_loc' = [buf_loc EXCEPT ![c] = n + 1]
      /\ kb' = IF key = NL THEN "ready" ELSE "idle"
      /\ UNCHANGED <<currentTerminal, KBbuf, readWaiting, readReady, want, got>>
  BY <1>0 DEF KBadvance
<1>2. /\ Typed(c) = n /\ readReady[c] = 0
      /\ buf_loc \in [Terminals -> 0..BUF_SIZE] /\ Row(c, n) = key
      /\ \/ key \in Chars /\ key # NL /\ n < BUF_SIZE - 1
         \/ key = NL
  BY <1>0, <1>1, OwnRow, TypedIs, LineTypes, CharsAssumption DEF At, LineInv, HandlerReady, KeyFits
<1>3. /\ \A t \in Terminals, i \in Index : Row(t, i)' = Row(t, i)
      /\ \A t \in Terminals : t # c => buf_loc'[t] = buf_loc[t]
      /\ buf_loc'[c] = n + 1
  BY <1>1, <1>2 DEF Row, Cell
<1>4. CASE key = NL
  <2>1. \A t \in Terminals : t = c => Typed(t)' = Typed(t)
    BY <1>0, <1>1, <1>2, <1>3, <1>4 DEF Typed
  <2> QED  BY <1>0, <1>1, <1>3, <2>1, HandlerStutters
<1>5. CASE key # NL
  <2>1. Typed(c)' = n + 1
    BY <1>0, <1>1, <1>2, <1>3, <1>5 DEF Typed
  <2>2. /\ lineBar[c] \in [1..n -> Chars \cup {NL, NUL}]
        /\ \A k \in 1..n : lineBar[c][k] = Row(c, k - 1)
    BY <1>2, LineType
  <2>3. /\ lineBar'[c] \in [1..(n + 1) -> Chars \cup {NL, NUL}]
        /\ \A k \in 1..(n + 1) : lineBar'[c][k] = Row(c, k - 1)'
    BY <1>1, <1>2, <2>1, LineTypeNext
  <2>4. \A k \in 1..(n + 1) : k - 1 \in Index /\ (k = n + 1 => k - 1 = n)
    BY <1>0, Sizes DEF Index
  <2>5. \A k \in 1..(n + 1) : lineBar'[c][k] = Row(c, k - 1)
    BY <1>3, <2>3, <2>4
  <2>6. lineBar'[c] = Append(lineBar[c], key) /\ Len(lineBar[c]) = n
    <3>1. key \in Chars \cup {NL, NUL} /\ 1..n \subseteq 1..(n + 1) /\ n + 1 \in 1..(n + 1)
      BY <1>0, <1>2
    <3>2. (\A k \in 1..n : lineBar'[c][k] = lineBar[c][k]) /\ lineBar'[c][n + 1] = key
      BY <1>2, <2>2, <2>4, <2>5, <3>1
    <3> QED  BY <1>0, <2>2, <2>3, <3>1, <3>2, Appended
  <2>7. \A t \in Terminals : t # c => lineBar'[t] = lineBar[t]
    BY <1>0, <1>1, <1>3, OtherLine
  <2>8. lineBar' = [lineBar EXCEPT ![c] = Append(lineBar[c], key)]
    BY <1>2, <2>6, <2>7, OneLine
  <2>9. ~endedBar[c] /\ endedBar' = endedBar
    <3>1. ~endedBar[c]
      BY <1>2, Ended
    <3>2. endedBar' = endedBar
      BY <1>1, Zenon DEF endedBar
    <3> QED  BY <3>1, <3>2
  <2>10. key \in Chars /\ Len(lineBar[c]) < BUF_SIZE - 1
    BY <1>2, <1>5, <2>6
  <2>11. Discipline!Type(key)
    BY <1>0, <1>1, <2>8, <2>9, <2>10 DEF Discipline!Type
  <2> QED  BY <2>10, <2>11
<1> QED  BY <1>4, <1>5


(* Enter for a waiting program ends the line when readReady is set.        *)
LEMMA KBreadyRefines ==
  ASSUME ~TypeAhead, LineInv, LineInv', KBready
  PROVE  Discipline!End
<1>0. PICK c \in Terminals : c = currentTerminal
  BY LineTypes DEF LineInv
<1>1. /\ kb = "ready" /\ kb' = "idle" /\ readReady' = [readReady EXCEPT ![c] = 1]
      /\ UNCHANGED <<currentTerminal, KBbuf, buf_loc, readWaiting, want, got>>
  BY <1>0 DEF KBready
<1>2. /\ readReady \in [Terminals -> {0, 1}] /\ readReady[c] = 0 /\ want[c] # 0
      /\ buf_loc \in [Terminals -> 0..BUF_SIZE]
  BY <1>0, <1>1, LineTypes DEF LineInv, HandlerReady
<1>3. \A t \in Terminals, i \in Index : Row(t, i)' = Row(t, i)
  BY <1>1 DEF Row, Cell
<1>4. ASSUME NEW t \in Terminals PROVE lineBar'[t] = lineBar[t]
  <2>1. Typed(t)' = Typed(t)
    BY <1>0, <1>1, <1>2 DEF Typed
  <2> QED  BY <1>3, <2>1, SameLine
<1>5. lineBar' = lineBar
  BY <1>4, NoLine
<1>6. ~endedBar[c]
  BY <1>2, Ended
<1>7. endedBar' = [endedBar EXCEPT ![c] = TRUE]
  <2>1. \A t \in Terminals : readReady'[t] = IF t = c THEN 1 ELSE readReady[t]
    BY <1>1, <1>2
  <2>2. \A t \in Terminals : (readReady'[t] = 1) = IF t = c THEN TRUE ELSE readReady[t] = 1
    BY <2>1
  <2> QED  BY <2>2 DEF endedBar
<1> QED  BY <1>0, <1>1, <1>2, <1>5, <1>6, <1>7 DEF Discipline!End

(* The line that nobody waits for is already gone while it is emptied.     *)
LEMMA FlushRefines ==
  ASSUME ~TypeAhead, LineInv, LineInv', KBflush \/ KBflushzero
  PROVE  UNCHANGED Discipline!ldVars
<1>0. PICK c \in Terminals : c = currentTerminal /\ buf_loc[c] \in Index
  BY OwnRow DEF KBflush, KBflushzero
<1>1. /\ kb \in {"flush", "flushzero"} /\ kb' \in {"flush", "flushzero", "idle"}
      /\ kb' = "idle" => buf_loc' = buf_loc /\ ~(buf_loc[c] > 0)
      /\ \A t \in Terminals : t # c => buf_loc'[t] = buf_loc[t]
      /\ UNCHANGED <<currentTerminal, readReady, want, got>>
      /\ KBbuf' = KBbuf \/ KBbuf' = Store(KBbuf, currentTerminal, buf_loc[currentTerminal], NUL)
  BY <1>0, LineTypes DEF KBflush, KBflushzero, LineInv
<1>2. readReady[c] = 0 /\ ~(readReady[c] = 1)
  BY <1>0, <1>1, OwnRow
<1>3. kb' = "idle" => buf_loc'[c] = 0
  BY <1>0, <1>1, Sizes DEF Index
<1>4. Typed(c) = 0 /\ Typed(c)' = 0
  BY <1>0, <1>1, <1>2, <1>3 DEF Typed
<1>5. \A t \in Terminals, i \in Index : t # c => Row(t, i)' = Row(t, i)
  <2>1. CASE KBbuf' = KBbuf
    BY <2>1 DEF Row, Cell
  <2>2. CASE KBbuf' # KBbuf
    BY <1>0, <1>1, <2>2, StoreBehind
  <2> QED  BY <2>1, <2>2
<1>6. \A i \in Index : ~(i < 0)
  BY Sizes DEF Index
<1> QED  BY <1>0, <1>1, <1>4, <1>5, <1>6, HandlerStutters

(* A character counts as erased when its cell has been cleared.            *)
LEMMA KBeraseRefines ==
  ASSUME ~TypeAhead, LineInv, LineInv', KBerase
  PROVE  UNCHANGED Discipline!ldVars
<1>0. PICK c \in Terminals : c = currentTerminal /\ buf_loc[c] \in Index
  BY OwnRow DEF KBerase
<1>1. /\ kb = "erase" /\ kb' = "zero" /\ buf_loc' = [buf_loc EXCEPT ![c] = @ - 1]
      /\ UNCHANGED <<currentTerminal, KBbuf, readReady, want, got>>
  BY <1>0 DEF KBerase
<1>2. /\ buf_loc \in [Terminals -> 0..BUF_SIZE] /\ readReady[c] = 0
      /\ BUF_SIZE \in Nat
  BY <1>0, <1>1, LineTypes, OwnRow, Sizes DEF LineInv
<1>3. (\A t \in Terminals : t # c => buf_loc'[t] = buf_loc[t]) /\ buf_loc'[c] + 1 = buf_loc[c]
  BY <1>1, <1>2
<1>4. Typed(c)' = Typed(c)
  BY <1>0, <1>1, <1>2, <1>3 DEF Typed
<1>5. \A t \in Terminals, i \in Index : Row(t, i)' = Row(t, i)
  BY <1>1 DEF Row, Cell
<1> QED  BY <1>0, <1>1, <1>3, <1>4, <1>5, HandlerStutters

LEMMA KBzeroRefines ==
  ASSUME ~TypeAhead, LineInv, LineInv', KBzero
  PROVE  Discipline!Erase
<1>0. PICK c \in Terminals, n \in Index : c = currentTerminal /\ n = buf_loc[c] /\ n \in Nat
  BY OwnRow, Sizes DEF KBzero, Index
<1>1. /\ kb = "zero" /\ kb' = "idle"
      /\ KBbuf' = Store(KBbuf, currentTerminal, buf_loc[currentTerminal], NUL)
      /\ UNCHANGED <<currentTerminal, buf_loc, readReady, want, got>>
  BY DEF KBzero
<1>2. readReady[c] = 0 /\ Typed(c) = n + 1 /\ Typed(c)' = n
  BY <1>0, <1>1, OwnRow DEF Typed
<1>3. \A t \in Terminals, i \in Index : t # c \/ i < n => Row(t, i)' = Row(t, i)
  <2>1. \A i \in Index : i < n => i # n
    BY <1>0 DEF Index
  <2> QED  BY <1>0, <1>1, <2>1, StoreBehind
<1>4. /\ lineBar[c] \in [1..(n + 1) -> Chars \cup {NL, NUL}]
      /\ \A k \in 1..(n + 1) : lineBar[c][k] = Row(c, k - 1)
      /\ Len(lineBar[c]) = n + 1
  BY <1>2, LineType
<1>5. /\ lineBar'[c] \in [1..n -> Chars \cup {NL, NUL}]
      /\ \A k \in 1..n : lineBar'[c][k] = Row(c, k - 1)'
  BY <1>2, LineTypeNext
<1>6. \A k \in 1..n : k - 1 \in Index /\ k - 1 < n /\ k \in 1..(n + 1)
  BY <1>0, Sizes DEF Index
<1>7. \A k \in 1..n : lineBar'[c][k] = lineBar[c][k]
  BY <1>3, <1>4, <1>5, <1>6
<1>8. lineBar'[c] = SubSeq(lineBar[c], 1, n)
  <2>1. n + 1 \in Nat /\ n <= n + 1
    BY <1>0
  <2> QED  BY <1>0, <1>4, <1>5, <1>7, <2>1, Prefixed
<1>9. n = Len(lineBar[c]) - 1 /\ lineBar[c] # <<>>
  BY <1>0, <1>4
<1>10. \A t \in Terminals : t # c => lineBar'[t] = lineBar[t]
  BY <1>0, <1>1, <1>3, OtherLine
<1>11. lineBar' = [lineBar EXCEPT ![c] = SubSeq(lineBar[c], 1, Len(lineBar[c]) - 1)]
  BY <1>8, <1>9, <1>10, OneLine
<1>12. ~endedBar[c]
  BY <1>2, Ended
<1>13. endedBar' = endedBar
  BY <1>1, Zenon DEF endedBar
<1> QED  BY <1>0, <1>1, <1>9, <1>11, <1>12, <1>13 DEF Discipline!Erase

LEMMA ReadCallRefines ==
  ASSUME ~TypeAhead, LineInv, LineInv', NEW t \in Terminals, NEW n \in ReadSizes, ReadCall(t, n)
  PROVE  Discipline!Ask(t, n)
<1>1. /\ want[t] = 0 /\ want' = [want EXCEPT ![t] = n]
      /\ UNCHANGED <<currentTerminal, KBbuf, buf_loc, readReady, kb, key, got>>
  BY DEF ReadCall
<1>2. lineBar' = lineBar /\ endedBar' = endedBar
  BY <1>1, SameLines
<1> QED  BY <1>1, <1>2 DEF Discipline!Ask


(* terminalRead copies the line with its newline, or what fits of it.      *)
LEMMA CopyIs ==
  ASSUME ~TypeAhead, LineInv, NEW t \in Terminals, want[t] # 0, readReady[t] = 1,
         NEW n, n = BytesToCopy(t, want[t])
  PROVE  /\ Count(t) \in Index /\ Count(t) \in Nat /\ want[t] \in Nat
         /\ n = IF Count(t) + 1 <= want[t] THEN Count(t) + 1 ELSE want[t]
         /\ \A i \in Index : i < Count(t) => Load(KBbuf, t, i) \in Chars
         /\ Load(KBbuf, t, Count(t)) = NL
<1> DEFINE m == Count(t)
           w == want[t]
           copied == IF m + 1 <= w THEN m + 1 ELSE w
           P(k) == /\ k = w \/ Load(KBbuf, t, k - 1) = NL
                   /\ \A j \in 0..(k - 2) : Load(KBbuf, t, j) # NL
<1>1. /\ RowHoldsLine(t) /\ NewlineIn(t) /\ w \in Nat /\ w # 0
      /\ \A i \in Index : Load(KBbuf, t, i) = Row(t, i)
  BY LineTypes, LoadRow DEF LineInv, NewlineIn
<1>2. /\ m \in Index /\ m \in Nat /\ Load(KBbuf, t, m) = NL
      /\ \A i \in Index : i < m => Load(KBbuf, t, i) \in Chars
  BY <1>1, Sizes DEF RowHoldsLine, Index
<1>3. \A i \in Index : i < m => Load(KBbuf, t, i) # NL
  BY <1>2, CharsAssumption
<1>4. n = CHOOSE k \in 1..w : P(k)
  BY DEF BytesToCopy
<1> HIDE DEF m, w
<1>5. copied \in 1..w /\ (copied = w \/ copied = m + 1)
  BY <1>1, <1>2
<1>6. P(copied)
  <2>1. copied = w \/ Load(KBbuf, t, copied - 1) = NL
    <3>1. (m + 1) - 1 = m
      BY <1>2
    <3> QED  BY <1>2, <1>5, <3>1
  <2>2. \A j \in 0..(copied - 2) : j \in Index /\ j < m
    BY <1>1, <1>2, Sizes DEF Index
  <2> QED  BY <1>3, <2>1, <2>2
<1>7. ASSUME NEW k \in 1..w, P(k) PROVE k = copied
  <2>1. CASE k < copied
    <3>1. k - 1 \in Index /\ k - 1 < m /\ k # w
      BY <1>1, <1>2, <2>1, Sizes DEF Index
    <3> QED  BY <1>3, <1>7, <3>1
  <2>2. CASE k > copied
    <3>1. m \in 0..(k - 2)
      BY <1>1, <1>2, <2>2
    <3> QED  BY <1>2, <1>7, <3>1
  <2> QED  BY <1>1, <1>5, <2>1, <2>2
<1> HIDE DEF P, copied
<1>8. n = copied
  BY <1>4, <1>5, <1>6, <1>7
<1> QED  BY <1>1, <1>2, <1>8 DEF copied, m, w

(* What terminalRead returns is what the discipline answers.               *)
LEMMA ReadCopyRefines ==
  ASSUME ~TypeAhead, LineInv, LineInv', NEW t \in Terminals, ReadCopy(t)
  PROVE  Discipline!Answer(t)
<1> DEFINE whole == Append(lineBar[t], NL)
           C == Chars \cup {NL, NUL}
<1>0. PICK n, m : n = BytesToCopy(t, want[t]) /\ m = Count(t)
  OBVIOUS
<1> DEFINE copy == [k \in 1..n |-> Load(KBbuf, t, k - 1)]
           row == [k \in 1..(m + 1) |-> Load(KBbuf, t, k - 1)]
<1>1. /\ want[t] # 0 /\ readReady[t] = 1 /\ KBbuf' = Cleared(t)
      /\ got' = [got EXCEPT ![t] = copy]
      /\ readReady' = [readReady EXCEPT ![t] = 0]
      /\ buf_loc' = [buf_loc EXCEPT ![t] = 0]
      /\ want' = [want EXCEPT ![t] = 0]
      /\ UNCHANGED <<currentTerminal, kb, key>>
  BY <1>0 DEF ReadCopy
<1>2. /\ m \in Index /\ m \in Nat /\ want[t] \in Nat
      /\ n = IF m + 1 <= want[t] THEN m + 1 ELSE want[t]
      /\ \A i \in Index : i < m => Load(KBbuf, t, i) \in Chars
      /\ Load(KBbuf, t, m) = NL
  BY <1>0, <1>1, CopyIs
<1>3. /\ readReady \in [Terminals -> {0, 1}] /\ buf_loc \in [Terminals -> 0..BUF_SIZE]
      /\ currentTerminal \in Terminals
  BY LineTypes DEF LineInv
<1>4. t = currentTerminal => kb = "idle"
  BY <1>1 DEF LineInv, HandlerReady
<1>5. Typed(t) = m
  BY <1>0, <1>4, TypedIs DEF At
<1>6. lineBar[t] \in [1..m -> C] /\ \A k \in 1..m : lineBar[t][k] = Load(KBbuf, t, k - 1)
  <2>1. \A k \in 1..m : k - 1 \in Index
    BY <1>2, Sizes DEF Index
  <2> QED  BY <1>5, <2>1, LineType, LoadRow, LineTypes DEF LineInv
<1>7. row = whole /\ row \in [1..(m + 1) -> C] /\ Len(lineBar[t]) = m
  <2>1. \A k \in 1..(m + 1) : (k \in 1..m /\ k - 1 \in Index /\ k - 1 < m) \/ k - 1 = m
    BY <1>2, Sizes DEF Index
  <2>2. row \in [1..(m + 1) -> C]
    BY <1>2, <2>1
  <2>3. \A k \in 1..m : k \in 1..(m + 1) /\ row[k] = lineBar[t][k]
    BY <1>2, <1>6
  <2>4. row[m + 1] = NL
    <3>1. m + 1 \in 1..(m + 1) /\ (m + 1) - 1 = m
      BY <1>2
    <3> QED  BY <1>2, <3>1
  <2> HIDE DEF row
  <2> QED  BY <1>2, <1>6, <2>2, <2>3, <2>4, Appended
<1>8. copy = IF Len(whole) <= want[t] THEN whole ELSE SubSeq(whole, 1, want[t])
  <2>1. Len(whole) = m + 1
    BY <1>2, <1>7
  <2>2. CASE m + 1 <= want[t]
    <3>1. copy = row
      BY <1>2, <2>2
    <3> QED  BY <1>7, <2>1, <2>2, <3>1
  <2>3. CASE ~(m + 1 <= want[t])
    <3>1. n = want[t] /\ n \in Nat /\ n <= m + 1 /\ m + 1 \in Nat
      BY <1>2, <2>3
    <3>2. \A k \in 1..n : k \in 1..(m + 1) /\ copy[k] = row[k]
      BY <1>2, <3>1
    <3>3. copy \in [1..n -> C]
      BY <1>7, <3>2
    <3>4. copy = SubSeq(row, 1, n)
      <4> HIDE DEF copy, row
      <4> QED  BY <1>7, <3>1, <3>2, <3>3, Prefixed
    <3> QED  BY <1>7, <2>1, <2>3, <3>1, <3>4
  <2> QED  BY <2>2, <2>3
<1>9. lineBar' = [lineBar EXCEPT ![t] = <<>>]
  <2>1. lineBar'[t] = <<>>
    <3>1. Typed(t)' = 0
      BY <1>1, <1>3, <1>4 DEF Typed
    <3>2. Len(lineBar'[t]) = 0 /\ lineBar'[t] \in [1..0 -> C]
      BY <3>1, LineTypeNext
    <3> QED  BY <3>2
  <2>2. ASSUME NEW u \in Terminals, u # t PROVE lineBar'[u] = lineBar[u]
    <3>1. Typed(u)' = Typed(u)
      BY <1>1, <1>3, <2>2 DEF Typed
    <3>2. \A i \in Index : Row(u, i)' = Row(u, i)
      BY <1>1, <2>2, ClearedRow
    <3> QED  BY <3>1, <3>2, SameLine
  <2> QED  BY <2>1, <2>2, OneLine
<1>10. endedBar[t]
  BY <1>1, Ended
<1>11. endedBar' = [endedBar EXCEPT ![t] = FALSE]
  <2>1. \A u \in Terminals : readReady'[u] = IF u = t THEN 0 ELSE readReady[u]
    BY <1>1, <1>3
  <2>2. \A u \in Terminals : (readReady'[u] = 1) = IF u = t THEN FALSE ELSE readReady[u] = 1
    <3>1. ~(0 = 1)
      OBVIOUS
    <3> QED  BY <2>1, <3>1, Zenon
  <2> QED  BY <2>2 DEF endedBar
<1> HIDE DEF copy
<1> QED  BY <1>1, <1>8, <1>9, <1>10, <1>11 DEF Discipline!Answer


LEMMA DisciplineInit == Init => Discipline!LDInit
<1> SUFFICES ASSUME Init PROVE Discipline!LDInit
  OBVIOUS
<1>1. lineBar = [t \in Terminals |-> <<>>]
  <2>1. \A t \in Terminals : Typed(t) = 0
    BY DEF Init, Typed
  <2>2. \A t \in Terminals : [k \in 1..Typed(t) |-> Load(KBbuf, t, k - 1)] = <<>>
    BY <2>1
  <2> QED  BY <2>2 DEF lineBar
<1>2. endedBar = [t \in Terminals |-> FALSE]
  <2>1. \A t \in Terminals : ~(readReady[t] = 1)
    BY DEF Init
  <2> QED  BY <2>1 DEF endedBar
<1> QED  BY <1>1, <1>2, Sizes DEF Init, Discipline!LDInit

LEMMA DisciplineStep ==
  ASSUME ~TypeAhead, LineInv, LineInv', [Next]_vars
  PROVE  [Discipline!LDNext]_(Discipline!ldVars)
<1> USE DEF Discipline!LDNext
<1>1. CASE Keys
  BY <1>1, KeyRefines
<1>2. CASE KBstore
  BY <1>2, KBstoreRefines
<1>3. CASE KBadvance
  BY <1>3, KBadvanceRefines
<1>4. CASE KBready
  BY <1>4, KBreadyRefines
<1>5. CASE KBflush \/ KBflushzero
  BY <1>5, FlushRefines
<1>6. CASE KBerase
  BY <1>6, KBeraseRefines
<1>7. CASE KBzero
  BY <1>7, KBzeroRefines
<1>8. ASSUME NEW t \in Terminals, ReadCopy(t) PROVE Discipline!LDNext
  BY <1>8, ReadCopyRefines
<1>9. ASSUME NEW t \in Terminals, NEW n \in ReadSizes, ReadCall(t, n) PROVE Discipline!LDNext
  BY <1>9, ReadCallRefines
<1>10. CASE UNCHANGED vars
  <2>1. lineBar' = lineBar /\ endedBar' = endedBar
    BY <1>10, SameLines DEF vars, bufs
  <2> QED  BY <1>10, <2>1 DEF vars, Discipline!ldVars
<1> QED
  BY <1>1, <1>2, <1>3, <1>4, <1>5, <1>6, <1>7, <1>8, <1>9, <1>10 DEF Next, KBhandler

(* Keys, Enter, reads and terminal switches have the effects               *)
(* LineDiscipline allows and no others, wherever ticks preempt KBhandler,  *)
(* for every size of the buffers, number of terminals and size of a read.  *)
THEOREM TerminalImplementsDiscipline == ~TypeAhead => (SafetySpec => ImplementsDiscipline)
<1> SUFFICES ASSUME ~TypeAhead PROVE SafetySpec => ImplementsDiscipline
  OBVIOUS
<1>1. LineInv /\ LineInv' /\ [Next]_vars => [Discipline!LDNext]_(Discipline!ldVars)
  BY DisciplineStep
<1> QED
  BY <1>1, LineInvariant, DisciplineInit, PTL
     DEF SafetySpec, ImplementsDiscipline, Discipline!LDSpec

(* A read returns one line, of characters the user typed, up to and with   *)
(* the newline, or as many of its bytes as the program asked for.          *)
THEOREM ReadsAreLines == ~TypeAhead => (SafetySpec => ReadsOneLine)
<1> SUFFICES ASSUME ~TypeAhead PROVE SafetySpec => ReadsOneLine
  OBVIOUS
<1> DEFINE Line(t) == /\ \A k \in 1..(Len(got'[t]) - 1) : got'[t][k] \in Chars
                      /\ got'[t][Len(got'[t])] = NL \/ Len(got'[t]) = want[t]
           Reads == \A t \in Terminals : got'[t] # got[t] => Line(t)
<1>1. ASSUME LineInv, NEW t \in Terminals, ReadCopy(t) PROVE Line(t)
  <2>1. PICK n, m : n = BytesToCopy(t, want[t]) /\ m = Count(t)
    OBVIOUS
  <2>2. /\ m \in Index /\ m \in Nat /\ want[t] \in Nat
        /\ n = IF m + 1 <= want[t] THEN m + 1 ELSE want[t]
        /\ \A i \in Index : i < m => Load(KBbuf, t, i) \in Chars
        /\ Load(KBbuf, t, m) = NL
    BY <1>1, <2>1, CopyIs DEF ReadCopy
  <2> DEFINE copy == [k \in 1..n |-> Load(KBbuf, t, k - 1)]
  <2>3. got'[t] = copy
    BY <1>1, <2>1, LineTypes DEF ReadCopy, LineInv
  <2>4. n \in Nat /\ n # 0 /\ Len(copy) = n
    BY <1>1, <2>2 DEF ReadCopy
  <2>5. \A k \in 1..(n - 1) : copy[k] \in Chars
    <3>1. \A k \in 1..(n - 1) : k \in 1..n /\ k - 1 \in Index /\ k - 1 < m
      BY <2>2, <2>4, Sizes DEF Index
    <3> QED  BY <2>2, <3>1
  <2>6. copy[n] = NL \/ n = want[t]
    <3>1. n = m + 1 => n \in 1..n /\ n - 1 = m
      BY <2>2, <2>4
    <3> QED  BY <2>2, <3>1
  <2> HIDE DEF copy
  <2> QED  BY <2>3, <2>4, <2>5, <2>6
<1>2. ASSUME LineInv, [Next]_vars PROVE Reads
  <2>1. ASSUME NEW t \in Terminals, ReadCopy(t) PROVE Reads
    <3>1. \A u \in Terminals : u # t => got'[u] = got[u]
      BY <1>2, <2>1, LineTypes DEF ReadCopy, LineInv
    <3> QED  BY <1>1, <1>2, <2>1, <3>1
  <2>2. CASE UNCHANGED got
    BY <2>2
  <2>3. UNCHANGED got \/ \E t \in Terminals : ReadCopy(t)
    BY <1>2 DEF Next, Keys, KeyEnter, KeyBackspace, KeyChar, KeySwitch, KBhandler, KBstore,
       KBadvance, KBready, KBflush, KBflushzero, KBerase, KBzero, ReadCall, vars
  <2> QED  BY <2>1, <2>2, <2>3
<1>3. LineInv /\ [Next]_vars => [Reads]_vars
  BY <1>2
<1> QED  BY <1>3, LineInvariant, PTL DEF SafetySpec, ReadsOneLine
=============================================================================
