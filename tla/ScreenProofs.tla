---------------------------- MODULE ScreenProofs ----------------------------
(***************************************************************************)
(* Proofs about Screen: for every size of the screen and every number of   *)
(* terminals, with ticks at every statement of KBhandler, the locations    *)
(* come back to the screen, a mapping shows the program's own terminal,    *)
(* and Screen implements Screens.                                          *)
(***************************************************************************)
EXTENDS Screen, WellFoundedInduction, TLAPS

Glyphs == Chars \cup {Space}
Videos == [page: [Pages -> [Cells -> Glyphs]], x: [Terminals -> 0..NUM_COLS],
           y: [Terminals -> Nat], cursor: Nat]

(* The rows are on the screen, but for the one below it that the displayed *)
(* terminal may be on until the scroll of an echo, and the columns, but    *)
(* for the one to the right of it between its advance and its wrap.        *)
RowLimit(t) ==
  IF t = currentTerminal /\ (kb = "scroll" \/ (kb = "wrap" /\ key = NL))
  THEN NUM_ROWS + 1 ELSE NUM_ROWS
ColumnLimit(t) ==
  IF t = currentTerminal /\ kb = "wrap" /\ key # NL THEN NUM_COLS + 1 ELSE NUM_COLS

RowsBelowLimit == \A t \in Terminals : video.y[t] < RowLimit(t)
ColumnsBelowLimit == \A t \in Terminals : video.x[t] < ColumnLimit(t)
InEcho == kb \in {"wrap", "row", "scroll"}
CursorOnScreen == ~InEcho => video.cursor \in Cells
LineToEcho == kb = "redraw" => line # <<>>
SwitchIsReal == kb = "switch" => previousTerminal # currentTerminal
RoomForKey == kb \in EchoPoints /\ key # NL => buf_loc[currentTerminal] < BUF_SIZE - 1

ScreenInv == /\ TypeOK /\ RowsBelowLimit /\ ColumnsBelowLimit /\ CursorOnScreen
             /\ LineToEcho /\ SwitchIsReal /\ RoomForKey

----------------------------------------------------------------------------
(* The products of the sizes.                                              *)

(* A product of two naturals is a natural.                                 *)
LEMMA ProductNat == \A m, n \in Nat : m * n \in Nat
  OBVIOUS

(* A cell of a row on the screen is a cell of the screen.                  *)
LEMMA RowCells ==
  ASSUME NEW row \in Nat, NEW col \in 0..(NUM_COLS - 1), row < NUM_ROWS
  PROVE  NUM_COLS * row + col \in Cells
<1> NUM_COLS \in Nat /\ NUM_ROWS \in Nat BY SizeAssumption
<1> DEFINE rest == NUM_ROWS - row - 1
<1>1. rest \in Nat /\ NUM_ROWS = row + 1 + rest
  OBVIOUS
<1>2. NUM_ROWS * NUM_COLS = (row + 1 + rest) * NUM_COLS
  BY <1>1
<1> HIDE DEF rest
<1>3. (row + 1 + rest) * NUM_COLS = row * NUM_COLS + NUM_COLS + rest * NUM_COLS
  BY <1>1
<1>4. rest * NUM_COLS \in Nat /\ row * NUM_COLS \in Nat /\ NUM_COLS * row = row * NUM_COLS
  BY <1>1, ProductNat
<1> QED BY <1>2, <1>3, <1>4 DEF Cells

(* A location is a natural, and on the screen if its row and column are.   *)
LEMMA LocationOfRow ==
  ASSUME NEW v \in Videos, NEW t \in Terminals
  PROVE  /\ Location(v, t) \in Nat
         /\ v.y[t] < NUM_ROWS /\ v.x[t] < NUM_COLS => Location(v, t) \in Cells
<1>1. v.y[t] \in Nat /\ v.x[t] \in 0..NUM_COLS BY DEF Videos
<1>2. NUM_COLS * v.y[t] \in Nat BY <1>1, ProductNat, SizeAssumption
<1>3. Location(v, t) \in Nat BY <1>1, <1>2, SizeAssumption DEF Location
<1>4. v.x[t] < NUM_COLS => v.x[t] \in 0..(NUM_COLS - 1) BY <1>1, SizeAssumption
<1>5. v.y[t] < NUM_ROWS /\ v.x[t] < NUM_COLS => Location(v, t) \in Cells
  BY <1>1, <1>4, RowCells DEF Location
<1> QED BY <1>3, <1>5

----------------------------------------------------------------------------
(* What the parts of putc do to the put locations.                         *)

(* A store changes no put location.                                        *)
LEMMA StoreCharKeeps ==
  ASSUME NEW v \in Videos, NEW t \in Terminals, NEW pages, NEW c \in Glyphs \cup {NL}
  PROVE  LET w == StoreChar(v, pages, t, c)
         IN w \in Videos /\ w.x = v.x /\ w.y = v.y /\ w.cursor = v.cursor
<1> DEFINE grids == [p \in Pages |->
             IF p \in pages THEN [v.page[p] EXCEPT ![Location(v, t)] = c] ELSE v.page[p]]
<1>1. CASE c = NL BY <1>1 DEF StoreChar
<1>2. CASE c # NL
  <2>1. c \in Glyphs BY <1>2
  <2>2. grids \in [Pages -> [Cells -> Glyphs]] BY <2>1 DEF Videos
  <2>3. StoreChar(v, pages, t, c) = [v EXCEPT !.page = grids] BY <1>2 DEF StoreChar
  <2> HIDE DEF grids
  <2> QED BY <2>2, <2>3 DEF Videos
<1> QED BY <1>1, <1>2

(* Moving on goes to the row below or one column to the right, ...         *)
LEMMA MoveOnMoves ==
  ASSUME NEW v \in Videos, NEW t \in Terminals, NEW c
  PROVE  LET w == MoveOn(v, t, c)
         IN /\ v.x[t] < NUM_COLS => w \in Videos
            /\ w.page = v.page /\ w.cursor = v.cursor
            /\ w.x = IF c = NL THEN v.x ELSE [v.x EXCEPT ![t] = @ + 1]
            /\ w.y = IF c = NL THEN [v.y EXCEPT ![t] = @ + 1] ELSE v.y
<1> NUM_COLS \in Nat \ {0} BY SizeAssumption
<1>1. v.x[t] \in 0..NUM_COLS /\ v.y[t] \in Nat BY DEF Videos
<1>2. CASE c = NL
  <2> DEFINE ys == [v.y EXCEPT ![t] = @ + 1]
  <2>1. MoveOn(v, t, c) = [v EXCEPT !.y = ys] BY <1>2 DEF MoveOn
  <2>2. ys \in [Terminals -> Nat] BY <1>1 DEF Videos
  <2> HIDE DEF ys
  <2>3. [v EXCEPT !.y = ys] \in Videos BY <2>2 DEF Videos
  <2>4. /\ [v EXCEPT !.y = ys].page = v.page /\ [v EXCEPT !.y = ys].cursor = v.cursor
        /\ [v EXCEPT !.y = ys].x = v.x /\ [v EXCEPT !.y = ys].y = ys
    BY DEF Videos
  <2> QED BY <1>2, <2>1, <2>3, <2>4 DEF ys
<1>3. CASE c # NL
  <2> DEFINE xs == [v.x EXCEPT ![t] = @ + 1]
  <2>1. MoveOn(v, t, c) = [v EXCEPT !.x = xs] BY <1>3 DEF MoveOn
  <2>2. v.x[t] < NUM_COLS => xs \in [Terminals -> 0..NUM_COLS] BY <1>1 DEF Videos
  <2> HIDE DEF xs
  <2>3. v.x[t] < NUM_COLS => [v EXCEPT !.x = xs] \in Videos BY <2>2 DEF Videos
  <2>4. /\ [v EXCEPT !.x = xs].page = v.page /\ [v EXCEPT !.x = xs].cursor = v.cursor
        /\ [v EXCEPT !.x = xs].x = xs /\ [v EXCEPT !.x = xs].y = v.y
    BY DEF Videos
  <2> QED BY <1>3, <2>1, <2>3, <2>4 DEF xs
<1> QED BY <1>2, <1>3

(* ... a wrap brings the column back, ...                                  *)
LEMMA WrapMoves ==
  ASSUME NEW v \in Videos, NEW t \in Terminals, NEW c
  PROVE  LET w == Wrap(v, t, c)
         IN /\ w \in Videos /\ w.page = v.page /\ w.cursor = v.cursor /\ w.y = v.y
            /\ w.x = [v.x EXCEPT ![t] = IF c = NL THEN 0 ELSE @ % NUM_COLS]
            /\ w.x[t] < NUM_COLS
<1> NUM_COLS \in Nat \ {0} BY SizeAssumption
<1> DEFINE col == IF c = NL THEN 0 ELSE v.x[t] % NUM_COLS
           xs == [v.x EXCEPT ![t] = col]
<1>1. v.x[t] \in 0..NUM_COLS BY DEF Videos
<1>2. col \in 0..(NUM_COLS - 1) BY <1>1
<1>3. Wrap(v, t, c) = [v EXCEPT !.x = xs] BY DEF Wrap
<1> HIDE DEF col
<1>4. xs \in [Terminals -> 0..NUM_COLS] /\ xs[t] = col BY <1>2 DEF Videos
<1> HIDE DEF xs
<1>5. /\ [v EXCEPT !.x = xs] \in Videos
      /\ [v EXCEPT !.x = xs].page = v.page /\ [v EXCEPT !.x = xs].cursor = v.cursor
      /\ [v EXCEPT !.x = xs].x = xs /\ [v EXCEPT !.x = xs].y = v.y
  BY <1>4 DEF Videos
<1>6. col < NUM_COLS BY <1>2
<1> QED BY <1>3, <1>4, <1>5, <1>6 DEF xs, col

(* ... and the first column is one of the row below.                       *)
LEMMA GoDownMoves ==
  ASSUME NEW v \in Videos, NEW t \in Terminals, NEW c
  PROVE  LET w == GoDown(v, t, c)
         IN /\ w \in Videos /\ w.page = v.page /\ w.cursor = v.cursor /\ w.x = v.x
            /\ w.y = IF c # NL /\ v.x[t] = 0 THEN [v.y EXCEPT ![t] = @ + 1] ELSE v.y
<1>1. CASE c # NL /\ v.x[t] = 0
  <2> DEFINE ys == [v.y EXCEPT ![t] = @ + 1]
  <2>1. GoDown(v, t, c) = [v EXCEPT !.y = ys] BY <1>1 DEF GoDown
  <2>2. ys \in [Terminals -> Nat] BY DEF Videos
  <2> HIDE DEF ys
  <2>3. /\ [v EXCEPT !.y = ys] \in Videos
        /\ [v EXCEPT !.y = ys].page = v.page /\ [v EXCEPT !.y = ys].cursor = v.cursor
        /\ [v EXCEPT !.y = ys].x = v.x /\ [v EXCEPT !.y = ys].y = ys
    BY <2>2 DEF Videos
  <2> QED BY <1>1, <2>1, <2>3 DEF ys
<1>2. CASE ~(c # NL /\ v.x[t] = 0)
  <2>1. GoDown(v, t, c) = v BY <1>2 DEF GoDown
  <2> QED BY <1>2, <2>1
<1> QED BY <1>1, <1>2

(* The three together: the column to the right or the start of the row     *)
(* below, also from the column to the right of the screen.                 *)
LEMMA AdvanceMoves ==
  ASSUME NEW v \in Videos, NEW t \in Terminals, NEW c
  PROVE  LET w == Advance(v, t, c)
             col == IF c = NL THEN 0 ELSE (v.x[t] + 1) % NUM_COLS
         IN /\ w \in Videos /\ w.page = v.page /\ w.cursor = v.cursor
            /\ w.x = [v.x EXCEPT ![t] = col] /\ w.x[t] < NUM_COLS
            /\ w.y = [v.y EXCEPT ![t] = IF c = NL \/ col = 0 THEN @ + 1 ELSE @]
<1> NUM_COLS \in Nat \ {0} BY SizeAssumption
<1> DEFINE col == IF c = NL THEN 0 ELSE (v.x[t] + 1) % NUM_COLS
           xs == [v.x EXCEPT ![t] = col]
           ys == [v.y EXCEPT ![t] = IF c = NL \/ col = 0 THEN @ + 1 ELSE @]
           w == Advance(v, t, c)
<1>1. v.x \in [Terminals -> 0..NUM_COLS] /\ v.y \in [Terminals -> Nat] BY DEF Videos
<1>2. col \in 0..(NUM_COLS - 1) BY <1>1
<1>3. w = [v EXCEPT !.x = xs, !.y = ys]
  <2>1. CASE c = NL
    <3>1. MoveOn(v, t, c) = [v EXCEPT !.y = ys] BY <2>1 DEF MoveOn
    <3>2. Wrap([v EXCEPT !.y = ys], t, c) = [v EXCEPT !.x = xs, !.y = ys]
      BY <2>1 DEF Wrap, Videos
    <3> HIDE DEF xs, ys
    <3>3. GoDown([v EXCEPT !.x = xs, !.y = ys], t, c) = [v EXCEPT !.x = xs, !.y = ys]
      BY <2>1 DEF GoDown
    <3> QED BY <3>1, <3>2, <3>3 DEF Advance
  <2>2. CASE c # NL
    <3> DEFINE on == [v.x EXCEPT ![t] = @ + 1]
    <3>1. MoveOn(v, t, c) = [v EXCEPT !.x = on] BY <2>2 DEF MoveOn
    <3>2. on[t] = v.x[t] + 1 /\ [on EXCEPT ![t] = on[t] % NUM_COLS] = xs BY <1>1, <2>2
    <3>3. Wrap([v EXCEPT !.x = on], t, c) = [v EXCEPT !.x = xs]
      <4> HIDE DEF on, xs
      <4>1. [v EXCEPT !.x = on].x = on BY DEF Videos
      <4>2. Wrap([v EXCEPT !.x = on], t, c) =
              [[v EXCEPT !.x = on] EXCEPT !.x = [on EXCEPT ![t] = on[t] % NUM_COLS]]
        BY <2>2, <4>1 DEF Wrap
      <4> QED BY <3>2, <4>2 DEF Videos
    <3>4. xs[t] = col BY <1>1
    <3>5. GoDown([v EXCEPT !.x = xs], t, c) = [v EXCEPT !.x = xs, !.y = ys]
      <4>1. CASE col = 0
        <5> HIDE DEF xs, col
        <5>1. [v EXCEPT !.x = xs].x[t] = 0 /\ [v EXCEPT !.x = xs].y = v.y
          BY <3>4, <4>1 DEF Videos
        <5>2. ys = [v.y EXCEPT ![t] = @ + 1] BY <4>1
        <5> QED BY <2>2, <5>1, <5>2 DEF GoDown, Videos
      <4>2. CASE col # 0
        <5> HIDE DEF xs, col
        <5>1. [v EXCEPT !.x = xs].x[t] # 0 BY <3>4, <4>2 DEF Videos
        <5>2. ys = v.y BY <1>1, <2>2, <4>2
        <5> QED BY <2>2, <5>1, <5>2 DEF GoDown, Videos
      <4> QED BY <4>1, <4>2
    <3> HIDE DEF on, xs, ys
    <3> QED BY <3>1, <3>3, <3>5 DEF Advance
  <2> QED BY <2>1, <2>2
<1> HIDE DEF col, w
<1>4. xs \in [Terminals -> 0..NUM_COLS] /\ xs[t] = col BY <1>1, <1>2
<1>5. ys \in [Terminals -> Nat] BY <1>1
<1> HIDE DEF xs, ys
<1>6. /\ w \in Videos /\ w.page = v.page /\ w.cursor = v.cursor /\ w.x = xs /\ w.y = ys
  BY <1>3, <1>4, <1>5 DEF Videos
<1>7. w.x[t] < NUM_COLS BY <1>2, <1>4, <1>6
<1> QED BY <1>6, <1>7 DEF xs, ys, col, w

(* A scroll brings a row that is too low up by one.                        *)
LEMMA ScrollRaises ==
  ASSUME NEW v \in Videos, NEW t \in Terminals
  PROVE  LET w == Scroll(v, t)
         IN /\ w \in Videos /\ w.cursor = v.cursor /\ w.x = v.x
            /\ w.y[t] = IF v.y[t] >= NUM_ROWS THEN v.y[t] - 1 ELSE v.y[t]
            /\ \A u \in Terminals \ {t} : w.y[u] = v.y[u]
<1> NUM_ROWS \in Nat \ {0} BY SizeAssumption
<1> DEFINE grids == [p \in Pages |-> IF p \in PagesOf(t) THEN Shifted(v.page[p]) ELSE v.page[p]]
<1>1. v.y[t] \in Nat BY DEF Videos
<1>2. CASE AtBottom(v, t)
  <2>1. \A p \in Pages : Shifted(v.page[p]) \in [Cells -> Glyphs]
    BY DEF Shifted, Videos, Glyphs
  <2>2. grids \in [Pages -> [Cells -> Glyphs]] BY <2>1 DEF Videos
  <2> DEFINE ys == [v.y EXCEPT ![t] = @ - 1]
  <2>3. Scroll(v, t) = [v EXCEPT !.page = grids, !.y = ys]
    BY <1>2 DEF Scroll, text_shift_up, Videos
  <2>4. v.y[t] >= NUM_ROWS /\ v.y[t] - 1 \in Nat BY <1>1, <1>2 DEF AtBottom
  <2>5. ys \in [Terminals -> Nat] /\ ys[t] = v.y[t] - 1 BY <2>4 DEF Videos
  <2>6. \A u \in Terminals \ {t} : ys[u] = v.y[u] BY DEF Videos
  <2> HIDE DEF grids, ys
  <2> QED BY <2>2, <2>3, <2>4, <2>5, <2>6 DEF Videos
<1>3. CASE ~AtBottom(v, t) BY <1>1, <1>3 DEF Scroll, AtBottom
<1> QED BY <1>2, <1>3

(* set_cursor changes the cursor only.                                     *)
LEMMA SetCursor ==
  ASSUME NEW v \in Videos, NEW t \in Terminals
  PROVE  LET w == set_cursor(v, t)
         IN w \in Videos /\ w.x = v.x /\ w.y = v.y /\ w.cursor = Location(v, t)
  BY LocationOfRow DEF set_cursor, Videos

(* The screen after a character of terminal t: its row is no lower than it *)
(* was, or on the screen, and its column is; the others are where they     *)
(* were.                                                                   *)
LEMMA CharKeepsRows ==
  ASSUME NEW v \in Videos, NEW t \in Terminals, NEW pages, NEW c \in Glyphs \cup {NL}
  PROVE  LET w == Scroll(Advance(StoreChar(v, pages, t, c), t, c), t)
         IN /\ w \in Videos /\ w.cursor = v.cursor
            /\ v.y[t] < NUM_ROWS => w.y[t] < NUM_ROWS
            /\ v.y[t] <= NUM_ROWS => w.y[t] <= NUM_ROWS
            /\ w.x[t] < NUM_COLS
            /\ \A u \in Terminals \ {t} : w.y[u] = v.y[u] /\ w.x[u] = v.x[u]
<1> DEFINE a == StoreChar(v, pages, t, c)
           b == Advance(a, t, c)
           w == Scroll(b, t)
<1>1. a \in Videos /\ a.y = v.y /\ a.x = v.x /\ a.cursor = v.cursor BY StoreCharKeeps
<1>2. /\ b \in Videos /\ b.cursor = a.cursor /\ b.y[t] \in {a.y[t], a.y[t] + 1}
      /\ b.x[t] < NUM_COLS
      /\ \A u \in Terminals \ {t} : b.y[u] = a.y[u] /\ b.x[u] = a.x[u]
  <2> HIDE DEF a
  <2>1. a.x \in [Terminals -> 0..NUM_COLS] /\ a.y \in [Terminals -> Nat] BY <1>1 DEF Videos
  <2> DEFINE col == IF c = NL THEN 0 ELSE (a.x[t] + 1) % NUM_COLS
  <2>2. /\ b \in Videos /\ b.cursor = a.cursor /\ b.x[t] < NUM_COLS
        /\ b.x = [a.x EXCEPT ![t] = col]
        /\ b.y = [a.y EXCEPT ![t] = IF c = NL \/ col = 0 THEN @ + 1 ELSE @]
    BY <1>1, AdvanceMoves
  <2> HIDE DEF b, col
  <2> QED BY <2>1, <2>2
<1>3. /\ w \in Videos /\ w.cursor = b.cursor /\ w.x = b.x
      /\ w.y[t] = IF b.y[t] >= NUM_ROWS THEN b.y[t] - 1 ELSE b.y[t]
      /\ \A u \in Terminals \ {t} : w.y[u] = b.y[u]
  <2> HIDE DEF b
  <2> QED BY <1>2, ScrollRaises
<1>4. v.y[t] \in Nat BY DEF Videos
<1> HIDE DEF a, b, w
<1>5. /\ v.y[t] < NUM_ROWS => w.y[t] < NUM_ROWS
      /\ v.y[t] <= NUM_ROWS => w.y[t] <= NUM_ROWS
  BY <1>1, <1>2, <1>3, <1>4, SizeAssumption
<1>6. /\ w.x[t] < NUM_COLS
      /\ \A u \in Terminals \ {t} : w.y[u] = v.y[u] /\ w.x[u] = v.x[u]
  BY <1>1, <1>2, <1>3
<1>7. w \in Videos /\ w.cursor = v.cursor BY <1>1, <1>2, <1>3
<1> QED BY <1>5, <1>6, <1>7 DEF a, b, w

(* OnScreen(v): the put locations and the cursor are on the screen.        *)
LocationsOn(v) == \A u \in Terminals : v.x[u] < NUM_COLS /\ v.y[u] < NUM_ROWS
OnScreen(v) == v \in Videos /\ v.cursor \in Cells /\ LocationsOn(v)

(* Putting the cursor where the next character goes leaves a screen with   *)
(* all locations on it in order.                                           *)
LEMMA CursorSetOnScreen ==
  ASSUME NEW v \in Videos, NEW t \in Terminals, LocationsOn(v)
  PROVE  OnScreen(set_cursor(v, t))
<1>1. /\ set_cursor(v, t) \in Videos
      /\ set_cursor(v, t).y = v.y /\ set_cursor(v, t).x = v.x
  BY SetCursor
<1>2. set_cursor(v, t).cursor \in Cells BY SetCursor, LocationOfRow DEF LocationsOn
<1> QED BY <1>1, <1>2 DEF OnScreen, LocationsOn

(* KBputc keeps all on the screen, ...                                     *)
LEMMA KBputcOnScreen ==
  ASSUME NEW v, OnScreen(v), currentTerminal \in Terminals, NEW c \in Glyphs \cup {NL}
  PROVE  OnScreen(KBputc(v, c))
<1> DEFINE t == currentTerminal
           w == Scroll(Advance(StoreChar(v, {VIDEO}, t, c), t, c), t)
<1>1. v \in Videos /\ LocationsOn(v) /\ v.y[t] < NUM_ROWS BY DEF OnScreen, LocationsOn
<1>2. /\ w \in Videos /\ w.y[t] < NUM_ROWS /\ w.x[t] < NUM_COLS
      /\ \A u \in Terminals \ {t} : w.y[u] = v.y[u] /\ w.x[u] = v.x[u]
  BY <1>1, CharKeepsRows
<1>3. KBputc(v, c) = set_cursor(w, t) BY DEF KBputc
<1> HIDE DEF w
<1>4. LocationsOn(w) BY <1>1, <1>2 DEF LocationsOn
<1> QED BY <1>2, <1>3, <1>4, CursorSetOnScreen

(* ... as does back_char, ...                                              *)
LEMMA BackCharOnScreen ==
  ASSUME NEW v, OnScreen(v), currentTerminal \in Terminals
  PROVE  OnScreen(back_char(v))
<1> NUM_COLS \in Nat \ {0} BY SizeAssumption
<1> DEFINE t == currentTerminal
<1>1. /\ v \in Videos /\ v.x[t] \in 0..NUM_COLS /\ v.y[t] \in Nat
      /\ \A u \in Terminals : v.x[u] < NUM_COLS /\ v.y[u] < NUM_ROWS
  BY DEF OnScreen, LocationsOn, Videos
<1>2. CASE v.x[t] = 0 /\ v.y[t] = 0 BY <1>2 DEF back_char
<1>3. CASE v.x[t] = 0 /\ v.y[t] # 0
  <2> DEFINE ys == [v.y EXCEPT ![t] = @ - 1]
             xs == [v.x EXCEPT ![t] = NUM_COLS - 1]
  <2>1. back_char(v) = [v EXCEPT !.y = ys, !.x = xs] BY <1>3 DEF back_char
  <2>2. ys \in [Terminals -> Nat] /\ xs \in [Terminals -> 0..NUM_COLS]
    BY <1>1, <1>3 DEF Videos
  <2>3. \A u \in Terminals : ys[u] <= v.y[u] /\ v.y[u] \in Nat BY <1>1 DEF Videos
  <2>4. \A u \in Terminals : ys[u] < NUM_ROWS BY <1>1, <2>2, <2>3, SizeAssumption
  <2>5. \A u \in Terminals : xs[u] < NUM_COLS BY <1>1 DEF Videos
  <2> HIDE DEF ys, xs
  <2>6. [v EXCEPT !.y = ys, !.x = xs] \in Videos BY <1>1, <2>2 DEF Videos
  <2>7. /\ [v EXCEPT !.y = ys, !.x = xs].cursor = v.cursor
        /\ [v EXCEPT !.y = ys, !.x = xs].x = xs /\ [v EXCEPT !.y = ys, !.x = xs].y = ys
    BY <1>1 DEF Videos
  <2> QED BY <2>1, <2>4, <2>5, <2>6, <2>7 DEF OnScreen, LocationsOn
<1>4. CASE v.x[t] # 0
  <2> DEFINE xs == [v.x EXCEPT ![t] = @ - 1]
             w == [v EXCEPT !.x = xs]
  <2>1. back_char(v) = set_cursor(w, t) BY <1>4 DEF back_char
  <2>2. xs \in [Terminals -> 0..NUM_COLS] /\ \A u \in Terminals : xs[u] < NUM_COLS
    <3>1. v.x[t] - 1 \in 0..NUM_COLS /\ v.x[t] - 1 < NUM_COLS BY <1>1, <1>4
    <3>2. v.x \in [Terminals -> 0..NUM_COLS] BY <1>1 DEF Videos
    <3> QED BY <1>1, <3>1, <3>2
  <2> HIDE DEF xs
  <2>3. w \in Videos /\ w.y = v.y /\ w.x = xs BY <1>1, <2>2 DEF Videos
  <2>4. LocationsOn(w) BY <1>1, <2>2, <2>3 DEF LocationsOn
  <2> HIDE DEF w
  <2> QED BY <2>1, <2>3, <2>4, CursorSetOnScreen
<1> QED BY <1>2, <1>3, <1>4

(* ... erase_char ...                                                      *)
LEMMA EraseCharOnScreen ==
  ASSUME NEW v, OnScreen(v), currentTerminal \in Terminals
  PROVE  OnScreen(erase_char(v))
<1>1. OnScreen(back_char(v)) BY BackCharOnScreen
<1>2. Space \in Glyphs \cup {NL} BY DEF Glyphs
<1>3. OnScreen(KBputc(back_char(v), Space)) BY <1>1, <1>2, KBputcOnScreen
<1> QED BY <1>3, BackCharOnScreen DEF erase_char

(* ... and clear.                                                          *)
LEMMA ClearOnScreen ==
  ASSUME NEW v, OnScreen(v), currentTerminal \in Terminals
  PROVE  OnScreen(clear(v))
<1> NUM_COLS \in Nat \ {0} /\ NUM_ROWS \in Nat \ {0} BY SizeAssumption
<1> DEFINE t == currentTerminal
           xs == [v.x EXCEPT ![t] = 0]
           ys == [v.y EXCEPT ![t] = 0]
           grids == [v.page EXCEPT ![VIDEO] = [i \in Cells |-> Space]]
           w == [v EXCEPT !.x = xs, !.y = ys, !.page = grids]
<1>1. clear(v) = set_cursor(w, t) BY DEF clear
<1>2. /\ xs \in [Terminals -> 0..NUM_COLS] /\ ys \in [Terminals -> Nat]
      /\ \A u \in Terminals : xs[u] < NUM_COLS /\ ys[u] < NUM_ROWS
  BY DEF OnScreen, LocationsOn, Videos
<1>3. grids \in [Pages -> [Cells -> Glyphs]] BY DEF OnScreen, Videos, Glyphs
<1> HIDE DEF xs, ys, grids
<1>4. w \in Videos /\ w.y = ys /\ w.x = xs BY <1>2, <1>3 DEF OnScreen, Videos
<1> HIDE DEF w
<1>5. LocationsOn(w) BY <1>2, <1>4 DEF LocationsOn
<1> QED BY <1>1, <1>4, <1>5, CursorSetOnScreen

----------------------------------------------------------------------------
(* What the invariant says of the screen at the points of KBhandler.       *)
LEMMA InvOnScreen ==
  ASSUME ScreenInv, ~InEcho
  PROVE  OnScreen(video)
<1>1. video \in Videos BY DEF ScreenInv, TypeOK, Videos, Glyphs
<1> QED
  BY <1>1 DEF ScreenInv, RowsBelowLimit, RowLimit, ColumnsBelowLimit, ColumnLimit,
              CursorOnScreen, InEcho, OnScreen, LocationsOn

(* The type of video, for one whose rows are at most the one below the     *)
(* screen.                                                                 *)
VideoType == [page: [Pages -> [Cells -> Chars \cup {Space}]], x: [Terminals -> 0..NUM_COLS],
              y: [Terminals -> 0..NUM_ROWS], cursor: Nat]

LEMMA VideoTyped ==
  ASSUME NEW w \in Videos, \A t \in Terminals : w.y[t] <= NUM_ROWS
  PROVE  w \in VideoType
<1>1. w.y \in [Terminals -> 0..NUM_ROWS] BY SizeAssumption DEF Videos
<1> QED BY <1>1 DEF Videos, VideoType, Glyphs

(* A screen in order outside an echo is all the invariant asks of video.   *)
LEMMA OnScreenInv ==
  ASSUME NEW w, OnScreen(w)
  PROVE  w \in VideoType
<1>1. w \in Videos /\ \A t \in Terminals : w.y[t] \in Nat /\ w.y[t] < NUM_ROWS
  BY DEF OnScreen, LocationsOn, Videos
<1>2. \A t \in Terminals : w.y[t] <= NUM_ROWS BY <1>1, SizeAssumption
<1> QED BY <1>1, <1>2, VideoTyped

(* The invariant holds after a step of KBhandler or of a program that      *)
(* leaves the screen in order and the other variables in their types.      *)
LEMMA OrderlyStep ==
  ASSUME ScreenInv, OnScreen(video'), ~InEcho',
         currentTerminal' \in Terminals, previousTerminal' \in Terminals,
         user_page_table' \in [Terminals -> Pages], buf_loc' \in [Terminals -> 0..(BUF_SIZE - 1)],
         kb' \in KBpoints \cup {"idle"}, key' \in Chars \cup {Space, NL}, line' \in Seq(Chars),
         mixed' \subseteq Terminals, LineToEcho', SwitchIsReal', RoomForKey'
  PROVE  ScreenInv'
<1>1. video' \in VideoType BY OnScreenInv
<1>2. TypeOK' BY <1>1 DEF TypeOK, VideoType
<1>3. RowsBelowLimit' /\ ColumnsBelowLimit' /\ CursorOnScreen'
  BY DEF OnScreen, LocationsOn, RowsBelowLimit, RowLimit, ColumnsBelowLimit, ColumnLimit,
         CursorOnScreen, InEcho
<1> QED BY <1>2, <1>3 DEF ScreenInv

(* The invariant holds at the start.                                       *)
LEMMA ScreenInit == Init => ScreenInv
<1> SUFFICES ASSUME Init PROVE ScreenInv OBVIOUS
<1> NUM_COLS \in Nat \ {0} /\ NUM_ROWS \in Nat \ {0} /\ NUM_TERMINALS \in Nat \ {0}
  BY SizeAssumption
<1>1. 0 \in Cells /\ 0 \in Terminals
  <2>1. NUM_COLS * 0 + 0 \in Cells BY RowCells
  <2> QED BY <2>1 DEF Terminals
<1>2. \A p \in Pages : p # VIDEO => p - 1 \in Terminals BY DEF Pages, VIDEO, Terminals
<1>3. video.page \in [Pages -> [Cells -> Glyphs]] BY <1>2 DEF Init, Glyphs
<1>4. OnScreen(video)
  BY <1>1, <1>3 DEF Init, OnScreen, LocationsOn, Videos
<1>5. \A t \in Terminals : VIDEO \in Pages /\ Backing(t) \in Pages
  BY DEF Pages, VIDEO, Backing, Terminals
<1>6. user_page_table \in [Terminals -> Pages] BY <1>5 DEF Init
<1>7. buf_loc \in [Terminals -> 0..(BUF_SIZE - 1)] BY BufSizeAssumption DEF Init
<1>8. video \in VideoType BY <1>4, OnScreenInv
<1>9. TypeOK BY <1>1, <1>6, <1>7, <1>8 DEF Init, TypeOK, VideoType
<1>10. RowsBelowLimit /\ ColumnsBelowLimit /\ CursorOnScreen
  BY <1>4 DEF Init, OnScreen, LocationsOn, RowsBelowLimit, RowLimit, ColumnsBelowLimit,
              ColumnLimit, CursorOnScreen
<1>11. LineToEcho /\ SwitchIsReal /\ RoomForKey
  BY DEF Init, LineToEcho, SwitchIsReal, RoomForKey, EchoPoints
<1> QED BY <1>9, <1>10, <1>11 DEF ScreenInv

(* A program prints, also between two statements of an echo.               *)
LEMMA PutcKeepsInv ==
  ASSUME ScreenInv, NEW t \in Terminals, NEW c \in Chars \cup {NL}, Putc(t, c)
  PROVE  ScreenInv'
<1> DEFINE w == Scroll(Advance(StoreChar(video, PagesOf(t), t, c), t, c), t)
<1> USE DEF ScreenInv
<1>1. video \in Videos BY DEF TypeOK, Videos, Glyphs
<1>2. /\ currentTerminal \in Terminals /\ NUM_ROWS \in Nat /\ NUM_COLS \in Nat
      /\ Displayed \in Terminals
  BY SizeAssumption DEF TypeOK, Displayed
<1>3. c \in Glyphs \cup {NL} BY DEF Glyphs
<1>4. /\ w \in Videos /\ w.cursor = video.cursor
      /\ video.y[t] < NUM_ROWS => w.y[t] < NUM_ROWS
      /\ video.y[t] <= NUM_ROWS => w.y[t] <= NUM_ROWS
      /\ w.x[t] < NUM_COLS
      /\ \A u \in Terminals \ {t} : w.y[u] = video.y[u] /\ w.x[u] = video.x[u]
  BY <1>1, <1>3, CharKeepsRows
<1>5. video' = IF t = currentTerminal THEN set_cursor(w, t) ELSE w BY DEF Putc, putc
<1> HIDE DEF w
<1>6. video' \in Videos /\ video'.y = w.y /\ video'.x = w.x BY <1>4, <1>5, SetCursor
<1>7. \A u \in Terminals : /\ video.y[u] \in Nat /\ w.y[u] \in Nat
                           /\ video.x[u] \in 0..NUM_COLS /\ w.x[u] \in 0..NUM_COLS
  BY <1>1, <1>4 DEF Videos
<1>8. UNCHANGED <<currentTerminal, user_page_table, buf_loc, kb, key, line, previousTerminal>>
  BY DEF Putc, handler
<1>9. \A u \in Terminals : /\ RowLimit(u)' = RowLimit(u)
                           /\ RowLimit(u) \in {NUM_ROWS, NUM_ROWS + 1}
                           /\ ColumnLimit(u)' = ColumnLimit(u)
                           /\ ColumnLimit(u) \in {NUM_COLS, NUM_COLS + 1}
  BY <1>8 DEF RowLimit, ColumnLimit
<1>10. \A u \in Terminals : w.y[u] < RowLimit(u)
  <2>1. video.y[t] < RowLimit(t) BY DEF RowsBelowLimit
  <2>2. RowLimit(t) = NUM_ROWS => w.y[t] < RowLimit(t) BY <1>4, <2>1
  <2>3. RowLimit(t) = NUM_ROWS + 1 => w.y[t] < RowLimit(t) BY <1>2, <1>4, <1>7, <2>1
  <2>4. w.y[t] < RowLimit(t) BY <1>9, <2>2, <2>3
  <2> QED BY <1>4, <2>4 DEF RowsBelowLimit
<1>11. \A u \in Terminals : w.x[u] < ColumnLimit(u)
  <2>1. w.x[t] < ColumnLimit(t) BY <1>2, <1>4, <1>7, <1>9
  <2> QED BY <1>4, <2>1 DEF ColumnsBelowLimit
<1>12. RowsBelowLimit' /\ ColumnsBelowLimit'
  BY <1>6, <1>9, <1>10, <1>11 DEF RowsBelowLimit, ColumnsBelowLimit
<1>13. CursorOnScreen'
  <2>1. SUFFICES ASSUME ~InEcho PROVE video'.cursor \in Cells
    BY <1>8 DEF CursorOnScreen, InEcho
  <2>2. CASE t # currentTerminal BY <1>4, <1>5, <2>1, <2>2 DEF CursorOnScreen
  <2>3. CASE t = currentTerminal
    <3>1. w.y[t] < NUM_ROWS BY <1>10, <2>1 DEF RowLimit, InEcho
    <3>2. video'.cursor = Location(w, t) BY <1>4, <1>5, <2>3, SetCursor
    <3> QED BY <1>4, <3>1, <3>2, LocationOfRow
  <2> QED BY <2>2, <2>3
<1>14. TypeOK'
  <2>1. \A u \in Terminals : w.y[u] <= NUM_ROWS BY <1>2, <1>7, <1>9, <1>10
  <2>2. video' \in VideoType BY <1>6, <2>1, VideoTyped
  <2>3. mixed' \subseteq Terminals BY <1>2 DEF Putc, TypeOK
  <2> QED BY <1>8, <2>2, <2>3 DEF TypeOK, VideoType
<1> QED BY <1>8, <1>12, <1>13, <1>14 DEF LineToEcho, SwitchIsReal, RoomForKey

(* A program stores through its mapping.                                   *)
LEMMA StoreVidmapKeepsInv ==
  ASSUME ScreenInv, NEW t \in Terminals, NEW i \in Cells, NEW c \in Chars, StoreVidmap(t, i, c)
  PROVE  ScreenInv'
<1> USE DEF ScreenInv
<1> DEFINE grids == [video.page EXCEPT ![PageOfVidmap(t)][i] = c]
<1>1. video' = [video EXCEPT !.page = grids] BY DEF StoreVidmap
<1>2. grids \in [Pages -> [Cells -> Chars \cup {Space}]] BY DEF TypeOK
<1> HIDE DEF grids
<1>3. /\ video' \in VideoType
      /\ video'.y = video.y /\ video'.x = video.x /\ video'.cursor = video.cursor
  BY <1>1, <1>2 DEF TypeOK, VideoType
<1>4. UNCHANGED <<currentTerminal, user_page_table, buf_loc, kb, key, line, previousTerminal>>
  BY DEF StoreVidmap, handler
<1>5. mixed' \subseteq Terminals BY DEF StoreVidmap, TypeOK
<1>6. TypeOK' BY <1>3, <1>4, <1>5 DEF TypeOK, VideoType
<1>7. RowsBelowLimit' /\ ColumnsBelowLimit' /\ CursorOnScreen'
  BY <1>3, <1>4 DEF RowsBelowLimit, RowLimit, ColumnsBelowLimit, ColumnLimit, CursorOnScreen,
                    InEcho
<1> QED BY <1>4, <1>6, <1>7 DEF LineToEcho, SwitchIsReal, RoomForKey

(* KBhandler: a key is echoed, ...                                         *)
LEMMA KeyCharKeepsInv ==
  ASSUME ScreenInv, NEW c \in Chars \cup {NL}, KeyChar(c)
  PROVE  ScreenInv'
<1>1. OnScreen(video) /\ currentTerminal \in Terminals
  BY InvOnScreen DEF KeyChar, ScreenInv, TypeOK, InEcho
<1>2. c \in Glyphs \cup {NL} BY DEF Glyphs
<1>3. /\ video' \in Videos /\ video'.cursor = video.cursor
      /\ video'.y = video.y /\ video'.x = video.x
  BY <1>1, <1>2, StoreCharKeeps DEF KeyChar, OnScreen
<1>4. OnScreen(video') BY <1>1, <1>3 DEF OnScreen, LocationsOn
<1>5. RoomForKey' BY DEF KeyChar, RoomForKey
<1> QED
  BY <1>4, <1>5, OrderlyStep
  DEF KeyChar, ScreenInv, TypeOK, KBpoints, EchoPoints, InEcho, LineToEcho, SwitchIsReal

(* ... its column may then be one too far to the right or its row one too  *)
(* low, ...                                                                *)
LEMMA EchoMoveOnKeepsInv ==
  ASSUME ScreenInv, EchoMoveOn
  PROVE  ScreenInv'
<1> USE DEF EchoMoveOn
<1> NUM_ROWS \in Nat /\ NUM_COLS \in Nat BY SizeAssumption
<1> DEFINE t == currentTerminal
<1>1. OnScreen(video) /\ t \in Terminals BY InvOnScreen DEF ScreenInv, TypeOK, InEcho
<1>2. /\ video \in Videos /\ \A u \in Terminals : video.x[u] < NUM_COLS /\ video.y[u] < NUM_ROWS
  BY <1>1 DEF OnScreen, LocationsOn
<1>3. /\ video' \in Videos /\ video'.cursor = video.cursor
      /\ video'.x = IF key = NL THEN video.x ELSE [video.x EXCEPT ![t] = @ + 1]
      /\ video'.y = IF key = NL THEN [video.y EXCEPT ![t] = @ + 1] ELSE video.y
  BY <1>1, <1>2, MoveOnMoves
<1>4. video.x \in [Terminals -> 0..NUM_COLS] /\ video.y \in [Terminals -> Nat]
  BY <1>2 DEF Videos
<1>5. \A u \in Terminals : /\ u # t => video'.x[u] = video.x[u] /\ video'.y[u] = video.y[u]
                           /\ video'.x[t] = IF key = NL THEN video.x[t] ELSE video.x[t] + 1
                           /\ video'.y[t] = IF key = NL THEN video.y[t] + 1 ELSE video.y[t]
  BY <1>1, <1>3, <1>4
<1>6. \A u \in Terminals : video.x[u] \in Nat /\ video.y[u] \in Nat BY <1>4
<1>7. RowsBelowLimit' /\ ColumnsBelowLimit'
  BY <1>1, <1>2, <1>5, <1>6 DEF RowsBelowLimit, RowLimit, ColumnsBelowLimit, ColumnLimit
<1>8. video' \in VideoType
  <2>1. \A u \in Terminals : video'.y[u] <= NUM_ROWS BY <1>1, <1>2, <1>5, <1>6
  <2> QED BY <1>3, <2>1, VideoTyped
<1>9. TypeOK' BY <1>8 DEF ScreenInv, TypeOK, VideoType, KBpoints, EchoPoints
<1>10. RoomForKey' BY DEF ScreenInv, RoomForKey, EchoPoints
<1> QED
  BY <1>7, <1>9, <1>10 DEF ScreenInv, CursorOnScreen, InEcho, LineToEcho, SwitchIsReal

(* ... the column is brought back, ...                                     *)
LEMMA EchoWrapKeepsInv ==
  ASSUME ScreenInv, EchoWrap
  PROVE  ScreenInv'
<1> USE DEF EchoWrap
<1> NUM_ROWS \in Nat /\ NUM_COLS \in Nat \ {0} BY SizeAssumption
<1> DEFINE t == currentTerminal
<1>1. video \in Videos /\ t \in Terminals
  BY DEF ScreenInv, TypeOK, Videos, Glyphs
<1>2. /\ video' \in Videos /\ video'.y = video.y /\ video'.x[t] < NUM_COLS
      /\ video'.x = [video.x EXCEPT ![t] = IF key = NL THEN 0 ELSE @ % NUM_COLS]
  BY <1>1, WrapMoves
<1>3. \A u \in Terminals : video.x[u] \in Nat /\ video.y[u] \in Nat BY <1>1 DEF Videos
<1>4. \A u \in Terminals \ {t} : video'.x[u] = video.x[u] /\ video.x[u] < NUM_COLS
  <2>1. \A u \in Terminals \ {t} : video'.x[u] = video.x[u] BY <1>1, <1>2 DEF Videos
  <2> QED BY <2>1 DEF ScreenInv, ColumnsBelowLimit, ColumnLimit
<1>5. ColumnsBelowLimit'
  <2>1. \A u \in Terminals : video'.x[u] < NUM_COLS BY <1>2, <1>4
  <2> QED BY <2>1 DEF ColumnsBelowLimit, ColumnLimit
<1>6. RowsBelowLimit' BY <1>2 DEF ScreenInv, RowsBelowLimit, RowLimit
<1>7. video' \in VideoType
  <2>1. \A u \in Terminals : video.y[u] <= NUM_ROWS BY DEF ScreenInv, TypeOK
  <2> QED BY <1>2, <2>1, VideoTyped
<1>8. TypeOK' BY <1>7 DEF ScreenInv, TypeOK, VideoType, KBpoints, EchoPoints
<1>9. RoomForKey' BY DEF ScreenInv, RoomForKey, EchoPoints
<1> QED
  BY <1>5, <1>6, <1>8, <1>9 DEF ScreenInv, CursorOnScreen, InEcho, LineToEcho, SwitchIsReal

(* ... the row goes down, ...                                              *)
LEMMA EchoGoDownKeepsInv ==
  ASSUME ScreenInv, EchoGoDown
  PROVE  ScreenInv'
<1> USE DEF EchoGoDown
<1> NUM_ROWS \in Nat /\ NUM_COLS \in Nat \ {0} BY SizeAssumption
<1> DEFINE t == currentTerminal
<1>1. video \in Videos /\ t \in Terminals
  BY DEF ScreenInv, TypeOK, Videos, Glyphs
<1>2. \A u \in Terminals : video.y[u] < NUM_ROWS /\ video.x[u] < NUM_COLS
  BY DEF ScreenInv, RowsBelowLimit, RowLimit, ColumnsBelowLimit, ColumnLimit
<1>3. /\ video' \in Videos /\ video'.x = video.x
      /\ video'.y = IF key # NL /\ video.x[t] = 0 THEN [video.y EXCEPT ![t] = @ + 1] ELSE video.y
  BY <1>1, GoDownMoves
<1>4. \A u \in Terminals : video.y[u] \in Nat BY <1>1 DEF Videos
<1>5. /\ \A u \in Terminals \ {t} : video'.y[u] = video.y[u]
      /\ video'.y[t] \in {video.y[t], video.y[t] + 1}
  BY <1>1, <1>3 DEF Videos
<1>6. RowsBelowLimit' /\ ColumnsBelowLimit'
  BY <1>1, <1>2, <1>3, <1>4, <1>5 DEF RowsBelowLimit, RowLimit, ColumnsBelowLimit, ColumnLimit
<1>7. video' \in VideoType
  <2>1. \A u \in Terminals : video'.y[u] <= NUM_ROWS BY <1>1, <1>2, <1>4, <1>5
  <2> QED BY <1>3, <2>1, VideoTyped
<1>8. TypeOK' BY <1>7 DEF ScreenInv, TypeOK, VideoType, KBpoints, EchoPoints
<1>9. RoomForKey' BY DEF ScreenInv, RoomForKey, EchoPoints
<1> QED
  BY <1>6, <1>8, <1>9 DEF ScreenInv, CursorOnScreen, InEcho, LineToEcho, SwitchIsReal

(* ... and is brought back whatever was printed in between.                *)
LEMMA EchoScrollKeepsInv ==
  ASSUME ScreenInv, EchoScroll
  PROVE  ScreenInv'
<1> USE DEF EchoScroll
<1> DEFINE t == currentTerminal
           w == Scroll(video, t)
<1>1. video \in Videos /\ t \in Terminals /\ NUM_ROWS \in Nat \ {0}
  BY SizeAssumption DEF ScreenInv, TypeOK, Videos, Glyphs
<1>2. /\ w \in Videos /\ w.y[t] = IF video.y[t] >= NUM_ROWS THEN video.y[t] - 1 ELSE video.y[t]
      /\ w.x = video.x /\ \A u \in Terminals \ {t} : w.y[u] = video.y[u]
  BY <1>1, ScrollRaises
<1>3. video' = set_cursor(w, t) OBVIOUS
<1> HIDE DEF w
<1>4. video.y[t] \in Nat /\ video.y[t] < NUM_ROWS + 1
  BY <1>1 DEF ScreenInv, RowsBelowLimit, RowLimit, Videos
<1>5. w.y[t] < NUM_ROWS BY <1>1, <1>2, <1>4
<1>6. \A u \in Terminals \ {t} : w.y[u] < NUM_ROWS
  BY <1>2 DEF ScreenInv, RowsBelowLimit, RowLimit
<1>7. \A u \in Terminals : w.x[u] < NUM_COLS
  BY <1>2 DEF ScreenInv, ColumnsBelowLimit, ColumnLimit
<1>8. LocationsOn(w) BY <1>5, <1>6, <1>7 DEF LocationsOn
<1>9. OnScreen(video') BY <1>1, <1>2, <1>3, <1>8, CursorSetOnScreen
<1>10. buf_loc' \in [Terminals -> 0..(BUF_SIZE - 1)]
  <2>1. buf_loc[t] \in 0..(BUF_SIZE - 1) BY <1>1 DEF ScreenInv, TypeOK
  <2>2. (IF key = NL THEN 0 ELSE buf_loc[t] + 1) \in 0..(BUF_SIZE - 1)
    BY <2>1, BufSizeAssumption DEF ScreenInv, RoomForKey, EchoPoints
  <2> QED BY <2>2 DEF ScreenInv, TypeOK
<1> QED
  BY <1>9, <1>10, OrderlyStep
  DEF ScreenInv, TypeOK, LineToEcho, SwitchIsReal, RoomForKey, EchoPoints, InEcho

(* A character is erased.                                                  *)
LEMMA BackspaceKeepsInv ==
  ASSUME ScreenInv, KeyBackspace
  PROVE  ScreenInv'
<1> USE DEF KeyBackspace
<1>1. OnScreen(video) /\ currentTerminal \in Terminals BY InvOnScreen DEF ScreenInv, TypeOK, InEcho
<1>2. OnScreen(video') BY <1>1, EraseCharOnScreen
<1>3. buf_loc' \in [Terminals -> 0..(BUF_SIZE - 1)] BY <1>1, BufSizeAssumption DEF ScreenInv, TypeOK
<1> QED
  BY <1>2, <1>3, OrderlyStep
  DEF ScreenInv, TypeOK, LineToEcho, SwitchIsReal, RoomForKey,
      EchoPoints, InEcho, handler

(* The screen is cleared, ...                                              *)
LEMMA ClearKeepsInv ==
  ASSUME ScreenInv, KeyClear
  PROVE  ScreenInv'
<1> USE DEF KeyClear
<1>1. OnScreen(video) /\ currentTerminal \in Terminals BY InvOnScreen DEF ScreenInv, TypeOK, InEcho
<1>2. OnScreen(video') BY <1>1, ClearOnScreen
<1>3. buf_loc[currentTerminal] \in Nat BY <1>1, BufSizeAssumption DEF ScreenInv, TypeOK
<1>4. line' \in Seq(Chars) BY <1>3 DEF StillToEcho
<1>5. kb' \in {"idle", "redraw"} /\ LineToEcho' BY DEF StillToEcho, LineToEcho
<1>6. mixed' \subseteq Terminals BY DEF ScreenInv, TypeOK
<1> QED
  BY <1>2, <1>4, <1>5, <1>6, OrderlyStep
  DEF ScreenInv, TypeOK, KBpoints, SwitchIsReal, RoomForKey,
      EchoPoints, InEcho, handler

(* ... and each character of the line is echoed again.                     *)
LEMMA EchoAgainKeepsInv ==
  ASSUME ScreenInv, EchoAgain
  PROVE  ScreenInv'
<1> USE DEF EchoAgain
<1>1. OnScreen(video) /\ currentTerminal \in Terminals BY InvOnScreen DEF ScreenInv, TypeOK, InEcho
<1>2. line \in Seq(Chars) /\ line # <<>> BY DEF ScreenInv, TypeOK, LineToEcho
<1>3. Head(line) \in Glyphs \cup {NL} /\ line' \in Seq(Chars) BY <1>2 DEF Glyphs, StillToEcho
<1>4. OnScreen(video') BY <1>1, <1>3, KBputcOnScreen
<1>5. kb' \in {"idle", "redraw"} /\ LineToEcho' BY DEF StillToEcho, LineToEcho
<1> QED
  BY <1>3, <1>4, <1>5, OrderlyStep
  DEF ScreenInv, TypeOK, KBpoints, SwitchIsReal, RoomForKey,
      EchoPoints, InEcho, handler

(* Another terminal becomes the current one, ...                           *)
LEMMA KeySwitchKeepsInv ==
  ASSUME ScreenInv, NEW n \in Terminals, KeySwitch(n)
  PROVE  ScreenInv'
<1> USE DEF KeySwitch
<1>1. OnScreen(video') BY InvOnScreen DEF ScreenInv, TypeOK, InEcho
<1> QED
  BY <1>1, OrderlyStep
  DEF ScreenInv, TypeOK, KBpoints, LineToEcho, SwitchIsReal, RoomForKey,
      EchoPoints, InEcho, handler

(* ... and the pages and mappings follow.                                  *)
LEMMA switchTerminalKeepsInv ==
  ASSUME ScreenInv, switchTerminal
  PROVE  ScreenInv'
<1> USE DEF switchTerminal
<1> DEFINE w == [video EXCEPT !.page = CopiedPages]
<1>1. OnScreen(video) /\ currentTerminal \in Terminals /\ previousTerminal \in Terminals
  BY InvOnScreen DEF ScreenInv, TypeOK, InEcho
<1>2. VIDEO \in Pages /\ \A t \in Terminals : Backing(t) \in Pages
  BY SizeAssumption DEF VIDEO, Pages, Backing, Terminals
<1>3. CopiedPages \in [Pages -> [Cells -> Glyphs]]
  BY <1>1, <1>2 DEF CopiedPages, OnScreen, Videos
<1>4. w \in Videos /\ w.y = video.y /\ w.x = video.x BY <1>1, <1>3 DEF OnScreen, Videos
<1>5. video' = set_cursor(w, currentTerminal) OBVIOUS
<1>6. OnScreen(video')
  <2>1. LocationsOn(w) BY <1>1, <1>4 DEF OnScreen, LocationsOn
  <2> HIDE DEF w
  <2> QED BY <1>1, <1>4, <1>5, <2>1, CursorSetOnScreen
<1>7. user_page_table' \in [Terminals -> Pages] BY <1>1, <1>2 DEF Remapped, ScreenInv, TypeOK
<1>8. 0 \in Terminals BY SizeAssumption DEF Terminals
<1> QED
  BY <1>6, <1>7, <1>8, OrderlyStep
  DEF ScreenInv, TypeOK, LineToEcho, SwitchIsReal, RoomForKey,
      EchoPoints, InEcho, handler

(* All steps keep the invariant.                                           *)
LEMMA ScreenStep == ScreenInv /\ [Next]_vars => ScreenInv'
<1> SUFFICES ASSUME ScreenInv, [Next]_vars PROVE ScreenInv' OBVIOUS
<1>1. CASE \E t \in Terminals, c \in Chars \cup {NL} : Putc(t, c) BY <1>1, PutcKeepsInv
<1>2. CASE \E t \in Terminals, i \in Cells, c \in Chars : StoreVidmap(t, i, c)
  BY <1>2, StoreVidmapKeepsInv
<1>3. CASE \E c \in Chars \cup {NL} : KeyChar(c) BY <1>3, KeyCharKeepsInv
<1>4. CASE EchoMoveOn BY <1>4, EchoMoveOnKeepsInv
<1>5. CASE EchoWrap BY <1>5, EchoWrapKeepsInv
<1>6. CASE EchoGoDown BY <1>6, EchoGoDownKeepsInv
<1>7. CASE EchoScroll BY <1>7, EchoScrollKeepsInv
<1>8. CASE KeyBackspace BY <1>8, BackspaceKeepsInv
<1>9. CASE KeyClear BY <1>9, ClearKeepsInv
<1>10. CASE EchoAgain BY <1>10, EchoAgainKeepsInv
<1>11. CASE \E n \in Terminals : KeySwitch(n) BY <1>11, KeySwitchKeepsInv
<1>12. CASE switchTerminal BY <1>12, switchTerminalKeepsInv
<1>13. CASE UNCHANGED vars
  BY <1>13 DEF vars, handler, ScreenInv, TypeOK, RowsBelowLimit, RowLimit, ColumnsBelowLimit,
               ColumnLimit, CursorOnScreen, InEcho, LineToEcho, SwitchIsReal, RoomForKey
<1> QED
  BY <1>1, <1>2, <1>3, <1>4, <1>5, <1>6, <1>7, <1>8, <1>9, <1>10, <1>11, <1>12,
     <1>13
  DEF Next

(* The invariant holds throughout.                                         *)
LEMMA ScreenInvariant == SafetySpec => []ScreenInv
  BY ScreenInit, ScreenStep, PTL DEF SafetySpec

(* Between keys every put location and the cursor are on the screen,       *)
(* whichever statements of an echo, or of a switch, a tick preempts for    *)
(* programs that print on the same terminal.                               *)
THEOREM LocationsStayOnScreen == SafetySpec => []LocationOnScreen
<1>1. ScreenInv => LocationOnScreen
  BY InvOnScreen DEF OnScreen, LocationsOn, LocationOnScreen, InEcho
<1> QED BY <1>1, ScreenInvariant, PTL

(* A mapped screen is the program's own before and after a step.           *)
LEMMA VidmapStep ==
  ASSUME ScreenInv, VidmapOwnScreen, [Next]_vars
  PROVE  VidmapOwnScreen'
<1> USE DEF VidmapOwnScreen, PageShown, PageOfVidmap, Displayed
<1>1. CASE kb = "idle" /\ \E n \in Terminals : KeySwitch(n) BY <1>1 DEF KeySwitch
<1>2. CASE switchTerminal
  <2>1. previousTerminal # currentTerminal BY <1>2 DEF switchTerminal, ScreenInv, SwitchIsReal
  <2>2. user_page_table \in [Terminals -> Pages] BY DEF ScreenInv, TypeOK
  <2> QED BY <1>2, <2>1, <2>2 DEF switchTerminal, Remapped
<1>3. CASE UNCHANGED <<user_page_table, currentTerminal, previousTerminal>>
           /\ kb # "switch" /\ kb' # "switch"
  BY <1>3
<1>4. CASE UNCHANGED <<user_page_table, currentTerminal, previousTerminal, kb>>
  BY <1>4
<1> QED
  BY <1>1, <1>2, <1>3, <1>4
  DEF Next, vars, handler, Putc, StoreVidmap, KeyChar, EchoMoveOn, EchoWrap, EchoGoDown, EchoScroll,
      KeyBackspace, KeyClear, EchoAgain, StillToEcho, KeySwitch

(* Through vidmap a program sees the display exactly while its terminal is *)
(* displayed, and never the page of another terminal, at every point of a  *)
(* switch.                                                                 *)
THEOREM VidmapShowsOwnScreen == SafetySpec => []VidmapOwnScreen
<1>1. Init => VidmapOwnScreen
  BY DEF Init, VidmapOwnScreen, PageShown, PageOfVidmap, Displayed
<1>2. ScreenInv /\ VidmapOwnScreen /\ [Next]_vars => VidmapOwnScreen'
  BY VidmapStep
<1> QED BY <1>1, <1>2, ScreenInvariant, PTL DEF SafetySpec

----------------------------------------------------------------------------
(* Screens.  What a terminal's page and put location show as a console, in *)
(* the sense of Screens, and what the parts of putc make of it.            *)
ConsoleIn(v, p, t) == [text |-> v.page[p], next |-> Location(v, t)]

(* The row of a location.                                                  *)
LEMMA RowOfLocation ==
  ASSUME NEW row \in Nat, NEW col \in 0..(NUM_COLS - 1)
  PROVE  (NUM_COLS * row + col) \div NUM_COLS = row
  BY SizeAssumption

(* The last row is on the screen and the one below it is not.              *)
LEMMA LocationsOffScreen ==
  ASSUME NEW row \in Nat, NEW col \in 0..(NUM_COLS - 1), row <= NUM_ROWS
  PROVE  /\ row >= NUM_ROWS <=> NUM_COLS * row + col > NUM_ROWS * NUM_COLS - 1
         /\ NUM_ROWS * NUM_COLS \in Nat /\ NUM_COLS * row \in Nat
<1> NUM_COLS \in Nat /\ NUM_ROWS \in Nat BY SizeAssumption
<1>1. NUM_ROWS * NUM_COLS \in Nat /\ NUM_COLS * row \in Nat BY ProductNat
<1>2. CASE row < NUM_ROWS
  <2>1. NUM_COLS * row + col \in Cells BY <1>2, RowCells
  <2> QED BY <1>1, <1>2, <2>1 DEF Cells
<1>3. CASE row = NUM_ROWS
  <2>1. NUM_COLS * row = NUM_ROWS * NUM_COLS BY <1>3
  <2> QED BY <1>1, <1>3, <2>1
<1> QED BY <1>1, <1>2, <1>3

(* A store changes one cell of the pages it is made in.                    *)
LEMMA StoreCharPages ==
  ASSUME NEW v \in Videos, NEW t \in Terminals, NEW pages, NEW c, NEW p \in Pages
  PROVE  StoreChar(v, pages, t, c).page[p] =
           IF p \in pages /\ c # NL THEN [v.page[p] EXCEPT ![Location(v, t)] = c] ELSE v.page[p]
  BY DEF StoreChar, Videos

(* An advance moves to the next location, or to the row below.             *)
LEMMA AdvanceLocation ==
  ASSUME NEW v \in Videos, NEW t \in Terminals, v.x[t] < NUM_COLS, NEW c
  PROVE  LET w == Advance(v, t, c)
         IN Location(w, t) = IF c = NL THEN S!RowBelow(Location(v, t)) ELSE Location(v, t) + 1
<1> NUM_COLS \in Nat \ {0} BY SizeAssumption
<1> DEFINE w == Advance(v, t, c)
           x == v.x[t]
           y == v.y[t]
           col == IF c = NL THEN 0 ELSE (x + 1) % NUM_COLS
<1>1. x \in 0..(NUM_COLS - 1) /\ y \in Nat BY DEF Videos
<1>2. v.x \in [Terminals -> 0..NUM_COLS] /\ v.y \in [Terminals -> Nat] BY DEF Videos
<1>3. /\ w.x = [v.x EXCEPT ![t] = col]
      /\ w.y = [v.y EXCEPT ![t] = IF c = NL \/ col = 0 THEN @ + 1 ELSE @]
  BY AdvanceMoves
<1>4. Location(v, t) = NUM_COLS * y + x BY DEF Location
<1>5. S!RowBelow(Location(v, t)) = (y + 1) * NUM_COLS
  BY <1>1, <1>4, RowOfLocation DEF S!RowBelow
<1>6. (x + 1) % NUM_COLS = IF x = NUM_COLS - 1 THEN 0 ELSE x + 1 BY <1>1
<1>7. NUM_COLS * y \in Nat /\ (y + 1) * NUM_COLS = NUM_COLS * y + NUM_COLS
      /\ NUM_COLS * (y + 1) = NUM_COLS * y + NUM_COLS
  BY <1>1, ProductNat
<1>8. w.x[t] = col /\ w.y[t] = IF c = NL \/ col = 0 THEN y + 1 ELSE y
  <2> HIDE DEF w, col
  <2> QED BY <1>2, <1>3
<1>9. CASE c = NL \/ x = NUM_COLS - 1
  <2>1. w.x[t] = 0 /\ w.y[t] = y + 1 BY <1>6, <1>8, <1>9
  <2>2. Location(w, t) = NUM_COLS * (y + 1) + 0 BY <2>1 DEF Location
  <2> HIDE DEF w, x, y
  <2>3. c # NL => Location(v, t) + 1 = NUM_COLS * y + NUM_COLS BY <1>1, <1>4, <1>7, <1>9
  <2>4. Location(w, t) = NUM_COLS * y + NUM_COLS BY <1>7, <2>2
  <2> QED BY <1>5, <1>7, <2>3, <2>4 DEF w
<1>10. CASE ~(c = NL \/ x = NUM_COLS - 1)
  <2>1. w.x[t] = x + 1 /\ w.y[t] = y BY <1>1, <1>6, <1>8, <1>10
  <2>2. Location(w, t) = NUM_COLS * y + (x + 1) BY <2>1 DEF Location
  <2> HIDE DEF w, x, y
  <2>3. Location(w, t) = Location(v, t) + 1 BY <1>1, <1>4, <1>7, <2>2
  <2> QED BY <1>10, <2>3 DEF w
<1> QED BY <1>9, <1>10

(* It moves no other terminal.                                             *)
LEMMA AdvanceOthers ==
  ASSUME NEW v \in Videos, NEW t \in Terminals, NEW c, NEW u \in Terminals \ {t}
  PROVE  Location(Advance(v, t, c), u) = Location(v, u)
<1> DEFINE w == Advance(v, t, c)
<1>1. v.x \in [Terminals -> 0..NUM_COLS] /\ v.y \in [Terminals -> Nat] BY DEF Videos
<1>2. w.x[u] = v.x[u] /\ w.y[u] = v.y[u]
  <2> DEFINE col == IF c = NL THEN 0 ELSE (v.x[t] + 1) % NUM_COLS
  <2>1. /\ w.x = [v.x EXCEPT ![t] = col]
        /\ w.y = [v.y EXCEPT ![t] = IF c = NL \/ col = 0 THEN @ + 1 ELSE @]
    BY AdvanceMoves
  <2> HIDE DEF w, col
  <2> QED BY <1>1, <2>1
<1> QED BY <1>2 DEF Location

(* A scroll moves up the text of a console that is at its end, ...         *)
LEMMA ScrollConsole ==
  ASSUME NEW v \in Videos, NEW t \in Terminals, v.y[t] <= NUM_ROWS, v.x[t] < NUM_COLS,
         NEW p \in PagesOf(t) \cap Pages
  PROVE  ConsoleIn(Scroll(v, t), p, t) = S!MovedUp(ConsoleIn(v, p, t))
<1> NUM_COLS \in Nat \ {0} /\ NUM_ROWS \in Nat \ {0} BY SizeAssumption
<1> DEFINE w == Scroll(v, t)
           x == v.x[t]
           y == v.y[t]
           s == ConsoleIn(v, p, t)
           last == NUM_ROWS * NUM_COLS - 1
<1>1. x \in 0..(NUM_COLS - 1) /\ y \in Nat BY DEF Videos
<1>2. /\ y >= NUM_ROWS <=> NUM_COLS * y + x > last
      /\ NUM_ROWS * NUM_COLS \in Nat /\ NUM_COLS * y \in Nat
  BY <1>1, LocationsOffScreen
<1>3. s.next = NUM_COLS * y + x /\ s.text = v.page[p] BY DEF ConsoleIn, Location
<1>4. CASE y < NUM_ROWS
  <2>1. w = v BY <1>1, <1>4 DEF Scroll, AtBottom
  <2>2. s.next <= last BY <1>1, <1>2, <1>3, <1>4
  <2> QED BY <2>1, <2>2 DEF S!MovedUp, S!End
<1>5. CASE y >= NUM_ROWS
  <2>1. w.x[t] = x /\ w.y[t] = y - 1 /\ w.page[p] = Shifted(v.page[p])
    BY <1>1, <1>5 DEF Scroll, AtBottom, text_shift_up, Videos
  <2>2. Location(w, t) = NUM_COLS * (y - 1) + x BY <2>1 DEF Location
  <2>3. NUM_COLS * (y - 1) = NUM_COLS * y - NUM_COLS BY <1>1
  <2>4. ~(s.next <= last) BY <1>1, <1>2, <1>3, <1>5
  <2>5. Location(w, t) = s.next - NUM_COLS
    <3> HIDE DEF w, x, y, s
    <3> QED BY <1>1, <1>2, <1>3, <2>2, <2>3
  <2>6. Shifted(v.page[p]) =
          [i \in 0..last |-> IF i + NUM_COLS <= last THEN s.text[i + NUM_COLS] ELSE Space]
    <3>1. last \in Int BY <1>2
    <3> HIDE DEF s, last
    <3>2. \A i \in 0..last : i + NUM_COLS \in 0..last <=> i + NUM_COLS <= last BY <3>1
    <3> QED BY <1>3, <3>1, <3>2 DEF Shifted, Cells, last
  <2>7. ConsoleIn(w, p, t) = [text |-> Shifted(v.page[p]), next |-> s.next - NUM_COLS]
    BY <2>1, <2>5 DEF ConsoleIn
  <2> QED BY <2>4, <2>6, <2>7 DEF S!MovedUp, S!End
<1> QED BY <1>1, <1>4, <1>5

(* ... and leaves the other ones alone.                                    *)
LEMMA ScrollOthers ==
  ASSUME NEW v \in Videos, NEW t \in Terminals
  PROVE  /\ \A p \in Pages \ PagesOf(t) : Scroll(v, t).page[p] = v.page[p]
         /\ \A u \in Terminals \ {t} : Location(Scroll(v, t), u) = Location(v, u)
  BY DEF Scroll, text_shift_up, Location, Videos

(* The page that holds the text of terminal t outside a switch, and a      *)
(* change of the screen that shows on terminal t only.                     *)
TextPage(t) == IF t = currentTerminal THEN VIDEO ELSE Backing(t)
OthersKept(v, w, t) ==
  \A u \in Terminals \ {t} : ConsoleIn(w, TextPage(u), u) = ConsoleIn(v, TextPage(u), u)

(* The text of a terminal is in a page of its own.                         *)
LEMMA TextPages ==
  ASSUME NEW t \in Terminals
  PROVE  /\ TextPage(t) \in Pages /\ TextPage(t) \in PagesOf(t)
         /\ \A u \in Terminals \ {t} : TextPage(u) \notin PagesOf(t)
         /\ t = currentTerminal => TextPage(t) = VIDEO
         /\ VIDEO \in Pages
  BY SizeAssumption DEF TextPage, PagesOf, Pages, VIDEO, Backing, Terminals

(* The cursor is no part of a console.                                     *)
LEMMA SetCursorConsole ==
  ASSUME NEW v \in Videos, NEW t, NEW p, NEW u
  PROVE  ConsoleIn(set_cursor(v, t), p, u) = ConsoleIn(v, p, u)
  BY DEF set_cursor, ConsoleIn, Location, Videos

(* The steps of a character before the scroll.                             *)
LEMMA CharAdvanced ==
  ASSUME NEW v \in Videos, NEW t \in Terminals, NEW pages, NEW c \in Glyphs \cup {NL}
  PROVE  LET b == Advance(StoreChar(v, pages, t, c), t, c)
         IN /\ b \in Videos /\ b.x[t] < NUM_COLS /\ b.y[t] \in {v.y[t], v.y[t] + 1}
            /\ \A q \in Pages : b.page[q] =
                 IF q \in pages /\ c # NL THEN [v.page[q] EXCEPT ![Location(v, t)] = c]
                 ELSE v.page[q]
            /\ v.x[t] < NUM_COLS => Location(b, t) =
                 IF c = NL THEN S!RowBelow(Location(v, t)) ELSE Location(v, t) + 1
            /\ \A u \in Terminals \ {t} : Location(b, u) = Location(v, u)
<1> DEFINE a == StoreChar(v, pages, t, c)
           b == Advance(a, t, c)
<1>1. a \in Videos /\ a.y = v.y /\ a.x = v.x BY StoreCharKeeps
<1>2. \A q \in Pages : a.page[q] =
        IF q \in pages /\ c # NL THEN [v.page[q] EXCEPT ![Location(v, t)] = c] ELSE v.page[q]
  BY StoreCharPages
<1>3. \A u \in Terminals : Location(a, u) = Location(v, u) BY <1>1 DEF Location
<1> HIDE DEF a
<1> DEFINE col == IF c = NL THEN 0 ELSE (a.x[t] + 1) % NUM_COLS
<1>4. /\ b \in Videos /\ b.page = a.page /\ b.cursor = a.cursor
      /\ b.x = [a.x EXCEPT ![t] = col] /\ b.x[t] < NUM_COLS
      /\ b.y = [a.y EXCEPT ![t] = IF c = NL \/ col = 0 THEN @ + 1 ELSE @]
  BY <1>1, AdvanceMoves
<1>5. v.x[t] < NUM_COLS =>
        Location(b, t) = IF c = NL THEN S!RowBelow(Location(a, t)) ELSE Location(a, t) + 1
  BY <1>1, AdvanceLocation
<1>6. \A u \in Terminals \ {t} : Location(b, u) = Location(a, u) BY <1>1, AdvanceOthers
<1> HIDE DEF b, col
<1>7. a.y \in [Terminals -> Nat] BY <1>1 DEF Videos
<1>8. b.y[t] \in {v.y[t], v.y[t] + 1} BY <1>1, <1>4, <1>7
<1>9. /\ v.x[t] < NUM_COLS => Location(b, t) =
           IF c = NL THEN S!RowBelow(Location(v, t)) ELSE Location(v, t) + 1
      /\ \A u \in Terminals \ {t} : Location(b, u) = Location(v, u)
  BY <1>3, <1>5, <1>6
<1> QED BY <1>2, <1>4, <1>8, <1>9 DEF a, b

(* A character is written to the terminal's console, ...                   *)
LEMMA CharWritten ==
  ASSUME NEW v \in Videos, NEW t \in Terminals, v.y[t] < NUM_ROWS, v.x[t] < NUM_COLS,
         NEW pages \in SUBSET PagesOf(t), NEW c \in Glyphs \cup {NL}
  PROVE  LET w == Scroll(Advance(StoreChar(v, pages, t, c), t, c), t)
         IN \A p \in pages \cap Pages : ConsoleIn(w, p, t) = S!Write(ConsoleIn(v, p, t), c)
<1> DEFINE b == Advance(StoreChar(v, pages, t, c), t, c)
           w == Scroll(b, t)
<1> NUM_ROWS \in Nat BY SizeAssumption
<1>1. /\ b \in Videos /\ b.x[t] < NUM_COLS /\ b.y[t] \in {v.y[t], v.y[t] + 1}
      /\ \A q \in Pages : b.page[q] =
           IF q \in pages /\ c # NL THEN [v.page[q] EXCEPT ![Location(v, t)] = c] ELSE v.page[q]
      /\ Location(b, t) = IF c = NL THEN S!RowBelow(Location(v, t)) ELSE Location(v, t) + 1
  BY CharAdvanced
<1> HIDE DEF b
<1>2. b.y[t] <= NUM_ROWS
  <2>1. v.y[t] \in Nat BY DEF Videos
  <2> QED BY <1>1, <2>1
<1> SUFFICES ASSUME NEW p \in pages \cap Pages
             PROVE  ConsoleIn(w, p, t) = S!Write(ConsoleIn(v, p, t), c)
  BY DEF b
<1> DEFINE s == ConsoleIn(v, p, t)
<1>3. ConsoleIn(w, p, t) = S!MovedUp(ConsoleIn(b, p, t)) BY <1>1, <1>2, ScrollConsole
<1>4. ConsoleIn(b, p, t) = IF c = NL THEN [s EXCEPT !.next = S!RowBelow(s.next)]
                           ELSE [text |-> [s.text EXCEPT ![s.next] = c], next |-> s.next + 1]
  BY <1>1 DEF ConsoleIn
<1> HIDE DEF w, s
<1>5. ConsoleIn(w, p, t) = S!Write(s, c) BY <1>3, <1>4 DEF S!Write
<1> QED BY <1>5 DEF s

(* ... and, whatever the row and the column, to no other.                  *)
LEMMA CharOthers ==
  ASSUME NEW v \in Videos, NEW t \in Terminals, NEW pages \in SUBSET PagesOf(t),
         NEW c \in Glyphs \cup {NL}
  PROVE  LET w == Scroll(Advance(StoreChar(v, pages, t, c), t, c), t)
         IN \A u \in Terminals \ {t}, p \in Pages \ PagesOf(t) :
              ConsoleIn(w, p, u) = ConsoleIn(v, p, u)
<1> DEFINE b == Advance(StoreChar(v, pages, t, c), t, c)
           w == Scroll(b, t)
<1>1. /\ b \in Videos
      /\ \A q \in Pages : b.page[q] =
           IF q \in pages /\ c # NL THEN [v.page[q] EXCEPT ![Location(v, t)] = c] ELSE v.page[q]
      /\ \A u \in Terminals \ {t} : Location(b, u) = Location(v, u)
  BY CharAdvanced
<1> HIDE DEF b
<1>2. /\ \A p \in Pages \ PagesOf(t) : w.page[p] = b.page[p]
      /\ \A u \in Terminals \ {t} : Location(w, u) = Location(b, u)
  BY <1>1, ScrollOthers
<1> HIDE DEF w
<1>3. \A p \in Pages \ PagesOf(t) : w.page[p] = v.page[p] BY <1>1, <1>2
<1>4. \A u \in Terminals \ {t}, p \in Pages \ PagesOf(t) : ConsoleIn(w, p, u) = ConsoleIn(v, p, u)
  BY <1>1, <1>2, <1>3 DEF ConsoleIn
<1> QED BY <1>4 DEF b, w

(* So does putc, ...                                                       *)
LEMMA PutcWrites ==
  ASSUME NEW v \in Videos, NEW t \in Terminals, NEW c \in Glyphs \cup {NL}
  PROVE  /\ putc(v, t, c) \in Videos
         /\ v.y[t] < NUM_ROWS /\ v.x[t] < NUM_COLS =>
              \A p \in PagesOf(t) \cap Pages :
                ConsoleIn(putc(v, t, c), p, t) = S!Write(ConsoleIn(v, p, t), c)
         /\ \A u \in Terminals \ {t}, p \in Pages \ PagesOf(t) :
              ConsoleIn(putc(v, t, c), p, u) = ConsoleIn(v, p, u)
<1> DEFINE w == Scroll(Advance(StoreChar(v, PagesOf(t), t, c), t, c), t)
<1>1. v.y[t] < NUM_ROWS /\ v.x[t] < NUM_COLS =>
        \A p \in PagesOf(t) \cap Pages : ConsoleIn(w, p, t) = S!Write(ConsoleIn(v, p, t), c)
  BY CharWritten
<1>2. \A u \in Terminals \ {t}, p \in Pages \ PagesOf(t) : ConsoleIn(w, p, u) = ConsoleIn(v, p, u)
  BY CharOthers
<1>3. w \in Videos BY CharKeepsRows
<1>4. putc(v, t, c) = IF t = currentTerminal THEN set_cursor(w, t) ELSE w BY DEF putc
<1> HIDE DEF w
<1>5. \A u, p : ConsoleIn(putc(v, t, c), p, u) = ConsoleIn(w, p, u)
  BY <1>3, <1>4, SetCursorConsole
<1>6. putc(v, t, c) \in Videos BY <1>3, <1>4, SetCursor
<1> QED BY <1>1, <1>2, <1>5, <1>6

(* ... and KBputc on the displayed one.                                    *)
LEMMA KBputcWrites ==
  ASSUME NEW v, OnScreen(v), currentTerminal \in Terminals, NEW c \in Glyphs \cup {NL}
  PROVE  /\ ConsoleIn(KBputc(v, c), VIDEO, currentTerminal) =
              S!Write(ConsoleIn(v, VIDEO, currentTerminal), c)
         /\ OthersKept(v, KBputc(v, c), currentTerminal)
<1> DEFINE t == currentTerminal
           w == Scroll(Advance(StoreChar(v, {VIDEO}, t, c), t, c), t)
<1>1. v \in Videos /\ v.y[t] < NUM_ROWS /\ v.x[t] < NUM_COLS BY DEF OnScreen, LocationsOn
<1>2. {VIDEO} \in SUBSET PagesOf(t) /\ VIDEO \in {VIDEO} \cap Pages BY TextPages DEF PagesOf
<1>3. ConsoleIn(w, VIDEO, t) = S!Write(ConsoleIn(v, VIDEO, t), c) BY <1>1, <1>2, CharWritten
<1>4. \A u \in Terminals \ {t}, p \in Pages \ PagesOf(t) : ConsoleIn(w, p, u) = ConsoleIn(v, p, u)
  BY <1>1, <1>2, CharOthers
<1>5. w \in Videos BY <1>1, CharKeepsRows
<1>6. KBputc(v, c) = set_cursor(w, t) BY DEF KBputc
<1> HIDE DEF w
<1>7. \A u, p : ConsoleIn(KBputc(v, c), p, u) = ConsoleIn(w, p, u)
  BY <1>5, <1>6, SetCursorConsole
<1>8. \A u \in Terminals \ {t} : TextPage(u) \in Pages \ PagesOf(t) BY TextPages
<1> QED BY <1>3, <1>4, <1>7, <1>8 DEF OthersKept

(* The location before location i, if there is one.                        *)
Before(i) == IF i = 0 THEN 0 ELSE i - 1

(* back_char moves to the location before.                                 *)
LEMMA BackCharMoves ==
  ASSUME NEW v, OnScreen(v), currentTerminal \in Terminals
  PROVE  /\ ConsoleIn(back_char(v), VIDEO, currentTerminal) =
              [text |-> v.page[VIDEO], next |-> Before(Location(v, currentTerminal))]
         /\ OthersKept(v, back_char(v), currentTerminal)
<1> NUM_COLS \in Nat \ {0} BY SizeAssumption
<1> DEFINE t == currentTerminal
           w == back_char(v)
           x == v.x[t]
           y == v.y[t]
<1>1. v \in Videos /\ x \in 0..(NUM_COLS - 1) /\ y \in Nat BY DEF OnScreen, LocationsOn, Videos
<1>2. w.page = v.page /\ \A u \in Terminals \ {t} : w.x[u] = v.x[u] /\ w.y[u] = v.y[u]
  BY <1>1 DEF back_char, set_cursor, Videos
<1>3. OthersKept(v, w, t) BY <1>2 DEF OthersKept, ConsoleIn, Location
<1>5. Location(v, t) = NUM_COLS * y + x BY DEF Location
<1>6. Location(w, t) = NUM_COLS * w.y[t] + w.x[t] BY DEF Location
<1>7. CASE x = 0 /\ y = 0
  <2>1. w = v BY <1>7 DEF back_char
  <2>2. Location(v, t) = 0 BY <1>5, <1>7
  <2> QED BY <1>3, <2>1, <2>2 DEF ConsoleIn, Before
<1>8. CASE x = 0 /\ y # 0
  <2>1. w.y[t] = y - 1 /\ w.x[t] = NUM_COLS - 1 BY <1>1, <1>8 DEF back_char, Videos
  <2>2. NUM_COLS * (y - 1) = NUM_COLS * y - NUM_COLS /\ NUM_COLS * y # 0 /\ NUM_COLS * y \in Nat
    BY <1>1, <1>8, ProductNat
  <2> HIDE DEF w, x, y
  <2>3. Location(w, t) = Before(Location(v, t)) BY <1>5, <1>6, <1>8, <2>1, <2>2 DEF Before
  <2> QED BY <1>2, <1>3, <2>3 DEF ConsoleIn, w
<1>9. CASE x # 0
  <2>1. w.y[t] = y /\ w.x[t] = x - 1 BY <1>1, <1>9 DEF back_char, set_cursor, Videos
  <2>2. NUM_COLS * y \in Nat BY <1>1, ProductNat
  <2> HIDE DEF w, x, y
  <2>3. Location(w, t) = Before(Location(v, t)) BY <1>1, <1>5, <1>6, <1>9, <2>1, <2>2 DEF Before
  <2> QED BY <1>2, <1>3, <2>3 DEF ConsoleIn, w
<1> QED BY <1>1, <1>7, <1>8, <1>9

(* erase_char blanks the character before and moves to it.                 *)
LEMMA EraseCharErases ==
  ASSUME NEW v, OnScreen(v), currentTerminal \in Terminals
  PROVE  LET i == Before(Location(v, currentTerminal))
         IN /\ ConsoleIn(erase_char(v), VIDEO, currentTerminal) =
                 [text |-> [v.page[VIDEO] EXCEPT ![i] = Space], next |-> i]
            /\ OthersKept(v, erase_char(v), currentTerminal)
<1> NUM_COLS \in Nat \ {0} /\ NUM_ROWS \in Nat \ {0} BY SizeAssumption
<1> DEFINE t == currentTerminal
           i == Before(Location(v, t))
           a == back_char(v)
           b == KBputc(a, Space)
           w == back_char(b)
           last == NUM_ROWS * NUM_COLS - 1
           grid == [v.page[VIDEO] EXCEPT ![i] = Space]
           s == [text |-> grid, next |-> i + 1]
<1>1. OnScreen(a) /\ Space \in Glyphs \cup {NL} /\ Space # NL
  BY BackCharOnScreen, CharsAssumption DEF Glyphs
<1>2. OnScreen(b) BY <1>1, KBputcOnScreen
<1>3. ConsoleIn(a, VIDEO, t) = [text |-> v.page[VIDEO], next |-> i] /\ OthersKept(v, a, t)
  BY BackCharMoves
<1>4. ConsoleIn(b, VIDEO, t) = S!Write(ConsoleIn(a, VIDEO, t), Space) /\ OthersKept(a, b, t)
  BY <1>1, KBputcWrites
<1>5. ConsoleIn(b, VIDEO, t) = S!MovedUp(s)
  BY <1>1, <1>3, <1>4 DEF S!Write
<1>6. /\ ConsoleIn(w, VIDEO, t) = [text |-> b.page[VIDEO], next |-> Before(Location(b, t))]
      /\ OthersKept(b, w, t)
  BY <1>2, BackCharMoves
<1>7. w = erase_char(v) BY DEF erase_char
<1>8. Location(v, t) \in Cells /\ Location(v, t) \in Nat /\ last \in Nat /\ Location(b, t) \in Nat
  <2>1. v \in Videos /\ v.y[t] < NUM_ROWS /\ v.x[t] < NUM_COLS /\ b \in Videos
    BY <1>2 DEF OnScreen, LocationsOn
  <2>2. 0 \in Cells /\ NUM_ROWS * NUM_COLS \in Nat
    <3>1. NUM_COLS * 0 + 0 \in Cells BY RowCells
    <3> QED BY <3>1, ProductNat
  <2> QED BY <2>1, <2>2, LocationOfRow DEF Cells
<1>9. i \in 0..last /\ (i + 1 <= last \/ (i = 0 /\ last = 0))
  <2> DEFINE at == Location(v, t)
  <2>1. at \in 0..last /\ i = IF at = 0 THEN 0 ELSE at - 1 BY <1>8 DEF Cells, Before
  <2> HIDE DEF last, i, at
  <2>2. at \in Nat /\ last \in Nat BY <1>8 DEF at
  <2> QED BY <2>1, <2>2
<1>10. b.page[VIDEO] = ConsoleIn(b, VIDEO, t).text /\ Location(b, t) = ConsoleIn(b, VIDEO, t).next
  BY DEF ConsoleIn
<1> HIDE DEF a, b, w, i, last
<1>11. b.page[VIDEO] = grid /\ Before(Location(b, t)) = i
  <2>1. CASE i + 1 <= last
    <3>1. S!MovedUp(s) = s BY <2>1 DEF S!MovedUp, S!End, last
    <3>2. b.page[VIDEO] = grid /\ Location(b, t) = i + 1 BY <1>5, <1>10, <3>1
    <3> QED BY <1>9, <3>2 DEF Before
  <2>2. CASE i = 0 /\ last = 0
    <3>1. S!MovedUp(s) =
            [text |-> [j \in 0..last |->
                         IF j + NUM_COLS <= last THEN s.text[j + NUM_COLS] ELSE Space],
             next |-> s.next - NUM_COLS]
      BY <2>2 DEF S!MovedUp, S!End, last
    <3>2. Location(b, t) = 1 - NUM_COLS BY <1>5, <1>10, <2>2, <3>1
    <3>3. b.page[VIDEO] = [j \in 0..last |-> Space]
      <4>1. \A j \in 0..last : ~(j + NUM_COLS <= last) BY <2>2
      <4> HIDE DEF s
      <4>2. [j \in 0..last |-> IF j + NUM_COLS <= last THEN s.text[j + NUM_COLS] ELSE Space]
            = [j \in 0..last |-> Space]
        BY <4>1
      <4> QED BY <1>5, <1>10, <3>1, <4>2
    <3>4. grid = [j \in 0..last |-> Space]
      <4>1. VIDEO \in Pages BY SizeAssumption DEF VIDEO, Pages
      <4>2. v.page[VIDEO] \in [0..last -> Glyphs] BY <4>1 DEF OnScreen, Videos, Cells, last
      <4> QED BY <2>2, <4>2
    <3> QED BY <1>8, <2>2, <3>2, <3>3, <3>4 DEF Before
  <2> QED BY <1>9, <2>1, <2>2
<1>12. OthersKept(v, w, t) BY <1>3, <1>4, <1>6 DEF OthersKept
<1> QED BY <1>6, <1>7, <1>11, <1>12 DEF i

(* clear blanks the displayed console.                                     *)
LEMMA ClearEmpties ==
  ASSUME NEW v, OnScreen(v), currentTerminal \in Terminals
  PROVE  /\ ConsoleIn(clear(v), VIDEO, currentTerminal) = [text |-> S!Empty, next |-> 0]
         /\ OthersKept(v, clear(v), currentTerminal)
<1> NUM_COLS \in Nat \ {0} BY SizeAssumption
<1> DEFINE t == currentTerminal
           w == clear(v)
<1>1. v \in Videos BY DEF OnScreen
<1>2. w.x[t] = 0 /\ w.y[t] = 0 /\ \A u \in Terminals \ {t} : w.x[u] = v.x[u] /\ w.y[u] = v.y[u]
  BY <1>1 DEF clear, set_cursor, Videos
<1>3. w.page = [v.page EXCEPT ![VIDEO] = [i \in Cells |-> Space]]
  BY <1>1 DEF clear, set_cursor, Videos
<1>4. VIDEO \in Pages /\ \A u \in Terminals \ {t} : TextPage(u) \in Pages \ {VIDEO}
  BY TextPages DEF PagesOf
<1> HIDE DEF w
<1>5. w.page[VIDEO] = S!Empty BY <1>1, <1>3, <1>4 DEF Videos, S!Empty, S!End, Cells
<1>6. Location(w, t) = 0 BY <1>2 DEF Location
<1>7. \A u \in Terminals \ {t} : w.page[TextPage(u)] = v.page[TextPage(u)]
  BY <1>1, <1>3, <1>4 DEF Videos
<1>8. OthersKept(v, w, t) BY <1>2, <1>7 DEF OthersKept, ConsoleIn, Location
<1> QED BY <1>5, <1>6, <1>8 DEF ConsoleIn, w

----------------------------------------------------------------------------
(* The line that is echoed again, a character at a time.                   *)

(* Counting up from zero reaches every number.                             *)
LEMMA Counting ==
  ASSUME NEW A, 0 \in A, \A n \in Nat : n \in A => n + 1 \in A
  PROVE  Nat \subseteq A
<1> SUFFICES ASSUME Nat \ A # {} PROVE FALSE OBVIOUS
<1> DEFINE T == Nat \ A
<1>1. PICK x \in T : \A y \in T : <<y, x>> \notin OpToRel(<, Nat)
  BY NatLessThanWellFounded, WFMin
<1>2. \A y \in T : ~(y < x) BY <1>1 DEF OpToRel
<1>3. x - 1 \in Nat /\ x - 1 < x /\ (x - 1) + 1 = x OBVIOUS
<1> QED BY <1>2, <1>3

(* Two sequences of states that start alike and go on alike end alike.     *)
LEMMA SameEnd ==
  ASSUME NEW n \in Nat, NEW f, NEW g, f[0] = g[0],
         \A k \in Nat : k < n /\ f[k] = g[k] => f[k + 1] = g[k + 1]
  PROVE  f[n] = g[n]
<1> DEFINE A == {k \in Nat : k <= n => f[k] = g[k]}
<1>1. 0 \in A OBVIOUS
<1>2. \A k \in Nat : k \in A => k + 1 \in A OBVIOUS
<1> HIDE DEF A
<1>3. n \in A BY <1>1, <1>2, Counting
<1> QED BY <1>3 DEF A

(* g: the screen v and what it becomes by each of the n first characters.  *)
Redraws(g, v, chars, n) == g = [k \in 0..n |-> IF k = 0 THEN v ELSE KBputc(g[k - 1], chars[k])]

(* Redrawn is the last of them.                                            *)
LEMMA RedrawnIsLast ==
  ASSUME NEW v, NEW chars, Len(chars) \in Nat
  PROVE  \E g : Redraws(g, v, chars, Len(chars)) /\ Redrawn(v, chars) = g[Len(chars)]
<1> DEFINE R == {n \in Nat : \E g : Redraws(g, v, chars, n)}
<1>1. 0 \in R
  <2>1. Redraws([k \in 0..0 |-> v], v, chars, 0) BY DEF Redraws
  <2> QED BY <2>1
<1>2. ASSUME NEW n \in Nat, n \in R PROVE n + 1 \in R
  <2>1. PICK g : Redraws(g, v, chars, n) BY <1>2
  <2> DEFINE h == [k \in 0..(n + 1) |-> IF k = n + 1 THEN KBputc(g[n], chars[k]) ELSE g[k]]
  <2>2. ASSUME NEW k \in 0..(n + 1)
        PROVE  h[k] = IF k = 0 THEN v ELSE KBputc(h[k - 1], chars[k])
    BY <2>1 DEF Redraws
  <2>3. Redraws(h, v, chars, n + 1) BY <2>2 DEF Redraws
  <2> QED BY <2>3
<1> HIDE DEF R
<1>3. Len(chars) \in R BY <1>1, <1>2, Counting
<1> DEFINE after == CHOOSE g : Redraws(g, v, chars, Len(chars))
<1>4. Redraws(after, v, chars, Len(chars)) BY <1>3 DEF R
<1>5. Redrawn(v, chars) = after[Len(chars)] BY Zenon DEF Redrawn, Redraws
<1> QED BY <1>4, <1>5

(* The first character comes first.                                        *)
LEMMA RedrawnFirst ==
  ASSUME NEW v, NEW chars \in Seq(Chars), chars # <<>>
  PROVE  Redrawn(v, chars) = Redrawn(KBputc(v, Head(chars)), Tail(chars))
<1> DEFINE n == Len(chars) - 1
           w == KBputc(v, Head(chars))
<1>1. /\ n \in Nat /\ Len(chars) = n + 1 /\ Len(Tail(chars)) = n /\ Head(chars) = chars[1]
      /\ \A k \in 1..n : Tail(chars)[k] = chars[k + 1]
  OBVIOUS
<1>2. PICK f : Redraws(f, v, chars, n + 1) /\ Redrawn(v, chars) = f[n + 1]
  BY <1>1, RedrawnIsLast
<1>3. PICK g : Redraws(g, w, Tail(chars), n) /\ Redrawn(w, Tail(chars)) = g[n]
  <2> DEFINE rest == Tail(chars)
  <2>1. Len(rest) \in Nat /\ Len(rest) = n BY <1>1
  <2> HIDE DEF w, n, rest
  <2>2. \E g : Redraws(g, w, rest, Len(rest)) /\ Redrawn(w, rest) = g[Len(rest)]
    BY <2>1, RedrawnIsLast
  <2> QED BY <2>1, <2>2 DEF rest
<1> DEFINE h == [k \in 0..n |-> f[k + 1]]
<1> HIDE DEF n
<1>4. \A k \in 0..n : f[k + 1] = KBputc(f[k], chars[k + 1])
  BY <1>1, <1>2 DEF Redraws
<1>5. f[0] = v /\ g[0] = w BY <1>1, <1>2, <1>3 DEF Redraws
<1>6. \A k \in 0..(n - 1) : g[k + 1] = KBputc(g[k], Tail(chars)[k + 1])
  BY <1>1, <1>3 DEF Redraws
<1>7. h[0] = g[0] BY <1>1, <1>4, <1>5
<1>8. ASSUME NEW k \in Nat, k < n, h[k] = g[k] PROVE h[k + 1] = g[k + 1]
  <2>1. k \in 0..n /\ k + 1 \in 0..n /\ k \in 0..(n - 1) /\ k + 1 \in 1..n BY <1>1, <1>8
  <2>2. h[k] = f[k + 1] /\ h[k + 1] = f[(k + 1) + 1] BY <2>1
  <2>3. f[(k + 1) + 1] = KBputc(f[k + 1], chars[(k + 1) + 1]) BY <1>4, <2>1
  <2>4. Tail(chars)[k + 1] = chars[(k + 1) + 1] BY <1>1, <2>1
  <2> QED BY <1>6, <1>8, <2>1, <2>2, <2>3, <2>4
<1> HIDE DEF h
<1>9. h[n] = g[n] BY <1>1, <1>7, <1>8, SameEnd
<1> QED BY <1>1, <1>2, <1>3, <1>9 DEF h

(* Nothing to echo leaves the screen alone.                                *)
LEMMA RedrawnNothing ==
  ASSUME NEW v PROVE Redrawn(v, <<>>) = v
<1>1. Len(<<>>) = 0 OBVIOUS
<1>2. PICK g : Redraws(g, v, <<>>, 0) /\ Redrawn(v, <<>>) = g[0] BY <1>1, RedrawnIsLast
<1> QED BY <1>2 DEF Redraws

(* The line is written to the displayed console, and to no other.          *)
LEMMA RedrawnWrites ==
  ASSUME NEW v, OnScreen(v), currentTerminal \in Terminals, NEW chars \in Seq(Chars)
  PROVE  /\ ConsoleIn(Redrawn(v, chars), VIDEO, currentTerminal) =
              S!Written(ConsoleIn(v, VIDEO, currentTerminal), chars)
         /\ OthersKept(v, Redrawn(v, chars), currentTerminal)
<1> DEFINE t == currentTerminal
           n == Len(chars)
           s == ConsoleIn(v, VIDEO, t)
<1>1. n \in Nat /\ \A k \in 1..n : chars[k] \in Glyphs \cup {NL} BY DEF Glyphs
<1>2. PICK g : Redraws(g, v, chars, n) /\ Redrawn(v, chars) = g[n] BY <1>1, RedrawnIsLast
<1>3. g[0] = v /\ \A k \in 1..n : g[k] = KBputc(g[k - 1], chars[k]) BY <1>1, <1>2 DEF Redraws
<1> DEFINE A == {k \in Nat : k <= n => OnScreen(g[k]) /\ OthersKept(v, g[k], t)}
<1>4. \A k \in 0..n : OnScreen(g[k]) /\ OthersKept(v, g[k], t)
  <2>1. 0 \in A BY <1>3 DEF OthersKept
  <2>2. ASSUME NEW k \in Nat, k \in A PROVE k + 1 \in A
    <3> SUFFICES ASSUME k + 1 <= n PROVE OnScreen(g[k + 1]) /\ OthersKept(v, g[k + 1], t)
      OBVIOUS
    <3>1. k + 1 \in 1..n /\ (k + 1) - 1 = k /\ k <= n BY <1>1
    <3>2. g[k + 1] = KBputc(g[k], chars[k + 1]) /\ chars[k + 1] \in Glyphs \cup {NL}
      BY <1>1, <1>3, <3>1
    <3>3. OnScreen(g[k]) /\ OthersKept(v, g[k], t) BY <2>2, <3>1
    <3>4. OnScreen(g[k + 1]) /\ OthersKept(g[k], g[k + 1], t)
      BY <3>2, <3>3, KBputcOnScreen, KBputcWrites
    <3> QED BY <3>3, <3>4 DEF OthersKept
  <2> HIDE DEF A
  <2>3. Nat \subseteq A BY <2>1, <2>2, Counting
  <2> QED BY <2>3 DEF A
<1> DEFINE h == [k \in 0..n |-> ConsoleIn(g[k], VIDEO, t)]
           Writes(f) == f = [k \in 0..n |-> IF k = 0 THEN s ELSE S!Write(f[k - 1], chars[k])]
           after == CHOOSE f : Writes(f)
<1>5. \A k \in 1..n : ConsoleIn(g[k], VIDEO, t) = S!Write(ConsoleIn(g[k - 1], VIDEO, t), chars[k])
  <2> SUFFICES ASSUME NEW k \in 1..n
               PROVE  ConsoleIn(g[k], VIDEO, t) = S!Write(ConsoleIn(g[k - 1], VIDEO, t), chars[k])
    OBVIOUS
  <2>1. k - 1 \in 0..n BY <1>1
  <2>2. OnScreen(g[k - 1]) /\ chars[k] \in Glyphs \cup {NL} /\ g[k] = KBputc(g[k - 1], chars[k])
    BY <1>1, <1>3, <1>4, <2>1
  <2> QED BY <2>2, KBputcWrites
<1>6. Writes(h)
  <2>1. ASSUME NEW k \in 0..n PROVE h[k] = IF k = 0 THEN s ELSE S!Write(h[k - 1], chars[k])
    <3>1. k # 0 => k \in 1..n /\ k - 1 \in 0..n BY <1>1
    <3> QED BY <1>3, <1>5, <3>1
  <2> QED BY <2>1
<1>7. Writes(after)
  <2> HIDE DEF Writes, h
  <2> QED BY <1>6
<1>8. S!Written(s, chars) = after[n] BY Zenon DEF S!Written
<1> HIDE DEF h, after, s
<1>9. h[n] = after[n]
  <2>1. h[0] = after[0] BY <1>1, <1>6, <1>7
  <2>2. ASSUME NEW k \in Nat, k < n, h[k] = after[k] PROVE h[k + 1] = after[k + 1]
    <3>1. k + 1 \in 0..n /\ k + 1 # 0 /\ (k + 1) - 1 = k BY <1>1, <2>2
    <3>2. h[k + 1] = S!Write(h[k], chars[k + 1]) BY <1>6, <3>1
    <3>3. after[k + 1] = S!Write(after[k], chars[k + 1]) BY <1>7, <3>1
    <3> QED BY <2>2, <3>2, <3>3
  <2> QED BY <1>1, <2>1, <2>2, SameEnd
<1>10. h[n] = ConsoleIn(g[n], VIDEO, t) /\ n \in 0..n BY <1>1 DEF h
<1> QED BY <1>2, <1>4, <1>8, <1>9, <1>10 DEF s

----------------------------------------------------------------------------
(* What an echo still has to do before its scroll.                         *)
Moved(v) ==
  LET t == currentTerminal IN
  CASE kb = "advance" -> Advance(v, t, key)
    [] kb = "wrap"    -> GoDown(Wrap(v, t, key), t, key)
    [] kb = "row"     -> GoDown(v, t, key)
    [] OTHER          -> v

(* With the scroll, it is all that is not shown yet.                       *)
LEMMA EchoedScrolls ==
  ASSUME NEW v, kb \in EchoPoints
  PROVE  EchoedFrom(v) = Scroll(Moved(v), currentTerminal)
  BY DEF EchoedFrom, Moved, EchoPoints

(* It changes the put location of the displayed terminal only.             *)
LEMMA MovedMoves ==
  ASSUME NEW v \in Videos, currentTerminal \in Terminals
  PROVE  /\ Moved(v) \in Videos /\ Moved(v).page = v.page
         /\ \A u \in Terminals \ {currentTerminal} : Location(Moved(v), u) = Location(v, u)
<1> DEFINE t == currentTerminal
<1>1. v.x \in [Terminals -> 0..NUM_COLS] /\ v.y \in [Terminals -> Nat] BY DEF Videos
<1>2. CASE kb = "advance"
  <2>1. Moved(v) = Advance(v, t, key) BY <1>2 DEF Moved
  <2>2. \A u \in Terminals \ {t} : Location(Advance(v, t, key), u) = Location(v, u)
    BY AdvanceOthers
  <2> DEFINE a == Advance(v, t, key)
             col == IF key = NL THEN 0 ELSE (v.x[t] + 1) % NUM_COLS
  <2>3. /\ a \in Videos /\ a.page = v.page /\ a.cursor = v.cursor
        /\ a.x = [v.x EXCEPT ![t] = col] /\ a.x[t] < NUM_COLS
        /\ a.y = [v.y EXCEPT ![t] = IF key = NL \/ col = 0 THEN @ + 1 ELSE @]
    BY AdvanceMoves
  <2> HIDE DEF a
  <2> QED BY <2>1, <2>2, <2>3 DEF a
<1>3. CASE kb = "wrap"
  <2> DEFINE a == Wrap(v, t, key)
             b == GoDown(a, t, key)
  <2>1. Moved(v) = b BY <1>3 DEF Moved
  <2>2. /\ a \in Videos /\ a.page = v.page /\ a.y = v.y
        /\ a.x = [v.x EXCEPT ![t] = IF key = NL THEN 0 ELSE @ % NUM_COLS]
    BY WrapMoves
  <2> HIDE DEF a
  <2>3. /\ b \in Videos /\ b.page = a.page /\ b.x = a.x
        /\ b.y = IF key # NL /\ a.x[t] = 0 THEN [a.y EXCEPT ![t] = @ + 1] ELSE a.y
    BY <2>2, GoDownMoves
  <2> HIDE DEF b
  <2>4. \A u \in Terminals \ {t} : b.x[u] = v.x[u] /\ b.y[u] = v.y[u] BY <1>1, <2>2, <2>3
  <2> QED BY <2>1, <2>2, <2>3, <2>4 DEF Location
<1>4. CASE kb = "row"
  <2> DEFINE b == GoDown(v, t, key)
  <2>1. Moved(v) = b BY <1>4 DEF Moved
  <2>2. /\ b \in Videos /\ b.page = v.page /\ b.x = v.x
        /\ b.y = IF key # NL /\ v.x[t] = 0 THEN [v.y EXCEPT ![t] = @ + 1] ELSE v.y
    BY GoDownMoves
  <2> HIDE DEF b
  <2>3. \A u \in Terminals \ {t} : b.y[u] = v.y[u] BY <1>1, <2>2
  <2> QED BY <2>1, <2>2, <2>3 DEF Location
<1>5. CASE kb \notin {"advance", "wrap", "row"} BY <1>5 DEF Moved
<1> QED BY <1>2, <1>3, <1>4, <1>5

(* What it does depends on that put location only.                         *)
LEMMA MovedSame ==
  ASSUME NEW v \in Videos, NEW w \in Videos, currentTerminal \in Terminals,
         v.x[currentTerminal] = w.x[currentTerminal], v.y[currentTerminal] = w.y[currentTerminal]
  PROVE  /\ Moved(v).x[currentTerminal] = Moved(w).x[currentTerminal]
         /\ Moved(v).y[currentTerminal] = Moved(w).y[currentTerminal]
<1> DEFINE t == currentTerminal
<1>1. /\ v.x \in [Terminals -> 0..NUM_COLS] /\ v.y \in [Terminals -> Nat]
      /\ w.x \in [Terminals -> 0..NUM_COLS] /\ w.y \in [Terminals -> Nat]
  BY DEF Videos
<1>2. CASE kb = "advance"
  <2> DEFINE col == IF key = NL THEN 0 ELSE (v.x[t] + 1) % NUM_COLS
             row == IF key = NL \/ col = 0 THEN v.y[t] + 1 ELSE v.y[t]
  <2>1. \A z \in Videos : z.x[t] = v.x[t] /\ z.y[t] = v.y[t] =>
          Advance(z, t, key).x[t] = col /\ Advance(z, t, key).y[t] = row
    <3> SUFFICES ASSUME NEW z \in Videos, z.x[t] = v.x[t], z.y[t] = v.y[t]
                 PROVE  Advance(z, t, key).x[t] = col /\ Advance(z, t, key).y[t] = row
      OBVIOUS
    <3> DEFINE cz == IF key = NL THEN 0 ELSE (z.x[t] + 1) % NUM_COLS
               a == Advance(z, t, key)
    <3>1. /\ a \in Videos /\ a.page = z.page /\ a.cursor = z.cursor
          /\ a.x = [z.x EXCEPT ![t] = cz] /\ a.x[t] < NUM_COLS
          /\ a.y = [z.y EXCEPT ![t] = IF key = NL \/ cz = 0 THEN @ + 1 ELSE @]
      BY AdvanceMoves
    <3>2. cz = col OBVIOUS
    <3>3. z.x \in [Terminals -> 0..NUM_COLS] /\ z.y \in [Terminals -> Nat] BY DEF Videos
    <3> HIDE DEF a, cz, col
    <3> QED BY <3>1, <3>2, <3>3 DEF a
  <2> HIDE DEF col, row
  <2> QED BY <1>2, <2>1 DEF Moved
<1>3. CASE kb = "wrap"
  <2> DEFINE Col(z) == IF key = NL THEN 0 ELSE z.x[t] % NUM_COLS
             Row(z) == IF key # NL /\ Col(z) = 0 THEN z.y[t] + 1 ELSE z.y[t]
  <2>1. \A z \in Videos : GoDown(Wrap(z, t, key), t, key).x[t] = Col(z)
                          /\ GoDown(Wrap(z, t, key), t, key).y[t] = Row(z)
    <3> SUFFICES ASSUME NEW z \in Videos
                 PROVE  GoDown(Wrap(z, t, key), t, key).x[t] = Col(z)
                        /\ GoDown(Wrap(z, t, key), t, key).y[t] = Row(z)
      OBVIOUS
    <3> DEFINE a == Wrap(z, t, key)
               b == GoDown(a, t, key)
    <3>1. /\ a \in Videos /\ a.y = z.y
          /\ a.x = [z.x EXCEPT ![t] = IF key = NL THEN 0 ELSE @ % NUM_COLS]
      BY WrapMoves
    <3> HIDE DEF a
    <3>2. /\ b \in Videos /\ b.page = a.page /\ b.cursor = a.cursor /\ b.x = a.x
          /\ b.y = IF key # NL /\ a.x[t] = 0 THEN [a.y EXCEPT ![t] = @ + 1] ELSE a.y
      BY <3>1, GoDownMoves
    <3>3. z.x \in [Terminals -> 0..NUM_COLS] /\ z.y \in [Terminals -> Nat] BY DEF Videos
    <3> HIDE DEF b
    <3>4. a.x[t] = Col(z) BY <3>1, <3>3
    <3> HIDE DEF Col
    <3>5. b.x[t] = Col(z) /\ b.y[t] = Row(z) BY <3>1, <3>2, <3>3, <3>4
    <3> QED BY <3>5 DEF a, b
  <2>2. Col(v) = Col(w) /\ Row(v) = Row(w) OBVIOUS
  <2> HIDE DEF Col, Row
  <2> QED BY <1>3, <2>1, <2>2 DEF Moved
<1>4. CASE kb = "row"
  <2>1. Moved(v) = GoDown(v, t, key) /\ Moved(w) = GoDown(w, t, key) BY <1>4 DEF Moved
  <2>2. GoDown(v, t, key).x[t] = GoDown(w, t, key).x[t] BY GoDownMoves
  <2>3. GoDown(v, t, key).y = IF key # NL /\ v.x[t] = 0 THEN [v.y EXCEPT ![t] = @ + 1] ELSE v.y
    BY GoDownMoves
  <2>4. GoDown(w, t, key).y = IF key # NL /\ w.x[t] = 0 THEN [w.y EXCEPT ![t] = @ + 1] ELSE w.y
    BY GoDownMoves
  <2>5. GoDown(v, t, key).y[t] = GoDown(w, t, key).y[t] BY <1>1, <2>3, <2>4
  <2> QED BY <2>1, <2>2, <2>5
<1>5. CASE kb \notin {"advance", "wrap", "row"} BY <1>5 DEF Moved
<1> QED BY <1>2, <1>3, <1>4, <1>5

(* A scroll of alike consoles leaves them alike.                           *)
LEMMA ScrollSame ==
  ASSUME NEW v \in Videos, NEW w \in Videos, NEW t \in Terminals, NEW p \in Pages,
         v.page[p] = w.page[p], v.x[t] = w.x[t], v.y[t] = w.y[t]
  PROVE  ConsoleIn(Scroll(v, t), p, t) = ConsoleIn(Scroll(w, t), p, t)
<1>1. \A z \in Videos : /\ Scroll(z, t).x[t] = z.x[t]
                        /\ Scroll(z, t).y[t] = IF z.y[t] >= NUM_ROWS THEN z.y[t] - 1 ELSE z.y[t]
  BY ScrollRaises
<1>2. \A z \in Videos : Scroll(z, t).page[p] =
        IF z.y[t] >= NUM_ROWS /\ p \in PagesOf(t) THEN Shifted(z.page[p]) ELSE z.page[p]
  BY DEF Scroll, AtBottom, text_shift_up, Videos
<1>3. Location(Scroll(v, t), t) = Location(Scroll(w, t), t) BY <1>1 DEF Location
<1> QED BY <1>2, <1>3 DEF ConsoleIn

(* What is being echoed shows on the displayed terminal only, ...          *)
LEMMA PendingOthers ==
  ASSUME NEW v \in Videos, kb = "redraw" => OnScreen(v) /\ line \in Seq(Chars),
         currentTerminal \in Terminals
  PROVE  OthersKept(v, EchoedFrom(v), currentTerminal)
<1> DEFINE t == currentTerminal
<1>1. CASE kb \in EchoPoints
  <2> DEFINE m == Moved(v)
  <2>1. EchoedFrom(v) = Scroll(m, t) BY <1>1, EchoedScrolls
  <2>2. /\ m \in Videos /\ m.page = v.page
        /\ \A u \in Terminals \ {t} : Location(m, u) = Location(v, u)
    BY MovedMoves
  <2> HIDE DEF m
  <2>3. /\ \A p \in Pages \ PagesOf(t) : Scroll(m, t).page[p] = m.page[p]
        /\ \A u \in Terminals \ {t} : Location(Scroll(m, t), u) = Location(m, u)
    BY <2>2, ScrollOthers
  <2>4. \A u \in Terminals \ {t} : TextPage(u) \in Pages \ PagesOf(t) BY TextPages
  <2> QED BY <2>1, <2>2, <2>3, <2>4 DEF OthersKept, ConsoleIn
<1>2. CASE kb = "redraw"
  <2>1. EchoedFrom(v) = Redrawn(v, line) BY <1>2 DEF EchoedFrom
  <2> QED BY <1>2, <2>1, RedrawnWrites
<1>3. CASE kb \notin EchoPoints \cup {"redraw"}
  BY <1>3 DEF EchoedFrom, EchoPoints, OthersKept
<1> QED BY <1>1, <1>2, <1>3

(* ... and there depends on what that terminal shows only.                 *)
LEMMA PendingSame ==
  ASSUME NEW v \in Videos, NEW w \in Videos, currentTerminal \in Terminals,
         kb = "redraw" => OnScreen(v) /\ OnScreen(w) /\ line \in Seq(Chars),
         v.page[VIDEO] = w.page[VIDEO], v.x[currentTerminal] = w.x[currentTerminal],
         v.y[currentTerminal] = w.y[currentTerminal]
  PROVE  ConsoleIn(EchoedFrom(v), VIDEO, currentTerminal) =
           ConsoleIn(EchoedFrom(w), VIDEO, currentTerminal)
<1> DEFINE t == currentTerminal
<1>1. VIDEO \in Pages BY TextPages
<1>2. CASE kb \in EchoPoints
  <2>1. /\ EchoedFrom(v) = Scroll(Moved(v), t) /\ EchoedFrom(w) = Scroll(Moved(w), t)
    BY <1>2, EchoedScrolls
  <2>2. /\ Moved(v) \in Videos /\ Moved(v).page = v.page
        /\ Moved(w) \in Videos /\ Moved(w).page = w.page
    BY MovedMoves
  <2>3. Moved(v).x[t] = Moved(w).x[t] /\ Moved(v).y[t] = Moved(w).y[t] BY MovedSame
  <2> QED BY <1>1, <2>1, <2>2, <2>3, ScrollSame
<1>3. CASE kb = "redraw"
  <2>1. EchoedFrom(v) = Redrawn(v, line) /\ EchoedFrom(w) = Redrawn(w, line)
    BY <1>3 DEF EchoedFrom
  <2>2. ConsoleIn(v, VIDEO, t) = ConsoleIn(w, VIDEO, t) BY DEF ConsoleIn, Location
  <2> QED BY <1>3, <2>1, <2>2, RedrawnWrites
<1>4. CASE kb \notin EchoPoints \cup {"redraw"}
  BY <1>4 DEF EchoedFrom, EchoPoints, ConsoleIn, Location
<1> QED BY <1>2, <1>3, <1>4

(* EchoedFrom and Redrawn, for any value of the variables they depend on.  *)
RedrawnAt(cur, v, chars) ==
  LET PagesAt(t) == {Backing(t)} \cup (IF t = cur THEN {VIDEO} ELSE {})
      Up(w, t) == [w EXCEPT !.page =
                    [p \in Pages |-> IF p \in PagesAt(t) THEN Shifted(@[p]) ELSE @[p]]]
      ScrollAt(w, t) == IF AtBottom(w, t) THEN [Up(w, t) EXCEPT !.y[t] = @ - 1] ELSE w
      Put(w, c) ==
        set_cursor(ScrollAt(Advance(StoreChar(w, {VIDEO}, cur, c), cur, c), cur), cur)
      after[n \in 0..Len(chars)] == IF n = 0 THEN v ELSE Put(after[n - 1], chars[n])
  IN after[Len(chars)]

(* The one of the current terminal is Redrawn.                             *)
LEMMA RedrawnSame ==
  ASSUME NEW v, NEW chars PROVE Redrawn(v, chars) = RedrawnAt(currentTerminal, v, chars)
  BY Zenon DEF Redrawn, RedrawnAt, KBputc, Scroll, text_shift_up, PagesOf

(* What is echoed after a step that leaves KBhandler at its statement.     *)
LEMMA EchoedNext ==
  ASSUME UNCHANGED <<currentTerminal, kb, key, line>>
  PROVE  Echoed' = EchoedFrom(video')
<1>1. CASE kb = "redraw"
  <2>1. Echoed' = RedrawnAt(currentTerminal', video', line')
    BY <1>1, Zenon
    DEF Echoed, EchoedFrom, Redrawn, RedrawnAt, KBputc, Scroll, text_shift_up, PagesOf
  <2>2. EchoedFrom(video') = RedrawnAt(currentTerminal, video', line)
    BY <1>1, RedrawnSame DEF EchoedFrom
  <2> QED BY <2>1, <2>2
<1>2. CASE kb # "redraw"
  BY <1>2 DEF Echoed, EchoedFrom, Scroll, AtBottom, text_shift_up, PagesOf, Advance, MoveOn, Wrap, GoDown
<1> QED BY <1>1, <1>2

----------------------------------------------------------------------------
(* Every step is one of Screens, or changes nothing there.                 *)

(* The console of Screens is the one in the terminal's page.               *)
LEMMA ConsoleShown ==
  ASSUME NEW u \in Terminals
  PROVE  /\ S!Console(u) = ConsoleIn(Echoed, PageShown(u), u)
         /\ S!Console(u)' = ConsoleIn(Echoed', PageShown(u)', u)
<1>1. gridBar = [t \in Terminals |-> Echoed.page[PageShown(t)]] BY Zenon DEF gridBar
<1>2. gridBar' = [t \in Terminals |-> Echoed'.page[PageShown(t)']] BY Zenon DEF gridBar
<1>3. atBar = [t \in Terminals |-> Location(Echoed, t)] BY DEF atBar
<1>4. atBar' = [t \in Terminals |-> Location(Echoed', t)] BY DEF atBar, Location
<1> QED BY <1>1, <1>2, <1>3, <1>4 DEF S!Console, ConsoleIn

(* The pages of the terminals are different ones.                          *)
LEMMA PagesShown ==
  ASSUME currentTerminal \in Terminals, previousTerminal \in Terminals
  PROVE  /\ Displayed \in Terminals
         /\ \A u \in Terminals : PageShown(u) \in Pages
         /\ \A u, t \in Terminals : PageShown(u) = PageShown(t) => u = t
         /\ kb # "switch" => /\ Displayed = currentTerminal
                             /\ \A u \in Terminals : PageShown(u) = TextPage(u)
<1>1. Displayed \in Terminals BY DEF Displayed
<1>2. VIDEO \in Pages /\ \A u \in Terminals : Backing(u) \in Pages \ {VIDEO}
  BY SizeAssumption DEF VIDEO, Pages, Backing, Terminals
<1>3. \A u, t \in Terminals : Backing(u) = Backing(t) => u = t BY DEF Backing, Terminals
<1>4. \A u, t \in Terminals : PageShown(u) = PageShown(t) => u = t BY <1>2, <1>3 DEF PageShown
<1> QED BY <1>1, <1>2, <1>4 DEF PageShown, Displayed, TextPage

(* A change on one terminal.                                               *)
LEMMA OneBecomes ==
  ASSUME NEW t, NEW s,
         \A u \in Terminals \ mixed' : ConsoleIn(Echoed', PageShown(u)', u) =
           IF u = t THEN s ELSE ConsoleIn(Echoed, PageShown(u), u)
  PROVE  S!Becomes(t, s)
<1>1. \A u \in Terminals : /\ S!Console(u) = ConsoleIn(Echoed, PageShown(u), u)
                           /\ S!Console(u)' = ConsoleIn(Echoed', PageShown(u)', u)
  BY ConsoleShown
<1>2. \A u \in Terminals \ mixed' : S!Console(u)' = IF u = t THEN s ELSE S!Console(u) BY <1>1
<1> QED BY <1>2, Zenon DEF S!Becomes

(* The same outside a switch.                                              *)
LEMMA OneTextBecomes ==
  ASSUME ScreenInv, kb # "switch", kb' # "switch", currentTerminal' = currentTerminal,
         NEW t \in Terminals, NEW s, ConsoleIn(Echoed', TextPage(t), t) = s,
         OthersKept(Echoed, Echoed', t)
  PROVE  S!Becomes(t, s)
<1>1. \A u \in Terminals : PageShown(u) = TextPage(u) /\ PageShown(u)' = TextPage(u)
  BY DEF PageShown, Displayed, TextPage
<1>2. \A u \in Terminals : ConsoleIn(Echoed', PageShown(u)', u) =
        IF u = t THEN s ELSE ConsoleIn(Echoed, PageShown(u), u)
  BY <1>1 DEF OthersKept
<1> QED BY <1>2, OneBecomes

(* No change on any terminal.                                              *)
LEMMA NoneBecomes ==
  ASSUME \A u \in Terminals : PageShown(u)' = PageShown(u) /\ PageShown(u) \in Pages,
         Displayed' = Displayed, mixed' = mixed,
         \A u \in Terminals, p \in Pages : ConsoleIn(Echoed', p, u) = ConsoleIn(Echoed, p, u)
  PROVE  UNCHANGED S!screenVars
<1>1. gridBar = [u \in Terminals |-> Echoed.page[PageShown(u)]]
  BY Zenon DEF gridBar
<1>2. gridBar' = [u \in Terminals |-> Echoed'.page[PageShown(u)]]
  BY Zenon DEF gridBar
<1>3. atBar = [u \in Terminals |-> Location(Echoed, u)] BY DEF atBar
<1>4. atBar' = [u \in Terminals |-> Location(Echoed', u)] BY DEF atBar, Location
<1>5. \A u \in Terminals : /\ Echoed'.page[PageShown(u)] = Echoed.page[PageShown(u)]
                           /\ Location(Echoed', u) = Location(Echoed, u)
  BY DEF ConsoleIn
<1>6. gridBar' = gridBar /\ atBar' = atBar BY <1>1, <1>2, <1>3, <1>4, <1>5
<1> QED BY <1>6 DEF S!screenVars

(* A program's output in the middle of an echo: what is still to be echoed *)
(* and the output do not meet, unless both go to the same terminal.        *)
LEMMA OutputInEcho ==
  ASSUME ScreenInv, kb \notin {"idle", "switch"}, UNCHANGED <<currentTerminal, handler>>,
         video' \in Videos, kb = "redraw" => OnScreen(video'),
         NEW t \in Terminals, t = currentTerminal => t \in mixed', NEW s,
         t # currentTerminal => ConsoleIn(video', TextPage(t), t) = s,
         t # currentTerminal => /\ video'.page[VIDEO] = video.page[VIDEO]
                                /\ video'.x[currentTerminal] = video.x[currentTerminal]
                                /\ video'.y[currentTerminal] = video.y[currentTerminal],
         OthersKept(video, video', t)
  PROVE  S!Becomes(t, s)
<1> DEFINE cur == currentTerminal
<1>1. /\ cur \in Terminals /\ previousTerminal \in Terminals /\ line \in Seq(Chars)
      /\ video \in Videos
  BY DEF ScreenInv, TypeOK, Videos, Glyphs
<1>2. kb = "redraw" => OnScreen(video) BY InvOnScreen DEF InEcho
<1>3. UNCHANGED <<cur, kb, key, line, previousTerminal>> BY DEF handler
<1>4. Echoed = EchoedFrom(video) /\ Echoed' = EchoedFrom(video') BY <1>3, EchoedNext DEF Echoed
<1>5. \A u \in Terminals : PageShown(u) = TextPage(u) /\ PageShown(u)' = TextPage(u)
  BY <1>3 DEF PageShown, Displayed, TextPage
<1>6. OthersKept(video, EchoedFrom(video), cur) /\ OthersKept(video', EchoedFrom(video'), cur)
  BY <1>1, <1>2, PendingOthers
<1>7. TextPage(cur) = VIDEO BY DEF TextPage
<1> SUFFICES ASSUME NEW u \in Terminals \ mixed'
             PROVE  ConsoleIn(Echoed', TextPage(u), u) =
                      IF u = t THEN s ELSE ConsoleIn(Echoed, TextPage(u), u)
  BY <1>5, OneBecomes
<1>8. CASE u # cur
  <2>1. /\ ConsoleIn(Echoed, TextPage(u), u) = ConsoleIn(video, TextPage(u), u)
        /\ ConsoleIn(Echoed', TextPage(u), u) = ConsoleIn(video', TextPage(u), u)
    BY <1>4, <1>6, <1>8 DEF OthersKept
  <2> QED BY <1>8, <2>1 DEF OthersKept
<1>9. CASE u = cur
  <2>1. t # cur BY <1>9
  <2>2. ConsoleIn(EchoedFrom(video'), VIDEO, cur) = ConsoleIn(EchoedFrom(video), VIDEO, cur)
    BY <1>1, <1>2, <2>1, PendingSame
  <2> QED BY <1>4, <1>7, <1>9, <2>1, <2>2
<1> QED BY <1>8, <1>9

(* What a program of another terminal sees of an echo: nothing.            *)
LEMMA ConsoleInEcho ==
  ASSUME ScreenInv, kb # "switch", NEW t \in Terminals, t # currentTerminal
  PROVE  S!Console(t) = ConsoleIn(video, TextPage(t), t)
<1>1. /\ currentTerminal \in Terminals /\ previousTerminal \in Terminals
      /\ line \in Seq(Chars) /\ video \in Videos
  BY DEF ScreenInv, TypeOK, Videos, Glyphs
<1>2. kb = "redraw" => OnScreen(video) BY InvOnScreen DEF InEcho
<1>3. OthersKept(video, EchoedFrom(video), currentTerminal) BY <1>1, <1>2, PendingOthers
<1>4. PageShown(t) = TextPage(t) BY DEF PageShown, Displayed, TextPage
<1> QED BY <1>3, <1>4, ConsoleShown DEF OthersKept, Echoed

(* A program prints: between keys, ...                                     *)
LEMMA PutcIsOutput ==
  ASSUME ScreenInv, NEW t \in Terminals, NEW c \in Chars \cup {NL}, Putc(t, c)
  PROVE  S!Output(t, c)
<1> DEFINE cur == currentTerminal
           s == S!Write(S!Console(t), c)
<1>1. /\ cur \in Terminals /\ previousTerminal \in Terminals /\ video \in Videos
  BY DEF ScreenInv, TypeOK, Videos, Glyphs
<1>2. c \in Glyphs \cup {NL} BY DEF Glyphs
<1>3. UNCHANGED <<cur, kb, key, line, previousTerminal>> /\ UNCHANGED handler
  BY DEF Putc, handler
<1>4. /\ video' \in Videos
      /\ video.y[t] < NUM_ROWS /\ video.x[t] < NUM_COLS =>
           \A p \in PagesOf(t) \cap Pages : ConsoleIn(video', p, t) = S!Write(ConsoleIn(video, p, t), c)
      /\ \A u \in Terminals \ {t}, p \in Pages \ PagesOf(t) :
           ConsoleIn(video', p, u) = ConsoleIn(video, p, u)
  BY <1>1, <1>2, PutcWrites DEF Putc
<1>5. Displayed' = Displayed /\ mixed' \in {mixed, mixed \cup {Displayed}}
  BY <1>3 DEF Putc, Displayed
<1>6. /\ TextPage(t) \in PagesOf(t) \cap Pages
      /\ \A u \in Terminals \ {t} : TextPage(u) \in Pages \ PagesOf(t)
  BY TextPages
<1>7. OthersKept(video, video', t) BY <1>4, <1>6 DEF OthersKept
<1>8. S!Becomes(t, s)
  <2>1. CASE kb = "idle"
    <3>1. Echoed = video /\ Echoed' = video' BY <1>3, <2>1, EchoedNext DEF Echoed, EchoedFrom
    <3>2. video.y[t] < NUM_ROWS /\ video.x[t] < NUM_COLS
      BY <2>1, InvOnScreen DEF InEcho, OnScreen, LocationsOn
    <3>3. PageShown(t) = TextPage(t) BY <2>1 DEF PageShown, Displayed, TextPage
    <3>4. S!Console(t) = ConsoleIn(video, TextPage(t), t) BY <3>1, <3>3, ConsoleShown
    <3>5. ConsoleIn(Echoed', TextPage(t), t) = s BY <1>4, <1>6, <3>1, <3>2, <3>4
    <3> HIDE DEF s
    <3> QED BY <1>3, <1>7, <2>1, <3>1, <3>5, OneTextBecomes
  <2>2. CASE kb \notin {"idle", "switch"}
    <3>1. t = cur => t \in mixed' BY <2>2 DEF Putc, Displayed
    <3>2. kb = "redraw" => OnScreen(video')
      <4> SUFFICES ASSUME kb = "redraw" PROVE OnScreen(video') OBVIOUS
      <4>1. ScreenInv' BY PutcKeepsInv
      <4>2. video' \in Videos /\ ~InEcho' BY <1>3, <1>4 DEF InEcho
      <4> QED
        BY <4>1, <4>2 DEF ScreenInv, RowsBelowLimit, RowLimit, ColumnsBelowLimit, ColumnLimit,
                          CursorOnScreen, InEcho, OnScreen, LocationsOn
    <3>3. ASSUME t # cur
          PROVE  /\ ConsoleIn(video', TextPage(t), t) = s
                 /\ video'.page[VIDEO] = video.page[VIDEO]
                 /\ video'.x[cur] = video.x[cur] /\ video'.y[cur] = video.y[cur]
      <4>1. video.y[t] < NUM_ROWS /\ video.x[t] < NUM_COLS
        BY <3>3 DEF ScreenInv, RowsBelowLimit, RowLimit, ColumnsBelowLimit, ColumnLimit
      <4>2. ConsoleIn(video', TextPage(t), t) = s
        BY <1>4, <1>6, <2>2, <3>3, <4>1, ConsoleInEcho
      <4>3. VIDEO \in Pages \ PagesOf(t) BY <1>1, <1>6, <3>3 DEF TextPage
      <4>4. video'.page[VIDEO] = video.page[VIDEO] BY <1>1, <1>4, <3>3, <4>3 DEF ConsoleIn
      <4>5. video'.x[cur] = video.x[cur] /\ video'.y[cur] = video.y[cur]
        <5> DEFINE w == Scroll(Advance(StoreChar(video, PagesOf(t), t, c), t, c), t)
        <5>1. video' = w BY <3>3 DEF Putc, putc
        <5>2. \A u \in Terminals \ {t} : w.y[u] = video.y[u] /\ w.x[u] = video.x[u]
          BY <1>1, <1>2, CharKeepsRows
        <5> HIDE DEF w
        <5> QED BY <1>1, <3>3, <5>1, <5>2
      <4> QED BY <4>2, <4>4, <4>5
    <3> HIDE DEF s
    <3> QED BY <1>3, <1>4, <1>7, <2>2, <3>1, <3>2, <3>3, OutputInEcho
  <2>3. CASE kb = "switch"
    <3>1. Echoed = video /\ Echoed' = video' BY <1>3, <2>3, EchoedNext DEF Echoed, EchoedFrom
    <3>2. \A u \in Terminals : PageShown(u)' = PageShown(u) BY <1>3 DEF PageShown, Displayed
    <3>3. Displayed = previousTerminal /\ previousTerminal # cur
      BY <2>3 DEF Displayed, ScreenInv, SwitchIsReal
    <3>4. t \in {cur, previousTerminal} => previousTerminal \in mixed'
      BY <2>3, <3>3 DEF Putc
    <3>5. /\ VIDEO \in Pages /\ \A u \in Terminals : Backing(u) \in Pages \ {VIDEO}
          /\ \A u \in Terminals : Backing(u) = Backing(t) => u = t
      BY SizeAssumption DEF VIDEO, Pages, Backing, Terminals
    <3>6. video.y[t] < NUM_ROWS /\ video.x[t] < NUM_COLS
      BY <2>3, InvOnScreen DEF InEcho, OnScreen, LocationsOn
    <3> SUFFICES ASSUME NEW u \in Terminals \ mixed'
                 PROVE  ConsoleIn(video', PageShown(u), u) =
                          IF u = t THEN s ELSE ConsoleIn(video, PageShown(u), u)
      BY <3>1, <3>2, OneBecomes
    <3>7. CASE u = t
      <4>1. PageShown(t) = Backing(t) /\ Backing(t) \in PagesOf(t) \cap Pages
        BY <3>3, <3>4, <3>5, <3>7 DEF PageShown, PagesOf
      <4>2. S!Console(t) = ConsoleIn(video, Backing(t), t) BY <3>1, <4>1, ConsoleShown
      <4> QED BY <1>4, <3>6, <3>7, <4>1, <4>2
    <3>8. CASE u # t
      <4>1. PageShown(u) \in Pages \ PagesOf(t)
        BY <3>3, <3>4, <3>5, <3>8 DEF PageShown, PagesOf
      <4> QED BY <1>4, <3>8, <4>1
    <3> QED BY <3>7, <3>8
  <2> QED BY <2>1, <2>2, <2>3
<1> QED BY <1>5, <1>8 DEF S!Output, S!MaySpoil

(* A program stores through its mapping.                                   *)
LEMMA StoreVidmapIsDraw ==
  ASSUME ScreenInv, VidmapOwnScreen, NEW t \in Terminals, NEW i \in Cells, NEW c \in Chars,
         StoreVidmap(t, i, c)
  PROVE  S!Draw(t)
<1> DEFINE cur == currentTerminal
           p == PageShown(t)
           s == [S!Console(t) EXCEPT !.text = [@ EXCEPT ![i] = c]]
<1>1. /\ cur \in Terminals /\ previousTerminal \in Terminals /\ video \in Videos
  BY DEF ScreenInv, TypeOK, Videos, Glyphs
<1>2. UNCHANGED <<cur, kb, key, line, previousTerminal>> /\ UNCHANGED handler
  BY DEF StoreVidmap, handler
<1>3. /\ \A u \in Terminals : PageShown(u) \in Pages /\ PageShown(u)' = PageShown(u)
      /\ \A u \in Terminals : PageShown(u) = PageShown(t) => u = t
  BY <1>1, <1>2, PagesShown DEF PageShown, Displayed
<1>4. video' = [video EXCEPT !.page = [video.page EXCEPT ![p] = [video.page[p] EXCEPT ![i] = c]]]
  BY DEF StoreVidmap, VidmapOwnScreen
<1>5. /\ video'.x = video.x /\ video'.y = video.y /\ video'.cursor = video.cursor
      /\ video'.page[p] = [video.page[p] EXCEPT ![i] = c]
      /\ \A q \in Pages \ {p} : video'.page[q] = video.page[q]
  BY <1>1, <1>3, <1>4 DEF Videos
<1>6. /\ ConsoleIn(video', p, t) =
           [ConsoleIn(video, p, t) EXCEPT !.text = [@ EXCEPT ![i] = c]]
      /\ \A u \in Terminals, q \in Pages \ {p} : ConsoleIn(video', q, u) = ConsoleIn(video, q, u)
  BY <1>5 DEF ConsoleIn, Location
<1>7. S!Becomes(t, s)
  <2>1. CASE kb \in {"idle", "switch"}
    <3>1. Echoed = video /\ Echoed' = video' BY <1>2, <2>1, EchoedNext DEF Echoed, EchoedFrom
    <3>2. S!Console(t) = ConsoleIn(video, p, t) BY <3>1, ConsoleShown
    <3>3. ConsoleIn(video', p, t) = s BY <1>6, <3>2
    <3> HIDE DEF s
    <3>4. \A u \in Terminals : ConsoleIn(Echoed', PageShown(u)', u) =
            IF u = t THEN s ELSE ConsoleIn(Echoed, PageShown(u), u)
      BY <1>3, <1>6, <3>1, <3>3
    <3> QED BY <3>4, OneBecomes
  <2>2. CASE kb \notin {"idle", "switch"}
    <3>1. \A u \in Terminals : PageShown(u) = TextPage(u)
      BY <2>2 DEF PageShown, Displayed, TextPage
    <3>2. t = cur => t \in mixed' BY <2>2 DEF StoreVidmap
    <3>3. video' \in Videos /\ (kb = "redraw" => OnScreen(video'))
      <4>1. ScreenInv' BY StoreVidmapKeepsInv
      <4> DEFINE grids == [video.page EXCEPT ![p] = [video.page[p] EXCEPT ![i] = c]]
      <4>2. video' \in Videos
        <5>1. grids \in [Pages -> [Cells -> Glyphs]] BY <1>1 DEF Videos, Glyphs
        <5> HIDE DEF grids, p, s
        <5> QED BY <1>1, <1>4, <5>1 DEF Videos, grids
      <4>3. kb = "redraw" => ~InEcho' BY <1>2 DEF InEcho
      <4> QED
        BY <4>1, <4>2, <4>3
        DEF ScreenInv, RowsBelowLimit, RowLimit, ColumnsBelowLimit, ColumnLimit,
            CursorOnScreen, InEcho, OnScreen, LocationsOn
    <3>4. ASSUME t # cur
          PROVE  /\ ConsoleIn(video', TextPage(t), t) = s
                 /\ video'.page[VIDEO] = video.page[VIDEO]
                 /\ video'.x[cur] = video.x[cur] /\ video'.y[cur] = video.y[cur]
      <4>1. S!Console(t) = ConsoleIn(video, TextPage(t), t) BY <2>2, <3>4, ConsoleInEcho
      <4>2. PageShown(cur) = VIDEO BY <1>1, <3>1 DEF TextPage
      <4>3. VIDEO \in Pages \ {p} BY <1>1, <1>3, <3>4, <4>2
      <4> QED BY <1>5, <1>6, <3>1, <4>1, <4>3
    <3>5. OthersKept(video, video', t) BY <1>3, <1>6, <3>1 DEF OthersKept
    <3> HIDE DEF s
    <3> QED BY <1>2, <2>2, <3>2, <3>3, <3>4, <3>5, OutputInEcho
  <2> QED BY <2>1, <2>2
<1>8. Displayed' = Displayed /\ mixed' \in {mixed, mixed \cup {Displayed}}
  BY <1>2 DEF StoreVidmap, Displayed
<1>9. i \in 0..S!End BY DEF Cells, S!End
<1> QED BY <1>7, <1>8, <1>9 DEF S!Draw, S!MaySpoil

(* A key is echoed: all of it shows when its character is stored, ...      *)
LEMMA KeyCharIsOutput ==
  ASSUME ScreenInv, NEW c \in Chars \cup {NL}, KeyChar(c)
  PROVE  S!Output(currentTerminal, c)
<1> USE DEF KeyChar
<1> DEFINE t == currentTerminal
           w == Scroll(Advance(StoreChar(video, {VIDEO}, t, c), t, c), t)
<1>1. OnScreen(video) /\ t \in Terminals BY InvOnScreen DEF ScreenInv, TypeOK, InEcho
<1>2. Echoed = video BY DEF Echoed, EchoedFrom
<1>3. Echoed' = w
  BY DEF Echoed, EchoedFrom, Scroll, AtBottom, Advance, MoveOn, Wrap, GoDown, text_shift_up, PagesOf
<1>4. /\ c \in Glyphs \cup {NL} /\ video \in Videos
      /\ video.y[t] < NUM_ROWS /\ video.x[t] < NUM_COLS
  BY <1>1 DEF Glyphs, OnScreen, LocationsOn
<1>5. TextPage(t) = VIDEO /\ {VIDEO} \in SUBSET PagesOf(t) /\ VIDEO \in {VIDEO} \cap Pages
  BY <1>1, TextPages DEF TextPage, PagesOf
<1>6. ConsoleIn(w, VIDEO, t) = S!Write(ConsoleIn(video, VIDEO, t), c)
  BY <1>1, <1>4, <1>5, CharWritten
<1>7. \A u \in Terminals \ {t}, p \in Pages \ PagesOf(t) : ConsoleIn(w, p, u) = ConsoleIn(video, p, u)
  BY <1>1, <1>4, <1>5, CharOthers
<1> HIDE DEF w
<1>8. \A u \in Terminals \ {t} : TextPage(u) \in Pages \ PagesOf(t) BY <1>1, TextPages
<1>9. OthersKept(video, w, t) BY <1>7, <1>8 DEF OthersKept
<1>10. PageShown(t) = VIDEO BY DEF PageShown, Displayed
<1>11. S!Console(t) = ConsoleIn(video, VIDEO, t) BY <1>1, <1>2, <1>10, ConsoleShown
<1>12. S!Becomes(t, S!Write(S!Console(t), c))
  BY <1>1, <1>2, <1>3, <1>5, <1>6, <1>9, <1>11, OneTextBecomes
<1>13. Displayed' = Displayed BY DEF Displayed
<1> QED BY <1>12, <1>13 DEF S!Output, S!MaySpoil

(* The pages that are shown do not change outside a switch.                *)
LEMMA SamePagesShown ==
  ASSUME TypeOK, kb # "switch", kb' # "switch", currentTerminal' = currentTerminal
  PROVE  /\ Displayed' = Displayed
         /\ \A u \in Terminals : PageShown(u)' = PageShown(u) /\ PageShown(u) \in Pages
<1>1. \A u \in Terminals : PageShown(u) = TextPage(u) /\ PageShown(u)' = TextPage(u)
  BY DEF PageShown, Displayed, TextPage
<1>2. Displayed' = Displayed BY DEF Displayed
<1> QED BY <1>1, <1>2, TextPages

(* ... so that the rest of the echo shows nothing new.                     *)
LEMMA EchoStutters ==
  ASSUME ScreenInv, EchoMoveOn \/ EchoWrap \/ EchoGoDown
  PROVE  UNCHANGED S!screenVars
<1>1. CASE EchoMoveOn
  <2>1. Echoed' = Echoed
    BY <1>1
    DEF EchoMoveOn, Echoed, EchoedFrom, Advance, Wrap, GoDown, Scroll, AtBottom, text_shift_up, PagesOf
  <2> QED BY <1>1, <2>1, SamePagesShown, NoneBecomes DEF EchoMoveOn, ScreenInv
<1>2. CASE EchoWrap
  <2> DEFINE w == Wrap(video, currentTerminal, key)
  <2>1. Echoed = Scroll(GoDown(w, currentTerminal, key), currentTerminal)
    BY <1>2 DEF EchoWrap, Echoed, EchoedFrom
  <2>2. video' = w /\ UNCHANGED <<currentTerminal, key>> BY <1>2 DEF EchoWrap
  <2> HIDE DEF w
  <2>3. Echoed' = Echoed
    <3>1. CASE key = NL
      <4>1. kb' = "scroll" /\ GoDown(w, currentTerminal, key) = w
        BY <1>2, <3>1 DEF EchoWrap, GoDown
      <4> QED
        BY <2>1, <2>2, <4>1
        DEF Echoed, EchoedFrom, Scroll, AtBottom, text_shift_up, PagesOf
    <3>2. CASE key # NL
      <4>1. kb' = "row" BY <1>2, <3>2 DEF EchoWrap
      <4> QED
        BY <2>1, <2>2, <4>1
        DEF Echoed, EchoedFrom, GoDown, Scroll, AtBottom, text_shift_up, PagesOf
    <3> QED BY <3>1, <3>2
  <2> QED BY <1>2, <2>3, SamePagesShown, NoneBecomes DEF EchoWrap, ScreenInv
<1>3. CASE EchoGoDown
  <2>1. Echoed' = Echoed
    BY <1>3 DEF EchoGoDown, Echoed, EchoedFrom, Scroll, AtBottom, text_shift_up, PagesOf
  <2> QED BY <1>3, <2>1, SamePagesShown, NoneBecomes DEF EchoGoDown, ScreenInv
<1> QED BY <1>1, <1>2, <1>3

(* So does the scroll that ends it.                                        *)
LEMMA EchoScrollStutters ==
  ASSUME ScreenInv, EchoScroll
  PROVE  UNCHANGED S!screenVars
<1> DEFINE t == currentTerminal
           w == Scroll(video, t)
<1>1. Echoed = w BY DEF EchoScroll, Echoed, EchoedFrom
<1>2. Echoed' = set_cursor(w, t) BY DEF EchoScroll, Echoed, EchoedFrom
<1>3. w \in Videos
  <2>1. video \in Videos /\ t \in Terminals BY DEF ScreenInv, TypeOK, Videos, Glyphs
  <2> QED BY <2>1, ScrollRaises
<1> HIDE DEF w
<1>4. \A u, p : ConsoleIn(Echoed', p, u) = ConsoleIn(Echoed, p, u)
  BY <1>1, <1>2, <1>3, SetCursorConsole
<1> QED BY <1>4, SamePagesShown, NoneBecomes DEF EchoScroll, ScreenInv

(* A character is erased.                                                  *)
LEMMA BackspaceIsErase ==
  ASSUME ScreenInv, KeyBackspace
  PROVE  S!EraseLast
<1> USE DEF KeyBackspace, handler
<1> DEFINE t == currentTerminal
           i == Before(Location(video, t))
           s == [text |-> [video.page[VIDEO] EXCEPT ![i] = Space], next |-> i]
<1>1. OnScreen(video) /\ t \in Terminals BY InvOnScreen DEF ScreenInv, TypeOK, InEcho
<1>2. Echoed = video /\ Echoed' = video' /\ video' = erase_char(video)
  BY EchoedNext DEF Echoed, EchoedFrom
<1>3. TextPage(t) = VIDEO /\ Displayed = t /\ Displayed' = t /\ PageShown(t) = VIDEO
  BY DEF TextPage, Displayed, PageShown
<1>4. ConsoleIn(video', TextPage(t), t) = s /\ OthersKept(video, video', t)
  BY <1>1, <1>2, <1>3, EraseCharErases
<1>5. atBar[t] = Location(video, t) /\ gridBar[t] = video.page[VIDEO]
  BY <1>1, <1>2, <1>3 DEF atBar, gridBar
<1> HIDE DEF s
<1>6. S!Becomes(t, s) BY <1>1, <1>2, <1>4, OneTextBecomes
<1> QED BY <1>3, <1>5, <1>6 DEF S!EraseLast, Before, s

(* The screen is cleared: the line counts as echoed at once, ...           *)
LEMMA ClearIsClear ==
  ASSUME ScreenInv, KeyClear
  PROVE  \E chars \in UNION {[1..n -> Chars] : n \in 0..(BUF_SIZE - 1)} : S!ClearAll(chars)
<1> USE DEF KeyClear
<1> DEFINE t == currentTerminal
<1>1. OnScreen(video) /\ t \in Terminals /\ buf_loc[t] \in 0..(BUF_SIZE - 1)
  BY InvOnScreen DEF ScreenInv, TypeOK, InEcho
<1>2. PICK chars \in [1..buf_loc[t] -> Chars] : StillToEcho(chars) OBVIOUS
<1>3. buf_loc[t] \in Nat /\ chars \in Seq(Chars) BY <1>1, <1>2, BufSizeAssumption
<1>4. Echoed = video /\ video' = clear(video) BY DEF Echoed, EchoedFrom
<1>5. Echoed' = Redrawn(video', chars)
  <2>1. CASE chars = <<>>
    <3>1. Echoed' = video' BY <1>2, <2>1 DEF Echoed, EchoedFrom, StillToEcho
    <3> QED BY <2>1, <3>1, RedrawnNothing
  <2>2. CASE chars # <<>>
    <3>1. kb' = "redraw" /\ line' = chars BY <1>2, <2>2 DEF StillToEcho
    <3>2. Echoed' = RedrawnAt(currentTerminal', video', line')
      BY <3>1, Zenon
      DEF Echoed, EchoedFrom, Redrawn, RedrawnAt, KBputc, Scroll, text_shift_up, PagesOf
    <3>3. Echoed' = RedrawnAt(currentTerminal, video', chars) BY <3>1, <3>2
    <3> QED BY <3>3, RedrawnSame
  <2> QED BY <2>1, <2>2
<1>6. OnScreen(video') BY <1>1, <1>4, ClearOnScreen
<1>7. /\ ConsoleIn(Echoed', VIDEO, t) = S!Written(ConsoleIn(video', VIDEO, t), chars)
      /\ OthersKept(video', Echoed', t)
  BY <1>1, <1>3, <1>5, <1>6, RedrawnWrites
<1>8. /\ ConsoleIn(video', VIDEO, t) = [text |-> S!Empty, next |-> 0]
      /\ OthersKept(video, video', t)
  BY <1>1, <1>4, ClearEmpties
<1>9. /\ ConsoleIn(Echoed', VIDEO, t) = S!Written([text |-> S!Empty, next |-> 0], chars)
      /\ OthersKept(Echoed, Echoed', t)
  BY <1>4, <1>7, <1>8 DEF OthersKept
<1>10. kb # "switch" /\ kb' # "switch" /\ TextPage(t) = VIDEO /\ Displayed = t /\ Displayed' = t
  BY <1>2 DEF StillToEcho, TextPage, Displayed
<1>11. S!Becomes(t, S!Written([text |-> S!Empty, next |-> 0], chars))
  BY <1>1, <1>9, <1>10, OneTextBecomes
<1>12. S!ClearAll(chars) BY <1>10, <1>11 DEF S!ClearAll
<1> QED BY <1>1, <1>12

(* ... and echoing it shows nothing new.                                   *)
LEMMA EchoAgainStutters ==
  ASSUME ScreenInv, EchoAgain
  PROVE  UNCHANGED S!screenVars
<1> USE DEF EchoAgain
<1>1. line \in Seq(Chars) /\ line # <<>> BY DEF ScreenInv, TypeOK, LineToEcho
<1>2. Echoed = Redrawn(video, line) BY DEF Echoed, EchoedFrom
<1>3. Redrawn(video, line) = Redrawn(video', Tail(line)) BY <1>1, RedrawnFirst
<1>4. Echoed' = Redrawn(video', Tail(line))
  <2>1. CASE Tail(line) = <<>>
    <3>1. Echoed' = video' BY <2>1 DEF Echoed, EchoedFrom, StillToEcho
    <3> QED BY <2>1, <3>1, RedrawnNothing
  <2>2. CASE Tail(line) # <<>>
    <3>1. kb' = "redraw" /\ line' = Tail(line) BY <2>2 DEF StillToEcho
    <3>2. Echoed' = RedrawnAt(currentTerminal', video', line')
      BY <3>1, Zenon
      DEF Echoed, EchoedFrom, Redrawn, RedrawnAt, KBputc, Scroll, text_shift_up, PagesOf
    <3>3. Echoed' = RedrawnAt(currentTerminal, video', Tail(line)) BY <3>1, <3>2
    <3> QED BY <3>3, RedrawnSame
  <2> QED BY <2>1, <2>2
<1>5. kb # "switch" /\ kb' # "switch" BY DEF StillToEcho
<1> QED BY <1>2, <1>3, <1>4, <1>5, SamePagesShown, NoneBecomes DEF ScreenInv

(* Another terminal becomes the current one, which shows when the pages    *)
(* follow.                                                                 *)
LEMMA KeySwitchStutters ==
  ASSUME ScreenInv, NEW n \in Terminals, KeySwitch(n)
  PROVE  UNCHANGED S!screenVars
<1> USE DEF KeySwitch
<1>1. Echoed = video /\ Echoed' = video BY DEF Echoed, EchoedFrom
<1>2. Displayed' = Displayed /\ \A u \in Terminals : PageShown(u)' = PageShown(u)
  BY DEF Displayed, PageShown
<1>3. \A u \in Terminals : PageShown(u) \in Pages BY PagesShown DEF ScreenInv, TypeOK
<1> QED BY <1>1, <1>2, <1>3, NoneBecomes

(* The pages follow, and the other terminal is shown.                      *)
LEMMA switchTerminalIsShow ==
  ASSUME ScreenInv, switchTerminal
  PROVE  S!Show(currentTerminal)
<1> USE DEF switchTerminal
<1> DEFINE new == currentTerminal
           old == previousTerminal
<1>1. video \in Videos /\ new \in Terminals /\ old \in Terminals /\ old # new
  BY InvOnScreen DEF OnScreen, ScreenInv, TypeOK, SwitchIsReal, InEcho
<1>2. Echoed = video /\ Echoed' = video' BY DEF Echoed, EchoedFrom
<1>3. Displayed = old /\ Displayed' = new BY DEF Displayed
<1>4. video'.page = CopiedPages /\ video'.x = video.x /\ video'.y = video.y
  BY <1>1 DEF set_cursor, Videos
<1>5. VIDEO \in Pages /\ \A u \in Terminals : Backing(u) \in Pages \ {VIDEO}
  BY SizeAssumption DEF VIDEO, Pages, Backing, Terminals
<1>6. \A u \in Terminals : Backing(u) = Backing(old) => u = old
  BY <1>1 DEF Backing, Terminals
<1>7. \A u \in Terminals : /\ PageShown(u) = IF u = old THEN VIDEO ELSE Backing(u)
                           /\ PageShown(u)' = IF u = new THEN VIDEO ELSE Backing(u)
  BY <1>3 DEF PageShown, Backing, VIDEO
<1>8. \A u \in Terminals : video'.page[IF u = new THEN VIDEO ELSE Backing(u)]
                           = video.page[IF u = old THEN VIDEO ELSE Backing(u)]
  BY <1>1, <1>4, <1>5, <1>6 DEF CopiedPages, Videos
<1>9. \A u \in Terminals : ConsoleIn(Echoed', PageShown(u)', u) = ConsoleIn(Echoed, PageShown(u), u)
  BY <1>2, <1>4, <1>7, <1>8 DEF ConsoleIn, Location
<1>10. S!Console(new) = ConsoleIn(Echoed, PageShown(new), new) BY <1>1, ConsoleShown
<1>11. S!Becomes(new, S!Console(new)) BY <1>9, <1>10, OneBecomes
<1> QED BY <1>3, <1>11 DEF S!Show

(* Every step is one of Screens.                                           *)
LEMMA ScreensStep ==
  ASSUME ScreenInv, VidmapOwnScreen, [Next]_vars
  PROVE  [S!ScreensNext]_(S!screenVars)
<1> USE DEF S!ScreensNext
<1>1. ASSUME NEW t \in Terminals, NEW c \in Chars \cup {NL}, Putc(t, c)
      PROVE  S!ScreensNext
  BY <1>1, PutcIsOutput
<1>2. ASSUME NEW t \in Terminals, NEW i \in Cells, NEW c \in Chars, StoreVidmap(t, i, c)
      PROVE  S!ScreensNext
  BY <1>2, StoreVidmapIsDraw
<1>3. ASSUME NEW c \in Chars \cup {NL}, KeyChar(c) PROVE S!ScreensNext
  BY <1>3, KeyCharIsOutput DEF ScreenInv, TypeOK
<1>4. CASE EchoMoveOn \/ EchoWrap \/ EchoGoDown BY <1>4, EchoStutters
<1>5. CASE EchoScroll BY <1>5, EchoScrollStutters
<1>6. CASE KeyBackspace BY <1>6, BackspaceIsErase
<1>7. CASE KeyClear BY <1>7, ClearIsClear
<1>8. CASE EchoAgain BY <1>8, EchoAgainStutters
<1>9. ASSUME NEW n \in Terminals, KeySwitch(n) PROVE UNCHANGED S!screenVars
  BY <1>9, KeySwitchStutters
<1>10. CASE switchTerminal BY <1>10, switchTerminalIsShow DEF ScreenInv, TypeOK
<1>11. CASE UNCHANGED vars
  <2>1. Echoed' = Echoed BY <1>11, EchoedNext DEF vars, handler, Echoed
  <2>2. \A u \in Terminals : PageShown(u)' = PageShown(u) /\ PageShown(u) \in Pages
    <3>1. \A u \in Terminals : PageShown(u)' = PageShown(u)
      BY <1>11 DEF vars, handler, PageShown, Displayed
    <3>2. \A u \in Terminals : PageShown(u) \in Pages BY PagesShown DEF ScreenInv, TypeOK
    <3> QED BY <3>1, <3>2
  <2> QED BY <1>11, <2>1, <2>2, NoneBecomes DEF vars, handler, Displayed
<1> QED
  <2> HIDE DEF S!ScreensNext
  <2> QED BY <1>1, <1>2, <1>3, <1>4, <1>5, <1>6, <1>7, <1>8, <1>9, <1>10, <1>11 DEF Next

(* The terminals start as those of Screens do.                             *)
LEMMA ScreensStart == Init => S!ScreensInit
<1> SUFFICES ASSUME Init PROVE S!ScreensInit OBVIOUS
<1>1. ScreenInv BY ScreenInit
<1>2. Echoed = video /\ Displayed = 0 BY DEF Init, Echoed, EchoedFrom, Displayed
<1>3. Displayed \in Terminals BY <1>2, SizeAssumption DEF Terminals
<1>4. \A u \in Terminals : PageShown(u) \in Pages
  BY SizeAssumption DEF PageShown, Pages, VIDEO, Backing, Terminals
<1>5. gridBar \in [Terminals -> [0..S!End -> Chars \cup {Space}]]
  BY <1>1, <1>2, <1>4 DEF gridBar, ScreenInv, TypeOK, Cells, S!End
<1>6. atBar = [t \in Terminals |-> 0]
  BY <1>2, SizeAssumption DEF atBar, Location, Init
<1>7. mixed = {} BY DEF Init
<1> QED BY <1>3, <1>5, <1>6, <1>7 DEF S!ScreensInit

(* What programs print and draw and users type appears on their own        *)
(* terminal, in order, and nowhere else, through any switches of the       *)
(* display, any scrolling and a tick at any statement of KBhandler, on a   *)
(* screen of any size; all that output in the middle of a key's handling   *)
(* can spoil is the displayed terminal's screen, and only until it is      *)
(* cleared.                                                                *)
THEOREM ScreenImplementsScreens == SafetySpec => ImplementsScreens
<1>1. ScreenInv /\ VidmapOwnScreen /\ [Next]_vars => [S!ScreensNext]_(S!screenVars)
  BY ScreensStep
<1> QED
  BY <1>1, ScreensStart, ScreenInvariant, VidmapShowsOwnScreen, PTL
  DEF SafetySpec, ImplementsScreens, S!ScreensSpec
=============================================================================
