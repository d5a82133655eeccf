------------------------------- MODULE Screen -------------------------------
(***************************************************************************)
(* The screens of the terminals: one displayed page of video memory, a     *)
(* page behind it for every terminal, the put locations, the VGA cursor    *)
(* and the pages programs map with vidmap.                                 *)
(*                                                                         *)
(* A program's output (putc, called by terminalWrite) runs with interrupts *)
(* disabled.  KBhandler runs with them enabled: a tick may preempt it at   *)
(* every one of its statements for programs that print or draw, and the    *)
(* history variable mixed keeps the terminals whose screen this has        *)
(* spoilt.  An erasure, the clearing of a screen and each character echoed *)
(* again after it are one step.  Attribute bytes are left out: all are     *)
(* ATTRIB.  Of the keyboard buffers of module Terminal only the lengths    *)
(* are kept, and a line that is ended counts as taken at once.             *)
(***************************************************************************)
EXTENDS Integers, Sequences

CONSTANTS
  NUM_TERMINALS,       \* terminals (lib.h:13)
  NUM_ROWS, NUM_COLS,  \* size of the screen (lib.c:6-7)
  Chars,               \* characters, blank and newline aside
  Space, NL,           \* ' ' and '\n'
  BUF_SIZE             \* characters of a keyboard buffer (terminal.h:13)

ASSUME SizeAssumption ==
  /\ NUM_TERMINALS \in Nat \ {0} /\ NUM_ROWS \in Nat \ {0} /\ NUM_COLS \in Nat \ {0}
ASSUME CharsAssumption == Space \notin Chars /\ NL \notin Chars \cup {Space}
ASSUME BufSizeAssumption == BUF_SIZE \in Nat \ {0}

Terminals == 0..(NUM_TERMINALS - 1)
Cells     == 0..(NUM_ROWS * NUM_COLS - 1)
VIDEO     == 0                  \* the displayed page
Backing(t) == t + 1             \* VIDEO + (t + 1) * FOUR_KB
Pages     == VIDEO..NUM_TERMINALS

(* KBhandler in the echo of a key, in that of a line after a clear, and    *)
(* between the change of currentTerminal and switchTerminal.               *)
EchoPoints == {"advance", "wrap", "row", "scroll"}
KBpoints   == EchoPoints \cup {"redraw", "switch"}

VARIABLES
  currentTerminal,
  video,            \* [page, x, y, cursor]: video memory, screen_x, screen_y, VGA cursor
  user_page_table,  \* the page that terminal t's programs see through vidmap
  buf_loc,          \* characters in the terminals' keyboard buffers
  kb,               \* KBhandler: the statement to execute next, "idle" outside it
  key,              \* local c of KBhandler
  line,             \* characters of the buffer still to be echoed after a clear
  previousTerminal, \* local of KBhandler
  mixed             \* history: the terminals whose screen output has spoilt

handler == <<kb, key, line, previousTerminal>>
vars == <<currentTerminal, video, user_page_table, buf_loc, handler, mixed>>

(* After init_paging, entry's clear() and terminalOpen; what the pages     *)
(* behind the display hold at boot is not known.                           *)
Init ==
  /\ currentTerminal = 0
  /\ \E behind \in [Terminals -> [Cells -> Chars \cup {Space}]] :
       video = [page |-> [p \in Pages |-> IF p = VIDEO THEN [i \in Cells |-> Space]
                                          ELSE behind[p - 1]],
                x |-> [t \in Terminals |-> 0], y |-> [t \in Terminals |-> 0],
                cursor |-> 0]
  /\ user_page_table = [t \in Terminals |-> IF t = 0 THEN VIDEO ELSE Backing(t)]
  /\ buf_loc = [t \in Terminals |-> 0]
  /\ kb = "idle" /\ key = Space /\ line = <<>> /\ previousTerminal = 0
  /\ mixed = {}

----------------------------------------------------------------------------
(* lib.c: each operator takes video and gives what it becomes.             *)
Location(v, t) == NUM_COLS * v.y[t] + v.x[t]

set_cursor(v, t) == [v EXCEPT !.cursor = Location(v, t)]

Shifted(page) == [i \in Cells |->
  IF i + NUM_COLS \in Cells THEN page[i + NUM_COLS] ELSE Space]

(* The pages that show terminal t: its own, and the display if it is shown.*)
PagesOf(t) == {Backing(t)} \cup (IF t = currentTerminal THEN {VIDEO} ELSE {})

text_shift_up(v, t) ==
  [v EXCEPT !.page = [p \in Pages |-> IF p \in PagesOf(t) THEN Shifted(@[p]) ELSE @[p]]]

(* The parts of putc and KBputc: store, move on, wrap, go down, scroll.  A *)
(* store below the last row is not on the screen.                          *)
StoreChar(v, pages, t, c) ==
  IF c = NL THEN v
  ELSE [v EXCEPT !.page = [p \in Pages |->
          IF p \in pages THEN [@[p] EXCEPT ![Location(v, t)] = c] ELSE @[p]]]

MoveOn(v, t, c) == IF c = NL THEN [v EXCEPT !.y[t] = @ + 1] ELSE [v EXCEPT !.x[t] = @ + 1]
Wrap(v, t, c) == [v EXCEPT !.x[t] = IF c = NL THEN 0 ELSE @ % NUM_COLS]
GoDown(v, t, c) == IF c # NL /\ v.x[t] = 0 THEN [v EXCEPT !.y[t] = @ + 1] ELSE v

Advance(v, t, c) == GoDown(Wrap(MoveOn(v, t, c), t, c), t, c)

AtBottomLate(v, t) == v.y[t] > NUM_ROWS
AtBottom(v, t) == v.y[t] >= NUM_ROWS

Scroll(v, t) == IF AtBottom(v, t) THEN [text_shift_up(v, t) EXCEPT !.y[t] = @ - 1] ELSE v

putc(v, t, c) ==
  LET w == Scroll(Advance(StoreChar(v, PagesOf(t), t, c), t, c), t)
  IN IF t = currentTerminal THEN set_cursor(w, t) ELSE w

KBputc(v, c) ==
  LET t == currentTerminal
  IN set_cursor(Scroll(Advance(StoreChar(v, {VIDEO}, t, c), t, c), t), t)

back_char(v) ==
  LET t == currentTerminal IN
  IF v.x[t] = 0
  THEN IF v.y[t] = 0 THEN v
       ELSE [v EXCEPT !.y[t] = @ - 1, !.x[t] = NUM_COLS - 1]
  ELSE LET w == [v EXCEPT !.x[t] = @ - 1] IN set_cursor(w, t)

erase_char(v) == back_char(KBputc(back_char(v), Space))

clear(v) ==
  LET t == currentTerminal
      w == [v EXCEPT !.x[t] = 0, !.y[t] = 0, !.page[VIDEO] = [i \in Cells |-> Space]]
  IN set_cursor(w, t)

----------------------------------------------------------------------------
(* The terminal whose text is in the displayed page.                       *)
Displayed == IF kb = "switch" THEN previousTerminal ELSE currentTerminal

(* A program prints, at any point of KBhandler.  Its output gets in the    *)
(* way of an echo on the same terminal.  Between the change of             *)
(* currentTerminal and switchTerminal, that of the new terminal is stored  *)
(* over the old one's text, and that of the old one in the page that is    *)
(* about to be overwritten.                                                *)
Putc(t, c) ==
  /\ video' = putc(video, t, c)
  /\ mixed' = IF kb # "idle" /\ t \in {currentTerminal, Displayed}
              THEN mixed \cup {Displayed} ELSE mixed
  /\ UNCHANGED <<currentTerminal, user_page_table, buf_loc, handler>>

(* A store through the address that sys_vidmap gives; an echo that goes on *)
(* may scroll it or write over it.                                         *)
PageOfVidmap(t) == user_page_table[t]

StoreVidmap(t, i, c) ==
  /\ video' = [video EXCEPT !.page[PageOfVidmap(t)][i] = c]
  /\ mixed' = IF kb \notin {"idle", "switch"} /\ t = currentTerminal
              THEN mixed \cup {t} ELSE mixed
  /\ UNCHANGED <<currentTerminal, user_page_table, buf_loc, handler>>

----------------------------------------------------------------------------
(* KBhandler echoes a character, statement by statement, ...               *)
KeyChar(c) ==
  /\ kb = "idle"
  /\ buf_loc[currentTerminal] < BUF_SIZE - 1 \/ c = NL
  /\ video' = StoreChar(video, {VIDEO}, currentTerminal, c)
  /\ kb' = "advance" /\ key' = c
  /\ UNCHANGED <<currentTerminal, user_page_table, buf_loc, line, previousTerminal, mixed>>

EchoMoveOn ==
  /\ kb = "advance"
  /\ video' = MoveOn(video, currentTerminal, key)
  /\ kb' = "wrap"
  /\ UNCHANGED <<currentTerminal, user_page_table, buf_loc, key, line, previousTerminal, mixed>>

EchoWrap ==
  /\ kb = "wrap"
  /\ video' = Wrap(video, currentTerminal, key)
  /\ kb' = IF key = NL THEN "scroll" ELSE "row"
  /\ UNCHANGED <<currentTerminal, user_page_table, buf_loc, key, line, previousTerminal, mixed>>

EchoGoDown ==
  /\ kb = "row"
  /\ video' = GoDown(video, currentTerminal, key)
  /\ kb' = "scroll"
  /\ UNCHANGED <<currentTerminal, user_page_table, buf_loc, key, line, previousTerminal, mixed>>

EchoScroll ==
  /\ kb = "scroll"
  /\ video' = set_cursor(Scroll(video, currentTerminal), currentTerminal)
  /\ buf_loc' = [buf_loc EXCEPT ![currentTerminal] = IF key = NL THEN 0 ELSE @ + 1]
  /\ kb' = "idle" /\ key' = Space
  /\ UNCHANGED <<currentTerminal, user_page_table, line, previousTerminal, mixed>>

(* ... erases one, ...                                                     *)
KeyBackspace ==
  /\ kb = "idle"
  /\ buf_loc[currentTerminal] # 0
  /\ buf_loc' = [buf_loc EXCEPT ![currentTerminal] = @ - 1]
  /\ video' = erase_char(video)
  /\ UNCHANGED <<currentTerminal, user_page_table, handler, mixed>>

(* ... clears the screen and echoes the buffer again, ...                  *)
StillToEcho(chars) == line' = chars /\ kb' = IF chars = <<>> THEN "idle" ELSE "redraw"

KeyClear ==
  /\ kb = "idle"
  /\ video' = clear(video)
  /\ \E chars \in [1..buf_loc[currentTerminal] -> Chars] : StillToEcho(chars)
  /\ mixed' = mixed \ {currentTerminal}
  /\ UNCHANGED <<currentTerminal, user_page_table, buf_loc, key, previousTerminal>>

EchoAgain ==
  /\ kb = "redraw"
  /\ video' = KBputc(video, Head(line))
  /\ StillToEcho(Tail(line))
  /\ UNCHANGED <<currentTerminal, user_page_table, buf_loc, key, previousTerminal, mixed>>

(* ... or switches to another terminal.                                    *)
KeySwitch(n) ==
  /\ kb = "idle"
  /\ n # currentTerminal
  /\ currentTerminal' = n /\ previousTerminal' = currentTerminal
  /\ kb' = "switch"
  /\ UNCHANGED <<video, user_page_table, buf_loc, key, line, mixed>>

CopiedInNew == [video.page EXCEPT ![VIDEO] = video.page[Backing(currentTerminal)]]
CopiedPages == [video.page EXCEPT ![Backing(previousTerminal)] = video.page[VIDEO],
                                  ![VIDEO] = video.page[Backing(currentTerminal)]]

RemappedNew == [user_page_table EXCEPT ![currentTerminal] = VIDEO]
Remapped == [user_page_table EXCEPT ![previousTerminal] = Backing(previousTerminal),
                                    ![currentTerminal] = VIDEO]

switchTerminal ==
  /\ kb = "switch"
  /\ video' = set_cursor([video EXCEPT !.page = CopiedPages], currentTerminal)
  /\ user_page_table' = Remapped
  /\ kb' = "idle" /\ previousTerminal' = 0
  /\ UNCHANGED <<currentTerminal, buf_loc, key, line, mixed>>

Next ==
  \/ \E t \in Terminals, c \in Chars \cup {NL} : Putc(t, c)
  \/ \E t \in Terminals, i \in Cells, c \in Chars : StoreVidmap(t, i, c)
  \/ \E c \in Chars \cup {NL} : KeyChar(c)
  \/ EchoMoveOn \/ EchoWrap \/ EchoGoDown \/ EchoScroll
  \/ KeyBackspace \/ KeyClear \/ EchoAgain
  \/ \E n \in Terminals : KeySwitch(n)
  \/ switchTerminal

SafetySpec == Init /\ [][Next]_vars

----------------------------------------------------------------------------
(* The page that holds the text of terminal t.                             *)
PageShown(t) == IF t = Displayed THEN VIDEO ELSE Backing(t)

(* Types of all variables.                                                 *)
TypeOK ==
  /\ currentTerminal \in Terminals /\ previousTerminal \in Terminals
  /\ video \in [page: [Pages -> [Cells -> Chars \cup {Space}]],
                x: [Terminals -> 0..NUM_COLS], y: [Terminals -> 0..NUM_ROWS],
                cursor: Nat]
  /\ user_page_table \in [Terminals -> Pages]
  /\ buf_loc \in [Terminals -> 0..(BUF_SIZE - 1)]
  /\ kb \in KBpoints \cup {"idle"} /\ key \in Chars \cup {Space, NL}
  /\ line \in Seq(Chars) /\ mixed \subseteq Terminals

(* Between keys every put location and the cursor are on the screen again, *)
(* whichever statements of an echo a tick preempted for the output of the  *)
(* same terminal's program.                                                *)
LocationOnScreen ==
  kb = "idle" => /\ \A t \in Terminals : video.x[t] < NUM_COLS /\ video.y[t] < NUM_ROWS
                 /\ video.cursor \in Cells

(* A program sees through vidmap the page its terminal's text is in: the   *)
(* display exactly while its terminal is displayed, never another one's.   *)
VidmapOwnScreen == \A t \in Terminals : PageOfVidmap(t) = PageShown(t)

(* The cursor is where the next character goes.                            *)
CursorAtLocation ==
  kb = "idle" => video.cursor = Location(video, currentTerminal)

(* Screens, with what is being echoed counted as echoed.                   *)
Redrawn(v, chars) ==
  LET after[n \in 0..Len(chars)] == IF n = 0 THEN v ELSE KBputc(after[n - 1], chars[n])
  IN after[Len(chars)]

EchoedFrom(v) ==
  LET t == currentTerminal IN
  CASE kb = "advance" -> Scroll(Advance(v, t, key), t)
    [] kb = "wrap"    -> Scroll(GoDown(Wrap(v, t, key), t, key), t)
    [] kb = "row"     -> Scroll(GoDown(v, t, key), t)
    [] kb = "scroll"  -> Scroll(v, t)
    [] kb = "redraw"  -> Redrawn(v, line)
    [] OTHER          -> v

Echoed == EchoedFrom(video)

gridBar == LET pages == Echoed.page IN [t \in Terminals |-> pages[PageShown(t)]]
atBar   == LET v == Echoed IN [t \in Terminals |-> Location(v, t)]

S == INSTANCE Screens
  WITH Columns <- NUM_COLS,
       Cells <- NUM_ROWS * NUM_COLS,
       Blank <- Space,
       NewLine <- NL,
       Symbols <- Chars,
       Lines <- UNION {[1..n -> Chars] : n \in 0..(BUF_SIZE - 1)},
       shown <- Displayed, grid <- gridBar, at <- atBar, spoilt <- mixed

(* What programs print and draw and users type appears on their own        *)
(* terminal, in order, and nowhere else, through any switches of the       *)
(* display, any scrolling and any tick within KBhandler, except on the     *)
(* displayed terminal from the moment its own program, or one of the       *)
(* terminal being switched to, puts output in the middle of a key's        *)
(* handling until its screen is cleared.                                   *)
ImplementsScreens == S!ScreensSpec

(* "Output a character to the calling process's terminal" (lib.c:291),     *)
(* also when KBhandler was preempted in the echo of a key or in a switch.  *)
PutcReachesTerminal ==
  [][\A t \in Terminals, c \in Chars \cup {NL} :
       Putc(t, c) => S!Console(t)' = S!Write(S!Console(t), c)]_vars
=============================================================================
