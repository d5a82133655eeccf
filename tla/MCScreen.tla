------------------------------ MODULE MCScreen ------------------------------
(* Instances of Screen for TLC.                                            *)
EXTENDS Screen

CONSTANT a
OneChar == {a}

(* The states TLC tells apart.  The page behind the displayed terminal's   *)
(* text is not read before switchTerminal copies the display to it, and    *)
(* nothing moves from a spoilt screen to another terminal's; TypeOK makes  *)
(* TLC evaluate the pages that are left out.                               *)
Seen == <<TypeOK, [t \in Terminals \ mixed |-> video.page[PageShown(t)]],
          video.x, video.y, video.cursor, currentTerminal, user_page_table,
          buf_loc, handler, mixed>>
=============================================================================
