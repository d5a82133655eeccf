----------------------------- MODULE MCTerminal -----------------------------
(* An instance of Terminal for TLC.  The code treats all characters but    *)
(* Enter alike and its buffers keep them by position, so one is enough.    *)
EXTENDS Terminal

CONSTANT a
OneChar  == {a}
=============================================================================
