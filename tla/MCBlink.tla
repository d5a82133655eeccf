------------------------------- MODULE MCBlink ------------------------------
(* Two places in use, two blinkers that may be added at either, in an      *)
(* array of three structures; words of three bits.                         *)
EXTENDS Blink

Request(location, on, off, on_length, off_length) ==
  [location |-> location, on_char |-> on, off_char |-> off,
   on_length |-> on_length, off_length |-> off_length]

MCRequests ==
  {Request(1, "I", "M", 2, 0), Request(2, "a", "b", 1, 1), Request(3, "a", "b", 1, 1)}
=============================================================================
