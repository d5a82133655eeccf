------------------------------- MODULE MCRTC -------------------------------
(* An instance of RTC for TLC: the greatest valid frequency next to that   *)
(* of RTCOpen, the least, and four that RTCWrite refuses.                  *)
EXTENDS RTC

SomeFreqs == {0, 1, 96, 1024, 2048}
=============================================================================
