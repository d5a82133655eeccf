------------------------------- MODULE MCLib -------------------------------
(* A memory of twelve bytes: a head, a word and a tail on either side.     *)
(* Numbers of three hexadecimal digits: zero, one and all digits, digits   *)
(* that are zero within and at the end, and the ends of the signed range.  *)
EXTENDS Lib

MCContents == {[a \in Addresses |-> (a + 1) % 6], [a \in Addresses |-> a % 3]}
MCNumbers == {0, 9, 16, 160, 2047, 4095, -1, -10, -2048}
MCStrings == {<<>>, <<"p", "%">>}
=============================================================================
