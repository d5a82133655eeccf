------------------------------ MODULE Printf -------------------------------
(***************************************************************************)
(* printf of lib.c, with puts, itoa, strrev and strlen: the loop over the  *)
(* format, one character at a time, and the pointer esp that takes the     *)
(* arguments from the stack.  The reference is the comment above printf:   *)
(* what each conversion prints.  A digit is its value, so the lookup table *)
(* of itoa is the identity; a number has HexDigits hexadecimal digits.     *)
(***************************************************************************)
EXTENDS Integers, Sequences, SequencesExt

CONSTANTS
  HexDigits,    \* digits of "%#x": 8, those of a number of 32 bits
  Numbers,      \* numbers passed, negative ones for %d
  Strings,      \* strings passed
  MaxDirectives \* bound: conversions and plain characters of a format

ASSUME PrintfAssumption == HexDigits \in Nat \ {0} /\ MaxDirectives \in Nat
ASSUME NumbersAssumption ==
  /\ Numbers \subseteq Int
  /\ \A v \in Numbers : -(16^HexDigits) <= 2 * v /\ v < 16^HexDigits

NUL == "NUL"

(* The directives of a format, with an argument where they take one.       *)
Directives ==
       {[spec |-> <<"a">>], [spec |-> <<"%", "%">>], [spec |-> <<"%", "?">>],
        [spec |-> <<"%", "#", "%">>]}
  \cup [spec : {<<"%", "x">>, <<"%", "#", "x">>, <<"%", "u">>, <<"%", "d">>,
                <<"%", "#", "u">>}, arg : Numbers]
  \cup [spec : {<<"%", "c">>}, arg : {"c"}]
  \cup [spec : {<<"%", "s">>}, arg : Strings]

HasArg(d) == "arg" \in DOMAIN d

VARIABLES
  directives, \* what the caller has written
  buf,        \* index of the next character of the format
  alternate,  \* "#" seen
  pc,         \* "idle", "text", "spec" (at format_char_switch) or "done"
  esp,        \* index of the next argument
  out         \* what has been given to putc

printfVars == <<directives, buf, alternate, pc, esp, out>>

format == FlattenSeq([k \in DOMAIN directives |-> directives[k].spec]) \o <<NUL>>
args == LET taking == SelectSeq(directives, HasArg)
        IN [k \in DOMAIN taking |-> taking[k].arg]

----------------------------------------------------------------------------
(* A C integer taken as unsigned.                                          *)
Unsigned(v) == v % 16^HexDigits

(* strrev swaps from both ends inwards.                                    *)
strrev(s) ==
  LET swapped[k \in 0..(Len(s) \div 2)] ==
        IF k = 0 THEN s
        ELSE [swapped[k - 1] EXCEPT ![k] = swapped[k - 1][Len(s) + 1 - k],
                                    ![Len(s) + 1 - k] = swapped[k - 1][k]]
  IN swapped[Len(s) \div 2]

(* itoa adds the digits from the lowest on and reverses them.              *)
LowestFirst(value, radix) ==
  LET low[v \in Nat] == IF v = 0 THEN <<>> ELSE <<v % radix>> \o low[v \div radix]
  IN low[value]
ItoaNoZero(value, radix) == strrev(LowestFirst(value, radix))
itoa(value, radix) ==
  IF value = 0 THEN <<0>> ELSE strrev(LowestFirst(value, radix))

(* conv_buf of "%#x": the digits at index HexDigits, zeroes below them     *)
(* from the index that is their number.                                    *)
Zeroes(len) == [k \in 1..(HexDigits - len) |-> 0]

Hex(v, alt) == LET digits == itoa(Unsigned(v), 16)
               IN IF alt THEN Zeroes(Len(digits)) \o digits ELSE digits

Signed(v) == IF v < 0 THEN <<"-">> \o itoa(-v, 10) ELSE itoa(v, 10)

----------------------------------------------------------------------------
PrintfInit ==
  /\ directives = <<>>
  /\ buf = 1 /\ alternate = FALSE /\ pc = "idle" /\ esp = 1 /\ out = <<>>

(* printf is called with a format and its arguments.                       *)
Printf ==
  /\ pc = "idle"
  /\ directives' \in SeqOf(Directives, MaxDirectives)
  /\ pc' = "text"
  /\ UNCHANGED <<buf, alternate, esp, out>>

At(c) == format[buf] = c

Literal ==
  /\ pc = "text" /\ ~At("%") /\ ~At(NUL)
  /\ out' = Append(out, format[buf]) /\ buf' = buf + 1
  /\ UNCHANGED <<directives, alternate, pc, esp>>

Percent ==
  /\ pc = "text" /\ At("%")
  /\ alternate' = FALSE /\ buf' = buf + 1 /\ pc' = "spec"
  /\ UNCHANGED <<directives, esp, out>>

Alternate ==
  /\ pc = "spec" /\ At("#")
  /\ alternate' = TRUE /\ buf' = buf + 1
  /\ UNCHANGED <<directives, pc, esp, out>>

(* A conversion prints text and takes n arguments.                         *)
Converted(text, n) ==
  /\ out' = out \o text /\ esp' = esp + n
  /\ buf' = buf + 1 /\ pc' = "text"
  /\ UNCHANGED <<directives, alternate>>

Conversion ==
  /\ pc = "spec"
  /\ \/ At("%") /\ Converted(<<"%">>, 0)
     \/ At("x") /\ Converted(Hex(args[esp], alternate), 1)
     \/ At("u") /\ Converted(itoa(Unsigned(args[esp]), 10), 1)
     \/ At("d") /\ Converted(Signed(args[esp]), 1)
     \/ At("c") /\ Converted(<<args[esp]>>, 1)
     \/ At("s") /\ Converted(args[esp], 1)
     \/ format[buf] \notin {"%", "#", "x", "u", "d", "c", "s"} /\ Converted(<<>>, 0)

Return ==
  /\ pc = "text" /\ At(NUL) /\ pc' = "done"
  /\ UNCHANGED <<directives, buf, alternate, esp, out>>

(* Its caller goes on, and its stack frame is gone.                        *)
AfterPrintf ==
  /\ pc = "done"
  /\ directives' = <<>>
  /\ buf' = 1 /\ alternate' = FALSE /\ pc' = "idle" /\ esp' = 1 /\ out' = <<>>

Loop == Literal \/ Percent \/ Alternate \/ Conversion \/ Return
PrintfNext == Printf \/ Loop \/ AfterPrintf

----------------------------------------------------------------------------
(* v in n digits, and with as many as it needs.                            *)
Digits(v, radix, n) == [k \in 1..n |-> (v \div radix^(n - k)) % radix]
Shortest(v, radix) ==
  Digits(v, radix, CHOOSE n \in 1..(4 * HexDigits) :
                     v < radix^n /\ (n = 1 \/ v >= radix^(n - 1)))

(* What the comment says a directive prints; "#" changes nothing but %x.   *)
Meaning(d) ==
  CASE d.spec = <<"a">> -> <<"a">>
    [] d.spec \in {<<"%", "%">>, <<"%", "#", "%">>} -> <<"%">>
    [] d.spec = <<"%", "?">> -> <<>>
    [] d.spec = <<"%", "#", "x">> -> Digits(Unsigned(d.arg), 16, HexDigits)
    [] d.spec = <<"%", "x">> -> Shortest(Unsigned(d.arg), 16)
    [] d.spec \in {<<"%", "u">>, <<"%", "#", "u">>} -> Shortest(Unsigned(d.arg), 10)
    [] d.spec = <<"%", "d">> ->
         IF d.arg < 0 THEN <<"-">> \o Shortest(-d.arg, 10) ELSE Shortest(d.arg, 10)
    [] d.spec = <<"%", "c">> -> <<d.arg>>
    [] d.spec = <<"%", "s">> -> d.arg

(* When printf returns it has printed what each directive means, with its  *)
(* own argument, in their order.                                           *)
PrintsMeanings ==
  pc = "done" => /\ out = FlattenSeq([k \in DOMAIN directives |-> Meaning(directives[k])])
                 /\ esp = Len(args) + 1
=============================================================================
