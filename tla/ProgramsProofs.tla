--------------------------- MODULE ProgramsProofs ---------------------------
(***************************************************************************)
(* Proofs about Programs.                                                  *)
(***************************************************************************)
EXTENDS Programs, FilesProofs

(* A string of C: a sequence of characters other than NUL.                 *)
IsSequence(s) == s \in Seq(Range(s))
IsString(s) == IsSequence(s) /\ \A i \in 1..Len(s) : s[i] # NUL

----------------------------------------------------------------------------
(* Commands.                                                               *)

(* A set of numbers has a least one.                                       *)
LEMMA LeastNumber ==
  ASSUME NEW T \in SUBSET Nat, T # {}
  PROVE  \E x \in T : \A y \in T : x <= y
<1>1. PICK x \in T : \A y \in T : <<y, x>> \notin OpToRel(<, Nat)
  BY NatLessThanWellFounded, WFMin
<1>2. \A y \in T : ~(y < x) BY <1>1 DEF OpToRel
<1> QED BY <1>2

(* Two sequences joined.                                                   *)
LEMMA JoinedSeq ==
  ASSUME NEW X, NEW s \in Seq(X), NEW t \in Seq(X)
  PROVE  /\ s \o t \in Seq(X) /\ Len(s \o t) = Len(s) + Len(t)
         /\ \A k \in 1..(Len(s) + Len(t)) : (s \o t)[k] = IF k <= Len(s) THEN s[k] ELSE t[k - Len(s)]
  OBVIOUS

(* A word of length n begins command c.                                    *)
WordEnds(c, n) == n = Len(c) \/ c[n + 1] = A!SPACE
HasWord(c, n) == n \in 0..Len(c) /\ WordEnds(c, n) /\ \A j \in 1..n : c[j] # A!SPACE

(* Every command has a word, and it is what Word gives.                    *)
LEMMA WordIs ==
  ASSUME NEW c, IsString(c)
  PROVE  LET n == Len(A!Word(c)) IN HasWord(c, n) /\ A!Word(c) = SubSeq(c, 1, n)
<1>1. Len(c) \in Nat /\ c \in Seq(Range(c)) BY DEF IsString, IsSequence
<1> DEFINE T == {n \in 0..Len(c) : WordEnds(c, n)}
<1>2. T \in SUBSET Nat /\ Len(c) \in T BY <1>1 DEF WordEnds
<1>3. PICK n \in T : \A m \in T : n <= m BY <1>2, LeastNumber
<1>4. HasWord(c, n)
  <2>1. ASSUME NEW j \in 1..n, c[j] = A!SPACE PROVE FALSE
    <3>1. j - 1 \in 0..Len(c) /\ (j - 1) + 1 = j BY <1>1
    <3>2. j - 1 \in T BY <2>1, <3>1 DEF WordEnds
    <3> QED BY <1>1, <1>3, <3>2
  <2> QED BY <2>1 DEF HasWord
<1> DEFINE Good(w) == /\ \A i \in DOMAIN w : w[i] # A!SPACE
                      /\ Len(w) = Len(c) \/ c[Len(w) + 1] = A!SPACE
<1>5. \A k \in 0..Len(c) : /\ SubSeq(c, 1, k) \in A!Prefixes(c) /\ Len(SubSeq(c, 1, k)) = k
                           /\ DOMAIN SubSeq(c, 1, k) = 1..k
                           /\ \A i \in 1..k : SubSeq(c, 1, k)[i] = c[i]
  BY <1>1 DEF A!Prefixes
<1>6. Good(SubSeq(c, 1, n)) /\ SubSeq(c, 1, n) \in A!Prefixes(c)
  <2>1. n \in 0..Len(c) BY <1>3
  <2> QED BY <1>4, <1>5, <2>1 DEF HasWord, WordEnds
<1>7. A!Word(c) = CHOOSE w \in A!Prefixes(c) : Good(w) BY DEF A!Word
<1>8. A!Word(c) \in A!Prefixes(c) /\ Good(A!Word(c))
  <2> HIDE DEF Good
  <2> QED BY <1>6, <1>7
<1>9. PICK k \in 0..Len(c) : A!Word(c) = SubSeq(c, 1, k) BY <1>8 DEF A!Prefixes
<1> HIDE DEF T
<1>10. HasWord(c, k) BY <1>5, <1>8, <1>9 DEF HasWord, WordEnds
<1> QED BY <1>5, <1>9, <1>10

(* The name sys_execute takes is the word, unless that is too long.        *)
LEMMA NameIsWord ==
  ASSUME NEW c, IsString(c), NEW n, HasWord(c, n), n <= FNAME_SIZE
  PROVE  A!NameLength(c) = n
<1>1. Len(c) \in Nat /\ FNAME_SIZE \in Nat /\ n \in 0..Len(c)
  BY ArgSizes DEF IsString, IsSequence, HasWord
<1> DEFINE Ends(i) == A!NameEnds(c, i) /\ \A j \in 0..(i - 1) : ~A!NameEnds(c, j)
<1>2. Ends(n)
  <2>1. A!CharAt(c, n) \in {A!NUL, A!SPACE} BY <1>1 DEF A!CharAt, HasWord, WordEnds
  <2>2. ASSUME NEW j \in 0..(n - 1) PROVE ~A!NameEnds(c, j)
    <3>1. j < Len(c) /\ j + 1 \in 1..n /\ j + 1 \in 1..Len(c) /\ j # FNAME_SIZE BY <1>1
    <3>2. c[j + 1] # A!SPACE /\ c[j + 1] # A!NUL BY <3>1 DEF HasWord, IsString, NUL, A!NUL
    <3> QED BY <3>1, <3>2 DEF A!NameEnds, A!CharAt
  <2> QED BY <2>1, <2>2 DEF A!NameEnds
<1>3. \A i \in 0..Len(c) : Ends(i) => i = n
  <2> SUFFICES ASSUME NEW i \in 0..Len(c), Ends(i) PROVE i = n OBVIOUS
  <2>1. ~(i < n) BY <1>1, <1>2
  <2>2. ~(n < i) BY <1>1, <1>2
  <2> QED BY <1>1, <2>1, <2>2
<1>4. A!NameLength(c) = CHOOSE i \in 0..Len(c) : Ends(i) BY DEF A!NameLength
<1> HIDE DEF Ends
<1> QED BY <1>1, <1>2, <1>3, <1>4

(* The arguments of command c begin at index i, after a word of length n.  *)
ArgsBegin(c, n, i) ==
  /\ i \in n..Len(c) /\ (i = Len(c) \/ c[i + 1] # A!SPACE)
  /\ \A j \in n..(i - 1) : c[j + 1] = A!SPACE

(* They begin somewhere, and in one place only.                            *)
LEMMA ArgsBeginOnce ==
  ASSUME NEW c, IsString(c), NEW n, HasWord(c, n)
  PROVE  /\ \E i : ArgsBegin(c, n, i)
         /\ \A i, j : ArgsBegin(c, n, i) /\ ArgsBegin(c, n, j) => i = j
<1>1. Len(c) \in Nat /\ n \in 0..Len(c) BY DEF IsString, IsSequence, HasWord
<1>2. \E i : ArgsBegin(c, n, i)
  <2> DEFINE T == {i \in n..Len(c) : i = Len(c) \/ c[i + 1] # A!SPACE}
  <2>1. T \in SUBSET Nat /\ Len(c) \in T BY <1>1
  <2>2. PICK i \in T : \A j \in T : i <= j BY <2>1, LeastNumber
  <2>3. ASSUME NEW j \in n..(i - 1) PROVE c[j + 1] = A!SPACE
    <3>1. j \in n..Len(c) /\ ~(i <= j) BY <1>1
    <3>2. j \notin T BY <2>2, <3>1
    <3> QED BY <3>1, <3>2
  <2>4. ArgsBegin(c, n, i) BY <2>2, <2>3 DEF ArgsBegin
  <2> QED BY <2>4
<1>3. ASSUME NEW i, NEW j, ArgsBegin(c, n, i), ArgsBegin(c, n, j) PROVE ~(i < j)
  <2>1. i \in n..Len(c) /\ j \in n..Len(c) BY <1>3 DEF ArgsBegin
  <2> SUFFICES ASSUME i < j PROVE FALSE OBVIOUS
  <2>2. i \in n..(j - 1) /\ i # Len(c) BY <1>1, <2>1
  <2> QED BY <1>3, <2>2 DEF ArgsBegin
<1>4. \A i, j : ArgsBegin(c, n, i) /\ ArgsBegin(c, n, j) => i \in Int /\ j \in Int
  BY <1>1 DEF ArgsBegin
<1>5. \A i, j : ArgsBegin(c, n, i) /\ ArgsBegin(c, n, j) => i = j BY <1>3, <1>4
<1> QED BY <1>2, <1>5

(* sys_execute finds the place.                                            *)
LEMMA SkippedIs ==
  ASSUME NEW c, IsString(c), NEW n, HasWord(c, n), n <= FNAME_SIZE
  PROVE  ArgsBegin(c, n, A!SpacesSkipped(c))
<1>1. Len(c) \in Nat /\ n \in 0..Len(c) BY DEF IsString, IsSequence, HasWord
<1>2. A!NameLength(c) = n BY NameIsWord
<1> DEFINE Begins(i) == /\ A!CharAt(c, i) # A!SPACE
                        /\ \A j \in n..(i - 1) : A!CharAt(c, j) = A!SPACE
<1>3. \A i \in n..Len(c) : Begins(i) <=> ArgsBegin(c, n, i)
  <2> SUFFICES ASSUME NEW i \in n..Len(c) PROVE Begins(i) <=> ArgsBegin(c, n, i) OBVIOUS
  <2>1. A!CharAt(c, i) # A!SPACE <=> (i = Len(c) \/ c[i + 1] # A!SPACE)
    <3>1. i < Len(c) <=> i # Len(c) BY <1>1
    <3>2. A!NUL # A!SPACE BY DEF A!NUL, A!SPACE
    <3> QED BY <3>1, <3>2 DEF A!CharAt
  <2>2. \A j \in n..(i - 1) : A!CharAt(c, j) = c[j + 1] BY <1>1 DEF A!CharAt
  <2> QED BY <2>1, <2>2 DEF ArgsBegin
<1>4. A!SpacesSkipped(c) = CHOOSE i \in n..Len(c) : Begins(i) BY <1>2 DEF A!SpacesSkipped
<1>5. \E i \in n..Len(c) : Begins(i)
  <2>1. PICK i : ArgsBegin(c, n, i) BY ArgsBeginOnce
  <2>2. i \in n..Len(c) BY <2>1 DEF ArgsBegin
  <2> HIDE DEF Begins
  <2> QED BY <1>3, <2>1, <2>2
<1> HIDE DEF Begins
<1>6. A!SpacesSkipped(c) \in n..Len(c) /\ Begins(A!SpacesSkipped(c)) BY <1>4, <1>5
<1> QED BY <1>3, <1>6

(* What the user means by the command is the rest from there.              *)
LEMMA MeaningIs ==
  ASSUME NEW c, IsString(c), NEW i, ArgsBegin(c, Len(A!Word(c)), i)
  PROVE  A!Meaning(c) = SubSeq(c, i + 1, Len(c))
<1> DEFINE w == A!Word(c)
           n == Len(w)
           rest == SubSeq(c, i + 1, Len(c))
           Gap(m) == [k \in 1..m |-> A!SPACE]
<1>1. Len(c) \in Nat /\ c \in Seq(Range(c)) BY DEF IsString, IsSequence
<1>2. HasWord(c, n) /\ w = SubSeq(c, 1, n) BY WordIs
<1>3. n \in 0..Len(c) /\ i \in n..Len(c) /\ (i = Len(c) \/ c[i + 1] # A!SPACE)
  BY <1>2 DEF HasWord, ArgsBegin
<1> HIDE DEF w, n
<1>4. /\ w \in Seq(Range(c) \cup {A!SPACE}) /\ Len(w) = n /\ \A k \in 1..n : w[k] = c[k]
  BY <1>1, <1>2, <1>3
<1>5. \A m \in Nat : Gap(m) \in Seq(Range(c) \cup {A!SPACE}) /\ Len(Gap(m)) = m
  OBVIOUS
<1>6. /\ rest \in Seq(Range(c) \cup {A!SPACE}) /\ Len(rest) = Len(c) - i
      /\ \A k \in 1..(Len(c) - i) : rest[k] = c[i + k]
  BY <1>1, <1>3
<1>7. rest \in A!Suffixes(c)
  <2>1. CASE i = Len(c)
    <3>1. rest = <<>> BY <1>1, <2>1
    <3> QED BY <3>1 DEF A!Suffixes
  <2>2. CASE i # Len(c)
    <3>1. i + 1 \in 1..Len(c) BY <1>1, <1>3, <2>2
    <3> QED BY <3>1 DEF A!Suffixes
  <2> QED BY <2>1, <2>2
<1>8. A!Meant(c, rest)
  <2>1. c = w \o Gap(i - n) \o rest
    <3> DEFINE d == w \o Gap(i - n)
    <3>1. i - n \in Nat BY <1>1, <1>3
    <3> HIDE DEF Gap, rest
    <3>2. /\ d \in Seq(Range(c) \cup {A!SPACE}) /\ Len(d) = i
          /\ \A k \in 1..i : d[k] = IF k <= n THEN w[k] ELSE Gap(i - n)[k - n]
      <4>1. Gap(i - n) \in Seq(Range(c) \cup {A!SPACE}) /\ Len(Gap(i - n)) = i - n BY <1>5, <3>1
      <4>2. n + (i - n) = i BY <1>1, <1>3
      <4> DEFINE X == Range(c) \cup {A!SPACE}
                 gap == Gap(i - n)
      <4>3. w \in Seq(X) /\ gap \in Seq(X) /\ Len(w) = n /\ Len(gap) = i - n BY <1>4, <4>1
      <4> HIDE DEF X, gap
      <4>4. /\ w \o gap \in Seq(X) /\ Len(w \o gap) = n + (i - n)
            /\ \A k \in 1..(n + (i - n)) : (w \o gap)[k] = IF k <= n THEN w[k] ELSE gap[k - n]
        BY <4>3, JoinedSeq
      <4> QED BY <4>2, <4>4 DEF X, gap
    <3>3. \A k \in 1..i : d[k] = c[k]
      <4>1. ASSUME NEW k \in 1..i, ~(k <= n) PROVE d[k] = c[k]
        <5>1. k - n \in 1..(i - n) /\ k - 1 \in n..(i - 1) /\ (k - 1) + 1 = k BY <1>1, <1>3, <4>1
        <5>2. Gap(i - n)[k - n] = A!SPACE BY <5>1 DEF Gap
        <5>3. c[k] = A!SPACE BY <5>1 DEF ArgsBegin, n, w
        <5> QED BY <3>2, <4>1, <5>2, <5>3
      <4>2. ASSUME NEW k \in 1..i, k <= n PROVE d[k] = c[k]
        BY <1>1, <1>3, <1>4, <3>2, <4>2
      <4> QED BY <4>1, <4>2
    <3> HIDE DEF d
    <3> DEFINE e == d \o rest
    <3>4. /\ e \in Seq(Range(c) \cup {A!SPACE}) /\ Len(e) = Len(c)
          /\ \A k \in 1..Len(c) : e[k] = IF k <= i THEN d[k] ELSE rest[k - i]
      BY <1>1, <1>3, <1>6, <3>2
    <3>5. \A k \in 1..Len(c) : e[k] = c[k]
      <4>1. ASSUME NEW k \in 1..Len(c), ~(k <= i) PROVE e[k] = c[k]
        <5>1. k - i \in 1..(Len(c) - i) /\ i + (k - i) = k BY <1>1, <1>3, <4>1
        <5> QED BY <1>6, <3>4, <4>1, <5>1
      <4>2. ASSUME NEW k \in 1..Len(c), k <= i PROVE e[k] = c[k]
        BY <1>1, <1>3, <3>3, <3>4, <4>2
      <4> QED BY <4>1, <4>2
    <3> HIDE DEF e
    <3>6. e = c BY <1>1, <3>4, <3>5
    <3> QED BY <3>6 DEF d, e
  <2>2. rest # <<>> => rest[1] # A!SPACE BY <1>1, <1>3, <1>6
  <2>3. rest # <<>> => i - n > 0
    <3>1. ASSUME i = n PROVE i = Len(c) BY <1>1, <1>2, <1>3, <3>1 DEF HasWord, WordEnds
    <3>2. i = Len(c) => rest = <<>> BY <1>1
    <3> QED BY <1>1, <1>3, <3>1, <3>2
  <2>4. i - n \in 0..Len(c) BY <1>1, <1>3
  <2> HIDE DEF rest
  <2> QED BY <2>1, <2>2, <2>3, <2>4 DEF A!Meant, w
<1>9. ASSUME NEW args \in A!Suffixes(c), A!Meant(c, args) PROVE args = rest
  <2>1. PICK m \in 0..Len(c) : c = w \o Gap(m) \o args BY <1>9 DEF A!Meant, w
  <2>2. args \in Seq(Range(c) \cup {A!SPACE})
    <3>1. CASE args = <<>> BY <3>1
    <3>2. CASE args # <<>>
      <4>1. PICK l \in 1..Len(c) : args = SubSeq(c, l, Len(c)) BY <3>2 DEF A!Suffixes
      <4> QED BY <1>1, <4>1
    <3> QED BY <3>1, <3>2
  <2>3. m \in Nat BY <1>1
  <2> DEFINE d == w \o Gap(m)
  <2>4. /\ d \in Seq(Range(c) \cup {A!SPACE}) /\ Len(d) = n + m
        /\ \A k \in 1..m : d[n + k] = A!SPACE
    <3>1. \A k \in 1..m : Gap(m)[k] = A!SPACE OBVIOUS
    <3> HIDE DEF Gap
    <3>2. Gap(m) \in Seq(Range(c) \cup {A!SPACE}) /\ Len(Gap(m)) = m BY <1>5, <2>3
    <3>3. /\ d \in Seq(Range(c) \cup {A!SPACE}) /\ Len(d) = n + m
          /\ \A k \in 1..(n + m) : d[k] = IF k <= n THEN w[k] ELSE Gap(m)[k - n]
      <4> DEFINE X == Range(c) \cup {A!SPACE}
                 gap == Gap(m)
      <4>1. w \in Seq(X) /\ gap \in Seq(X) /\ Len(w) = n /\ Len(gap) = m BY <1>4, <3>2
      <4> HIDE DEF X, gap
      <4>2. /\ w \o gap \in Seq(X) /\ Len(w \o gap) = n + m
            /\ \A k \in 1..(n + m) : (w \o gap)[k] = IF k <= n THEN w[k] ELSE gap[k - n]
        BY <4>1, JoinedSeq
      <4> QED BY <4>2 DEF X, gap
    <3>4. \A k \in 1..m : n + k \in 1..(n + m) /\ ~(n + k <= n) /\ (n + k) - n = k
      BY <1>1, <1>3, <2>3
    <3> QED BY <3>1, <3>3, <3>4
  <2>5. c = d \o args BY <2>1
  <2> HIDE DEF d
  <2>6. /\ Len(c) = n + m + Len(args) /\ Len(args) \in Nat
        /\ \A k \in 1..(n + m) : c[k] = d[k]
        /\ \A k \in 1..Len(args) : c[n + m + k] = args[k]
    <3>1. Len(d \o args) = Len(d) + Len(args) /\ Len(args) \in Nat BY <2>2, <2>4
    <3>2. \A k \in 1..(n + m) : (d \o args)[k] = d[k] BY <1>1, <1>3, <2>2, <2>4
    <3>3. \A k \in 1..Len(args) : (d \o args)[n + m + k] = args[k] BY <1>1, <1>3, <2>2, <2>3, <2>4
    <3> QED BY <2>4, <2>5, <3>1, <3>2, <3>3
  <2>7. ArgsBegin(c, n, n + m)
    <3>1. n + m \in n..Len(c) BY <1>1, <1>3, <2>3, <2>6
    <3>2. ASSUME n + m # Len(c) PROVE c[(n + m) + 1] # A!SPACE
      <4>1. 1 \in 1..Len(args) BY <1>1, <1>3, <2>3, <2>6, <3>2
      <4>2. args # <<>> BY <4>1
      <4>3. args[1] # A!SPACE BY <1>9, <4>2 DEF A!Meant
      <4> QED BY <2>6, <4>1, <4>3
    <3>3. ASSUME NEW j \in n..((n + m) - 1) PROVE c[j + 1] = A!SPACE
      <4>1. j + 1 - n \in 1..m /\ n + (j + 1 - n) = j + 1 /\ j + 1 \in 1..(n + m) BY <1>1, <1>3, <2>3
      <4>2. d[n + (j + 1 - n)] = A!SPACE BY <2>4, <4>1
      <4>3. c[j + 1] = d[j + 1] BY <2>6, <4>1
      <4> QED BY <4>1, <4>2, <4>3
    <3>4. n + m = Len(c) \/ c[(n + m) + 1] # A!SPACE BY <3>2
    <3>5. \A j \in n..((n + m) - 1) : c[j + 1] = A!SPACE BY <3>3
    <3> QED BY <3>1, <3>4, <3>5 DEF ArgsBegin
  <2>8. ArgsBegin(c, n, i) BY DEF n, w
  <2>9. n + m = i BY <1>2, <2>7, <2>8, ArgsBeginOnce
  <2>10. Len(args) = Len(rest) /\ \A k \in 1..Len(args) : args[k] = rest[k]
    <3> HIDE DEF rest
    <3>1. Len(args) = Len(c) - i BY <1>1, <1>3, <2>3, <2>6, <2>9
    <3>2. \A k \in 1..Len(args) : c[i + k] = args[k] BY <2>6, <2>9
    <3> QED BY <1>6, <3>1, <3>2
  <2> HIDE DEF rest
  <2> QED BY <1>6, <2>2, <2>10
<1>10. A!Meaning(c) = CHOOSE args \in A!Suffixes(c) : A!Meant(c, args) BY DEF A!Meaning
<1> HIDE DEF rest
<1>11. A!Meaning(c) = rest BY <1>7, <1>8, <1>9, <1>10
<1> QED BY <1>11 DEF rest

(* The arguments a program gets are those that the user means.             *)
LEMMA ArgsAreMeaning ==
  ASSUME NEW c, IsString(c), Len(A!Word(c)) <= FNAME_SIZE, A!Meaning(c) # <<>>
  PROVE  /\ c # <<>> /\ A!HasArgs(c)
         /\ \A k \in 0..(ARG_SIZE - 2) :
              A!strncpy(A!strncpy(A!ParsedArgs(c)))[k] =
                IF k < Len(A!Meaning(c)) THEN A!Meaning(c)[k + 1] ELSE NUL
<1> DEFINE n == Len(A!Word(c))
           i == A!SpacesSkipped(c)
           args == A!Meaning(c)
           bytes == A!ParsedArgs(c)
<1>1. Len(c) \in Nat /\ c \in Seq(Range(c)) /\ ARG_SIZE \in Nat \ {0}
  BY ArgSizes DEF IsString, IsSequence
<1>2. HasWord(c, n) BY WordIs
<1>3. ArgsBegin(c, n, i) BY <1>2, SkippedIs
<1>4. args = SubSeq(c, i + 1, Len(c)) BY <1>3, MeaningIs
<1>5. n \in 0..Len(c) /\ i \in n..Len(c) BY <1>2, <1>3 DEF HasWord, ArgsBegin
<1> HIDE DEF n, i, args
<1>6. Len(args) = Len(c) - i /\ \A k \in 1..Len(args) : args[k] = c[i + k] BY <1>1, <1>4, <1>5
<1>7. i < Len(c)
  <2>1. i = Len(c) => args = <<>> BY <1>1, <1>4
  <2> QED BY <1>1, <1>5, <2>1 DEF args
<1>8. c # <<>> /\ A!HasArgs(c)
  <2>1. i + 1 \in 1..Len(c) BY <1>1, <1>5, <1>7
  <2> QED BY <1>1, <1>7, <2>1 DEF A!HasArgs, A!CharAt, IsString, NUL, A!NUL, i
<1>9. \A k \in 0..(ARG_SIZE - 2) : bytes[k] = IF k < Len(args) THEN args[k + 1] ELSE NUL
  <2> SUFFICES ASSUME NEW k \in 0..(ARG_SIZE - 2)
               PROVE  bytes[k] = IF k < Len(args) THEN args[k + 1] ELSE NUL
    OBVIOUS
  <2>1. k \in 0..(ARG_SIZE - 1) /\ k # ARG_SIZE - 1 BY <1>1
  <2>2. bytes[k] = A!CharAt(c, i + k)
    BY <2>1 DEF A!ParsedArgs, A!ArgBytes, A!ARG_NULL_TERMINATOR_INDEX, i
  <2>3. i + k < Len(c) <=> k < Len(args) BY <1>1, <1>5, <1>6
  <2>4. k < Len(args) => args[k + 1] = c[(i + k) + 1] BY <1>1, <1>5, <1>6
  <2> QED BY <2>2, <2>3, <2>4 DEF A!CharAt, NUL, A!NUL
<1>10. \A k \in 1..Len(args) : args[k] # NUL BY <1>1, <1>5, <1>6 DEF IsString
<1> HIDE DEF bytes
<1> DEFINE CutTo(src, k) == src[k] = IF k < Len(args) THEN args[k + 1] ELSE NUL
<1>11. ASSUME NEW src, \A k \in 0..(ARG_SIZE - 2) : CutTo(src, k)
       PROVE  \A k \in 0..(ARG_SIZE - 2) : CutTo(A!strncpy(src), k)
  <2> SUFFICES ASSUME NEW k \in 0..(ARG_SIZE - 2) PROVE CutTo(A!strncpy(src), k) OBVIOUS
  <2>1. k \in A!ArgBytes /\ k \in 0..k BY <1>1 DEF A!ArgBytes
  <2>2. A!strncpy(src)[k] = IF \E j \in 0..k : src[j] = NUL THEN NUL ELSE src[k]
    BY <2>1 DEF A!strncpy, NUL, A!NUL
  <2>3. CASE k < Len(args)
    <3>1. \A j \in 0..k : j \in 0..(ARG_SIZE - 2) /\ j < Len(args) /\ j + 1 \in 1..Len(args)
      BY <1>1, <1>5, <1>6, <2>3
    <3>2. \A j \in 0..k : src[j] # NUL BY <1>10, <1>11, <3>1
    <3> QED BY <1>11, <2>2, <2>3, <3>2
  <2>4. CASE ~(k < Len(args))
    <3>1. src[k] = NUL BY <1>11, <2>4
    <3> QED BY <2>1, <2>2, <2>4, <3>1
  <2> QED BY <2>3, <2>4
<1>12. \A k \in 0..(ARG_SIZE - 2) : CutTo(bytes, k) BY <1>9
<1>13. \A k \in 0..(ARG_SIZE - 2) : CutTo(A!strncpy(A!strncpy(bytes)), k)
  <2> HIDE DEF CutTo
  <2> QED BY <1>11, <1>12
<1> QED BY <1>8, <1>13 DEF bytes, args

----------------------------------------------------------------------------
(* The invariant.                                                          *)

IsTable(f) == f = [p \in Processes |-> f[p]]
IsRun(r) == r = [prog |-> r.prog, pc |-> r.pc, fd |-> r.fd, mem |-> r.mem]
IsTests(m) ==
  m = [tests |-> m.tests, calls |-> m.calls, failures |-> m.failures, fail |-> m.fail, all |-> m.all]

(* What syserr knows between its calls: the tests and the calls to come.   *)
TestCalls == UNION {Range(Tests[n]) : n \in 1..8}
TestMemory(r) ==
  r.prog = "syserr" /\ r.pc \in {"asked", "tested"} =>
    /\ IsTests(r.mem) /\ r.mem.tests \in Seq(1..8) /\ r.mem.calls \in Seq(TestCalls)
    /\ r.mem.fail \in Nat
    /\ r.pc = "asked" => r.mem.tests # <<>> /\ r.mem.calls # <<>>

(* What a parent gets from a program that ended, and what a shell says.    *)
Result(how, status, r) ==
  \/ how = "refused" /\ r = -1
  \/ how = "exception" /\ r = 256
  \/ how = "halted" /\ status \in Int /\ r = status % 256
Told(how, status, bytes) ==
  bytes = CASE how = "refused"   -> <<"no such command">>
            [] how = "exception" -> <<"program terminated by exception">>
            [] how = "halted" /\ status % 256 = 0 -> <<>>
            [] OTHER             -> <<"program terminated abnormally">>

ShellAt(r, pc) == r.prog = "shell" /\ r.pc = pc

(* The tables are tables and the programs that wait have executed another. *)
Tables ==
  /\ cur_pid \in Processes
  /\ IsTable(run) /\ IsTable(out) /\ IsTable(typed) /\ IsTable(arg_ptr) /\ IsTable(process_fdt)
  /\ \A p \in 0..cur_pid : IsRun(run[p]) /\ TestMemory(run[p])
  /\ \A p \in 0..(cur_pid - 1) : run[p].prog = "shell" => run[p].pc = "ran"

(* Descriptor 0 is the terminal, so what a shell has read is a line.       *)
Terminals ==
  \A p \in Processes : /\ process_fdt[p] = [fd \in Entries |-> process_fdt[p][fd]]
                       /\ process_fdt[p][0].flags = STDIN_FLAG

(* Every process has the arguments of its command, and getargs copies them *)
Arguments ==
  /\ \A p \in Processes :
       /\ IsString(typed[p])
       /\ typed[p] # <<>> /\ A!HasArgs(typed[p]) => arg_ptr[p] = A!strncpy(A!ParsedArgs(typed[p]))
  /\ nbytes >= 0 /\ ret = 0 => argbuf = A!strncpy(arg_ptr[cur_pid])

(* The call being made, if any.                                            *)
Calling ==
  call # <<>> =>
    /\ call = <<call[1], call[2], call[3]>>
    /\ call[1] = SYS_EXECUTE => IsString(call[2]) /\ (Me.prog = "shell" => Me.pc = "ran")
    /\ call[1] = SYS_HALT => call[2] \in Int
    /\ ShellAt(Me, "typed") => call[1] = SYS_HALT \/ call = <<SYS_READ, 0, BUFSIZE - 1>>
    /\ done # None => ShellAt(Me, "line") /\ call[1] \notin {SYS_HALT, SYS_EXECUTE}

(* What the shell knows of the program that ended.                         *)
Telling ==
  /\ call = <<>> /\ ShellAt(Me, "typed") => IsSequence(buf)
  /\ call = <<>> /\ ShellAt(Me, "ran") /\ done # None => Result(done.how, done.status, ret)
  /\ ShellAt(Me, "line") /\ done # None => Told(done.how, done.status, out[cur_pid])

ProgramsInv == Tables /\ Terminals /\ Arguments /\ Calling /\ Telling

(* The invariant gives the properties.                                     *)
LEMMA InvGetsOwnArgs == ASSUME ProgramsInv PROVE GetsOwnArgs
<1> DEFINE command == typed[cur_pid]
<1> SUFFICES ASSUME nbytes >= 0, ret = 0, Len(A!Word(command)) <= FNAME_SIZE,
                    A!Meaning(command) # <<>>
             PROVE  \A k \in 0..(ARG_SIZE - 2) :
                      argbuf[k] = IF k < Len(A!Meaning(command)) THEN A!Meaning(command)[k + 1] ELSE NUL
  BY DEF GetsOwnArgs, A!GetsOwnArgs, NUL, A!NUL
<1>1. cur_pid \in Processes /\ IsString(command) BY DEF ProgramsInv, Tables, Arguments
<1>2. command # <<>> /\ A!HasArgs(command) /\ \A k \in 0..(ARG_SIZE - 2) :
        A!strncpy(A!strncpy(A!ParsedArgs(command)))[k] =
          IF k < Len(A!Meaning(command)) THEN A!Meaning(command)[k + 1] ELSE NUL
  BY <1>1, ArgsAreMeaning
<1>3. argbuf = A!strncpy(A!strncpy(A!ParsedArgs(command)))
  BY <1>1, <1>2 DEF ProgramsInv, Arguments
<1> QED BY <1>2, <1>3

LEMMA InvShellTells == ASSUME ProgramsInv PROVE ShellTells
BY DEF ProgramsInv, Telling, ShellTells, Told, ShellAt, At

----------------------------------------------------------------------------
(* Steps of a program.                                                     *)

(* The program goes on at pc.                                              *)
LEMMA WithIs ==
  ASSUME Tables, NEW pc, NEW fd, NEW mem, With(pc, fd, mem), cur_pid' = cur_pid
  PROVE  /\ IsTable(run)' /\ Me' = [prog |-> Me.prog, pc |-> pc, fd |-> fd, mem |-> mem]
         /\ \A p \in Processes : p # cur_pid => run'[p] = run[p]
<1>1. cur_pid \in Processes /\ IsTable(run) /\ IsRun(Me)
  <2>1. cur_pid \in 0..cur_pid BY SizesAssumption DEF Tables, Processes
  <2> QED BY <2>1 DEF Tables, Me
<1>2. [Me EXCEPT !.pc = pc, !.fd = fd, !.mem = mem] = [prog |-> Me.prog, pc |-> pc, fd |-> fd, mem |-> mem]
  <2> DEFINE r0 == [prog |-> Me.prog, pc |-> Me.pc, fd |-> Me.fd, mem |-> Me.mem]
             r1 == [prog |-> Me.prog, pc |-> pc, fd |-> Me.fd, mem |-> Me.mem]
             r2 == [prog |-> Me.prog, pc |-> pc, fd |-> fd, mem |-> Me.mem]
  <2>1. Me = r0 BY <1>1 DEF IsRun
  <2>2. [r0 EXCEPT !.pc = pc] = r1 OBVIOUS
  <2>3. [r1 EXCEPT !.fd = fd] = r2 OBVIOUS
  <2>4. [r2 EXCEPT !.mem = mem] = [prog |-> Me.prog, pc |-> pc, fd |-> fd, mem |-> mem] OBVIOUS
  <2> HIDE DEF r0, r1, r2
  <2> QED BY <2>1, <2>2, <2>3, <2>4, Zenon
<1>3. run' = [run EXCEPT ![cur_pid] = [Me EXCEPT !.pc = pc, !.fd = fd, !.mem = mem]]
  BY DEF With, Me
<1> QED BY <1>1, <1>2, <1>3 DEF IsTable, Me

(* A step that makes no call but ordinary ones, and ends with an integer.  *)
Ordinary(c) == /\ c # <<>> => c = <<c[1], c[2], c[3]>> /\ c[1] # SYS_EXECUTE
               /\ c # <<>> /\ c[1] = SYS_HALT => c[2] \in Int
Asks == UNCHANGED callVars /\ done' = None /\ Ordinary(call')
Shows == \E b : out' = [out EXCEPT ![cur_pid] = b]
Moves == run' = run \/ \E pc, fd, mem : With(pc, fd, mem)
Goes == call = <<>> /\ Asks /\ Shows /\ Moves

(* Such a step leaves all but the program and its output alone.            *)
LEMMA Stays ==
  ASSUME ProgramsInv, UNCHANGED callVars, Shows, Moves
  PROVE  /\ Me'.prog = Me.prog /\ IsRun(Me)' /\ cur_pid' = cur_pid /\ ret' = ret /\ buf' = buf
         /\ TestMemory(Me') => Tables' /\ Terminals' /\ Arguments'
<1>1. /\ cur_pid' = cur_pid /\ typed' = typed /\ arg_ptr' = arg_ptr /\ process_fdt' = process_fdt
      /\ nbytes' = nbytes /\ ret' = ret /\ argbuf' = argbuf /\ buf' = buf
  BY DEF callVars, vars
<1>2. cur_pid \in Processes /\ IsTable(run) /\ cur_pid \in Nat /\ 0..cur_pid \subseteq Processes
  BY SizesAssumption DEF ProgramsInv, Tables, Processes
<1>3. IsTable(run)' /\ IsRun(Me)' /\ Me'.prog = Me.prog /\ \A p \in Processes : p # cur_pid => run'[p] = run[p]
  <2>1. CASE run' = run BY <1>1, <1>2, <2>1 DEF ProgramsInv, Tables, IsTable, Me
  <2>2. CASE \E pc, fd, mem : With(pc, fd, mem)
    <3>1. PICK pc, fd, mem : With(pc, fd, mem) BY <2>2
    <3> QED BY <1>1, <3>1, WithIs DEF ProgramsInv, IsRun
  <2> QED BY <2>1, <2>2 DEF Moves
<1>4. ASSUME TestMemory(Me') PROVE Tables'
  <2>1. IsTable(out)' BY <1>1, <1>2 DEF Shows, IsTable, ProgramsInv, Tables
  <2>2. ASSUME NEW p \in 0..cur_pid PROVE IsRun(run'[p]) /\ TestMemory(run'[p])
    <3>1. CASE p = cur_pid
      <4>1. run'[p] = Me' BY <1>1, <3>1 DEF Me
      <4> QED BY <1>3, <1>4, <4>1 DEF IsRun
    <3>2. CASE p # cur_pid BY <1>2, <1>3, <3>2 DEF ProgramsInv, Tables
    <3> QED BY <3>1, <3>2
  <2>3. \A p \in 0..(cur_pid - 1) : run'[p].prog = "shell" => run'[p].pc = "ran"
    BY <1>2, <1>3 DEF ProgramsInv, Tables
  <2> QED BY <1>1, <1>2, <1>3, <2>1, <2>2, <2>3 DEF ProgramsInv, Tables, IsTable
<1>5. Terminals' /\ Arguments' BY <1>1 DEF ProgramsInv, Terminals, Arguments
<1> QED BY <1>1, <1>3, <1>4, <1>5

(* A program that is not the shell keeps the invariant.                    *)
LEMMA GoesKeeps ==
  ASSUME ProgramsInv, Goes, Me.prog # "shell", TestMemory(Me')
  PROVE  ProgramsInv'
<1>1. Me'.prog = Me.prog /\ Tables' /\ Terminals' /\ Arguments' BY Stays DEF Goes, Asks
<1>2. Calling' BY <1>1 DEF Goes, Asks, Ordinary, Calling, ShellAt
<1>3. Telling' BY <1>1 DEF Goes, Asks, Telling, ShellAt
<1> QED BY <1>1, <1>2, <1>3 DEF ProgramsInv

(* The wrappers of the system calls and what they come to.                 *)
LEMMA Wrappers ==
  ASSUME Tables, call = <<>>
  PROVE  /\ \A eax, ebx, ecx : Call(eax, ebx, ecx) /\ eax \notin {SYS_HALT, SYS_EXECUTE} => Asks
         /\ \A fd, n, bytes : Read(fd, n, bytes) => Asks
         /\ \A n, bytes : GetArgs(n, bytes) => Asks
         /\ \A name : Open(name) => Asks
         /\ \A bytes : Write(bytes) => Asks /\ Shows
         /\ \A bytes : Says(bytes) => Shows /\ (done' = None => Asks)
         /\ Compute => Asks
         /\ \A bytes : \A status \in Int : Exit(bytes, status) => Asks /\ Shows /\ Moves
         /\ Silent => Shows
         /\ \A bytes : Prints(bytes) => Shows
         /\ \A pc : Goto(pc) => Moves
         /\ \A pc, fd, mem : With(pc, fd, mem) => Moves
<1>1. \A a, b, c, n : Trap(a, b, c, n) /\ done' = None /\ (a # SYS_EXECUTE /\ (a = SYS_HALT => b \in Int)) => Asks
  BY DEF Trap, Asks, Ordinary
<1>2. /\ \A eax, ebx, ecx : Call(eax, ebx, ecx) /\ eax \notin {SYS_HALT, SYS_EXECUTE} => Asks
      /\ \A ebx, ecx : \A status \in Int : Call(SYS_HALT, status, ecx) => Asks
  BY <1>1 DEF Call, SYS_HALT, SYS_EXECUTE
<1>3. /\ \A fd, n, bytes : Read(fd, n, bytes) => Asks
      /\ \A n, bytes : GetArgs(n, bytes) => Asks
  BY <1>1 DEF Read, GetArgs, SYS_HALT, SYS_EXECUTE, SYS_READ, SYS_GETARGS
<1>4. \A name : Open(name) => Asks BY <1>2 DEF Open, SYS_HALT, SYS_EXECUTE, SYS_OPEN
<1>5. \A bytes : Prints(bytes) => Shows BY DEF Prints, Shows
<1>6. \A bytes : Write(bytes) => Asks /\ Shows
  BY <1>2, <1>5 DEF Write, SYS_HALT, SYS_EXECUTE, SYS_WRITE
<1>7. ASSUME NEW bytes, Says(bytes) PROVE Shows /\ (done' = None => Asks)
  <2>1. Shows BY <1>7 DEF Says, Shows
  <2>2. Trap(SYS_WRITE, 1, Len(bytes), 0) BY <1>7 DEF Says
  <2> QED BY <1>1, <2>1, <2>2 DEF SYS_HALT, SYS_EXECUTE, SYS_WRITE
<1>8. Compute => Asks BY DEF Compute, Asks, Ordinary
<1>9. Silent => Shows
  <2>1. out = [out EXCEPT ![cur_pid] = out[cur_pid]] BY DEF Tables, IsTable
  <2> QED BY <2>1 DEF Silent, Shows
<1>10. (\A pc, fd, mem : With(pc, fd, mem) => Moves) /\ (\A pc : Goto(pc) => Moves)
  BY DEF Moves, Goto
<1>11. \A bytes : \A status \in Int : Exit(bytes, status) => Asks /\ Shows /\ Moves
  BY <1>2, <1>5 DEF Exit, Moves
<1> QED BY <1>2, <1>3, <1>4, <1>5, <1>6, <1>7, <1>8, <1>9, <1>10, <1>11

LEMMA CatGoes == ASSUME Tables, Cat PROVE Goes
<1>1. call = <<>> BY DEF Cat, At
<1>2. 0 \in Int /\ 2 \in Int /\ 3 \in Int OBVIOUS
<1>3. \A bytes : Copies(bytes) => Asks /\ Shows BY <1>1, Wrappers DEF Copies
<1> QED BY <1>1, <1>2, <1>3, Wrappers DEF Cat, Goes

LEMMA LsGoes == ASSUME Tables, Ls PROVE Goes
<1>1. call = <<>> BY DEF Ls, At
<1>2. 0 \in Int /\ 2 \in Int /\ 3 \in Int OBVIOUS
<1> QED BY <1>1, <1>2, Wrappers DEF Ls, Goes

LEMMA HelloGoes == ASSUME Tables, Hello PROVE Goes
<1>1. call = <<>> BY DEF Hello, At
<1>2. 0 \in Int /\ 3 \in Int OBVIOUS
<1> QED BY <1>1, <1>2, Wrappers DEF Hello, Goes

LEMMA CounterGoes == ASSUME Tables, Counter PROVE Goes
<1>1. call = <<>> BY DEF Counter, At
<1>2. 0 \in Int /\ 3 \in Int OBVIOUS
<1>3. \A i, max : CountsTo(i, max) => Goes BY <1>1, <1>2, Wrappers DEF CountsTo, Goes
<1> QED BY <1>1, <1>2, <1>3, Wrappers DEF Counter, Goes

LEMMA TestprintGoes == ASSUME Tables, Testprint PROVE Goes
<1>1. call = <<>> BY DEF Testprint, At
<1>2. 0 \in Int OBVIOUS
<1> QED BY <1>1, <1>2, Wrappers DEF Testprint, Goes

LEMMA SigtestGoes == ASSUME Tables, Sigtest PROVE Goes \/ Crash
<1>1. call = <<>> BY DEF Sigtest, At
<1>2. 3 \in Int /\ SYS_SET_HANDLER \notin {SYS_HALT, SYS_EXECUTE}
  BY DEF SYS_HALT, SYS_EXECUTE, SYS_SET_HANDLER
<1> QED BY <1>1, <1>2, Wrappers DEF Sigtest, Goes

LEMMA PingpongGoes == ASSUME Tables, Pingpong PROVE Goes
<1>1. call = <<>> BY DEF Pingpong, At
<1>2. SYS_WRITE \notin {SYS_HALT, SYS_EXECUTE} BY DEF SYS_HALT, SYS_EXECUTE, SYS_WRITE
<1> QED BY <1>1, <1>2, Wrappers DEF Pingpong, Goes

LEMMA GrepGoes == ASSUME Tables, Grep PROVE Goes
<1>1. call = <<>> BY DEF Grep, At
<1>2. 0 \in Int /\ 2 \in Int /\ 3 \in Int /\ SYS_CLOSE \notin {SYS_HALT, SYS_EXECUTE}
  BY DEF SYS_HALT, SYS_EXECUTE, SYS_CLOSE
<1>3. /\ \A dir, mem : NextName(dir, mem) => Goes
      /\ \A fd, mem : ReadOn(fd, mem) => Asks /\ Moves
  BY <1>1, Wrappers DEF NextName, ReadOn, Goes
<1> QED BY <1>1, <1>2, <1>3, Wrappers DEF Grep, Goes

LEMMA FishGoes == ASSUME Tables, Fish PROVE Goes
<1>1. call = <<>> BY DEF Fish, FishRead, FishGot, FishBoth, FishEnd, At
<1>2. -1 \in Int /\ 0 \in Int /\ {SYS_CLOSE, SYS_WRITE, SYS_VIDMAP} \cap {SYS_HALT, SYS_EXECUTE} = {}
  BY DEF SYS_HALT, SYS_EXECUTE, SYS_CLOSE, SYS_WRITE, SYS_VIDMAP
<1>3. FishRead \/ FishGot \/ FishBoth \/ FishEnd => Goes
  BY <1>1, <1>2, Wrappers DEF FishRead, FishGot, FishBoth, FishEnd, Goes
<1> QED BY <1>1, <1>2, <1>3, Wrappers DEF Fish, Goes

(* The programs that only go on.                                           *)
LEMMA PlainKeep ==
  ASSUME ProgramsInv,
         Cat \/ Ls \/ Hello \/ Counter \/ Testprint \/ Sigtest \/ Pingpong \/ Grep \/ Fish, ~Crash
  PROVE  ProgramsInv'
<1>1. Goes
  BY CatGoes, LsGoes, HelloGoes, CounterGoes, TestprintGoes, SigtestGoes, PingpongGoes, GrepGoes,
     FishGoes DEF ProgramsInv
<1>2. Me.prog \notin {"shell", "syserr"}
  BY DEF Cat, Ls, Hello, Counter, Testprint, Sigtest, Pingpong, Grep, Fish, FishRead, FishGot, FishBoth,
         FishEnd, At
<1>3. Me'.prog = Me.prog BY <1>1, Stays DEF Goes, Asks
<1>4. TestMemory(Me') BY <1>2, <1>3 DEF TestMemory
<1> QED BY <1>1, <1>2, <1>4, GoesKeeps

----------------------------------------------------------------------------
(* syserr.                                                                 *)

IsTest(s) ==
  /\ IsSequence(s) /\ s # <<>>
  /\ \A i \in 1..Len(s) : s[i][1] \notin {SYS_HALT, SYS_EXECUTE}

(* A sequence is one of its own elements, and of those of any larger set.  *)
LEMMA OfRange == ASSUME NEW X, NEW s \in Seq(X) PROVE IsSequence(s)
<1>1. Len(s) \in Nat /\ s = [i \in 1..Len(s) |-> s[i]] /\ \A i \in 1..Len(s) : s[i] \in Range(s)
  BY DEF Range
<1> QED BY <1>1 DEF IsSequence
LEMMA InLarger == ASSUME NEW s, IsSequence(s), NEW X, Range(s) \subseteq X PROVE s \in Seq(X)
<1>1. s \in Seq(Range(s)) BY DEF IsSequence
<1> DEFINE Y == Range(s)
<1> HIDE DEF Y
<1>2. s \in Seq(Y) /\ Y \subseteq X BY <1>1 DEF Y
<1> QED BY <1>2

LEMMA TwoTests == ASSUME NEW s, NEW t, IsTest(s), IsTest(t) PROVE IsTest(s \o t)
<1> DEFINE X == Range(s) \cup Range(t)
<1>1. s \in Seq(X) /\ t \in Seq(X) BY DEF IsTest, IsSequence
<1> HIDE DEF X
<1>2. /\ s \o t \in Seq(X) /\ Len(s \o t) = Len(s) + Len(t)
      /\ \A k \in 1..(Len(s) + Len(t)) : (s \o t)[k] = IF k <= Len(s) THEN s[k] ELSE t[k - Len(s)]
  BY <1>1, JoinedSeq
<1>3. Len(s) \in Nat /\ Len(t) \in Nat /\ Len(s) > 0 BY <1>1 DEF IsTest
<1> DEFINE u == s \o t
<1> HIDE DEF u
<1>4. IsSequence(u) /\ u # <<>>
  <2>1. u \in Seq(X) /\ Len(u) # 0 BY <1>2, <1>3 DEF u
  <2> QED BY <2>1, OfRange
<1>5. ASSUME NEW i \in 1..Len(u) PROVE u[i][1] \notin {SYS_HALT, SYS_EXECUTE}
  <2>1. CASE i <= Len(s) BY <1>2, <1>3, <2>1 DEF IsTest, u
  <2>2. CASE ~(i <= Len(s))
    <3>1. i - Len(s) \in 1..Len(t) BY <1>2, <1>3, <2>2 DEF u
    <3> QED BY <1>2, <1>3, <2>2, <3>1 DEF IsTest, u
  <2> QED BY <2>1, <2>2
<1> QED BY <1>4, <1>5 DEF IsTest, u

LEMMA FunctionTest ==
  ASSUME NEW n \in Nat \ {0}, NEW f, f = [i \in 1..n |-> f[i]],
         \A i \in 1..n : f[i][1] \notin {SYS_HALT, SYS_EXECUTE}
  PROVE  IsTest(f)
<1>1. f \in Seq(Range(f)) /\ Len(f) = n
  <2>1. \A i \in 1..n : f[i] \in Range(f) BY DEF Range
  <2> QED BY <2>1
<1> QED BY <1>1 DEF IsTest, IsSequence

(* No test halts or executes a program.                                    *)
LEMMA TestsAre ==
  /\ \A n \in 1..8 : Tests[n] \in Seq(TestCalls) /\ Tests[n] # <<>>
  /\ \A c \in TestCalls : c[1] \notin {SYS_HALT, SYS_EXECUTE}
<1> USE DEF SYS_HALT, SYS_EXECUTE, SYS_READ, SYS_WRITE, SYS_OPEN, SYS_CLOSE, SYS_VIDMAP
<1>1. \A fd : IsTest(ReadWriteClose(fd))
  BY DEF ReadWriteClose, IsTest, IsSequence, Range
<1>2. ASSUME NEW n \in Nat \ {0}, NEW f, f = [i \in 1..n |-> f[i]],
             NEW eax, eax \notin {SYS_HALT, SYS_EXECUTE}
      PROVE  IsTest(On(f, eax))
  <2>1. DOMAIN f = 1..n BY <1>2
  <2>2. /\ On(f, eax) = [i \in 1..n |-> On(f, eax)[i]]
        /\ \A i \in 1..n : On(f, eax)[i][1] = eax
    BY <2>1 DEF On
  <2> HIDE DEF SYS_HALT, SYS_EXECUTE
  <2> QED BY <1>2, <2>2, FunctionTest
<1>3. IsTest(err_open_lots)
  <2> DEFINE f == [k \in 1..7 |-> <<SYS_OPEN, Dot, 0>>]
             g == [i \in 1..6 |-> i + 1]
  <2>1. IsTest(f)
    <3>1. f = [i \in 1..7 |-> f[i]] /\ \A i \in 1..7 : f[i][1] \notin {SYS_HALT, SYS_EXECUTE} OBVIOUS
    <3>2. 7 \in Nat \ {0} OBVIOUS
    <3> HIDE DEF f
    <3> QED BY <3>1, <3>2, FunctionTest
  <2>2. IsTest(On(g, SYS_CLOSE))
    <3>1. g = [i \in 1..6 |-> g[i]] OBVIOUS
    <3>2. 6 \in Nat \ {0} OBVIOUS
    <3>3. SYS_CLOSE \notin {SYS_HALT, SYS_EXECUTE} OBVIOUS
    <3> HIDE DEF g, SYS_CLOSE, SYS_HALT, SYS_EXECUTE
    <3> QED BY <1>2, <3>1, <3>2, <3>3
  <2> HIDE DEF f, g
  <2>3. IsTest(f \o On(g, SYS_CLOSE)) BY <2>1, <2>2, TwoTests
  <2> QED BY <2>3 DEF err_open_lots, f, g
<1>4. IsTest(err_open)
  <2> DEFINE a == Append(HelloName, Last(HelloName))
             b == Front(ShellName)
  <2> HIDE DEF a, b
  <2>1. IsTest(<< <<SYS_OPEN, a, 0>>, <<SYS_OPEN, b, 0>>, <<SYS_OPEN, <<>>, 0>> >>)
    BY DEF IsTest, IsSequence, Range
  <2> QED BY <2>1 DEF err_open, a, b
<1>5. IsTest(err_unopened)
  <2> DEFINE f == [i \in 1..8 |-> i - 1]
             g == [i \in 1..6 |-> i + 1]
  <2>1. f = [i \in 1..8 |-> f[i]] /\ g = [i \in 1..6 |-> g[i]] OBVIOUS
  <2> HIDE DEF f, g
  <2>2. IsTest(On(f, SYS_CLOSE)) /\ IsTest(On(g, SYS_READ)) /\ IsTest(On(g, SYS_WRITE))
    <3>1. 6 \in Nat \ {0} /\ 8 \in Nat \ {0} OBVIOUS
    <3>2. {SYS_CLOSE, SYS_READ, SYS_WRITE} \cap {SYS_HALT, SYS_EXECUTE} = {} OBVIOUS
    <3> HIDE DEF SYS_CLOSE, SYS_READ, SYS_WRITE, SYS_HALT, SYS_EXECUTE
    <3> QED BY <1>2, <2>1, <3>1, <3>2
  <2>3. IsTest(On(f, SYS_CLOSE) \o On(g, SYS_READ)) BY <2>2, TwoTests
  <2>4. IsTest(On(f, SYS_CLOSE) \o On(g, SYS_READ) \o On(g, SYS_WRITE)) BY <2>2, <2>3, TwoTests
  <2> QED BY <2>4 DEF err_unopened, f, g
<1>6. IsTest(err_vidmap) /\ IsTest(err_stdin_out) /\ IsTest(err_syscall_num)
  BY DEF err_vidmap, err_stdin_out, err_syscall_num, BIG_FD, NEG_FD, IsTest, IsSequence, Range
<1>7. \A n \in 1..8 : IsTest(Tests[n])
  <2>1. /\ IsTest(Tests[1]) /\ IsTest(Tests[2]) /\ IsTest(Tests[3]) /\ IsTest(Tests[4])
        /\ IsTest(Tests[5]) /\ IsTest(Tests[6]) /\ IsTest(Tests[7]) /\ IsTest(Tests[8])
    BY <1>1, <1>3, <1>4, <1>5, <1>6 DEF Tests, err_neg_fd, err_big_fd
  <2> QED BY <2>1
<1>8. \A n \in 1..8 : Range(Tests[n]) \subseteq TestCalls BY DEF TestCalls
<1>9. ASSUME NEW n \in 1..8 PROVE Tests[n] \in Seq(TestCalls) /\ Tests[n] # <<>>
  BY <1>7, <1>8, InLarger DEF IsTest
<1>10. ASSUME NEW c \in TestCalls PROVE c[1] \notin {SYS_HALT, SYS_EXECUTE}
  <2>1. PICK n \in 1..8 : c \in Range(Tests[n]) BY DEF TestCalls
  <2>2. PICK i \in 1..Len(Tests[n]) : c = Tests[n][i]
    <3>1. DOMAIN Tests[n] = 1..Len(Tests[n]) BY <1>9
    <3> QED BY <2>1, <3>1 DEF Range
  <2> QED BY <1>7, <2>2 DEF IsTest
<1> QED BY <1>9, <1>10

Memory(tests, calls, failures, fail, all) ==
  [tests |-> tests, calls |-> calls, failures |-> failures, fail |-> fail, all |-> all]

(* Its variables after a call and after a test.                            *)
LEMMA MemoryTo ==
  ASSUME NEW m, IsTests(m), NEW x, NEW y
  PROVE  /\ [m EXCEPT !.calls = x, !.failures = y] = Memory(m.tests, x, y, m.fail, m.all)
         /\ [m EXCEPT !.tests = x, !.fail = y] = Memory(x, m.calls, m.failures, y, m.all)
<1> DEFINE m0 == Memory(m.tests, m.calls, m.failures, m.fail, m.all)
           m1 == Memory(m.tests, x, m.failures, m.fail, m.all)
           m2 == Memory(x, m.calls, m.failures, m.fail, m.all)
<1>1. m = m0 BY DEF IsTests, Memory
<1>2. [m0 EXCEPT !.calls = x] = m1 /\ [m0 EXCEPT !.tests = x] = m2 BY DEF Memory
<1>3. [m1 EXCEPT !.failures = y] = Memory(m.tests, x, y, m.fail, m.all) BY DEF Memory
<1>4. [m2 EXCEPT !.fail = y] = Memory(x, m.calls, m.failures, y, m.all) BY DEF Memory
<1> HIDE DEF m0, m1, m2
<1>5. [[m EXCEPT !.calls = x] EXCEPT !.failures = y] = Memory(m.tests, x, y, m.fail, m.all)
  BY <1>1, <1>2, <1>3, Zenon
<1>6. [[m EXCEPT !.tests = x] EXCEPT !.fail = y] = Memory(x, m.calls, m.failures, y, m.all)
  BY <1>1, <1>2, <1>4, Zenon
<1> QED BY <1>5, <1>6, Zenon

LEMMA MemoryIs ==
  ASSUME NEW tests \in Seq(1..8), NEW calls \in Seq(TestCalls), NEW failures, NEW fail \in Nat, NEW all
  PROVE  LET m == Memory(tests, calls, failures, fail, all) IN
         /\ IsTests(m) /\ m.tests = tests /\ m.calls = calls /\ m.fail = fail
         /\ m.failures = failures /\ m.all = all
BY DEF Memory, IsTests

(* It asks the first of its calls.                                         *)
LEMMA AskedGoes ==
  ASSUME ProgramsInv, call = <<>>, Me.prog = "syserr", NEW m, Asked(m), IsTests(m),
         m.tests \in Seq(1..8), m.tests # <<>>, m.calls \in Seq(TestCalls), m.calls # <<>>, m.fail \in Nat
  PROVE  Goes /\ TestMemory(Me')
<1> DEFINE c == Head(m.calls)
           n == IF c[1] = SYS_READ THEN 31 ELSE 0
<1>1. c \in TestCalls
  <2> HIDE DEF TestCalls
  <2> QED OBVIOUS
<1>2. c[1] \notin {SYS_HALT, SYS_EXECUTE} BY <1>1, TestsAre
<1>3. Trap(c[1], c[2], c[3], n) /\ done' = None /\ Silent /\ With("asked", None, m) BY DEF Asked
<1> HIDE DEF c, n
<1>4. Asks BY <1>2, <1>3 DEF Trap, Asks, Ordinary
<1>5. Shows /\ Moves BY <1>3, Wrappers DEF ProgramsInv
<1>6. Goes BY <1>4, <1>5 DEF Goes
<1>7. Me' = [prog |-> "syserr", pc |-> "asked", fd |-> None, mem |-> m]
  BY <1>3, <1>4, WithIs DEF ProgramsInv, Asks, callVars, vars
<1> QED BY <1>6, <1>7 DEF TestMemory

LEMMA TestBeginsGoes ==
  ASSUME ProgramsInv, call = <<>>, Me.prog = "syserr", NEW tests \in Seq(1..8), tests # <<>>,
         NEW fail \in Nat, NEW all, TestBegins(tests, fail, all)
  PROVE  Goes /\ TestMemory(Me')
<1> DEFINE m == Memory(tests, Tests[Head(tests)], 0, fail, all)
<1>1. Head(tests) \in 1..8 OBVIOUS
<1>2. Tests[Head(tests)] \in Seq(TestCalls) /\ Tests[Head(tests)] # <<>> BY <1>1, TestsAre
<1>3. Asked(m) BY DEF TestBegins, Memory
<1>4. /\ IsTests(m) /\ m.tests = tests /\ m.calls = Tests[Head(tests)] /\ m.fail = fail BY <1>2, MemoryIs
<1> HIDE DEF m
<1> QED BY <1>2, <1>3, <1>4, AskedGoes

LEMMA SyserrKeeps == ASSUME ProgramsInv, Syserr PROVE ProgramsInv'
<1>1. call = <<>> /\ Me.prog = "syserr" BY DEF Syserr, At
<1>2. 2 \in Int /\ 0 \in Int /\ 0 \in Nat OBVIOUS
<1>3. TestMemory(Me)
  <2>1. cur_pid \in 0..cur_pid BY SizesAssumption DEF ProgramsInv, Tables, Processes
  <2> QED BY <2>1 DEF ProgramsInv, Tables, Me
<1>4. \A bytes : \A status \in Int : Exit(bytes, status) => Goes /\ TestMemory(Me')
  <2> SUFFICES ASSUME NEW bytes, NEW status \in Int, Exit(bytes, status) PROVE Goes /\ TestMemory(Me')
    OBVIOUS
  <2>1. Goes BY <1>1, Wrappers DEF Goes, ProgramsInv
  <2>2. Me' = Me BY <2>1 DEF Exit, Goes, Asks, callVars, vars, Me
  <2> QED BY <1>3, <2>1, <2>2
<1>5. \A pc \in {"ask", "choice"} : Asks /\ Shows /\ Goto(pc) => Goes /\ TestMemory(Me')
  <2> SUFFICES ASSUME NEW pc \in {"ask", "choice"}, Asks, Shows, Goto(pc) PROVE Goes /\ TestMemory(Me')
    OBVIOUS
  <2>1. Goes BY <1>1, Wrappers DEF Goes, ProgramsInv
  <2>2. Me'.pc = pc BY WithIs DEF ProgramsInv, Asks, callVars, vars, Goto
  <2> QED BY <2>1, <2>2 DEF TestMemory
<1>6. CASE At("syserr", "start") /\ Write(<<"Choose from tests 1-8">>) /\ Goto("ask")
  BY <1>1, <1>5, <1>6, Wrappers, GoesKeeps DEF ProgramsInv
<1>7. CASE At("syserr", "ask") /\ Read(0, BUFSIZE - 1, BUFSIZE - 1) /\ Silent /\ Goto("choice")
  BY <1>1, <1>5, <1>7, Wrappers, GoesKeeps DEF ProgramsInv
<1>8. CASE /\ At("syserr", "choice")
           /\ CASE ret = -1 -> Exit(<<"Can't read test #">>, 2)
                [] ret # -1 /\ Digit(buf[1]) = 0       -> TestBegins(<<1, 2, 3, 4, 5, 6, 7, 8>>, 0, TRUE)
                [] ret # -1 /\ Digit(buf[1]) \in 1..8 -> TestBegins(<<Digit(buf[1])>>, 0, FALSE)
                [] OTHER -> Exit(<<"Invalid test number">>, 0)
  <2> DEFINE d == Digit(buf[1])
  <2> HIDE DEF d
  <2>1. /\ <<1, 2, 3, 4, 5, 6, 7, 8>> \in Seq(1..8) /\ <<1, 2, 3, 4, 5, 6, 7, 8>> # <<>>
        /\ d \in 1..8 => <<d>> \in Seq(1..8) /\ <<d>> # <<>> OBVIOUS
  <2>2. \/ Exit(<<"Can't read test #">>, 2) \/ Exit(<<"Invalid test number">>, 0)
        \/ TestBegins(<<1, 2, 3, 4, 5, 6, 7, 8>>, 0, TRUE)
        \/ d \in 1..8 /\ TestBegins(<<d>>, 0, FALSE)
    BY <1>8 DEF d
  <2>3. Goes /\ TestMemory(Me') BY <1>1, <1>2, <1>4, <2>1, <2>2, TestBeginsGoes
  <2> QED BY <1>1, <2>3, GoesKeeps
<1>9. ASSUME At("syserr", "asked"), NEW m, m = Me.mem, NEW n, n = Head(m.tests),
             NEW counts, NEW next,
             next = [m EXCEPT !.calls = Tail(@), !.failures = @ + (IF counts THEN 1 ELSE 0)],
             IF next.calls # <<>> THEN Asked(next)
             ELSE LET result == IF Passed(n, next.failures) THEN 0 ELSE 2
                  IN /\ Write(<<IF result = 0 THEN "PASS" ELSE "FAIL">>)
                     /\ With("tested", None, [next EXCEPT !.tests = Tail(@), !.fail = @ + result])
      PROVE  Goes /\ TestMemory(Me')
  <2>1. /\ IsTests(m) /\ m.tests \in Seq(1..8) /\ m.calls \in Seq(TestCalls) /\ m.fail \in Nat
        /\ m.tests # <<>> /\ m.calls # <<>>
    BY <1>1, <1>3, <1>9 DEF TestMemory, At
  <2>2. Tail(m.tests) \in Seq(1..8) /\ Tail(m.calls) \in Seq(TestCalls)
    <3> HIDE DEF TestCalls
    <3> QED BY <2>1
  <2> DEFINE f == m.failures + (IF counts THEN 1 ELSE 0)
  <2>3. next = [m EXCEPT !.calls = Tail(m.calls), !.failures = f] BY <1>9, Zenon
  <2> HIDE DEF f
  <2>4. next = Memory(m.tests, Tail(m.calls), f, m.fail, m.all) BY <2>1, <2>3, MemoryTo
  <2>5. /\ IsTests(next) /\ next.tests = m.tests /\ next.calls = Tail(m.calls) /\ next.fail = m.fail
    BY <2>4 DEF Memory, IsTests
  <2>6. CASE next.calls # <<>>
    <3>1. Asked(next) BY <1>9, <2>6
    <3> QED BY <1>1, <2>1, <2>2, <2>5, <2>6, <3>1, AskedGoes
  <2>7. CASE next.calls = <<>>
    <3> DEFINE result == IF Passed(n, next.failures) THEN 0 ELSE 2
               k == next.fail + result
               t == Tail(next.tests)
               after == [next EXCEPT !.tests = t, !.fail = k]
    <3>1. Write(<<IF result = 0 THEN "PASS" ELSE "FAIL">>) /\ With("tested", None, after)
      BY <1>9, <2>7
    <3>2. k \in Nat /\ t \in Seq(1..8) BY <2>1, <2>2, <2>5
    <3> HIDE DEF k, t
    <3>3. after = Memory(t, next.calls, next.failures, k, next.all) BY <2>5, MemoryTo
    <3> HIDE DEF after, result
    <3>4. IsTests(after) /\ after.tests \in Seq(1..8) /\ after.calls \in Seq(TestCalls) /\ after.fail \in Nat
      <4>1. next.calls \in Seq(TestCalls) BY <2>2, <2>5
      <4> QED BY <3>2, <3>3, <4>1, MemoryIs
    <3>5. Goes BY <1>1, <3>1, Wrappers DEF Goes, ProgramsInv
    <3>6. Me' = [prog |-> "syserr", pc |-> "tested", fd |-> None, mem |-> after]
      BY <1>1, <3>1, <3>5, WithIs DEF ProgramsInv, Goes, Asks, callVars, vars
    <3> QED BY <3>4, <3>5, <3>6 DEF TestMemory
  <2> QED BY <2>6, <2>7
<1>10. CASE /\ At("syserr", "tested")
            /\ LET m == Me.mem IN
               CASE m.tests # <<>> -> TestBegins(m.tests, m.fail, m.all)
                 [] m.tests = <<>> /\ m.all ->
                      Exit(<<IF m.fail = 0 THEN "PASS" ELSE "FAIL">>, m.fail)
                 [] OTHER          -> Exit(<<>>, m.fail)
  <2> DEFINE m == Me.mem
  <2>1. m.tests \in Seq(1..8) /\ m.fail \in Nat /\ m.fail \in Int BY <1>1, <1>3, <1>10 DEF TestMemory, At
  <2>2. \/ m.tests # <<>> /\ TestBegins(m.tests, m.fail, m.all)
        \/ Exit(<<IF m.fail = 0 THEN "PASS" ELSE "FAIL">>, m.fail)
        \/ Exit(<<>>, m.fail)
    BY <1>10
  <2> HIDE DEF m
  <2>3. Goes /\ TestMemory(Me') BY <1>1, <1>4, <2>1, <2>2, TestBeginsGoes
  <2> QED BY <1>1, <2>3, GoesKeeps
<1>11. CASE /\ At("syserr", "asked")
            /\ LET m == Me.mem
                   n == Head(m.tests)
                   counts == ret = -1 /\ (n = 3 => Head(m.calls)[1] = SYS_OPEN)
                   next == [m EXCEPT !.calls = Tail(@), !.failures = @ + (IF counts THEN 1 ELSE 0)]
               IN IF next.calls # <<>> THEN Asked(next)
                  ELSE LET result == IF Passed(n, next.failures) THEN 0 ELSE 2
                       IN /\ Write(<<IF result = 0 THEN "PASS" ELSE "FAIL">>)
                          /\ With("tested", None, [next EXCEPT !.tests = Tail(@), !.fail = @ + result])
  <2>1. Goes /\ TestMemory(Me') BY <1>9, <1>11, Zenon
  <2> QED BY <1>1, <2>1, GoesKeeps
<1> QED BY <1>6, <1>7, <1>8, <1>10, <1>11 DEF Syserr

----------------------------------------------------------------------------
(* The shell.                                                              *)

(* The command it executes is a string.                                    *)
LEMMA CommandIsString == ASSUME NEW line, IsSequence(line) PROVE IsString(String(CommandIn(line)))
<1> DEFINE bytes == CommandIn(line)
<1>1. IsSequence(bytes)
  <2>1. line \in Seq(Range(line)) BY DEF IsSequence
  <2>2. line # <<>> => Front(line) \in Seq(Range(line)) BY <2>1 DEF Front
  <2>3. bytes \in Seq(Range(line)) BY <2>1, <2>2 DEF CommandIn
  <2> HIDE DEF bytes
  <2> QED BY <2>3, OfRange
<1> HIDE DEF bytes
<1>2. Len(bytes) \in Nat /\ bytes \in Seq(Range(bytes)) BY <1>1 DEF IsSequence
<1> DEFINE I == {i \in 1..Len(bytes) : bytes[i] = NUL}
           first == SelectInSeq(bytes, LAMBDA b : b = NUL)
<1>3. CASE I = {}
  <2>1. first = 0 BY <1>3 DEF SelectInSeq
  <2>2. String(bytes) = bytes BY <2>1 DEF String
  <2> QED BY <1>1, <1>3, <2>2 DEF IsString, bytes
<1>4. CASE I # {}
  <2>1. PICK x \in I : \A y \in I : x <= y
    <3>1. I \in SUBSET Nat BY <1>2
    <3> HIDE DEF I
    <3> QED BY <1>4, <3>1, LeastNumber
  <2>2. first = Min(I) BY <1>4 DEF SelectInSeq
  <2>3. Min(I) = CHOOSE z \in I : \A y \in I : z <= y BY DEF Min
  <2> HIDE DEF I
  <2>4. Min(I) \in I /\ \A y \in I : Min(I) <= y BY <2>1, <2>3
  <2>5. first \in 1..Len(bytes) /\ \A y \in 1..Len(bytes) : bytes[y] = NUL => first <= y
    BY <2>2, <2>4 DEF I
  <2>6. first # 0 => String(bytes) = SubSeq(bytes, 1, first - 1) BY DEF String
  <2> HIDE DEF first
  <2> DEFINE s == SubSeq(bytes, 1, first - 1)
  <2>7. /\ s \in Seq(Range(bytes)) /\ Len(s) = first - 1
        /\ \A i \in 1..(first - 1) : s[i] = bytes[i] /\ bytes[i] # NUL
    BY <1>2, <2>5
  <2> HIDE DEF s
  <2>8. IsString(s) BY <2>7, OfRange DEF IsString
  <2>9. first # 0 BY <1>2, <2>5
  <2> QED BY <2>6, <2>8, <2>9 DEF s, bytes
<1> QED BY <1>3, <1>4

(* It says what the status means.                                          *)
LEMMA MessageTells ==
  ASSUME NEW how, NEW status, NEW r, Result(how, status, r)
  PROVE  Told(how, status, Message(r))
<1>0. /\ -1 # 256 /\ -1 # 0 /\ 256 # 0 /\ 256 # -1
      /\ "refused" # "exception" /\ "refused" # "halted" /\ "exception" # "halted" OBVIOUS
<1>1. CASE how = "refused" BY <1>0, <1>1, Zenon DEF Result, Told, Message
<1>2. CASE how = "exception" BY <1>0, <1>2, Zenon DEF Result, Told, Message
<1>3. CASE how = "halted"
  <2>1. status \in Int /\ r = status % 256 /\ r # -1 /\ r # 256 BY <1>3 DEF Result
  <2> QED BY <1>0, <1>3, <2>1, Zenon DEF Told, Message
<1> QED BY <1>1, <1>2, <1>3 DEF Result

LEMMA ShellKeeps == ASSUME ProgramsInv, Shell PROVE ProgramsInv'
<1>1. call = <<>> /\ Me.prog = "shell" BY DEF Shell, At
<1>2. ASSUME NEW pc, Goto(pc), cur_pid' = cur_pid PROVE Me'.prog = "shell" /\ Me'.pc = pc
  BY <1>1, <1>2, WithIs DEF ProgramsInv, Goto
<1>3. ASSUME UNCHANGED callVars, Shows, Moves PROVE Tables' /\ Terminals' /\ Arguments'
  BY <1>1, <1>3, Stays DEF TestMemory
<1>4. ASSUME NEW bytes, Says(bytes), Goto("line"),
             done' = None \/ (done' = done /\ (done # None => Told(done.how, done.status, bytes)))
      PROVE  ProgramsInv'
  <2>1. call' = <<SYS_WRITE, 1, Len(bytes)>> /\ UNCHANGED callVars BY <1>4 DEF Says, Trap
  <2>2. Shows /\ Moves BY <1>1, <1>4, Wrappers DEF ProgramsInv
  <2>3. cur_pid' = cur_pid /\ out'[cur_pid] = bytes
    BY <1>4, <2>1 DEF Says, callVars, vars, ProgramsInv, Tables, IsTable
  <2>4. Me'.prog = "shell" /\ Me'.pc = "line" BY <1>2, <1>4, <2>3
  <2>5. Calling' BY <2>1, <2>4 DEF Calling, ShellAt, SYS_WRITE, SYS_HALT, SYS_EXECUTE
  <2>6. Telling' BY <1>4, <2>1, <2>3, <2>4 DEF Telling, ShellAt
  <2> QED BY <1>3, <2>1, <2>2, <2>5, <2>6 DEF ProgramsInv
<1>5. ASSUME NEW bytes, NEW status \in Int, Exit(bytes, status) PROVE ProgramsInv'
  <2>1. Asks /\ Shows /\ Moves BY <1>1, <1>5, Wrappers DEF ProgramsInv
  <2>2. call' = <<SYS_HALT, status, 0>> /\ done' = None /\ cur_pid' = cur_pid
    BY <1>5, <2>1 DEF Exit, Call, Trap, Asks, callVars, vars
  <2>3. Calling' /\ Telling' BY <2>2 DEF Calling, Telling, SYS_HALT, SYS_EXECUTE
  <2> QED BY <1>3, <2>1, <2>3 DEF ProgramsInv, Asks
<1>6. ASSUME At("shell", "line"), Read(0, BUFSIZE - 1, BUFSIZE - 1), Silent, Goto("typed") PROVE ProgramsInv'
  <2>1. Asks /\ Shows /\ Moves BY <1>1, <1>6, Wrappers DEF ProgramsInv
  <2>2. call' = <<SYS_READ, 0, BUFSIZE - 1>> /\ done' = None /\ cur_pid' = cur_pid
    BY <1>6, <2>1 DEF Read, Trap, Asks, callVars, vars
  <2>3. Me'.prog = "shell" /\ Me'.pc = "typed" BY <1>2, <1>6, <2>2
  <2>4. Calling' /\ Telling' BY <2>2, <2>3 DEF Calling, Telling, ShellAt, SYS_READ, SYS_HALT, SYS_EXECUTE
  <2> QED BY <1>3, <2>1, <2>4 DEF ProgramsInv, Asks
<1>7. ASSUME NEW command, IsString(command), Exec(command, "ran") PROVE ProgramsInv'
  <2>1. /\ call' = <<SYS_EXECUTE, command, 0>> /\ done' = None /\ UNCHANGED callVars
        /\ Shows /\ Moves /\ Goto("ran")
    BY <1>1, <1>7, Wrappers DEF Exec, Call, Trap, ProgramsInv
  <2>2. cur_pid' = cur_pid BY <2>1 DEF callVars, vars
  <2>3. Me'.prog = "shell" /\ Me'.pc = "ran" BY <1>2, <2>1, <2>2
  <2>4. Calling' /\ Telling' BY <1>7, <2>1, <2>3 DEF Calling, Telling, ShellAt, SYS_HALT, SYS_EXECUTE
  <2> QED BY <1>3, <2>1, <2>4 DEF ProgramsInv
<1>8. CASE At("shell", "start") /\ Says(<<"Starting 391 Shell">>) /\ done' = None /\ Goto("line")
  BY <1>4, <1>8
<1>9. CASE At("shell", "line") /\ Read(0, BUFSIZE - 1, BUFSIZE - 1) /\ Silent /\ Goto("typed")
  BY <1>6, <1>9
<1>10. CASE /\ At("shell", "typed")
            /\ LET command == String(CommandIn(buf)) IN
               CASE ret = -1            -> Exit(<<"read from keyboard failed">>, 3)
                 [] command = ExitWord  -> Exit(<<>>, 0)
                 [] command = <<>>      -> Says(<<>>) /\ done' = None /\ Goto("line")
                 [] OTHER               -> Exec(command, "ran")
  <2>1. IsString(String(CommandIn(buf)))
    BY <1>1, <1>10, CommandIsString DEF ProgramsInv, Telling, ShellAt, At
  <2> DEFINE command == String(CommandIn(buf))
  <2>2. \/ Exit(<<"read from keyboard failed">>, 3) \/ Exit(<<>>, 0)
        \/ Says(<<>>) /\ done' = None /\ Goto("line")
        \/ Exec(command, "ran")
    BY <1>10
  <2> HIDE DEF command
  <2>3. 3 \in Int /\ 0 \in Int OBVIOUS
  <2>4. IsString(command) BY <2>1 DEF command
  <2> QED BY <1>4, <1>5, <1>7, <2>2, <2>3, <2>4
<1>11. CASE At("shell", "ran") /\ Says(Message(ret)) /\ done' = done /\ Goto("line")
  <2>1. done # None => Result(done.how, done.status, ret)
    BY <1>1, <1>11 DEF ProgramsInv, Telling, ShellAt, At
  <2>2. done # None => Told(done.how, done.status, Message(ret)) BY <2>1, MessageTells
  <2> QED BY <1>4, <1>11, <2>2
<1> QED BY <1>8, <1>9, <1>10, <1>11 DEF Shell

----------------------------------------------------------------------------
(* The kernel.                                                             *)

LEMMA Fresh ==
  FreshTable = [fd \in Entries |-> FreshTable[fd]] /\ FreshTable[0].flags = STDIN_FLAG
<1>1. 0 \in Entries BY SizesAssumption DEF Entries
<1> QED BY <1>1 DEF FreshTable, Unused

(* A program that has ended gives its parent what Result says.             *)
LEMMA EndKeeps ==
  ASSUME ProgramsInv, NEW status, NEW flag, sys_halt(status, flag), NEW how, NEW st, Ended(how, st),
         call' = <<>>, Result(how, st, LowByte(status) + flag)
  PROVE  ProgramsInv'
<1>1. /\ cur_pid \in Processes /\ cur_pid \in Nat /\ Depth \in Nat /\ Processes = 0..(Depth - 1)
      /\ 0..cur_pid \subseteq Processes
  BY SizesAssumption DEF ProgramsInv, Tables, Processes
<1>2. done'.how = how /\ done'.status = st BY DEF Ended
<1>3. /\ IsTable(out)' /\ IsTable(run)'
      /\ run' = [run EXCEPT ![cur_pid] = IF cur_pid' = cur_pid THEN Started("shell") ELSE None]
  BY <1>1 DEF Ended, ProgramsInv, Tables, IsTable
<1>4. CASE ~IsBase
  <2>1. Halt(LowByte(status) + flag) /\ A!Halt BY <1>4 DEF sys_halt
  <2>2. /\ cur_pid' = cur_pid - 1 /\ cur_pid > 0 /\ ret' = LowByte(status) + flag
        /\ process_fdt' = process_fdt
    BY <2>1 DEF Halt
  <2>3. /\ typed' = [typed EXCEPT ![cur_pid] = <<>>] /\ IsTable(arg_ptr)' /\ nbytes' = -1
        /\ \A p \in Processes : p # cur_pid => arg_ptr'[p] = arg_ptr[p]
    BY <1>1, <2>1 DEF A!Halt, A!Forget, ProgramsInv, Tables, IsTable
  <2>4. IsTable(typed)' /\ typed'[cur_pid] = <<>> /\ \A p \in Processes : p # cur_pid => typed'[p] = typed[p]
    BY <1>1, <2>3 DEF ProgramsInv, Tables, IsTable
  <2>5. \A p \in 0..(cur_pid - 1) : run'[p] = run[p] /\ p \in 0..cur_pid
    <3>1. ASSUME NEW p \in 0..(cur_pid - 1) PROVE p \in 0..cur_pid /\ p # cur_pid /\ p \in Processes
      BY <1>1
    <3> QED BY <1>3, <3>1 DEF ProgramsInv, Tables, IsTable
  <2>6. cur_pid - 1 \in Processes /\ cur_pid - 1 \in 0..(cur_pid - 1) BY <1>1, <2>2
  <2>7. Tables'
    <3>1. \A p \in 0..((cur_pid - 1) - 1) : p \in 0..(cur_pid - 1) BY <1>1
    <3>2. \A p \in 0..(cur_pid - 1) : IsRun(run'[p]) /\ TestMemory(run'[p]) BY <2>5 DEF ProgramsInv, Tables
    <3>3. \A p \in 0..((cur_pid - 1) - 1) : run'[p].prog = "shell" => run'[p].pc = "ran"
      BY <2>5, <3>1 DEF ProgramsInv, Tables
    <3>4. IsTable(process_fdt)' BY <2>2 DEF ProgramsInv, Tables, IsTable
    <3> QED BY <1>3, <2>2, <2>3, <2>4, <2>6, <3>2, <3>3, <3>4 DEF Tables
  <2>8. Terminals' BY <2>2 DEF ProgramsInv, Terminals
  <2>9. Arguments'
    <3>1. IsString(<<>>) BY DEF IsString, IsSequence, Range
    <3>2. ASSUME NEW p \in Processes
          PROVE  /\ IsString(typed'[p])
                 /\ typed'[p] # <<>> /\ A!HasArgs(typed'[p])
                      => arg_ptr'[p] = A!strncpy(A!ParsedArgs(typed'[p]))
      <4>1. CASE p = cur_pid BY <2>4, <3>1, <4>1
      <4>2. CASE p # cur_pid BY <2>3, <2>4, <4>2 DEF ProgramsInv, Arguments
      <4> QED BY <4>1, <4>2
    <3>3. ~(nbytes' >= 0) BY <2>3
    <3> QED BY <3>2, <3>3 DEF Arguments
  <2>10. Me'.prog = "shell" => Me'.pc = "ran"
    BY <2>2, <2>5, <2>6 DEF ProgramsInv, Tables, Me
  <2>11. Calling' BY DEF Calling
  <2>12. Telling' BY <1>2, <2>2, <2>10 DEF Telling, ShellAt
  <2> QED BY <2>7, <2>8, <2>9, <2>11, <2>12 DEF ProgramsInv
<1>5. CASE IsBase
  <2>1. /\ process_fdt' = [process_fdt EXCEPT ![cur_pid] = FreshTable] /\ cur_pid' = cur_pid
        /\ A!OtherCall
    BY <1>5 DEF sys_halt, HaltAsBase
  <2>2. typed' = typed /\ arg_ptr' = arg_ptr /\ nbytes' = -1 BY <2>1 DEF A!OtherCall, A!Forget
  <2>3. Me' = Started("shell") /\ 0..cur_pid = {cur_pid} /\ 0..(cur_pid - 1) = {}
    BY <1>1, <1>3, <1>5, <2>1 DEF Me, IsBase, ProgramsInv, Tables, IsTable
  <2>4. Tables'
    <3>1. IsRun(Me') /\ TestMemory(Me') BY <2>3 DEF Started, IsRun, TestMemory
    <3>2. IsTable(process_fdt)' BY <1>1, <2>1 DEF ProgramsInv, Tables, IsTable
    <3> QED BY <1>3, <2>1, <2>2, <2>3, <3>1, <3>2 DEF ProgramsInv, Tables, IsTable, Me
  <2>5. Terminals' BY <1>1, <2>1, Fresh DEF ProgramsInv, Terminals, Tables, IsTable
  <2>6. Arguments'
    <3>1. ~(nbytes' >= 0) BY <2>2
    <3> QED BY <2>2, <3>1 DEF ProgramsInv, Arguments
  <2>7. Calling' BY DEF Calling
  <2>8. Telling' BY <2>3 DEF Started, Telling, ShellAt
  <2> QED BY <2>4, <2>5, <2>6, <2>7, <2>8 DEF ProgramsInv
<1> QED BY <1>4, <1>5

LEMMA CrashKeeps == ASSUME ProgramsInv, Crash, call = <<>> PROVE ProgramsInv'
<1>1. sys_halt(255, 1) /\ Ended("exception", 0) /\ call' = <<>> BY DEF Crash, Exception
<1>2. LowByte(255) + 1 = 256 BY DEF LowByte
<1>3. Result("exception", 0, LowByte(255) + 1) BY <1>2 DEF Result
<1> QED BY <1>1, <1>3, EndKeeps

LEMMA ServedHalt ==
  ASSUME ProgramsInv, Served, call[1] = SYS_HALT
  PROVE  ProgramsInv'
<1>1. /\ call # <<>> /\ call' = <<>> /\ syscall(call[1], call[2], call[3]) /\ call[2] \in Int
  BY DEF Served, ProgramsInv, Calling
<1>2. Ended("halted", call[2]) BY DEF Served, SYS_HALT, SYS_EXECUTE
<1>3. sys_halt(call[2], 0)
  BY <1>1 DEF syscall, InvalidNumber, SYS_HALT, SYS_EXECUTE, SYS_READ, SYS_WRITE, SYS_OPEN, SYS_CLOSE,
              SYS_GETARGS, SYS_VIDMAP, SYS_SET_HANDLER, SYS_SIGRETURN, MAX_SYSCALL_NUM
<1>4. Result("halted", call[2], LowByte(call[2]) + 0) BY <1>1 DEF Result, LowByte
<1> QED BY <1>1, <1>2, <1>3, <1>4, EndKeeps

LEMMA ServedExecute ==
  ASSUME ProgramsInv, Served, call[1] = SYS_EXECUTE
  PROVE  ProgramsInv'
<1> DEFINE command == call[2]
<1>1. /\ call # <<>> /\ call' = <<>> /\ syscall(call[1], call[2], call[3]) /\ IsString(command)
      /\ Me.prog = "shell" => Me.pc = "ran"
  BY DEF Served, ProgramsInv, Calling
<1>2. Executed(command) BY DEF Served, SYS_HALT, SYS_EXECUTE
<1>3. sys_execute(command)
  BY <1>1 DEF syscall, InvalidNumber, SYS_HALT, SYS_EXECUTE, SYS_READ, SYS_WRITE, SYS_OPEN, SYS_CLOSE,
              SYS_GETARGS, SYS_VIDMAP, SYS_SET_HANDLER, SYS_SIGRETURN, MAX_SYSCALL_NUM
<1> HIDE DEF command
<1>4. cur_pid \in Processes /\ cur_pid \in Nat BY SizesAssumption DEF ProgramsInv, Tables, Processes
<1>5. Calling' BY <1>1 DEF Calling
<1>6. CASE Execute /\ A!Execute(command)
  <2> DEFINE q == cur_pid + 1
  <2>1. /\ q \in Processes /\ cur_pid' = q /\ q # cur_pid /\ q \in Nat
        /\ process_fdt' = [process_fdt EXCEPT ![q] = FreshTable]
    BY <1>4, <1>6 DEF Execute, TableFor
  <2>2. /\ nbytes' = -1 /\ typed' = [typed EXCEPT ![q] = command]
        /\ \E args : arg_ptr' = [arg_ptr EXCEPT ![q] = A!strncpy(args)]
        /\ A!HasArgs(command) => arg_ptr' = [arg_ptr EXCEPT ![q] = A!strncpy(A!ParsedArgs(command))]
    BY <1>6 DEF A!Execute, A!Forget
  <2> HIDE DEF q
  <2>3. PICK prog : run' = [run EXCEPT ![q] = Started(prog)]
    BY <1>2, <2>1 DEF Executed
  <2>4. out' = [out EXCEPT ![q] = <<>>] /\ done' = None BY <1>2, <2>1 DEF Executed
  <2>5. \A p \in 0..(q - 1) : p \in 0..cur_pid /\ p \in Processes /\ p # q BY <1>4, <2>1, SizesAssumption DEF q, Processes
  <2>6. IsTable(run)' /\ Me' = Started(prog) /\ \A p \in 0..(q - 1) : run'[p] = run[p]
    BY <2>1, <2>3, <2>5 DEF ProgramsInv, Tables, IsTable, Me
  <2>7. Tables'
    <3>1. IsTable(out)' /\ IsTable(typed)' /\ IsTable(arg_ptr)' /\ IsTable(process_fdt)'
      BY <2>1, <2>2, <2>4 DEF ProgramsInv, Tables, IsTable
    <3>2. IsRun(Me') /\ TestMemory(Me') BY <2>6 DEF Started, IsRun, TestMemory
    <3>3. ASSUME NEW p \in 0..q PROVE IsRun(run'[p]) /\ TestMemory(run'[p])
      <4>1. CASE p = q BY <2>1, <3>2, <4>1 DEF Me
      <4>2. CASE p # q
        <5>1. p \in 0..(q - 1) BY <2>1, <4>2
        <5> QED BY <2>5, <2>6, <5>1 DEF ProgramsInv, Tables
      <4> QED BY <4>1, <4>2
    <3>4. ASSUME NEW p \in 0..(q - 1) PROVE run'[p].prog = "shell" => run'[p].pc = "ran"
      <4>1. CASE p = cur_pid BY <1>1, <2>6, <4>1 DEF Me
      <4>2. CASE p # cur_pid
        <5>1. p \in 0..(cur_pid - 1) BY <1>4, <2>1, <4>2 DEF q
        <5> QED BY <2>6, <5>1 DEF ProgramsInv, Tables
      <4> QED BY <4>1, <4>2
    <3> QED BY <2>1, <2>6, <3>1, <3>3, <3>4 DEF Tables
  <2>8. Terminals' BY <2>1, Fresh DEF ProgramsInv, Terminals, Tables, IsTable
  <2>9. Arguments'
    <3>1. ASSUME NEW p \in Processes
          PROVE  /\ IsString(typed'[p])
                 /\ typed'[p] # <<>> /\ A!HasArgs(typed'[p])
                      => arg_ptr'[p] = A!strncpy(A!ParsedArgs(typed'[p]))
      <4>1. CASE p = q
        <5>1. typed'[p] = command BY <2>1, <2>2, <4>1 DEF ProgramsInv, Tables, IsTable
        <5>2. A!HasArgs(command) => arg_ptr'[p] = A!strncpy(A!ParsedArgs(command))
          BY <2>1, <2>2, <4>1 DEF ProgramsInv, Tables, IsTable
        <5> QED BY <1>1, <5>1, <5>2
      <4>2. CASE p # q
        <5>1. typed'[p] = typed[p] BY <2>2, <4>2 DEF ProgramsInv, Tables, IsTable
        <5>2. arg_ptr'[p] = arg_ptr[p] BY <2>2, <4>2 DEF ProgramsInv, Tables, IsTable
        <5> QED BY <5>1, <5>2 DEF ProgramsInv, Arguments
      <4> QED BY <4>1, <4>2
    <3>2. ~(nbytes' >= 0) BY <2>2
    <3> QED BY <3>1, <3>2 DEF Arguments
  <2>10. Telling' BY <2>4, <2>6 DEF Started, Telling, ShellAt
  <2> QED BY <1>5, <2>7, <2>8, <2>9, <2>10 DEF ProgramsInv
<1>7. CASE Fail /\ A!ExecuteFails(command)
  <2>1. /\ cur_pid' = cur_pid /\ process_fdt' = process_fdt /\ ret' = -1
        /\ typed' = typed /\ arg_ptr' = arg_ptr /\ nbytes' = -1
    BY <1>7 DEF Fail, Return, ERROR_VAL, A!ExecuteFails, A!OtherCall, A!Forget
  <2>2. run' = run /\ out' = out /\ done'.how = "refused" BY <1>2, <2>1 DEF Executed
  <2>3. Tables' BY <2>1, <2>2 DEF ProgramsInv, Tables, IsTable
  <2>4. Terminals' BY <2>1 DEF ProgramsInv, Terminals
  <2>5. ~(nbytes' >= 0) BY <2>1
  <2>6. Arguments' BY <2>1, <2>5 DEF ProgramsInv, Arguments
  <2>7. Me' = Me BY <2>1, <2>2 DEF Me
  <2>8. Telling' BY <1>1, <2>1, <2>2, <2>7 DEF Telling, ShellAt, Result
  <2> QED BY <1>5, <2>3, <2>4, <2>6, <2>8 DEF ProgramsInv
<1> QED BY <1>3, <1>6, <1>7 DEF sys_execute

(* The other calls: they leave the other processes alone, getargs copies   *)
(* the arguments, and a read of descriptor 0 gives a line.                 *)
Puts == process_fdt' = process_fdt \/ \E fd, e : fd # 0 /\ Put(fd, e)

LEMMA OpenPuts == ASSUME ProgramsInv, NEW name, sys_open(name) PROVE cur_pid' = cur_pid /\ Puts
<1>1. ASSUME NEW fd \in Free PROVE fd # 0 BY DEF Free, NOT_IN_OUT
<1> QED BY <1>1 DEF sys_open, OpenStandard, OpenFile, OpenFails, Return, Fail, Puts

LEMMA ClosePuts == ASSUME ProgramsInv, NEW fd, sys_close(fd) PROVE cur_pid' = cur_pid /\ Puts
<1>1. fd = 0 => CloseRefused(fd) BY DEF CloseRefused, NOT_IN_OUT
<1> QED BY <1>1 DEF sys_close, Return, Fail, Puts

LEMMA ReadPuts ==
  ASSUME ProgramsInv, NEW fd, NEW n, sys_read(fd, n)
  PROVE  cur_pid' = cur_pid /\ Puts /\ (fd = 0 /\ n = BUFSIZE - 1 => IsSequence(buf'))
<1>1. cur_pid \in Processes /\ 0 \in Entries
  BY SizesAssumption DEF ProgramsInv, Tables, Entries
<1>2. fd = 0 => Entry(fd).flags = STDIN_FLAG
  BY <1>1 DEF ProgramsInv, Terminals, Entry, fdt
<1>3. cur_pid' = cur_pid BY DEF sys_read, fops_read, fileRead, directoryRead, Fail, Return
<1>4. Puts
  <2>1. CASE process_fdt' = process_fdt BY <2>1 DEF Puts
  <2>2. CASE process_fdt' # process_fdt
    <3>1. fops_read(fd, n) BY <2>2 DEF sys_read, Fail
    <3>2. /\ Entry(fd).flags \in {REGFILE_FLAG, DIRECTORY_FLAG}
          /\ fileRead(fd, n) \/ directoryRead(fd, n)
      BY <2>2, <3>1 DEF fops_read, Fail
    <3>3. fd # 0 BY <1>2, <3>2 DEF STDIN_FLAG, REGFILE_FLAG, DIRECTORY_FLAG
    <3> QED BY <2>2, <3>2, <3>3 DEF fileRead, directoryRead, Fail, Puts
  <2> QED BY <2>1, <2>2
<1>5. ASSUME fd = 0, n = BUFSIZE - 1 PROVE IsSequence(buf')
  <2>1. CASE Fail BY <2>1 DEF Fail, Return, IsSequence, Range
  <2>2. CASE ~Fail
    <3>1. fops_read(fd, n) BY <2>2 DEF sys_read
    <3>2. PICK line \in Lines : buf' = CutLine(line, n)
      BY <1>2, <1>5, <3>1 DEF fops_read, Return, STDIN_FLAG, REGFILE_FLAG, DIRECTORY_FLAG, RTC_FLAG
    <3> DEFINE k == Least(Len(line), n)
    <3>3. line \in Seq(Range(line)) BY LinesAssumption
    <3>4. k \in Int /\ k <= Len(line) /\ Len(line) \in Nat
      <4>1. n \in Int BY <1>5, ProgramSizes
      <4> QED BY <3>3, <4>1 DEF Least
    <3> HIDE DEF k
    <3>5. SubSeq(line, 1, k) \in Seq(Range(line)) BY <3>3, <3>4
    <3> QED BY <3>2, <3>5, OfRange DEF CutLine, k
  <2> QED BY <2>1, <2>2
<1> QED BY <1>3, <1>4, <1>5

LEMMA WritePuts == ASSUME NEW fd, NEW n, sys_write(fd, n) PROVE cur_pid' = cur_pid /\ Puts
BY DEF sys_write, fops_write, Fail, Return, Puts

LEMMA OtherCalls ==
  ASSUME ProgramsInv, NEW eax, NEW ebx, NEW ecx, syscall(eax, ebx, ecx),
         eax \notin {SYS_HALT, SYS_EXECUTE}
  PROVE  /\ cur_pid' = cur_pid /\ typed' = typed /\ arg_ptr' = arg_ptr /\ Puts
         /\ nbytes' >= 0 /\ ret' = 0 => argbuf' = A!strncpy(arg_ptr[cur_pid])
         /\ eax = SYS_READ /\ ebx = 0 /\ ecx = BUFSIZE - 1 => IsSequence(buf')
<1> USE DEF SYS_HALT, SYS_EXECUTE, SYS_READ, SYS_WRITE, SYS_OPEN, SYS_CLOSE,
            SYS_GETARGS, SYS_VIDMAP, SYS_SET_HANDLER, SYS_SIGRETURN, MAX_SYSCALL_NUM
<1>1. A!OtherCall => typed' = typed /\ arg_ptr' = arg_ptr /\ ~(nbytes' >= 0)
  BY DEF A!OtherCall, A!Forget
<1>2. CASE \E r : Just(r)
  <2>1. cur_pid' = cur_pid /\ buf' = <<>> /\ process_fdt' = process_fdt /\ A!OtherCall
    BY <1>2 DEF Just, Return
  <2>2. IsSequence(<<>>) BY DEF IsSequence, Range
  <2> QED BY <1>1, <2>1, <2>2 DEF Puts
<1>3. CASE eax = SYS_READ /\ sys_read(ebx, ecx) /\ A!OtherCall BY <1>1, <1>3, ReadPuts
<1>4. CASE eax = SYS_WRITE /\ sys_write(ebx, ecx) /\ A!OtherCall BY <1>1, <1>4, WritePuts
<1>5. CASE eax = SYS_OPEN /\ sys_open(ebx) /\ A!OtherCall BY <1>1, <1>5, OpenPuts
<1>6. CASE eax = SYS_CLOSE /\ sys_close(ebx) /\ A!OtherCall BY <1>1, <1>6, ClosePuts
<1>7. CASE eax = SYS_GETARGS /\ sys_getargs(ecx)
  <2>1. /\ process_fdt' = process_fdt /\ cur_pid' = cur_pid /\ typed' = typed /\ arg_ptr' = arg_ptr
        /\ ret' = 0 => argbuf' = A!strncpy(arg_ptr[cur_pid])
    BY <1>7 DEF sys_getargs, A!sys_getargs, A!ERROR_VAL
  <2> QED BY <1>7, <2>1 DEF Puts
<1> QED BY <1>2, <1>3, <1>4, <1>5, <1>6, <1>7 DEF syscall, sys_vidmap

LEMMA ServedOther ==
  ASSUME ProgramsInv, Served, call[1] \notin {SYS_HALT, SYS_EXECUTE}
  PROVE  ProgramsInv'
<1>1. /\ call # <<>> /\ call' = <<>> /\ syscall(call[1], call[2], call[3])
      /\ run' = run /\ out' = out /\ done' = done
  BY DEF Served
<1>2. /\ cur_pid' = cur_pid /\ typed' = typed /\ arg_ptr' = arg_ptr /\ Puts
      /\ nbytes' >= 0 /\ ret' = 0 => argbuf' = A!strncpy(arg_ptr[cur_pid])
      /\ call[1] = SYS_READ /\ call[2] = 0 /\ call[3] = BUFSIZE - 1 => IsSequence(buf')
  BY <1>1, OtherCalls
<1>3. Terminals' /\ IsTable(process_fdt)'
  <2>1. CASE process_fdt' = process_fdt BY <2>1 DEF ProgramsInv, Terminals, Tables, IsTable
  <2>2. CASE \E fd, e : fd # 0 /\ Put(fd, e)
    <3>1. PICK fd, e : fd # 0 /\ Put(fd, e) BY <2>2
    <3>2. process_fdt' = [process_fdt EXCEPT ![cur_pid] = [process_fdt[cur_pid] EXCEPT ![fd] = e]]
      BY <3>1 DEF Put
    <3>3. cur_pid \in Processes /\ 0 \in Entries BY SizesAssumption DEF ProgramsInv, Tables, Entries
    <3>4. \A p \in Processes : process_fdt'[p] = IF p = cur_pid THEN [process_fdt[cur_pid] EXCEPT ![fd] = e]
                                                 ELSE process_fdt[p]
      BY <3>2, <3>3 DEF ProgramsInv, Tables, IsTable
    <3>5. IsTable(process_fdt)' BY <3>2, <3>3 DEF ProgramsInv, Tables, IsTable
    <3> DEFINE f == process_fdt[cur_pid]
               g == [f EXCEPT ![fd] = e]
    <3>6. f = [k \in Entries |-> f[k]] /\ f[0].flags = STDIN_FLAG BY <3>3 DEF ProgramsInv, Terminals
    <3> HIDE DEF f
    <3>7. g = [k \in Entries |-> g[k]] /\ g[0] = f[0] BY <3>1, <3>3, <3>6
    <3> HIDE DEF g
    <3>8. ASSUME NEW p \in Processes
          PROVE  process_fdt'[p] = [k \in Entries |-> process_fdt'[p][k]] /\ process_fdt'[p][0].flags = STDIN_FLAG
      <4>1. CASE p = cur_pid
        <5>1. process_fdt'[p] = g BY <3>4, <4>1 DEF f, g
        <5> QED BY <3>6, <3>7, <5>1
      <4>2. CASE p # cur_pid BY <3>4, <4>2 DEF ProgramsInv, Terminals
      <4> QED BY <4>1, <4>2
    <3> QED BY <3>5, <3>8 DEF Terminals
  <2> QED BY <1>2, <2>1, <2>2 DEF Puts
<1>4. Tables' BY <1>1, <1>2, <1>3 DEF ProgramsInv, Tables, IsTable
<1>5. Arguments' BY <1>2 DEF ProgramsInv, Arguments
<1>6. Me' = Me BY <1>1, <1>2 DEF Me
<1>7. Calling' BY <1>1 DEF Calling
<1>8. Telling'
  <2>1. ShellAt(Me, "typed") => IsSequence(buf')
    <3>1. ShellAt(Me, "typed") => call = <<SYS_READ, 0, BUFSIZE - 1>> BY <1>1 DEF ProgramsInv, Calling
    <3> QED BY <1>2, <3>1
  <2>2. done # None => ShellAt(Me, "line") BY <1>1 DEF ProgramsInv, Calling
  <2>3. ShellAt(Me, "line") /\ done # None => Told(done.how, done.status, out[cur_pid])
    BY DEF ProgramsInv, Telling
  <2> QED BY <1>1, <1>2, <1>6, <2>1, <2>2, <2>3 DEF Telling, ShellAt
<1> QED BY <1>3, <1>4, <1>5, <1>7, <1>8 DEF ProgramsInv

LEMMA ArbitraryKeeps == ASSUME ProgramsInv, Arbitrary PROVE ProgramsInv'
<1>1. call = <<>> /\ Me.prog = "any" BY DEF Arbitrary, At
<1>2. CASE Crash BY <1>1, <1>2, CrashKeeps
<1>3. CASE Goes
  <2>1. Me'.prog = Me.prog BY <1>3, Stays DEF Goes, Asks
  <2>2. TestMemory(Me') BY <1>1, <2>1 DEF TestMemory
  <2> QED BY <1>1, <1>3, <2>2, GoesKeeps
<1>4. CASE \E command \in Commands : Exec(command, "start")
  <2>1. PICK command \in Commands : Exec(command, "start") BY <1>4
  <2>2. IsString(command)
    <3>1. command \in Seq(Range(command)) /\ NUL \notin Range(command) BY ArbitraryInputs
    <3>2. \A i \in 1..Len(command) : command[i] \in Range(command)
      BY <3>1 DEF Range
    <3> QED BY <3>1, <3>2 DEF IsString, IsSequence
  <2>3. /\ call' = <<SYS_EXECUTE, command, 0>> /\ done' = None /\ UNCHANGED callVars /\ Shows /\ Moves
    BY <1>1, <2>1, Wrappers DEF Exec, Call, Trap, ProgramsInv
  <2>4. Me'.prog = "any" BY <1>1, <2>3, Stays
  <2>5. Tables' /\ Terminals' /\ Arguments' BY <2>3, <2>4, Stays DEF TestMemory
  <2>6. Calling' BY <2>2, <2>3, <2>4 DEF Calling, ShellAt, SYS_HALT, SYS_EXECUTE
  <2>7. Telling' BY <2>3, <2>4 DEF Telling, ShellAt
  <2> QED BY <2>5, <2>6, <2>7 DEF ProgramsInv
<1>5. SYS_SIGRETURN \notin {SYS_HALT, SYS_EXECUTE} BY DEF SYS_HALT, SYS_EXECUTE, SYS_SIGRETURN
<1>6. \A status \in Statuses : status \in Int BY ArbitraryInputs
<1> QED BY <1>1, <1>2, <1>3, <1>4, <1>5, <1>6, Wrappers DEF Arbitrary, Goes, ProgramsInv

----------------------------------------------------------------------------
LEMMA ProgramsInitOK == ASSUME ProgramsInit PROVE ProgramsInv
<1>1. /\ cur_pid = 0 /\ process_fdt = [p \in Processes |-> FreshTable] /\ nbytes = -1
      /\ typed = [p \in Processes |-> <<>>] /\ \E e : arg_ptr = [p \in Processes |-> e]
      /\ run = [p \in Processes |-> IF p = 0 THEN Started("shell") ELSE None]
      /\ out = [p \in Processes |-> <<>>] /\ call = <<>> /\ done = None
  BY DEF ProgramsInit, CallsInit, Init, A!Init, Processes, A!Processes
<1>2. 0 \in Processes /\ 0..0 = {0} /\ 0..(0 - 1) = {} BY SizesAssumption DEF Processes
<1>3. run[0] = Started("shell") BY <1>1, <1>2
<1>4. IsRun(run[0]) /\ TestMemory(run[0]) BY <1>3 DEF Started, IsRun, TestMemory
<1>5. Tables BY <1>1, <1>2, <1>4 DEF Tables, IsTable
<1>6. Terminals BY <1>1, Fresh DEF Terminals
<1>7. Arguments
  <2>1. IsString(<<>>) BY DEF IsString, IsSequence, Range
  <2> QED BY <1>1, <2>1 DEF Arguments
<1>8. Calling BY <1>1 DEF Calling
<1>9. Telling BY <1>1, <1>3 DEF Telling, ShellAt, Started, Me
<1> QED BY <1>5, <1>6, <1>7, <1>8, <1>9 DEF ProgramsInv

LEMMA StepKeeps == ASSUME ProgramsInv, [Step]_allVars PROVE ProgramsInv'
<1>1. CASE Served BY <1>1, ServedHalt, ServedExecute, ServedOther
<1>2. CASE Sigtest /\ Crash
  <2>1. call = <<>> BY <1>2 DEF Sigtest, At
  <2> QED BY <1>2, <2>1, CrashKeeps
<1>3. CASE Shell BY <1>3, ShellKeeps
<1>4. CASE Syserr BY <1>4, SyserrKeeps
<1>5. CASE Arbitrary BY <1>5, ArbitraryKeeps
<1>6. CASE UNCHANGED allVars
  BY <1>6 DEF allVars, callVars, runVars, vars, ProgramsInv, Tables, Terminals, Arguments, Calling, Telling,
              IsTable, Me
<1>7. CASE /\ Cat \/ Ls \/ Hello \/ Counter \/ Testprint \/ Sigtest \/ Pingpong \/ Grep \/ Fish
           /\ ~(Sigtest /\ Crash)
  <2>1. CASE ~Crash BY <1>7, <2>1, PlainKeep
  <2>2. CASE Crash
    <3>1. call = <<>>
      BY <1>7 DEF Cat, Ls, Hello, Counter, Testprint, Sigtest, Pingpong, Grep, Fish, FishRead, FishGot,
                  FishBoth, FishEnd, At
    <3> QED BY <2>2, <3>1, CrashKeeps
  <2> QED BY <2>1, <2>2
<1> QED BY <1>1, <1>2, <1>3, <1>4, <1>5, <1>6, <1>7 DEF Step

(* For every file system, every set of commands, whatever the programs do  *)
(* in between and however they are nested: a getargs that succeeds gives a *)
(* program the arguments of its own command (sys_execute, sys_getargs).    *)
THEOREM ProgramsGetOwnArgs == ProgramsSpec => []GetsOwnArgs
<1>1. ProgramsInit /\ [][Step]_allVars => []ProgramsInv BY ProgramsInitOK, StepKeeps, PTL
<1>2. ProgramsInv => GetsOwnArgs BY InvGetsOwnArgs
<1> QED BY <1>1, <1>2, PTL DEF ProgramsSpec

(* And the shell tells of every program it executed how that ended, by     *)
(* the status sys_halt passes to it, through any nesting of programs.      *)
THEOREM ProgramsShellTells == ProgramsSpec => []ShellTells
<1>1. ProgramsInit /\ [][Step]_allVars => []ProgramsInv BY ProgramsInitOK, StepKeeps, PTL
<1>2. ProgramsInv => ShellTells BY InvShellTells
<1> QED BY <1>1, <1>2, PTL DEF ProgramsSpec

----------------------------------------------------------------------------
(* Room for what the kernel stores, and the tests of syserr.               *)

(* A descriptor that is not the one behind the table, the descriptors of   *)
(* directories, and the names that are not of one.                         *)
Desc(x) == x \in Int /\ x # MAX_NUM_FDT_ENTRIES
InDir(t, fd) == fd \in Entries /\ t[fd].flags = DIRECTORY_FLAG
NotDir(name) ==
  LET d == read_dentry_by_name(name) IN
  d # ERROR_VAL => fileDirectory[d].fileType # DIRECTORY_FILETYPE

(* A call leaves room for what it stores.                                  *)
FitsIn(eax, ebx, ecx, bytes) ==
  /\ eax \in {SYS_READ, SYS_WRITE, SYS_CLOSE} => Desc(ebx)
  /\ eax = SYS_READ => /\ ecx \in Int /\ ecx <= bytes
                       /\ InDir(fdt, ebx) => MAX_FILENAME_LENGTH <= bytes
  /\ eax = SYS_GETARGS /\ ecx >= 0 => ARG_SIZE <= bytes

(* What it changes in the table: files stay files and directories stay     *)
(* directories but for open and close.                                     *)
SameFlags == \A g \in Entries : fdt'[g].flags = fdt[g].flags

(* What a read gives.                                                      *)
LEMMA ReadGives ==
  ASSUME FilesInv, NEW fd \in Int, NEW n \in Int, sys_read(fd, n), NEW bytes \in Nat, n <= bytes,
         InDir(fdt, fd) => MAX_FILENAME_LENGTH <= bytes
  PROVE  /\ FilesInv' /\ cur_pid' = cur_pid /\ SameFlags
         /\ IsSequence(buf') /\ Len(buf') <= bytes /\ ret' \in {-1, Len(buf')}
         /\ Entry(fd).flags = STDIN_FLAG /\ fd = 0 /\ n >= 0 => ret' # -1
         /\ Entry(fd).flags = UNUSED_FLAG => ret' = -1 /\ process_fdt' = process_fdt
         /\ ReadRefused(fd, n) => ret' = -1 /\ process_fdt' = process_fdt
<1> USE DEF UNUSED_FLAG, REGFILE_FLAG, DIRECTORY_FLAG, RTC_FLAG, STDIN_FLAG
<1>1. FilesInv' BY ReadStep
<1>2. /\ cur_pid \in Processes /\ process_fdt \in [Processes -> [Entries -> FdtEntries]]
  BY DEF FilesInv
<1>3. ASSUME cur_pid' = cur_pid, process_fdt' = process_fdt PROVE SameFlags
  BY <1>3 DEF SameFlags, fdt
<1>4. ASSUME NEW g \in Entries, NEW x \in Int, cur_pid' = cur_pid,
             Put(g, [fdt[g] EXCEPT !.file_position = x])
      PROVE  SameFlags
  <2>1. fdt[g] \in FdtEntries BY <1>2 DEF fdt
  <2> DEFINE e == [fdt[g] EXCEPT !.file_position = x]
  <2>2. e.flags = fdt[g].flags BY <2>1, EntryTo, Zenon
  <2>3. process_fdt' = [process_fdt EXCEPT ![cur_pid] = [process_fdt[cur_pid] EXCEPT ![g] = e]]
    BY <1>4 DEF Put
  <2> HIDE DEF e
  <2>4. \A h \in Entries : fdt'[h] = IF h = g THEN e ELSE fdt[h] BY <1>2, <1>4, <2>3 DEF fdt
  <2> QED BY <2>2, <2>4 DEF SameFlags
<1>5. CASE Fail /\ ~(Entry(fd).flags = STDIN_FLAG /\ fd = 0 /\ n >= 0)
  <2>1. buf' = <<>> /\ ret' = -1 /\ cur_pid' = cur_pid /\ process_fdt' = process_fdt
    BY <1>5 DEF Fail, Return, ERROR_VAL
  <2>2. IsSequence(<<>>) /\ Len(<<>>) = 0 BY DEF IsSequence, Range
  <2> QED BY <1>1, <1>3, <1>5, <2>1, <2>2
<1>6. ReadRefused(fd, n) => Fail /\ ~(fd = 0 /\ n >= 0)
  BY SizesAssumption DEF sys_read, ReadRefused
<1>7. ASSUME ~ReadRefused(fd, n) PROVE n \in Nat /\ fops_read(fd, n)
  BY <1>7 DEF sys_read, ReadRefused
<1>8. (fd \notin Entries => Entry(fd).flags = UNUSED_FLAG) /\ (fd \in Entries => Entry(fd) = fdt[fd])
  BY DEF Entry, Unused
<1>9. CASE ~ReadRefused(fd, n) /\ Entry(fd).flags = REGFILE_FLAG
  <2>1. fd \in Entries /\ fdt[fd].flags = REGFILE_FLAG BY <1>8, <1>9
  <2>2. fileRead(fd, n) /\ n \in Nat BY <1>7, <1>9 DEF fops_read
  <2>3. PICK e, i, pos : /\ e = fdt[fd] /\ i = e.inodeNum /\ pos = e.file_position
                         /\ i \in DOMAIN inodes /\ pos \in 0..inodes[i].length
    BY <2>1 DEF FilesInv, fdt, Positioned
  <2>4. inodes[i].length \in Nat /\ FileContent(i) \in Seq(Bytes(i)) /\ Len(FileContent(i)) = inodes[i].length
    BY <2>3, ContentIs, ContentSeq
  <2> DEFINE rest == From(FileContent(i), pos)
  <2>5. PICK m \in 0..(inodes[i].length - pos) :
          /\ m = Least(n, inodes[i].length - pos)
          /\ read_data(i, pos, n).ret = m /\ read_data(i, pos, n).buf = SubSeq(rest, 1, m)
    BY <2>2, <2>3, ReadDataIs
  <2>6. m \in Nat /\ m <= n /\ m # -1 /\ pos + m \in Int BY <2>2, <2>3, <2>4, <2>5 DEF Least
  <2>7. rest \in Seq(Bytes(i)) /\ Len(rest) = inodes[i].length - pos BY <2>3, <2>4, Rest
  <2> HIDE DEF rest
  <2>8. SubSeq(rest, 1, m) \in Seq(Bytes(i)) /\ Len(SubSeq(rest, 1, m)) = m
    BY <2>5, <2>6, <2>7
  <2>9. /\ Put(fd, [fdt[fd] EXCEPT !.file_position = pos + m]) /\ cur_pid' = cur_pid
        /\ ret' = m /\ buf' = SubSeq(rest, 1, m)
    BY <2>2, <2>3, <2>5, <2>6 DEF fileRead, Return, PositionAfter, ERROR_VAL
  <2>10. SameFlags BY <1>4, <2>1, <2>6, <2>9
  <2>11. IsSequence(buf') BY <2>8, <2>9, OfRange
  <2> QED BY <1>1, <1>9, <2>6, <2>8, <2>9, <2>10, <2>11
<1>10. CASE ~ReadRefused(fd, n) /\ Entry(fd).flags = DIRECTORY_FLAG
  <2>1. fd \in Entries /\ fdt[fd].flags = DIRECTORY_FLAG /\ MAX_FILENAME_LENGTH <= bytes
    BY <1>8, <1>10 DEF InDir
  <2>2. directoryRead(fd, n) BY <1>7, <1>10 DEF fops_read
  <2>3. PICK pos \in 0..Len(fileDirectory) : pos = fdt[fd].file_position /\ Len(fileDirectory) \in Nat
    BY <2>1, Bounds DEF FilesInv, fdt, Positioned
  <2>4. CASE pos = Len(fileDirectory)
    <3>1. Put(fd, [fdt[fd] EXCEPT !.file_position = 0]) /\ buf' = <<>> /\ ret' = 0 /\ cur_pid' = cur_pid
      BY <2>2, <2>3, <2>4 DEF directoryRead, Return
    <3>2. IsSequence(<<>>) /\ Len(<<>>) = 0 BY DEF IsSequence, Range
    <3>3. 0 \in Int OBVIOUS
    <3>4. SameFlags BY <1>4, <2>1, <3>1, <3>3
    <3> QED BY <1>1, <1>10, <3>1, <3>2, <3>4
  <2>5. CASE pos # Len(fileDirectory)
    <3>1. /\ pos + 1 \in 1..Len(fileDirectory) /\ read_dentry_by_index(pos) = pos + 1
          /\ pos + 1 # ERROR_VAL /\ pos + 1 \in Int
      BY <2>3, <2>5 DEF read_dentry_by_index, ERROR_VAL
    <3> DEFINE s == fileDirectory[pos + 1].fileName
               name == strcpyFile(s)
    <3>2. /\ Put(fd, [fdt[fd] EXCEPT !.file_position = pos + 1]) /\ cur_pid' = cur_pid
          /\ buf' = name /\ ret' = Len(name)
      BY <2>2, <2>3, <2>5, <3>1 DEF directoryRead, Return
    <3>3. s \in Seq(Range(s)) BY <3>1, ImageAssumption
    <3> HIDE DEF s
    <3>4. name \in Seq(Range(s)) /\ Len(name) <= MAX_FILENAME_LENGTH
      BY <3>3, SizesAssumption DEF strcpyFile, Least
    <3> HIDE DEF name
    <3>5. SameFlags BY <1>4, <2>1, <3>1, <3>2
    <3>6. IsSequence(name) /\ Len(name) \in Nat BY <3>4, OfRange
    <3>7. Len(name) <= bytes BY <2>1, <3>4, <3>6, SizesAssumption
    <3> QED BY <1>1, <1>10, <3>2, <3>5, <3>6, <3>7
  <2> QED BY <2>4, <2>5
<1>11. CASE ~ReadRefused(fd, n) /\ Entry(fd).flags = STDIN_FLAG
  <2>1. PICK line \in Lines : /\ Return(Len(CutLine(line, n)), CutLine(line, n)) /\ UNCHANGED process_fdt
    BY <1>7, <1>11 DEF fops_read
  <2>2. line \in Seq(Range(line)) /\ n \in Nat BY <1>7, <1>11, LinesAssumption
  <2> DEFINE s == CutLine(line, n)
  <2>3. s \in Seq(Range(line)) /\ Len(s) <= n /\ Len(s) \in Nat BY <2>2 DEF CutLine, Least
  <2> HIDE DEF s
  <2>4. buf' = s /\ ret' = Len(s) /\ cur_pid' = cur_pid /\ process_fdt' = process_fdt
    BY <2>1 DEF Return, s
  <2>5. IsSequence(s) BY <2>3, OfRange
  <2>6. Len(s) <= bytes BY <2>2, <2>3
  <2> QED BY <1>1, <1>3, <1>11, <2>3, <2>4, <2>5, <2>6
<1>12. CASE ~ReadRefused(fd, n) /\ Entry(fd).flags = RTC_FLAG
  <2>1. buf' = <<>> /\ ret' = 0 /\ cur_pid' = cur_pid /\ process_fdt' = process_fdt
    BY <1>7, <1>12 DEF fops_read, Return
  <2>2. IsSequence(<<>>) /\ Len(<<>>) = 0 BY DEF IsSequence, Range
  <2> QED BY <1>1, <1>3, <1>12, <2>1, <2>2
<1>13. CASE /\ ~ReadRefused(fd, n)
            /\ Entry(fd).flags \notin {REGFILE_FLAG, DIRECTORY_FLAG, STDIN_FLAG, RTC_FLAG}
  <2>1. Fail BY <1>7, <1>13 DEF fops_read
  <2> QED BY <1>5, <1>13, <2>1
<1>14. CASE ReadRefused(fd, n) BY <1>5, <1>6, <1>14
<1> QED BY <1>9, <1>10, <1>11, <1>12, <1>13, <1>14

(* What open gives: an entry of the table, of a directory only if the name *)
(* is that of one.                                                         *)
LEMMA OpenGives ==
  ASSUME FilesInv, NEW name, sys_open(name)
  PROVE  /\ FilesInv' /\ cur_pid' = cur_pid /\ buf' = <<>> /\ index' \in Entries
         /\ ret' = -1 \/ ret' \in Entries
         /\ NotDir(name) => (\A fd \in Entries : InDir(fdt', fd) => InDir(fdt, fd)) /\ ~InDir(fdt', ret')
<1> USE DEF UNUSED_FLAG, REGFILE_FLAG, DIRECTORY_FLAG, RTC_FLAG, STDIN_FLAG
<1>1. 0 \in Entries /\ 1 \in Entries /\ -1 \notin Entries BY Bounds DEF Entries
<1>2. FilesInv'
  <2>1. CASE OpenStandard(name) BY <2>1, NothingStep DEF OpenStandard, Return
  <2>2. CASE OpenFile(name) BY <2>2, OpenStep
  <2>3. CASE OpenFails(name) BY <2>3, FailStep DEF OpenFails
  <2> QED BY <2>1, <2>2, <2>3 DEF sys_open
<1>3. \A fd \in {-1, 0, 1} : ~InDir(fdt', fd)
  <2>1. \A fd \in Entries : fdt'[fd].flags = DIRECTORY_FLAG => fd \in OpenFds
    BY <1>2 DEF FilesInv, Positioned, fdt
  <2>2. 0 \notin OpenFds /\ 1 \notin OpenFds BY DEF OpenFds, NOT_IN_OUT
  <2> QED BY <1>1, <2>1, <2>2 DEF InDir
<1>4. CASE OpenStandard(name) \/ OpenFails(name)
  <2>1. /\ cur_pid' = cur_pid /\ buf' = <<>> /\ index' = 0 /\ process_fdt' = process_fdt
        /\ ret' \in {-1, 0, 1}
    BY <1>4 DEF OpenStandard, OpenFails, Fail, Return, NoEntry, ERROR_VAL
  <2>2. \A fd \in Entries : InDir(fdt', fd) => InDir(fdt, fd) BY <2>1 DEF InDir, fdt
  <2> QED BY <1>1, <1>2, <1>3, <2>1, <2>2
<1>5. CASE OpenFile(name)
  <2> DEFINE d == read_dentry_by_name(name)
             type == fileDirectory[d].fileType
             e == [inodeNum |-> IF type = REGULAR_FILE_FILETYPE
                                THEN fileDirectory[d].inodeNum ELSE 0,
                   file_position |-> 0,
                   flags |-> FlagOf(type)]
  <2>1. PICK fd \in Free : /\ Put(fd, e) /\ buf' = <<>> /\ cur_pid' = cur_pid /\ index' = fd
                           /\ ret' = IF FlagOf(type) = UNUSED_FLAG THEN ERROR_VAL ELSE fd
    BY <1>5 DEF OpenFile, Return
  <2>2. fd \in Entries BY DEF Free
  <2>3. e.flags = FlagOf(type) OBVIOUS
  <2>4. process_fdt' = [process_fdt EXCEPT ![cur_pid] = [process_fdt[cur_pid] EXCEPT ![fd] = e]]
    BY <2>1 DEF Put
  <2>5. NotDir(name) => FlagOf(type) # DIRECTORY_FLAG
    <3>1. NotDir(name) => type # DIRECTORY_FILETYPE BY <1>5 DEF NotDir, OpenFile
    <3> HIDE DEF type
    <3> QED BY <3>1 DEF FlagOf, RTC_DEVICE_FILETYPE, DIRECTORY_FILETYPE, REGULAR_FILE_FILETYPE
  <2> HIDE DEF e, type
  <2>6. \A g \in Entries : fdt'[g] = IF g = fd THEN e ELSE fdt[g]
    BY <2>1, <2>2, <2>4 DEF fdt, FilesInv
  <2>7. NotDir(name) => ~InDir(fdt', fd) BY <2>2, <2>3, <2>5, <2>6 DEF InDir
  <2>8. NotDir(name) => \A g \in Entries : InDir(fdt', g) => InDir(fdt, g) BY <2>6, <2>7 DEF InDir
  <2> QED BY <1>2, <1>3, <2>1, <2>2, <2>7, <2>8 DEF ERROR_VAL
<1> QED BY <1>4, <1>5 DEF sys_open

LEMMA CloseGives ==
  ASSUME FilesInv, NEW fd, Desc(fd), sys_close(fd)
  PROVE  /\ FilesInv' /\ cur_pid' = cur_pid /\ buf' = <<>> /\ index' \in Entries
         /\ \A g \in Entries : InDir(fdt', g) => InDir(fdt, g)
         /\ CloseRefused(fd) \/ Entry(fd).flags = UNUSED_FLAG => ret' = -1 /\ process_fdt' = process_fdt
         /\ ~CloseRefused(fd) /\ Entry(fd).flags # UNUSED_FLAG =>
              ret' = 0 /\ \A g \in Entries : fdt'[g].flags = IF g = fd THEN UNUSED_FLAG ELSE fdt[g].flags
<1> USE DEF UNUSED_FLAG, DIRECTORY_FLAG
<1>1. fd \in Int /\ 0 \in Entries BY Bounds DEF Desc
<1>2. FilesInv' BY <1>1, CloseStep
<1>3. index' \in Entries /\ cur_pid' = cur_pid /\ buf' = <<>>
  <2>1. ~CloseRefused(fd) => fd \in Entries BY <1>1, SizesAssumption DEF CloseRefused, NOT_IN_OUT, Desc, Entries
  <2> QED BY <1>1, <2>1 DEF sys_close, Fail, Return, NoEntry
<1>4. CASE CloseRefused(fd) \/ Entry(fd).flags = UNUSED_FLAG
  <2>1. ret' = -1 /\ process_fdt' = process_fdt BY <1>4 DEF sys_close, Fail, Return, ERROR_VAL
  <2>2. \A g \in Entries : InDir(fdt', g) => InDir(fdt, g) BY <1>3, <2>1 DEF InDir, fdt
  <2> QED BY <1>2, <1>3, <1>4, <2>1, <2>2
<1>5. CASE ~CloseRefused(fd) /\ Entry(fd).flags # UNUSED_FLAG
  <2> DEFINE e == [fdt[fd] EXCEPT !.flags = UNUSED_FLAG]
  <2>1. Put(fd, e) /\ ret' = 0 BY <1>5 DEF sys_close, Return
  <2>2. fd \in Entries BY <1>5 DEF Entry, Unused
  <2>3. fdt[fd] \in FdtEntries /\ UNUSED_FLAG \in 0..5 BY <2>2 DEF FilesInv, fdt
  <2>4. e.flags = UNUSED_FLAG BY <2>3, EntryFlagged, Zenon
  <2>5. process_fdt' = [process_fdt EXCEPT ![cur_pid] = [process_fdt[cur_pid] EXCEPT ![fd] = e]]
    BY <2>1 DEF Put
  <2> HIDE DEF e
  <2>6. \A g \in Entries : fdt'[g] = IF g = fd THEN e ELSE fdt[g]
    BY <1>3, <2>2, <2>5 DEF fdt, FilesInv
  <2>7. \A g \in Entries : InDir(fdt', g) => InDir(fdt, g) BY <2>4, <2>6 DEF InDir
  <2>8. \A g \in Entries : fdt'[g].flags = IF g = fd THEN UNUSED_FLAG ELSE fdt[g].flags BY <2>4, <2>6
  <2> QED BY <1>2, <1>3, <1>5, <2>1, <2>7, <2>8
<1> QED BY <1>4, <1>5

LEMMA WriteGives ==
  ASSUME FilesInv, NEW fd, Desc(fd), NEW n, sys_write(fd, n)
  PROVE  /\ FilesInv' /\ cur_pid' = cur_pid /\ buf' = <<>> /\ index' \in Entries /\ process_fdt' = process_fdt
         /\ WriteRefused(fd, n) \/ Entry(fd).flags = UNUSED_FLAG => ret' = -1
<1>1. FilesInv' BY WriteStep
<1>2. cur_pid' = cur_pid /\ buf' = <<>> /\ process_fdt' = process_fdt
  BY DEF sys_write, fops_write, Fail, Return
<1>3. index' \in Entries
  <2>1. ~WriteRefused(fd, n) => fd \in Entries BY SizesAssumption DEF WriteRefused, Desc, Entries
  <2> QED BY <2>1, Bounds DEF sys_write, NoEntry
<1>4. WriteRefused(fd, n) \/ Entry(fd).flags = UNUSED_FLAG => ret' = -1
  BY DEF sys_write, fops_write, Fail, Return, ERROR_VAL, UNUSED_FLAG, STDOUT_FLAG, RTC_FLAG
<1> QED BY <1>1, <1>2, <1>3, <1>4

(* What the kernel gives for a call, ...                                   *)
LEMMA CallGives ==
  ASSUME FilesInv, NEW eax, NEW ebx, NEW ecx, syscall(eax, ebx, ecx), eax \notin {SYS_HALT, SYS_EXECUTE},
         NEW bytes \in Nat, FitsIn(eax, ebx, ecx, bytes)
  PROVE  /\ FilesInv' /\ cur_pid' = cur_pid
         /\ Len(buf') <= bytes /\ (nbytes' >= 0 => ARG_SIZE <= bytes) /\ index' \in Entries
         /\ (eax = SYS_OPEN => NotDir(ebx)) => \A g \in Entries : InDir(fdt', g) => InDir(fdt, g)
         /\ eax = SYS_OPEN => (ret' = -1 \/ ret' \in Entries) /\ (NotDir(ebx) => ~InDir(fdt', ret'))
         /\ eax = SYS_READ => IsSequence(buf') /\ ret' \in {-1, Len(buf')}
         /\ eax \notin {SYS_OPEN, SYS_CLOSE} => SameFlags
<1> USE DEF SYS_HALT, SYS_EXECUTE, SYS_READ, SYS_WRITE, SYS_OPEN, SYS_CLOSE,
            SYS_GETARGS, SYS_VIDMAP, SYS_SET_HANDLER, SYS_SIGRETURN, MAX_SYSCALL_NUM
<1>1. A!OtherCall => ~(nbytes' >= 0) BY DEF A!OtherCall, A!Forget
<1>2. Len(<<>>) = 0 /\ 0 \in Entries BY Bounds
<1>3. SameFlags => \A g \in Entries : InDir(fdt', g) => InDir(fdt, g) BY DEF SameFlags, InDir
<1>4. cur_pid' = cur_pid /\ process_fdt' = process_fdt => FilesInv' /\ SameFlags
  BY SameTables DEF SameFlags, fdt
<1>5. CASE eax = SYS_READ /\ sys_read(ebx, ecx) /\ A!OtherCall
  <2>1. ebx \in Int /\ ecx \in Int /\ ecx <= bytes /\ (InDir(fdt, ebx) => MAX_FILENAME_LENGTH <= bytes)
    BY <1>5 DEF FitsIn, Desc
  <2>2. /\ FilesInv' /\ cur_pid' = cur_pid /\ SameFlags
        /\ IsSequence(buf') /\ Len(buf') <= bytes /\ ret' \in {-1, Len(buf')}
    BY <1>5, <2>1, ReadGives
  <2>3. index' \in Entries
    <3>1. ~ReadRefused(ebx, ecx) => ebx \in Entries
      BY <1>5, <2>1, SizesAssumption DEF ReadRefused, FitsIn, Desc, Entries
    <3> QED BY <1>2, <1>5, <3>1 DEF sys_read, NoEntry
  <2> QED BY <1>1, <1>3, <1>5, <2>2, <2>3
<1>6. CASE eax = SYS_WRITE /\ sys_write(ebx, ecx) /\ A!OtherCall
  <2>1. FilesInv' /\ cur_pid' = cur_pid /\ buf' = <<>> /\ index' \in Entries /\ process_fdt' = process_fdt
    BY <1>6, WriteGives DEF FitsIn
  <2> QED BY <1>1, <1>2, <1>3, <1>4, <1>6, <2>1
<1>7. CASE eax = SYS_OPEN /\ sys_open(ebx) /\ A!OtherCall
  <2>1. /\ FilesInv' /\ cur_pid' = cur_pid /\ buf' = <<>> /\ index' \in Entries
        /\ ret' = -1 \/ ret' \in Entries
        /\ NotDir(ebx) => (\A fd \in Entries : InDir(fdt', fd) => InDir(fdt, fd)) /\ ~InDir(fdt', ret')
    BY <1>7, OpenGives
  <2> QED BY <1>1, <1>2, <1>7, <2>1
<1>8. CASE eax = SYS_CLOSE /\ sys_close(ebx) /\ A!OtherCall
  <2>1. /\ FilesInv' /\ cur_pid' = cur_pid /\ buf' = <<>> /\ index' \in Entries
        /\ \A g \in Entries : InDir(fdt', g) => InDir(fdt, g)
    BY <1>8, CloseGives DEF FitsIn
  <2> QED BY <1>1, <1>2, <1>8, <2>1
<1>9. CASE eax = SYS_GETARGS /\ sys_getargs(ecx)
  <2>1. /\ cur_pid' = cur_pid /\ buf' = <<>> /\ index' = 0 /\ process_fdt' = process_fdt /\ nbytes' = ecx
    BY <1>9 DEF sys_getargs, A!sys_getargs, NoEntry
  <2>2. nbytes' >= 0 => ARG_SIZE <= bytes BY <1>9, <2>1 DEF FitsIn
  <2> QED BY <1>2, <1>3, <1>4, <1>9, <2>1, <2>2
<1>10. CASE (\E r : Just(r)) /\ eax \notin {SYS_READ, SYS_OPEN, SYS_CLOSE}
  <2>1. /\ cur_pid' = cur_pid /\ buf' = <<>> /\ index' = 0 /\ process_fdt' = process_fdt /\ A!OtherCall
    BY <1>10 DEF Just, Return, NoEntry
  <2> QED BY <1>1, <1>2, <1>3, <1>4, <1>10, <2>1
<1> QED BY <1>5, <1>6, <1>7, <1>8, <1>9, <1>10 DEF syscall, sys_vidmap, InvalidNumber

(* ... when a program ends, ...                                            *)
LEMMA HaltGives ==
  ASSUME FilesInv, NEW status, NEW flag, sys_halt(status, flag)
  PROVE  /\ FilesInv' /\ buf' = <<>> /\ index' = 0 /\ ~(nbytes' >= 0)
         /\ \/ cur_pid > 0 /\ cur_pid' = cur_pid - 1
            \/ cur_pid = 0 /\ cur_pid' = 0
<1>1. CASE ~IsBase
  <2>1. Halt(LowByte(status) + flag) /\ A!Halt BY <1>1 DEF sys_halt
  <2>2. FilesInv' BY <2>1, HaltStep
  <2> QED BY <2>1, <2>2 DEF Halt, A!Halt, A!Forget, NoEntry
<1>2. CASE IsBase
  <2>1. /\ process_fdt' = [process_fdt EXCEPT ![cur_pid] = FreshTable] /\ cur_pid' = cur_pid
        /\ buf' = <<>> /\ index' = 0 /\ A!OtherCall
    BY <1>2 DEF sys_halt, HaltAsBase, NoEntry
  <2>2. /\ process_fdt' \in [Processes -> [Entries -> FdtEntries]]
        /\ \A p \in Processes : process_fdt'[p] = IF p = cur_pid THEN FreshTable ELSE process_fdt[p]
    BY <2>1, FreshKeeps DEF FilesInv
  <2>3. ASSUME NEW p \in Processes, NEW fd \in Entries PROVE Positioned(fd, process_fdt'[p][fd])
    <3>1. CASE p = cur_pid
      <4>1. process_fdt'[p] = FreshTable BY <2>2, <3>1
      <4> QED BY <4>1, FreshKeeps
    <3>2. CASE p # cur_pid
      <4>1. process_fdt'[p] = process_fdt[p] /\ Positioned(fd, process_fdt[p][fd])
        BY <2>2, <3>2 DEF FilesInv
      <4> QED BY <4>1
    <3> QED BY <3>1, <3>2
  <2>4. cur_pid' \in Processes BY <2>1 DEF FilesInv
  <2>5. FilesInv' BY <2>2, <2>3, <2>4, Zenon DEF FilesInv
  <2> QED BY <1>2, <2>1, <2>5 DEF A!OtherCall, A!Forget, IsBase
<1> QED BY <1>1, <1>2

(* ... and when one starts.                                                *)
LEMMA ExecuteGives ==
  ASSUME FilesInv, NEW command, sys_execute(command)
  PROVE  /\ FilesInv' /\ buf' = <<>> /\ index' = 0 /\ ~(nbytes' >= 0)
         /\ \/ cur_pid' = cur_pid + 1 /\ fdt' = FreshTable
            \/ cur_pid' = cur_pid /\ process_fdt' = process_fdt
<1>1. CASE Execute /\ A!Execute(command)
  <2>1. FilesInv' BY <1>1, ExecuteStep
  <2>2. fdt' = FreshTable BY <1>1 DEF Execute, TableFor, fdt, FilesInv
  <2> QED BY <1>1, <2>1, <2>2 DEF Execute, A!Execute, A!Forget, NoEntry
<1>2. CASE Fail /\ NoEntry /\ A!ExecuteFails(command)
  <2>1. FilesInv' BY <1>2, FailStep
  <2> QED BY <1>2, <2>1 DEF Fail, Return, NoEntry, A!ExecuteFails, A!OtherCall, A!Forget
<1> QED BY <1>1, <1>2 DEF sys_execute

----------------------------------------------------------------------------
(* The pass of grep over its array.                                        *)
Pass(data, last, line_start, lines, over) ==
  [data |-> data, last |-> last, line_start |-> line_start, lines |-> lines, over |-> over]

IsPass(p) == p = Pass(p.data, p.last, p.line_start, p.lines, p.over)

LEMMA PassTo ==
  \A a, b, c, d, e, v :
    /\ [Pass(a, b, c, d, e) EXCEPT !.data = v] = Pass(v, b, c, d, e)
    /\ [Pass(a, b, c, d, e) EXCEPT !.last = v] = Pass(a, v, c, d, e)
    /\ [Pass(a, b, c, d, e) EXCEPT !.line_start = v] = Pass(a, b, v, d, e)
    /\ [Pass(a, b, c, d, e) EXCEPT !.lines = v] = Pass(a, b, c, v, e)
    /\ [Pass(a, b, c, d, e) EXCEPT !.over = v] = Pass(a, b, c, d, v)
BY DEF Pass

(* A line ends within the array.                                           *)
LEMMA LineEnds ==
  ASSUME NEW p, BUFSIZE \in Nat, p.last \in 0..BUFSIZE, p.line_start \in 0..p.last
  PROVE  LineEnd(p) \in p.line_start..BUFSIZE
<1> DEFINE a == p.line_start
           I == {i \in a..BUFSIZE : i >= p.last \/ p.data[i] = EOL}
<1>1. a \in Nat /\ p.last \in Nat /\ a <= p.last /\ p.last <= BUFSIZE OBVIOUS
<1>2. I \in SUBSET Nat /\ p.last \in I BY <1>1
<1> HIDE DEF I
<1>3. PICK x \in I : \A y \in I : x <= y BY <1>2, LeastNumber
<1>4. x \in a..BUFSIZE /\ (x >= p.last \/ p.data[x] = EOL) BY DEF I
<1>5. ASSUME NEW j \in a..(x - 1) PROVE j < p.last /\ p.data[j] # EOL
  <2>1. j \in a..BUFSIZE /\ ~(x <= j) /\ j \in Int BY <1>1, <1>4
  <2>2. j \notin I BY <1>3, <2>1
  <2> QED BY <1>1, <2>1, <2>2 DEF I
<1> HIDE DEF a
<1>6. \E i \in a..BUFSIZE : /\ i >= p.last \/ p.data[i] = EOL
                            /\ \A j \in a..(i - 1) : j < p.last /\ p.data[j] # EOL
  BY <1>4, <1>5
<1>7. LineEnd(p) = CHOOSE i \in a..BUFSIZE : /\ i >= p.last \/ p.data[i] = EOL
                                             /\ \A j \in a..(i - 1) : j < p.last /\ p.data[j] # EOL
  BY Zenon DEF LineEnd, a
<1>8. LineEnd(p) \in a..BUFSIZE BY <1>6, <1>7, Zenon
<1> QED BY <1>8 DEF a

(* One line keeps the array within its bounds, ...                         *)
Within(p, last) ==
  /\ IsPass(p)
  /\ p.last \in 0..last
  /\ ~p.over => p.last = last /\ p.line_start \in 0..last

LEMMA LineWithin ==
  ASSUME NEW p, NEW last \in Nat, Within(p, last), ~p.over, BUFSIZE \in Nat, last <= BUFSIZE, NEW cnt, NEW s
  PROVE  Within(SearchLine(p, cnt, s), last)
<1> DEFINE e == LineEnd(p)
           data == [p.data EXCEPT ![e] = EOS]
           found == \E check \in p.line_start..(e - 1) : MatchesAt(data, check, s)
           lines == IF found THEN Append(p.lines, TextFrom(data, p.line_start)) ELSE p.lines
           more == LineIncomplete(p, e, cnt)
           d == CopiedDown(data, p.line_start)
           q == SearchLine(p, cnt, s)
           yes == TRUE
<1>1. p.last = last /\ p.line_start \in 0..last BY DEF Within
<1>2. e \in Nat
  <2>1. e \in p.line_start..BUFSIZE BY <1>1, LineEnds
  <2> HIDE DEF e
  <2> QED BY <1>1, <2>1
<1>3. \/ q = [p EXCEPT !.data = d, !.last = p.last - p.line_start, !.over = yes]
      \/ q = [p EXCEPT !.data = data, !.lines = lines, !.last = 0, !.over = yes]
      \/ ~(e + 1 >= p.last) /\ q = [p EXCEPT !.data = data, !.lines = lines, !.line_start = e + 1]
  BY Zenon DEF SearchLine
<1>y. yes OBVIOUS
<1> HIDE DEF e, data, lines, more, d, q, found, yes
<1> DEFINE x == p.last - p.line_start
           p0 == Pass(p.data, p.last, p.line_start, p.lines, p.over)
           p1 == Pass(d, p.last, p.line_start, p.lines, p.over)
           p2 == Pass(d, x, p.line_start, p.lines, p.over)
           p3 == Pass(d, x, p.line_start, p.lines, yes)
           q1 == Pass(data, p.last, p.line_start, p.lines, p.over)
           q2 == Pass(data, p.last, p.line_start, lines, p.over)
           q3 == Pass(data, 0, p.line_start, lines, p.over)
           q4 == Pass(data, 0, p.line_start, lines, yes)
           q5 == Pass(data, p.last, e + 1, lines, p.over)
<1>4. p = p0 BY DEF Within, IsPass
<1>a. /\ [p0 EXCEPT !.data = d] = p1 /\ [p1 EXCEPT !.last = x] = p2 /\ [p2 EXCEPT !.over = yes] = p3
      /\ [p0 EXCEPT !.data = data] = q1 /\ [q1 EXCEPT !.lines = lines] = q2
      /\ [q2 EXCEPT !.last = 0] = q3 /\ [q3 EXCEPT !.over = yes] = q4 /\ [q2 EXCEPT !.line_start = e + 1] = q5
  <2>1. [p0 EXCEPT !.data = d] = p1 BY PassTo
  <2>2. [p1 EXCEPT !.last = x] = p2 BY PassTo
  <2>3. [p2 EXCEPT !.over = yes] = p3 BY PassTo
  <2>4. [p0 EXCEPT !.data = data] = q1 BY PassTo
  <2>5. [q1 EXCEPT !.lines = lines] = q2 BY PassTo
  <2>6. [q2 EXCEPT !.last = 0] = q3 BY PassTo
  <2>7. [q3 EXCEPT !.over = yes] = q4 BY PassTo
  <2>8. [q2 EXCEPT !.line_start = e + 1] = q5 BY PassTo
  <2> QED BY <2>1, <2>2, <2>3, <2>4, <2>5, <2>6, <2>7, <2>8
<1> HIDE DEF p0, p1, p2, p3, q1, q2, q3, q4, q5
<1>5. q = p3 \/ q = q4 \/ (~(e + 1 >= p.last) /\ q = q5)
  <2>1. CASE q = [p EXCEPT !.data = d, !.last = x, !.over = yes] BY <1>4, <1>a, <2>1, Zenon
  <2>2. CASE q = [p EXCEPT !.data = data, !.lines = lines, !.last = 0, !.over = yes]
    BY <1>4, <1>a, <2>2, Zenon
  <2>3. CASE q = [p EXCEPT !.data = data, !.lines = lines, !.line_start = e + 1] /\ ~(e + 1 >= p.last)
    BY <1>4, <1>a, <2>3, Zenon
  <2> QED BY <1>3, <2>1, <2>2, <2>3, Zenon
<1>6. CASE q = p3
  <2>1. x \in 0..last BY <1>1
  <2> HIDE DEF x
  <2> QED BY <1>6, <1>y, <2>1 DEF Within, IsPass, Pass, q, p3
<1>7. CASE q = q4 BY <1>7, <1>y DEF Within, IsPass, Pass, q, q4
<1>8. CASE ~(e + 1 >= p.last) /\ q = q5
  <2>1. e + 1 \in 0..last /\ last \in 0..last BY <1>1, <1>2, <1>8
  <2> QED BY <1>1, <1>8, <2>1 DEF Within, IsPass, Pass, q, q5
<1> QED BY <1>5, <1>6, <1>7, <1>8

(* ... and so does the loop: what is kept of a line for the next read is   *)
(* not more than there was.                                                *)
LEMMA SearchWithin ==
  ASSUME NEW data, NEW last \in Nat, BUFSIZE \in Nat, last <= BUFSIZE, NEW cnt, NEW s
  PROVE  SearchLines(data, last, cnt, s).last \in 0..last
<1> DEFINE N == BUFSIZE + 1
           first == [data |-> data, last |-> last, line_start |-> 0, lines |-> <<>>, over |-> FALSE]
           Line1(p) == IF p.over THEN p ELSE SearchLine(p, cnt, s)
           Runs(f, n) == f = [k \in 0..n |-> IF k = 0 THEN first ELSE Line1(f[k - 1])]
           after == CHOOSE f : Runs(f, N)
<1>1. SearchLines(data, last, cnt, s) = after[BUFSIZE + 1] BY Zenon DEF SearchLines
<1>2. Within(first, last) BY DEF Within, IsPass, Pass
<1>3. ASSUME NEW p, Within(p, last) PROVE Within(Line1(p), last) BY <1>3, LineWithin
<1> HIDE DEF first, Line1
<1>4. \A n \in Nat : \E f : Runs(f, n)
  <2> DEFINE R == {n \in Nat : \E f : Runs(f, n)}
  <2>1. 0 \in R
    <3>1. Runs([k \in 0..0 |-> first], 0) OBVIOUS
    <3> QED BY <3>1
  <2>2. ASSUME NEW n \in Nat, n \in R PROVE n + 1 \in R
    <3>1. PICK f : Runs(f, n) BY <2>2
    <3> DEFINE g == [k \in 0..(n + 1) |-> IF k = n + 1 THEN Line1(f[n]) ELSE f[k]]
    <3>2. ASSUME NEW k \in 0..(n + 1) PROVE g[k] = IF k = 0 THEN first ELSE Line1(g[k - 1])
      <4>1. CASE k = 0 BY <3>1, <4>1
      <4>2. CASE k = n + 1 BY <3>1, <4>2
      <4>3. CASE k # 0 /\ k # n + 1
        <5>1. k \in 0..n /\ k - 1 \in 0..(n + 1) /\ k - 1 # n + 1 BY <4>3
        <5> QED BY <3>1, <4>3, <5>1
      <4> QED BY <4>1, <4>2, <4>3
    <3>3. g = [k \in 0..(n + 1) |-> g[k]] OBVIOUS
    <3> HIDE DEF g
    <3>4. Runs(g, n + 1) BY <3>2, <3>3
    <3> QED BY <3>4
  <2> HIDE DEF R
  <2>3. Nat \subseteq R BY <2>1, <2>2, Counting
  <2> QED BY <2>3 DEF R
<1>5. N \in Nat OBVIOUS
<1> HIDE DEF N
<1>6. Runs(after, N)
  <2> HIDE DEF Runs
  <2> QED BY <1>4, <1>5
<1> DEFINE Q == {n \in Nat : n <= N => Within(after[n], last)}
<1> HIDE DEF after
<1>7. 0 \in Q
  <2>1. after[0] = first BY <1>5, <1>6
  <2> QED BY <1>2, <2>1
<1>8. ASSUME NEW n \in Nat, n \in Q PROVE n + 1 \in Q
  <2>1. CASE n + 1 <= N
    <3>1. n + 1 \in 0..N /\ n + 1 # 0 /\ (n + 1) - 1 = n /\ n <= N BY <1>5, <2>1
    <3>2. after[n + 1] = Line1(after[n]) BY <1>6, <3>1
    <3>3. Within(after[n], last) BY <1>8, <3>1
    <3>4. Within(after[n + 1], last) BY <1>3, <3>2, <3>3
    <3> QED BY <3>4
  <2>2. CASE ~(n + 1 <= N) BY <2>2
  <2> QED BY <2>1, <2>2
<1> HIDE DEF Q
<1>9. N \in Q BY <1>5, <1>7, <1>8, Counting
<1>10. Within(after[N], last) BY <1>5, <1>9 DEF Q
<1> QED BY <1>1, <1>10 DEF Within, N

----------------------------------------------------------------------------
(* What the programs know, at place r, of call c with bytes of room: the   *)
(* descriptors they keep are none behind the table, ...                    *)
Readers == {"cat", "ls", "pingpong", "grep", "fish"}
OpenPlaces == {"opened", "dir", "rtc", "frame0", "frame1"}
FdPlaces == {"read", "written", "name", "draw", "wait", "data", "frame0", "frame1", "got", "both", "end", "rate"}
Halts(c) == c # <<>> /\ c[1] = SYS_HALT

ReaderKnows(r, c) ==
  r.prog \in Readers =>
    /\ r.pc \in OpenPlaces => IF c = <<>> THEN Desc(ret) ELSE c[1] = SYS_OPEN
    /\ r.pc \in FdPlaces => Desc(r.fd)

(* ... grep reads no directory with what is left of its array, ...         *)
GrepKnows(r, c, bytes) ==
  r.prog = "grep" /\ r.pc \notin {"start", "args"} =>
    /\ {"dir", "last"} \subseteq DOMAIN r.mem
    /\ r.pc # "dir" => Desc(r.mem.dir)
    /\ r.pc \in {"name", "data"} =>
         IF c = <<>> THEN IsSequence(buf) /\ ret \in {-1, Len(buf)} ELSE c[1] = SYS_READ
    /\ r.pc = "opened" => IF c = <<>> THEN ~InDir(fdt, ret) ELSE NotDir(c[2])
    /\ r.pc = "data" => ~InDir(fdt, r.fd) /\ r.mem.last \in 0..BUFSIZE /\ bytes = BUFSIZE - r.mem.last

(* ... and those that read the clock have opened no directory at all.      *)
FishKnows(r) ==
  r.prog = "fish" =>
    /\ r.pc = "frame1" => Desc(r.mem.fd0)
    /\ r.pc \in {"read", "got", "both", "end"} =>
         {"f", "fds"} \subseteq DOMAIN r.mem /\ r.mem.f \in {0, 1} /\ Desc(r.mem.fds[0]) /\ Desc(r.mem.fds[1])
DeviceKnows(r, c) ==
  r.prog \in {"pingpong", "fish"} =>
    /\ \A fd \in Entries : ~InDir(fdt, fd)
    /\ c # <<>> /\ c[1] = SYS_OPEN => NotDir(c[2])

(* syserr, after k calls of test n: the entries in use, and how many calls *)
(* have returned -1.                                                       *)
Used(n, k) == {fd \in 2..7 : n = 3 /\ k - 5 <= fd /\ fd <= k + 1}
FailuresIn(n, k) == IF n # 3 THEN k ELSE IF k <= 6 THEN 0 ELSE 1
InUse(t, fds) == \A fd \in 2..7 : t[fd].flags # UNUSED_FLAG <=> fd \in fds
Testing(m, c) ==
  LET n == Head(m.tests)
      k == Len(Tests[n]) - Len(m.calls)
  IN /\ m.fail = 0 /\ m.failures = FailuresIn(n, k) /\ k \in Nat
     /\ \A j \in 1..Len(m.calls) : m.calls[j] = Tests[n][k + j]
     /\ IF c = <<>> THEN InUse(fdt, Used(n, k + 1)) /\ (ret = -1 <=> (n = 3 => k = 6))
        ELSE InUse(fdt, Used(n, k)) /\ c = Tests[n][k + 1]
SyserrKnows(r, c) ==
  r.prog = "syserr" =>
    /\ r.pc = "asked" => Testing(r.mem, c)
    /\ r.pc # "asked" => InUse(fdt, {})
    /\ r.pc \in {"start", "ask", "tested"} /\ c # <<>> => c[1] = SYS_WRITE
    /\ r.pc = "choice" => IF c = <<>> THEN ret # -1 ELSE c = <<SYS_READ, 0, BUFSIZE - 1>>
    /\ r.pc = "tested" => r.mem.fail = 0
    /\ r.pc \in {"start", "ask", "choice", "asked", "tested"}

Knows(r, c, bytes) ==
  ReaderKnows(r, c) /\ GrepKnows(r, c, bytes) /\ FishKnows(r) /\ DeviceKnows(r, c) /\ SyserrKnows(r, c)

(* There is room for what the call stores, and the program knows.          *)
Fits(r, c, bytes) ==
  /\ bytes \in Nat
  /\ c # <<>> => FitsIn(c[1], c[2], c[3], bytes)
  /\ ~Halts(c) => Knows(r, c, bytes)

(* Only a shell and the arbitrary program execute others.                  *)
Parents == {"shell", "any"}
Waiting ==
  /\ \A p \in 0..(cur_pid - 1) : run[p].prog \in Parents
  /\ call # <<>> /\ call[1] = SYS_EXECUTE => Me.prog \in Parents

(* What syserr writes, and how it ends.                                    *)
Words == {"Choose from tests 1-8", "PASS", "Invalid test number"}
Writes(r, c, o) == r.prog = "syserr" => o \in Seq(Words) /\ (Halts(c) => c[2] = 0)

HoldInv ==
  /\ Fits(Me, call, room) /\ Waiting /\ Writes(Me, call, out[cur_pid])
  /\ BuffersHold /\ SyserrPasses

AllInv == ProgramsInv /\ FilesInv /\ HoldInv

(* A step of a program that is not a parent keeps it.                      *)
LEMMA GoodKeeps ==
  ASSUME AllInv, UNCHANGED callVars, Shows, Moves, call = <<>>, done' \in {None, done},
         Fits(Me', call', room'), Writes(Me', call', out'[cur_pid]),
         call' # <<>> => call'[1] # SYS_EXECUTE \/ Me.prog \in Parents,
         call' # <<>> \/ room' = room
  PROVE  FilesInv' /\ HoldInv'
<1>1. /\ cur_pid' = cur_pid /\ process_fdt' = process_fdt /\ ret' = ret /\ buf' = buf /\ index' = index
      /\ nbytes' = nbytes
  BY DEF callVars, vars
<1>2. fdt' = fdt BY <1>1 DEF fdt
<1>3. FilesInv' BY <1>1, SameTables DEF AllInv
<1>4. BuffersHold' BY <1>1 DEF AllInv, HoldInv, BuffersHold
<1>5. SyserrPasses' BY DEF AllInv, HoldInv, SyserrPasses
<1>6. Waiting'
  <2>1. Me'.prog = Me.prog BY Stays DEF AllInv
  <2>2. \A p \in 0..(cur_pid - 1) : run'[p] = run[p]
    <3>1. \A p \in 0..(cur_pid - 1) : p \in Processes /\ p # cur_pid
      BY SizesAssumption DEF AllInv, ProgramsInv, Tables, Processes
    <3>2. CASE run' = run BY <3>2
    <3>3. CASE \E pc, fd, mem : With(pc, fd, mem) BY <1>1, <3>1, <3>3, WithIs DEF AllInv, ProgramsInv
    <3> QED BY <3>2, <3>3 DEF Moves
  <2> QED BY <1>1, <2>1, <2>2 DEF AllInv, HoldInv, Waiting
<1>7. Writes(Me, call, out[cur_pid])' BY <1>1 DEF Writes, Halts
<1>8. Knows(Me', call', room') => Knows(Me, call, room)'
  BY <1>1, <1>2 DEF Knows, ReaderKnows, GrepKnows, FishKnows, DeviceKnows, SyserrKnows, Testing, InUse, InDir
<1>9. Fits(Me, call, room)' BY <1>1, <1>2, <1>8 DEF Fits, FitsIn, InDir, Halts
<1> QED BY <1>3, <1>4, <1>5, <1>6, <1>7, <1>9 DEF HoldInv

(* Each program has its own part of that to know.                         *)
LEMMA KnowsWhat ==
  ASSUME NEW r, NEW c, NEW bytes
  PROVE  /\ r.prog \notin Readers \cup {"syserr"} => Knows(r, c, bytes)
         /\ r.prog \in {"cat", "ls"} /\ ReaderKnows(r, c) => Knows(r, c, bytes)
         /\ r.prog = "pingpong" /\ ReaderKnows(r, c) /\ DeviceKnows(r, c) => Knows(r, c, bytes)
         /\ r.prog = "grep" /\ ReaderKnows(r, c) /\ GrepKnows(r, c, bytes) => Knows(r, c, bytes)
         /\ r.prog = "fish" /\ ReaderKnows(r, c) /\ FishKnows(r) /\ DeviceKnows(r, c) => Knows(r, c, bytes)
         /\ r.prog = "syserr" /\ SyserrKnows(r, c) => Knows(r, c, bytes)
BY DEF Knows, Readers, ReaderKnows, GrepKnows, FishKnows, DeviceKnows, SyserrKnows

(* The call a program makes leaves room for what it stores.                *)
Sound == call' # <<>> /\ room' \in Nat /\ FitsIn(call'[1], call'[2], call'[3], room')

LEMMA SizesAre ==
  /\ BUFSIZE \in Nat /\ SBUFSIZE \in Nat /\ BUFSIZE - 1 \in Nat /\ SBUFSIZE - 1 \in Nat /\ ARG_SIZE \in Nat
  /\ ARG_SIZE <= BUFSIZE /\ MAX_FILENAME_LENGTH <= BUFSIZE - 1 /\ MAX_FILENAME_LENGTH <= SBUFSIZE - 1
  /\ MAX_FILENAME_LENGTH <= BUFSIZE
  /\ MAX_FILENAME_LENGTH \in Nat /\ MAX_NUM_FDT_ENTRIES = 8
  /\ Entries = 0..7
<1>1. MAX_NUM_FDT_ENTRIES = 8 BY ImageNames, Zenon
<1>2. /\ BUFSIZE \in Nat /\ SBUFSIZE \in Nat /\ ARG_SIZE \in Nat /\ MAX_FILENAME_LENGTH \in Nat
      /\ ARG_SIZE <= BUFSIZE /\ SBUFSIZE <= BUFSIZE /\ MAX_FILENAME_LENGTH < SBUFSIZE
  BY ProgramSizes, SizesAssumption, ArgSizes
<1> QED BY <1>1, <1>2 DEF Entries

LEMMA FitsWhat ==
  /\ \A fd \in Int : \A n, bytes \in Nat : fd # MAX_NUM_FDT_ENTRIES /\ n <= bytes
       /\ (InDir(fdt, fd) => MAX_FILENAME_LENGTH <= bytes) => FitsIn(SYS_READ, fd, n, bytes)
  /\ \A a, b, n, bytes : a \notin {SYS_READ, SYS_WRITE, SYS_CLOSE, SYS_GETARGS} => FitsIn(a, b, n, bytes)
  /\ \A a, b, n, bytes : a \in {SYS_WRITE, SYS_CLOSE} /\ Desc(b) => FitsIn(a, b, n, bytes)
  /\ \A b, n, bytes : n \in Int /\ (n < 0 \/ ARG_SIZE <= bytes) => FitsIn(SYS_GETARGS, b, n, bytes)
BY DEF FitsIn, Desc, SYS_READ, SYS_WRITE, SYS_CLOSE, SYS_GETARGS

LEMMA Sounds ==
  /\ \A eax, ebx, ecx : Call(eax, ebx, ecx) /\ eax \notin {SYS_READ, SYS_WRITE, SYS_CLOSE, SYS_GETARGS} => Sound
  /\ \A eax, ebx, ecx : Call(eax, ebx, ecx) /\ eax \in {SYS_WRITE, SYS_CLOSE} /\ Desc(ebx) => Sound
  /\ \A bytes : Write(bytes) => Sound
  /\ \A bytes : Says(bytes) => Sound
  /\ \A bytes, status : Exit(bytes, status) => Sound /\ Halts(call') /\ call'[2] = status
  /\ \A name : Open(name) => Sound
  /\ \A command, pc : Exec(command, pc) => Sound
  /\ GetArgs(BUFSIZE, BUFSIZE) => Sound
  /\ Read(0, BUFSIZE - 1, BUFSIZE - 1) => Sound
<1>1. \A a, b, n, bytes : Trap(a, b, n, bytes) /\ bytes \in Nat /\ FitsIn(a, b, n, bytes) => Sound
  BY DEF Trap, Sound
<1>2. 0 \in Nat /\ Desc(1) BY SizesAre DEF Desc
<1>3. \A a, b, n : Call(a, b, n) /\ FitsIn(a, b, n, 0) => Sound BY <1>1, <1>2 DEF Call
<1>4. /\ \A eax, ebx, ecx : Call(eax, ebx, ecx) /\ eax \notin {SYS_READ, SYS_WRITE, SYS_CLOSE, SYS_GETARGS} => Sound
      /\ \A eax, ebx, ecx : Call(eax, ebx, ecx) /\ eax \in {SYS_WRITE, SYS_CLOSE} /\ Desc(ebx) => Sound
  BY <1>3, FitsWhat
<1>5. \A bytes : Write(bytes) => Sound BY <1>2, <1>4 DEF Write
<1>6. \A bytes : Says(bytes) => Sound BY <1>1, <1>2, FitsWhat DEF Says
<1>7. ASSUME NEW bytes, NEW status, Exit(bytes, status) PROVE Sound /\ Halts(call') /\ call'[2] = status
  <2>1. Call(SYS_HALT, status, 0) BY <1>7 DEF Exit
  <2>2. SYS_HALT \notin {SYS_READ, SYS_WRITE, SYS_CLOSE, SYS_GETARGS}
    BY DEF SYS_HALT, SYS_READ, SYS_WRITE, SYS_CLOSE, SYS_GETARGS
  <2> QED BY <1>4, <2>1, <2>2 DEF Call, Trap, Halts
<1>8. {SYS_OPEN, SYS_EXECUTE} \cap {SYS_READ, SYS_WRITE, SYS_CLOSE, SYS_GETARGS} = {}
  BY DEF SYS_OPEN, SYS_EXECUTE, SYS_READ, SYS_WRITE, SYS_CLOSE, SYS_GETARGS
<1>9. (\A name : Open(name) => Sound) /\ (\A command, pc : Exec(command, pc) => Sound)
  BY <1>4, <1>8 DEF Open, Exec
<1>10. GetArgs(BUFSIZE, BUFSIZE) => Sound
  <2>1. FitsIn(SYS_GETARGS, None, BUFSIZE, BUFSIZE) /\ BUFSIZE \in Nat BY SizesAre, FitsWhat
  <2> QED BY <1>1, <2>1 DEF GetArgs
<1>11. Read(0, BUFSIZE - 1, BUFSIZE - 1) => Sound
  <2>1. FitsIn(SYS_READ, 0, BUFSIZE - 1, BUFSIZE - 1) BY SizesAre, FitsWhat
  <2> QED BY <1>1, <2>1, SizesAre DEF Read
<1> QED BY <1>4, <1>5, <1>6, <1>7, <1>9, <1>10, <1>11

(* Programs that keep no descriptor: only the room matters.                *)
LEMMA PlainStep ==
  ASSUME AllInv, UNCHANGED callVars, Shows, Moves, call = <<>>, done' \in {None, done},
         Me.prog \notin Readers \cup {"syserr"}, Sound, call'[1] # SYS_EXECUTE \/ Me.prog \in Parents
  PROVE  FilesInv' /\ HoldInv'
<1>1. Me'.prog = Me.prog BY Stays DEF AllInv
<1>2. Knows(Me', call', room') BY <1>1, KnowsWhat
<1>3. Fits(Me', call', room') BY <1>2 DEF Fits, Sound
<1>4. Writes(Me', call', out'[cur_pid]) BY <1>1 DEF Writes
<1>5. call' # <<>> BY DEF Sound
<1> QED BY <1>3, <1>4, <1>5, GoodKeeps

(* A program that reads.                                                   *)
LEMMA ReaderStep ==
  ASSUME AllInv, Goes, Me.prog \in Readers, Sound, Halts(call') \/ Knows(Me', call', room')
  PROVE  FilesInv' /\ HoldInv'
<1>1. Me'.prog = Me.prog BY Stays DEF AllInv, Goes, Asks
<1>2. Fits(Me', call', room') BY DEF Fits, Sound
<1>3. Writes(Me', call', out'[cur_pid]) BY <1>1 DEF Writes, Readers
<1>4. call' # <<>> BY DEF Sound
<1>5. /\ UNCHANGED callVars /\ Shows /\ Moves /\ call = <<>> /\ done' \in {None, done}
      /\ call'[1] # SYS_EXECUTE
  BY <1>4 DEF Goes, Asks, Ordinary
<1> QED BY <1>2, <1>3, <1>4, <1>5, GoodKeeps

LEMMA ComputeStep ==
  ASSUME AllInv, Goes, Me.prog \in Readers, Compute, Knows(Me', <<>>, room)
  PROVE  FilesInv' /\ HoldInv'
<1>1. Me'.prog = Me.prog BY Stays DEF AllInv, Goes, Asks
<1>2. call' = <<>> /\ room' = room BY DEF Goes, Compute
<1>3. Fits(Me', call', room') BY <1>2 DEF AllInv, HoldInv, Fits
<1>4. Writes(Me', call', out'[cur_pid]) BY <1>1 DEF Writes, Readers
<1> QED BY <1>2, <1>3, <1>4, GoodKeeps DEF Goes, Asks, Ordinary

----------------------------------------------------------------------------
(* The programs that keep no descriptor.                                   *)
LEMMA ShellHolds == ASSUME AllInv, Shell PROVE FilesInv' /\ HoldInv'
<1>1. call = <<>> /\ Me.prog = "shell" BY DEF Shell, At
<1>2. Me.prog \notin Readers \cup {"syserr"} /\ Me.prog \in Parents BY <1>1 DEF Readers, Parents
<1>3. /\ \A bytes, pc : Says(bytes) /\ Goto(pc) => UNCHANGED callVars /\ Shows /\ Moves /\ Sound
      /\ \A status \in Int : \A bytes : Exit(bytes, status) => UNCHANGED callVars /\ Shows /\ Moves /\ Sound /\ done' = None
      /\ \A command, pc : Exec(command, pc) => UNCHANGED callVars /\ Shows /\ Moves /\ Sound /\ done' = None
      /\ Read(0, BUFSIZE - 1, BUFSIZE - 1) /\ Silent /\ Goto("typed")
           => UNCHANGED callVars /\ Shows /\ Moves /\ Sound /\ done' = None
  <2>1. Tables BY DEF AllInv, ProgramsInv
  <2>2. \A bytes : Says(bytes) => UNCHANGED callVars BY DEF Says, Trap
  <2>3. \A command, pc : Exec(command, pc) => UNCHANGED callVars /\ Silent /\ Goto(pc) /\ done' = None
    BY DEF Exec, Call, Trap
  <2>4. Asks => UNCHANGED callVars /\ done' = None BY DEF Asks
  <2> QED BY <1>1, <2>1, <2>2, <2>3, <2>4, Wrappers, Sounds
<1>4. 3 \in Int /\ 0 \in Int OBVIOUS
<1>5. UNCHANGED callVars /\ Shows /\ Moves /\ Sound /\ done' \in {None, done} BY <1>3, <1>4 DEF Shell
<1> QED BY <1>1, <1>2, <1>5, PlainStep

LEMMA GoesHolds ==
  ASSUME AllInv, Goes, Me.prog \notin Readers \cup {"syserr"}, Sound
  PROVE  FilesInv' /\ HoldInv'
<1>1. call' # <<>> BY DEF Sound
<1>2. UNCHANGED callVars /\ Shows /\ Moves /\ call = <<>> /\ done' \in {None, done} /\ call'[1] # SYS_EXECUTE
  BY <1>1 DEF Goes, Asks, Ordinary
<1> QED BY <1>2, PlainStep

LEMMA PlainHold ==
  ASSUME AllInv, Hello \/ Counter \/ Testprint \/ Sigtest, ~Crash
  PROVE  FilesInv' /\ HoldInv'
<1>1. Me.prog \notin Readers \cup {"syserr"}
  BY DEF Hello, Counter, Testprint, Sigtest, At, Readers
<1>2. Goes BY HelloGoes, CounterGoes, TestprintGoes, SigtestGoes DEF AllInv, ProgramsInv
<1>3. \A i, max : CountsTo(i, max) => Sound BY Sounds DEF CountsTo
<1>4. SYS_SET_HANDLER \notin {SYS_READ, SYS_WRITE, SYS_CLOSE, SYS_GETARGS}
  BY DEF SYS_SET_HANDLER, SYS_READ, SYS_WRITE, SYS_CLOSE, SYS_GETARGS
<1>5. Sound
  <2>1. CASE Hello BY <2>1, Sounds DEF Hello
  <2>2. CASE Counter BY <1>3, <2>2, Sounds DEF Counter
  <2>3. CASE Testprint BY <2>3, Sounds DEF Testprint
  <2>4. CASE Sigtest BY <1>4, <2>4, Sounds DEF Sigtest
  <2> QED BY <2>1, <2>2, <2>3, <2>4
<1> QED BY <1>1, <1>2, <1>5, GoesHolds

LEMMA ArbitraryHolds == ASSUME AllInv, Arbitrary, ~Crash PROVE FilesInv' /\ HoldInv'
<1>1. call = <<>> /\ Me.prog = "any" /\ Tables BY DEF Arbitrary, At, AllInv, ProgramsInv
<1>2. Me.prog \notin Readers \cup {"syserr"} /\ Me.prog \in Parents BY <1>1 DEF Readers, Parents
<1>3. SYS_SIGRETURN \notin {SYS_READ, SYS_WRITE, SYS_CLOSE, SYS_GETARGS, SYS_HALT, SYS_EXECUTE}
  BY DEF SYS_SIGRETURN, SYS_READ, SYS_WRITE, SYS_CLOSE, SYS_GETARGS, SYS_HALT, SYS_EXECUTE
<1>4. \A n \in {-1, ARG_SIZE} : GetArgs(n, ARG_SIZE) => Sound
  <2>1. \A n \in {-1, ARG_SIZE} : FitsIn(SYS_GETARGS, None, n, ARG_SIZE)
    BY SizesAre, FitsWhat
  <2> QED BY <2>1, SizesAre DEF GetArgs, Trap, Sound
<1>5. \A status \in Statuses : status \in Int BY ArbitraryInputs
<1>6. CASE \E command \in Commands : Exec(command, "start")
  <2>1. PICK command \in Commands : Exec(command, "start") BY <1>6
  <2>2. UNCHANGED callVars /\ Silent /\ Goto("start") /\ done' = None BY <2>1 DEF Exec, Call, Trap
  <2>3. Shows /\ Moves /\ Sound BY <1>1, <2>1, <2>2, Wrappers, Sounds
  <2> QED BY <1>1, <1>2, <2>2, <2>3, PlainStep
<1>7. CASE Goes /\ Sound BY <1>2, <1>7, GoesHolds
<1> QED BY <1>1, <1>3, <1>4, <1>5, <1>6, <1>7, Wrappers, Sounds DEF Arbitrary, Goes

(* cat and ls.                                                             *)
LEMMA HereIs ==
  ASSUME AllInv, call = <<>>
  PROVE  Tables /\ Knows(Me, <<>>, room) /\ room \in Nat
BY DEF AllInv, ProgramsInv, HoldInv, Fits, Halts

LEMMA ReadIs ==
  ASSUME NEW fd, Desc(fd), NEW n \in Nat, Read(fd, n, n), InDir(fdt, fd) => MAX_FILENAME_LENGTH <= n
  PROVE  Sound
<1>1. fd \in Int /\ fd # MAX_NUM_FDT_ENTRIES /\ n <= n BY DEF Desc
<1>2. FitsIn(SYS_READ, fd, n, n) BY <1>1, FitsWhat
<1> QED BY <1>2 DEF Read, Trap, Sound

LEMMA CatHolds == ASSUME AllInv, Cat PROVE FilesInv' /\ HoldInv'
<1>1. call = <<>> /\ Me.prog = "cat" /\ Me.prog \in Readers BY DEF Cat, At, Readers
<1>2. Goes BY CatGoes DEF AllInv, ProgramsInv
<1>3. Tables /\ ReaderKnows(Me, <<>>) BY <1>1, HereIs DEF Knows
<1>4. cur_pid' = cur_pid BY <1>2 DEF Goes, Asks, callVars, vars
<1>5. ASSUME NEW pc, NEW fd, NEW mem, With(pc, fd, mem), pc \in FdPlaces => Desc(fd),
             pc \in OpenPlaces => call'[1] = SYS_OPEN, Sound
      PROVE  FilesInv' /\ HoldInv'
  <2>1. Me' = [prog |-> "cat", pc |-> pc, fd |-> fd, mem |-> mem] BY <1>1, <1>3, <1>4, <1>5, WithIs
  <2>2. ReaderKnows(Me', call') BY <1>5, <2>1 DEF ReaderKnows, Sound
  <2>3. Knows(Me', call', room') BY <2>1, <2>2, KnowsWhat
  <2> QED BY <1>1, <1>2, <1>5, <2>3, ReaderStep
<1>6. ASSUME NEW bytes, NEW status, Exit(bytes, status) PROVE FilesInv' /\ HoldInv'
  BY <1>1, <1>2, <1>6, Sounds, ReaderStep
<1>7. CASE At("cat", "start") /\ GetArgs(BUFSIZE, BUFSIZE) /\ Goto("args")
  BY <1>5, <1>7, Sounds DEF Goto, FdPlaces, OpenPlaces
<1>8. CASE Open(ArgString) /\ Goto("opened")
  BY <1>5, <1>8, Sounds DEF Goto, FdPlaces, OpenPlaces, Open, Call, Trap
<1>9. \A fd : Desc(fd) /\ Read(fd, BUFSIZE, BUFSIZE) => Sound BY ReadIs, SizesAre
<1>10. CASE At("cat", "opened") /\ Read(ret, BUFSIZE, BUFSIZE) /\ With("read", ret, None)
  <2>1. Desc(ret) BY <1>1, <1>3, <1>10 DEF ReaderKnows, At, OpenPlaces
  <2> QED BY <1>5, <1>9, <1>10, <2>1 DEF OpenPlaces
<1>11. CASE At("cat", "read") /\ Copies(buf) /\ Goto("written")
  <2>1. Desc(Me.fd) BY <1>1, <1>3, <1>11 DEF ReaderKnows, At, FdPlaces
  <2>2. Sound BY <1>11, Sounds DEF Copies
  <2> QED BY <1>5, <1>11, <2>1, <2>2 DEF OpenPlaces, Goto
<1>12. CASE At("cat", "written") /\ Read(Me.fd, BUFSIZE, BUFSIZE) /\ Goto("read")
  <2>1. Desc(Me.fd) BY <1>1, <1>3, <1>12 DEF ReaderKnows, At, FdPlaces
  <2> QED BY <1>5, <1>9, <1>12, <2>1 DEF OpenPlaces, Goto
<1> QED BY <1>6, <1>7, <1>8, <1>10, <1>11, <1>12 DEF Cat

LEMMA LsHolds == ASSUME AllInv, Ls PROVE FilesInv' /\ HoldInv'
<1>1. call = <<>> /\ Me.prog = "ls" /\ Me.prog \in Readers BY DEF Ls, At, Readers
<1>2. Goes BY LsGoes DEF AllInv, ProgramsInv
<1>3. Tables /\ ReaderKnows(Me, <<>>) BY <1>1, HereIs DEF Knows
<1>4. cur_pid' = cur_pid BY <1>2 DEF Goes, Asks, callVars, vars
<1>5. ASSUME NEW pc, NEW fd, NEW mem, With(pc, fd, mem), pc \in FdPlaces => Desc(fd),
             pc \in OpenPlaces => call'[1] = SYS_OPEN, Sound
      PROVE  FilesInv' /\ HoldInv'
  <2>1. Me' = [prog |-> "ls", pc |-> pc, fd |-> fd, mem |-> mem] BY <1>1, <1>3, <1>4, <1>5, WithIs
  <2>2. ReaderKnows(Me', call') BY <1>5, <2>1 DEF ReaderKnows, Sound
  <2>3. Knows(Me', call', room') BY <2>1, <2>2, KnowsWhat
  <2> QED BY <1>1, <1>2, <1>5, <2>3, ReaderStep
<1>6. ASSUME NEW bytes, NEW status, Exit(bytes, status) PROVE FilesInv' /\ HoldInv'
  BY <1>1, <1>2, <1>6, Sounds, ReaderStep
<1>7. CASE Open(Dot) /\ Goto("opened")
  BY <1>5, <1>7, Sounds DEF Goto, FdPlaces, OpenPlaces, Open, Call, Trap
<1>8. \A fd : Desc(fd) /\ Read(fd, SBUFSIZE - 1, SBUFSIZE - 1) => Sound BY ReadIs, SizesAre
<1>9. CASE At("ls", "opened") /\ Read(ret, SBUFSIZE - 1, SBUFSIZE - 1) /\ With("name", ret, None)
  <2>1. Desc(ret) BY <1>1, <1>3, <1>9 DEF ReaderKnows, At, OpenPlaces
  <2> QED BY <1>5, <1>8, <1>9, <2>1 DEF OpenPlaces
<1>10. CASE At("ls", "name") /\ Write(buf \o <<NL>>) /\ Goto("written")
  <2>1. Desc(Me.fd) BY <1>1, <1>3, <1>10 DEF ReaderKnows, At, FdPlaces
  <2> QED BY <1>5, <1>10, <2>1, Sounds DEF OpenPlaces, Goto
<1>11. CASE At("ls", "written") /\ Read(Me.fd, SBUFSIZE - 1, SBUFSIZE - 1) /\ Goto("name")
  <2>1. Desc(Me.fd) BY <1>1, <1>3, <1>11 DEF ReaderKnows, At, FdPlaces
  <2> QED BY <1>5, <1>8, <1>11, <2>1 DEF OpenPlaces, Goto
<1> QED BY <1>6, <1>7, <1>9, <1>10, <1>11 DEF Ls

(* A name that does not begin with a dot is not that of a directory.       *)
LEMMA NoDot ==
  ASSUME NEW name, IsSequence(name), name # <<>>, name[1] # "."
  PROVE  NotDir(name)
<1> DEFINE d == read_dentry_by_name(name)
<1> SUFFICES ASSUME d # ERROR_VAL PROVE fileDirectory[d].fileType # DIRECTORY_FILETYPE BY DEF NotDir
<1>1. d \in 1..Len(fileDirectory) /\ SameName(name, fileDirectory[d].fileName) BY DentryFound
<1> HIDE DEF d
<1>2. SubSeq(name, 1, Least(Len(name), MAX_FILENAME_LENGTH)) = fileDirectory[d].fileName
  BY <1>1 DEF SameName
<1> DEFINE n == Least(Len(name), MAX_FILENAME_LENGTH)
<1>3. name \in Seq(Range(name)) /\ Len(name) \in Nat /\ Len(name) # 0 BY DEF IsSequence
<1>4. n \in 1..Len(name) BY <1>3, SizesAssumption DEF Least
<1> HIDE DEF n
<1>5. SubSeq(name, 1, n)[1] = name[1] BY <1>3, <1>4
<1>6. fileDirectory[d].fileName[1] # "." BY <1>2, <1>5 DEF n
<1> QED BY <1>1, <1>6, ImageNames

LEMMA DeviceNames == NotDir(RtcName) /\ NotDir(Frames[0]) /\ NotDir(Frames[1])
<1>1. \A name \in {RtcName, Frames[0], Frames[1]} : IsSequence(name) /\ name # <<>> /\ name[1] # "."
  BY ImageNames, Zenon DEF IsSequence
<1> QED BY <1>1, NoDot

(* pingpong.                                                               *)
LEMMA PingpongHolds == ASSUME AllInv, Pingpong PROVE FilesInv' /\ HoldInv'
<1>1. call = <<>> /\ Me.prog = "pingpong" /\ Me.prog \in Readers BY DEF Pingpong, At, Readers
<1>2. Goes BY PingpongGoes DEF AllInv, ProgramsInv
<1>3. Tables /\ ReaderKnows(Me, <<>>) /\ DeviceKnows(Me, <<>>) BY <1>1, HereIs DEF Knows
<1>4. cur_pid' = cur_pid BY <1>2 DEF Goes, Asks, callVars, vars
<1>5. ASSUME NEW pc, NEW fd, NEW mem, With(pc, fd, mem), pc \in FdPlaces => Desc(fd),
             pc \in OpenPlaces => call'[1] = SYS_OPEN, call'[1] = SYS_OPEN => NotDir(call'[2]), Sound
      PROVE  FilesInv' /\ HoldInv'
  <2>1. Me' = [prog |-> "pingpong", pc |-> pc, fd |-> fd, mem |-> mem] BY <1>1, <1>3, <1>4, <1>5, WithIs
  <2>2. ReaderKnows(Me', call') BY <1>5, <2>1 DEF ReaderKnows, Sound
  <2>3. DeviceKnows(Me', call') BY <1>1, <1>3, <1>5, <2>1 DEF DeviceKnows, Sound
  <2>4. Knows(Me', call', room') BY <2>1, <2>2, <2>3, KnowsWhat
  <2> QED BY <1>1, <1>2, <1>5, <2>4, ReaderStep
<1>6. SYS_WRITE # SYS_OPEN /\ SYS_READ # SYS_OPEN BY DEF SYS_WRITE, SYS_READ, SYS_OPEN
<1>7. CASE Open(RtcName) /\ Goto("opened")
  <2>1. call'[1] = SYS_OPEN /\ call'[2] = RtcName BY <1>7 DEF Open, Call, Trap
  <2> QED BY <1>5, <1>7, <2>1, Sounds, DeviceNames DEF Goto, FdPlaces, OpenPlaces
<1>8. CASE At("pingpong", "opened") /\ Call(SYS_WRITE, ret, 4) /\ With("draw", ret, None)
  <2>1. Desc(ret) BY <1>1, <1>3, <1>8 DEF ReaderKnows, At, OpenPlaces
  <2>2. call'[1] = SYS_WRITE BY <1>8 DEF Call, Trap
  <2> QED BY <1>5, <1>6, <1>8, <2>1, <2>2, Sounds DEF OpenPlaces
<1>9. CASE At("pingpong", "draw") /\ Says(<<"line">>) /\ Goto("wait")
  <2>1. Desc(Me.fd) BY <1>1, <1>3, <1>9 DEF ReaderKnows, At, FdPlaces
  <2>2. call'[1] = SYS_WRITE BY <1>9 DEF Says, Trap
  <2> QED BY <1>5, <1>6, <1>9, <2>1, <2>2, Sounds DEF OpenPlaces, Goto
<1>10. CASE At("pingpong", "wait") /\ Read(Me.fd, 4, 4) /\ Goto("draw")
  <2>1. Desc(Me.fd) BY <1>1, <1>3, <1>10 DEF ReaderKnows, At, FdPlaces
  <2>2. call'[1] = SYS_READ BY <1>10 DEF Read, Trap
  <2>3. ~InDir(fdt, Me.fd) BY <1>1, <1>3 DEF DeviceKnows, InDir
  <2>4. 4 \in Nat OBVIOUS
  <2>5. Sound BY <1>10, <2>1, <2>3, <2>4, ReadIs
  <2> QED BY <1>5, <1>6, <1>10, <2>1, <2>2, <2>5 DEF OpenPlaces, Goto
<1> QED BY <1>7, <1>8, <1>9, <1>10 DEF Pingpong

(* grep.                                                                   *)
LEMMA GrepMemory ==
  ASSUME NEW m, {"dir", "last"} \subseteq DOMAIN m, NEW v, NEW w
  PROVE  /\ LET n == [m EXCEPT !.dir = v] IN {"dir", "last"} \subseteq DOMAIN n /\ n.dir = v /\ n.last = m.last
         /\ LET n == [m EXCEPT !.fname = v] IN {"dir", "last"} \subseteq DOMAIN n /\ n.dir = m.dir
         /\ LET n == [m EXCEPT !.last = v] IN {"dir", "last"} \subseteq DOMAIN n /\ n.dir = m.dir /\ n.last = v
         /\ LET n == [m EXCEPT !.data = v, !.last = w]
            IN {"dir", "last"} \subseteq DOMAIN n /\ n.dir = m.dir /\ n.last = w
<1>1. /\ LET n == [m EXCEPT !.dir = v] IN {"dir", "last"} \subseteq DOMAIN n /\ n.dir = v /\ n.last = m.last
      /\ LET n == [m EXCEPT !.fname = v] IN {"dir", "last"} \subseteq DOMAIN n /\ n.dir = m.dir
  OBVIOUS
<1>2. ASSUME NEW x, {"dir", "last"} \subseteq DOMAIN x, NEW y
      PROVE  LET n == [x EXCEPT !.last = y] IN {"dir", "last"} \subseteq DOMAIN n /\ n.dir = x.dir /\ n.last = y
  BY <1>2
<1> DEFINE m1 == [m EXCEPT !.data = v]
           m2 == [m1 EXCEPT !.last = w]
<1>3. {"dir", "last"} \subseteq DOMAIN m1 /\ m1.dir = m.dir OBVIOUS
<1> HIDE DEF m1
<1>4. {"dir", "last"} \subseteq DOMAIN m2 /\ m2.dir = m.dir /\ m2.last = w BY <1>2, <1>3
<1>5. m2 = [m EXCEPT !.data = v, !.last = w] BY Zenon DEF m1
<1> HIDE DEF m2
<1> QED BY <1>1, <1>2, <1>4, <1>5

LEMMA GrepHolds == ASSUME AllInv, Grep PROVE FilesInv' /\ HoldInv'
<1>1. call = <<>> /\ Me.prog = "grep" /\ Me.prog \in Readers BY DEF Grep, At, Readers
<1>2. Goes BY GrepGoes DEF AllInv, ProgramsInv
<1>3. Tables /\ ReaderKnows(Me, <<>>) /\ GrepKnows(Me, <<>>, room) /\ room \in Nat BY <1>1, HereIs DEF Knows
<1>4. cur_pid' = cur_pid BY <1>2 DEF Goes, Asks, callVars, vars
<1> DEFINE r(pc, fd, mem) == [prog |-> "grep", pc |-> pc, fd |-> fd, mem |-> mem]
<1>5. ASSUME NEW pc, NEW fd, NEW mem, With(pc, fd, mem), ReaderKnows(r(pc, fd, mem), call'),
             GrepKnows(r(pc, fd, mem), call', room'), Sound
      PROVE  FilesInv' /\ HoldInv'
  <2>1. Me' = r(pc, fd, mem) BY <1>1, <1>3, <1>4, <1>5, WithIs
  <2>2. ReaderKnows(Me', call') /\ GrepKnows(Me', call', room') BY <1>5, <2>1
  <2>3. Me'.prog = "grep" BY <2>1
  <2>4. Knows(Me', call', room') BY <2>2, <2>3, KnowsWhat
  <2> QED BY <1>1, <1>2, <1>5, <2>4, ReaderStep
<1>6. ASSUME NEW bytes, NEW status, Exit(bytes, status) PROVE FilesInv' /\ HoldInv'
  BY <1>1, <1>2, <1>6, Sounds, ReaderStep
<1>7. ASSUME NEW dir, Desc(dir), NEW mem, {"dir", "last"} \subseteq DOMAIN mem, Desc(mem.dir), NextName(dir, mem)
      PROVE  FilesInv' /\ HoldInv'
  <2>1. Sound BY <1>7, ReadIs, SizesAre DEF NextName
  <2>2. call' # <<>> /\ call'[1] = SYS_READ /\ With("name", dir, mem) BY <1>7 DEF NextName, Read, Trap
  <2>3. ReaderKnows(r("name", dir, mem), call') BY <1>7 DEF ReaderKnows, FdPlaces, OpenPlaces
  <2>4. GrepKnows(r("name", dir, mem), call', room') BY <1>7, <2>2 DEF GrepKnows
  <2> QED BY <1>5, <2>1, <2>2, <2>3, <2>4
<1>8. ASSUME NEW fd, Desc(fd), ~InDir(fdt, fd), NEW mem, {"dir", "last"} \subseteq DOMAIN mem, Desc(mem.dir),
             mem.last \in 0..BUFSIZE, ReadOn(fd, mem)
      PROVE  FilesInv' /\ HoldInv'
  <2>1. BUFSIZE - mem.last \in Nat BY <1>8, SizesAre
  <2>2. Read(fd, BUFSIZE - mem.last, BUFSIZE - mem.last) /\ With("data", fd, mem)
    BY <1>8 DEF ReadOn, RoomLeft
  <2>3. Sound BY <1>8, <2>1, <2>2, ReadIs
  <2>4. call' # <<>> /\ call'[1] = SYS_READ /\ room' = BUFSIZE - mem.last BY <2>2 DEF Read, Trap
  <2>5. ReaderKnows(r("data", fd, mem), call') BY <1>8 DEF ReaderKnows, FdPlaces, OpenPlaces
  <2>6. GrepKnows(r("data", fd, mem), call', room') BY <1>8, <2>4 DEF GrepKnows
  <2> QED BY <1>5, <2>2, <2>3, <2>5, <2>6
<1>9. \A name : Open(name) => Sound /\ call' # <<>> /\ call'[1] = SYS_OPEN /\ call'[2] = name
  BY Sounds DEF Open, Call, Trap
<1>10. CASE GetArgs(BUFSIZE, BUFSIZE) /\ Goto("args")
  <2>1. ReaderKnows(r("args", Me.fd, Me.mem), call') /\ GrepKnows(r("args", Me.fd, Me.mem), call', room')
    BY DEF ReaderKnows, GrepKnows, FdPlaces, OpenPlaces
  <2> QED BY <1>5, <1>10, <2>1, Sounds DEF Goto
<1>11. ASSUME Open(Dot), NEW b,
              With("dir", None, [s |-> ArgString, dir |-> None, fname |-> <<>>, last |-> 0,
                                 data |-> [k \in DataIndices |-> b], stack |-> b])
       PROVE  FilesInv' /\ HoldInv'
  <2> DEFINE m == [s |-> ArgString, dir |-> None, fname |-> <<>>, last |-> 0,
                   data |-> [k \in DataIndices |-> b], stack |-> b]
  <2>1. {"dir", "last"} \subseteq DOMAIN m OBVIOUS
  <2> HIDE DEF m
  <2>2. ReaderKnows(r("dir", None, m), call') /\ GrepKnows(r("dir", None, m), call', room')
    BY <1>9, <1>11, <2>1 DEF ReaderKnows, GrepKnows, FdPlaces, OpenPlaces
  <2>3. With("dir", None, m) BY <1>11 DEF m
  <2> QED BY <1>5, <1>9, <1>11, <2>2, <2>3
<1>12. CASE At("grep", "dir") /\ NextName(ret, [Me.mem EXCEPT !.dir = ret])
  <2>1. Desc(ret) /\ {"dir", "last"} \subseteq DOMAIN Me.mem
    BY <1>1, <1>3, <1>12 DEF ReaderKnows, GrepKnows, At, OpenPlaces
  <2> DEFINE m == [Me.mem EXCEPT !.dir = ret]
  <2>2. {"dir", "last"} \subseteq DOMAIN m /\ m.dir = ret BY <2>1, GrepMemory
  <2> HIDE DEF m
  <2> QED BY <1>7, <1>12, <2>1, <2>2 DEF m
<1>13. ASSUME At("grep", "name") \/ At("grep", "opened") \/ At("grep", "data") \/ At("grep", "closed")
       PROVE  {"dir", "last"} \subseteq DOMAIN Me.mem /\ Desc(Me.mem.dir)
  BY <1>1, <1>3, <1>13 DEF GrepKnows, At
<1>14. CASE At("grep", "name") /\ NextName(Me.fd, Me.mem)
  <2>1. Desc(Me.fd) BY <1>1, <1>3, <1>14 DEF ReaderKnows, At, FdPlaces
  <2> QED BY <1>7, <1>13, <1>14, <2>1
<1>15. CASE /\ At("grep", "name") /\ ret # 0 /\ ret # -1 /\ ~(ret > 0 /\ buf[1] = ".")
            /\ Open(buf) /\ With("opened", None, [Me.mem EXCEPT !.fname = buf])
  <2>1. IsSequence(buf) /\ ret = Len(buf) BY <1>1, <1>3, <1>15 DEF GrepKnows, At
  <2>2. Len(buf) \in Nat /\ Len(buf) > 0 /\ buf # <<>> BY <1>15, <2>1 DEF IsSequence
  <2>3. NotDir(buf) BY <1>15, <2>1, <2>2, NoDot
  <2> DEFINE m == [Me.mem EXCEPT !.fname = buf]
  <2>4. {"dir", "last"} \subseteq DOMAIN m /\ m.dir = Me.mem.dir BY <1>13, <1>15, GrepMemory
  <2> HIDE DEF m
  <2>5. Desc(m.dir) BY <1>13, <1>15, <2>4
  <2>6. ReaderKnows(r("opened", None, m), call') /\ GrepKnows(r("opened", None, m), call', room')
    BY <1>9, <1>15, <2>3, <2>4, <2>5 DEF ReaderKnows, GrepKnows, FdPlaces, OpenPlaces
  <2> QED BY <1>5, <1>9, <1>15, <2>6 DEF m
<1>16. CASE At("grep", "opened") /\ ReadOn(ret, [Me.mem EXCEPT !.last = 0])
  <2>1. Desc(ret) /\ ~InDir(fdt, ret)
    BY <1>1, <1>3, <1>16 DEF ReaderKnows, GrepKnows, At, OpenPlaces
  <2> DEFINE m == [Me.mem EXCEPT !.last = 0]
  <2>2. {"dir", "last"} \subseteq DOMAIN m /\ m.dir = Me.mem.dir /\ m.last = 0 BY <1>13, <1>16, GrepMemory
  <2> HIDE DEF m
  <2>3. Desc(m.dir) /\ m.last \in 0..BUFSIZE BY <1>13, <1>16, <2>2, SizesAre
  <2> QED BY <1>8, <1>16, <2>1, <2>2, <2>3 DEF m
<1>17. ASSUME At("grep", "data"), ret # -1, NEW d, NEW s, NEW filled,
              NEW mem, mem = [Me.mem EXCEPT !.data = d, !.last = SearchLines(filled, Me.mem.last + ret, ret, s).last],
              IF ret # 0 THEN ReadOn(Me.fd, mem) ELSE Call(SYS_CLOSE, Me.fd, 0) /\ With("closed", None, mem)
       PROVE  FilesInv' /\ HoldInv'
  <2>1. /\ Desc(Me.fd) /\ ~InDir(fdt, Me.fd) /\ Me.mem.last \in 0..BUFSIZE /\ room = BUFSIZE - Me.mem.last
        /\ IsSequence(buf) /\ ret = Len(buf)
    BY <1>1, <1>3, <1>17 DEF ReaderKnows, GrepKnows, At, FdPlaces
  <2>2. Len(buf) <= room BY <1>1 DEF AllInv, HoldInv, BuffersHold
  <2>3. Me.mem.last + ret \in Nat /\ Me.mem.last + ret <= BUFSIZE
    <3>1. Len(buf) \in Nat BY <2>1 DEF IsSequence
    <3> QED BY <2>1, <2>2, <3>1, SizesAre
  <2> DEFINE l == SearchLines(filled, Me.mem.last + ret, ret, s).last
  <2>4. l \in 0..(Me.mem.last + ret) BY <2>3, SearchWithin, SizesAre
  <2> HIDE DEF l
  <2>5. l \in 0..BUFSIZE BY <2>3, <2>4, SizesAre
  <2>6. {"dir", "last"} \subseteq DOMAIN mem /\ mem.dir = Me.mem.dir /\ mem.last = l
    BY <1>13, <1>17, GrepMemory DEF l
  <2>7. Desc(mem.dir) BY <1>13, <1>17, <2>6
  <2>8. CASE ret # 0
    <3>1. ReadOn(Me.fd, mem) BY <1>17, <2>8
    <3> QED BY <1>8, <2>1, <2>5, <2>6, <2>7, <3>1
  <2>9. CASE ret = 0
    <3>1. Call(SYS_CLOSE, Me.fd, 0) /\ With("closed", None, mem) BY <1>17, <2>9
    <3>2. Sound /\ call' # <<>> BY <2>1, <3>1, Sounds DEF Sound
    <3>3. ReaderKnows(r("closed", None, mem), call') /\ GrepKnows(r("closed", None, mem), call', room')
      BY <2>6, <2>7 DEF ReaderKnows, GrepKnows, FdPlaces, OpenPlaces
    <3> QED BY <1>5, <3>1, <3>2, <3>3
  <2> QED BY <2>8, <2>9
<1>18. CASE At("grep", "closed") /\ NextName(Me.mem.dir, Me.mem) BY <1>7, <1>13, <1>18
<1>19. CASE /\ At("grep", "args")
            /\ IF ret # 0 THEN Exit(<<"could not read argument">>, 3)
               ELSE /\ Open(Dot) /\ Silent
                    /\ \E b \in StackBytes :
                         With("dir", None, [s |-> ArgString, dir |-> None, fname |-> <<>>, last |-> 0,
                                            data |-> [k \in DataIndices |-> b], stack |-> b])
  BY <1>6, <1>11, <1>19, Zenon
<1>20. CASE /\ At("grep", "data")
            /\ IF ret = -1 THEN Exit(<<"file read failed">>, 3)
               ELSE LET m == Me.mem
                        filled == [k \in DataIndices |->
                                     IF k - m.last \in 0..(ret - 1) THEN buf[k - m.last + 1] ELSE m.data[k]]
                        pass == SearchLines(filled, m.last + ret, ret, m.s)
                        mem == [m EXCEPT !.data = pass.data, !.last = pass.last]
                    IN /\ Prints(Found(m.fname, pass.lines))
                       /\ IF ret # 0 THEN ReadOn(Me.fd, mem)
                          ELSE Call(SYS_CLOSE, Me.fd, 0) /\ With("closed", None, mem)
  <2>1. CASE ret = -1 BY <1>6, <1>20, <2>1
  <2>2. CASE ret # -1 BY <1>17, <1>20, <2>2, Zenon
  <2> QED BY <2>1, <2>2
<1>21. CASE /\ At("grep", "name")
            /\ CASE ret = 0       -> Exit(<<>>, 0)
                 [] ret = -1      -> Exit(<<"directory entry read failed">>, 3)
                 [] ret > 0 /\ buf[1] = "." -> NextName(Me.fd, Me.mem)
                 [] OTHER         -> /\ Open(buf) /\ Silent
                                     /\ With("opened", None, [Me.mem EXCEPT !.fname = buf])
  BY <1>6, <1>14, <1>15, <1>21
<1>22. CASE /\ At("grep", "dir")
            /\ IF ret = -1 THEN Exit(<<"directory open failed">>, 2)
               ELSE NextName(ret, [Me.mem EXCEPT !.dir = ret])
  BY <1>6, <1>12, <1>22, Zenon
<1>23. CASE /\ At("grep", "opened")
            /\ IF ret = -1 THEN Exit(<<"file open failed">>, 3)
               ELSE ReadOn(ret, [Me.mem EXCEPT !.last = 0]) /\ Silent
  BY <1>6, <1>16, <1>23, Zenon
<1>24. CASE /\ At("grep", "closed")
            /\ IF ret = -1 THEN Exit(<<"file close failed">>, 3) ELSE NextName(Me.mem.dir, Me.mem)
  BY <1>6, <1>18, <1>24
<1>25. CASE At("grep", "start") /\ GetArgs(BUFSIZE, BUFSIZE) /\ Silent /\ Goto("args") BY <1>10, <1>25
<1> QED BY <1>19, <1>20, <1>21, <1>22, <1>23, <1>24, <1>25, Zenon DEF Grep

(* fish.                                                                   *)
Frame(m) == {"f", "fds"} \subseteq DOMAIN m /\ m.f \in {0, 1} /\ Desc(m.fds[0]) /\ Desc(m.fds[1])

LEMMA FrameKept ==
  ASSUME NEW m, Frame(m), NEW v, NEW i, NEW w
  PROVE  /\ Frame([m EXCEPT !.f = 1 - @]) /\ [m EXCEPT !.f = 1 - @].fds = m.fds
         /\ Frame([m EXCEPT !.col = v])
         /\ Frame([m EXCEPT !.row = w, !.col = v])
         /\ Frame([m EXCEPT !.c[i] = v]) /\ [m EXCEPT !.c[i] = v].fds = m.fds
         /\ Frame([m EXCEPT !.c[i] = v, !.eof[i] = TRUE])
         /\ Frame([m EXCEPT !.f = 1 - m.f, !.c[i] = v]) /\ [m EXCEPT !.f = 1 - m.f, !.c[i] = v].fds = m.fds
<1>1. Frame([m EXCEPT !.f = 1 - m.f]) /\ [m EXCEPT !.f = 1 - m.f].fds = m.fds
  <2>1. 1 - m.f \in {0, 1} BY DEF Frame
  <2> DEFINE x == 1 - m.f
  <2> HIDE DEF x
  <2>2. x \in {0, 1} BY <2>1 DEF x
  <2>3. Frame([m EXCEPT !.f = x]) /\ [m EXCEPT !.f = x].fds = m.fds BY <2>2 DEF Frame
  <2> QED BY <2>3 DEF x
<1>2. ASSUME NEW n, Frame(n), NEW x
      PROVE  /\ Frame([n EXCEPT !.col = x]) /\ Frame([n EXCEPT !.row = x])
             /\ Frame([n EXCEPT !.c = x]) /\ [n EXCEPT !.c = x].fds = n.fds
             /\ Frame([n EXCEPT !.eof = x])
  BY <1>2 DEF Frame
<1>3. [m EXCEPT !.f = 1 - @] = [m EXCEPT !.f = 1 - m.f] BY Zenon
<1>4. [m EXCEPT !.row = w, !.col = v] = [[m EXCEPT !.row = w] EXCEPT !.col = v] BY Zenon
<1>5. [m EXCEPT !.c[i] = v] = [m EXCEPT !.c = [m.c EXCEPT ![i] = v]] OBVIOUS
<1> DEFINE n == [m EXCEPT !.c = [m.c EXCEPT ![i] = v]]
           e == [n.eof EXCEPT ![i] = TRUE]
<1>6. [m EXCEPT !.c[i] = v, !.eof[i] = TRUE] = [n EXCEPT !.eof = e] BY Zenon
<1>7. Frame(n) /\ n.fds = m.fds BY <1>2
<1> HIDE DEF n, e
<1>8. Frame([n EXCEPT !.eof = e]) BY <1>2, <1>7
<1>9. Frame([m EXCEPT !.row = w, !.col = v])
  <2>1. Frame([m EXCEPT !.row = w]) BY <1>2
  <2> QED BY <1>2, <1>4, <2>1, Zenon
<1>10. LET x == [m EXCEPT !.f = 1 - m.f, !.c[i] = v] IN Frame(x) /\ x.fds = m.fds
  <2> DEFINE y == [m EXCEPT !.f = 1 - m.f]
             z == [y.c EXCEPT ![i] = v]
  <2>1. [m EXCEPT !.f = 1 - m.f, !.c[i] = v] = [y EXCEPT !.c = z] BY Zenon
  <2>2. Frame(y) /\ y.fds = m.fds BY <1>1
  <2> HIDE DEF y, z
  <2> QED BY <1>2, <2>1, <2>2
<1> QED BY <1>10, <1>1, <1>2, <1>3, <1>5, <1>6, <1>7, <1>8, <1>9, Zenon DEF n

(* The program goes on with its frames.                                    *)
LEMMA FishKnown ==
  ASSUME AllInv, Goes, Me.prog = "fish", NEW pc, NEW fd, NEW mem, With(pc, fd, mem),
         pc \in FdPlaces => Desc(fd), pc = "frame1" => Desc(mem.fd0),
         pc \in {"read", "got", "both", "end"} => Frame(mem),
         \/ Sound /\ (pc \in OpenPlaces <=> call'[1] = SYS_OPEN) /\ (call'[1] = SYS_OPEN => NotDir(call'[2]))
         \/ Compute /\ pc \notin OpenPlaces
  PROVE  FilesInv' /\ HoldInv'
<1> DEFINE r == [prog |-> "fish", pc |-> pc, fd |-> fd, mem |-> mem]
<1>1. call = <<>> /\ Me.prog \in Readers BY DEF Goes, Readers
<1>2. Tables /\ DeviceKnows(Me, <<>>) BY <1>1, HereIs DEF Knows
<1>3. cur_pid' = cur_pid BY DEF Goes, Asks, callVars, vars
<1>4. Me' = r BY <1>2, <1>3, WithIs
<1>5. r.prog = "fish" /\ r.pc = pc /\ r.fd = fd /\ r.mem = mem OBVIOUS
<1> HIDE DEF r
<1>6. FishKnows(r) BY <1>5 DEF FishKnows, Frame
<1>7. CASE Compute /\ pc \notin OpenPlaces
  <2>1. ReaderKnows(r, <<>>) /\ DeviceKnows(r, <<>>) BY <1>2, <1>5, <1>7 DEF ReaderKnows, DeviceKnows
  <2>2. Knows(r, <<>>, room) BY <1>5, <1>6, <2>1, KnowsWhat
  <2> QED BY <1>1, <1>4, <1>7, <2>2, ComputeStep
<1>8. CASE Sound /\ (pc \in OpenPlaces <=> call'[1] = SYS_OPEN) /\ (call'[1] = SYS_OPEN => NotDir(call'[2]))
  <2>1. ReaderKnows(r, call') /\ DeviceKnows(r, call') BY <1>2, <1>5, <1>8 DEF ReaderKnows, DeviceKnows, Sound
  <2>2. Knows(r, call', room') BY <1>5, <1>6, <2>1, KnowsWhat
  <2> QED BY <1>1, <1>4, <1>8, <2>2, ReaderStep
<1> QED BY <1>7, <1>8

LEMMA FishHolds == ASSUME AllInv, Fish PROVE FilesInv' /\ HoldInv'
<1>1. call = <<>> /\ Me.prog = "fish" /\ Me.prog \in Readers
  BY DEF Fish, FishRead, FishGot, FishBoth, FishEnd, At, Readers
<1>2. Goes BY FishGoes DEF AllInv, ProgramsInv
<1>3. Tables /\ ReaderKnows(Me, <<>>) /\ FishKnows(Me) /\ DeviceKnows(Me, <<>>) BY <1>1, HereIs DEF Knows
<1>4. ASSUME NEW bytes, NEW status, Exit(bytes, status) PROVE FilesInv' /\ HoldInv'
  BY <1>1, <1>2, <1>4, Sounds, ReaderStep
<1>5. \A name : Open(name) => Sound /\ call'[1] = SYS_OPEN /\ call'[2] = name
  BY Sounds DEF Open, Call, Trap
<1>6. ASSUME NEW eax \in {SYS_WRITE, SYS_CLOSE}, NEW fd, Desc(fd), NEW n, Call(eax, fd, n)
      PROVE  Sound /\ call'[1] # SYS_OPEN
  <2>1. Sound BY <1>6, Sounds
  <2>2. call'[1] = eax BY <1>6 DEF Call, Trap
  <2> QED BY <2>1, <2>2 DEF SYS_OPEN, SYS_WRITE, SYS_CLOSE
<1>7. ASSUME NEW n \in Nat, NEW fd, Desc(fd), Read(fd, n, n) PROVE Sound /\ call'[1] # SYS_OPEN
  <2>1. ~InDir(fdt, fd) BY <1>1, <1>3 DEF DeviceKnows, InDir
  <2>2. Sound BY <1>7, <2>1, ReadIs
  <2>3. call'[1] = SYS_READ BY <1>7 DEF Read, Trap
  <2> QED BY <2>2, <2>3 DEF SYS_OPEN, SYS_READ
<1>8. (Me.pc \in FdPlaces => Desc(Me.fd)) /\ (Me.pc \in OpenPlaces => Desc(ret))
  BY <1>1, <1>3 DEF ReaderKnows
<1>9. Me.pc \in {"read", "got", "both", "end"} => Frame(Me.mem) /\ Desc(Me.fd)
  BY <1>1, <1>3, <1>8 DEF FishKnows, Frame, FdPlaces
<1>10. CASE Call(SYS_VIDMAP, 129, 0) /\ Goto("video")
  <2>1. SYS_VIDMAP \notin {SYS_READ, SYS_WRITE, SYS_CLOSE, SYS_GETARGS, SYS_OPEN}
    BY DEF SYS_VIDMAP, SYS_READ, SYS_WRITE, SYS_CLOSE, SYS_GETARGS, SYS_OPEN
  <2>2. Sound /\ call'[1] # SYS_OPEN BY <1>10, <2>1, Sounds DEF Call, Trap
  <2> QED BY <1>1, <1>2, <1>10, <2>2, FishKnown DEF Goto, FdPlaces, OpenPlaces
<1>11. CASE Open(RtcName) /\ Goto("rtc")
  BY <1>1, <1>2, <1>5, <1>11, FishKnown, DeviceNames DEF Goto, FdPlaces, OpenPlaces
<1>12. CASE At("fish", "rtc") /\ Open(Frames[0]) /\ With("frame0", ret, None)
  <2>1. Desc(ret) BY <1>8, <1>12 DEF At, OpenPlaces
  <2> QED BY <1>1, <1>2, <1>5, <1>12, <2>1, FishKnown, DeviceNames DEF OpenPlaces
<1>13. CASE At("fish", "frame0") /\ Open(Frames[1]) /\ With("frame1", Me.fd, [fd0 |-> ret])
  <2>1. Desc(ret) /\ Desc(Me.fd) BY <1>8, <1>13 DEF At, OpenPlaces, FdPlaces
  <2>2. [fd0 |-> ret].fd0 = ret OBVIOUS
  <2> QED BY <1>1, <1>2, <1>5, <1>13, <2>1, <2>2, FishKnown, DeviceNames DEF OpenPlaces
<1>14. CASE /\ At("fish", "frame1") /\ Compute
            /\ With("read", Me.fd,
                    [f |-> 0, fds |-> [f \in 0..1 |-> IF f = 0 THEN Me.mem.fd0 ELSE ret], c |-> Zeros,
                     eof |-> [f \in 0..1 |-> FALSE], row |-> 0, col |-> 0])
  <2>1. Desc(ret) /\ Desc(Me.fd) BY <1>8, <1>14 DEF At, OpenPlaces, FdPlaces
  <2>2. Desc(Me.mem.fd0) BY <1>1, <1>3, <1>14 DEF FishKnows, At
  <2> DEFINE fds == [f \in 0..1 |-> IF f = 0 THEN Me.mem.fd0 ELSE ret]
             eof == [f \in 0..1 |-> FALSE]
             m == [f |-> 0, fds |-> fds, c |-> Zeros, eof |-> eof, row |-> 0, col |-> 0]
  <2>3. fds[0] = Me.mem.fd0 /\ fds[1] = ret OBVIOUS
  <2> HIDE DEF fds, eof
  <2>4. {"f", "fds"} \subseteq DOMAIN m /\ m.f = 0 /\ m.fds = fds OBVIOUS
  <2> HIDE DEF m
  <2>5. Frame(m) BY <2>1, <2>2, <2>3, <2>4 DEF Frame
  <2>6. With("read", Me.fd, m) BY <1>14 DEF m, fds, eof
  <2> QED BY <1>1, <1>2, <1>14, <2>1, <2>5, <2>6, FishKnown DEF OpenPlaces
<1>15. ASSUME NEW pc \in {"read", "both", "end", "got"}, NEW m, Frame(m), Desc(Me.fd), With(pc, Me.fd, m), Compute
       PROVE  FilesInv' /\ HoldInv'
  BY <1>1, <1>2, <1>15, FishKnown DEF OpenPlaces
<1>16. CASE FishRead
  <2> DEFINE m == Me.mem
  <2>1. Frame(m) /\ Desc(Me.fd) BY <1>9, <1>16 DEF FishRead, At
  <2>2. CASE Read(m.fds[m.f], 1, 1) /\ Goto("got")
    <3>1. Desc(m.fds[m.f]) /\ 1 \in Nat BY <2>1 DEF Frame
    <3>2. Sound /\ call'[1] # SYS_OPEN BY <1>7, <2>2, <3>1
    <3> QED BY <1>1, <1>2, <2>1, <2>2, <3>2, FishKnown DEF Goto, OpenPlaces
  <2>3. CASE Compute /\ With(IF m.f = 0 THEN "read" ELSE "both", Me.fd, [m EXCEPT !.f = 1 - @])
    <3>1. Frame([m EXCEPT !.f = 1 - @]) BY <2>1, FrameKept
    <3> QED BY <1>15, <2>1, <2>3, <3>1, Zenon
  <2> QED BY <1>16, <2>2, <2>3, Zenon DEF FishRead
<1>17. CASE FishGot
  <2> DEFINE m == [Me.mem EXCEPT !.f = 1 - @]
             f == Me.mem.f
             n == IF ret = 0 THEN [m EXCEPT !.c[f] = NL, !.eof[f] = TRUE] ELSE [m EXCEPT !.c[f] = buf[1]]
  <2>1. Frame(Me.mem) /\ Desc(Me.fd) BY <1>9, <1>17 DEF FishGot, At
  <2>2. Frame(m) BY <2>1, FrameKept
  <2>3. Compute /\ With(IF f = 0 THEN "read" ELSE "both", Me.fd, n) BY <1>17, Zenon DEF FishGot
  <2> HIDE DEF m, f
  <2>4. Frame([m EXCEPT !.c[f] = NL, !.eof[f] = TRUE]) /\ Frame([m EXCEPT !.c[f] = buf[1]])
    BY <2>2, FrameKept
  <2>5. Frame(n) BY <2>4, Zenon
  <2> HIDE DEF n
  <2> QED BY <1>15, <2>1, <2>3, <2>5, Zenon
<1>18. CASE FishBoth
  <2> DEFINE m == Me.mem
             x == m.col + 1
  <2>1. Frame(m) /\ Desc(Me.fd) BY <1>9, <1>18 DEF FishBoth, At
  <2>2. Compute /\ (Goto("end") \/ With("read", Me.fd, [m EXCEPT !.col = x])) BY <1>18, Zenon DEF FishBoth
  <2> HIDE DEF x
  <2>3. Frame([m EXCEPT !.col = x]) BY <2>1, FrameKept
  <2> QED BY <1>15, <2>1, <2>2, <2>3, Zenon DEF Goto
<1>19. CASE FishEnd
  <2> DEFINE f == Me.mem.f
             v == IF Me.mem.eof[f] THEN NL ELSE "0"
             m == [Me.mem EXCEPT !.f = 1 - f, !.c[f] = v]
             y == m.row + 1
             n == [m EXCEPT !.row = y, !.col = 0]
             pc == IF m.eof[0] /\ m.eof[1] THEN "rate" ELSE "read"
  <2>1. Frame(Me.mem) /\ Desc(Me.fd) /\ f \in {0, 1} BY <1>9, <1>19 DEF FishEnd, At, Frame
  <2>2. /\ Call(SYS_CLOSE, m.fds[f], 0) \/ Compute
        /\ With("end", Me.fd, m) \/ With(pc, Me.fd, n)
    BY <1>19, Zenon DEF FishEnd
  <2>3. Frame(m) /\ m.fds = Me.mem.fds
    <3> HIDE DEF v
    <3> QED BY <2>1, FrameKept
  <2>4. pc \in {"rate", "read"} OBVIOUS
  <2> HIDE DEF m, y, pc
  <2>5. Frame(n) BY <2>3, FrameKept
  <2> HIDE DEF n, f
  <2>6. Desc(m.fds[f]) BY <2>1, <2>3 DEF Frame
  <2>7. (Sound /\ call'[1] # SYS_OPEN) \/ Compute BY <1>6, <2>2, <2>6
  <2>8. ASSUME NEW p \in {"end", "rate", "read"}, NEW mem, Frame(mem), With(p, Me.fd, mem)
        PROVE  FilesInv' /\ HoldInv'
    BY <1>1, <1>2, <2>1, <2>7, <2>8, FishKnown DEF OpenPlaces
  <2> QED BY <2>2, <2>3, <2>4, <2>5, <2>8
<1>20. CASE At("fish", "rate") /\ Call(SYS_WRITE, Me.fd, 4) /\ With("wait", Me.fd, [wait |-> 1, i |-> 0])
  <2>1. Desc(Me.fd) BY <1>8, <1>20 DEF At, FdPlaces
  <2>2. Sound /\ call'[1] # SYS_OPEN BY <1>6, <1>20, <2>1
  <2> QED BY <1>1, <1>2, <1>20, <2>1, <2>2, FishKnown DEF OpenPlaces
<1>21. ASSUME At("fish", "wait"), NEW mem, With("wait", Me.fd, mem),
              Read(Me.fd, 4, 4) \/ Call(SYS_CLOSE, Me.fd, 0) \/ Compute
       PROVE  FilesInv' /\ HoldInv'
  <2>1. Desc(Me.fd) /\ 4 \in Nat BY <1>8, <1>21 DEF At, FdPlaces
  <2>2. (Sound /\ call'[1] # SYS_OPEN) \/ Compute BY <1>6, <1>7, <1>21, <2>1
  <2> QED BY <1>1, <1>2, <1>21, <2>1, <2>2, FishKnown DEF OpenPlaces
<1>22. CASE /\ At("fish", "wait")
            /\ LET m == Me.mem IN
               CASE m.wait > 4 -> Exit(<<>>, 0)
                 [] m.wait <= 4 /\ m.i < Ticks[m.wait] ->
                      Read(Me.fd, 4, 4) /\ Silent /\ With("wait", Me.fd, [m EXCEPT !.i = @ + 1])
                 [] OTHER -> /\ Prints(FishCalls[m.wait])
                             /\ IF m.wait = 4 THEN Call(SYS_CLOSE, Me.fd, 0)
                                ELSE Compute
                             /\ With("wait", Me.fd, [wait |-> m.wait + 1, i |-> 0])
  <2>1. \/ Exit(<<>>, 0)
        \/ \E mem : With("wait", Me.fd, mem) /\ (Read(Me.fd, 4, 4) \/ Call(SYS_CLOSE, Me.fd, 0) \/ Compute)
    BY <1>22, Zenon
  <2> QED BY <1>4, <1>21, <1>22, <2>1
<1>23. CASE /\ At("fish", "video")
            /\ IF ret = -1 THEN Exit(<<>>, -1) ELSE Open(RtcName) /\ Silent /\ Goto("rtc")
  BY <1>4, <1>11, <1>23, Zenon
<1>24. CASE /\ At("fish", "frame0")
            /\ IF ret < 0 THEN Exit(<<>>, -1)
               ELSE Open(Frames[1]) /\ Silent /\ With("frame1", Me.fd, [fd0 |-> ret])
  BY <1>4, <1>13, <1>24, Zenon
<1>25. CASE /\ At("fish", "frame1")
            /\ IF ret < 0 THEN Exit(<<>>, -1)
               ELSE /\ Compute /\ Silent
                    /\ With("read", Me.fd,
                            [f |-> 0, fds |-> [f \in 0..1 |-> IF f = 0 THEN Me.mem.fd0 ELSE ret], c |-> Zeros,
                             eof |-> [f \in 0..1 |-> FALSE], row |-> 0, col |-> 0])
  BY <1>4, <1>14, <1>25, Zenon
<1> QED BY <1>10, <1>12, <1>16, <1>17, <1>18, <1>19, <1>20, <1>22, <1>23, <1>24, <1>25, Zenon DEF Fish

----------------------------------------------------------------------------
(* The calls of syserr: those of test 3, and the bad ones of the others.   *)
BadCall(c) ==
  /\ c = <<c[1], c[2], c[3]>>
  /\ \/ /\ c[1] \in {SYS_READ, SYS_WRITE, SYS_CLOSE} /\ Desc(c[2]) /\ c[3] \in 0..31
        /\ \/ c[2] \notin 0..1 \/ c[1] = SYS_CLOSE
           \/ c[1] = SYS_WRITE /\ c[2] = 0
           \/ c[1] = SYS_READ /\ c[2] = 1
     \/ /\ c[1] = SYS_OPEN /\ read_dentry_by_name(c[2]) = ERROR_VAL
        /\ ~IsPrefix(StdinName, c[2]) /\ ~IsPrefix(StdoutName, c[2])
     \/ c[1] = SYS_VIDMAP /\ c[2] \in {0, 4}
     \/ c[1] \in {0, BIG_FD, NEG_FD}

LEMMA OpenLots ==
  /\ Len(Tests[3]) = 13
  /\ \A j \in 1..7 : Tests[3][j] = <<SYS_OPEN, Dot, 0>>
  /\ \A j \in 8..13 : Tests[3][j] = <<SYS_CLOSE, j - 6, 0>>
<1> DEFINE f == [k \in 1..7 |-> <<SYS_OPEN, Dot, 0>>]
           g == [i \in 1..6 |-> i + 1]
           h == On(g, SYS_CLOSE)
<1>1. Tests[3] = f \o h BY DEF Tests, err_open_lots
<1>2. h = [i \in 1..6 |-> h[i]] /\ \A i \in 1..6 : h[i] = <<SYS_CLOSE, i + 1, 0>>
  BY DEF On
<1>3. f = [i \in 1..7 |-> f[i]] /\ \A i \in 1..7 : f[i] = <<SYS_OPEN, Dot, 0>> OBVIOUS
<1> HIDE DEF f, h
<1> DEFINE X == {f[i] : i \in 1..7} \cup {h[i] : i \in 1..6}
<1>4. f \in Seq(X) /\ h \in Seq(X) /\ Len(f) = 7 /\ Len(h) = 6
  <2>1. \A i \in 1..7 : f[i] \in X OBVIOUS
  <2>2. \A i \in 1..6 : h[i] \in X OBVIOUS
  <2> HIDE DEF X
  <2> QED BY <1>2, <1>3, <2>1, <2>2
<1> HIDE DEF X
<1>5. /\ Len(f \o h) = 13
      /\ \A k \in 1..13 : (f \o h)[k] = IF k <= 7 THEN f[k] ELSE h[k - 7]
  <2>1. /\ Len(f \o h) = Len(f) + Len(h)
        /\ \A k \in 1..(Len(f) + Len(h)) : (f \o h)[k] = IF k <= Len(f) THEN f[k] ELSE h[k - Len(f)]
    BY <1>4, JoinedSeq
  <2>2. Len(f) + Len(h) = 13 BY <1>4
  <2> QED BY <1>4, <2>1, <2>2
<1>6. ASSUME NEW j \in 8..13 PROVE Tests[3][j] = <<SYS_CLOSE, j - 6, 0>>
  <2>1. j - 7 \in 1..6 /\ (j - 7) + 1 = j - 6 /\ j \in 1..13 /\ ~(j <= 7) OBVIOUS
  <2> QED BY <1>1, <1>2, <1>5, <2>1
<1>7. ASSUME NEW j \in 1..7 PROVE Tests[3][j] = <<SYS_OPEN, Dot, 0>> BY <1>1, <1>3, <1>5
<1> QED BY <1>1, <1>5, <1>6, <1>7

LEMMA BadTests == \A n \in (1..8) \ {3} : \A i \in 1..Len(Tests[n]) : BadCall(Tests[n][i])
<1> USE DEF SYS_READ, SYS_WRITE, SYS_CLOSE, SYS_OPEN, SYS_VIDMAP
<1>1. ASSUME NEW fd \in {BIG_FD, NEG_FD} PROVE \A i \in 1..Len(ReadWriteClose(fd)) : BadCall(ReadWriteClose(fd)[i])
  <2>1. Desc(fd) /\ fd \notin 0..1 BY SizesAre DEF Desc, BIG_FD, NEG_FD
  <2> DEFINE s == ReadWriteClose(fd)
  <2>2. Len(s) = 3 /\ s[1] = <<SYS_READ, fd, 31>> /\ s[2] = <<SYS_WRITE, fd, 31>> /\ s[3] = <<SYS_CLOSE, fd, 0>>
    BY DEF ReadWriteClose
  <2> HIDE DEF s
  <2>3. BadCall(s[1]) /\ BadCall(s[2]) /\ BadCall(s[3]) BY <2>1, <2>2 DEF BadCall
  <2>4. \A i \in 1..Len(s) : i = 1 \/ i = 2 \/ i = 3 BY <2>2
  <2> QED BY <2>3, <2>4 DEF s
<1>2. ASSUME NEW i \in 1..Len(err_open) PROVE BadCall(err_open[i])
  <2> DEFINE a == Append(HelloName, Last(HelloName))
             b == Front(ShellName)
  <2> HIDE DEF a, b
  <2>1. err_open = << <<SYS_OPEN, a, 0>>, <<SYS_OPEN, b, 0>>, <<SYS_OPEN, <<>>, 0>> >> BY DEF err_open, a, b
  <2>2. DOMAIN err_open = 1..Len(err_open) /\ Len(err_open) = 3 BY <2>1
  <2>3. /\ read_dentry_by_name(err_open[i][2]) = ERROR_VAL
        /\ ~IsPrefix(StdinName, err_open[i][2]) /\ ~IsPrefix(StdoutName, err_open[i][2])
    BY <2>2, ImageNames, Zenon
  <2>4. err_open[i] = <<err_open[i][1], err_open[i][2], err_open[i][3]>> /\ err_open[i][1] = SYS_OPEN
    BY <2>1, <2>2
  <2> QED BY <2>3, <2>4 DEF BadCall
<1>3. ASSUME NEW i \in 1..Len(err_unopened) PROVE BadCall(err_unopened[i])
  <2> DEFINE f == [i_1 \in 1..8 |-> i_1 - 1]
             g == [i_1 \in 1..6 |-> i_1 + 1]
             u == On(f, SYS_CLOSE)
             v == On(g, SYS_READ)
             w == On(g, SYS_WRITE)
  <2>1. err_unopened = u \o v \o w BY DEF err_unopened
  <2>2. u = [k \in 1..8 |-> u[k]] /\ \A k \in 1..8 : u[k] = <<SYS_CLOSE, k - 1, 0>> BY DEF On
  <2>3. v = [k \in 1..6 |-> v[k]] /\ \A k \in 1..6 : v[k] = <<SYS_READ, k + 1, 31>> BY DEF On
  <2>4. w = [k \in 1..6 |-> w[k]] /\ \A k \in 1..6 : w[k] = <<SYS_WRITE, k + 1, 31>> BY DEF On
  <2> HIDE DEF u, v, w
  <2> DEFINE X == {u[k] : k \in 1..8} \cup {v[k] : k \in 1..6} \cup {w[k] : k \in 1..6}
  <2>5. u \in Seq(X) /\ v \in Seq(X) /\ w \in Seq(X)
    <3>1. (\A k \in 1..8 : u[k] \in X) /\ (\A k \in 1..6 : v[k] \in X) /\ (\A k \in 1..6 : w[k] \in X) OBVIOUS
    <3> HIDE DEF X
    <3> QED BY <2>2, <2>3, <2>4, <3>1
  <2>6. \A c \in X : BadCall(c)
    <3>0. (\A k \in 1..8 : Desc(k - 1)) /\ (\A k \in 1..6 : Desc(k + 1)) BY SizesAre DEF Desc
    <3>1. ASSUME NEW k \in 1..8 PROVE BadCall(u[k])
      <4>1. u[k][1] = SYS_CLOSE /\ u[k][2] = k - 1 /\ u[k][3] = 0 /\ u[k] = <<u[k][1], u[k][2], u[k][3]>> BY <2>2
      <4> QED BY <3>0, <4>1 DEF BadCall
    <3>2. ASSUME NEW k \in 1..6 PROVE BadCall(v[k])
      <4>1. v[k][1] = SYS_READ /\ v[k][2] = k + 1 /\ v[k][3] = 31 /\ v[k] = <<v[k][1], v[k][2], v[k][3]>> BY <2>3
      <4>2. v[k][2] \notin 0..1 BY <4>1
      <4> QED BY <3>0, <4>1, <4>2 DEF BadCall
    <3>3. ASSUME NEW k \in 1..6 PROVE BadCall(w[k])
      <4>1. w[k][1] = SYS_WRITE /\ w[k][2] = k + 1 /\ w[k][3] = 31 /\ w[k] = <<w[k][1], w[k][2], w[k][3]>> BY <2>4
      <4>2. w[k][2] \notin 0..1 BY <4>1
      <4> QED BY <3>0, <4>1, <4>2 DEF BadCall
    <3> QED BY <3>1, <3>2, <3>3
  <2> HIDE DEF X
  <2>7. u \o v \o w \in Seq(X)
    <3>1. u \o v \in Seq(X) BY <2>5, JoinedSeq
    <3> QED BY <2>5, <3>1, JoinedSeq
  <2>8. err_unopened[i] \in X
    <3>1. err_unopened \in Seq(X) BY <2>1, <2>7
    <3> DEFINE z == err_unopened
    <3>2. z \in Seq(X) /\ i \in 1..Len(z) BY <3>1
    <3> HIDE DEF z
    <3>3. z[i] \in X BY <3>2
    <3> QED BY <3>3 DEF z
  <2> QED BY <2>6, <2>8
<1>4. \A i \in 1..Len(err_vidmap) : BadCall(err_vidmap[i]) BY DEF err_vidmap, BadCall
<1>5. \A i \in 1..Len(err_stdin_out) : BadCall(err_stdin_out[i])
  <2>1. Desc(0) /\ Desc(1) BY SizesAre DEF Desc
  <2> QED BY <2>1 DEF err_stdin_out, BadCall
<1>6. \A i \in 1..Len(err_syscall_num) : BadCall(err_syscall_num[i])
  <2> HIDE DEF SYS_READ, SYS_WRITE, SYS_CLOSE, SYS_OPEN, SYS_VIDMAP
  <2> QED BY DEF err_syscall_num, BadCall
<1>7. /\ Tests[1] = ReadWriteClose(NEG_FD) /\ Tests[2] = ReadWriteClose(BIG_FD) /\ Tests[4] = err_open
      /\ Tests[5] = err_unopened /\ Tests[6] = err_vidmap /\ Tests[7] = err_stdin_out
      /\ Tests[8] = err_syscall_num
  BY DEF Tests, err_neg_fd, err_big_fd
<1>8. \A n \in (1..8) \ {3} : n = 1 \/ n = 2 \/ n = 4 \/ n = 5 \/ n = 6 \/ n = 7 \/ n = 8 OBVIOUS
<1> QED BY <1>1, <1>2, <1>3, <1>4, <1>5, <1>6, <1>7, <1>8

(* With nothing open no descriptor is that of a directory, ...             *)
LEMMA NothingOpen ==
  ASSUME FilesInv, InUse(fdt, {})
  PROVE  \A fd : ~InDir(fdt, fd)
<1>1. \A fd \in Entries : fdt[fd].flags = DIRECTORY_FLAG => fd \in OpenFds
  BY DEF FilesInv, Positioned, fdt
<1>2. \A fd \in OpenFds : fd \in 2..7 BY SizesAre DEF OpenFds, NOT_IN_OUT
<1> QED BY <1>1, <1>2 DEF InDir, InUse, DIRECTORY_FLAG, UNUSED_FLAG

(* ... a bad call has room, ...                                            *)
LEMMA BadFits ==
  ASSUME FilesInv, InUse(fdt, {}), NEW c, BadCall(c)
  PROVE  FitsIn(c[1], c[2], c[3], IF c[1] = SYS_READ THEN 31 ELSE 0)
<1>1. ~InDir(fdt, c[2]) BY NothingOpen
<1>2. c[1] = SYS_GETARGS => FALSE
  BY DEF BadCall, SYS_GETARGS, SYS_READ, SYS_WRITE, SYS_CLOSE, SYS_OPEN, SYS_VIDMAP, BIG_FD, NEG_FD
<1>3. c[1] \in {SYS_READ, SYS_WRITE, SYS_CLOSE} => Desc(c[2]) /\ c[3] \in 0..31
  BY DEF BadCall, SYS_READ, SYS_WRITE, SYS_CLOSE, SYS_OPEN, SYS_VIDMAP, BIG_FD, NEG_FD
<1> QED BY <1>1, <1>2, <1>3 DEF FitsIn

(* ... and fails.                                                          *)
LEMMA BadFails ==
  ASSUME FilesInv, InUse(fdt, {}), NEW c, BadCall(c), syscall(c[1], c[2], c[3])
  PROVE  ret' = -1 /\ process_fdt' = process_fdt
<1> DEFINE fd == c[2]
           n == c[3]
<1> USE DEF SYS_HALT, SYS_EXECUTE, SYS_READ, SYS_WRITE, SYS_OPEN, SYS_CLOSE,
            SYS_GETARGS, SYS_VIDMAP, SYS_SET_HANDLER, SYS_SIGRETURN, MAX_SYSCALL_NUM
<1>1. ~InDir(fdt, fd) BY NothingOpen
<1>2. fd \in 2..7 => Entry(fd).flags = UNUSED_FLAG BY SizesAre DEF InUse, Entry
<1>3. CASE c[1] = SYS_READ
  <2>1. sys_read(fd, n) BY <1>3 DEF syscall, InvalidNumber
  <2>2. Desc(fd) /\ n \in 0..31 /\ (fd \notin 0..1 \/ fd = 1) BY <1>3 DEF BadCall, BIG_FD, NEG_FD
  <2>3. fd \in Int /\ n \in Int /\ 31 \in Nat /\ n <= 31 BY <2>2 DEF Desc
  <2>4. ReadRefused(fd, n) \/ fd \in 2..7 BY <2>2, SizesAre DEF Desc, ReadRefused, STDIN_FLAG
  <2> HIDE DEF fd, n
  <2>5. /\ Entry(fd).flags = UNUSED_FLAG => ret' = -1 /\ process_fdt' = process_fdt
        /\ ReadRefused(fd, n) => ret' = -1 /\ process_fdt' = process_fdt
    BY <1>1, <2>1, <2>3, ReadGives
  <2> QED BY <1>2, <2>4, <2>5
<1>4. CASE c[1] = SYS_WRITE
  <2>1. sys_write(fd, n) BY <1>4 DEF syscall, InvalidNumber
  <2>2. Desc(fd) /\ n \in 0..31 /\ (fd \notin 0..1 \/ fd = 0) BY <1>4 DEF BadCall, BIG_FD, NEG_FD
  <2>3. WriteRefused(fd, n) \/ fd \in 2..7 BY <2>2, SizesAre DEF Desc, WriteRefused
  <2> HIDE DEF fd, n
  <2> QED BY <1>2, <2>1, <2>2, <2>3, WriteGives
<1>5. CASE c[1] = SYS_CLOSE
  <2>1. sys_close(fd) BY <1>5 DEF syscall, InvalidNumber
  <2>2. Desc(fd) BY <1>5 DEF BadCall, BIG_FD, NEG_FD
  <2>3. CloseRefused(fd) \/ fd \in 2..7 BY <2>2, SizesAre DEF Desc, CloseRefused, NOT_IN_OUT
  <2> HIDE DEF fd, n
  <2> QED BY <1>2, <2>1, <2>2, <2>3, CloseGives
<1>6. CASE c[1] = SYS_OPEN
  <2>1. sys_open(fd) BY <1>6 DEF syscall, InvalidNumber
  <2>2. read_dentry_by_name(fd) = ERROR_VAL /\ ~IsPrefix(StdinName, fd) /\ ~IsPrefix(StdoutName, fd)
    BY <1>6 DEF BadCall, BIG_FD, NEG_FD
  <2> QED BY <2>1, <2>2 DEF sys_open, OpenStandard, OpenFile, OpenFails, Fail, Return, ERROR_VAL
<1>7. CASE c[1] = SYS_VIDMAP
  <2>1. sys_vidmap(fd) BY <1>7 DEF syscall, InvalidNumber
  <2>2. fd \in {0, 4} BY <1>7 DEF BadCall, BIG_FD, NEG_FD
  <2> QED BY <2>1, <2>2 DEF sys_vidmap, VidmapRefused, Just, Return, ERROR_VAL
<1>8. CASE c[1] \in {0, BIG_FD, NEG_FD}
  <2>1. Just(ERROR_VAL) BY <1>8 DEF syscall, InvalidNumber, BIG_FD, NEG_FD
  <2> QED BY <2>1 DEF Just, Return, ERROR_VAL
<1> QED BY <1>3, <1>4, <1>5, <1>6, <1>7, <1>8 DEF BadCall

(* Test 3: six opens find an entry, the seventh does not, and the entries  *)
(* are closed one by one.                                                  *)
LEMMA LotsFits ==
  ASSUME NEW k \in 0..12
  PROVE  LET c == Tests[3][k + 1] IN
         /\ c = <<c[1], c[2], c[3]>> /\ c[1] \in {SYS_OPEN, SYS_CLOSE}
         /\ \A bytes : FitsIn(c[1], c[2], c[3], bytes)
<1>1. CASE k <= 6
  <2>1. k + 1 \in 1..7 BY <1>1
  <2>2. Tests[3][k + 1] = <<SYS_OPEN, Dot, 0>> BY <2>1, OpenLots
  <2> QED BY <2>2 DEF FitsIn, SYS_OPEN, SYS_READ, SYS_WRITE, SYS_CLOSE, SYS_GETARGS
<1>2. CASE ~(k <= 6)
  <2>1. k + 1 \in 8..13 BY <1>2
  <2>2. Tests[3][k + 1] = <<SYS_CLOSE, (k + 1) - 6, 0>> BY <2>1, OpenLots
  <2>3. Desc((k + 1) - 6) BY SizesAre DEF Desc
  <2> QED BY <2>2, <2>3 DEF FitsIn, SYS_OPEN, SYS_READ, SYS_WRITE, SYS_CLOSE, SYS_GETARGS
<1> QED BY <1>1, <1>2

LEMMA LotsGives ==
  ASSUME FilesInv, NEW k \in 0..12, InUse(fdt, Used(3, k)),
         NEW c, c = Tests[3][k + 1], syscall(c[1], c[2], c[3])
  PROVE  InUse(fdt', Used(3, k + 1)) /\ (ret' = -1 <=> k = 6)
<1> USE DEF SYS_HALT, SYS_EXECUTE, SYS_READ, SYS_WRITE, SYS_OPEN, SYS_CLOSE,
            SYS_GETARGS, SYS_VIDMAP, SYS_SET_HANDLER, SYS_SIGRETURN, MAX_SYSCALL_NUM
<1>1. /\ cur_pid \in Processes /\ process_fdt \in [Processes -> [Entries -> FdtEntries]] /\ Entries = 0..7
  BY SizesAre DEF FilesInv
<1>2. \A fd \in 2..7 : fd \in Used(3, k) <=> k - 5 <= fd /\ fd <= k + 1 BY DEF Used
<1>3. \A fd \in 2..7 : fd \in Used(3, k + 1) <=> k - 4 <= fd /\ fd <= k + 2 BY DEF Used
<1>4. \A fd \in 2..7 : fdt[fd].flags # UNUSED_FLAG <=> k - 5 <= fd /\ fd <= k + 1 BY <1>2 DEF InUse
<1>5. CASE k <= 6
  <2>1. k + 1 \in 1..7 BY <1>5
  <2>2. c[1] = SYS_OPEN /\ c[2] = Dot BY <2>1, OpenLots
  <2>3. sys_open(Dot) BY <2>2 DEF syscall, InvalidNumber
  <2>4. /\ read_dentry_by_name(Dot) # ERROR_VAL
        /\ fileDirectory[read_dentry_by_name(Dot)].fileType = DIRECTORY_FILETYPE
        /\ ~IsPrefix(StdinName, Dot) /\ ~IsPrefix(StdoutName, Dot)
    BY ImageNames, Zenon
  <2>5. \A fd : fd \in Free <=> fd \in 2..7 /\ fd > k + 1
    BY <1>1, <1>4, <1>5 DEF Free, NOT_IN_OUT
  <2>6. CASE k = 6
    <3>1. Free = {} BY <2>5, <2>6
    <3>2. OpenFails(Dot) BY <2>3, <2>4, <3>1 DEF sys_open, OpenStandard, OpenFile
    <3>3. ret' = -1 /\ cur_pid' = cur_pid /\ process_fdt' = process_fdt
      BY <3>2 DEF OpenFails, Fail, Return, ERROR_VAL
    <3>4. fdt' = fdt BY <3>3 DEF fdt
    <3> QED BY <1>3, <1>4, <2>6, <3>3, <3>4 DEF InUse
  <2>7. CASE k < 6
    <3> DEFINE d == read_dentry_by_name(Dot)
               type == fileDirectory[d].fileType
               e == [inodeNum |-> IF type = REGULAR_FILE_FILETYPE
                                  THEN fileDirectory[d].inodeNum ELSE 0,
                     file_position |-> 0,
                     flags |-> FlagOf(type)]
    <3>1. k + 2 \in Free BY <2>5, <2>7
    <3>2. OpenFile(Dot) BY <2>3, <2>4, <3>1 DEF sys_open, OpenStandard, OpenFails
    <3>3. PICK fd \in Free : /\ \A g \in Free : fd <= g
                             /\ Put(fd, e) /\ cur_pid' = cur_pid
                             /\ ret' = IF FlagOf(type) = UNUSED_FLAG THEN ERROR_VAL ELSE fd
      BY <3>2 DEF OpenFile, Return
    <3>4. fd = k + 2 BY <2>5, <3>1, <3>3
    <3>5. FlagOf(type) = DIRECTORY_FLAG
      BY <2>4 DEF FlagOf, RTC_DEVICE_FILETYPE, DIRECTORY_FILETYPE, REGULAR_FILE_FILETYPE
    <3>6. e.flags = FlagOf(type) OBVIOUS
    <3>7. process_fdt' = [process_fdt EXCEPT ![cur_pid] = [process_fdt[cur_pid] EXCEPT ![fd] = e]]
      BY <3>3 DEF Put
    <3> HIDE DEF e, type
    <3>8. fd \in 2..7 /\ fd \in Entries BY <1>1, <2>5
    <3>9. \A g \in Entries : fdt'[g] = IF g = fd THEN e ELSE fdt[g]
      BY <1>1, <3>3, <3>7, <3>8 DEF fdt
    <3>10. ret' = fd BY <3>3, <3>5 DEF UNUSED_FLAG, DIRECTORY_FLAG
    <3>11. \A g \in 2..7 : fdt'[g].flags # UNUSED_FLAG <=> g = fd \/ fdt[g].flags # UNUSED_FLAG
      BY <1>1, <3>5, <3>6, <3>9 DEF UNUSED_FLAG, DIRECTORY_FLAG
    <3> QED BY <1>3, <1>4, <2>7, <3>4, <3>10, <3>11 DEF InUse
  <2> QED BY <1>5, <2>6, <2>7
<1>6. CASE ~(k <= 6)
  <2>1. k + 1 \in 8..13 /\ (k + 1) - 6 = k - 5 BY <1>6
  <2> DEFINE fd == k - 5
  <2>2. c[1] = SYS_CLOSE /\ c[2] = fd BY <2>1, OpenLots
  <2>3. sys_close(fd) BY <2>2 DEF syscall, InvalidNumber
  <2>4. fd \in 2..7 /\ fd \in Entries /\ Desc(fd) BY <1>1, <1>6, SizesAre DEF Desc
  <2>5. ~CloseRefused(fd) BY <2>4, SizesAre DEF CloseRefused, NOT_IN_OUT
  <2>6. Entry(fd).flags # UNUSED_FLAG BY <1>4, <1>6, <2>4 DEF Entry
  <2>7. k - 4 = fd + 1 /\ k - 5 = fd /\ k # 6 BY <1>6
  <2> HIDE DEF fd
  <2>8. ret' = 0 /\ \A g \in Entries : fdt'[g].flags = IF g = fd THEN UNUSED_FLAG ELSE fdt[g].flags
    BY <2>3, <2>4, <2>5, <2>6, CloseGives
  <2>9. \A g \in 2..7 : fdt'[g].flags # UNUSED_FLAG <=> g # fd /\ fdt[g].flags # UNUSED_FLAG
    BY <1>1, <2>8
  <2>10. \A g \in 2..7 : g <= k + 1 /\ g <= k + 2 BY <1>6
  <2> QED BY <1>3, <1>4, <2>4, <2>7, <2>8, <2>9, <2>10 DEF InUse
<1> QED BY <1>5, <1>6

(* A step of syserr.                                                       *)
LEMMA SyserrStep ==
  ASSUME AllInv, Goes, Me.prog = "syserr", Sound, Halts(call') \/ SyserrKnows(Me', call'),
         out'[cur_pid] \in Seq(Words), Halts(call') => call'[2] = 0
  PROVE  FilesInv' /\ HoldInv'
<1>1. Me'.prog = Me.prog BY Stays DEF AllInv, Goes, Asks
<1>2. Halts(call') \/ Knows(Me', call', room') BY <1>1, KnowsWhat
<1>3. Fits(Me', call', room') BY <1>2 DEF Fits, Sound
<1>4. Writes(Me', call', out'[cur_pid]) BY DEF Writes
<1>5. call' # <<>> BY DEF Sound
<1>6. /\ UNCHANGED callVars /\ Shows /\ Moves /\ call = <<>> /\ done' \in {None, done}
      /\ call'[1] # SYS_EXECUTE
  BY <1>5 DEF Goes, Asks, Ordinary
<1> QED BY <1>3, <1>4, <1>5, <1>6, GoodKeeps

(* What it writes are words.                                               *)
LEMMA SyserrWrites ==
  ASSUME AllInv, Me.prog = "syserr"
  PROVE  /\ Silent => out'[cur_pid] \in Seq(Words)
         /\ \A bytes \in Seq(Words) : Prints(bytes) => out'[cur_pid] \in Seq(Words)
         /\ \A word \in Words : <<word>> \in Seq(Words)
         /\ <<>> \in Seq(Words)
<1>1. out[cur_pid] \in Seq(Words) BY DEF AllInv, HoldInv, Writes
<1>2. cur_pid \in Processes /\ IsTable(out) BY DEF AllInv, ProgramsInv, Tables
<1>3. Silent => out'[cur_pid] \in Seq(Words) BY <1>1 DEF Silent
<1>4. ASSUME NEW bytes \in Seq(Words), Prints(bytes) PROVE out'[cur_pid] \in Seq(Words)
  <2>1. out'[cur_pid] = out[cur_pid] \o bytes BY <1>2, <1>4 DEF Prints, IsTable
  <2> HIDE DEF Words
  <2> QED BY <1>1, <1>4, <2>1, JoinedSeq
<1>5. (\A word \in Words : <<word>> \in Seq(Words)) /\ <<>> \in Seq(Words)
  <2> HIDE DEF Words
  <2> QED OBVIOUS
<1> QED BY <1>3, <1>4, <1>5

LEMMA TestFits ==
  ASSUME FilesInv, NEW n \in 1..8, NEW k \in Nat, k + 1 \in 1..Len(Tests[n]), InUse(fdt, Used(n, k))
  PROVE  LET c == Tests[n][k + 1] IN
         /\ c = <<c[1], c[2], c[3]>> /\ c[1] \notin {SYS_HALT, SYS_EXECUTE}
         /\ FitsIn(c[1], c[2], c[3], IF c[1] = SYS_READ THEN 31 ELSE 0)
<1> DEFINE c == Tests[n][k + 1]
<1>1. CASE n = 3
  <2>1. k \in 0..12 BY <1>1, OpenLots
  <2>2. /\ c = <<c[1], c[2], c[3]>> /\ c[1] \in {SYS_OPEN, SYS_CLOSE}
        /\ \A bytes : FitsIn(c[1], c[2], c[3], bytes)
    BY <1>1, <2>1, LotsFits
  <2> HIDE DEF c
  <2>3. c[1] \notin {SYS_HALT, SYS_EXECUTE} BY <2>2 DEF SYS_OPEN, SYS_CLOSE, SYS_HALT, SYS_EXECUTE
  <2> QED BY <2>2, <2>3 DEF c
<1>2. CASE n # 3
  <2>1. BadCall(c) BY <1>2, BadTests
  <2>2. Used(n, k) = {} BY <1>2 DEF Used
  <2> HIDE DEF c
  <2>3. c = <<c[1], c[2], c[3]>> BY <2>1 DEF BadCall
  <2>4. FitsIn(c[1], c[2], c[3], IF c[1] = SYS_READ THEN 31 ELSE 0) BY <2>1, <2>2, BadFits
  <2>5. c[1] \notin {SYS_HALT, SYS_EXECUTE}
    BY <2>1 DEF BadCall, SYS_HALT, SYS_EXECUTE, SYS_READ, SYS_WRITE, SYS_OPEN, SYS_CLOSE, SYS_VIDMAP, BIG_FD, NEG_FD
  <2> QED BY <2>3, <2>4, <2>5 DEF c
<1> QED BY <1>1, <1>2

(* The calls made and the calls to come.                                   *)
LEMMA Counted ==
  ASSUME NEW l \in Nat, NEW r \in Nat \ {0}, NEW k \in Nat, k = l - r
  PROVE  /\ k + 1 \in 1..l /\ k + 1 \in Nat
         /\ \A q : q = r - 1 => k + 1 = l - q
  OBVIOUS

(* It asks the next of its calls.                                          *)
LEMMA AskedHolds ==
  ASSUME AllInv, call = <<>>, Me.prog = "syserr", NEW m, Asked(m), IsTests(m),
         m.tests \in Seq(1..8), m.tests # <<>>, m.calls \in Seq(TestCalls), m.calls # <<>>, m.fail = 0,
         NEW n, n = Head(m.tests), NEW k \in Nat, k = Len(Tests[n]) - Len(m.calls),
         m.failures = FailuresIn(n, k), InUse(fdt, Used(n, k)),
         \A j \in 1..Len(m.calls) : m.calls[j] = Tests[n][k + j]
  PROVE  FilesInv' /\ HoldInv'
<1> DEFINE c == Head(m.calls)
           bytes == IF c[1] = SYS_READ THEN 31 ELSE 0
<1>1. Goes
  <2>1. m.fail \in Nat OBVIOUS
  <2> QED BY <2>1, AskedGoes DEF AllInv
<1>2. Trap(c[1], c[2], c[3], bytes) /\ Silent /\ With("asked", None, m) BY DEF Asked
<1>3. n \in 1..8 OBVIOUS
<1>4. Len(m.calls) \in Nat \ {0} /\ c = m.calls[1] /\ 1 \in 1..Len(m.calls)
  <2> HIDE DEF TestCalls
  <2> QED OBVIOUS
<1>5. c = Tests[n][k + 1] BY <1>4
<1>6. Len(Tests[n]) \in Nat
  <2>1. Tests[n] \in Seq(TestCalls) BY <1>3, TestsAre
  <2> HIDE DEF TestCalls
  <2> QED BY <2>1
<1>7. k + 1 \in 1..Len(Tests[n]) BY <1>4, <1>6, Counted
<1>8. /\ c = <<c[1], c[2], c[3]>> /\ c[1] \notin {SYS_HALT, SYS_EXECUTE} /\ FitsIn(c[1], c[2], c[3], bytes)
  <2> DEFINE d == Tests[n][k + 1]
  <2>1. /\ d = <<d[1], d[2], d[3]>> /\ d[1] \notin {SYS_HALT, SYS_EXECUTE}
        /\ FitsIn(d[1], d[2], d[3], IF d[1] = SYS_READ THEN 31 ELSE 0)
    BY <1>3, <1>7, TestFits DEF AllInv
  <2> HIDE DEF d
  <2>2. c = d BY <1>5 DEF d
  <2> HIDE DEF c
  <2> QED BY <2>1, <2>2
<1>9. bytes \in Nat OBVIOUS
<1> HIDE DEF c, bytes
<1>10. call' = c /\ room' = bytes /\ c # <<>>
  <2>1. call' = <<c[1], c[2], c[3]>> /\ room' = bytes /\ c = <<c[1], c[2], c[3]>> BY <1>2, <1>8 DEF Trap
  <2>2. \A x, y, z : <<x, y, z>> # <<>> OBVIOUS
  <2>3. <<c[1], c[2], c[3]>> # <<>> BY <2>2
  <2> DEFINE x == <<c[1], c[2], c[3]>>
  <2>4. call' = x /\ room' = bytes /\ c = x /\ x # <<>> BY <2>1, <2>3
  <2> HIDE DEF x
  <2> QED BY <2>4
<1>11. Sound BY <1>8, <1>9, <1>10 DEF Sound
<1>12. ~Halts(call') BY <1>8, <1>10 DEF Halts
<1>13. Me' = [prog |-> "syserr", pc |-> "asked", fd |-> None, mem |-> m]
  BY <1>1, <1>2, WithIs DEF AllInv, ProgramsInv, Goes, Asks, callVars, vars
<1>14. Testing(m, c) BY <1>5, <1>10 DEF Testing
<1>15. SyserrKnows(Me', call') BY <1>10, <1>13, <1>14 DEF SyserrKnows
<1>16. out'[cur_pid] \in Seq(Words) BY <1>2, SyserrWrites
<1> QED BY <1>1, <1>11, <1>12, <1>15, <1>16, SyserrStep

LEMMA TestBeginsHolds ==
  ASSUME AllInv, call = <<>>, Me.prog = "syserr", InUse(fdt, {}), NEW tests \in Seq(1..8), tests # <<>>,
         NEW all, TestBegins(tests, 0, all)
  PROVE  FilesInv' /\ HoldInv'
<1> DEFINE m == Memory(tests, Tests[Head(tests)], 0, 0, all)
<1>1. Head(tests) \in 1..8 /\ 0 \in Nat OBVIOUS
<1>2. Tests[Head(tests)] \in Seq(TestCalls) /\ Tests[Head(tests)] # <<>> BY <1>1, TestsAre
<1>3. Asked(m) BY DEF TestBegins, Memory
<1>4. IsTests(m) /\ m.tests = tests /\ m.calls = Tests[Head(tests)] /\ m.fail = 0 /\ m.failures = 0
  BY <1>1, <1>2, MemoryIs
<1> HIDE DEF m
<1> DEFINE n == Head(m.tests)
<1>5. Len(Tests[n]) \in Nat
  <2>1. Tests[n] \in Seq(TestCalls) BY <1>2, <1>4
  <2> HIDE DEF TestCalls
  <2> QED BY <2>1
<1>6. 0 = Len(Tests[n]) - Len(m.calls) /\ (\A j \in 1..Len(m.calls) : m.calls[j] = Tests[n][0 + j])
  BY <1>4, <1>5
<1>7. Used(n, 0) = {} /\ FailuresIn(n, 0) = 0 BY DEF Used, FailuresIn
<1> HIDE DEF n
<1>8. n = Head(m.tests) BY DEF n
<1>9. m.failures = FailuresIn(n, 0) /\ InUse(fdt, Used(n, 0)) BY <1>4, <1>7
<1> QED BY <1>1, <1>2, <1>3, <1>4, <1>6, <1>8, <1>9, AskedHolds

(* A test that has made its calls has passed.                              *)
LEMMA TestPasses ==
  ASSUME NEW n \in 1..8
  PROVE  Passed(n, FailuresIn(n, Len(Tests[n]))) /\ Used(n, Len(Tests[n])) = {}
<1>1. CASE n = 3
  <2>1. Len(Tests[n]) = 13 BY <1>1, OpenLots
  <2>2. FailuresIn(3, 13) = 1 /\ Used(3, 13) = {} BY DEF FailuresIn, Used
  <2> QED BY <1>1, <2>1, <2>2 DEF Passed
<1>2. CASE n # 3
  <2>1. \A k : FailuresIn(n, k) = k /\ Used(n, k) = {} BY <1>2 DEF FailuresIn, Used
  <2> QED BY <1>2, <2>1 DEF Passed
<1> QED BY <1>1, <1>2

LEMMA SyserrHolds == ASSUME AllInv, Syserr PROVE FilesInv' /\ HoldInv'
<1>1. call = <<>> /\ Me.prog = "syserr" BY DEF Syserr, At
<1>2. TestMemory(Me) /\ SyserrKnows(Me, <<>>) /\ Tables
  <2>1. cur_pid \in 0..cur_pid BY SizesAssumption DEF AllInv, ProgramsInv, Tables, Processes
  <2>2. TestMemory(Me) BY <2>1 DEF AllInv, ProgramsInv, Tables, Me
  <2> QED BY <1>1, <2>2, HereIs DEF Knows
<1>3. ASSUME NEW bytes \in Seq(Words), Exit(bytes, 0) PROVE FilesInv' /\ HoldInv'
  <2>1. 0 \in Int OBVIOUS
  <2>2. Goes BY <1>1, <1>2, <1>3, <2>1, Wrappers DEF Goes
  <2>3. Sound /\ Halts(call') /\ call'[2] = 0 BY <1>3, Sounds
  <2>4. out'[cur_pid] \in Seq(Words) BY <1>1, <1>3, SyserrWrites DEF Exit
  <2> QED BY <1>1, <2>2, <2>3, <2>4, SyserrStep
<1>4. ASSUME NEW pc, Asks, Shows, With(pc, Me.fd, Me.mem) PROVE Goes /\ Me'.prog = "syserr" /\ Me'.pc = pc
  BY <1>1, <1>2, <1>4, Wrappers, WithIs DEF Goes, Asks, callVars, vars
<1>5. CASE At("syserr", "start") /\ Write(<<"Choose from tests 1-8">>) /\ Goto("ask")
  <2>1. Goes /\ Me'.prog = "syserr" /\ Me'.pc = "ask" BY <1>1, <1>2, <1>4, <1>5, Wrappers DEF Goto
  <2>2. Sound /\ call'[1] = SYS_WRITE BY <1>5, Sounds DEF Write, Call, Trap
  <2>3. InUse(fdt, {}) BY <1>1, <1>2, <1>5 DEF SyserrKnows, At
  <2>4. SyserrKnows(Me', call') BY <2>1, <2>2, <2>3 DEF SyserrKnows
  <2>5. ~Halts(call') BY <2>2 DEF Halts, SYS_HALT, SYS_WRITE
  <2>6. "Choose from tests 1-8" \in Words BY DEF Words
  <2>7. out'[cur_pid] \in Seq(Words) BY <1>1, <1>5, <2>6, SyserrWrites DEF Write
  <2> QED BY <1>1, <2>1, <2>2, <2>4, <2>5, <2>7, SyserrStep
<1>6. CASE At("syserr", "ask") /\ Read(0, BUFSIZE - 1, BUFSIZE - 1) /\ Silent /\ Goto("choice")
  <2>1. Goes /\ Me'.prog = "syserr" /\ Me'.pc = "choice" BY <1>1, <1>2, <1>4, <1>6, Wrappers DEF Goto
  <2>2. Sound /\ call' = <<SYS_READ, 0, BUFSIZE - 1>> BY <1>6, Sounds DEF Read, Trap
  <2>3. InUse(fdt, {}) BY <1>1, <1>2, <1>6 DEF SyserrKnows, At
  <2>4. SyserrKnows(Me', call') BY <2>1, <2>2, <2>3 DEF SyserrKnows
  <2>5. ~Halts(call') BY <2>2 DEF Halts, SYS_HALT, SYS_READ
  <2>6. out'[cur_pid] \in Seq(Words) BY <1>1, <1>6, SyserrWrites
  <2> QED BY <1>1, <2>1, <2>2, <2>4, <2>5, <2>6, SyserrStep
<1>7. CASE /\ At("syserr", "choice")
           /\ CASE ret = -1 -> Exit(<<"Can't read test #">>, 2)
                [] ret # -1 /\ Digit(buf[1]) = 0       -> TestBegins(<<1, 2, 3, 4, 5, 6, 7, 8>>, 0, TRUE)
                [] ret # -1 /\ Digit(buf[1]) \in 1..8 -> TestBegins(<<Digit(buf[1])>>, 0, FALSE)
                [] OTHER -> Exit(<<"Invalid test number">>, 0)
  <2> DEFINE d == Digit(buf[1])
             yes == TRUE
             no == FALSE
  <2>1. ret # -1 /\ InUse(fdt, {}) BY <1>1, <1>2, <1>7 DEF SyserrKnows, At
  <2> HIDE DEF d
  <2>2. /\ <<1, 2, 3, 4, 5, 6, 7, 8>> \in Seq(1..8) /\ <<1, 2, 3, 4, 5, 6, 7, 8>> # <<>>
        /\ d \in 1..8 => <<d>> \in Seq(1..8) /\ <<d>> # <<>> OBVIOUS
  <2>3. \/ Exit(<<"Invalid test number">>, 0)
        \/ TestBegins(<<1, 2, 3, 4, 5, 6, 7, 8>>, 0, yes)
        \/ d \in 1..8 /\ TestBegins(<<d>>, 0, no)
    BY <1>7, <2>1 DEF d
  <2> HIDE DEF yes, no
  <2>4. "Invalid test number" \in Words BY DEF Words
  <2>5. <<"Invalid test number">> \in Seq(Words) BY <1>1, <2>4, SyserrWrites
  <2> QED BY <1>1, <1>3, <2>1, <2>2, <2>3, <2>5, TestBeginsHolds
<1>8. CASE /\ At("syserr", "tested")
           /\ LET m == Me.mem IN
              CASE m.tests # <<>> -> TestBegins(m.tests, m.fail, m.all)
                [] m.tests = <<>> /\ m.all ->
                     Exit(<<IF m.fail = 0 THEN "PASS" ELSE "FAIL">>, m.fail)
                [] OTHER          -> Exit(<<>>, m.fail)
  <2> DEFINE m == Me.mem
  <2>1. m.tests \in Seq(1..8) /\ m.fail = 0 /\ InUse(fdt, {})
    BY <1>1, <1>2, <1>8 DEF TestMemory, SyserrKnows, At
  <2>2. \/ m.tests # <<>> /\ TestBegins(m.tests, m.fail, m.all)
        \/ Exit(<<IF m.fail = 0 THEN "PASS" ELSE "FAIL">>, m.fail)
        \/ Exit(<<>>, m.fail)
    BY <1>8
  <2> HIDE DEF m
  <2>3. "PASS" \in Words BY DEF Words
  <2>4. <<"PASS">> \in Seq(Words) /\ <<>> \in Seq(Words) BY <1>1, <2>3, SyserrWrites
  <2> QED BY <1>1, <1>3, <2>1, <2>2, <2>4, TestBeginsHolds
<1>9. ASSUME At("syserr", "asked"), NEW m, m = Me.mem, NEW n, n = Head(m.tests),
             NEW counts, counts <=> ret = -1 /\ (n = 3 => Head(m.calls)[1] = SYS_OPEN), NEW next,
             next = [m EXCEPT !.calls = Tail(@), !.failures = @ + (IF counts THEN 1 ELSE 0)],
             IF next.calls # <<>> THEN Asked(next)
             ELSE LET result == IF Passed(n, next.failures) THEN 0 ELSE 2
                  IN /\ Write(<<IF result = 0 THEN "PASS" ELSE "FAIL">>)
                     /\ With("tested", None, [next EXCEPT !.tests = Tail(@), !.fail = @ + result])
      PROVE  FilesInv' /\ HoldInv'
  <2>1. /\ IsTests(m) /\ m.tests \in Seq(1..8) /\ m.calls \in Seq(TestCalls) /\ m.fail \in Nat
        /\ m.tests # <<>> /\ m.calls # <<>> /\ Testing(m, <<>>)
    BY <1>1, <1>2, <1>9 DEF TestMemory, SyserrKnows, At
  <2>2. n \in 1..8 BY <1>9, <2>1
  <2> DEFINE k == Len(Tests[n]) - Len(m.calls)
             f == m.failures + (IF counts THEN 1 ELSE 0)
  <2>3. /\ Tail(m.calls) \in Seq(TestCalls) /\ Len(m.calls) \in Nat \ {0}
        /\ Len(Tail(m.calls)) = Len(m.calls) - 1 /\ Head(m.calls) = m.calls[1]
        /\ \A j \in 1..(Len(m.calls) - 1) : Tail(m.calls)[j] = m.calls[j + 1]
    <3> HIDE DEF TestCalls
    <3> QED BY <2>1
  <2>4. Len(Tests[n]) \in Nat
    <3>1. Tests[n] \in Seq(TestCalls) BY <2>2, TestsAre
    <3> HIDE DEF TestCalls
    <3> QED BY <3>1
  <2>5. /\ m.fail = 0 /\ m.failures = FailuresIn(n, k) /\ k \in Nat
        /\ \A j \in 1..Len(m.calls) : m.calls[j] = Tests[n][k + j]
        /\ InUse(fdt, Used(n, k + 1)) /\ (ret = -1 <=> (n = 3 => k = 6))
    BY <1>9, <2>1 DEF Testing
  <2>6. next = [m EXCEPT !.calls = Tail(m.calls), !.failures = f] BY <1>9, Zenon
  <2>7. f = FailuresIn(n, k + 1)
    <3>1. counts <=> (n = 3 => k = 6)
      <4>1. ASSUME n = 3, k = 6 PROVE Head(m.calls)[1] = SYS_OPEN
        <5>1. 1 \in 1..Len(m.calls) /\ k + 1 = 7 /\ 7 \in 1..7 BY <2>3, <4>1
        <5>2. m.calls[1] = Tests[3][7] BY <2>5, <4>1, <5>1
        <5>3. Tests[3][7] = <<SYS_OPEN, Dot, 0>> BY <5>1, OpenLots
        <5>4. Head(m.calls) = <<SYS_OPEN, Dot, 0>> BY <2>3, <5>2, <5>3, Zenon
        <5> QED BY <5>4
      <4> QED BY <1>9, <2>5, <4>1
    <3>2. f = FailuresIn(n, k) + (IF (n = 3 => k = 6) THEN 1 ELSE 0) /\ k \in Nat BY <2>5, <3>1
    <3> HIDE DEF f, k
    <3> QED BY <3>2 DEF FailuresIn
  <2> HIDE DEF f, k
  <2>8. next = Memory(m.tests, Tail(m.calls), f, m.fail, m.all) BY <2>1, <2>6, MemoryTo
  <2>9. /\ IsTests(next) /\ next.tests = m.tests /\ next.calls = Tail(m.calls) /\ next.fail = 0
        /\ next.failures = f
    BY <2>5, <2>8 DEF Memory, IsTests
  <2>10. CASE next.calls # <<>>
    <3>1. Asked(next) BY <1>9, <2>10
    <3>2. k + 1 \in Nat /\ k + 1 = Len(Tests[n]) - Len(next.calls) 
      <4>1. Len(next.calls) = Len(m.calls) - 1 /\ k = Len(Tests[n]) - Len(m.calls) BY <2>3, <2>9 DEF k
      <4> QED BY <2>3, <2>4, <2>5, <4>1, Counted
    <3>3. ASSUME NEW j \in 1..Len(next.calls) PROVE next.calls[j] = Tests[n][(k + 1) + j]
      <4>1. j \in 1..(Len(m.calls) - 1) /\ j + 1 \in 1..Len(m.calls) /\ k + (j + 1) = (k + 1) + j
        BY <2>3, <2>5, <2>9
      <4> QED BY <2>3, <2>5, <2>9, <4>1
    <3>4. n = Head(next.tests) /\ next.failures = FailuresIn(n, k + 1) BY <1>9, <2>7, <2>9
    <3>5. next.tests \in Seq(1..8) /\ next.tests # <<>> /\ next.calls \in Seq(TestCalls) BY <2>1, <2>3, <2>9
    <3> QED BY <1>1, <2>5, <2>9, <2>10, <3>1, <3>2, <3>3, <3>4, <3>5, AskedHolds
  <2>11. CASE next.calls = <<>>
    <3> DEFINE result == IF Passed(n, next.failures) THEN 0 ELSE 2
               x == next.fail + result
               t == Tail(next.tests)
               after == [next EXCEPT !.tests = t, !.fail = x]
    <3>1. Write(<<IF result = 0 THEN "PASS" ELSE "FAIL">>) /\ With("tested", None, after)
      BY <1>9, <2>11
    <3>2. k + 1 = Len(Tests[n])
      <4>1. Tail(m.calls) = <<>> BY <2>9, <2>11
      <4>2. Len(m.calls) - 1 = 0 BY <2>3, <4>1
      <4>3. k = Len(Tests[n]) - Len(m.calls) BY DEF k
      <4> DEFINE l == Len(Tests[n])
                 q == Len(m.calls)
      <4>4. l \in Nat /\ q \in Nat \ {0} /\ k \in Nat /\ k = l - q /\ q - 1 = 0 BY <2>3, <2>4, <2>5, <4>2, <4>3
      <4> HIDE DEF l, q
      <4>5. k + 1 = l BY <4>4
      <4> QED BY <4>5 DEF l
    <3>3. Passed(n, next.failures) /\ InUse(fdt, {}) BY <2>2, <2>5, <2>7, <2>9, <3>2, TestPasses
    <3>4. result = 0 /\ x = 0 BY <2>9, <3>3
    <3> HIDE DEF x, t, result
    <3>5. after = Memory(t, next.calls, next.failures, x, next.all) BY <2>9, MemoryTo
    <3> HIDE DEF after
    <3>6. after.fail = 0 BY <3>4, <3>5 DEF Memory
    <3>7. Write(<<"PASS">>) BY <3>1, <3>4
    <3>8. Goes BY <1>1, <1>2, <3>1, <3>7, Wrappers DEF Goes
    <3>9. Me' = [prog |-> "syserr", pc |-> "tested", fd |-> None, mem |-> after]
      BY <1>1, <1>2, <3>1, <3>8, WithIs DEF Goes, Asks, callVars, vars
    <3>10. Sound /\ call'[1] = SYS_WRITE BY <3>7, Sounds DEF Write, Call, Trap
    <3>11. SyserrKnows(Me', call') BY <3>3, <3>6, <3>9, <3>10 DEF SyserrKnows
    <3>12. ~Halts(call') BY <3>10 DEF Halts, SYS_HALT, SYS_WRITE
    <3>13. "PASS" \in Words BY DEF Words
    <3>14. out'[cur_pid] \in Seq(Words) BY <1>1, <3>7, <3>13, SyserrWrites DEF Write
    <3> QED BY <1>1, <3>8, <3>10, <3>11, <3>12, <3>14, SyserrStep
  <2> QED BY <2>10, <2>11
<1>10. CASE /\ At("syserr", "asked")
            /\ LET m == Me.mem
                   n == Head(m.tests)
                   counts == ret = -1 /\ (n = 3 => Head(m.calls)[1] = SYS_OPEN)
                   next == [m EXCEPT !.calls = Tail(@), !.failures = @ + (IF counts THEN 1 ELSE 0)]
               IN IF next.calls # <<>> THEN Asked(next)
                  ELSE LET result == IF Passed(n, next.failures) THEN 0 ELSE 2
                       IN /\ Write(<<IF result = 0 THEN "PASS" ELSE "FAIL">>)
                          /\ With("tested", None, [next EXCEPT !.tests = Tail(@), !.fail = @ + result])
  BY <1>9, <1>10, Zenon
<1> QED BY <1>5, <1>6, <1>7, <1>8, <1>10 DEF Syserr

----------------------------------------------------------------------------
(* The kernel.                                                             *)

LEMMA FreshHolds == (\A fd : ~InDir(FreshTable, fd)) /\ InUse(FreshTable, {})
<1>1. Entries = 0..7 BY SizesAre
<1>2. \A fd \in 2..7 : FreshTable[fd].flags = UNUSED_FLAG BY <1>1 DEF FreshTable, Unused
<1>3. \A fd \in Entries : FreshTable[fd].flags = DIRECTORY_FLAG => fd \in OpenFds
  BY FreshKeeps DEF Positioned
<1>4. \A fd \in OpenFds : fd \in 2..7 BY <1>1 DEF OpenFds, NOT_IN_OUT
<1> QED BY <1>2, <1>3, <1>4 DEF InDir, InUse, DIRECTORY_FLAG, UNUSED_FLAG

(* A program that has ended leaves a parent.                               *)
LEMMA EndHolds ==
  ASSUME AllInv, NEW status, NEW flag, sys_halt(status, flag), NEW how, NEW st, Ended(how, st),
         call' = <<>>, room' \in Nat, Me.prog = "syserr" => st = 0
  PROVE  FilesInv' /\ HoldInv'
<1>1. /\ FilesInv' /\ buf' = <<>> /\ index' = 0 /\ ~(nbytes' >= 0)
      /\ \/ cur_pid > 0 /\ cur_pid' = cur_pid - 1
         \/ cur_pid = 0 /\ cur_pid' = 0
  BY HaltGives DEF AllInv
<1>2. 0 \in Entries /\ Len(<<>>) = 0 BY Bounds
<1>3. BuffersHold' BY <1>1, <1>2 DEF BuffersHold
<1>4. done'.prog = Me.prog /\ done'.status = st /\ done'.out = out[cur_pid] BY DEF Ended
<1>5. SyserrPasses'
  <2>1. ASSUME Me.prog = "syserr" PROVE done'.status = 0 /\ \A i \in DOMAIN done'.out : done'.out[i] # "FAIL"
    <3> DEFINE o == out[cur_pid]
    <3>1. o \in Seq(Words) BY <2>1 DEF AllInv, HoldInv, Writes
    <3> HIDE DEF o
    <3>2. \A i \in DOMAIN o : o[i] \in Words
      <4> HIDE DEF Words
      <4> QED BY <3>1
    <3>3. "FAIL" \notin Words BY DEF Words
    <3> QED BY <1>4, <2>1, <3>2, <3>3 DEF o
  <2> QED BY <1>4, <2>1 DEF SyserrPasses
<1>6. /\ cur_pid \in Nat /\ 0..cur_pid \subseteq Processes /\ IsTable(run)
      /\ run' = [run EXCEPT ![cur_pid] = IF cur_pid' = cur_pid THEN Started("shell") ELSE None]
  BY SizesAssumption DEF AllInv, ProgramsInv, Tables, Processes, Ended
<1>7. (\A p \in 0..(cur_pid' - 1) : run'[p].prog \in Parents) /\ Me'.prog \in Parents
  <2>1. CASE cur_pid > 0 /\ cur_pid' = cur_pid - 1
    <3>1. ASSUME NEW p \in 0..(cur_pid - 1) PROVE run'[p].prog \in Parents
      <4>1. p \in Processes /\ p # cur_pid BY <1>6
      <4>2. run'[p] = run[p] BY <1>6, <4>1 DEF IsTable
      <4> QED BY <4>2 DEF AllInv, HoldInv, Waiting
    <3>2. cur_pid - 1 \in 0..(cur_pid - 1) BY <1>6, <2>1
    <3>3. \A p \in 0..((cur_pid - 1) - 1) : p \in 0..(cur_pid - 1) BY <1>6
    <3> QED BY <2>1, <3>1, <3>2, <3>3 DEF Me
  <2>2. CASE cur_pid = 0 /\ cur_pid' = 0
    <3>1. 0 \in Processes /\ 0..(0 - 1) = {} BY Bounds
    <3>2. Me' = Started("shell") BY <1>6, <2>2, <3>1 DEF Me, IsTable
    <3> QED BY <2>2, <3>1, <3>2 DEF Started, Parents
  <2> QED BY <1>1, <2>1, <2>2
<1>8. Waiting' BY <1>7 DEF Waiting
<1>9. Me'.prog \notin Readers \cup {"syserr"} BY <1>7 DEF Parents, Readers
<1>10. Knows(Me, call, room)'
  BY <1>9 DEF Knows, Readers, ReaderKnows, GrepKnows, FishKnows, DeviceKnows, SyserrKnows
<1>11. Fits(Me, call, room)' BY <1>10 DEF Fits
<1>12. Writes(Me, call, out[cur_pid])' BY <1>9 DEF Writes
<1> QED BY <1>1, <1>3, <1>5, <1>8, <1>11, <1>12 DEF HoldInv

LEMMA CrashHolds == ASSUME AllInv, Crash, call = <<>> PROVE FilesInv' /\ HoldInv'
<1>1. sys_halt(255, 1) /\ Ended("exception", 0) /\ call' = <<>> /\ room' = 0 BY DEF Crash, Exception
<1>2. 0 \in Nat OBVIOUS
<1> QED BY <1>1, <1>2, EndHolds

LEMMA HaltHolds == ASSUME AllInv, Served, call[1] = SYS_HALT PROVE FilesInv' /\ HoldInv'
<1>1. call # <<>> /\ call' = <<>> /\ syscall(call[1], call[2], call[3]) /\ room' = room BY DEF Served
<1>2. Ended("halted", call[2]) BY DEF Served, SYS_HALT, SYS_EXECUTE
<1>3. sys_halt(call[2], 0)
  BY <1>1 DEF syscall, InvalidNumber, SYS_HALT, SYS_EXECUTE, SYS_READ, SYS_WRITE, SYS_OPEN, SYS_CLOSE,
              SYS_GETARGS, SYS_VIDMAP, SYS_SET_HANDLER, SYS_SIGRETURN, MAX_SYSCALL_NUM
<1>4. room' \in Nat BY <1>1 DEF AllInv, HoldInv, Fits
<1>5. Me.prog = "syserr" => call[2] = 0 BY <1>1 DEF AllInv, HoldInv, Writes, Halts
<1> QED BY <1>1, <1>2, <1>3, <1>4, <1>5, EndHolds

(* A program that starts has nothing open.                                 *)
LEMMA ExecuteHolds == ASSUME AllInv, Served, call[1] = SYS_EXECUTE PROVE FilesInv' /\ HoldInv'
<1>1. call # <<>> /\ call' = <<>> /\ syscall(call[1], call[2], call[3]) /\ room' = room BY DEF Served
<1>2. Executed(call[2]) BY DEF Served, SYS_HALT, SYS_EXECUTE
<1>3. sys_execute(call[2])
  BY <1>1 DEF syscall, InvalidNumber, SYS_HALT, SYS_EXECUTE, SYS_READ, SYS_WRITE, SYS_OPEN, SYS_CLOSE,
              SYS_GETARGS, SYS_VIDMAP, SYS_SET_HANDLER, SYS_SIGRETURN, MAX_SYSCALL_NUM
<1>4. /\ FilesInv' /\ buf' = <<>> /\ index' = 0 /\ ~(nbytes' >= 0)
      /\ \/ cur_pid' = cur_pid + 1 /\ fdt' = FreshTable
         \/ cur_pid' = cur_pid /\ process_fdt' = process_fdt
  BY <1>3, ExecuteGives DEF AllInv
<1>5. room' \in Nat /\ Me.prog \in Parents BY <1>1 DEF AllInv, HoldInv, Fits, Waiting
<1>6. BuffersHold'
  <2>1. 0 \in Entries /\ Len(<<>>) = 0 BY Bounds
  <2> QED BY <1>4, <1>5, <2>1 DEF BuffersHold
<1>7. cur_pid \in Nat /\ cur_pid \in Processes /\ 0..cur_pid \subseteq Processes /\ IsTable(run) /\ IsTable(out)
  BY SizesAssumption DEF AllInv, ProgramsInv, Tables, Processes
<1>8. CASE cur_pid' = cur_pid + 1 /\ fdt' = FreshTable
  <2> DEFINE q == cur_pid + 1
  <2>1. q \in Processes /\ q # cur_pid /\ cur_pid' = q /\ \A p \in 0..(q - 1) : p \in 0..cur_pid /\ p # q
    BY <1>4, <1>7, <1>8 DEF FilesInv
  <2> HIDE DEF q
  <2>2. PICK prog : run' = [run EXCEPT ![q] = Started(prog)]
    BY <1>2, <2>1 DEF Executed
  <2>3. out' = [out EXCEPT ![q] = <<>>] /\ done' = None BY <1>2, <2>1 DEF Executed
  <2>4. Me' = Started(prog) /\ \A p \in 0..(q - 1) : run'[p] = run[p]
    BY <1>7, <2>1, <2>2 DEF IsTable, Me
  <2>5. Waiting'
    <3>1. ASSUME NEW p \in 0..(q - 1) PROVE run'[p].prog \in Parents
      <4>1. CASE p = cur_pid BY <1>5, <2>4, <4>1 DEF Me
      <4>2. CASE p # cur_pid
        <5>1. p \in 0..(cur_pid - 1) BY <1>7, <2>1, <4>2
        <5> QED BY <2>4, <5>1 DEF AllInv, HoldInv, Waiting
      <4> QED BY <4>1, <4>2
    <3> QED BY <1>1, <2>1, <3>1 DEF Waiting
  <2>6. SyserrPasses' BY <2>3 DEF SyserrPasses
  <2>7. Me'.pc = "start" BY <2>4 DEF Started
  <2>8. (\A fd : ~InDir(fdt', fd)) /\ InUse(fdt', {}) BY <1>8, FreshHolds
  <2>9. Knows(Me, call, room)'
    <3>1. ReaderKnows(Me, call)' BY <2>7 DEF ReaderKnows, OpenPlaces, FdPlaces
    <3>2. GrepKnows(Me, call, room)' /\ FishKnows(Me)' BY <2>7 DEF GrepKnows, FishKnows
    <3>3. DeviceKnows(Me, call)' BY <1>1, <2>8 DEF DeviceKnows
    <3>4. SyserrKnows(Me, call)' BY <1>1, <2>7, <2>8 DEF SyserrKnows
    <3> QED BY <3>1, <3>2, <3>3, <3>4 DEF Knows
  <2>10. Fits(Me, call, room)' BY <1>1, <1>5, <2>9 DEF Fits
  <2>11. Writes(Me, call, out[cur_pid])'
    <3>1. out'[cur_pid'] = <<>> BY <1>7, <2>1, <2>3 DEF IsTable
    <3>2. <<>> \in Seq(Words) OBVIOUS
    <3> QED BY <1>1, <3>1, <3>2 DEF Writes, Halts
  <2> QED BY <1>4, <1>6, <2>5, <2>6, <2>10, <2>11 DEF HoldInv
<1>9. CASE cur_pid' = cur_pid /\ process_fdt' = process_fdt
  <2>1. run' = run /\ out' = out /\ done'.status = 0 /\ done'.out = <<>> BY <1>2, <1>9 DEF Executed
  <2>2. Me' = Me BY <1>9, <2>1 DEF Me
  <2>3. Waiting' BY <1>1, <1>9, <2>1, <2>2 DEF Waiting, AllInv, HoldInv
  <2>4. SyserrPasses'
    <3>1. DOMAIN <<>> = {} OBVIOUS
    <3> QED BY <2>1, <3>1 DEF SyserrPasses
  <2>5. Me'.prog \notin Readers \cup {"syserr"} BY <1>5, <2>2 DEF Parents, Readers
  <2>6. Knows(Me, call, room)'
    BY <2>5 DEF Knows, Readers, ReaderKnows, GrepKnows, FishKnows, DeviceKnows, SyserrKnows
  <2>7. Fits(Me, call, room)' BY <1>1, <1>5, <2>6 DEF Fits
  <2>8. Writes(Me, call, out[cur_pid])' BY <2>5 DEF Writes
  <2> QED BY <1>4, <1>6, <2>3, <2>4, <2>7, <2>8 DEF HoldInv
<1> QED BY <1>4, <1>8, <1>9

(* The call syserr made returns what the test expects.                     *)
LEMMA TestGives ==
  ASSUME FilesInv, NEW m, Testing(m, call), call # <<>>, syscall(call[1], call[2], call[3]),
         m.tests \in Seq(1..8), m.tests # <<>>, m.calls \in Seq(TestCalls), m.calls # <<>>, call' = <<>>
  PROVE  Testing(m, call)'
<1> DEFINE n == Head(m.tests)
           k == Len(Tests[n]) - Len(m.calls)
<1>1. n \in 1..8 OBVIOUS
<1>2. Len(m.calls) \in Nat \ {0}
  <2> HIDE DEF TestCalls
  <2> QED OBVIOUS
<1>3. Len(Tests[n]) \in Nat
  <2>1. Tests[n] \in Seq(TestCalls) BY <1>1, TestsAre
  <2> HIDE DEF TestCalls
  <2> QED BY <2>1
<1>4. /\ m.fail = 0 /\ m.failures = FailuresIn(n, k) /\ k \in Nat
      /\ \A j \in 1..Len(m.calls) : m.calls[j] = Tests[n][k + j]
      /\ InUse(fdt, Used(n, k)) /\ call = Tests[n][k + 1]
  BY DEF Testing
<1>5. k = Len(Tests[n]) - Len(m.calls) /\ n = Head(m.tests) OBVIOUS
<1> HIDE DEF n, k
<1>6. k + 1 \in 1..Len(Tests[n]) BY <1>2, <1>3, <1>4, <1>5, Counted
<1>7. InUse(fdt', Used(n, k + 1)) /\ (ret' = -1 <=> (n = 3 => k = 6))
  <2>1. CASE n = 3
    <3>1. k \in 0..12 BY <1>4, <1>6, <2>1, OpenLots
    <3>2. call = Tests[3][k + 1] /\ InUse(fdt, Used(3, k)) BY <1>4, <2>1
    <3>3. InUse(fdt', Used(3, k + 1)) /\ (ret' = -1 <=> k = 6) BY <3>1, <3>2, LotsGives
    <3> QED BY <2>1, <3>3
  <2>2. CASE n # 3
    <3>1. Used(n, k) = {} /\ Used(n, k + 1) = {} BY <2>2 DEF Used
    <3>2. BadCall(call) /\ InUse(fdt, {}) BY <1>1, <1>4, <1>6, <2>2, <3>1, BadTests
    <3>3. ret' = -1 /\ process_fdt' = process_fdt BY <3>2, BadFails
    <3>4. cur_pid' = cur_pid
      <4>1. FitsIn(call[1], call[2], call[3], IF call[1] = SYS_READ THEN 31 ELSE 0) BY <3>2, BadFits
      <4>2. call[1] \notin {SYS_HALT, SYS_EXECUTE}
        BY <3>2 DEF BadCall, SYS_HALT, SYS_EXECUTE, SYS_READ, SYS_WRITE, SYS_OPEN, SYS_CLOSE, SYS_VIDMAP, BIG_FD, NEG_FD
      <4>3. (IF call[1] = SYS_READ THEN 31 ELSE 0) \in Nat OBVIOUS
      <4> QED BY <4>1, <4>2, <4>3, CallGives
    <3>5. fdt' = fdt BY <3>3, <3>4 DEF fdt
    <3> QED BY <2>2, <3>1, <3>2, <3>3, <3>5
  <2> QED BY <2>1, <2>2
<1> QED BY <1>4, <1>5, <1>7 DEF Testing

LEMMA OtherHolds ==
  ASSUME AllInv, Served, call[1] \notin {SYS_HALT, SYS_EXECUTE}
  PROVE  FilesInv' /\ HoldInv'
<1>1. /\ call # <<>> /\ call' = <<>> /\ syscall(call[1], call[2], call[3]) /\ room' = room
      /\ run' = run /\ out' = out /\ done' = done
  BY DEF Served
<1>2. /\ room \in Nat /\ FitsIn(call[1], call[2], call[3], room) /\ Knows(Me, call, room)
  BY <1>1 DEF AllInv, HoldInv, Fits, Halts
<1>3. /\ FilesInv' /\ cur_pid' = cur_pid
      /\ Len(buf') <= room /\ (nbytes' >= 0 => ARG_SIZE <= room) /\ index' \in Entries
      /\ (call[1] = SYS_OPEN => NotDir(call[2])) => \A g \in Entries : InDir(fdt', g) => InDir(fdt, g)
      /\ call[1] = SYS_OPEN => (ret' = -1 \/ ret' \in Entries) /\ (NotDir(call[2]) => ~InDir(fdt', ret'))
      /\ call[1] = SYS_READ => IsSequence(buf') /\ ret' \in {-1, Len(buf')}
      /\ call[1] \notin {SYS_OPEN, SYS_CLOSE} => SameFlags
  BY <1>1, <1>2, CallGives DEF AllInv
<1>4. Me' = Me BY <1>1, <1>3 DEF Me
<1>5. BuffersHold' BY <1>1, <1>3 DEF BuffersHold
<1>6. SyserrPasses' BY <1>1 DEF AllInv, HoldInv, SyserrPasses
<1>7. Waiting' BY <1>1, <1>3 DEF AllInv, HoldInv, Waiting
<1>8. Writes(Me, call, out[cur_pid])' BY <1>1, <1>3, <1>4 DEF AllInv, HoldInv, Writes, Halts
<1>9. Entries = 0..7 BY SizesAre
<1>10. ReaderKnows(Me, call)'
  <2>1. call[1] = SYS_OPEN => Desc(ret') BY <1>3, <1>9, SizesAre DEF Desc
  <2>2. Me.prog \in Readers =>
          (Me.pc \in OpenPlaces => call[1] = SYS_OPEN) /\ (Me.pc \in FdPlaces => Desc(Me.fd))
    BY <1>1, <1>2 DEF Knows, ReaderKnows
  <2> QED BY <1>1, <1>4, <2>1, <2>2 DEF ReaderKnows
<1>11. GrepKnows(Me, call, room)'
  <2> SUFFICES ASSUME Me.prog = "grep", Me.pc \notin {"start", "args"} PROVE GrepKnows(Me, call, room)'
    BY <1>4 DEF GrepKnows
  <2>1. /\ {"dir", "last"} \subseteq DOMAIN Me.mem /\ (Me.pc # "dir" => Desc(Me.mem.dir))
        /\ Me.pc \in {"name", "data"} => call[1] = SYS_READ
        /\ Me.pc = "opened" => NotDir(call[2]) /\ call[1] = SYS_OPEN
        /\ Me.pc = "data" => ~InDir(fdt, Me.fd) /\ Me.mem.last \in 0..BUFSIZE /\ room = BUFSIZE - Me.mem.last
    BY <1>1, <1>2 DEF Knows, GrepKnows, ReaderKnows, Readers, OpenPlaces
  <2>2. Me.pc = "data" => ~InDir(fdt', Me.fd)
    BY <1>3, <2>1 DEF InDir, SYS_READ, SYS_OPEN
  <2>3. Me.pc \in {"name", "data"} => IsSequence(buf') /\ ret' \in {-1, Len(buf')} BY <1>3, <2>1
  <2>4. Me.pc = "opened" => ~InDir(fdt', ret') BY <1>3, <2>1
  <2> QED BY <1>1, <1>4, <2>1, <2>2, <2>3, <2>4 DEF GrepKnows
<1>12. FishKnows(Me)' BY <1>2, <1>4 DEF Knows, FishKnows
<1>13. DeviceKnows(Me, call)'
  <2>1. Me.prog \in {"pingpong", "fish"} =>
          (\A fd \in Entries : ~InDir(fdt, fd)) /\ (call[1] = SYS_OPEN => NotDir(call[2]))
    BY <1>1, <1>2 DEF Knows, DeviceKnows
  <2> QED BY <1>1, <1>3, <1>4, <2>1 DEF DeviceKnows
<1>14. SyserrKnows(Me, call)'
  <2> SUFFICES ASSUME Me.prog = "syserr" PROVE SyserrKnows(Me, call)'
    BY <1>4 DEF SyserrKnows
  <2>1. SyserrKnows(Me, call) BY <1>2 DEF Knows
  <2>2. CASE Me.pc = "asked"
    <3>1. TestMemory(Me)
      <4>1. cur_pid \in 0..cur_pid BY SizesAssumption DEF AllInv, ProgramsInv, Tables, Processes
      <4> QED BY <4>1 DEF AllInv, ProgramsInv, Tables, Me
    <3>2. /\ Me.mem.tests \in Seq(1..8) /\ Me.mem.tests # <<>>
          /\ Me.mem.calls \in Seq(TestCalls) /\ Me.mem.calls # <<>> /\ Testing(Me.mem, call)
      BY <2>1, <2>2, <3>1 DEF TestMemory, SyserrKnows
    <3> DEFINE m == Me.mem
    <3>3. m' = m BY <1>4
    <3>4. PICK x : x = m OBVIOUS
    <3>5. Testing(x, call)'
      <4>1. Testing(x, call) /\ x.tests \in Seq(1..8) /\ x.tests # <<>> /\ x.calls \in Seq(TestCalls) /\ x.calls # <<>>
        BY <3>2, <3>4
      <4> QED BY <1>1, <4>1, TestGives DEF AllInv
    <3>6. Testing(Me.mem, call)' BY <3>3, <3>4, <3>5 DEF Testing
    <3> QED BY <1>1, <1>4, <2>2, <3>6 DEF SyserrKnows
  <2>3. CASE Me.pc = "choice"
    <3>1. call = <<SYS_READ, 0, BUFSIZE - 1>> /\ InUse(fdt, {}) BY <1>1, <2>1, <2>3 DEF SyserrKnows
    <3>2. sys_read(0, BUFSIZE - 1)
      BY <1>1, <3>1 DEF syscall, InvalidNumber, SYS_HALT, SYS_EXECUTE, SYS_READ, SYS_WRITE, SYS_OPEN, SYS_CLOSE,
              SYS_GETARGS, SYS_VIDMAP, SYS_SET_HANDLER, SYS_SIGRETURN, MAX_SYSCALL_NUM
    <3>3. Entry(0).flags = STDIN_FLAG

      <4>1. process_fdt[cur_pid][0].flags = STDIN_FLAG BY DEF AllInv, ProgramsInv, Tables, Terminals
      <4>2. 0 \in Entries BY Bounds
      <4> QED BY <4>1, <4>2 DEF Entry, fdt
    <3>4. ~InDir(fdt, 0) BY <3>1, NothingOpen DEF AllInv
    <3>5. BUFSIZE - 1 \in Nat /\ BUFSIZE - 1 \in Int /\ 0 \in Int /\ BUFSIZE - 1 <= BUFSIZE - 1 /\ BUFSIZE - 1 >= 0
      BY SizesAre
    <3> DEFINE b == BUFSIZE - 1
    <3>6. b \in Nat /\ b \in Int /\ 0 \in Int /\ b <= b /\ b >= 0 /\ sys_read(0, b) BY <3>2, <3>5
    <3> HIDE DEF b
    <3>7. ret' # -1 BY <3>3, <3>4, <3>6, ReadGives DEF AllInv
    <3>8. SameFlags BY <1>3, <3>1 DEF SYS_READ, SYS_OPEN, SYS_CLOSE
    <3>9. InUse(fdt', {}) BY <1>9, <3>1, <3>8 DEF SameFlags, InUse
    <3> QED BY <1>1, <1>4, <2>3, <3>7, <3>9 DEF SyserrKnows
  <2>4. CASE Me.pc \in {"start", "ask", "tested"}
    <3>1. call[1] = SYS_WRITE /\ InUse(fdt, {}) /\ (Me.pc = "tested" => Me.mem.fail = 0)
      BY <1>1, <2>1, <2>4 DEF SyserrKnows
    <3>2. SameFlags BY <1>3, <3>1 DEF SYS_WRITE, SYS_OPEN, SYS_CLOSE
    <3>3. InUse(fdt', {}) BY <1>9, <3>1, <3>2 DEF SameFlags, InUse
    <3> QED BY <1>1, <1>4, <2>4, <3>1, <3>3 DEF SyserrKnows
  <2> QED BY <2>1, <2>2, <2>3, <2>4 DEF SyserrKnows
<1>15. Knows(Me, call, room)' BY <1>10, <1>11, <1>12, <1>13, <1>14 DEF Knows
<1>16. Fits(Me, call, room)' BY <1>1, <1>2, <1>15 DEF Fits
<1> QED BY <1>3, <1>5, <1>6, <1>7, <1>8, <1>16 DEF HoldInv

LEMMA HoldInit == ASSUME ProgramsInit PROVE AllInv
<1>1. ProgramsInv BY ProgramsInitOK
<1>2. FilesInv BY InitOK DEF ProgramsInit, CallsInit
<1>3. /\ cur_pid = 0 /\ buf = <<>> /\ index = 0 /\ nbytes = -1
      /\ run = [p \in Processes |-> IF p = 0 THEN Started("shell") ELSE None]
      /\ call = <<>> /\ room = 0 /\ done = None
  BY DEF ProgramsInit, CallsInit, Init, A!Init
<1>4. 0 \in Processes /\ 0 \in Entries /\ Len(<<>>) = 0 /\ 0..(0 - 1) = {} BY Bounds
<1>5. Me.prog = "shell" BY <1>3, <1>4 DEF Me, Started
<1>6. Me.prog \notin Readers \cup {"syserr"} BY <1>5 DEF Readers
<1>7. Fits(Me, call, room) BY <1>3, <1>6, KnowsWhat DEF Fits
<1>8. Waiting BY <1>3, <1>4 DEF Waiting
<1>9. Writes(Me, call, out[cur_pid]) BY <1>6 DEF Writes
<1>10. BuffersHold BY <1>3, <1>4 DEF BuffersHold
<1>11. SyserrPasses BY <1>3 DEF SyserrPasses
<1> QED BY <1>1, <1>2, <1>7, <1>8, <1>9, <1>10, <1>11 DEF AllInv, HoldInv

LEMMA StepHolds == ASSUME AllInv, [Step]_allVars PROVE AllInv'
<1>1. ProgramsInv' BY StepKeeps DEF AllInv
<1>2. FilesInv' /\ HoldInv'
  <2>1. CASE Served BY <2>1, HaltHolds, ExecuteHolds, OtherHolds
  <2>2. CASE Shell BY <2>2, ShellHolds
  <2>3. CASE Cat \/ Ls \/ Pingpong \/ Grep \/ Fish
    BY <2>3, CatHolds, LsHolds, PingpongHolds, GrepHolds, FishHolds
  <2>4. CASE Syserr BY <2>4, SyserrHolds
  <2>5. CASE Hello \/ Counter \/ Testprint \/ Sigtest
    <3>1. call = <<>> BY <2>5 DEF Hello, Counter, Testprint, Sigtest, At
    <3> QED BY <2>5, <3>1, PlainHold, CrashHolds
  <2>6. CASE Arbitrary
    <3>1. call = <<>> BY <2>6 DEF Arbitrary, At
    <3> QED BY <2>6, <3>1, ArbitraryHolds, CrashHolds
  <2>7. CASE UNCHANGED allVars
    <3>1. /\ cur_pid' = cur_pid /\ process_fdt' = process_fdt /\ ret' = ret /\ buf' = buf /\ index' = index
          /\ nbytes' = nbytes /\ run' = run /\ out' = out /\ call' = call /\ room' = room /\ done' = done
      BY <2>7 DEF allVars, callVars, runVars, vars
    <3>2. Me' = Me /\ fdt' = fdt /\ FilesInv' BY <3>1, SameTables DEF Me, fdt, AllInv
    <3>3. Knows(Me, call, room) => Knows(Me, call, room)'
      <4>1. ReaderKnows(Me, call) => ReaderKnows(Me, call)' BY <3>1, <3>2 DEF ReaderKnows
      <4>2. GrepKnows(Me, call, room) => GrepKnows(Me, call, room)' BY <3>1, <3>2 DEF GrepKnows, InDir
      <4>3. FishKnows(Me) => FishKnows(Me)' BY <3>2 DEF FishKnows
      <4>4. DeviceKnows(Me, call) => DeviceKnows(Me, call)' BY <3>1, <3>2 DEF DeviceKnows, InDir
      <4>5. SyserrKnows(Me, call) => SyserrKnows(Me, call)' BY <3>1, <3>2 DEF SyserrKnows, Testing, InUse
      <4> QED BY <4>1, <4>2, <4>3, <4>4, <4>5 DEF Knows
    <3>4. Fits(Me, call, room)' BY <3>1, <3>2, <3>3 DEF AllInv, HoldInv, Fits, FitsIn, InDir, Halts
    <3>5. Writes(Me, call, out[cur_pid])' /\ Waiting' BY <3>1, <3>2 DEF AllInv, HoldInv, Writes, Waiting, Halts
    <3>6. BuffersHold' /\ SyserrPasses' BY <3>1 DEF AllInv, HoldInv, BuffersHold, SyserrPasses
    <3> QED BY <3>2, <3>4, <3>5, <3>6 DEF HoldInv
  <2> QED BY <2>1, <2>2, <2>3, <2>4, <2>5, <2>6, <2>7 DEF Step
<1> QED BY <1>1, <1>2 DEF AllInv

(* For every file system that has the names the programs open, and for any *)
(* size of their arrays that holds a name and the arguments: no call of a  *)
(* program makes the kernel (sys_read, sys_getargs) store more than the    *)
(* array can hold, or look behind the table of descriptors.                *)
THEOREM ProgramsBuffersHold == ProgramsSpec => []BuffersHold
<1>1. ProgramsInit /\ [][Step]_allVars => []AllInv BY HoldInit, StepHolds, PTL
<1>2. AllInv => BuffersHold BY DEF AllInv, HoldInv
<1> QED BY <1>1, <1>2, PTL DEF ProgramsSpec

(* And every test of syserr passes, whichever is chosen and whatever ran   *)
(* before: the bad calls fail, and of seven opens exactly the last does    *)
(* (sys_open, sys_close, sys_read, sys_write, sys_vidmap, syscall).        *)
THEOREM ProgramsSyserrPasses == ProgramsSpec => []SyserrPasses
<1>1. ProgramsInit /\ [][Step]_allVars => []AllInv BY HoldInit, StepHolds, PTL
<1>2. AllInv => SyserrPasses BY DEF AllInv, HoldInv
<1> QED BY <1>1, <1>2, PTL DEF ProgramsSpec
=============================================================================
