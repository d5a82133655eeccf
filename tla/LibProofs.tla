----------------------------- MODULE LibProofs -----------------------------
(***************************************************************************)
(* Proofs about the memory and string functions of Lib, for every size of  *)
(* memory and of words, every alignment and every state of the flag: what  *)
(* a call copies or fills, and what strncmp answers.                       *)
(***************************************************************************)
EXTENDS Lib, WellFoundedInduction, TLAPS

----------------------------------------------------------------------------
(* Induction, for a set instead of a formula, and least elements.          *)

LEMMA LeastNumber ==
  ASSUME NEW T, T \subseteq Nat, T # {}
  PROVE  \E x \in T : \A y \in T : x <= y
<1>1. PICK x \in T : \A y \in T : <<y, x>> \notin OpToRel(<, Nat)
  BY NatLessThanWellFounded, WFMin
<1>2. ASSUME NEW y \in T PROVE x <= y
  <2>1. x \in Nat /\ y \in Nat
    OBVIOUS
  <2>2. <<y, x>> \notin OpToRel(<, Nat)
    BY <1>1
  <2>3. ~(y < x)
    BY <2>1, <2>2 DEF OpToRel
  <2> QED  BY <2>1, <2>3
<1> QED  BY <1>2

LEMMA Counting ==
  ASSUME NEW A, 0 \in A, \A n \in Nat : n \in A => n + 1 \in A
  PROVE  Nat \subseteq A
<1> SUFFICES ASSUME Nat \ A # {} PROVE FALSE
  OBVIOUS
<1>1. PICK x \in Nat \ A : \A y \in Nat \ A : x <= y
  BY LeastNumber
<1>2. x # 0 /\ x \in Nat
  OBVIOUS
<1>3. x - 1 \in Nat /\ ~(x <= x - 1) /\ (x - 1) + 1 = x
  BY <1>2
<1> QED  BY <1>1, <1>3

----------------------------------------------------------------------------
(* The string instructions.                                                *)

LEMMA Sizes0 == MemSize \in Nat /\ LONG_BYTES \in Nat /\ LONG_BYTES > 0 /\ BYTE \in Nat /\ BYTE > 0
BY MemAssumption

(* Unit k of rep movs.                                                     *)
Moved(h, edi, esi, k, w, down) ==
  LET done == w * (k - 1)
      to == IF down THEN edi - done ELSE edi + done
  IN [a \in Addresses |-> IF a \in to..(to + w - 1) THEN h[esi + (a - edi)] ELSE h[a]]

(* A sequence of memories of which each follows from the one before is the *)
(* one rep movs goes through.                                              *)
Moves(g, m, edi, esi, count, w, down) ==
  /\ g = [k \in 0..count |-> g[k]] /\ g[0] = m
  /\ \A k \in 1..count : g[k] = Moved(g[k - 1], edi, esi, k, w, down)

LEMMA Reps ==
  ASSUME NEW m, NEW edi, NEW esi, NEW count \in Nat, NEW w, NEW down,
         NEW g, Moves(g, m, edi, esi, count, w, down)
  PROVE  rep_movs(m, edi, esi, count, w, down) = g[count]
<1> DEFINE Step(h, k) == Moved(h, edi, esi, k, w, down)
           Runs(f) == f = [k \in 0..count |-> IF k = 0 THEN m ELSE Step(f[k - 1], k)]
           after == CHOOSE f : Runs(f)
<1>1. rep_movs(m, edi, esi, count, w, down) = after[count]
  BY Zenon DEF rep_movs, Moved
<1> HIDE DEF Step
<1>2. ASSUME NEW k \in 0..count PROVE g[k] = IF k = 0 THEN m ELSE Step(g[k - 1], k)
  <2>1. k # 0 => k \in 1..count
    OBVIOUS
  <2> QED  BY <2>1, Zenon DEF Step, Moves
<1>3. Runs(g)
  BY <1>2 DEF Moves
<1>4. Runs(after)
  <2> HIDE DEF Runs
  <2> QED  BY <1>3
<1> HIDE DEF after
<1> DEFINE Same == {k \in Nat : k <= count => after[k] = g[k]}
<1>5. 0 \in Same
  BY <1>2, <1>4
<1>6. ASSUME NEW k \in Nat, k \in Same PROVE k + 1 \in Same
  <2> SUFFICES ASSUME k + 1 <= count PROVE after[k + 1] = g[k + 1]
    OBVIOUS
  <2>1. k + 1 \in 0..count /\ k + 1 # 0 /\ (k + 1) - 1 = k /\ k <= count
    OBVIOUS
  <2>2. after[k + 1] = Step(after[k], k + 1)
    BY <1>4, <2>1
  <2>3. g[k + 1] = Step(g[k], k + 1)
    BY <1>2, <2>1
  <2> QED  BY <1>6, <2>1, <2>2, <2>3
<1> HIDE DEF Same
<1>7. count \in Same
  BY <1>5, <1>6, Counting
<1> QED  BY <1>1, <1>7 DEF Same

(* n bytes at dest with the values that n bytes at src have before.        *)
Copied(m, dest, src, n) ==
  [a \in Addresses |-> IF a \in dest..(dest + n - 1) THEN m[src + (a - dest)] ELSE m[a]]

(* Going up is safe if the source is not below dest within reach.          *)
SafeUp(dest, src, n) == dest <= src \/ src + n <= dest

IsMemory(m) == m = [a \in Addresses |-> m[a]]

LEMMA CopiedIsMemory ==
  ASSUME NEW m, NEW dest, NEW src, NEW n PROVE IsMemory(Copied(m, dest, src, n))
BY DEF IsMemory, Copied

(* Both are in memory, and going up is safe.                               *)
UpFits(edi, esi, n) ==
  /\ edi \in Nat /\ esi \in Nat /\ n \in Nat
  /\ edi + n <= MemSize /\ esi + n <= MemSize /\ SafeUp(edi, esi, n)

Times(n, w, count) == w \in Nat /\ w > 0 /\ count \in Nat /\ n = w * count

LEMMA TimesOne == ASSUME NEW n \in Nat PROVE Times(n, 1, n)
BY DEF Times

LEMMA MovsUp ==
  ASSUME NEW m, IsMemory(m), NEW edi, NEW esi, NEW count, NEW w, NEW n,
         Times(n, w, count), UpFits(edi, esi, n)
  PROVE  rep_movs(m, edi, esi, count, w, FALSE) = Copied(m, edi, esi, n)
<1> USE DEF UpFits, Times
<1> DEFINE g == [k \in 0..count |-> Copied(m, edi, esi, w * k)]
<1>1. g[0] = m
  <2>1. w * 0 = 0
    OBVIOUS
  <2>2. Copied(m, edi, esi, 0) = m
    <3>1. ASSUME NEW a \in Addresses PROVE a \notin edi..(edi + 0 - 1)
      BY Sizes0 DEF Addresses
    <3> QED  BY <3>1 DEF Copied, IsMemory
  <2> QED  BY <2>1, <2>2
<1>2. ASSUME NEW k \in 1..count PROVE g[k] = Moved(g[k - 1], edi, esi, k, w, FALSE)
  <2>1. PICK x \in Nat : x = w * (k - 1)
    OBVIOUS
  <2>2. w * k = x + w
    BY <2>1
  <2>3. w * k <= n
    <3>1. PICK j \in Nat : count = k + j
      <4>1. count - k \in Nat /\ count = k + (count - k)
        OBVIOUS
      <4> QED  BY <4>1
    <3>2. w * (k + j) = w * k + w * j /\ w * k \in Nat /\ w * j \in Nat
      OBVIOUS
    <3>3. n = w * k + w * j
      BY <3>1, <3>2
    <3>4. PICK p \in Nat, q \in Nat : p = w * k /\ q = w * j
      BY <3>2
    <3>5. n = p + q
      BY <3>3, <3>4
    <3>6. p <= n
      BY <3>5
    <3> QED  BY <3>4, <3>6
  <2> DEFINE h == Copied(m, edi, esi, x)
  <2>4. g[k - 1] = h
    BY <2>1
  <2>5. g[k] = Copied(m, edi, esi, x + w)
    <3>1. g[k] = Copied(m, edi, esi, w * k)
      OBVIOUS
    <3> QED  BY <2>2, <3>1
  <2>6. x + w <= n
    BY <2>2, <2>3
  <2>7. ASSUME NEW a \in Addresses
        PROVE  Copied(m, edi, esi, x + w)[a] =
               IF a \in (edi + x)..(edi + x + w - 1) THEN h[esi + (a - edi)] ELSE h[a]
    <3>1. CASE a \in (edi + x)..(edi + x + w - 1)
      <4>1. esi + (a - edi) \in Addresses /\ esi + (a - edi) \notin edi..(edi + x - 1)
        BY <2>6, <3>1, Sizes0 DEF Addresses, SafeUp
      <4>2. h[esi + (a - edi)] = m[esi + (a - edi)]
        BY <4>1 DEF Copied
      <4>3. a \in edi..(edi + (x + w) - 1)
        BY <3>1, Sizes0 DEF Addresses
      <4>4. Copied(m, edi, esi, x + w)[a] = m[esi + (a - edi)]
        BY <4>3 DEF Copied
      <4> HIDE DEF h
      <4> QED  BY <3>1, <4>2, <4>4
    <3>2. CASE a \notin (edi + x)..(edi + x + w - 1)
      <4>1. a \in edi..(edi + (x + w) - 1) <=> a \in edi..(edi + x - 1)
        BY <3>2, Sizes0 DEF Addresses
      <4>2. Copied(m, edi, esi, x + w)[a] = h[a]
        BY <4>1 DEF Copied
      <4> HIDE DEF h
      <4> QED  BY <3>2, <4>2
    <3> QED  BY <3>1, <3>2
  <2>8. Moved(h, edi, esi, k, w, FALSE) =
          [a \in Addresses |-> IF a \in (edi + x)..(edi + x + w - 1) THEN h[esi + (a - edi)] ELSE h[a]]
    <3> HIDE DEF h
    <3> QED  BY <2>1 DEF Moved
  <2>9. Copied(m, edi, esi, x + w) = [a \in Addresses |-> Copied(m, edi, esi, x + w)[a]]
    BY DEF Copied
  <2> HIDE DEF g, h
  <2> QED  BY <2>4, <2>5, <2>7, <2>8, <2>9
<1>3. g = [k \in 0..count |-> g[k]] /\ g[count] = Copied(m, edi, esi, n)
  OBVIOUS
<1> HIDE DEF g
<1>4. Moves(g, m, edi, esi, count, w, FALSE)
  BY <1>1, <1>2, <1>3 DEF Moves
<1>5. rep_movs(m, edi, esi, count, w, FALSE) = g[count]
  <2>1. PICK down : down = FALSE
    OBVIOUS
  <2>2. Moves(g, m, edi, esi, count, w, down)
    BY <1>4, <2>1
  <2>3. rep_movs(m, edi, esi, count, w, down) = g[count]
    BY <2>2, Reps
  <2> QED  BY <2>1, <2>3
<1> QED  BY <1>3, <1>5


(* Going down is safe if the source is below.                              *)
LEMMA MovsDown ==
  ASSUME NEW m, IsMemory(m), NEW dest \in Nat, NEW src \in Nat, NEW n \in Nat,
         dest + n <= MemSize, src < dest
  PROVE  rep_movs(m, dest + n - 1, src + n - 1, n, 1, TRUE) = Copied(m, dest, src, n)
<1>0. PICK edi \in Int, esi \in Int : edi = dest + n - 1 /\ esi = src + n - 1
  OBVIOUS
<1> DEFINE Done(k) == [a \in Addresses |->
                         IF a \in (edi - k + 1)..edi THEN m[esi + (a - edi)] ELSE m[a]]
           g == [k \in 0..n |-> Done(k)]
<1>1. Done(0) = m
  <2>1. ASSUME NEW a \in Addresses PROVE a \notin (edi - 0 + 1)..edi
    BY Sizes0 DEF Addresses
  <2> QED  BY <2>1 DEF IsMemory
<1>2. ASSUME NEW k \in 1..n PROVE Done(k) = Moved(Done(k - 1), edi, esi, k, 1, TRUE)
  <2> DEFINE h == Done(k - 1)
             to == edi - (k - 1)
  <2>1. ASSUME NEW a \in Addresses
        PROVE  Done(k)[a] = IF a \in to..to THEN h[esi + (a - edi)] ELSE h[a]
    <3>1. CASE a = to
      <4>1. esi + (a - edi) \in Addresses /\ esi + (a - edi) \notin (edi - (k - 1) + 1)..edi
        BY <1>0, <3>1, Sizes0 DEF Addresses
      <4>2. h[esi + (a - edi)] = m[esi + (a - edi)]
        BY <4>1
      <4>3. Done(k)[a] = m[esi + (a - edi)] /\ a \in to..to
        BY <1>0, <3>1
      <4> HIDE DEF h, Done
      <4> QED  BY <4>2, <4>3
    <3>2. CASE a # to
      <4>1. (a \in (edi - k + 1)..edi <=> a \in (edi - (k - 1) + 1)..edi) /\ a \notin to..to
        BY <1>0, <3>2, Sizes0 DEF Addresses
      <4>2. Done(k)[a] = h[a]
        BY <4>1
      <4> HIDE DEF h, Done, to
      <4> QED  BY <4>1, <4>2
    <3> QED  BY <3>1, <3>2
  <2>2. Moved(h, edi, esi, k, 1, TRUE) =
          [a \in Addresses |-> IF a \in to..to THEN h[esi + (a - edi)] ELSE h[a]]
    <3>1. 1 * (k - 1) = k - 1 /\ to + 1 - 1 = to
      OBVIOUS
    <3> HIDE DEF h
    <3> QED  BY <3>1 DEF Moved
  <2>3. Done(k) = [a \in Addresses |-> Done(k)[a]]
    OBVIOUS
  <2> HIDE DEF Done, h, to
  <2>4. Done(k) = [a \in Addresses |-> IF a \in to..to THEN h[esi + (a - edi)] ELSE h[a]]
    BY <2>1, <2>3
  <2> QED  BY <2>2, <2>4 DEF h
<1>3. Done(n) = Copied(m, dest, src, n)
  <2>1. ASSUME NEW a \in Addresses
        PROVE  /\ a \in (edi - n + 1)..edi <=> a \in dest..(dest + n - 1)
               /\ esi + (a - edi) = src + (a - dest)
    BY <1>0, Sizes0 DEF Addresses
  <2> QED  BY <2>1 DEF Copied
<1> HIDE DEF Done
<1>4. Moves(g, m, edi, esi, n, 1, TRUE)
  <2>1. g = [k \in 0..n |-> g[k]] /\ g[0] = m
    BY <1>1
  <2>2. ASSUME NEW k \in 1..n PROVE g[k] = Moved(g[k - 1], edi, esi, k, 1, TRUE)
    <3>1. g[k] = Done(k) /\ g[k - 1] = Done(k - 1)
      OBVIOUS
    <3> QED  BY <1>2, <3>1
  <2> HIDE DEF g
  <2> QED  BY <2>1, <2>2 DEF Moves
<1>5. g[n] = Copied(m, dest, src, n)
  BY <1>3
<1> HIDE DEF g
<1>6. PICK down : down = TRUE
  OBVIOUS
<1>7. Moves(g, m, edi, esi, n, 1, down)
  BY <1>4, <1>6
<1>8. rep_movs(m, edi, esi, n, 1, down) = g[n]
  BY <1>7, Reps
<1> QED  BY <1>0, <1>5, <1>6, <1>8

(* Two pieces, one after the other.                                        *)
LEMMA CopiedJoin ==
  ASSUME NEW m, NEW dest, NEW src, NEW x \in Nat, NEW y \in Nat, UpFits(dest, src, x + y)
  PROVE  Copied(Copied(m, dest, src, x), dest + x, src + x, y) = Copied(m, dest, src, x + y)
<1> USE DEF UpFits
<1> DEFINE h == Copied(m, dest, src, x)
<1>2. ASSUME NEW a \in Addresses
      PROVE  Copied(m, dest, src, x + y)[a] =
             IF a \in (dest + x)..(dest + x + y - 1) THEN h[src + x + (a - (dest + x))] ELSE h[a]
  <2>1. CASE a \in (dest + x)..(dest + x + y - 1)
    <3>1. /\ src + (a - dest) \in Addresses /\ src + (a - dest) \notin dest..(dest + x - 1)
          /\ src + x + (a - (dest + x)) = src + (a - dest) /\ a \in dest..(dest + (x + y) - 1)
      BY <2>1, Sizes0 DEF Addresses, SafeUp
    <3>2. h[src + (a - dest)] = m[src + (a - dest)]
      BY <3>1 DEF Copied
    <3>3. Copied(m, dest, src, x + y)[a] = m[src + (a - dest)]
      BY <3>1 DEF Copied
    <3> HIDE DEF h
    <3> QED  BY <2>1, <3>1, <3>2, <3>3
  <2>2. CASE a \notin (dest + x)..(dest + x + y - 1)
    <3>1. a \in dest..(dest + (x + y) - 1) <=> a \in dest..(dest + x - 1)
      BY <2>2, Sizes0 DEF Addresses
    <3>2. Copied(m, dest, src, x + y)[a] = h[a]
      BY <3>1 DEF Copied
    <3> HIDE DEF h
    <3> QED  BY <2>2, <3>2
  <2> QED  BY <2>1, <2>2
<1>3. Copied(m, dest, src, x + y) = [a \in Addresses |-> Copied(m, dest, src, x + y)[a]]
  BY DEF Copied
<1> HIDE DEF h
<1>4. Copied(h, dest + x, src + x, y) =
        [a \in Addresses |-> IF a \in (dest + x)..(dest + x + y - 1)
                             THEN h[src + x + (a - (dest + x))] ELSE h[a]]
  BY DEF Copied
<1>5. Copied(h, dest + x, src + x, y) = Copied(m, dest, src, x + y)
  BY <1>2, <1>3, <1>4
<1> QED  BY <1>5 DEF h

----------------------------------------------------------------------------
(* memcpy, memmove and memset.                                             *)

(* The pieces: up to the alignment, the words, and the rest.               *)
LEMMA Pieces ==
  ASSUME NEW edi \in Nat, NEW n \in Nat,
         NEW lead, lead = Lead(edi, n),
         NEW words, words = (n - lead) \div LONG_BYTES,
         NEW tail, tail = (n - lead) % LONG_BYTES,
         NEW w, w = LONG_BYTES * words
  PROVE  /\ lead \in Nat /\ words \in Nat /\ tail \in Nat /\ w \in Nat
         /\ n = lead + w + tail
<1>1. lead \in 0..n
  <2>1. PICK r : r = edi % LONG_BYTES
    OBVIOUS
  <2>2. r \in 0..(LONG_BYTES - 1)
    BY <2>1, Sizes0
  <2>3. PICK q : q = (LONG_BYTES - r) % LONG_BYTES
    OBVIOUS
  <2>4. LONG_BYTES - r \in Nat
    BY <2>2, Sizes0
  <2>5. q \in Nat
    BY <2>3, <2>4, Sizes0
  <2>6. lead = Least(n, q)
    BY <2>1, <2>3 DEF Lead
  <2> QED  BY <2>5, <2>6 DEF Least
<1>2. PICK k \in Nat : k = n - lead
  BY <1>1
<1>3. words = k \div LONG_BYTES /\ tail = k % LONG_BYTES
  BY <1>2
<1>4. words \in Nat
  BY <1>3, Sizes0
<1>5. tail \in Nat
  BY <1>3, Sizes0
<1>6. k = LONG_BYTES * words + tail
  <2>1. PICK b \in Nat : b = LONG_BYTES /\ b > 0
    BY Sizes0
  <2>2. words = k \div b /\ tail = k % b
    BY <1>3, <2>1
  <2>3. k = b * words + tail
    BY <2>1, <2>2
  <2> QED  BY <2>1, <2>3
<1>7. w \in Nat
  BY <1>4, Sizes0
<1>8. k = w + tail
  BY <1>6
<1> QED  BY <1>1, <1>2, <1>4, <1>5, <1>7, <1>8


LEMMA MemcpyCopies ==
  ASSUME NEW m, IsMemory(m), NEW dest, NEW src, NEW n, UpFits(dest, src, n)
  PROVE  memcpy(m, dest, src, n) = Copied(m, dest, src, n)
<1>1. PICK lead, words, tail, w :
        /\ lead = Lead(dest, n) /\ words = (n - lead) \div LONG_BYTES
        /\ tail = (n - lead) % LONG_BYTES /\ w = LONG_BYTES * words
  OBVIOUS
<1>0. dest \in Nat /\ src \in Nat /\ n \in Nat
  BY DEF UpFits
<1>2. lead \in Nat /\ words \in Nat /\ tail \in Nat /\ w \in Nat /\ n = lead + w + tail
  BY <1>0, <1>1, Pieces
<1>3. PICK x, d1, s1, d2, s2 : /\ x = lead + w /\ d1 = dest + lead /\ s1 = src + lead
                               /\ d2 = dest + x /\ s2 = src + x
  OBVIOUS
<1>4. /\ x \in Nat /\ x + tail = n
      /\ d2 = dest + n - tail /\ s2 = src + n - tail
  BY <1>0, <1>2, <1>3
<1>5. UpFits(dest, src, lead)
  BY <1>0, <1>2, Sizes0 DEF UpFits, SafeUp
<1>6. UpFits(dest, src, x)
  BY <1>0, <1>2, <1>3, Sizes0 DEF UpFits, SafeUp
<1>7. UpFits(d1, s1, w)
  BY <1>0, <1>2, <1>3, Sizes0 DEF UpFits, SafeUp
<1>8. UpFits(d2, s2, tail)
  BY <1>0, <1>2, <1>3, Sizes0 DEF UpFits, SafeUp
<1> DEFINE m1 == Copied(m, dest, src, lead)
           m2 == Copied(m, dest, src, x)
<1>9. rep_movs(m, dest, src, lead, 1, FALSE) = m1
  <2>1. Times(lead, 1, lead)
    BY <1>2, TimesOne
  <2> QED  BY <1>5, <2>1, MovsUp
<1>10. rep_movs(m1, d1, s1, words, LONG_BYTES, FALSE) = m2
  <2>1. Times(w, LONG_BYTES, words)
    BY <1>1, <1>2, Sizes0 DEF Times
  <2>2. IsMemory(m1)
    BY CopiedIsMemory
  <2>3. rep_movs(m1, d1, s1, words, LONG_BYTES, FALSE) = Copied(m1, d1, s1, w)
    <3> HIDE DEF m1
    <3> QED  BY <1>7, <2>1, <2>2, MovsUp
  <2>4. UpFits(dest, src, lead + w)
    BY <1>3, <1>6
  <2>5. Copied(m1, dest + lead, src + lead, w) = Copied(m, dest, src, lead + w)
    BY <1>2, <2>4, CopiedJoin
  <2>6. Copied(m1, d1, s1, w) = m2
    <3> HIDE DEF m1
    <3> QED  BY <1>3, <2>5
  <2> QED  BY <2>3, <2>6
<1>11. rep_movs(m2, d2, s2, tail, 1, FALSE) = Copied(m, dest, src, n)
  <2>1. Times(tail, 1, tail)
    BY <1>2, TimesOne
  <2>2. IsMemory(m2)
    BY CopiedIsMemory
  <2>3. rep_movs(m2, d2, s2, tail, 1, FALSE) = Copied(m2, d2, s2, tail)
    <3> HIDE DEF m2
    <3> QED  BY <1>8, <2>1, <2>2, MovsUp
  <2>4. UpFits(dest, src, x + tail)
    BY <1>4
  <2>5. Copied(m2, dest + x, src + x, tail) = Copied(m, dest, src, x + tail)
    BY <1>2, <1>4, <2>4, CopiedJoin
  <2>6. Copied(m2, d2, s2, tail) = Copied(m, dest, src, n)
    <3> HIDE DEF m2
    <3> QED  BY <1>3, <1>4, <2>5
  <2> QED  BY <2>3, <2>6
<1> HIDE DEF m1, m2
<1>12. memcpy(m, dest, src, n) = rep_movs(m2, d2, s2, tail, 1, FALSE)
  <2>1. memcpy(m, dest, src, n) =
          rep_movs(rep_movs(rep_movs(m, dest, src, lead, 1, FALSE),
                            dest + lead, src + lead, words, LONG_BYTES, FALSE),
                   dest + n - tail, src + n - tail, tail, 1, FALSE)
    BY <1>1, Zenon DEF memcpy, AfterCld
  <2>2. rep_movs(m1, dest + lead, src + lead, words, LONG_BYTES, FALSE) = m2
    BY <1>3, <1>10, Zenon
  <2>3. rep_movs(rep_movs(rep_movs(m, dest, src, lead, 1, FALSE),
                          dest + lead, src + lead, words, LONG_BYTES, FALSE),
                 dest + n - tail, src + n - tail, tail, 1, FALSE)
        = rep_movs(m2, dest + n - tail, src + n - tail, tail, 1, FALSE)
    BY <1>9, <2>2, Zenon
  <2> QED  BY <1>4, <2>1, <2>3, Zenon
<1> QED  BY <1>11, <1>12, Zenon

LEMMA MemmoveCopies ==
  ASSUME NEW m, IsMemory(m), NEW dest \in Nat, NEW src \in Nat, NEW n \in Nat,
         dest + n <= MemSize, src + n <= MemSize
  PROVE  memmove(m, dest, src, n) = Copied(m, dest, src, n)
<1>1. CASE src < dest
  <2>1. memmove(m, dest, src, n) = rep_movs(m, dest + n - 1, src + n - 1, n, 1, TRUE)
    BY <1>1 DEF memmove, Downwards
  <2>2. rep_movs(m, dest + n - 1, src + n - 1, n, 1, TRUE) = Copied(m, dest, src, n)
    BY <1>1, MovsDown
  <2> QED  BY <2>1, <2>2, Zenon
<1>2. CASE ~(src < dest)
  <2>1. memmove(m, dest, src, n) = rep_movs(m, dest, src, n, 1, FALSE)
    BY <1>2 DEF memmove, Downwards
  <2>2. Times(n, 1, n) /\ UpFits(dest, src, n)
    BY <1>2, TimesOne DEF SafeUp, UpFits
  <2>3. rep_movs(m, dest, src, n, 1, FALSE) = Copied(m, dest, src, n)
    BY <2>2, MovsUp
  <2> QED  BY <2>1, <2>3, Zenon
<1> QED  BY <1>1, <1>2

Filled(m, dest, c, n) == [a \in Addresses |-> IF a \in dest..(dest + n - 1) THEN c ELSE m[a]]

LEMMA StosUp ==
  ASSUME NEW m, NEW c, NEW edi, NEW count, NEW w, NEW n, edi \in Nat, Times(n, w, count)
  PROVE  rep_stos(m, edi, count, w, FALSE, c) = Filled(m, edi, c, n)
<1> USE DEF Times
<1>1. CASE count = 0
  <2>1. n = 0
    BY <1>1
  <2>2. ASSUME NEW a \in Addresses PROVE a \notin edi..(edi + n - 1)
    BY <2>1, Sizes0 DEF Addresses
  <2>3. ~(count > 0)
    BY <1>1
  <2> QED  BY <2>2, <2>3 DEF rep_stos, Filled
<1>2. CASE count > 0
  <2>1. rep_stos(m, edi, count, w, FALSE, c) =
          [a \in Addresses |-> IF a \in edi..(edi + w * count - 1) THEN c ELSE m[a]]
    BY <1>2, Zenon DEF rep_stos
  <2> QED  BY <2>1 DEF Filled
<1>3. count = 0 \/ count > 0
  OBVIOUS
<1> QED  BY <1>1, <1>2, <1>3, Zenon

LEMMA MemsetFills ==
  ASSUME NEW m, NEW s \in Nat, NEW c, NEW n \in Nat
  PROVE  memset(m, s, c, n) = Filled(m, s, c % BYTE, n)
<1>1. PICK lead, words, tail, w, v :
        /\ lead = Lead(s, n) /\ words = (n - lead) \div LONG_BYTES
        /\ tail = (n - lead) % LONG_BYTES /\ w = LONG_BYTES * words /\ v = c % BYTE
  OBVIOUS
<1>2. lead \in Nat /\ words \in Nat /\ tail \in Nat /\ w \in Nat /\ n = lead + w + tail
  BY <1>1, Pieces
<1> DEFINE m1 == rep_stos(m, s, lead, 1, FALSE, v)
           m2 == rep_stos(m1, s + lead, words, LONG_BYTES, FALSE, v)
           m3 == rep_stos(m2, s + n - tail, tail, 1, FALSE, v)
<1>3. memset(m, s, c, n) = m3
  BY <1>1, Zenon DEF memset, Masked, AfterCld
<1>4. m1 = Filled(m, s, v, lead)
  <2>1. Times(lead, 1, lead)
    BY <1>2, TimesOne
  <2> QED  BY <2>1, StosUp
<1> HIDE DEF m1
<1>5. m2 = Filled(m1, s + lead, v, w)
  <2>1. s + lead \in Nat /\ Times(w, LONG_BYTES, words)
    BY <1>1, <1>2, Sizes0 DEF Times
  <2> QED  BY <2>1, StosUp
<1> HIDE DEF m2
<1>6. m3 = Filled(m2, s + n - tail, v, tail)
  <2>1. s + n - tail \in Nat /\ Times(tail, 1, tail)
    BY <1>2, TimesOne
  <2> QED  BY <2>1, StosUp
<1> HIDE DEF m3
<1>7. ASSUME NEW a \in Addresses PROVE m3[a] = IF a \in s..(s + n - 1) THEN v ELSE m[a]
  <2>1. a \in Nat
    BY Sizes0 DEF Addresses
  <2>2. m1[a] = IF a \in s..(s + lead - 1) THEN v ELSE m[a]
    BY <1>4 DEF Filled
  <2>3. m2[a] = IF a \in (s + lead)..(s + lead + w - 1) THEN v ELSE m1[a]
    BY <1>5 DEF Filled
  <2>4. m3[a] = IF a \in (s + n - tail)..(s + n - tail + tail - 1) THEN v ELSE m2[a]
    BY <1>6 DEF Filled
  <2>5. a \in s..(s + n - 1) <=> \/ a \in s..(s + lead - 1) \/ a \in (s + lead)..(s + lead + w - 1)
                                 \/ a \in (s + n - tail)..(s + n - tail + tail - 1)
    BY <1>2, <2>1
  <2> QED  BY <2>2, <2>3, <2>4, <2>5
<1>8. m3 = [a \in Addresses |-> m3[a]]
  BY <1>6 DEF Filled
<1>9. m3 = Filled(m, s, v, n)
  BY <1>7, <1>8 DEF Filled
<1> QED  BY <1>1, <1>3, <1>9


----------------------------------------------------------------------------
(* Strings.                                                                *)

(* strlen is the index of the first NUL, which is in memory.               *)
LEMMA StrlenIs ==
  ASSUME NEW m, NEW s \in Addresses, IsString(m, s)
  PROVE  /\ strlen(m, s) \in Nat /\ s + strlen(m, s) \in Addresses
         /\ m[s + strlen(m, s)] = 0
         /\ \A j \in 0..(strlen(m, s) - 1) : m[s + j] # 0
<1> DEFINE Z == {k \in Nat : s + k \in Addresses /\ m[s + k] = 0}
           First(k) == m[s + k] = 0 /\ \A j \in 0..(k - 1) : m[s + j] # 0
<1>1. Z # {}
  <2>1. PICK a \in Addresses : a >= s /\ m[a] = 0
    BY DEF IsString
  <2>2. a - s \in Nat /\ s + (a - s) = a
    BY <2>1, Sizes0 DEF Addresses
  <2>3. a - s \in Z
    BY <2>1, <2>2
  <2> QED  BY <2>3
<1>2. PICK x \in Z : \A y \in Z : x <= y
  <2>1. Z \subseteq Nat
    OBVIOUS
  <2> HIDE DEF Z
  <2> QED  BY <1>1, <2>1, LeastNumber
<1>3. x \in Nat /\ s + x \in Addresses /\ m[s + x] = 0 /\ x \in 0..MemSize
  BY <1>2, Sizes0 DEF Addresses
<1>4. ASSUME NEW j \in 0..(x - 1) PROVE m[s + j] # 0
  <2>1. j \in Nat /\ s + j \in Addresses /\ ~(x <= j)
    BY <1>3, Sizes0 DEF Addresses
  <2> QED  BY <1>2, <2>1
<1>5. First(x)
  BY <1>3, <1>4
<1>6. ASSUME NEW k \in 0..MemSize, First(k) PROVE k = x
  <2>1. ~(k < x)
    <3> SUFFICES ASSUME k < x PROVE FALSE
      OBVIOUS
    <3>1. k \in 0..(x - 1)
      BY <1>3
    <3> QED  BY <1>4, <1>6, <3>1
  <2>2. ~(x < k)
    <3> SUFFICES ASSUME x < k PROVE FALSE
      OBVIOUS
    <3>1. x \in 0..(k - 1)
      BY <1>3
    <3> QED  BY <1>3, <1>6, <3>1
  <2> QED  BY <1>3, <2>1, <2>2
<1>7. strlen(m, s) = CHOOSE k \in 0..MemSize : First(k)
  BY DEF strlen
<1> HIDE DEF First
<1>8. strlen(m, s) \in 0..MemSize /\ First(strlen(m, s))
  BY <1>3, <1>5, <1>7
<1>9. strlen(m, s) = x
  BY <1>6, <1>8
<1> QED  BY <1>3, <1>4, <1>9

(* strncmp stops at the first index where the strings differ or end, or at *)
(* n, and not behind the end of either string.                             *)
LEMMA StrncmpStops ==
  ASSUME NEW m \in [Addresses -> Bytes], NEW s1 \in Addresses, NEW s2 \in Addresses,
         NEW n \in Nat, IsString(m, s1), IsString(m, s2)
  PROVE  \E i \in Nat :
           /\ i <= n /\ i <= strlen(m, s1) /\ i <= strlen(m, s2)
           /\ \A j \in 0..(i - 1) : m[s1 + j] = m[s2 + j]
           /\ i < n => Ends(m, s1, s2, i) /\ strncmp(m, s1, s2, n) = m[s1 + i] - m[s2 + i]
           /\ i = n => strncmp(m, s1, s2, n) = 0
<1> DEFINE stop(i) == i \notin Indices(n) \/ Ends(m, s1, s2, i)
           LastAt(i) == stop(i) /\ \A j \in 0..(i - 1) : ~stop(j)
           last == CHOOSE i \in 0..MemSize : LastAt(i)
           T == {i \in Nat : stop(i)}
<1>0. PICK l1 \in Nat, l2 \in Nat :
        /\ l1 = strlen(m, s1) /\ s1 + l1 \in Addresses /\ m[s1 + l1] = 0
        /\ l2 = strlen(m, s2) /\ s2 + l2 \in Addresses /\ m[s2 + l2] = 0
  BY StrlenIs
<1>1. stop(n) /\ stop(l1) /\ stop(l2)
  <2>1. n \notin Indices(n)
    BY DEF Indices
  <2>2. Ends(m, s1, s2, l1)
    BY <1>0 DEF Ends
  <2>3. Ends(m, s1, s2, l2)
    BY <1>0 DEF Ends
  <2> QED  BY <2>1, <2>2, <2>3
<1>2. strncmp(m, s1, s2, n) = IF last \in Indices(n) THEN m[s1 + last] - m[s2 + last] ELSE 0
  BY Zenon DEF strncmp
<1> HIDE DEF stop, last
<1>3. PICK x \in T : \A y \in T : x <= y
  <2>1. T \subseteq Nat /\ T # {}
    BY <1>1
  <2> HIDE DEF T
  <2> QED  BY <2>1, LeastNumber
<1>4. x \in Nat /\ x <= n /\ x <= l1 /\ x <= l2 /\ stop(x)
  BY <1>0, <1>1, <1>3
<1>5. ASSUME NEW j \in 0..(x - 1) PROVE ~stop(j)
  <2>1. j \in Nat /\ ~(x <= j)
    BY <1>4
  <2> QED  BY <1>3, <2>1
<1>6. x \in 0..MemSize
  BY <1>0, <1>4, Sizes0 DEF Addresses
<1>7. LastAt(x)
  BY <1>4, <1>5
<1>8. ASSUME NEW k \in 0..MemSize, LastAt(k) PROVE k = x
  <2>1. ~(k < x)
    <3> SUFFICES ASSUME k < x PROVE FALSE
      OBVIOUS
    <3>1. k \in 0..(x - 1)
      BY <1>4
    <3> QED  BY <1>5, <1>8, <3>1
  <2>2. ~(x < k)
    <3> SUFFICES ASSUME x < k PROVE FALSE
      OBVIOUS
    <3>1. x \in 0..(k - 1)
      BY <1>4
    <3> QED  BY <1>4, <1>8, <3>1
  <2> QED  BY <1>4, <2>1, <2>2
<1>9. last = x
  <2> HIDE DEF LastAt
  <2>1. last \in 0..MemSize /\ LastAt(last)
    BY <1>6, <1>7 DEF last
  <2> QED  BY <1>8, <2>1
<1>10. ASSUME NEW j \in 0..(x - 1) PROVE m[s1 + j] = m[s2 + j]
  BY <1>5 DEF stop, Ends
<1>11. x \in Indices(n) <=> x < n
  BY <1>4 DEF Indices
<1>12. x < n => Ends(m, s1, s2, x)
  BY <1>4, <1>11 DEF stop
<1>13. /\ x < n => strncmp(m, s1, s2, n) = m[s1 + x] - m[s2 + x]
       /\ x = n => strncmp(m, s1, s2, n) = 0
  BY <1>2, <1>4, <1>9, <1>11
<1> QED  BY <1>0, <1>4, <1>10, <1>12, <1>13


(* One string before the other, as in ComparesPrefix.                      *)
Before(p, q) ==
  \E k \in 0..MemSize :
    /\ \A j \in 0..(k - 1), b \in Bytes : <<j, b>> \in p <=> <<j, b>> \in q
    /\ \E c \in Bytes : <<k, c>> \in q /\ \A b \in Bytes : <<k, b>> \in p => b < c

(* A set of indexed characters is not before itself.                       *)
LEMMA NotBeforeItself == ASSUME NEW p PROVE ~Before(p, p)
<1> SUFFICES ASSUME NEW c \in Bytes, c < c PROVE FALSE
  BY DEF Before
<1> QED  BY Sizes0 DEF Bytes

(* Two strings that agree below x and differ there are in the order of the *)
(* characters at x.                                                        *)
LEMMA FirstDifference ==
  ASSUME NEW m \in [Addresses -> Bytes], NEW s \in Addresses, NEW t \in Addresses,
         NEW n \in Nat, IsString(m, s), IsString(m, t), NEW x \in Nat,
         x < n, x <= strlen(m, s), x <= strlen(m, t),
         \A j \in 0..(x - 1) : m[s + j] = m[t + j], m[s + x] # m[t + x]
  PROVE  /\ Cut(m, s, n) # Cut(m, t, n)
         /\ Before(Cut(m, s, n), Cut(m, t, n)) <=> m[s + x] < m[t + x]
<1>0. PICK ls \in Nat, lt \in Nat :
        /\ ls = strlen(m, s) /\ s + ls \in Addresses /\ m[s + ls] = 0
        /\ \A j \in 0..(ls - 1) : m[s + j] # 0
        /\ lt = strlen(m, t) /\ t + lt \in Addresses /\ m[t + lt] = 0
        /\ \A j \in 0..(lt - 1) : m[t + j] # 0
  BY StrlenIs
<1>1. x <= ls /\ x <= lt
  BY <1>0
<1>2. s + x \in Addresses /\ t + x \in Addresses /\ x \in 0..MemSize
  BY <1>0, <1>1, Sizes0 DEF Addresses
<1>3. PICK c \in Bytes, d \in Bytes : c = m[s + x] /\ d = m[t + x] /\ c # d
  BY <1>2
<1>4. c \in Nat /\ d \in Nat
  BY Sizes0 DEF Bytes
<1> DEFINE p == Cut(m, s, n)
           q == Cut(m, t, n)
<1>5. \A k, b : <<k, b>> \in p <=> k \in 0..(Least(n, ls) - 1) /\ b = m[s + k]
  <2>1. \A k, b : <<k, b>> \in Cut(m, s, n) <=>
                    k \in 0..(Least(n, strlen(m, s)) - 1) /\ b = m[s + k]
    BY DEF Cut
  <2> HIDE DEF p, q
  <2>2. \A k, b : <<k, b>> \in p <=> k \in 0..(Least(n, strlen(m, s)) - 1) /\ b = m[s + k]
    BY <2>1, Zenon DEF p
  <2> QED  BY <1>0, <2>2, Zenon
<1>6. \A k, b : <<k, b>> \in q <=> k \in 0..(Least(n, lt) - 1) /\ b = m[t + k]
  <2>1. \A k, b : <<k, b>> \in Cut(m, t, n) <=>
                    k \in 0..(Least(n, strlen(m, t)) - 1) /\ b = m[t + k]
    BY DEF Cut
  <2> HIDE DEF p, q
  <2>2. \A k, b : <<k, b>> \in q <=> k \in 0..(Least(n, strlen(m, t)) - 1) /\ b = m[t + k]
    BY <2>1, Zenon DEF q
  <2> QED  BY <1>0, <2>2, Zenon
<1> HIDE DEF p, q
<1>7. c # 0 <=> x \in 0..(Least(n, ls) - 1)
  <2>1. x < ls => c # 0
    BY <1>0, <1>3
  <2>2. x = ls => c = 0
    BY <1>0, <1>3
  <2> QED  BY <1>0, <1>1, <2>1, <2>2 DEF Least
<1>8. d # 0 <=> x \in 0..(Least(n, lt) - 1)
  <2>1. x < lt => d # 0
    BY <1>0, <1>3
  <2>2. x = lt => d = 0
    BY <1>0, <1>3
  <2> QED  BY <1>0, <1>1, <2>1, <2>2 DEF Least
<1>9. \A b : (<<x, b>> \in p <=> b = c /\ c # 0) /\ (<<x, b>> \in q <=> b = d /\ d # 0)
  BY <1>3, <1>5, <1>6, <1>7, <1>8
<1>10. \E b \in {c, d} : ~(<<x, b>> \in p <=> <<x, b>> \in q)
  <2>1. CASE c # 0
    BY <1>3, <1>9, <2>1
  <2>2. CASE d # 0
    BY <1>3, <1>9, <2>2
  <2> QED  BY <1>3, <2>1, <2>2
<1>11. p # q
  BY <1>10
<1>12. ASSUME NEW j \in 0..(x - 1) PROVE \A b : <<j, b>> \in p <=> <<j, b>> \in q
  <2>1. j \in 0..(Least(n, ls) - 1) /\ j \in 0..(Least(n, lt) - 1)
    BY <1>0, <1>1 DEF Least
  <2>2. m[s + j] = m[t + j]
    OBVIOUS
  <2> QED  BY <1>5, <1>6, <2>1, <2>2
<1>13. ASSUME c < d PROVE Before(p, q)
  <2>1. d # 0
    BY <1>4, <1>13
  <2>2. <<x, d>> \in q /\ \A b \in Bytes : <<x, b>> \in p => b < d
    BY <1>9, <1>13, <2>1
  <2>3. \A j \in 0..(x - 1), b \in Bytes : <<j, b>> \in p <=> <<j, b>> \in q
    BY <1>12
  <2> QED  BY <1>2, <2>2, <2>3 DEF Before
<1>14. ASSUME Before(p, q) PROVE c < d
  <2>1. PICK k \in 0..MemSize :
          /\ \A j \in 0..(k - 1), b \in Bytes : <<j, b>> \in p <=> <<j, b>> \in q
          /\ \E e \in Bytes : <<k, e>> \in q /\ \A b \in Bytes : <<k, b>> \in p => b < e
    BY <1>14 DEF Before
  <2>2. PICK e \in Bytes : <<k, e>> \in q /\ \A b \in Bytes : <<k, b>> \in p => b < e
    BY <2>1
  <2>3. e \in Nat /\ k \in Nat
    BY Sizes0 DEF Bytes
  <2>4. ~(k < x)
    <3> SUFFICES ASSUME k < x PROVE FALSE
      OBVIOUS
    <3>1. k \in 0..(x - 1)
      BY <2>3
    <3>2. <<k, e>> \in p
      BY <1>12, <2>2, <3>1
    <3>3. e < e
      BY <2>2, <3>2
    <3> QED  BY <2>3, <3>3
  <2>5. ~(x < k)
    <3> SUFFICES ASSUME x < k PROVE FALSE
      OBVIOUS
    <3>1. x \in 0..(k - 1)
      BY <2>3
    <3> QED  BY <1>10, <2>1, <3>1
  <2>6. k = x
    BY <2>3, <2>4, <2>5
  <2>7. e = d /\ d # 0
    BY <1>9, <2>2, <2>6
  <2>8. CASE c = 0
    BY <1>4, <2>7, <2>8
  <2>9. CASE c # 0
    BY <1>9, <2>2, <2>6, <2>7, <2>9
  <2> QED  BY <2>8, <2>9
<1> QED  BY <1>3, <1>11, <1>13, <1>14 DEF p, q

(* What strncmp answers.                                                   *)
LEMMA StrncmpCompares ==
  ASSUME NEW m \in [Addresses -> Bytes], NEW s \in Addresses, NEW t \in Addresses,
         NEW n \in Nat, IsString(m, s), IsString(m, t), NEW r, r = strncmp(m, s, t, n)
  PROVE  /\ r = 0 <=> Cut(m, s, n) = Cut(m, t, n)
         /\ r < 0 <=> Before(Cut(m, s, n), Cut(m, t, n))
         /\ r > 0 <=> Before(Cut(m, t, n), Cut(m, s, n))
<1>1. PICK x \in Nat :
        /\ x <= n /\ x <= strlen(m, s) /\ x <= strlen(m, t)
        /\ \A j \in 0..(x - 1) : m[s + j] = m[t + j]
        /\ x < n => Ends(m, s, t, x) /\ r = m[s + x] - m[t + x]
        /\ x = n => r = 0
  BY StrncmpStops
<1>0. PICK ls \in Nat, lt \in Nat :
        /\ ls = strlen(m, s) /\ s + ls \in Addresses /\ m[s + ls] = 0
        /\ \A j \in 0..(ls - 1) : m[s + j] # 0
        /\ lt = strlen(m, t) /\ t + lt \in Addresses /\ m[t + lt] = 0
        /\ \A j \in 0..(lt - 1) : m[t + j] # 0
  BY StrlenIs
<1>2. CASE x < n /\ m[s + x] # m[t + x]
  <2>1. s + x \in Addresses /\ t + x \in Addresses
    BY <1>0, <1>1, Sizes0 DEF Addresses
  <2>2. PICK c \in Nat, d \in Nat : c = m[s + x] /\ d = m[t + x]
    BY <2>1, Sizes0 DEF Bytes
  <2>3. r = c - d /\ c # d
    BY <1>1, <1>2, <2>2
  <2>4. /\ Cut(m, s, n) # Cut(m, t, n)
        /\ Before(Cut(m, s, n), Cut(m, t, n)) <=> c < d
    BY <1>1, <1>2, <2>2, FirstDifference
  <2>5. \A j \in 0..(x - 1) : m[t + j] = m[s + j]
    BY <1>1
  <2>6. Before(Cut(m, t, n), Cut(m, s, n)) <=> d < c
    BY <1>1, <1>2, <2>2, <2>5, FirstDifference
  <2>7. (r = 0 <=> FALSE) /\ (r < 0 <=> c < d) /\ (r > 0 <=> d < c)
    BY <2>3
  <2> QED  BY <2>4, <2>6, <2>7
<1>3. CASE ~(x < n /\ m[s + x] # m[t + x])
  <2>1. Least(n, ls) = x /\ Least(n, lt) = x /\ r = 0
    <3>1. CASE x = n
      BY <1>0, <1>1, <3>1 DEF Least
    <3>2. CASE x < n
      <4>1. m[s + x] = 0 /\ m[t + x] = 0
        BY <1>1, <1>3, <3>2 DEF Ends
      <4>2. ~(x < ls) /\ ~(x < lt)
        BY <1>0, <4>1
      <4>3. x = ls /\ x = lt
        BY <1>0, <1>1, <4>2
      <4>4. r = 0
        BY <1>1, <3>2, <4>1
      <4> QED  BY <3>2, <4>3, <4>4 DEF Least
    <3> QED  BY <1>1, <3>1, <3>2
  <2>2. Cut(m, s, n) = Cut(m, t, n)
    <3>1. Cut(m, s, n) = {<<k, m[s + k]>> : k \in 0..(x - 1)}
      BY <1>0, <2>1 DEF Cut
    <3>2. Cut(m, t, n) = {<<k, m[t + k]>> : k \in 0..(x - 1)}
      BY <1>0, <2>1 DEF Cut
    <3> QED  BY <1>1, <3>1, <3>2
  <2>3. ~Before(Cut(m, s, n), Cut(m, t, n)) /\ ~Before(Cut(m, t, n), Cut(m, s, n))
    BY <2>2, NotBeforeItself
  <2> QED  BY <2>1, <2>2, <2>3
<1> QED  BY <1>2, <1>3


----------------------------------------------------------------------------
(* The calls.                                                              *)

(* Other code has prepared the buffers when a function is called, and what *)
(* strncmp has compared is still there when it has returned.               *)
MemInv ==
  /\ call = NoCall => mem \in Contents
  /\ call # NoCall /\ call.name = "strncmp" =>
       /\ mem \in Contents
       /\ call.dest \in Addresses /\ call.src \in Addresses /\ call.n \in Nat
       /\ IsString(mem, call.dest) /\ IsString(mem, call.src)
       /\ ret = strncmp(mem, call.dest, call.src, call.n)

LEMMA Prepared == ASSUME NEW m \in Contents PROVE m \in [Addresses -> Bytes] /\ IsMemory(m)
<1>1. m \in [Addresses -> Bytes]
  BY MemAssumption DEF Addresses, Bytes
<1> QED  BY <1>1 DEF IsMemory

LEMMA InNat == Addresses \subseteq Nat /\ Sizes \subseteq Nat
BY Sizes0, MemAssumption DEF Addresses

(* The record of a call.                                                   *)
LEMMA Called ==
  ASSUME NEW name, NEW dest, NEW src, NEW n, Call(name, dest, src, n)
  PROVE  call'.name = name /\ call'.dest = dest /\ call'.src = src /\ call'.n = n
BY DEF Call

(* What a call that fills or copies does, with its call and the memory     *)
(* before and after it.                                                    *)
Exactly(m, m2, c) ==
  \A a \in Addresses :
    m2[a] = IF a \in c.dest..(c.dest + c.n - 1) THEN Byte(m, c, a - c.dest) ELSE m[a]

LEMMA CopiedExactly ==
  ASSUME NEW m, NEW m2, NEW c, NEW dest, NEW src, NEW n,
         m2 = Copied(m, dest, src, n), c.dest = dest, c.src = src, c.n = n,
         c.name \in {"memcpy", "memmove", "strcpy"}
  PROVE  Exactly(m, m2, c)
<1>1. ASSUME NEW k PROVE Byte(m, c, k) = m[src + k]
  BY DEF Byte
<1>2. ASSUME NEW a \in Addresses
      PROVE  m2[a] = IF a \in dest..(dest + n - 1) THEN m[src + (a - dest)] ELSE m[a]
  BY DEF Copied
<1> QED  BY <1>1, <1>2 DEF Exactly

LEMMA MemsetExactly ==
  ASSUME NEW s \in Addresses, NEW c \in Fills, NEW n \in Sizes, Memset(s, c, n)
  PROVE  Exactly(mem, mem', call')
<1>1. PICK d : d = call' /\ d.name = "memset" /\ d.dest = s /\ d.src = c /\ d.n = n
  BY Called DEF Memset
<1>2. mem' = Filled(mem, s, c % BYTE, n)
  BY MemsetFills, InNat DEF Memset
<1>3. ASSUME NEW k PROVE Byte(mem, d, k) = c % BYTE
  BY <1>1 DEF Byte
<1>4. ASSUME NEW a \in Addresses
      PROVE  mem'[a] = IF a \in s..(s + n - 1) THEN c % BYTE ELSE mem[a]
  BY <1>2 DEF Filled
<1>5. Exactly(mem, mem', d)
  BY <1>1, <1>3, <1>4 DEF Exactly
<1> QED  BY <1>1, <1>5

LEMMA MemcpyExactly ==
  ASSUME mem \in Contents, NEW dest \in Addresses, NEW src \in Addresses, NEW n \in Sizes,
         Memcpy(dest, src, n)
  PROVE  Exactly(mem, mem', call')
<1>1. PICK d : d = call' /\ d.name = "memcpy" /\ d.dest = dest /\ d.src = src /\ d.n = n
  BY Called DEF Memcpy
<1>2. UpFits(dest, src, n) /\ IsMemory(mem)
  BY InNat, Prepared DEF Memcpy, UpFits, SafeUp, Fits, Disjoint
<1>3. mem' = Copied(mem, dest, src, n)
  BY <1>2, MemcpyCopies DEF Memcpy
<1>4. Exactly(mem, mem', d)
  BY <1>1, <1>3, CopiedExactly
<1> QED  BY <1>1, <1>4

LEMMA MemmoveExactly ==
  ASSUME mem \in Contents, NEW dest \in Addresses, NEW src \in Addresses, NEW n \in Sizes,
         Memmove(dest, src, n)
  PROVE  Exactly(mem, mem', call')
<1>1. PICK d : d = call' /\ d.name = "memmove" /\ d.dest = dest /\ d.src = src /\ d.n = n
  BY Called DEF Memmove
<1>2. /\ dest \in Nat /\ src \in Nat /\ n \in Nat /\ IsMemory(mem)
      /\ dest + n <= MemSize /\ src + n <= MemSize
  BY InNat, Prepared DEF Memmove, Fits
<1>3. mem' = Copied(mem, dest, src, n)
  BY <1>2, MemmoveCopies DEF Memmove
<1>4. Exactly(mem, mem', d)
  BY <1>1, <1>3, CopiedExactly
<1> QED  BY <1>1, <1>4

LEMMA StrcpyExactly ==
  ASSUME NEW dest \in Addresses, NEW src \in Addresses, Strcpy(dest, src)
  PROVE  Exactly(mem, mem', call')
<1>1. PICK len \in Nat : len = strlen(mem, src)
  BY StrlenIs DEF Strcpy
<1>2. PICK d : d = call' /\ d.name = "strcpy" /\ d.dest = dest /\ d.src = src /\ d.n = len + 1
  BY <1>1, Called DEF Strcpy
<1>3. mem' = Copied(mem, dest, src, len + 1)
  <2>1. dest + (len + 1) - 1 = dest + len
    BY <1>1, InNat
  <2>2. mem' = [a \in Addresses |-> IF a \in dest..(dest + len) THEN mem[src + (a - dest)] ELSE mem[a]]
    BY <1>1 DEF Strcpy, strcpy
  <2> QED  BY <2>1, <2>2 DEF Copied
<1>4. Exactly(mem, mem', d)
  BY <1>2, <1>3, CopiedExactly
<1> QED  BY <1>2, <1>4

LEMMA StrncpyExactly ==
  ASSUME mem \in Contents, NEW dest \in Addresses, NEW src \in Addresses, NEW n \in Sizes,
         Strncpy(dest, src, n)
  PROVE  Exactly(mem, mem', call')
<1>1. PICK len \in Nat : len = strlen(mem, src) /\ src + len \in Addresses
  BY StrlenIs DEF Strncpy
<1>2. PICK d : d = call' /\ d.name = "strncpy" /\ d.dest = dest /\ d.src = src /\ d.n = n
  BY Called DEF Strncpy
<1>3. n \in Nat /\ dest \in Nat /\ src \in Nat
  BY InNat
<1>4. PICK l \in Nat : l = Least(n, len) /\ l <= n /\ l <= len
  BY <1>3 DEF Least
<1>5. mem' = [a \in Addresses |-> IF a \in dest..(dest + l - 1) THEN mem[src + (a - dest)]
                                  ELSE IF a \in dest..(dest + n - 1) THEN 0 ELSE mem[a]]
  BY <1>1, <1>4 DEF Strncpy, strncpy
<1>6. ASSUME NEW k \in 0..(n - 1)
      PROVE  Byte(mem, d, k) = IF k \in 0..(l - 1) THEN mem[src + k] ELSE 0
  <2>1. \A b : <<k, b>> \in Cut(mem, src, n) <=> k \in 0..(l - 1) /\ b = mem[src + k]
    BY <1>1, <1>4 DEF Cut
  <2>2. k \in 0..(l - 1) => mem[src + k] \in Bytes
    <3>1. k \in 0..(l - 1) => src + k \in Addresses
      BY <1>1, <1>3, <1>4, Sizes0 DEF Addresses
    <3> QED  BY <3>1, Prepared
  <2>3. (\E b \in Bytes : <<k, b>> \in Cut(mem, src, n)) <=> k \in 0..(l - 1)
    BY <2>1, <2>2
  <2>4. Byte(mem, d, k) = IF \E b \in Bytes : <<k, b>> \in Cut(mem, src, n) THEN mem[src + k] ELSE 0
    BY <1>2 DEF Byte
  <2> QED  BY <2>3, <2>4
<1>7. ASSUME NEW a \in Addresses
      PROVE  mem'[a] = IF a \in dest..(dest + n - 1) THEN Byte(mem, d, a - dest) ELSE mem[a]
  <2>1. a \in Nat
    BY InNat
  <2>2. mem'[a] = IF a \in dest..(dest + l - 1) THEN mem[src + (a - dest)]
                  ELSE IF a \in dest..(dest + n - 1) THEN 0 ELSE mem[a]
    BY <1>5
  <2>3. CASE a \in dest..(dest + n - 1)
    <3>1. PICK k \in 0..(n - 1) : k = a - dest
      BY <1>3, <2>3
    <3>2. k \in 0..(l - 1) <=> a \in dest..(dest + l - 1)
      BY <1>3, <1>4, <2>1, <3>1
    <3>3. Byte(mem, d, k) = IF k \in 0..(l - 1) THEN mem[src + k] ELSE 0
      BY <1>6
    <3> QED  BY <2>2, <2>3, <3>1, <3>2, <3>3
  <2>4. CASE a \notin dest..(dest + n - 1)
    <3>1. a \notin dest..(dest + l - 1)
      BY <1>3, <1>4, <2>1, <2>4
    <3> QED  BY <2>2, <2>4, <3>1
  <2> QED  BY <2>3, <2>4
<1>8. Exactly(mem, mem', d)
  BY <1>2, <1>7 DEF Exactly
<1> QED  BY <1>2, <1>8


----------------------------------------------------------------------------
LEMMA StrncmpNamed ==
  ASSUME NEW s \in Addresses, NEW t \in Addresses, NEW n \in Sizes, Strncmp(s, t, n)
  PROVE  call'.name = "strncmp" /\ (mem \in Contents => MemInv')
<1>1. PICK d : d = call' /\ d.name = "strncmp" /\ d.dest = s /\ d.src = t /\ d.n = n
  BY Called DEF Strncmp
<1>2. d # NoCall
  BY <1>1 DEF NoCall
<1>3. PICK r : r = ret' /\ r = strncmp(mem, s, t, n) /\ mem' = mem
               /\ IsString(mem, s) /\ IsString(mem, t)
  BY DEF Strncmp
<1>4. mem \in Contents => MemInv'
  BY <1>1, <1>2, <1>3, InNat DEF MemInv
<1> QED  BY <1>1, <1>4

LEMMA OtherNamed ==
  ASSUME NEW name, NEW dest, NEW src, NEW n, Call(name, dest, src, n),
         name \notin {"none", "strncmp"}
  PROVE  MemInv'
<1>1. PICK d : d = call' /\ d.name = name
  BY Called
<1>2. d # NoCall
  BY <1>1 DEF NoCall
<1> QED  BY <1>1, <1>2 DEF MemInv

LEMMA CallsExactly ==
  ASSUME mem \in Contents, Calls
  PROVE  MemInv' /\ (call'.name # "strncmp" => Exactly(mem, mem', call'))
<1>1. ASSUME NEW a \in Addresses, NEW b \in Addresses, Strcpy(a, b)
      PROVE  MemInv' /\ Exactly(mem, mem', call')
  <2>1. MemInv'
    BY <1>1, OtherNamed DEF Strcpy
  <2> QED  BY <1>1, <2>1, StrcpyExactly
<1>2. ASSUME NEW a \in Addresses, NEW n \in Sizes, NEW c \in Fills, Memset(a, c, n)
      PROVE  MemInv' /\ Exactly(mem, mem', call')
  <2>1. MemInv'
    BY <1>2, OtherNamed DEF Memset
  <2> QED  BY <1>2, <2>1, MemsetExactly
<1>3. ASSUME NEW a \in Addresses, NEW n \in Sizes, NEW b \in Addresses, Memcpy(a, b, n)
      PROVE  MemInv' /\ Exactly(mem, mem', call')
  <2>1. MemInv'
    BY <1>3, OtherNamed DEF Memcpy
  <2> QED  BY <1>3, <2>1, MemcpyExactly
<1>4. ASSUME NEW a \in Addresses, NEW n \in Sizes, NEW b \in Addresses, Memmove(a, b, n)
      PROVE  MemInv' /\ Exactly(mem, mem', call')
  <2>1. MemInv'
    BY <1>4, OtherNamed DEF Memmove
  <2> QED  BY <1>4, <2>1, MemmoveExactly
<1>5. ASSUME NEW a \in Addresses, NEW n \in Sizes, NEW b \in Addresses, Strncpy(a, b, n)
      PROVE  MemInv' /\ Exactly(mem, mem', call')
  <2>1. MemInv'
    BY <1>5, OtherNamed DEF Strncpy
  <2> QED  BY <1>5, <2>1, StrncpyExactly
<1>6. ASSUME NEW a \in Addresses, NEW n \in Sizes, NEW b \in Addresses, Strncmp(a, b, n)
      PROVE  MemInv' /\ call'.name = "strncmp"
  BY <1>6, StrncmpNamed
<1> QED  BY <1>1, <1>2, <1>3, <1>4, <1>5, <1>6, Zenon DEF Calls

LEMMA MemStep == ASSUME MemInv, [Next]_vars PROVE MemInv'
<1>1. CASE UNCHANGED memVars
  BY <1>1 DEF memVars, MemInv
<1>2. CASE Others
  BY <1>2 DEF Others, MemInv
<1>3. CASE call = NoCall /\ Calls
  BY <1>3, CallsExactly DEF MemInv
<1> QED  BY <1>1, <1>2, <1>3 DEF Next, OnMemory, Printing, MemNext, vars

LEMMA MemInitial == ASSUME Init PROVE MemInv
BY DEF Init, MemInit, MemInv

(* For every size of memory and of words, every alignment, overlap and     *)
(* state of the direction flag: memset, memcpy, memmove, strcpy and        *)
(* strncpy of lib.c change the n bytes at dest and no other, and give them *)
(* the values the source had before the call.                              *)
THEOREM CopiesAreExact == SafetySpec => CopiesExactly
<1>1. ASSUME MemInv, [Next]_vars, call = NoCall, call' # NoCall, call'.name # "strncmp"
      PROVE  Exactly(mem, mem', call')
  <2>1. CASE UNCHANGED memVars
    BY <1>1, <2>1 DEF memVars
  <2>2. CASE Others
    BY <1>1, <2>2 DEF Others
  <2>3. CASE Calls
    BY <1>1, <2>3, CallsExactly DEF MemInv
  <2> QED  BY <1>1, <2>1, <2>2, <2>3 DEF Next, OnMemory, Printing, MemNext, vars
<1>2. MemInv /\ [Next]_vars =>
        [call = NoCall /\ call' # NoCall /\ call'.name # "strncmp" =>
           \A a \in Addresses :
             mem'[a] = IF a \in call'.dest..(call'.dest + call'.n - 1)
                       THEN Byte(mem, call', a - call'.dest) ELSE mem[a]]_memVars
  BY <1>1 DEF Exactly
<1> QED  BY <1>2, MemStep, MemInitial, PTL DEF SafetySpec, CopiesExactly

(* For every memory and every n: strncmp of lib.c gives 0 exactly if the   *)
(* strings agree in their first n characters, and otherwise the sign of    *)
(* the first difference, an end counting as least.                         *)
THEOREM ComparesPrefixes == SafetySpec => []ComparesPrefix
<1>1. ASSUME MemInv PROVE ComparesPrefix
  <2> SUFFICES ASSUME call # NoCall, call.name = "strncmp"
               PROVE  /\ ret = 0 <=> Cut(mem, call.dest, call.n) = Cut(mem, call.src, call.n)
                      /\ ret < 0 <=> Before(Cut(mem, call.dest, call.n), Cut(mem, call.src, call.n))
                      /\ ret > 0 <=> Before(Cut(mem, call.src, call.n), Cut(mem, call.dest, call.n))
    BY Zenon DEF ComparesPrefix, Before
  <2>1. PICK s \in Addresses, t \in Addresses, n \in Nat :
          /\ s = call.dest /\ t = call.src /\ n = call.n
          /\ mem \in Contents /\ IsString(mem, s) /\ IsString(mem, t)
          /\ ret = strncmp(mem, s, t, n)
    BY <1>1 DEF MemInv
  <2>2. /\ ret = 0 <=> Cut(mem, s, n) = Cut(mem, t, n)
        /\ ret < 0 <=> Before(Cut(mem, s, n), Cut(mem, t, n))
        /\ ret > 0 <=> Before(Cut(mem, t, n), Cut(mem, s, n))
    BY <2>1, Prepared, StrncmpCompares
  <2> QED  BY <2>1, <2>2
<1> QED  BY <1>1, MemStep, MemInitial, PTL DEF SafetySpec
=============================================================================
