----------------------------- MODULE FilesProofs -----------------------------
(***************************************************************************)
(* Proofs about Files: for every file system image and every table of      *)
(* descriptors, what programs read through their descriptors are the bytes *)
(* of the files and the names of the directory, in order.                  *)
(***************************************************************************)
EXTENDS Files, WellFoundedInduction, TLAPS

----------------------------------------------------------------------------
(* Loops.                                                                  *)

(* Induction, for a set instead of a formula.                              *)
LEMMA Counting ==
  ASSUME NEW A, 0 \in A, \A n \in Nat : n \in A => n + 1 \in A
  PROVE  Nat \subseteq A
<1> SUFFICES ASSUME Nat \ A # {} PROVE FALSE
  OBVIOUS
<1> DEFINE T == Nat \ A
<1>1. PICK x \in T : \A y \in T : <<y, x>> \notin OpToRel(<, Nat)
  BY NatLessThanWellFounded, WFMin
<1>2. \A y \in T : ~(y < x)
  BY <1>1 DEF OpToRel
<1>3. x # 0 /\ x \in Nat
  OBVIOUS
<1>4. x - 1 \in Nat /\ x - 1 < x /\ (x - 1) + 1 = x
  BY <1>3
<1> QED  BY <1>2, <1>3, <1>4

(* A state and a function on states make a sequence of states.             *)
Iterates(f, X, x, F) ==
  f \in [Nat -> X] /\ f[0] = x /\ \A n \in Nat : f[n + 1] = F[f[n]]

LEMMA Iterate ==
  ASSUME NEW X, NEW x \in X, NEW F \in [X -> X]
  PROVE  \E f : Iterates(f, X, x, F)
<1> DEFINE Steps(h, n) == /\ h \in [0..n -> X] /\ h[0] = x
                          /\ \A k \in 0..(n - 1) : h[k + 1] = F[h[k]]
<1>1. \A n \in Nat : \E h : Steps(h, n)
  <2> DEFINE R == {n \in Nat : \E h : Steps(h, n)}
  <2>1. 0 \in R
    <3>1. Steps([k \in 0..0 |-> x], 0)
      OBVIOUS
    <3> QED  BY <3>1
  <2>2. ASSUME NEW n \in Nat, n \in R PROVE n + 1 \in R
    <3>1. PICK h : Steps(h, n)
      BY <2>2
    <3> DEFINE g == [k \in 0..(n + 1) |-> IF k = n + 1 THEN F[h[n]] ELSE h[k]]
    <3>2. g \in [0..(n + 1) -> X] /\ g[0] = x
      BY <3>1
    <3>3. \A k \in 0..n : g[k + 1] = F[g[k]]
      BY <3>1
    <3> HIDE DEF g
    <3>4. Steps(g, n + 1)
      BY <3>2, <3>3
    <3> QED  BY <3>4
  <2> HIDE DEF R
  <2>3. Nat \subseteq R
    BY <2>1, <2>2, Counting
  <2> QED  BY <2>3 DEF R
<1>2. ASSUME NEW n \in Nat, NEW h, Steps(h, n), NEW m \in Nat, NEW g, Steps(g, m), n <= m
      PROVE  h[n] = g[n]
  <2> DEFINE E == {k \in Nat : k <= n => h[k] = g[k]}
  <2>1. 0 \in E
    BY <1>2
  <2>2. ASSUME NEW k \in Nat, k \in E PROVE k + 1 \in E
    BY <1>2, <2>2
  <2> HIDE DEF E
  <2>3. n \in E
    BY <2>1, <2>2, Counting
  <2> QED  BY <2>3 DEF E
<1> DEFINE H(n) == CHOOSE h : Steps(h, n)
           f == [n \in Nat |-> H(n)[n]]
<1>3. \A n \in Nat : Steps(H(n), n)
  BY <1>1
<1> HIDE DEF H
<1>4. f \in [Nat -> X] /\ f[0] = x
  BY <1>3
<1>5. ASSUME NEW n \in Nat PROVE f[n + 1] = F[f[n]]
  <2>1. H(n + 1)[n + 1] = F[H(n + 1)[n]]
    BY <1>3
  <2>2. H(n)[n] = H(n + 1)[n]
    <3>1. Steps(H(n), n) /\ Steps(H(n + 1), n + 1) /\ n + 1 \in Nat /\ n <= n + 1
      BY <1>3
    <3> HIDE DEF Steps
    <3> QED  BY <1>2, <3>1
  <2> QED  BY <2>1, <2>2
<1> HIDE DEF f
<1>6. Iterates(f, X, x, F)
  BY <1>4, <1>5 DEF Iterates
<1> QED  BY <1>6

----------------------------------------------------------------------------
(* read_data.                                                              *)

BlockSize == FILESYSTEM_BLOCKSIZE

LEMMA Blocks == BlockSize \in Nat /\ BlockSize > 0
BY SizesAssumption DEF BlockSize

(* Byte k of the file of inode i, counted from 0.                          *)
FileByte(i, k) == blocks[inodes[i].dataBlocks[1 + k \div BlockSize]][k % BlockSize]

LEMMA DivMod ==
  ASSUME NEW q \in Nat, NEW r \in 0..(BlockSize - 1)
  PROVE  (BlockSize * q + r) \div BlockSize = q /\ (BlockSize * q + r) % BlockSize = r
BY Blocks


LEMMA DivModOf ==
  ASSUME NEW k \in Nat, NEW q, NEW r, q = k \div BlockSize, r = k % BlockSize
  PROVE  q \in Nat /\ r \in 0..(BlockSize - 1) /\ k = BlockSize * q + r
<1>1. q \in Nat
  BY Blocks
<1>2. r \in 0..(BlockSize - 1)
  BY Blocks
<1>3. k = BlockSize * q + r
  BY Blocks
<1> QED  BY <1>1, <1>2, <1>3

(* Concatenation.                                                          *)
LEMMA Joined ==
  ASSUME NEW U, NEW s \in Seq(U), NEW t \in Seq(U)
  PROVE  /\ s \o t \in Seq(U) /\ Len(s) \in Nat /\ Len(t) \in Nat
         /\ Len(s \o t) = Len(s) + Len(t)
         /\ \A k \in 1..Len(s) : (s \o t)[k] = s[k]
         /\ \A k \in (Len(s) + 1)..(Len(s) + Len(t)) : (s \o t)[k] = t[k - Len(s)]
OBVIOUS

(* The content is the bytes.                                               *)
LEMMA ContentIs ==
  ASSUME NEW i \in DOMAIN inodes
  PROVE  /\ inodes[i].length \in Nat
         /\ FileContent(i) = [k \in 1..inodes[i].length |-> FileByte(i, k - 1)]
BY ImageAssumption DEF FileContent, FileByte, BlockSize

(* What the loop of read_data maintains: the bytes copied so far are those *)
(* from offset on, and the place in the data blocks is where they end.     *)
CopyStates(i, offset, len) ==
  {s \in [dataBlockIndex: Nat, dataBlockOffset: 0..(BlockSize - 1),
          buf: Seq({FileByte(i, k) : k \in 0..(inodes[i].length - 1)})] :
     /\ Len(s.buf) <= len
     /\ \A k \in 1..Len(s.buf) : s.buf[k] = FileByte(i, offset + k - 1)
     /\ Len(s.buf) < len =>
          BlockSize * s.dataBlockIndex + s.dataBlockOffset = offset + Len(s.buf)}

(* An iteration keeps it, and copies at least one byte.                    *)
LEMMA CopyBlockKeeps ==
  ASSUME NEW i \in DOMAIN inodes, NEW offset \in Nat, NEW len \in Nat,
         offset + len <= inodes[i].length,
         NEW s \in CopyStates(i, offset, len), Len(s.buf) < len
  PROVE  /\ CopyBlock(i, len, s) \in CopyStates(i, offset, len)
         /\ Len(CopyBlock(i, len, s).buf) > Len(s.buf)
<1> DEFINE U == {FileByte(i, k) : k \in 0..(inodes[i].length - 1)}
           q == s.dataBlockIndex
           r == s.dataBlockOffset
           done == Len(s.buf)
           n == Least(BlockSize - r, len - done)
           start == BlockSize * q
           piece == [k \in 1..n |-> FileByte(i, offset + done + k - 1)]
           all == s.buf \o piece
           new == [dataBlockIndex |-> q + 1, dataBlockOffset |-> 0, buf |-> all]
<1>0. /\ q \in Nat /\ r \in 0..(BlockSize - 1) /\ s.buf \in Seq(U)
      /\ \A k \in 1..done : s.buf[k] = FileByte(i, offset + k - 1)
      /\ start + r = offset + done
  BY DEF CopyStates
<1>1. /\ r \in 0..(BlockSize - 1) /\ done \in Nat
      /\ start + r = offset + done /\ start \in Nat
      /\ inodes[i].length \in Nat
  BY <1>0, Blocks, ContentIs
<1>a. BlockSize * (q + 1) = start + BlockSize
  BY <1>0, Blocks
<1> HIDE DEF start, done, r
<1>2. n \in Nat /\ n > 0 /\ n <= len - done /\ n <= BlockSize - r
      /\ (n = len - done \/ n = BlockSize - r)
  <2>1. done < len
    BY DEF done
  <2> QED  BY <1>1, <2>1, Blocks DEF Least
<1> HIDE DEF n
<1>3. ASSUME NEW k \in 1..n
      PROVE  /\ blocks[inodes[i].dataBlocks[1 + q]][r + k - 1] = FileByte(i, offset + done + k - 1)
             /\ FileByte(i, offset + done + k - 1) \in U
  <2>1. r + k - 1 \in 0..(BlockSize - 1)
    BY <1>1, <1>2, Blocks
  <2>2. offset + done + k - 1 = BlockSize * q + (r + k - 1)
    <3>1. offset + done + k - 1 = start + (r + k - 1)
      BY <1>1, <1>2, Blocks
    <3> QED  BY <3>1 DEF start
  <2>3. offset + done + k - 1 \in 0..(inodes[i].length - 1)
    BY <1>1, <1>2
  <2>4. PICK p : p = offset + done + k - 1
    OBVIOUS
  <2>5. p \div BlockSize = q /\ p % BlockSize = r + k - 1
    BY <1>0, <2>1, <2>2, <2>4, DivMod
  <2>6. FileByte(i, p) = blocks[inodes[i].dataBlocks[1 + q]][r + k - 1]
    BY <2>5 DEF FileByte
  <2> QED  BY <2>3, <2>4, <2>6
<1>4. CopyBlock(i, len, s) = new
  BY <1>3 DEF CopyBlock, OffsetAfterBlock, BlockSize, n, r, done
<1>5. piece \in Seq(U) /\ Len(piece) = n
  BY <1>2, <1>3
<1>6. /\ all \in Seq(U) /\ Len(all) = done + n
      /\ \A k \in 1..done : all[k] = s.buf[k]
      /\ \A k \in (done + 1)..(done + n) : all[k] = piece[k - done]
  <2> HIDE DEF piece, U
  <2>1. s.buf \in Seq(U) /\ piece \in Seq(U)
    BY <1>0, <1>5
  <2>2. /\ all \in Seq(U) /\ Len(all) = Len(s.buf) + Len(piece)
        /\ \A k \in 1..Len(s.buf) : all[k] = s.buf[k]
        /\ \A k \in (Len(s.buf) + 1)..(Len(s.buf) + Len(piece)) : all[k] = piece[k - Len(s.buf)]
    BY <2>1, Joined
  <2> HIDE DEF all
  <2> QED  BY <1>5, <2>2 DEF done
<1>7. \A k \in 1..Len(all) : all[k] = FileByte(i, offset + k - 1)
  <2> SUFFICES ASSUME NEW k \in 1..(done + n) PROVE all[k] = FileByte(i, offset + k - 1)
    BY <1>6
  <2>1. CASE k \in 1..done
    BY <1>0, <1>6, <2>1
  <2>2. CASE k \in (done + 1)..(done + n)
    <3>1. PICK j \in 1..n : j = k - done
      BY <1>1, <1>2, <2>2
    <3>2. offset + done + j - 1 = offset + k - 1
      BY <1>1, <1>2, <2>2, <3>1
    <3>3. piece[j] = FileByte(i, offset + done + j - 1)
      OBVIOUS
    <3> HIDE DEF piece, all
    <3>4. all[k] = piece[j]
      BY <1>6, <2>2, <3>1
    <3> QED  BY <3>2, <3>3, <3>4
  <2>3. k \in 1..done \/ k \in (done + 1)..(done + n)
    BY <1>1, <1>2
  <2> QED  BY <2>1, <2>2, <2>3
<1>8. Len(all) < len => BlockSize * (q + 1) = offset + Len(all)
  <2>1. PICK e : e = BlockSize * (q + 1) /\ e = start + BlockSize
    BY <1>a
  <2> HIDE DEF all, q
  <2>2. Len(all) = done + n
    BY <1>6
  <2>3. Len(all) < len => e = offset + Len(all)
    BY <1>1, <1>2, <2>1, <2>2, Blocks
  <2> QED  BY <2>1, <2>3
<1>9. Len(all) <= len
  BY <1>1, <1>2, <1>6
<1> HIDE DEF all
<1>10. new \in [dataBlockIndex: Nat, dataBlockOffset: 0..(BlockSize - 1), buf: Seq(U)]
  BY <1>0, <1>6, Blocks
<1>11. new \in CopyStates(i, offset, len)
  BY <1>7, <1>8, <1>9, <1>10 DEF CopyStates
<1> QED  BY <1>1, <1>2, <1>4, <1>6, <1>11 DEF done


(* For every offset and length inside the file, over any number of blocks  *)
(* and wherever in a block they begin and end: the loop of read_data       *)
(* copies the bytes at offset and after it, all of them and in order.      *)
LEMMA CopyLoopIs ==
  ASSUME NEW i \in DOMAIN inodes, NEW offset \in Nat, NEW len \in Nat,
         offset + len <= inodes[i].length
  PROVE  CopyLoop(i, offset, len) = [k \in 1..len |-> FileByte(i, offset + k - 1)]
<1> DEFINE X == CopyStates(i, offset, len)
           first == [dataBlockIndex  |-> offset \div FILESYSTEM_BLOCKSIZE,
                     dataBlockOffset |-> offset % FILESYSTEM_BLOCKSIZE,
                     buf             |-> <<>>]
           Step(s) == IF Len(s.buf) < len THEN CopyBlock(i, len, s) ELSE s
           Runs(f) == f = [n \in Nat |-> IF n = 0 THEN first ELSE Step(f[n - 1])]
           after == CHOOSE f : Runs(f)
<1>1. CopyLoop(i, offset, len) = after[len].buf
  BY Zenon DEF CopyLoop
<1>2. first \in X
  <2>1. PICK q, r : q = offset \div BlockSize /\ r = offset % BlockSize
    OBVIOUS
  <2>2. q \in Nat /\ r \in 0..(BlockSize - 1) /\ offset = BlockSize * q + r
    BY <2>1, DivModOf
  <2>3. first = [dataBlockIndex |-> q, dataBlockOffset |-> r, buf |-> <<>>]
    BY <2>1 DEF BlockSize
  <2> QED  BY <2>2, <2>3 DEF CopyStates
<1> HIDE DEF first
<1>3. ASSUME NEW s \in X PROVE Step(s) \in X
  BY CopyBlockKeeps
<1>4. \E f : Runs(f)
  <2> DEFINE F == [s \in X |-> Step(s)]
  <2>1. F \in [X -> X]
    BY <1>3
  <2>2. PICK f \in [Nat -> X] : f[0] = first /\ \A n \in Nat : f[n + 1] = F[f[n]]
    <3> HIDE DEF F, X, Step, Runs, after
    <3>1. \E f : Iterates(f, X, first, F)
      BY <1>2, <2>1, Iterate, Zenon
    <3> QED  BY <3>1 DEF Iterates
  <2>3. ASSUME NEW n \in Nat, n # 0 PROVE f[n] = Step(f[n - 1])
    <3>1. n - 1 \in Nat /\ (n - 1) + 1 = n
      BY <2>3
    <3>2. f[n] = F[f[n - 1]] /\ f[n - 1] \in X
      <4> HIDE DEF F, X
      <4> QED  BY <2>2, <3>1
    <3> HIDE DEF Step, X
    <3> QED  BY <3>2
  <2> HIDE DEF Step
  <2>4. Runs(f)
    BY <2>2, <2>3
  <2> QED  BY <2>4
<1>5. Runs(after)
  <2> HIDE DEF Runs
  <2> QED  BY <1>4
<1> DEFINE Far(n) == after[n] \in X /\ (Len(after[n].buf) >= n \/ Len(after[n].buf) = len)
           N == {n \in Nat : Far(n)}
<1>6. after[0] = first /\ \A n \in Nat : after[n + 1] = Step(after[n])
  <2> HIDE DEF after, Step
  <2>1. \A n \in Nat : n + 1 \in Nat /\ n + 1 # 0 /\ (n + 1) - 1 = n
    OBVIOUS
  <2> QED  BY <1>5, <2>1
<1> HIDE DEF after
<1>7. 0 \in N
  <2>1. Len(first.buf) \in Nat
    BY <1>2 DEF CopyStates
  <2> HIDE DEF X, Step
  <2>2. Far(0)
    BY <1>2, <1>6, <2>1
  <2> QED  BY <2>2
<1>8. ASSUME NEW n \in Nat, n \in N PROVE n + 1 \in N
  <2>1. PICK s \in X : s = after[n]
    BY <1>8
  <2>2. Len(s.buf) \in Nat /\ Len(s.buf) <= len
    BY DEF CopyStates
  <2>3. Step(s) \in X /\ Len(Step(s).buf) \in Nat /\ Len(Step(s).buf) <= len
    BY <1>3 DEF CopyStates
  <2>4. Len(s.buf) < len => Len(Step(s).buf) > Len(s.buf)
    BY CopyBlockKeeps
  <2>5. ~(Len(s.buf) < len) => Len(Step(s).buf) = len
    BY <2>2
  <2>6. after[n + 1] = Step(s)
    BY <1>6, <2>1
  <2> HIDE DEF Step, X
  <2>7. Len(s.buf) >= n \/ Len(s.buf) = len
    BY <1>8, <2>1
  <2>8. Far(n + 1)
    BY <2>2, <2>3, <2>4, <2>5, <2>6, <2>7
  <2> QED  BY <2>8
<1> HIDE DEF N
<1>9. Far(len)
  BY <1>7, <1>8, Counting DEF N
<1>10. PICK b : b = after[len].buf
  OBVIOUS
<1>11. /\ b \in Seq({FileByte(i, k) : k \in 0..(inodes[i].length - 1)}) /\ Len(b) = len
       /\ \A k \in 1..len : b[k] = FileByte(i, offset + k - 1)
  <2>1. PICK s \in X : s = after[len]
    BY <1>9
  <2>2. /\ s.buf \in Seq({FileByte(i, k) : k \in 0..(inodes[i].length - 1)})
        /\ Len(s.buf) \in Nat /\ Len(s.buf) <= len
        /\ \A k \in 1..Len(s.buf) : s.buf[k] = FileByte(i, offset + k - 1)
    BY DEF CopyStates
  <2> HIDE DEF X, Step, Runs
  <2>3. Len(s.buf) = len
    BY <1>9, <2>1, <2>2
  <2> QED  BY <1>10, <2>1, <2>2, <2>3
<1> QED  BY <1>1, <1>10, <1>11


----------------------------------------------------------------------------
(* What is left of a sequence.                                             *)

LEMMA SameSeq ==
  ASSUME NEW U, NEW s \in Seq(U), NEW t \in Seq(U), Len(s) = Len(t),
         \A j \in 1..Len(s) : s[j] = t[j]
  PROVE  s = t
OBVIOUS

LEMMA Cut ==
  ASSUME NEW U, NEW s \in Seq(U), NEW a \in 0..Len(s), NEW b \in a..Len(s)
  PROVE  /\ SubSeq(s, a + 1, b) \in Seq(U) /\ Len(SubSeq(s, a + 1, b)) = b - a
         /\ \A j \in 1..(b - a) : SubSeq(s, a + 1, b)[j] = s[a + j]
OBVIOUS

LEMMA Rest ==
  ASSUME NEW U, NEW s \in Seq(U), NEW k \in 0..Len(s)
  PROVE  /\ From(s, k) \in Seq(U) /\ Len(From(s, k)) = Len(s) - k
         /\ \A j \in 1..(Len(s) - k) : From(s, k)[j] = s[k + j]
BY DEF From

LEMMA RestWhole == ASSUME NEW U, NEW s \in Seq(U) PROVE From(s, 0) = s
BY DEF From

LEMMA RestRead ==
  ASSUME NEW U, NEW s \in Seq(U), NEW k \in 0..Len(s), NEW m \in 0..(Len(s) - k)
  PROVE  /\ SubSeq(From(s, k), 1, m) = [j \in 1..m |-> s[k + j]]
         /\ SubSeq(From(s, k), m + 1, Len(From(s, k))) = From(s, k + m)
<1> DEFINE t == From(s, k)
           u == From(s, k + m)
           v == SubSeq(t, m + 1, Len(t))
           w == SubSeq(t, 0 + 1, m)
<1>0. Len(s) \in Nat /\ k + m \in 0..Len(s)
  OBVIOUS
<1>1. t \in Seq(U) /\ Len(t) = Len(s) - k /\ \A j \in 1..(Len(s) - k) : t[j] = s[k + j]
  BY Rest
<1>2. /\ u \in Seq(U) /\ Len(u) = Len(s) - (k + m)
      /\ \A j \in 1..(Len(s) - (k + m)) : u[j] = s[(k + m) + j]
  BY <1>0, Rest
<1> HIDE DEF t, u
<1>3. /\ m \in 0..Len(t) /\ Len(t) \in m..Len(t) /\ Len(t) \in Nat
      /\ Len(t) - m \in Nat /\ Len(t) - m = Len(s) - (k + m) /\ 0 \in 0..Len(t)
  BY <1>0, <1>1
<1>4. v \in Seq(U) /\ Len(v) = Len(t) - m /\ \A j \in 1..(Len(t) - m) : v[j] = t[m + j]
  BY <1>1, <1>3, Cut
<1>5. w \in Seq(U) /\ Len(w) = m - 0 /\ \A j \in 1..(m - 0) : w[j] = t[0 + j]
  BY <1>1, <1>3, Cut
<1> HIDE DEF v, w
<1>6. v = u
  <2>1. Len(v) = Len(u)
    BY <1>2, <1>3, <1>4
  <2>2. ASSUME NEW j \in 1..Len(v) PROVE v[j] = u[j]
    <3>1. /\ j \in 1..(Len(s) - (k + m)) /\ j \in 1..(Len(t) - m)
          /\ m + j \in 1..(Len(s) - k) /\ k + (m + j) = (k + m) + j
      BY <1>0, <1>1, <1>3, <1>4
    <3>2. v[j] = t[m + j] /\ t[m + j] = s[k + (m + j)] /\ u[j] = s[(k + m) + j]
      BY <1>1, <1>2, <1>4, <3>1
    <3> QED  BY <3>1, <3>2
  <2> QED  BY <1>2, <1>4, <2>1, <2>2, SameSeq
<1>7. w = [j \in 1..m |-> s[k + j]]
  <2>1. Len(w) = m /\ m - 0 = m
    BY <1>5
  <2>2. ASSUME NEW j \in 1..m PROVE w[j] = s[k + j]
    <3>1. j \in 1..(m - 0) /\ 0 + j = j /\ j \in 1..(Len(s) - k)
      BY <1>0
    <3> QED  BY <1>1, <1>5, <3>1
  <2> QED  BY <1>5, <2>1, <2>2
<1>8. 0 + 1 = 1
  OBVIOUS
<1> QED  BY <1>6, <1>7, <1>8 DEF t, u, v, w

LEMMA RestNext ==
  ASSUME NEW U, NEW s \in Seq(U), NEW k \in 0..(Len(s) - 1)
  PROVE  /\ From(s, k) # <<>> /\ Head(From(s, k)) = s[k + 1]
         /\ Tail(From(s, k)) = From(s, k + 1)
<1>0. Len(s) \in Nat /\ k \in 0..Len(s) /\ 1 \in 0..(Len(s) - k)
  OBVIOUS
<1>1. PICK t \in Seq(U) : /\ t = From(s, k) /\ Len(t) = Len(s) - k
                          /\ \A j \in 1..(Len(s) - k) : t[j] = s[k + j]
  BY <1>0, Rest
<1>2. t # <<>> /\ t[1] = s[k + 1]
  <2>1. Len(t) # 0 /\ 1 \in 1..(Len(s) - k)
    BY <1>0, <1>1
  <2> QED  BY <1>1, <2>1
<1>3. Head(t) = t[1] /\ Tail(t) = SubSeq(t, 1 + 1, Len(t))
  BY <1>2
<1>4. SubSeq(t, 1 + 1, Len(t)) = From(s, k + 1)
  BY <1>0, <1>1, RestRead
<1> QED  BY <1>1, <1>2, <1>3, <1>4

LEMMA RestNone == ASSUME NEW U, NEW s \in Seq(U) PROVE From(s, Len(s)) = <<>>
BY DEF From

(* The contents and the directory are sequences.                           *)
Bytes(i) == {FileByte(i, k) : k \in 0..(inodes[i].length - 1)}

LEMMA ContentSeq ==
  ASSUME NEW i \in DOMAIN inodes
  PROVE  FileContent(i) \in Seq(Bytes(i)) /\ Len(FileContent(i)) = inodes[i].length
BY ContentIs DEF Bytes

LEMMA NamesSeq ==
  /\ AllNames \in Seq(Range(AllNames)) /\ Len(AllNames) = Len(fileDirectory)
  /\ \A k \in 1..Len(fileDirectory) : AllNames[k] = fileDirectory[k].fileName
BY ImageAssumption DEF AllNames, Range

(* read_data gives what is left of the file, as much as was asked for.     *)
LEMMA ReadDataIs ==
  ASSUME NEW i \in DOMAIN inodes, NEW offset \in 0..inodes[i].length, NEW n \in Nat
  PROVE  LET m == Least(n, inodes[i].length - offset) IN
           /\ m \in 0..(inodes[i].length - offset)
           /\ read_data(i, offset, n).ret = m
           /\ read_data(i, offset, n).buf = SubSeq(From(FileContent(i), offset), 1, m)
<1> DEFINE m == Least(n, inodes[i].length - offset)
<1>0. inodes[i].length \in Nat
  BY ContentIs
<1>1. m \in 0..(inodes[i].length - offset)
  BY <1>0 DEF Least
<1>2. SubSeq(From(FileContent(i), offset), 1, m) = [j \in 1..m |-> FileByte(i, offset + j - 1)]
  <2> HIDE DEF m
  <2>1. SubSeq(From(FileContent(i), offset), 1, m) = [j \in 1..m |-> FileContent(i)[offset + j]]
    <3> DEFINE c == FileContent(i)
    <3>1. c \in Seq(Bytes(i)) /\ offset \in 0..Len(c) /\ m \in 0..(Len(c) - offset)
      BY <1>1, ContentSeq
    <3> HIDE DEF c
    <3>2. SubSeq(From(c, offset), 1, m) = [j \in 1..m |-> c[offset + j]]
      BY <3>1, RestRead
    <3> QED  BY <3>2 DEF c
  <2>2. ASSUME NEW j \in 1..m PROVE FileContent(i)[offset + j] = FileByte(i, offset + j - 1)
    <3>1. offset + j \in 1..inodes[i].length
      BY <1>0, <1>1
    <3> QED  BY <3>1, ContentIs
  <2> QED  BY <2>1, <2>2
<1>3. CASE offset = inodes[i].length
  <2>1. m = 0
    BY <1>0, <1>3 DEF Least
  <2>2. read_data(i, offset, n) = Copied(<<>>)
    BY <1>3 DEF read_data
  <2> HIDE DEF m
  <2>3. [j \in 1..m |-> FileByte(i, offset + j - 1)] = <<>>
    BY <2>1
  <2> QED  BY <1>1, <1>2, <2>1, <2>2, <2>3 DEF Copied, m
<1>4. CASE offset # inodes[i].length
  <2>1. read_data(i, offset, n) = Copied(CopyLoop(i, offset, m))
    BY <1>0, <1>4 DEF read_data
  <2> HIDE DEF m
  <2>2. CopyLoop(i, offset, m) = [j \in 1..m |-> FileByte(i, offset + j - 1)]
    <3>1. offset \in Nat /\ m \in Nat /\ offset + m <= inodes[i].length
      BY <1>0, <1>1
    <3> QED  BY <3>1, CopyLoopIs
  <2>3. Len([j \in 1..m |-> FileByte(i, offset + j - 1)]) = m
    BY <1>1
  <2> QED  BY <1>1, <1>2, <2>1, <2>2, <2>3 DEF Copied, m
<1> QED  BY <1>3, <1>4


----------------------------------------------------------------------------
(* The tables of descriptors.                                              *)

FdtEntries == [inodeNum: DOMAIN inodes \cup {0}, file_position: Int, flags: 0..5]

(* An open file is positioned within its content, the directory within its *)
(* names, and neither is ever stdin or stdout.                             *)
Positioned(fd, e) ==
  /\ e.flags = REGFILE_FLAG =>
       e.inodeNum \in DOMAIN inodes /\ e.file_position \in 0..inodes[e.inodeNum].length
  /\ e.flags = DIRECTORY_FLAG => e.file_position \in 0..Len(fileDirectory)
  /\ e.flags \in {REGFILE_FLAG, DIRECTORY_FLAG} => fd \in OpenFds

(* The inductive invariant of the refinement.                              *)
FilesInv ==
  /\ cur_pid \in Processes
  /\ process_fdt \in [Processes -> [Entries -> FdtEntries]]
  /\ \A p \in Processes, fd \in Entries : Positioned(fd, process_fdt[p][fd])

LEMMA Bounds ==
  /\ Processes \subseteq Nat /\ 0 \in Processes /\ Entries \subseteq Nat
  /\ 0 \in Entries /\ 1 \in Entries /\ OpenFds \subseteq Entries
  /\ Len(fileDirectory) \in Nat
  /\ \A p \in Processes : 0..p \subseteq Processes
BY SizesAssumption, ImageAssumption DEF Processes, Entries, OpenFds

(* Assignments to the fields of an entry.                                  *)
LEMMA EntryTo ==
  ASSUME NEW e \in FdtEntries, NEW x \in Int
  PROVE  /\ [e EXCEPT !.file_position = x] \in FdtEntries
         /\ [e EXCEPT !.file_position = x].file_position = x
         /\ [e EXCEPT !.file_position = x].inodeNum = e.inodeNum
         /\ [e EXCEPT !.file_position = x].flags = e.flags
<1> DEFINE I == DOMAIN inodes \cup {0}
<1> HIDE DEF I
<1>1. FdtEntries = [inodeNum: I, file_position: Int, flags: 0..5]
  BY DEF FdtEntries, I
<1> QED  BY <1>1

LEMMA EntryFlagged ==
  ASSUME NEW e \in FdtEntries, NEW f \in 0..5
  PROVE  [e EXCEPT !.flags = f] \in FdtEntries /\ [e EXCEPT !.flags = f].flags = f
<1> DEFINE I == DOMAIN inodes \cup {0}
<1> HIDE DEF I
<1>1. FdtEntries = [inodeNum: I, file_position: Int, flags: 0..5]
  BY DEF FdtEntries, I
<1> QED  BY <1>1

LEMMA EntryAt ==
  ASSUME NEW e \in FdtEntries, NEW f \in 0..5, NEW x \in Int
  PROVE  /\ [e EXCEPT !.flags = f, !.file_position = x] \in FdtEntries
         /\ [e EXCEPT !.flags = f, !.file_position = x].flags = f
<1>1. PICK w : w = [e EXCEPT !.flags = f]
  OBVIOUS
<1>2. w \in FdtEntries /\ w.flags = f
  BY <1>1, EntryFlagged
<1>3. [w EXCEPT !.file_position = x] \in FdtEntries /\ [w EXCEPT !.file_position = x].flags = f
  BY <1>2, EntryTo
<1>4. [e EXCEPT !.flags = f, !.file_position = x] = [[e EXCEPT !.flags = f] EXCEPT !.file_position = x]
  OBVIOUS
<1> QED  BY <1>1, <1>3, <1>4

(* What an entry stands for.                                               *)
LEMMA StreamKinds ==
  ASSUME NEW e
  PROVE  /\ e.flags = UNUSED_FLAG => StreamOf(e) = [kind |-> "closed"]
         /\ e.flags = REGFILE_FLAG =>
              StreamOf(e) = [kind |-> "file", rest |-> From(FileContent(e.inodeNum), e.file_position)]
         /\ e.flags = DIRECTORY_FLAG =>
              StreamOf(e) = [kind |-> "dir", rest |-> From(AllNames, e.file_position)]
         /\ e.flags \notin {UNUSED_FLAG, REGFILE_FLAG, DIRECTORY_FLAG} =>
              StreamOf(e) = [kind |-> "device"]
BY DEF StreamOf, UNUSED_FLAG, REGFILE_FLAG, DIRECTORY_FLAG

LEMMA FreshKeeps ==
  /\ FreshTable \in [Entries -> FdtEntries]
  /\ \A fd \in Entries : Positioned(fd, FreshTable[fd])
  /\ \A fd \in OpenFds : StreamOf(FreshTable[fd]) = [kind |-> "closed"]
<1>1. ASSUME NEW fd \in Entries
      PROVE  /\ FreshTable[fd] \in FdtEntries /\ FreshTable[fd].flags \in {0, 1, 2}
             /\ fd \in OpenFds => FreshTable[fd].flags = 0
  <2> DEFINE in == [Unused EXCEPT !.flags = STDIN_FLAG, !.file_position = 0]
             out == [Unused EXCEPT !.flags = STDOUT_FLAG, !.file_position = 0]
  <2>0. 0 \in Int
    OBVIOUS
  <2>1. Unused \in FdtEntries /\ Unused.flags = 0
    BY DEF Unused, UNUSED_FLAG, FdtEntries
  <2>a. in \in FdtEntries /\ in.flags = 1
    <3>1. PICK u \in FdtEntries, f \in 0..5 : u = Unused /\ f = STDIN_FLAG /\ f = 1
      BY <2>1 DEF STDIN_FLAG
    <3>2. /\ [u EXCEPT !.flags = f, !.file_position = 0] \in FdtEntries
          /\ [u EXCEPT !.flags = f, !.file_position = 0].flags = f
      BY <2>0, EntryAt, Zenon
    <3> QED  BY <3>1, <3>2, Zenon
  <2>b. out \in FdtEntries /\ out.flags = 2
    <3>1. PICK u \in FdtEntries, f \in 0..5 : u = Unused /\ f = STDOUT_FLAG /\ f = 2
      BY <2>1 DEF STDOUT_FLAG
    <3>2. /\ [u EXCEPT !.flags = f, !.file_position = 0] \in FdtEntries
          /\ [u EXCEPT !.flags = f, !.file_position = 0].flags = f
      BY <2>0, EntryAt, Zenon
    <3> QED  BY <3>1, <3>2, Zenon
  <2>c. FreshTable[fd] = IF fd = 0 THEN in ELSE IF fd = 1 THEN out ELSE Unused
    BY DEF FreshTable
  <2>2. fd \in OpenFds => fd # 0 /\ fd # 1
    BY Bounds DEF OpenFds, NOT_IN_OUT
  <2> HIDE DEF FreshTable, in, out
  <2> QED  BY <2>1, <2>a, <2>b, <2>c, <2>2
<1>2. FreshTable \in [Entries -> FdtEntries]
  <2>1. FreshTable = [fd \in Entries |-> FreshTable[fd]]
    BY DEF FreshTable
  <2> QED  BY <1>1, <2>1
<1>3. ASSUME NEW fd \in Entries PROVE Positioned(fd, FreshTable[fd])
  BY <1>1 DEF Positioned, REGFILE_FLAG, DIRECTORY_FLAG
<1>4. ASSUME NEW fd \in OpenFds PROVE StreamOf(FreshTable[fd]) = [kind |-> "closed"]
  <2>1. PICK e : e = FreshTable[fd] /\ e.flags = 0
    BY <1>1, Bounds
  <2>2. StreamOf(e) = [kind |-> "closed"]
    BY <2>1 DEF StreamOf, UNUSED_FLAG, REGFILE_FLAG, DIRECTORY_FLAG
  <2> QED  BY <2>1, <2>2
<1> QED  BY <1>2, <1>3, <1>4

LEMMA SameTables ==
  ASSUME FilesInv, cur_pid' = cur_pid, process_fdt' = process_fdt
  PROVE  FilesInv' /\ streamsBar' = streamsBar
BY DEF FilesInv, streamsBar

(* A change of one entry changes one stream.                               *)
LEMMA PutKeeps ==
  ASSUME FilesInv, NEW fd \in Entries, NEW e \in FdtEntries, Positioned(fd, e),
         Put(fd, e), cur_pid' = cur_pid
  PROVE  /\ FilesInv'
         /\ fd \in OpenFds => streamsBar' = [streamsBar EXCEPT ![cur_pid][fd] = StreamOf(e)]
<1>1. /\ process_fdt' \in [Processes -> [Entries -> FdtEntries]]
      /\ \A p \in Processes, g \in Entries :
           process_fdt'[p][g] = IF p = cur_pid /\ g = fd THEN e ELSE process_fdt[p][g]
  BY DEF FilesInv, Put
<1>2. FilesInv'
  <2>1. ASSUME NEW p \in Processes, NEW g \in Entries PROVE Positioned(g, process_fdt'[p][g])
    <3>1. CASE p = cur_pid /\ g = fd
      BY <1>1, <3>1
    <3>2. CASE ~(p = cur_pid /\ g = fd)
      <4>1. process_fdt'[p][g] = process_fdt[p][g] /\ Positioned(g, process_fdt[p][g])
        BY <1>1, <3>2 DEF FilesInv
      <4> QED  BY <4>1
    <3> QED  BY <3>1, <3>2
  <2>2. cur_pid' \in Processes
    BY DEF FilesInv
  <2> QED  BY <1>1, <2>1, <2>2, Zenon DEF FilesInv
<1>3. ASSUME fd \in OpenFds
      PROVE  streamsBar' = [streamsBar EXCEPT ![cur_pid][fd] = StreamOf(e)]
  <2> DEFINE T(p, g) == IF p > cur_pid THEN [kind |-> "closed"] ELSE StreamOf(process_fdt[p][g])
             T2(p, g) == IF p > cur_pid THEN [kind |-> "closed"] ELSE StreamOf(process_fdt'[p][g])
  <2>1. streamsBar = [p \in Processes |-> [g \in OpenFds |-> T(p, g)]]
    BY Zenon DEF streamsBar
  <2>2. streamsBar' = [p \in Processes |-> [g \in OpenFds |-> T2(p, g)]]
    BY DEF streamsBar
  <2>3. ASSUME NEW p \in Processes, NEW g \in OpenFds
        PROVE  T2(p, g) = IF p = cur_pid /\ g = fd THEN StreamOf(e) ELSE T(p, g)
    <3>1. ~(cur_pid > cur_pid) /\ g \in Entries
      BY Bounds DEF FilesInv
    <3> QED  BY <1>1, <3>1
  <2>4. cur_pid \in Processes
    BY DEF FilesInv
  <2> HIDE DEF T, T2
  <2> QED  BY <1>3, <2>1, <2>2, <2>3, <2>4
<1> QED  BY <1>2, <1>3

(* The stream of an entry of the process that runs.                        *)
LEMMA StreamHere ==
  ASSUME FilesInv, NEW fd \in OpenFds
  PROVE  streamsBar[cur_pid][fd] = StreamOf(fdt[fd])
BY Bounds DEF FilesInv, streamsBar, fdt


----------------------------------------------------------------------------
(* The calls, one lemma each.                                              *)

(* A set of positive numbers has a least one, so the first match is found. *)
LEMMA DentryFound ==
  ASSUME NEW fname, read_dentry_by_name(fname) # ERROR_VAL
  PROVE  LET d == read_dentry_by_name(fname) IN
         d \in 1..Len(fileDirectory) /\ SameName(fname, fileDirectory[d].fileName)
<1> DEFINE matches == {i \in 1..Len(fileDirectory) : SameName(fname, fileDirectory[i].fileName)}
           First(i) == i \in matches /\ \A j \in matches : i <= j
<1>1. matches # {}
  BY DEF read_dentry_by_name
<1>2. matches \subseteq Nat /\ matches \subseteq 1..Len(fileDirectory)
  BY Bounds
<1> HIDE DEF matches
<1>3. PICK x \in matches : \A y \in matches : <<y, x>> \notin OpToRel(<, Nat)
  BY <1>1, <1>2, NatLessThanWellFounded, WFMin
<1>4. ASSUME NEW y \in matches PROVE x <= y
  <2>1. x \in Nat /\ y \in Nat
    BY <1>2
  <2>2. <<y, x>> \notin OpToRel(<, Nat)
    BY <1>3
  <2>3. ~(y < x)
    BY <2>1, <2>2 DEF OpToRel
  <2> QED  BY <2>1, <2>3
<1>5. (CHOOSE i \in matches : \A j \in matches : i <= j) \in matches
  BY <1>4
<1>6. read_dentry_by_name(fname) = CHOOSE i \in matches : \A j \in matches : i <= j
  BY <1>1, Zenon DEF read_dentry_by_name, matches
<1> QED  BY <1>5, <1>6 DEF matches

LEMMA NothingStep ==
  ASSUME FilesInv, cur_pid' = cur_pid, process_fdt' = process_fdt, buf' = <<>>
  PROVE  FilesInv' /\ S!StreamNothing
BY SameTables DEF S!StreamNothing

LEMMA FailStep == ASSUME FilesInv, Fail PROVE FilesInv' /\ S!StreamNothing
BY NothingStep DEF Fail, Return

(* sys_open of a file.                                                     *)
LEMMA OpenStep ==
  ASSUME FilesInv, NEW f, OpenFile(f)
  PROVE  FilesInv' /\ (S!StreamNothing \/ \E fd \in OpenFds : S!StreamOpen(fd))
<1> DEFINE d == read_dentry_by_name(f)
           type == fileDirectory[d].fileType
<1>1. d \in 1..Len(fileDirectory)
  BY DentryFound DEF OpenFile
<1> HIDE DEF d
<1> DEFINE e == [inodeNum |-> IF type = REGULAR_FILE_FILETYPE
                              THEN fileDirectory[d].inodeNum ELSE 0,
                 file_position |-> 0,
                 flags |-> FlagOf(type)]
<1>2. PICK fd \in Free : Put(fd, e) /\ buf' = <<>> /\ cur_pid' = cur_pid
  BY DEF OpenFile, Return, d
<1>3. fd \in OpenFds /\ fd \in Entries /\ fdt[fd].flags = UNUSED_FLAG
  BY <1>2 DEF Free, OpenFds
<1>4. FlagOf(type) \in 0..5 /\ FlagOf(type) \notin {STDIN_FLAG, STDOUT_FLAG}
  <2> HIDE DEF type
  <2> QED  BY DEF FlagOf, UNUSED_FLAG, STDIN_FLAG, STDOUT_FLAG, RTC_FLAG, DIRECTORY_FLAG,
         REGFILE_FLAG, RTC_DEVICE_FILETYPE, DIRECTORY_FILETYPE, REGULAR_FILE_FILETYPE
<1>5. FlagOf(type) = REGFILE_FLAG <=> type = 2
  <2> HIDE DEF type
  <2> QED  BY DEF FlagOf, UNUSED_FLAG, RTC_FLAG, DIRECTORY_FLAG,
         REGFILE_FLAG, RTC_DEVICE_FILETYPE, DIRECTORY_FILETYPE, REGULAR_FILE_FILETYPE
<1>6. type = 2 => e.inodeNum = fileDirectory[d].inodeNum /\ e.inodeNum \in DOMAIN inodes
  BY <1>1, ImageAssumption DEF REGULAR_FILE_FILETYPE
<1>7. e.flags = FlagOf(type) /\ e.file_position = 0 /\ e \in FdtEntries
  <2>1. type # 2 => e.inodeNum = 0
    BY DEF REGULAR_FILE_FILETYPE
  <2>2. e.inodeNum \in DOMAIN inodes \cup {0}
    BY <1>6, <2>1
  <2> QED  BY <1>4, <2>2 DEF FdtEntries
<1>8. PICK x : x = e
  OBVIOUS
<1>9. /\ x \in FdtEntries /\ x.file_position = 0 /\ x.flags = FlagOf(type) /\ Put(fd, x)
      /\ x.flags = REGFILE_FLAG => x.inodeNum \in DOMAIN inodes
  BY <1>2, <1>5, <1>6, <1>7, <1>8
<1> HIDE DEF e, type
<1>10. Positioned(fd, x)
  BY <1>3, <1>9, ContentIs, Bounds DEF Positioned
<1>11. FilesInv' /\ streamsBar' = [streamsBar EXCEPT ![cur_pid][fd] = StreamOf(x)]
  BY <1>2, <1>3, <1>9, <1>10, PutKeeps
<1>12. streamsBar[cur_pid][fd] = [kind |-> "closed"]
  BY <1>3, StreamHere, StreamKinds
<1>13. CASE x.flags = UNUSED_FLAG
  <2>1. StreamOf(x) = [kind |-> "closed"]
    BY <1>13, StreamKinds
  <2>2. streamsBar' = streamsBar
    <3>1. streamsBar = [streamsBar EXCEPT ![cur_pid][fd] = streamsBar[cur_pid][fd]]
      BY DEF streamsBar
    <3> QED  BY <1>11, <1>12, <2>1, <3>1
  <2> QED  BY <1>2, <1>11, <2>2 DEF S!StreamNothing
<1>14. CASE x.flags # UNUSED_FLAG
  <2> DEFINE C == [i \in DOMAIN inodes |-> FileContent(i)]
  <2>1. \/ \E i \in DOMAIN inodes : StreamOf(x) = [kind |-> "file", rest |-> C[i]]
        \/ StreamOf(x) = [kind |-> "dir", rest |-> AllNames]
        \/ StreamOf(x) = [kind |-> "device"]
    <3>1. CASE x.flags = REGFILE_FLAG
      <4>1. PICK i \in DOMAIN inodes : i = x.inodeNum
        BY <1>9, <3>1
      <4>2. StreamOf(x) = [kind |-> "file", rest |-> From(FileContent(i), 0)]
        BY <1>9, <3>1, <4>1, StreamKinds
      <4>3. From(FileContent(i), 0) = C[i]
        BY ContentSeq, RestWhole
      <4> QED  BY <4>2, <4>3
    <3>2. CASE x.flags = DIRECTORY_FLAG
      <4>1. StreamOf(x) = [kind |-> "dir", rest |-> From(AllNames, 0)]
        BY <1>9, <3>2, StreamKinds
      <4>2. From(AllNames, 0) = AllNames
        BY NamesSeq, RestWhole
      <4> QED  BY <4>1, <4>2
    <3>3. CASE x.flags # REGFILE_FLAG /\ x.flags # DIRECTORY_FLAG
      BY <1>14, <3>3, StreamKinds
    <3> QED  BY <3>1, <3>2, <3>3
  <2> HIDE DEF C
  <2>2. S!StreamOpen(fd)
    BY <1>2, <1>11, <1>12, <2>1 DEF S!StreamOpen, S!Set, S!Closed, S!FileStream, S!DirStream, S!Device, C
  <2> QED  BY <1>3, <1>11, <2>2
<1> QED  BY <1>13, <1>14


LEMMA CloseStep ==
  ASSUME FilesInv, NEW fd \in Int, sys_close(fd)
  PROVE  FilesInv' /\ (S!StreamNothing \/ (fd \in OpenFds /\ S!StreamClose(fd)))
<1>1. CASE Fail
  BY <1>1, FailStep
<1>2. CASE ~Fail
  <2> DEFINE e == [fdt[fd] EXCEPT !.flags = UNUSED_FLAG]
  <2>1. /\ ~CloseRefused(fd) /\ Entry(fd).flags # UNUSED_FLAG
        /\ Put(fd, e) /\ cur_pid' = cur_pid /\ buf' = <<>>
    BY <1>2 DEF sys_close, Return
  <2>2. fd \in Entries /\ fdt[fd].flags # UNUSED_FLAG
    BY <2>1 DEF Entry, Unused
  <2>3. fd \in OpenFds
    BY <2>1, <2>2 DEF OpenFds, CloseRefused, NOT_IN_OUT
  <2>4. fdt[fd] \in FdtEntries /\ UNUSED_FLAG \in 0..5
    BY <2>2 DEF FilesInv, fdt, UNUSED_FLAG
  <2>5. e \in FdtEntries /\ e.flags = UNUSED_FLAG
    BY <2>4, EntryFlagged, Zenon
  <2> HIDE DEF e
  <2>6. Positioned(fd, e)
    BY <2>5 DEF Positioned, UNUSED_FLAG, REGFILE_FLAG, DIRECTORY_FLAG
  <2>7. FilesInv' /\ streamsBar' = [streamsBar EXCEPT ![cur_pid][fd] = StreamOf(e)]
    BY <2>1, <2>2, <2>3, <2>5, <2>6, PutKeeps
  <2>8. StreamOf(e) = [kind |-> "closed"]
    BY <2>5, StreamKinds
  <2>9. streamsBar[cur_pid][fd] # [kind |-> "closed"]
    <3>1. PICK x : x = fdt[fd] /\ x \in FdtEntries /\ x.flags # UNUSED_FLAG
      BY <2>2, <2>4
    <3>2. \/ \E r : StreamOf(x) = [kind |-> "file", rest |-> r]
          \/ \E r : StreamOf(x) = [kind |-> "dir", rest |-> r]
          \/ StreamOf(x) = [kind |-> "device"]
      BY <3>1, StreamKinds
    <3>3. StreamOf(x).kind # "closed"
      BY <3>2
    <3>4. StreamOf(x) # [kind |-> "closed"]
      BY <3>3
    <3> QED  BY <2>3, <3>1, <3>4, StreamHere
  <2>10. S!StreamClose(fd)
    BY <2>1, <2>7, <2>8, <2>9 DEF S!StreamClose, S!Set, S!Closed
  <2> QED  BY <2>3, <2>7, <2>10
<1> QED  BY <1>1, <1>2

(* fileRead: the next bytes of the file.                                   *)
LEMMA FileReadStep ==
  ASSUME FilesInv, NEW fd \in Entries, NEW n \in Nat, fdt[fd].flags = REGFILE_FLAG,
         fileRead(fd, n)
  PROVE  FilesInv' /\ fd \in OpenFds /\ S!StreamRead(fd, n)
<1>1. PICK e, i, pos : /\ e = fdt[fd] /\ e \in FdtEntries /\ Positioned(fd, e)
                       /\ i = e.inodeNum /\ pos = e.file_position /\ e.flags = REGFILE_FLAG
  <2>1. fdt[fd] \in FdtEntries /\ Positioned(fd, fdt[fd])
    BY DEF FilesInv, fdt
  <2> QED  BY <2>1
<1>2. fd \in OpenFds /\ i \in DOMAIN inodes /\ pos \in 0..inodes[i].length
  BY <1>1 DEF Positioned
<1>3. inodes[i].length \in Nat /\ FileContent(i) \in Seq(Bytes(i))
      /\ Len(FileContent(i)) = inodes[i].length
  BY <1>2, ContentIs, ContentSeq
<1> DEFINE rest == From(FileContent(i), pos)
<1>4. PICK m \in 0..(inodes[i].length - pos) :
        /\ m = Least(n, inodes[i].length - pos)
        /\ read_data(i, pos, n).ret = m
        /\ read_data(i, pos, n).buf = SubSeq(rest, 1, m)
  BY <1>2, ReadDataIs
<1>a. PICK y : y = pos + m
  OBVIOUS
<1> DEFINE new == [e EXCEPT !.file_position = y]
<1>5. Put(fd, new) /\ buf' = SubSeq(rest, 1, m) /\ cur_pid' = cur_pid
  <2>1. m # ERROR_VAL
    BY <1>3, <1>4 DEF ERROR_VAL
  <2> HIDE DEF rest
  <2> QED  BY <1>1, <1>4, <1>a, <2>1 DEF fileRead, Return, PositionAfter
<1>6. y \in Int /\ y \in 0..inodes[i].length
  BY <1>2, <1>3, <1>4, <1>a
<1>7. /\ new \in FdtEntries /\ new.file_position = y
      /\ new.inodeNum = e.inodeNum /\ new.flags = e.flags
  BY <1>1, <1>6, EntryTo, Zenon
<1> HIDE DEF new
<1>8. Positioned(fd, new)
  <2>1. PICK x : x = new
    OBVIOUS
  <2>2. x.flags = REGFILE_FLAG /\ x.inodeNum = i /\ x.file_position \in 0..inodes[i].length
    BY <1>1, <1>6, <1>7, <2>1
  <2>3. Positioned(fd, x)
    BY <1>2, <2>2 DEF Positioned, REGFILE_FLAG, DIRECTORY_FLAG
  <2> QED  BY <2>1, <2>3
<1>9. FilesInv' /\ streamsBar' = [streamsBar EXCEPT ![cur_pid][fd] = StreamOf(new)]
  BY <1>2, <1>5, <1>7, <1>8, PutKeeps
<1>10. streamsBar[cur_pid][fd] = [kind |-> "file", rest |-> rest]
  BY <1>1, <1>2, StreamHere, StreamKinds
<1>11. StreamOf(new) = [kind |-> "file", rest |-> SubSeq(rest, m + 1, Len(rest))]
  <2>1. StreamOf(new) = [kind |-> "file", rest |-> From(FileContent(i), pos + m)]
    BY <1>1, <1>a, <1>7, StreamKinds
  <2> DEFINE c == FileContent(i)
  <2> HIDE DEF c
  <2>2. c \in Seq(Bytes(i)) /\ pos \in 0..Len(c) /\ m \in 0..(Len(c) - pos)
    BY <1>2, <1>3, <1>4 DEF c
  <2>3. SubSeq(From(c, pos), m + 1, Len(From(c, pos))) = From(c, pos + m)
    BY <2>2, RestRead
  <2> QED  BY <2>1, <2>3 DEF c
<1>12. m = IF n < Len(rest) THEN n ELSE Len(rest)
  <2> DEFINE c == FileContent(i)
  <2>a. c \in Seq(Bytes(i)) /\ Len(c) = inodes[i].length /\ pos \in 0..Len(c)
    BY <1>2, <1>3
  <2> HIDE DEF c
  <2>b. Len(From(c, pos)) = Len(c) - pos
    BY <2>a, Rest
  <2>1. Len(rest) = inodes[i].length - pos
    BY <2>a, <2>b DEF c
  <2> HIDE DEF rest
  <2> QED  BY <1>4, <2>1 DEF Least
<1> HIDE DEF rest
<1>13. S!StreamRead(fd, n)
  <2>1. PICK s : s = streamsBar[cur_pid][fd] /\ s.kind = "file" /\ s.rest = rest
    BY <1>10
  <2> QED  BY <1>5, <1>9, <1>11, <1>12, <2>1, Zenon DEF S!StreamRead, S!Set, S!FileStream
<1> QED  BY <1>2, <1>9, <1>13

(* directoryRead: the next name.                                           *)
LEMMA DirectoryReadStep ==
  ASSUME FilesInv, NEW fd \in Entries, NEW n, fdt[fd].flags = DIRECTORY_FLAG,
         directoryRead(fd, n)
  PROVE  FilesInv' /\ fd \in OpenFds /\ S!StreamList(fd)
<1>1. PICK e, pos : /\ e = fdt[fd] /\ e \in FdtEntries /\ Positioned(fd, e)
                    /\ pos = e.file_position /\ e.flags = DIRECTORY_FLAG
  <2>1. fdt[fd] \in FdtEntries /\ Positioned(fd, fdt[fd])
    BY DEF FilesInv, fdt
  <2> QED  BY <2>1
<1>2. fd \in OpenFds /\ pos \in 0..Len(fileDirectory) /\ Len(fileDirectory) \in Nat
  BY <1>1, Bounds DEF Positioned
<1>3. streamsBar[cur_pid][fd] = [kind |-> "dir", rest |-> From(AllNames, pos)]
  BY <1>1, <1>2, StreamHere, StreamKinds
<1>4. ASSUME NEW x \in 0..Len(fileDirectory), Put(fd, [e EXCEPT !.file_position = x]),
             cur_pid' = cur_pid
      PROVE  /\ FilesInv'
             /\ streamsBar' = [streamsBar EXCEPT ![cur_pid][fd] =
                                 [kind |-> "dir", rest |-> From(AllNames, x)]]
  <2> DEFINE new == [e EXCEPT !.file_position = x]
  <2>1. x \in Int
    BY <1>2
  <2>2. /\ new \in FdtEntries /\ new.file_position = x
        /\ new.inodeNum = e.inodeNum /\ new.flags = e.flags
    BY <1>1, <2>1, EntryTo, Zenon
  <2>3. Put(fd, new)
    BY <1>4
  <2> HIDE DEF new
  <2>4. Positioned(fd, new)
    BY <1>1, <1>2, <2>2 DEF Positioned, REGFILE_FLAG, DIRECTORY_FLAG
  <2>5. FilesInv' /\ streamsBar' = [streamsBar EXCEPT ![cur_pid][fd] = StreamOf(new)]
    BY <1>2, <1>4, <2>2, <2>3, <2>4, PutKeeps
  <2>6. StreamOf(new) = [kind |-> "dir", rest |-> From(AllNames, x)]
    BY <1>1, <2>2, StreamKinds
  <2> QED  BY <2>5, <2>6
<1>5. CASE pos = Len(fileDirectory)
  <2>1. Put(fd, [e EXCEPT !.file_position = 0]) /\ buf' = <<>> /\ cur_pid' = cur_pid
    BY <1>1, <1>5 DEF directoryRead, Return
  <2>2. /\ FilesInv'
        /\ streamsBar' = [streamsBar EXCEPT ![cur_pid][fd] =
                            [kind |-> "dir", rest |-> From(AllNames, 0)]]
    BY <1>2, <1>4, <2>1
  <2>3. From(AllNames, 0) = AllNames /\ From(AllNames, pos) = <<>>
    BY <1>5, NamesSeq, RestWhole, RestNone
  <2>4. S!StreamList(fd)
    <3>1. PICK s : s = streamsBar[cur_pid][fd] /\ s.kind = "dir" /\ s.rest = <<>>
      BY <1>3, <2>3
    <3>2. streamsBar' = [streamsBar EXCEPT ![cur_pid][fd] = [kind |-> "dir", rest |-> AllNames]]
      BY <2>2, <2>3
    <3> QED  BY <2>1, <3>1, <3>2, Zenon DEF S!StreamList, S!Set, S!DirStream
  <2> QED  BY <1>2, <2>2, <2>4
<1>6. CASE pos # Len(fileDirectory)
  <2>1. pos \in 0..(Len(fileDirectory) - 1) /\ read_dentry_by_index(pos) = pos + 1
        /\ pos + 1 # ERROR_VAL /\ pos + 1 \in 1..Len(fileDirectory)
        /\ pos + 1 \in 0..Len(fileDirectory)
    BY <1>2, <1>6 DEF read_dentry_by_index, ERROR_VAL
  <2>2. strcpyFile(fileDirectory[pos + 1].fileName) = fileDirectory[pos + 1].fileName
    <3>1. PICK U, s : s \in Seq(U) /\ s = fileDirectory[pos + 1].fileName
                      /\ Len(s) <= MAX_FILENAME_LENGTH
      BY <2>1, ImageAssumption
    <3>2. Least(Len(s), MAX_FILENAME_LENGTH) = Len(s)
      BY <3>1, SizesAssumption DEF Least
    <3>3. SubSeq(s, 1, Len(s)) = s
      BY <3>1
    <3> QED  BY <3>1, <3>2, <3>3 DEF strcpyFile
  <2>3. /\ Put(fd, [e EXCEPT !.file_position = pos + 1]) /\ cur_pid' = cur_pid
        /\ buf' = fileDirectory[pos + 1].fileName
    BY <1>1, <1>6, <2>1, <2>2 DEF directoryRead, Return
  <2>4. /\ FilesInv'
        /\ streamsBar' = [streamsBar EXCEPT ![cur_pid][fd] =
                            [kind |-> "dir", rest |-> From(AllNames, pos + 1)]]
    BY <1>4, <2>1, <2>3
  <2>5. PICK r : r = From(AllNames, pos)
    OBVIOUS
  <2>6. r # <<>> /\ Head(r) = fileDirectory[pos + 1].fileName /\ Tail(r) = From(AllNames, pos + 1)
    <3>1. /\ From(AllNames, pos) # <<>> /\ Head(From(AllNames, pos)) = AllNames[pos + 1]
          /\ Tail(From(AllNames, pos)) = From(AllNames, pos + 1)
      BY <2>1, NamesSeq, RestNext
    <3>2. AllNames[pos + 1] = fileDirectory[pos + 1].fileName
      BY <2>1, NamesSeq
    <3> QED  BY <2>5, <3>1, <3>2
  <2>7. S!StreamList(fd)
    <3>1. PICK s : s = streamsBar[cur_pid][fd] /\ s.kind = "dir" /\ s.rest = r
      BY <1>3, <2>5
    <3>2. streamsBar' = [streamsBar EXCEPT ![cur_pid][fd] = [kind |-> "dir", rest |-> Tail(r)]]
      BY <2>4, <2>6
    <3>3. buf' = Head(r)
      BY <2>3, <2>6
    <3> QED  BY <2>3, <2>6, <3>1, <3>2, <3>3, Zenon DEF S!StreamList, S!Set, S!DirStream
  <2> QED  BY <1>2, <2>4, <2>7
<1> QED  BY <1>5, <1>6


(* sys_read, through the operation of the entry.                           *)
LEMMA ReadStep ==
  ASSUME FilesInv, NEW fd \in Int, NEW n \in Int, sys_read(fd, n)
  PROVE  /\ FilesInv'
         /\ \/ S!StreamNothing \/ S!StreamType(n)
            \/ fd \in OpenFds /\ (S!StreamRead(fd, n) \/ S!StreamList(fd))
<1>1. CASE Fail
  BY <1>1, FailStep
<1>2. CASE ~Fail
  <2>1. ~ReadRefused(fd, n) /\ fops_read(fd, n)
    BY <1>2 DEF sys_read
  <2>2. n \in Nat
    BY <2>1 DEF ReadRefused
  <2>3. fd \notin Entries => Entry(fd).flags = UNUSED_FLAG
    BY DEF Entry, Unused
  <2>4. fd \in Entries => Entry(fd) = fdt[fd]
    BY DEF Entry
  <2>5. CASE Entry(fd).flags = REGFILE_FLAG
    <3>1. fd \in Entries /\ fdt[fd].flags = REGFILE_FLAG
      BY <2>3, <2>4, <2>5 DEF UNUSED_FLAG, REGFILE_FLAG
    <3>2. fileRead(fd, n)
      BY <2>1, <2>5 DEF fops_read, REGFILE_FLAG, DIRECTORY_FLAG, RTC_FLAG, STDIN_FLAG
    <3> QED  BY <2>2, <3>1, <3>2, FileReadStep
  <2>6. CASE Entry(fd).flags = DIRECTORY_FLAG
    <3>1. fd \in Entries /\ fdt[fd].flags = DIRECTORY_FLAG
      BY <2>3, <2>4, <2>6 DEF UNUSED_FLAG, DIRECTORY_FLAG
    <3>2. directoryRead(fd, n)
      BY <2>1, <2>6 DEF fops_read, REGFILE_FLAG, DIRECTORY_FLAG, RTC_FLAG, STDIN_FLAG
    <3> QED  BY <3>1, <3>2, DirectoryReadStep
  <2>7. CASE Entry(fd).flags = STDIN_FLAG
    <3>1. PICK line \in Lines : Return(Len(CutLine(line, n)), CutLine(line, n))
                                /\ UNCHANGED process_fdt
      BY <2>1, <2>7 DEF fops_read, REGFILE_FLAG, DIRECTORY_FLAG, RTC_FLAG, STDIN_FLAG
    <3>2. FilesInv' /\ streamsBar' = streamsBar /\ cur_pid' = cur_pid
      BY <3>1, SameTables DEF Return
    <3>3. buf' = SubSeq(line, 1, IF n < Len(line) THEN n ELSE Len(line))
      <4>1. Least(Len(line), n) = IF n < Len(line) THEN n ELSE Len(line)
        <5>1. Len(line) \in Nat
          BY LinesAssumption
        <5> QED  BY <2>2, <5>1 DEF Least
      <4> QED  BY <3>1, <4>1 DEF Return, CutLine
    <3> QED  BY <3>2, <3>3 DEF S!StreamType
  <2>8. CASE Entry(fd).flags \notin {REGFILE_FLAG, DIRECTORY_FLAG, STDIN_FLAG}
    <3>1. Entry(fd).flags = RTC_FLAG /\ Return(0, <<>>) /\ UNCHANGED process_fdt
      BY <1>2, <2>1, <2>8 DEF fops_read
    <3> QED  BY <3>1, NothingStep DEF Return
  <2> QED  BY <2>5, <2>6, <2>7, <2>8
<1> QED  BY <1>1, <1>2

LEMMA WriteStep ==
  ASSUME FilesInv, NEW fd, NEW n, sys_write(fd, n)
  PROVE  FilesInv' /\ S!StreamNothing
<1>1. process_fdt' = process_fdt /\ cur_pid' = cur_pid /\ buf' = <<>>
  BY DEF sys_write, fops_write, Fail, Return
<1> QED  BY <1>1, NothingStep

LEMMA ExecuteStep == ASSUME FilesInv, Execute PROVE FilesInv' /\ S!StreamExecute
<1>1. PICK c \in Processes, d \in Processes :
        /\ c = cur_pid /\ d = c + 1 /\ cur_pid' = d /\ buf' = <<>>
        /\ process_fdt' = [process_fdt EXCEPT ![d] = FreshTable]
  BY DEF FilesInv, Execute, TableFor
<1>2. /\ process_fdt' \in [Processes -> [Entries -> FdtEntries]]
      /\ \A p \in Processes : process_fdt'[p] = IF p = d THEN FreshTable ELSE process_fdt[p]
  BY <1>1, FreshKeeps DEF FilesInv
<1>3. FilesInv'
  <2>1. ASSUME NEW p \in Processes, NEW fd \in Entries PROVE Positioned(fd, process_fdt'[p][fd])
    <3>1. CASE p = d
      <4>1. process_fdt'[p] = FreshTable
        BY <1>2, <3>1
      <4> QED  BY <4>1, FreshKeeps
    <3>2. CASE p # d
      <4>1. process_fdt'[p] = process_fdt[p] /\ Positioned(fd, process_fdt[p][fd])
        BY <1>2, <3>2 DEF FilesInv
      <4> QED  BY <4>1
    <3> QED  BY <3>1, <3>2
  <2> QED  BY <1>1, <1>2, <2>1, Zenon DEF FilesInv
<1> DEFINE None == [kind |-> "closed"]
           T(p, fd) == IF p > c THEN None ELSE StreamOf(process_fdt[p][fd])
           T2(p, fd) == IF p > d THEN None ELSE StreamOf(process_fdt'[p][fd])
<1>4. streamsBar = [p \in Processes |-> [fd \in OpenFds |-> T(p, fd)]]
  BY <1>1 DEF streamsBar
<1>5. streamsBar' = [p \in Processes |-> [fd \in OpenFds |-> T2(p, fd)]]
  BY <1>1 DEF streamsBar
<1>6. ASSUME NEW p \in Processes, NEW fd \in OpenFds
      PROVE  T2(p, fd) = IF p = d THEN None ELSE T(p, fd)
  <2>1. p \in Nat /\ c \in Nat
    BY Bounds
  <2>2. CASE p = d
    <3>1. process_fdt'[p][fd] = FreshTable[fd]
      BY <1>2, <2>2
    <3> QED  BY <2>1, <2>2, <3>1, FreshKeeps
  <2>3. CASE p # d
    <3>1. process_fdt'[p][fd] = process_fdt[p][fd]
      BY <1>2, <2>3
    <3>2. p > c <=> p > d
      BY <1>1, <2>1, <2>3
    <3> QED  BY <2>3, <3>1, <3>2
  <2> QED  BY <2>2, <2>3
<1>7. streamsBar' = [streamsBar EXCEPT ![d] = [fd \in OpenFds |-> None]]
  <2> HIDE DEF T, T2, None
  <2> QED  BY <1>4, <1>5, <1>6
<1>8. cur_pid + 1 < Depth
  BY <1>1, SizesAssumption DEF Processes
<1> QED  BY <1>1, <1>3, <1>7, <1>8 DEF S!StreamExecute, S!NoStreams, S!Closed

LEMMA HaltStep == ASSUME FilesInv, NEW status, Halt(status) PROVE FilesInv' /\ S!StreamHalt
<1>1. PICK c \in Processes, d \in Processes :
        /\ c = cur_pid /\ d = c - 1 /\ cur_pid' = d /\ buf' = <<>> /\ c > 0
        /\ process_fdt' = process_fdt
  <2>1. cur_pid \in Processes /\ cur_pid > 0
    BY DEF FilesInv, Halt
  <2>2. cur_pid - 1 \in Processes
    BY <2>1, SizesAssumption DEF Processes
  <2> QED  BY <2>1, <2>2 DEF Halt
<1>2. FilesInv'
  BY <1>1 DEF FilesInv
<1> DEFINE None == [kind |-> "closed"]
           T(p, fd) == IF p > c THEN None ELSE StreamOf(process_fdt[p][fd])
           T2(p, fd) == IF p > d THEN None ELSE StreamOf(process_fdt[p][fd])
<1>3. streamsBar = [p \in Processes |-> [fd \in OpenFds |-> T(p, fd)]]
  BY <1>1 DEF streamsBar
<1>4. streamsBar' = [p \in Processes |-> [fd \in OpenFds |-> T2(p, fd)]]
  BY <1>1 DEF streamsBar
<1>5. ASSUME NEW p \in Processes, NEW fd \in OpenFds
      PROVE  T2(p, fd) = IF p = c THEN None ELSE T(p, fd)
  <2>1. p \in Nat /\ c \in Nat
    BY Bounds
  <2>2. (p > d) <=> (p = c \/ p > c)
    BY <1>1, <2>1
  <2> QED  BY <2>2
<1>6. streamsBar' = [streamsBar EXCEPT ![c] = [fd \in OpenFds |-> None]]
  <2> HIDE DEF T, T2, None
  <2> QED  BY <1>3, <1>4, <1>5
<1> QED  BY <1>1, <1>2, <1>6 DEF S!StreamHalt, S!NoStreams, S!Closed

LEMMA InitOK == ASSUME Init PROVE FilesInv /\ S!StreamsInit
<1>1. FilesInv
  BY FreshKeeps, Bounds DEF Init, FilesInv
<1> DEFINE None == [kind |-> "closed"]
           T(p, fd) == IF p > cur_pid THEN None ELSE StreamOf(process_fdt[p][fd])
<1>2. streamsBar = [p \in Processes |-> [fd \in OpenFds |-> T(p, fd)]]
  BY DEF streamsBar
<1>3. ASSUME NEW p \in Processes, NEW fd \in OpenFds PROVE T(p, fd) = None
  <2>1. process_fdt[p][fd] = FreshTable[fd]
    BY Zenon DEF Init
  <2> QED  BY <2>1, FreshKeeps
<1>4. streamsBar = [p \in 0..(Depth - 1) |-> [fd \in OpenFds |-> None]]
  <2> HIDE DEF T, None
  <2> QED  BY <1>2, <1>3 DEF Processes
<1> QED  BY <1>1, <1>4 DEF Init, S!StreamsInit, S!NoStreams, S!Closed

LEMMA NextStep == ASSUME FilesInv, Next PROVE FilesInv' /\ S!StreamsNext
<1>1. ASSUME NEW f \in Filenames, sys_open(f) PROVE FilesInv' /\ S!StreamsNext
  <2>1. CASE OpenStandard(f)
    BY <2>1, NothingStep DEF OpenStandard, Return, S!StreamsNext
  <2>2. CASE OpenFile(f)
    BY <2>2, OpenStep DEF S!StreamsNext
  <2>3. CASE OpenFails(f)
    BY <2>3, FailStep DEF OpenFails, S!StreamsNext
  <2> QED  BY <1>1, <2>1, <2>2, <2>3 DEF sys_open
<1>2. ASSUME NEW fd \in Fds, sys_close(fd) PROVE FilesInv' /\ S!StreamsNext
  <2>1. fd \in Int
    BY SizesAssumption
  <2> QED  BY <1>2, <2>1, CloseStep DEF S!StreamsNext
<1>3. ASSUME NEW fd \in Fds, NEW n \in Sizes, sys_read(fd, n) PROVE FilesInv' /\ S!StreamsNext
  <2>1. fd \in Int /\ n \in Int
    BY SizesAssumption
  <2> QED  BY <1>3, <2>1, ReadStep DEF S!StreamsNext
<1>4. ASSUME NEW fd \in Fds, NEW n \in Sizes, sys_write(fd, n) PROVE FilesInv' /\ S!StreamsNext
  BY <1>4, WriteStep DEF S!StreamsNext
<1>5. CASE Execute
  BY <1>5, ExecuteStep DEF S!StreamsNext
<1>6. CASE Halt(0)
  BY <1>6, HaltStep DEF S!StreamsNext
<1> QED  BY <1>1, <1>2, <1>3, <1>4, <1>5, <1>6 DEF Next

(* For every file system image, number of descriptors and depth of nested  *)
(* programs, whatever they open, read, write and close: the descriptors of *)
(* systemcall.c over read_data and read_dentry_by_index behave as the      *)
(* streams of FileStreams, each byte and each name once and in order.      *)
THEOREM FilesImplementStreams == SafetySpec => ImplementsStreams
<1>1. FilesInv /\ [Next]_vars => FilesInv' /\ [S!StreamsNext]_(S!svars)
  <2>1. CASE Next
    BY <2>1, NextStep
  <2>2. CASE UNCHANGED vars
    BY <2>2, SameTables DEF vars, S!svars
  <2> QED  BY <2>1, <2>2
<1> QED  BY <1>1, InitOK, PTL DEF SafetySpec, ImplementsStreams, S!StreamsSpec
=============================================================================
