-------------------------------- MODULE Mem --------------------------------
(***************************************************************************)
(* The memory and string functions of lib.c: memset, memcpy, memmove,      *)
(* strcpy, strncpy and strncmp, on a memory of MemSize bytes.              *)
(*                                                                         *)
(* Their string instructions run up or down as the direction flag says.    *)
(* Neither int 0x80 nor an interrupt clears the flag, so a function finds  *)
(* it as the user program left it, and memmove leaves it set.  A call      *)
(* works on buffers of its caller only and is one step.  Characters are    *)
(* those of ASCII, which int8_t holds as non-negative numbers.             *)
(***************************************************************************)
EXTENDS Integers, FiniteSets

CONSTANTS
  MemSize,    \* bytes of memory
  LONG_BYTES, \* bytes of a word (4)
  BYTE,       \* values of a byte (256)
  Contents,   \* what other code may leave in memory
  Fills,      \* values passed to memset
  Sizes       \* sizes passed

ASSUME MemAssumption ==
  /\ MemSize \in Nat /\ LONG_BYTES \in Nat \ {0} /\ BYTE \in Nat \ {0}
  /\ Contents \subseteq [0..(MemSize - 1) -> 0..(BYTE - 1)]
  /\ Fills \subseteq Nat /\ Sizes \subseteq Nat

Addresses == 0..(MemSize - 1)
Bytes == 0..(BYTE - 1)

VARIABLES
  mem,
  df,   \* the direction flag
  call, \* the last call, or NoCall
  ret   \* result of strncmp

memVars == <<mem, df, call, ret>>

NoCall == [name |-> "none"]

Least(a, b) == IF a < b THEN a ELSE b

----------------------------------------------------------------------------
(* rep movs: count units of w bytes from esi to edi, one after the other,  *)
(* upwards or, with the flag set, downwards.                               *)
rep_movs(m, edi, esi, count, w, down) ==
  LET after[k \in 0..count] ==
        IF k = 0 THEN m
        ELSE LET done == w * (k - 1)
                 to == IF down THEN edi - done ELSE edi + done
             IN [a \in Addresses |->
                   IF a \in to..(to + w - 1) THEN after[k - 1][esi + (a - edi)]
                   ELSE after[k - 1][a]]
  IN after[count]

(* rep stos: the same with one value.                                      *)
rep_stos(m, edi, count, w, down, c) ==
  [a \in Addresses |->
     IF count > 0 /\ a \in (IF down THEN (edi - w * (count - 1))..(edi + w - 1)
                            ELSE edi..(edi + w * count - 1))
     THEN c ELSE m[a]]

(* memset and memcpy go byte by byte until edi is aligned, then word by    *)
(* word after cld, then byte by byte.                                      *)
Lead(edi, n) == Least(n, (LONG_BYTES - (edi % LONG_BYTES)) % LONG_BYTES)

FlagKept == df
AfterCld == FALSE

Masked(c) == c % BYTE

memset(m, s, c, n) ==
  LET lead  == Lead(s, n)
      words == (n - lead) \div LONG_BYTES
      tail  == (n - lead) % LONG_BYTES
      m1 == rep_stos(m, s, lead, 1, FALSE, Masked(c))
      m2 == rep_stos(m1, s + lead, words, LONG_BYTES, AfterCld, Masked(c))
  IN rep_stos(m2, s + n - tail, tail, 1, FALSE, Masked(c))

memcpy(m, dest, src, n) ==
  LET lead  == Lead(dest, n)
      words == (n - lead) \div LONG_BYTES
      tail  == (n - lead) % LONG_BYTES
      m1 == rep_movs(m, dest, src, lead, 1, FALSE)
      m2 == rep_movs(m1, dest + lead, src + lead, words, LONG_BYTES, AfterCld)
  IN rep_movs(m2, dest + n - tail, src + n - tail, tail, 1, FALSE)

(* memmove goes down from the last byte if src is below dest.              *)
Downwards(dest, src) == src < dest
memmove(m, dest, src, n) ==
  IF Downwards(dest, src)
  THEN rep_movs(m, dest + n - 1, src + n - 1, n, 1, TRUE)
  ELSE rep_movs(m, dest, src, n, 1, FALSE)

(* Index of the first NUL, from s on.                                      *)
IsString(m, s) == \E a \in Addresses : a >= s /\ m[a] = 0
strlen(m, s) == CHOOSE k \in 0..MemSize :
                  m[s + k] = 0 /\ \A j \in 0..(k - 1) : m[s + j] # 0

strcpy(m, dest, src) ==
  [a \in Addresses |-> IF a \in dest..(dest + strlen(m, src)) THEN m[src + (a - dest)] ELSE m[a]]

strncpy(m, dest, src, n) ==
  [a \in Addresses |->
     IF a \in dest..(dest + Least(n, strlen(m, src)) - 1) THEN m[src + (a - dest)]
     ELSE IF a \in dest..(dest + n - 1) THEN 0 ELSE m[a]]

(* The loop of strncmp ends at the first index below n where the strings   *)
(* differ or end.                                                          *)
Ends(m, s1, s2, i) == m[s1 + i] # m[s2 + i] \/ m[s1 + i] = 0
OneFurther(n) == 0..n
Indices(n) == 0..(n - 1)
strncmp(m, s1, s2, n) ==
  LET stop(i) == i \notin Indices(n) \/ Ends(m, s1, s2, i)
      last == CHOOSE i \in 0..MemSize : stop(i) /\ \A j \in 0..(i - 1) : ~stop(j)
  IN IF last \in Indices(n) THEN m[s1 + last] - m[s2 + last] ELSE 0

----------------------------------------------------------------------------
Fits(a, n) == a + n <= MemSize
Disjoint(a, b, n) == a + n <= b \/ b + n <= a

MemInit == mem \in Contents /\ df = FALSE /\ call = NoCall /\ ret = 0

(* Other code runs: it fills the buffers and sets the flag as it likes.    *)
Others ==
  /\ mem' \in Contents /\ df' \in BOOLEAN
  /\ call' = NoCall /\ ret' = 0

Call(name, dest, src, n) ==
  call' = [name |-> name, dest |-> dest, src |-> src, n |-> n]

(* The flag is cleared where the aligned part is reached.                  *)
ClearedBy(dest, n) == IF n = Lead(dest, n) THEN df ELSE AfterCld

Memset(s, c, n) ==
  /\ Fits(s, n) /\ Call("memset", s, c, n)
  /\ mem' = memset(mem, s, c, n) /\ df' = ClearedBy(s, n) /\ UNCHANGED ret

(* Its callers' buffers do not overlap; with dest below src they could.    *)
Memcpy(dest, src, n) ==
  /\ Fits(dest, n) /\ Fits(src, n) /\ (Disjoint(dest, src, n) \/ dest <= src)
  /\ Call("memcpy", dest, src, n)
  /\ mem' = memcpy(mem, dest, src, n) /\ df' = ClearedBy(dest, n) /\ UNCHANGED ret

Memmove(dest, src, n) ==
  /\ Fits(dest, n) /\ Fits(src, n) /\ Call("memmove", dest, src, n)
  /\ mem' = memmove(mem, dest, src, n) /\ df' = Downwards(dest, src) /\ UNCHANGED ret

Strcpy(dest, src) ==
  /\ IsString(mem, src)
  /\ LET n == strlen(mem, src) + 1
     IN Fits(dest, n) /\ Disjoint(dest, src, n) /\ Call("strcpy", dest, src, n)
  /\ mem' = strcpy(mem, dest, src) /\ UNCHANGED <<df, ret>>

Strncpy(dest, src, n) ==
  /\ IsString(mem, src) /\ Fits(dest, n) /\ Disjoint(dest, src, n)
  /\ Call("strncpy", dest, src, n)
  /\ mem' = strncpy(mem, dest, src, n) /\ UNCHANGED <<df, ret>>

Strncmp(s1, s2, n) ==
  /\ IsString(mem, s1) /\ IsString(mem, s2)
  /\ Call("strncmp", s1, s2, n)
  /\ ret' = strncmp(mem, s1, s2, n) /\ UNCHANGED <<mem, df>>

Calls ==
  \/ \E a, b \in Addresses : Strcpy(a, b)
  \/ \E a \in Addresses, n \in Sizes :
       \/ \E c \in Fills : Memset(a, c, n)
       \/ \E b \in Addresses :
            Memcpy(a, b, n) \/ Memmove(a, b, n) \/ Strncpy(a, b, n) \/ Strncmp(a, b, n)

(* A call is made when other code has prepared its buffers.                *)
MemNext == Others \/ (call = NoCall /\ Calls)

----------------------------------------------------------------------------
(* The string at s, cut after n characters: index and character.           *)
Cut(m, s, n) == {<<k, m[s + k]>> : k \in 0..(Least(n, strlen(m, s)) - 1)}

(* What the call should leave at dest + k.                                 *)
Byte(m, c, k) ==
  CASE c.name = "memset" -> c.src % BYTE
    [] c.name = "strncpy" ->
         IF \E b \in Bytes : <<k, b>> \in Cut(m, c.src, c.n) THEN m[c.src + k] ELSE 0
    [] OTHER -> m[c.src + k]

(* Whatever the alignment, the overlap and the direction flag: a call that *)
(* fills or copies n bytes changes these n bytes at dest and no other, and *)
(* gives them the values the source had before the call.                   *)
CopiesExactly ==
  [][call = NoCall /\ call' # NoCall /\ call'.name # "strncmp" =>
       \A a \in Addresses :
         mem'[a] = IF a \in call'.dest..(call'.dest + call'.n - 1)
                   THEN Byte(mem, call', a - call'.dest) ELSE mem[a]]_memVars

(* strncmp gives 0 exactly if the strings agree in their first n           *)
(* characters; otherwise the sign of the first difference, an end counting *)
(* as least.  sys_open and read_dentry_by_name rely on it.                 *)
ComparesPrefix ==
  call # NoCall /\ call.name = "strncmp" =>
    LET s == Cut(mem, call.dest, call.n)
        t == Cut(mem, call.src, call.n)
        less(p, q) == \E k \in 0..MemSize :
          /\ \A j \in 0..(k - 1), b \in Bytes : <<j, b>> \in p <=> <<j, b>> \in q
          /\ \E c \in Bytes : <<k, c>> \in q /\ \A b \in Bytes : <<k, b>> \in p => b < c
    IN /\ ret = 0 <=> s = t
       /\ ret < 0 <=> less(s, t)
       /\ ret > 0 <=> less(t, s)
=============================================================================
