----------------------------- MODULE GrepSearch -----------------------------
(***************************************************************************)
(* How grep looks through the bytes that a read has added to its array     *)
(* data, and what it should find.  An incomplete line at the end is moved  *)
(* to the front for the next read to complete.                             *)
(***************************************************************************)
EXTENDS Integers, Sequences, SequencesExt, FiniteSetsExt

CONSTANT BUFSIZE   \* bytes of data, which has one more for a NUL (1024)

EOL == "NL"
EOS == "NUL"

DataIndices == 0..BUFSIZE

(* A pass over data: line_start, and the lines found; over when a break    *)
(* leaves the loop.                                                        *)
LineEnd(p) ==
  CHOOSE i \in p.line_start..BUFSIZE :
    /\ i >= p.last \/ p.data[i] = EOL
    /\ \A j \in p.line_start..(i - 1) : j < p.last /\ p.data[j] # EOL

(* ece391_strcpy: up to and with the first NUL.                            *)
CopiedDown(data, from) ==
  LET n == Min({k \in 0..(BUFSIZE - from) : data[from + k] = EOS})
  IN [k \in DataIndices |-> IF k <= n THEN data[from + k] ELSE data[k]]

(* s[0] == data[check], and strncmp over s_len characters.                 *)
MatchesAt(data, check, s) ==
  IF s = <<>> THEN data[check] = EOS
  ELSE \A k \in 1..Len(s) : check + k - 1 \in DataIndices /\ data[check + k - 1] = s[k]

TextFrom(data, from) ==
  LET n == Min({k \in from..BUFSIZE : data[k] = EOS})
  IN [k \in 1..(n - from) |-> data[from + k - 1]]

LineNeverIncomplete(p, line_end, cnt) == FALSE
LineIncomplete(p, line_end, cnt) ==
  p.data[line_end] # EOL /\ cnt # 0 /\ p.line_start # 0

SearchLine(p, cnt, s) ==
  LET line_end == LineEnd(p)
      data == [p.data EXCEPT ![line_end] = EOS]
      found == \E check \in p.line_start..(line_end - 1) : MatchesAt(data, check, s)
      lines == IF found THEN Append(p.lines, TextFrom(data, p.line_start)) ELSE p.lines
  IN CASE LineIncomplete(p, line_end, cnt) ->
            [p EXCEPT !.data = CopiedDown(data, p.line_start),
                      !.last = @ - p.line_start, !.over = TRUE]
       [] ~LineIncomplete(p, line_end, cnt) /\ line_end + 1 >= p.last ->
            [p EXCEPT !.data = data, !.lines = lines, !.last = 0, !.over = TRUE]
       [] OTHER ->
            [p EXCEPT !.data = data, !.lines = lines, !.line_start = line_end + 1]

(* The loop over the lines, after a read of cnt bytes.                     *)
SearchLines(data, last, cnt, s) ==
  LET after[n \in 0..(BUFSIZE + 1)] ==
        IF n = 0 THEN [data |-> data, last |-> last, line_start |-> 0, lines |-> <<>>, over |-> FALSE]
        ELSE LET p == after[n - 1] IN IF p.over THEN p ELSE SearchLine(p, cnt, s)
  IN after[BUFSIZE + 1]

----------------------------------------------------------------------------
(* The lines of a text, in order, ...                                      *)
LineStarts(text) ==
  SelectSeq([i \in 1..Len(text) |-> i], LAMBDA i : i = 1 \/ text[i - 1] = EOL)
LineAt(text, i) ==
  LET ends == {k \in i..Len(text) : text[k] = EOL}
  IN SubSeq(text, i, IF ends = {} THEN Len(text) ELSE Min(ends) - 1)
LinesOf(text) == LET starts == LineStarts(text) IN [k \in DOMAIN starts |-> LineAt(text, starts[k])]

(* ... those that contain s, ...                                           *)
HasString(line, s) ==
  s # <<>> /\ \E i \in 1..(Len(line) - Len(s) + 1) : SubSeq(line, i, i + Len(s) - 1) = s
LinesWith(text, s) == SelectSeq(LinesOf(text), LAMBDA line : HasString(line, s))

(* ... and the texts grep is made for: no NUL, and no line longer than     *)
(* the array.                                                              *)
IsText(text) ==
  /\ \A i \in DOMAIN text : text[i] # EOS
  /\ \A k \in DOMAIN LinesOf(text) : Len(LinesOf(text)[k]) < BUFSIZE
=============================================================================
