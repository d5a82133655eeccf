------------------------------ MODULE Blinkers ------------------------------
(***************************************************************************)
(* What the blinker library of fish promises: a list of blinkers, the      *)
(* newest first, each of which shows its two characters in turn, for as    *)
(* many ticks as its lengths say and at least one.  A call fails only for  *)
(* want of room or of a blinker.                                           *)
(***************************************************************************)
EXTENDS Integers, Sequences, SequencesExt

CONSTANTS Capacity, Places, Requests, Locations, None

VARIABLES
  list,   \* [location, on_char, off_char, on_length, off_length, age, on]
  shown,  \* the character at every place
  last    \* the last call: [name, arg, ret, copy]

Length(b) == IF b.on THEN b.on_length ELSE b.off_length
Symbol(b) == IF b.on THEN b.on_char ELSE b.off_char

(* The first blinker of a location, 0 if there is none.                    *)
At(blinkers, l) == SelectInSeq(blinkers, LAMBDA b : b.location = l)

Call(name, arg, ret, copy) ==
  last' = [name |-> name, arg |-> arg, ret |-> ret, copy |-> copy]
Refused(name, arg) == Call(name, arg, -1, None) /\ UNCHANGED <<list, shown>>

BlinkersInit ==
  /\ list = <<>> /\ shown = [p \in Places |-> None]
  /\ last = [name |-> "none", arg |-> None, ret |-> 0, copy |-> None]

Add(r) ==
  \/ /\ Call("add", r, 0, None)
     /\ r.location \in Places /\ Len(list) < Capacity
     /\ list' = <<[location |-> r.location, on_char |-> r.on_char, off_char |-> r.off_char,
                   on_length |-> r.on_length, off_length |-> r.off_length,
                   age |-> 0, on |-> TRUE]>> \o list
     /\ shown' = [shown EXCEPT ![r.location] = r.on_char]
  \/ Refused("add", r) /\ (r.location \notin Places \/ Len(list) = Capacity)

Delete(l) ==
  \/ /\ Call("remove", l, 0, None)
     /\ At(list, l) # 0 /\ list' = RemoveAt(list, At(list, l))
     /\ UNCHANGED shown
  \/ Refused("remove", l) /\ At(list, l) = 0

Find(l) ==
  \/ /\ last'.name = "find" /\ At(list, l) # 0
     /\ Call("find", l, 0, list[At(list, l)])
     /\ UNCHANGED <<list, shown>>
  \/ Refused("find", l) /\ At(list, l) = 0

(* The second blinker gets the rhythm of the first one; which of its       *)
(* characters appears at once is left open.                                *)
Sync(from, to) ==
  LET before == list
      f == At(before, from)
      t == At(before, to)
      b == [before[t] EXCEPT !.on_length = before[f].on_length,
                             !.off_length = before[f].off_length,
                             !.age = before[f].age, !.on = before[f].on]
  IN \/ /\ Call("sync", <<from, to>>, 0, None)
        /\ f # 0 /\ t # 0
        /\ list' = [before EXCEPT ![t] = b]
        /\ shown' \in {[shown EXCEPT ![to] = c] : c \in {b.on_char, b.off_char}}
     \/ Refused("sync", <<from, to>>) /\ (f = 0 \/ t = 0)

Due(b) == b.age + 1 >= Length(b)

Tick ==
  LET before == list
      after == [i \in DOMAIN before |->
                  IF Due(before[i]) THEN [before[i] EXCEPT !.age = 0, !.on = ~@]
                  ELSE [before[i] EXCEPT !.age = @ + 1]]
      latest(p) == SelectLastInSeq(before, LAMBDA b : b.location = p /\ Due(b))
  IN /\ Call("tick", None, 0, None)
     /\ list' = after
     /\ shown' = [p \in Places |-> IF latest(p) = 0 THEN shown[p] ELSE Symbol(after[latest(p)])]

BlinkersNext ==
  \/ \E r \in Requests : Add(r)
  \/ \E l \in Locations : Delete(l) \/ Find(l)
  \/ \E l, m \in Locations : Sync(l, m)
  \/ Tick

BlinkersSpec == BlinkersInit /\ [][BlinkersNext]_<<list, shown, last>>
=============================================================================
