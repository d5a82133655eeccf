-------------------------------- MODULE Blink -------------------------------
(***************************************************************************)
(* The blinker library of the program fish (blink.S, with the allocator of *)
(* fish.c): a linked list of structures taken from the array blink_array,  *)
(* a tasklet that fish calls after every read of the clock, and the four   *)
(* calls of mp1_ioctl.                                                     *)
(*                                                                         *)
(* A structure of the array is free while its location is 0.  fish never   *)
(* adds a blinker at location 0, and Locations says whether callers do.    *)
(* Stores through vmem_base_addr go to the terminal's own page, as module  *)
(* Screen shows.                                                           *)
(***************************************************************************)
EXTENDS Integers, Sequences, SequencesExt

CONSTANTS
  POOL,       \* structures in blink_array (80*25)
  SCREEN,     \* places on the screen (80*25)
  WORD,       \* values of an unsigned short (2^16)
  Locations,  \* locations callers ask for
  Requests,   \* structures callers pass to RTC_ADD
  None        \* a character not known, no argument, no structure

ASSUME SizesAssumption ==
  /\ POOL \in Nat \ {0} /\ SCREEN \in Nat \ {0} /\ WORD \in Nat /\ WORD > 2
  /\ Locations \subseteq 0..(WORD - 1)
  /\ \A r \in Requests :
       {r.location, r.on_length, r.off_length} \subseteq 0..(WORD - 1)

NULL == 0
Places == 0..(SCREEN - 1)

VARIABLES
  blink_array,   \* the structures, numbered from 1
  mp1_list_head,
  video,         \* the characters on the screen
  last           \* the last call: [name, arg, ret, copy]

vars == <<blink_array, mp1_list_head, video, last>>

(* ece391_memset of a structure with 0.                                    *)
Zeroed == [location |-> 0, on_char |-> None, off_char |-> None, on_length |-> 0,
           off_length |-> 0, countdown |-> 0, status |-> 0, next |-> NULL]

Init ==
  /\ blink_array = [c \in 1..POOL |-> Zeroed]
  /\ mp1_list_head = NULL
  /\ video = [p \in Places |-> None]
  /\ last = [name |-> "none", arg |-> None, ret |-> 0, copy |-> None]

Returns(name, arg, ret, copy) ==
  last' = [name |-> name, arg |-> arg, ret |-> ret, copy |-> copy]
FailReturn(name, arg) ==
  Returns(name, arg, -1, None) /\ UNCHANGED <<blink_array, mp1_list_head, video>>

mp1_poke(v, location, char) == [v EXCEPT ![location] = char]

----------------------------------------------------------------------------
(* The pointers that a loop along NEXT meets, and the list they make: more *)
(* than POOL of them only if the list has become a circle.                 *)
Pointers ==
  LET p[n \in 1..(POOL + 1)] ==
        IF n = 1 THEN mp1_list_head
        ELSE LET c == p[n - 1] IN IF c = NULL THEN NULL ELSE blink_array[c].next
  IN p
List == SelectSeq(Pointers, LAMBDA c : c # NULL)

mp1_find_helper(location) ==
  LET list == List
      i == SelectInSeq(list, LAMBDA c : blink_array[c].location = location)
  IN IF i = 0 THEN NULL ELSE list[i]

(* mp1_malloc: the first structure whose location is 0.                    *)
mp1_malloc ==
  LET free == {c \in 1..POOL : blink_array[c].location = 0}
  IN IF free = {} THEN NULL ELSE CHOOSE c \in free : \A d \in free : c <= d

OffScreen(location) == location >= SCREEN

mp1_ioctl_add(r) ==
  IF OffScreen(r.location) \/ mp1_malloc = NULL THEN FailReturn("add", r)
  ELSE /\ blink_array' = [blink_array EXCEPT ![mp1_malloc] =
            [location |-> r.location, on_char |-> r.on_char, off_char |-> r.off_char,
             on_length |-> r.on_length, off_length |-> r.off_length,
             countdown |-> r.on_length, status |-> 1, next |-> mp1_list_head]]
       /\ mp1_list_head' = mp1_malloc
       /\ video' = mp1_poke(video, r.location, r.on_char)
       /\ Returns("add", r, 0, None)

(* The pointer to the element is redirected to its successor; mp1_free     *)
(* zeroes the element afterwards.                                          *)
Unlinked(array, c) ==
  [d \in 1..POOL |-> IF array[d].next = c THEN [array[d] EXCEPT !.next = array[c].next]
                     ELSE array[d]]
UnlinkedFreed(array, c) == Unlinked([array EXCEPT ![c] = Zeroed], c)
Removed(array, c) == [Unlinked(array, c) EXCEPT ![c] = Zeroed]

mp1_ioctl_remove(location) ==
  LET c == mp1_find_helper(location) IN
  IF c = NULL THEN FailReturn("remove", location)
  ELSE /\ blink_array' = Removed(blink_array, c)
       /\ mp1_list_head' = IF mp1_list_head = c THEN blink_array[c].next ELSE mp1_list_head
       /\ video' = video
       /\ Returns("remove", location, 0, None)

mp1_ioctl_find(location) ==
  LET c == mp1_find_helper(location) IN
  IF c = NULL THEN FailReturn("find", location)
  ELSE /\ Returns("find", location, 0, blink_array[c])
       /\ UNCHANGED <<blink_array, mp1_list_head, video>>

(* The off character is shown whatever the status: cmovl looks at the sign *)
(* of the tested bit and never moves.                                      *)
SyncedChar(b) == b.off_char

mp1_ioctl_sync(from, to) ==
  LET esi == mp1_find_helper(from)
      edi == mp1_find_helper(to)
  IN IF esi = NULL \/ edi = NULL THEN FailReturn("sync", <<from, to>>)
     ELSE LET b == [blink_array[edi] EXCEPT !.on_length = blink_array[esi].on_length,
                                            !.off_length = blink_array[esi].off_length,
                                            !.countdown = blink_array[esi].countdown,
                                            !.status = blink_array[esi].status]
          IN /\ blink_array' = [blink_array EXCEPT ![edi] = b]
             /\ video' = mp1_poke(video, to, SyncedChar(b))
             /\ mp1_list_head' = mp1_list_head
             /\ Returns("sync", <<from, to>>, 0, None)

----------------------------------------------------------------------------
(* One structure in the tasklet: the countdown wraps and is then compared  *)
(* as a signed word.                                                       *)
CountedDown(b) == (b.countdown + WORD - 1) % WORD
Expired(b) == CountedDown(b) \notin 1..(WORD \div 2 - 1)

Ticked(b) ==
  IF ~Expired(b) THEN [b EXCEPT !.countdown = CountedDown(b)]
  ELSE IF b.status = 1 THEN [b EXCEPT !.countdown = b.off_length, !.status = 0]
  ELSE [b EXCEPT !.countdown = b.on_length, !.status = 1]

ToggledChar(b) == IF b.status = 1 THEN b.off_char ELSE b.on_char

(* mp1_rtc_tasklet, along the list: of several structures for one place    *)
(* the last one decides.  It does not return from a circle.                *)
mp1_rtc_tasklet ==
  LET list == List
      due(p) == SelectLastInSeq(list, LAMBDA c : blink_array[c].location = p
                                                 /\ Expired(blink_array[c]))
  IN /\ Len(list) <= POOL
     /\ blink_array' = [c \in 1..POOL |-> IF c \in Range(list) THEN Ticked(blink_array[c])
                                          ELSE blink_array[c]]
     /\ video' = [p \in Places |-> IF due(p) = 0 THEN video[p]
                                   ELSE ToggledChar(blink_array[list[due(p)]])]
     /\ mp1_list_head' = mp1_list_head
     /\ Returns("tick", None, 0, None)

mp1_ioctl ==
  \/ \E r \in Requests : mp1_ioctl_add(r)
  \/ \E l \in Locations : mp1_ioctl_remove(l)
  \/ \E l \in Locations : mp1_ioctl_find(l)
  \/ \E l, m \in Locations : mp1_ioctl_sync(l, m)

Next == mp1_ioctl \/ mp1_rtc_tasklet

SafetySpec == Init /\ [][Next]_vars

----------------------------------------------------------------------------
Blinker(b) ==
  [location |-> b.location, on_char |-> b.on_char, off_char |-> b.off_char,
   on_length |-> b.on_length, off_length |-> b.off_length, on |-> b.status = 1,
   age |-> (IF b.status = 1 THEN b.on_length ELSE b.off_length) - b.countdown]

B == INSTANCE Blinkers
  WITH Capacity <- POOL, shown <- video,
       list <- LET l == List IN [i \in DOMAIN l |-> Blinker(blink_array[l[i]])],
       last <- IF last.copy = None THEN last ELSE [last EXCEPT !.copy = Blinker(@)]

(* Through any order of adding, removing, finding, synchronising and       *)
(* ticking, with several blinkers at one place and a full array: the       *)
(* linked list is the list of blinkers, no structure is lost or used       *)
(* twice, and each shows its characters for the lengths it was given.      *)
ImplementsBlinkers == B!BlinkersSpec

(* A synchronised blinker shows the character of its status.               *)
SyncShowsStatus ==
  last.name = "sync" /\ last.ret = 0 =>
    LET b == blink_array[mp1_find_helper(last.arg[2])]
    IN video[b.location] = IF b.status = 1 THEN b.on_char ELSE b.off_char
=============================================================================
