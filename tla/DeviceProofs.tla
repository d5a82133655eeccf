---------------------------- MODULE DeviceProofs ----------------------------
(***************************************************************************)
(* Proofs about two device drivers, each for its own specification.        *)
(*                                                                         *)
(* Keyboard: in every order of pressing, repeating and releasing keys the  *)
(* modifier flags follow the keys but for the codes KBhandler miscounts,   *)
(* and a key does what the flags say.                                      *)
(*                                                                         *)
(* RTC: wherever interrupts and ticks come, a read of the clock blocks     *)
(* until an interrupt has been handled, and a write that has not lost its  *)
(* register sets the chip to the frequency asked for.                      *)
(***************************************************************************)
EXTENDS Keyboard, RTC, TLAPS, FiniteSetTheorems

(* The flags are bits and only modifier keys are followed.                 *)
FlagTypes ==
  /\ capsFlag \in {0, 1}
  /\ shiftFlagL \in {0, 1} /\ shiftFlagR \in {0, 1}
  /\ ctrlFlagL \in {0, 1} /\ ctrlFlagR \in {0, 1}
  /\ altFlagL \in {0, 1} /\ altFlagR \in {0, 1}

(* The inductive invariant: a code that KBhandler counts changes its flag  *)
(* and the set of keys taken for pressed together, and what is done with a *)
(* key depends on the flags.                                               *)
KeyInv == FlagTypes /\ FlagsTrackKeys /\ KeyDoesWhatIsHeld

(* A bit that is toggled.                                                  *)
LEMMA ToggleBit ==
  ASSUME NEW f \in {0, 1}
  PROVE  Toggle(f) \in {0, 1} /\ Toggle(f) # f
BY DEF Toggle

(* The six flags one by one.                                               *)
LEMMA FlagByFlag ==
  FlagsTrackKeys <=> /\ ctrlFlagL = Bit("ctrlL" \in Taken)
                     /\ ctrlFlagR = Bit("ctrlR" \in Taken)
                     /\ altFlagL = Bit("altL" \in Taken)
                     /\ altFlagR = Bit("altR" \in Taken)
                     /\ shiftFlagL = Bit("shiftL" \in Taken)
                     /\ shiftFlagR = Bit("shiftR" \in Taken)
<1> HIDE DEF Taken, Bit
<1> QED  BY DEF FlagsTrackKeys, Flag, Modifiers, CtrlAlt, Shifts

LEMMA FlagByFlagAfter ==
  FlagsTrackKeys' <=> /\ ctrlFlagL' = Bit("ctrlL" \in Taken')
                      /\ ctrlFlagR' = Bit("ctrlR" \in Taken')
                      /\ altFlagL' = Bit("altL" \in Taken')
                      /\ altFlagR' = Bit("altR" \in Taken')
                      /\ shiftFlagL' = Bit("shiftL" \in Taken')
                      /\ shiftFlagR' = Bit("shiftR" \in Taken')
<1> HIDE DEF Taken, Bit
<1> QED  BY DEF FlagsTrackKeys, Flag, Modifiers, CtrlAlt, Shifts

(* A code that is counted turns its own key around and no other: a press   *)
(* or a release by moving it, a repetition by inverting its flag.          *)
LEMMA CountedFlips ==
  ASSUME NEW m \in Modifiers, Counted(m)
  PROVE  /\ m \in Taken' <=> m \notin Taken
         /\ \A k \in Modifiers \ {m} : k \in Taken' <=> k \in Taken
BY DEF Counted, Moves, Repeats, Flipped, Taken

(* A code that is swallowed leaves what KBhandler takes for pressed alone. *)
LEMMA LostKeeps ==
  ASSUME NEW m \in Modifiers, Lost(m)
  PROVE  Taken' = Taken
BY DEF Lost, Moves, Repeats, Flipped, Taken

(* The event of the last scan code is none.                                *)
LEMMA NoEvent == event' = <<"none">> => KeyDoesWhatIsHeld'
BY DEF KeyDoesWhatIsHeld

(* What the flags say of the keys, in the words of KBhandler's tests.      *)
LEMMA DownMeansTaken ==
  ASSUME FlagsTrackKeys
  PROVE  /\ CtrlDown <=> Taken \cap {"ctrlL", "ctrlR"} # {}
         /\ AltDown <=> Taken \cap {"altL", "altR"} # {}
         /\ Unmodified <=> Taken \cap CtrlAlt = {}
         /\ (shiftFlagL = 1 \/ shiftFlagR = 1) <=> Taken \cap Shifts # {}
BY FlagByFlag DEF Bit, CtrlDown, AltDown, Unmodified, CtrlAlt, Shifts

(* A step that changes neither flags nor keys.                             *)
LEMMA KeysAlone ==
  ASSUME KeyInv, UNCHANGED <<flags, held, inverted>>
  PROVE  FlagTypes' /\ FlagsTrackKeys' /\ Taken' = Taken
<1>1. Taken' = Taken
  BY DEF Taken
<1>2. FlagsTrackKeys'
  BY <1>1, FlagByFlag, FlagByFlagAfter DEF KeyInv, flags
<1> QED  BY <1>1, <1>2 DEF KeyInv, FlagTypes, flags

(* A character is looked up in the table its shift keys and caps lock      *)
(* select.                                                                 *)
LEMMA CharacterStep ==
  ASSUME KeyInv, NEW k \in DOMAIN ascii_scan, Character(k)
  PROVE  KeyInv'
<1>1. UNCHANGED <<flags, held, inverted>>
  BY DEF Character
<1>2. FlagTypes' /\ FlagsTrackKeys' /\ Taken' = Taken
  BY <1>1, KeysAlone
<1>3. event' = <<"char", k, ascii_scan[k][Table]>> /\ Unmodified
  BY DEF Character
<1>4. Taken \cap CtrlAlt = {}
  BY <1>3, DownMeansTaken DEF KeyInv
<1>5. k \in {"letter", "l", "symbol", "enter"}
  BY DEF ascii_scan
<1>6. k = "enter" => ascii_scan[k][Table] = "newline"
  BY DEF ascii_scan, Table, KeyInv, FlagTypes
<1>7. k \in {"letter", "l"} =>
        ascii_scan[k][Table] = IF (shiftFlagL = 1 \/ shiftFlagR = 1) # (capsFlag = 1)
                               THEN "upper" ELSE "lower"
  BY DEF ascii_scan, Table, KeyInv, FlagTypes
<1>8. k = "symbol" =>
        ascii_scan[k][Table] = IF shiftFlagL = 1 \/ shiftFlagR = 1
                               THEN "second" ELSE "first"
  BY DEF ascii_scan, Table, KeyInv, FlagTypes
<1>9. (shiftFlagL = 1 \/ shiftFlagR = 1) <=> Taken \cap Shifts # {}
  BY DownMeansTaken DEF KeyInv
<1>10. capsFlag' = capsFlag
  BY <1>1 DEF flags
<1>11. KeyDoesWhatIsHeld'
  <2> HIDE DEF Taken, Table
  <2> QED
    BY <1>2, <1>3, <1>4, <1>5, <1>6, <1>7, <1>8, <1>9, <1>10 DEF KeyDoesWhatIsHeld
<1> QED  BY <1>2, <1>11 DEF KeyInv

(* Every scan code keeps the invariant.                                    *)
LEMMA KeyStep ==
  ASSUME KeyInv, [KeyboardNext]_keyboardVars
  PROVE  KeyInv'
<1> USE DEF KeyInv
<1>1. CASE CtrlL
  <2>1. /\ "ctrlL" \in Taken' <=> "ctrlL" \notin Taken
        /\ \A k \in Modifiers \ {"ctrlL"} : k \in Taken' <=> k \in Taken
    BY <1>1, CountedFlips DEF CtrlL, Modifiers, CtrlAlt, Shifts
  <2>2. FlagTypes' /\ FlagsTrackKeys'
    <3> HIDE DEF Taken
    <3> QED
      BY <1>1, <2>1, ToggleBit, FlagByFlag, FlagByFlagAfter
         DEF CtrlL, FlagTypes, Bit, Modifiers, CtrlAlt, Shifts
  <2> QED  BY <1>1, <2>2, NoEvent DEF CtrlL
<1>2. CASE CtrlR
  <2>1. /\ "ctrlR" \in Taken' <=> "ctrlR" \notin Taken
        /\ \A k \in Modifiers \ {"ctrlR"} : k \in Taken' <=> k \in Taken
    BY <1>2, CountedFlips DEF CtrlR, Modifiers, CtrlAlt, Shifts
  <2>2. FlagTypes' /\ FlagsTrackKeys'
    <3> HIDE DEF Taken
    <3> QED
      BY <1>2, <2>1, ToggleBit, FlagByFlag, FlagByFlagAfter
         DEF CtrlR, FlagTypes, Bit, Modifiers, CtrlAlt, Shifts
  <2> QED  BY <1>2, <2>2, NoEvent DEF CtrlR
<1>3. CASE AltL
  <2>1. /\ "altL" \in Taken' <=> "altL" \notin Taken
        /\ \A k \in Modifiers \ {"altL"} : k \in Taken' <=> k \in Taken
    BY <1>3, CountedFlips DEF AltL, Modifiers, CtrlAlt, Shifts
  <2>2. FlagTypes' /\ FlagsTrackKeys'
    <3> HIDE DEF Taken
    <3> QED
      BY <1>3, <2>1, ToggleBit, FlagByFlag, FlagByFlagAfter
         DEF AltL, FlagTypes, Bit, Modifiers, CtrlAlt, Shifts
  <2> QED  BY <1>3, <2>2, NoEvent DEF AltL
<1>4. CASE AltR
  <2>1. /\ "altR" \in Taken' <=> "altR" \notin Taken
        /\ \A k \in Modifiers \ {"altR"} : k \in Taken' <=> k \in Taken
    BY <1>4, CountedFlips DEF AltR, Modifiers, CtrlAlt, Shifts
  <2>2. FlagTypes' /\ FlagsTrackKeys'
    <3> HIDE DEF Taken
    <3> QED
      BY <1>4, <2>1, ToggleBit, FlagByFlag, FlagByFlagAfter
         DEF AltR, FlagTypes, Bit, Modifiers, CtrlAlt, Shifts
  <2> QED  BY <1>4, <2>2, NoEvent DEF AltR
<1>5. CASE ShiftL
  <2>1. /\ "shiftL" \in Taken' <=> "shiftL" \notin Taken
        /\ \A k \in Modifiers \ {"shiftL"} : k \in Taken' <=> k \in Taken
    BY <1>5, CountedFlips DEF ShiftL, Modifiers, CtrlAlt, Shifts
  <2>2. FlagTypes' /\ FlagsTrackKeys'
    <3> HIDE DEF Taken
    <3> QED
      BY <1>5, <2>1, ToggleBit, FlagByFlag, FlagByFlagAfter
         DEF ShiftL, FlagTypes, Bit, Modifiers, CtrlAlt, Shifts
  <2> QED  BY <1>5, <2>2, NoEvent DEF ShiftL
<1>6. CASE ShiftR
  <2>1. /\ "shiftR" \in Taken' <=> "shiftR" \notin Taken
        /\ \A k \in Modifiers \ {"shiftR"} : k \in Taken' <=> k \in Taken
    BY <1>6, CountedFlips DEF ShiftR, Modifiers, CtrlAlt, Shifts
  <2>2. FlagTypes' /\ FlagsTrackKeys'
    <3> HIDE DEF Taken
    <3> QED
      BY <1>6, <2>1, ToggleBit, FlagByFlag, FlagByFlagAfter
         DEF ShiftR, FlagTypes, Bit, Modifiers, CtrlAlt, Shifts
  <2> QED  BY <1>6, <2>2, NoEvent DEF ShiftR
<1>7. CASE CapsLock
  <2>1. Taken' = Taken
    BY <1>7 DEF CapsLock, Taken
  <2>2. FlagTypes' /\ FlagsTrackKeys'
    BY <1>7, <2>1, ToggleBit, FlagByFlag, FlagByFlagAfter DEF CapsLock, FlagTypes
  <2> QED  BY <1>7, <2>2, NoEvent DEF CapsLock
<1>8. CASE Backspace
  <2>1. FlagTypes' /\ FlagsTrackKeys'
    BY <1>8, KeysAlone DEF Backspace
  <2> QED  BY <1>8, <2>1 DEF Backspace, KeyDoesWhatIsHeld
<1>9. CASE Ignored
  BY <1>9, KeysAlone, NoEvent DEF Ignored
(* A shift key that moves while KBhandler takes Ctrl or Alt for pressed is *)
(* swallowed: its flag keeps its value and changes its meaning.            *)
<1>10. ASSUME NEW k \in Shifts \cup Plain, Swallow(k)
       PROVE  FlagTypes' /\ FlagsTrackKeys'
  <2>1. Taken' = Taken
    <3>1. CASE k \in Shifts
      BY <1>10, <3>1, LostKeeps DEF Swallow, Modifiers
    <3>2. CASE k \notin Shifts
      BY <1>10, <3>2 DEF Swallow, Taken
    <3> QED  BY <3>1, <3>2
  <2>2. UNCHANGED flags
    BY <1>10 DEF Swallow
  <2> QED
    BY <2>1, <2>2, FlagByFlag, FlagByFlagAfter DEF flags, FlagTypes
<1>11. ASSUME NEW k \in Shifts \cup Plain, WithCtrl(k) PROVE KeyInv'
  <2>1. FlagTypes' /\ FlagsTrackKeys'
    BY <1>10, <1>11 DEF WithCtrl
  <2> QED  BY <1>11, <2>1 DEF WithCtrl, KeyDoesWhatIsHeld
<1>12. ASSUME NEW k \in Shifts \cup Plain, WithAlt(k) PROVE KeyInv'
  <2>1. FlagTypes' /\ FlagsTrackKeys'
    BY <1>10, <1>12 DEF WithAlt
  <2> QED  BY <1>12, <2>1, NoEvent DEF WithAlt
<1>13. ASSUME NEW n \in Terminals, Switch(n) PROVE KeyInv'
  <2>1. FlagTypes' /\ FlagsTrackKeys' /\ Taken' = Taken
    BY <1>13, KeysAlone DEF Switch
  <2>2. Taken \cap {"altL", "altR"} # {} /\ Taken \cap {"ctrlL", "ctrlR"} = {}
    BY <1>13, DownMeansTaken DEF Switch
  <2>3. event' = <<"switch", n>>
    BY <1>13 DEF Switch
  <2>4. KeyDoesWhatIsHeld'
    <3> HIDE DEF Taken
    <3> QED  BY <2>1, <2>2, <2>3 DEF KeyDoesWhatIsHeld
  <2> QED  BY <2>1, <2>4
<1>14. ASSUME NEW k \in DOMAIN ascii_scan, Character(k) PROVE KeyInv'
  BY <1>14, CharacterStep
<1>15. CASE UNCHANGED keyboardVars
  <2>1. FlagTypes' /\ FlagsTrackKeys' /\ Taken' = Taken
    BY <1>15, KeysAlone DEF keyboardVars
  <2> QED  BY <1>15, <2>1 DEF keyboardVars, flags, KeyDoesWhatIsHeld
<1> QED
  BY <1>1, <1>2, <1>3, <1>4, <1>5, <1>6, <1>7, <1>8, <1>9, <1>11, <1>12, <1>13,
     <1>14, <1>15 DEF KeyboardNext

(* The invariant holds.                                                    *)
LEMMA KeyInvariant == KeyboardSpec => []KeyInv
<1>1. ASSUME KeyboardInit PROVE KeyInv
  <2>1. FlagTypes
    BY <1>1 DEF KeyboardInit, FlagTypes
  <2>2. Taken = {}
    BY <1>1 DEF KeyboardInit, Taken
  <2>3. FlagsTrackKeys
    BY <1>1, <2>2, FlagByFlag DEF KeyboardInit, Bit
  <2>4. KeyDoesWhatIsHeld
    BY <1>1 DEF KeyboardInit, KeyDoesWhatIsHeld
  <2> QED  BY <2>1, <2>3, <2>4 DEF KeyInv
<1>2. KeyInv /\ [KeyboardNext]_keyboardVars => KeyInv'
  BY KeyStep
<1> QED  BY <1>1, <1>2, PTL DEF KeyboardSpec

(* For any number of terminals and any sequence of scan codes, repeated    *)
(* ones among them, each of KBhandler's flags says whether its key is      *)
(* down, turned around once for every code that was miscounted: a          *)
(* repetition of that key, or a move of it swallowed under Ctrl or Alt.    *)
THEOREM FlagsFollowKeys == KeyboardSpec => []FlagsTrackKeys
BY KeyInvariant, PTL DEF KeyInv

(* KBhandler types a character only with no Ctrl or Alt key taken for      *)
(* pressed, from the table the shift keys and caps lock ask for, and       *)
(* switches terminals only with Alt and without Ctrl.                      *)
THEOREM KeysDoWhatIsHeld == KeyboardSpec => []KeyDoesWhatIsHeld
BY KeyInvariant, PTL DEF KeyInv

----------------------------------------------------------------------------
(* The points of a thread: in its program, in RTCWrite, in RTCRead.        *)
WritePoints == {"select", "prev", "reselect", "data", "nmi"}
CallPoints  == {"user", "wait"} \cup WritePoints

(* Functions over the threads, and the thread that runs.                   *)
RTCTypes ==
  /\ curThread \in Threads
  /\ handler \in Threads \cup {None}
  /\ pc \in [Threads -> CallPoints]
  /\ RTC_read_flag \in [Threads -> {0, 1}]
  /\ freq \in [Threads -> Nat]
  /\ DOMAIN prev = Threads
  /\ told \in [Threads -> BOOLEAN]

(* The scheduler's next thread is a thread.                                *)
LEMMA NextThreadIs == \A t \in Threads : (t + 1) % NUM_THREADS \in Threads
BY ThreadsAssumption DEF Threads

LEMMA RTCTypesInit == Init => RTCTypes
<1>1. 0 \in Threads
  BY ThreadsAssumption DEF Threads
<1>2. Init => told \in [Threads -> BOOLEAN]
  BY Zenon DEF Init
<1> QED  BY <1>1, <1>2 DEF Init, RTCTypes, CallPoints, INIT_FREQ

LEMMA RTCTypesStep == RTCTypes /\ [Next]_vars => RTCTypes'
<1> SUFFICES ASSUME RTCTypes, [Next]_vars PROVE RTCTypes'
  OBVIOUS
<1> USE DEF RTCTypes, CallPoints, WritePoints
<1>1. CASE Period
  BY <1>1 DEF Period, calls
<1>2. CASE Tick
  BY <1>2, NextThreadIs DEF Tick, calls
<1>3. CASE Interrupt
  BY <1>3 DEF Interrupt, calls
<1>4. CASE HandlerSelect
  BY <1>4 DEF HandlerSelect, calls
<1>5. CASE HandlerAck
  BY <1>5 DEF HandlerAck, calls
<1>6. CASE HandlerWake
  <2>1. told' \in [Threads -> BOOLEAN]
    BY <1>6, Zenon DEF HandlerWake, RTCTypes
  <2> QED  BY <1>6, <2>1 DEF HandlerWake, AllFlags
<1>7. ASSUME NEW t \in Threads, RTCOpen(t) PROVE RTCTypes'
  BY <1>7 DEF RTCOpen, Goto, INIT_FREQ
<1>8. ASSUME NEW t \in Threads, NEW f \in Freqs, RTCWrite(t, f) PROVE RTCTypes'
  BY <1>8, FreqsAssumption DEF RTCWrite, Goto
<1>9. ASSUME NEW t \in Threads, WriteSelect(t) PROVE RTCTypes'
  BY <1>9 DEF WriteSelect, Goto
<1>10. ASSUME NEW t \in Threads, WritePrev(t) PROVE RTCTypes'
  BY <1>10 DEF WritePrev, Goto
<1>11. ASSUME NEW t \in Threads, WriteReselect(t) PROVE RTCTypes'
  BY <1>11 DEF WriteReselect, Goto
<1>12. ASSUME NEW t \in Threads, WriteData(t) PROVE RTCTypes'
  BY <1>12 DEF WriteData, Goto, INIT_FREQ
<1>13. ASSUME NEW t \in Threads, WriteNmi(t) PROVE RTCTypes'
  BY <1>13 DEF WriteNmi, Goto
<1>14. ASSUME NEW t \in Threads, RTCRead(t) PROVE RTCTypes'
  BY <1>14 DEF RTCRead, Goto, Raised
<1>15. ASSUME NEW t \in Threads, ReadReturn(t) PROVE RTCTypes'
  <2>1. told' \in [Threads -> BOOLEAN]
    BY <1>15, Zenon DEF ReadReturn
  <2> QED  BY <1>15, <2>1 DEF ReadReturn, Goto
<1>16. CASE UNCHANGED vars
  BY <1>16 DEF vars, calls
<1> QED
  BY <1>1, <1>2, <1>3, <1>4, <1>5, <1>6, <1>7, <1>8, <1>9, <1>10, <1>11, <1>12,
     <1>13, <1>14, <1>15, <1>16 DEF Next, RTChandler, Driver

----------------------------------------------------------------------------
(* Every step keeps the promise of RTCRead: only the handler lowers the    *)
(* flag of a thread that waits.                                            *)
LEMMA BlocksStep ==
  RTCTypes /\ ReadBlocksUntilInterrupt /\ [Next]_vars => ReadBlocksUntilInterrupt'
<1> SUFFICES ASSUME RTCTypes, ReadBlocksUntilInterrupt, [Next]_vars
             PROVE  ReadBlocksUntilInterrupt'
  OBVIOUS
<1> USE DEF RTCTypes, ReadBlocksUntilInterrupt
<1>1. CASE Period \/ Tick \/ Interrupt \/ HandlerSelect \/ HandlerAck \/ UNCHANGED vars
  BY <1>1 DEF Period, Tick, Interrupt, HandlerSelect, HandlerAck, vars, calls
<1>2. CASE HandlerWake
  BY <1>2 DEF HandlerWake
<1>3. ASSUME NEW t \in Threads, RTCOpen(t) PROVE ReadBlocksUntilInterrupt'
  BY <1>3 DEF RTCOpen, Goto
<1>4. ASSUME NEW t \in Threads, NEW f \in Freqs, RTCWrite(t, f)
      PROVE  ReadBlocksUntilInterrupt'
  BY <1>4 DEF RTCWrite, Goto
<1>5. ASSUME NEW t \in Threads, WriteSelect(t) \/ WritePrev(t) \/ WriteReselect(t)
      PROVE  ReadBlocksUntilInterrupt'
  BY <1>5 DEF WriteSelect, WritePrev, WriteReselect, Goto
<1>6. ASSUME NEW t \in Threads, WriteData(t) \/ WriteNmi(t)
      PROVE  ReadBlocksUntilInterrupt'
  BY <1>6 DEF WriteData, WriteNmi, Goto
<1>7. ASSUME NEW t \in Threads, RTCRead(t) PROVE ReadBlocksUntilInterrupt'
  BY <1>7 DEF RTCRead, Raised, Goto
<1>8. ASSUME NEW t \in Threads, ReadReturn(t) PROVE ReadBlocksUntilInterrupt'
  BY <1>8 DEF ReadReturn, Goto
<1> QED
  BY <1>1, <1>2, <1>3, <1>4, <1>5, <1>6, <1>7, <1>8 DEF Next, RTChandler, Driver

(* For every number of terminals, and wherever the clock's interrupt and   *)
(* the ticks split the port accesses, RTCRead does not return before       *)
(* RTChandler has run after the call, whatever the other terminals do with *)
(* their flags.                                                            *)
THEOREM ReadBlocks == SafetySpec => []ReadBlocksUntilInterrupt
<1>1. Init => ReadBlocksUntilInterrupt
  BY DEF Init, ReadBlocksUntilInterrupt
<1> QED
  BY <1>1, RTCTypesInit, RTCTypesStep, BlocksStep, PTL DEF SafetySpec

----------------------------------------------------------------------------
(* The frequencies RTCWrite accepts.                                       *)
PowFreqs == {2, 4, 8, 16, 32, 64, 128, 256, 512, 1024}

(* Bit i of a frequency, and BASE_FREQ halved n times.                     *)
FreqBit(f, i) == (f \div 2^i) % 2
Half(n) == BASE_FREQ \div 2^n

(* A valid frequency has one bit set, and it is one of ten.                *)
LEMMA ValidFreqIs ==
  ASSUME NEW f \in Nat, ValidFreq(f)
  PROVE  f \in PowFreqs
<1> DEFINE Ones == {i \in 0..30 : FreqBit(f, i) = 1}
<1>1. f \in 2..1024
  BY DEF ValidFreq, MIN_FREQ, MAX_FREQ
<1>2. Cardinality(Ones) = 1
  BY Zenon DEF ValidFreq, PowerOfTwo, FreqBit
<1>3. IsFiniteSet(Ones)
  <2>1. 0 \in Int /\ 30 \in Int
    OBVIOUS
  <2>2. IsFiniteSet(0..30)
    BY <2>1, FS_Interval, Zenon
  <2>3. Ones \in SUBSET (0..30)
    OBVIOUS
  <2> QED  BY <2>2, <2>3, FS_Subset
<1>4. PICK b : Ones = {b}
  <2> HIDE DEF Ones
  <2> QED  BY <1>2, <1>3, FS_Singleton
<1>5. \A i \in 0..10 : i # b => FreqBit(f, i) # 1
  <2>1. \A i \in 0..10 : i \in 0..30
    OBVIOUS
  <2> QED  BY <1>4, <2>1, Zenon
<1>6. /\ 0 # b => FreqBit(f, 0) # 1
      /\ 1 # b => FreqBit(f, 1) # 1
      /\ 2 # b => FreqBit(f, 2) # 1
      /\ 3 # b => FreqBit(f, 3) # 1
      /\ 4 # b => FreqBit(f, 4) # 1
      /\ 5 # b => FreqBit(f, 5) # 1
      /\ 6 # b => FreqBit(f, 6) # 1
      /\ 7 # b => FreqBit(f, 7) # 1
      /\ 8 # b => FreqBit(f, 8) # 1
      /\ 9 # b => FreqBit(f, 9) # 1
      /\ 10 # b => FreqBit(f, 10) # 1
  BY <1>5
<1> HIDE DEF Ones
<1> QED  BY <1>1, <1>6, SMTT(60) DEF PowFreqs, FreqBit

(* The sixteen values RTCWrite's loop goes through.                        *)
LEMMA HalfIs ==
  /\ Half(0) = 32768 /\ Half(1) = 16384 /\ Half(2) = 8192 /\ Half(3) = 4096
  /\ Half(4) = 2048 /\ Half(5) = 1024 /\ Half(6) = 512 /\ Half(7) = 256
  /\ Half(8) = 128 /\ Half(9) = 64 /\ Half(10) = 32 /\ Half(11) = 16
  /\ Half(12) = 8 /\ Half(13) = 4 /\ Half(14) = 2 /\ Half(15) = 1
BY DEF Half, BASE_FREQ

(* RTCWrite's loop finds the rate of each frequency it accepts.            *)
LEMMA RateIs ==
  ASSUME NEW f \in PowFreqs
  PROVE  BASE_FREQ \div 2^(Rate(f) - 1) = f
<1> DEFINE Found(n) == Half(n) <= f /\ \A m \in 0..(n - 1) : Half(m) > f
           n0 == CHOOSE n \in 0..15 : Found(n)
<1>1. PICK n \in 0..15 : Half(n) = f
  BY HalfIs DEF PowFreqs
<1>2. \A i, j \in 0..15 : i < j => Half(i) > Half(j)
  BY HalfIs, SMTT(60)
<1>3. Found(n)
  BY <1>1, <1>2 DEF PowFreqs
<1>4. n0 \in 0..15 /\ Found(n0)
  BY <1>3
<1>5. Half(n0) = f
  <2> HIDE DEF n0
  <2>1. ~(n < n0)
    BY <1>1, <1>4 DEF PowFreqs
  <2>2. ~(n0 < n)
    <3> SUFFICES ASSUME n0 < n PROVE FALSE
      OBVIOUS
    <3>1. Half(n0) > Half(n)
      BY <1>1, <1>2, <1>4
    <3>2. Half(n0) <= f
      BY <1>4
    <3>3. Half(n0) \in Int
      <4>1. \A i \in 0..15 : Half(i) \in Int
        BY HalfIs
      <4> QED  BY <1>4, <4>1
    <3> QED  BY <1>1, <3>1, <3>2, <3>3 DEF PowFreqs
  <2> QED  BY <1>1, <1>4, <2>1, <2>2
<1>6. Rate(f) = 1 + n0
  BY Zenon DEF Rate, Half
<1> HIDE DEF n0
<1>7. Rate(f) - 1 = n0
  BY <1>4, <1>6
<1> QED  BY <1>5, <1>7, Zenon DEF Half

----------------------------------------------------------------------------
(* A thread that has not lost its register finds it selected where         *)
(* RTCWrite relies on it, and until a thread that has lost it writes       *)
(* register A, what RTCWrite has read there is the time base.              *)
PortInv ==
  /\ ~torn => div = DIV_32768
  /\ \A t \in Threads :
       /\ pc[t] \in WritePoints => freq[t] \in PowFreqs
       /\ t \notin split /\ pc[t] \in {"prev", "data"} => index = "A"
       /\ t \notin split /\ ~torn /\ pc[t] \in {"reselect", "data"} =>
            prev[t] = DIV_32768

LEMMA PortStep ==
  ASSUME RTCTypes, PortInv, [Next]_vars
  PROVE  PortInv'
<1> USE DEF RTCTypes, PortInv, CallPoints, WritePoints
<1>1. CASE Period
  BY <1>1 DEF Period, calls, history
<1>2. CASE Tick
  BY <1>2 DEF Tick, chip, calls, history
<1>3. CASE Interrupt
  BY <1>3 DEF Interrupt, calls
<1>4. CASE HandlerSelect
  BY <1>4 DEF HandlerSelect, calls, Losers
<1>5. CASE HandlerAck \/ HandlerWake
  BY <1>5 DEF HandlerAck, HandlerWake, calls, chip, history
<1>6. ASSUME NEW t \in Threads, RTCOpen(t) PROVE PortInv'
  BY <1>6 DEF RTCOpen, Goto, chip, history, INIT_FREQ, PowFreqs
<1>7. ASSUME NEW t \in Threads, NEW f \in Freqs, RTCWrite(t, f) PROVE PortInv'
  <2>1. f \in PowFreqs
    BY <1>7, FreqsAssumption, ValidFreqIs DEF RTCWrite
  <2> QED  BY <1>7, <2>1 DEF RTCWrite, Goto, chip, history
<1>8. ASSUME NEW t \in Threads, WriteSelect(t) PROVE PortInv'
  BY <1>8 DEF WriteSelect, Goto, history
<1>9. ASSUME NEW t \in Threads, WritePrev(t) PROVE PortInv'
  <2>1. t \notin split /\ ~torn => HighHalf = DIV_32768
    BY <1>9 DEF WritePrev, Goto, HighHalf
  <2> QED  BY <1>9, <2>1 DEF WritePrev, Goto, history
<1>10. ASSUME NEW t \in Threads, WriteReselect(t) PROVE PortInv'
  BY <1>10 DEF WriteReselect, Goto, history
<1>11. ASSUME NEW t \in Threads, WriteData(t) PROVE PortInv'
  <2>1. ~torn' => ~torn /\ t \notin split
    BY <1>11 DEF WriteData
  <2>2. ~torn' => div' = DIV_32768
    BY <1>11, <2>1 DEF WriteData, DataWrite, Goto
  <2>3. /\ pc'[t] = "nmi" /\ freq'[t] = INIT_FREQ
        /\ \A u \in Threads : u # t => /\ pc'[u] = pc[u] /\ freq'[u] = freq[u]
                                       /\ prev'[u] = prev[u]
    BY <1>11 DEF WriteData, Goto
  <2>4. index' = index /\ \A u \in Threads : u # t /\ u \notin split' => u \notin split
    BY <1>11 DEF WriteData
  <2> QED  BY <2>1, <2>2, <2>3, <2>4 DEF INIT_FREQ, PowFreqs
<1>12. ASSUME NEW t \in Threads, WriteNmi(t) PROVE PortInv'
  <2>1. index' # "A" =>
          \A u \in Threads : pc[u] \in {"prev", "data"} => u \in split'
    BY <1>12 DEF WriteNmi, Losers
  <2>2. split \subseteq split' /\ UNCHANGED <<div, torn, freq, prev>>
    BY <1>12 DEF WriteNmi
  <2>3. pc'[t] = "user" /\ \A u \in Threads : u # t => pc'[u] = pc[u]
    BY <1>12 DEF WriteNmi, Goto
  <2> QED  BY <2>1, <2>2, <2>3
<1>13. ASSUME NEW t \in Threads, RTCRead(t) \/ ReadReturn(t) PROVE PortInv'
  BY <1>13 DEF RTCRead, ReadReturn, Goto, chip, history
<1>14. CASE UNCHANGED vars
  BY <1>14 DEF vars, calls, chip, history
<1> QED
  BY <1>1, <1>2, <1>3, <1>4, <1>5, <1>6, <1>7, <1>8, <1>9, <1>10, <1>11, <1>12,
     <1>13, <1>14 DEF Next, RTChandler, Driver

(* For every number of terminals and every set of frequencies passed, and  *)
(* with interrupts and ticks between any two port accesses, a write that   *)
(* RTCWrite accepts leaves the chip at the frequency asked for unless its  *)
(* register was deselected in between, and the time base is right as long  *)
(* as no such write has been made.                                         *)
THEOREM WritesTakeEffect == SafetySpec => WriteTakesEffect
<1> DEFINE Effect == \A t \in Threads :
                       pc[t] = "data" /\ pc'[t] = "nmi" /\ t \notin split =>
                         /\ BASE_FREQ \div 2^(rate' - 1) = freq[t]
                         /\ ~torn => div' = DIV_32768
<1>1. Init => PortInv
  BY DEF Init, PortInv, WritePoints
<1>2. RTCTypes /\ PortInv /\ [Next]_vars => PortInv'
  BY PortStep
<1>3. ASSUME RTCTypes, PortInv, [Next]_vars PROVE [Effect]_vars
  <2> SUFFICES ASSUME NEW t \in Threads, pc[t] = "data", pc'[t] = "nmi", t \notin split
               PROVE  /\ BASE_FREQ \div 2^(rate' - 1) = freq[t]
                      /\ ~torn => div' = DIV_32768
    OBVIOUS
  <2>1. WriteData(t)
    <3>1. ~UNCHANGED pc
      OBVIOUS
    <3>2. ~(Period \/ Tick \/ Interrupt \/ RTChandler \/ UNCHANGED vars)
      BY <3>1 DEF Period, Tick, Interrupt, RTChandler, HandlerSelect, HandlerAck,
                  HandlerWake, vars, calls
    <3>3. \A u \in Threads : ~(RTCOpen(u) \/ RTCRead(u) \/ ReadReturn(u)
                               \/ \E f \in Freqs : RTCWrite(u, f))
      BY <1>3 DEF RTCOpen, RTCRead, ReadReturn, RTCWrite, Goto, RTCTypes
    <3>4. \A u \in Threads : ~(WriteSelect(u) \/ WritePrev(u) \/ WriteReselect(u)
                               \/ WriteNmi(u))
      BY <1>3 DEF WriteSelect, WritePrev, WriteReselect, WriteNmi, Goto, RTCTypes
    <3>5. PICK u \in Threads : WriteData(u)
      BY <1>3, <3>2, <3>3, <3>4 DEF Next, Driver
    <3>6. u = t
      BY <1>3, <3>5 DEF WriteData, Goto, RTCTypes
    <3> QED  BY <3>5, <3>6
  <2>2. index = "A" /\ (~torn => prev[t] = DIV_32768) /\ freq[t] \in PowFreqs
    BY <1>3 DEF PortInv, WritePoints
  <2>3. div' = prev[t] /\ rate' = Rate(freq[t])
    BY <2>1, <2>2 DEF WriteData, DataWrite
  <2> QED  BY <2>2, <2>3, RateIs
<1> QED
  BY <1>1, <1>2, <1>3, RTCTypesInit, RTCTypesStep, PTL DEF SafetySpec, WriteTakesEffect
=============================================================================
