-------------------------------- MODULE RTC --------------------------------
(***************************************************************************)
(* The real-time clock driver: RTCOpen, RTCRead and RTCWrite called by one *)
(* thread per terminal, RTChandler, and the chip with its index and data   *)
(* ports.                                                                  *)
(*                                                                         *)
(* A register is accessed by an outb of its number to the index port and   *)
(* an inb or outb of the data port.  Nothing masks interrupts in between   *)
(* and every gate is a trap gate (idt_init.c:326), so the clock's own      *)
(* interrupt may come between two accesses of RTCWrite, and a timer tick   *)
(* (IRQ 0, of higher priority) between two accesses of RTCWrite or of      *)
(* RTChandler.  The history variables split, torn and missed record where  *)
(* that has gone wrong.                                                    *)
(***************************************************************************)
EXTENDS Integers, FiniteSets

CONSTANTS
  NUM_THREADS,     \* terminals, each with one thread (lib.h:19)
  Freqs            \* the frequencies programs pass to RTCWrite

ASSUME ThreadsAssumption == NUM_THREADS \in Nat \ {0}
ASSUME FreqsAssumption == Freqs \subseteq Nat

Threads == 0..(NUM_THREADS - 1)
None == -1

INIT_FREQ == 2
MIN_FREQ  == 2
MAX_FREQ  == 1024
BASE_FREQ == 32768

(* The bits of freq are counted, for one bit set exactly.                  *)
PowerOfTwo(freq) == Cardinality({i \in 0..30 : (freq \div 2^i) % 2 = 1}) = 1

ValidFreq(freq) == MIN_FREQ <= freq /\ freq <= MAX_FREQ /\ PowerOfTwo(freq)

(* The rate is 1 plus the halvings that bring BASE_FREQ down to freq.      *)
RateOneLow(freq) == CHOOSE n \in 0..15 :
  /\ BASE_FREQ \div 2^n <= freq
  /\ \A m \in 0..(n - 1) : BASE_FREQ \div 2^m > freq
Rate(freq) == 1 + CHOOSE n \in 0..15 :
  /\ BASE_FREQ \div 2^n <= freq
  /\ \A m \in 0..(n - 1) : BASE_FREQ \div 2^m > freq

VARIABLES
  index,           \* register the index port selects: "A", "C" or "other"
  div, rate,       \* high and low half of register A
  PF,              \* register C: periodic interrupt not yet acknowledged
  irq,             \* request latched by the PIC
  handler,         \* thread on whose stack RTChandler runs, None outside it
  hpc,             \* RTChandler: port access to make next
  curThread,
  RTC_read_flag,   \* one per terminal
  pc,              \* per thread: "user", in RTCWrite, or "wait" in RTCRead
  freq, prev,      \* per thread: locals of RTCWrite (prev's high half)
  told,            \* per thread: an interrupt was handled since its RTCRead began
  split,           \* threads in RTCWrite that have lost the selected register
  torn,            \* has such a thread written register A?
  missed           \* did the last RTChandler read another register than C?

chip  == <<index, div, rate, PF, irq>>
calls == <<RTC_read_flag, pc, freq, prev, told>>
history == <<split, torn, missed>>
vars  == <<chip, handler, hpc, curThread, calls, history>>

(* The chip's time base is 32768 Hz; RTC_init has selected 2 Hz and read   *)
(* register C.                                                             *)
DIV_32768 == 2
LOW4 == 15

Init ==
  /\ index = "C" /\ div = DIV_32768 /\ rate = LOW4 /\ PF = 0 /\ irq = 0
  /\ handler = None /\ hpc = "select"
  /\ curThread = 0
  /\ RTC_read_flag = [t \in Threads |-> 0]
  /\ pc = [t \in Threads |-> "user"]
  /\ freq = [t \in Threads |-> INIT_FREQ]
  /\ prev = [t \in Threads |-> 0]
  /\ told = [t \in Threads |-> FALSE]
  /\ split = {} /\ torn = FALSE /\ missed = FALSE

----------------------------------------------------------------------------
(* The chip.  Its line to the PIC rises when PF is set and falls when C is *)
(* read: a period that ends before C is read makes no new edge.  With any  *)
(* other time base the chip is taken to go on, though at another speed.    *)
Period ==
  /\ rate # 0
  /\ PF = 0
  /\ PF' = 1 /\ irq' = 1
  /\ UNCHANGED <<index, div, rate, handler, hpc, curThread, calls, history>>

(* What inb of the data port gives, high half, and does.  The bits of the  *)
(* other registers stand for no time base.                                 *)
HighHalf == IF index = "A" THEN div ELSE 0
DataRead == PF' = IF index = "C" THEN 0 ELSE PF

(* outb of the data port: register C is read-only.                         *)
DataWrite(high, low) ==
  IF index = "A" THEN div' = high /\ rate' = low ELSE UNCHANGED <<div, rate>>

----------------------------------------------------------------------------
(* The threads between the selection of a register and the access to it,   *)
(* which lose it when register r is selected now.                          *)
Losers(r) == {t \in Threads : pc[t] \in {"prev", "data"} /\ r # "A"}

(* PIThandler runs the next thread.                                        *)
Tick ==
  /\ curThread' = (curThread + 1) % NUM_THREADS
  /\ UNCHANGED <<chip, handler, hpc, calls, history>>

(* The CPU takes the RTC interrupt; until the EOI there is no other.       *)
Interrupt ==
  /\ irq = 1 /\ handler = None
  /\ irq' = 0
  /\ handler' = curThread /\ hpc' = "select"
  /\ missed' = FALSE
  /\ UNCHANGED <<index, div, rate, PF, curThread, calls, split, torn>>

(* RTChandler: select C, ...                                               *)
HandlerSelect ==
  /\ handler = curThread /\ hpc = "select"
  /\ index' = "C" /\ hpc' = "ack"
  /\ split' = split \cup Losers("C")
  /\ UNCHANGED <<div, rate, PF, irq, handler, curThread, calls, torn, missed>>

(* ... read the data port, which acknowledges the interrupt if C is still  *)
(* selected, ...                                                           *)
HandlerAck ==
  /\ handler = curThread /\ hpc = "ack"
  /\ DataRead
  /\ hpc' = "wake"
  /\ missed' = (index # "C")
  /\ UNCHANGED <<index, div, rate, irq, handler, curThread, calls, split, torn>>

FirstFlag == [RTC_read_flag EXCEPT ![0] = 0]
AllFlags == [t \in Threads |-> 0]

(* ... release the readers of all terminals and send the EOI.              *)
HandlerWake ==
  /\ handler = curThread /\ hpc = "wake"
  /\ RTC_read_flag' = AllFlags
  /\ told' = [t \in Threads |-> pc[t] = "wait"]
  /\ handler' = None /\ hpc' = "select"
  /\ UNCHANGED <<chip, curThread, pc, freq, prev, history>>

----------------------------------------------------------------------------
Goto(t, from, to) ==
  /\ t = curThread /\ handler # t
  /\ pc[t] = from
  /\ pc' = [pc EXCEPT ![t] = to]

(* RTCOpen: lower the flag, then RTCWrite of 2 Hz.                         *)
RTCOpen(t) ==
  /\ Goto(t, "user", "select")
  /\ RTC_read_flag' = [RTC_read_flag EXCEPT ![t] = 0]
  /\ freq' = [freq EXCEPT ![t] = INIT_FREQ]
  /\ UNCHANGED <<chip, handler, hpc, curThread, prev, told, history>>

(* RTCWrite with a valid frequency; with any other it returns -1.          *)
RTCWrite(t, f) ==
  /\ ValidFreq(f)
  /\ Goto(t, "user", "select")
  /\ freq' = [freq EXCEPT ![t] = f]
  /\ UNCHANGED <<chip, handler, hpc, curThread, RTC_read_flag, prev, told,
                 history>>

WriteSelect(t) ==
  /\ Goto(t, "select", "prev")
  /\ index' = "A"
  /\ UNCHANGED <<div, rate, PF, irq, handler, hpc, curThread, RTC_read_flag,
                 freq, prev, told, history>>

WritePrev(t) ==
  /\ Goto(t, "prev", "reselect")
  /\ prev' = [prev EXCEPT ![t] = HighHalf]
  /\ DataRead
  /\ UNCHANGED <<index, div, rate, irq, handler, hpc, curThread,
                 RTC_read_flag, freq, told, history>>

WriteReselect(t) ==
  /\ Goto(t, "reselect", "data")
  /\ index' = "A"
  /\ UNCHANGED <<div, rate, PF, irq, handler, hpc, curThread, RTC_read_flag,
                 freq, prev, told, history>>

(* The locals are not used after this.                                     *)
WriteData(t) ==
  /\ Goto(t, "data", "nmi")
  /\ DataWrite(prev[t], Rate(freq[t]))
  /\ torn' = (torn \/ t \in split)
  /\ freq' = [freq EXCEPT ![t] = INIT_FREQ]
  /\ prev' = [prev EXCEPT ![t] = 0]
  /\ split' = split \ {t}
  /\ UNCHANGED <<index, PF, irq, handler, hpc, curThread, RTC_read_flag, told, missed>>

(* outb(inb(RTC_PORT) & ~BIT8, RTC_PORT): whether the index port can be    *)
(* read back depends on the chip set.                                      *)
WriteNmi(t) ==
  /\ Goto(t, "nmi", "user")
  /\ index' \in {index, "other"}
  /\ split' = split \cup Losers(index')
  /\ UNCHANGED <<div, rate, PF, irq, handler, hpc, curThread, RTC_read_flag,
                 freq, prev, told, torn, missed>>

NotRaised(t) == RTC_read_flag
Raised(t) == [RTC_read_flag EXCEPT ![t] = 1]

(* RTCRead: raise the flag ...                                             *)
RTCRead(t) ==
  /\ Goto(t, "user", "wait")
  /\ RTC_read_flag' = Raised(t)
  /\ UNCHANGED <<chip, handler, hpc, curThread, freq, prev, told, history>>

(* ... and spin until it is down.                                          *)
ReadReturn(t) ==
  /\ Goto(t, "wait", "user")
  /\ RTC_read_flag[t] = 0
  /\ told' = [told EXCEPT ![t] = FALSE]
  /\ UNCHANGED <<chip, handler, hpc, curThread, RTC_read_flag, freq, prev, history>>

----------------------------------------------------------------------------
RTChandler == HandlerSelect \/ HandlerAck \/ HandlerWake

Driver(t) == WriteSelect(t) \/ WritePrev(t) \/ WriteReselect(t)
             \/ WriteData(t) \/ WriteNmi(t) \/ ReadReturn(t)

Next == Period \/ Tick \/ Interrupt \/ RTChandler
        \/ \E t \in Threads : \/ Driver(t) \/ RTCOpen(t) \/ RTCRead(t)
                              \/ \E f \in Freqs : RTCWrite(t, f)

(* The chip's clock runs, a latched request is accepted at some point at   *)
(* which the CPU is interruptible, the scheduler ticks, and the kernel     *)
(* code of a thread scheduled again and again goes on.                     *)
Fairness == /\ WF_vars(Period) /\ SF_vars(Interrupt) /\ SF_vars(Tick)
            /\ SF_vars(RTChandler)
            /\ \A t \in Threads : SF_vars(Driver(t))

SafetySpec == Init /\ [][Next]_vars
Spec == SafetySpec /\ Fairness

----------------------------------------------------------------------------
(* RTCRead blocks until the next interrupt: its flag is lowered only by a  *)
(* handler that runs after the call, whatever the other terminals do.      *)
ReadBlocksUntilInterrupt ==
  \A t \in Threads : pc[t] = "wait" /\ RTC_read_flag[t] = 0 => told[t]

(* A write that returns 0 has set the chip to the frequency asked for,     *)
(* whatever comes between its port accesses, unless another register was   *)
(* selected between its outb to the index port and the access that was     *)
(* meant for register A; and the time base stays what it was as long as no *)
(* such write has been made.                                               *)
WriteTakesEffect ==
  [][\A t \in Threads : pc[t] = "data" /\ pc'[t] = "nmi" /\ t \notin split =>
       /\ BASE_FREQ \div 2^(rate' - 1) = freq[t]
       /\ ~torn => div' = DIV_32768]_vars

(* Every RTCRead returns, however opens, writes, interrupts and ticks are  *)
(* interleaved between the port accesses, unless RTChandler has read the   *)
(* data port with another register than C selected: the interrupt is then  *)
(* not acknowledged and the chip falls silent.                             *)
ReadReturns == \A t \in Threads : pc[t] = "wait" ~> pc[t] = "user" \/ missed

(* What the comment above RTCWrite says: it returns with the device at the *)
(* specified frequency.  An interrupt between the two port accesses of the *)
(* write leaves register C selected, and the data goes there.              *)
WriteSetsFrequency ==
  [][\A t \in Threads : pc[t] = "data" /\ pc'[t] = "nmi" =>
       BASE_FREQ \div 2^(rate' - 1) = freq[t]]_vars
=============================================================================
