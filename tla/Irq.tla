-------------------------------- MODULE Irq --------------------------------
(***************************************************************************)
(* The two 8259 interrupt controllers and how the handlers of the timer,   *)
(* the keyboard and the clock nest, over the threads and the two endless   *)
(* loops of the kernel (hlt in entry, while(1) in sys_halt).               *)
(*                                                                         *)
(* Every gate leaves interrupts enabled (idt_init.c:326), so what may      *)
(* interrupt what is decided by the controllers alone: a line is delivered *)
(* when no line of the same or a higher priority is in service, and it     *)
(* stays in service until its handler sends the EOI.  The timer has the    *)
(* highest priority and sends its EOI after it has changed threads, so a   *)
(* tick is one step.  The other modules rely on NoReentry.                 *)
(***************************************************************************)
EXTENDS Integers, Sequences, SequencesExt

CONSTANTS
  NUM_THREADS,  \* terminals, each with one thread (lib.h:19)
  MaxFrames     \* bound: handler frames on one thread's stack

ASSUME ThreadsAssumption == NUM_THREADS \in Nat /\ NUM_THREADS >= 2
ASSUME BoundAssumption == MaxFrames \in Nat \ {0}

Threads == 0..(NUM_THREADS - 1)

IRQ_MAX == 15
NUM_IRQS_PER_PIC == 8
SLAVE_IRQ_PIN_ON_MASTER == 2
PIT_IRQ == 0
KB_IRQ  == 1
SLAVE_IRQ == 2
RTC_IRQ == 8

Devices == {KB_IRQ, RTC_IRQ}
Lines == 0..(NUM_IRQS_PER_PIC - 1)

VARIABLES
  master_mask, slave_mask,  \* the lines that are masked
  masterISR, slaveISR,      \* the lines in service
  request,                  \* devices that have raised their line
  boot,                     \* lines entry() is still to enable, in order
  curThread,
  code,                     \* per thread: what runs below the handlers
  frames,                   \* per thread: handlers on its stack, the last on top
  abandoned                 \* history: interrupts whose handler was left for ever
                            \* before its EOI

pic  == <<master_mask, slave_mask, masterISR, slaveISR>>
vars == <<pic, request, boot, curThread, code, frames, abandoned>>

----------------------------------------------------------------------------
(* i8259.c: each operator takes the registers and gives what they become.  *)
Valid(irq) == irq <= IRQ_MAX
OnMaster(irq) == irq < NUM_IRQS_PER_PIC

enable_irq(irq) ==
  /\ master_mask' = IF Valid(irq) /\ OnMaster(irq) THEN master_mask \ {irq} ELSE master_mask
  /\ slave_mask' = IF Valid(irq) /\ ~OnMaster(irq)
                   THEN slave_mask \ {irq - NUM_IRQS_PER_PIC} ELSE slave_mask

(* The lines of the two controllers that an interrupt occupies, and that   *)
(* send_eoi releases.                                                      *)
MasterLine(irq) == IF OnMaster(irq) THEN irq ELSE SLAVE_IRQ_PIN_ON_MASTER
SlaveLines(irq) == IF OnMaster(irq) THEN {} ELSE {irq - NUM_IRQS_PER_PIC}

EoiPinKept(irq) ==
  /\ masterISR' = IF OnMaster(irq) THEN masterISR \ {irq} ELSE masterISR
  /\ slaveISR' = slaveISR \ SlaveLines(irq)
EoiNonSpecific(irq) ==
  /\ masterISR' = {i \in masterISR : \E j \in masterISR : j < i}
  /\ slaveISR' = slaveISR \ SlaveLines(irq)
send_eoi(irq) ==
  /\ masterISR' = masterISR \ {MasterLine(irq)}
  /\ slaveISR' = slaveISR \ SlaveLines(irq)

(* After i8259_init: every line is masked; entry() enables four of them    *)
(* and then interrupts.                                                    *)
Init ==
  /\ master_mask = Lines /\ slave_mask = Lines
  /\ masterISR = {} /\ slaveISR = {}
  /\ request = {}
  /\ boot = <<PIT_IRQ, KB_IRQ, SLAVE_IRQ, RTC_IRQ>>
  /\ curThread = 0
  /\ code = [t \in Threads |-> "off"]
  /\ frames = [t \in Threads |-> <<>>]
  /\ abandoned = {}

EnableLine ==
  /\ boot # <<>>
  /\ enable_irq(Head(boot))
  /\ boot' = Tail(boot)
  /\ UNCHANGED <<masterISR, slaveISR, request, curThread, code, frames, abandoned>>

----------------------------------------------------------------------------
(* A device raises its line; the controller latches the edge.              *)
Raise(irq) ==
  /\ irq \notin request
  /\ request' = request \cup {irq}
  /\ UNCHANGED <<pic, boot, curThread, code, frames, abandoned>>

(* The controllers deliver irq: it is not masked, and nothing of its own   *)
(* or a higher priority is in service.                                     *)
Delivered(irq) ==
  /\ boot = <<>>
  /\ MasterLine(irq) \notin master_mask /\ SlaveLines(irq) \cap slave_mask = {}
  /\ \A i \in masterISR : MasterLine(irq) < i
  /\ \A s \in SlaveLines(irq), i \in slaveISR : s < i

InService(irq) ==
  /\ masterISR' = masterISR \cup {MasterLine(irq)}
  /\ slaveISR' = slaveISR \cup SlaveLines(irq)

(* The CPU enters KBhandler or RTChandler on the current stack.            *)
Enter(irq) ==
  /\ irq \in request /\ Delivered(irq)
  /\ Len(frames[curThread]) < MaxFrames
  /\ InService(irq)
  /\ request' = request \ {irq}
  /\ frames' = [frames EXCEPT ![curThread] = Append(@, [irq |-> irq, eoi |-> FALSE])]
  /\ UNCHANGED <<master_mask, slave_mask, boot, curThread, code, abandoned>>

OnTop == Last(frames[curThread])

(* The handler on top sends its EOI ...                                    *)
HandlerEoi ==
  /\ frames[curThread] # <<>> /\ ~OnTop.eoi
  /\ send_eoi(OnTop.irq)
  /\ frames' = [frames EXCEPT ![curThread] = Append(Front(@), [OnTop EXCEPT !.eoi = TRUE])]
  /\ UNCHANGED <<master_mask, slave_mask, request, boot, curThread, code, abandoned>>

(* ... and returns to what it interrupted.                                 *)
HandlerIret ==
  /\ frames[curThread] # <<>> /\ OnTop.eoi
  /\ frames' = [frames EXCEPT ![curThread] = Front(@)]
  /\ UNCHANGED <<pic, request, boot, curThread, code, abandoned>>

----------------------------------------------------------------------------
NextThread == (curThread + 1) % NUM_THREADS

(* The thread has no shell: it is in one of the endless loops.             *)
InLoop(t) == code[t] # "shell"

(* Frame k of thread t is a handler of irq that has not sent its EOI.      *)
Active(irq, t, k) ==
  k <= Len(frames[t]) /\ frames[t][k] = [irq |-> irq, eoi |-> FALSE]

Unfinished(t) == {irq \in Devices : \E k \in 1..MaxFrames : Active(irq, t, k)}

(* Line 0 is in service from the delivery to the EOI, both within a tick.  *)
TickDelivered ==
  /\ Delivered(PIT_IRQ)
  /\ masterISR' = (masterISR \cup {PIT_IRQ}) \ {PIT_IRQ}
  /\ slaveISR' = slaveISR

(* sys_execute("shell") does not return to PIThandler: whatever is on the  *)
(* stack below it is left there for ever.                                  *)
TickStartCurrent ==
  /\ TickDelivered
  /\ InLoop(curThread)
  /\ code' = [code EXCEPT ![curThread] = "shell"]
  /\ frames' = [frames EXCEPT ![curThread] = <<>>]
  /\ abandoned' = abandoned \cup Unfinished(curThread)
  /\ UNCHANGED <<master_mask, slave_mask, request, boot, curThread>>

(* On the way to another thread the handlers of this one are suspended.    *)
TickStartNext ==
  /\ TickDelivered
  /\ ~InLoop(curThread) /\ InLoop(NextThread)
  /\ code' = [code EXCEPT ![NextThread] = "shell"]
  /\ curThread' = NextThread
  /\ UNCHANGED <<master_mask, slave_mask, request, boot, frames, abandoned>>

TickSwitch ==
  /\ TickDelivered
  /\ ~InLoop(curThread) /\ ~InLoop(NextThread)
  /\ curThread' = NextThread
  /\ UNCHANGED <<master_mask, slave_mask, request, boot, code, frames, abandoned>>

(* The base shell of the current thread halts and waits for a tick.        *)
HaltBase ==
  /\ code[curThread] = "shell" /\ frames[curThread] = <<>>
  /\ code' = [code EXCEPT ![curThread] = "spin"]
  /\ UNCHANGED <<pic, request, boot, curThread, frames, abandoned>>

----------------------------------------------------------------------------
Handlers == HandlerEoi \/ HandlerIret

Next == \/ EnableLine
        \/ \E irq \in Devices : Raise(irq) \/ Enter(irq)
        \/ Handlers
        \/ TickStartCurrent \/ TickStartNext \/ TickSwitch
        \/ HaltBase

(* entry() goes on.  A request the controllers can deliver again and again *)
(* is taken, the timer ticks, and a handler that again and again is on top *)
(* of the running thread's stack goes on: keys and periods are longer than *)
(* handlers, so a stack empties.  As in Sched, not every tick finds a      *)
(* shell that has just halted.                                             *)
Fairness ==
  /\ WF_vars(EnableLine)
  /\ \A irq \in Devices : SF_vars(Enter(irq))
  /\ SF_vars(TickStartCurrent) /\ SF_vars(TickStartNext) /\ SF_vars(TickSwitch)
  /\ \A t \in Threads, n \in 1..MaxFrames :
       SF_vars(Handlers /\ curThread = t /\ Len(frames[t]) = n)

SafetySpec == Init /\ [][Next]_vars
Spec == SafetySpec /\ Fairness

----------------------------------------------------------------------------
(* Types of all variables.                                                 *)
TypeOK ==
  /\ master_mask \subseteq Lines /\ slave_mask \subseteq Lines
  /\ masterISR \subseteq Lines /\ slaveISR \subseteq Lines
  /\ request \subseteq Devices
  /\ curThread \in Threads
  /\ code \in [Threads -> {"off", "shell", "spin"}]
  /\ frames \in [Threads -> Seq([irq : Devices, eoi : BOOLEAN])]
  /\ \A t \in Threads : Len(frames[t]) <= MaxFrames
  /\ abandoned \subseteq Devices

SomeActive(irq) == \E t \in Threads, k \in 1..MaxFrames : Active(irq, t, k)

(* Whatever ticks do, KBhandler and RTChandler are never entered again, on *)
(* this or another thread's stack, before they have sent their EOI.        *)
NoReentry ==
  \A irq \in Devices, t, u \in Threads, j, k \in 1..MaxFrames :
    Active(irq, t, j) /\ Active(irq, u, k) => t = u /\ j = k

(* The line of a handler that has not sent its EOI is in service; with it  *)
(* NoReentry is inductive.                                                 *)
LineHeld ==
  \A irq \in Devices, t \in Threads, k \in 1..MaxFrames :
    Active(irq, t, k) => MasterLine(irq) \in masterISR

(* A line in service belongs to a handler that still is on a stack and     *)
(* will send its EOI, or was left for ever by a tick that started a shell  *)
(* on its stack: the line of one that is neither would stay silent with    *)
(* all below it.                                                           *)
InServiceHasHandler ==
  /\ \A i \in masterISR : \E irq \in Devices :
       MasterLine(irq) = i /\ (SomeActive(irq) \/ irq \in abandoned)
  /\ \A i \in slaveISR : \E irq \in Devices :
       i \in SlaveLines(irq) /\ (SomeActive(irq) \/ irq \in abandoned)

(* Every key and every period of the clock is handled, unless a handler of *)
(* the same or a higher priority has been left for ever.                   *)
RequestsServed ==
  \A irq \in Devices :
    irq \in request ~> \/ irq \notin request
                      \/ \E d \in abandoned : MasterLine(d) <= MasterLine(irq)
=============================================================================
