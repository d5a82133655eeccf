----------------------------- MODULE IrqProofs ------------------------------
(***************************************************************************)
(* Proofs about Irq: however handlers nest and whatever ticks preempt, no  *)
(* handler is entered again before it has sent its EOI, and a line in      *)
(* service is that of a handler that will send it or of one a tick has     *)
(* left for ever.                                                          *)
(***************************************************************************)
EXTENDS Irq, TLAPS

(* A frame on a stack.                                                     *)
Frame == [irq : Devices, eoi : BOOLEAN]

(* The inductive invariant: a handler is active only while its line is in  *)
(* service, and there is one such handler for each line.                   *)
IndIrq == TypeOK /\ LineHeld /\ NoReentry

(* The numbers of the lines.                                               *)
LEMMA LineFacts ==
  /\ 0 \in Threads
  /\ \A irq \in Devices : MasterLine(irq) \in {1, 2} /\ SlaveLines(irq) \subseteq Lines
  /\ \A irq, other \in Devices : MasterLine(irq) = MasterLine(other) => irq = other
<1>1. 0 \in Threads
  BY ThreadsAssumption DEF Threads
<1> QED
  BY <1>1 DEF Devices, MasterLine, SlaveLines, OnMaster, Lines, KB_IRQ, RTC_IRQ,
              NUM_IRQS_PER_PIC, SLAVE_IRQ_PIN_ON_MASTER

(* The handler on top of a stack, and what is below it.                    *)
LEMMA TopIs ==
  ASSUME TypeOK, frames[curThread] # <<>>
  PROVE  /\ Len(frames[curThread]) \in 1..MaxFrames
         /\ OnTop = frames[curThread][Len(frames[curThread])]
         /\ OnTop \in Frame
         /\ Front(frames[curThread]) \in Seq(Frame)
         /\ Len(Front(frames[curThread])) = Len(frames[curThread]) - 1
         /\ \A k \in 1..(Len(frames[curThread]) - 1) :
              Front(frames[curThread])[k] = frames[curThread][k]
<1> DEFINE s == frames[curThread]
<1>1. s \in Seq(Frame) /\ Len(s) <= MaxFrames
  BY DEF TypeOK, Frame
<1>2. Len(s) \in Nat /\ Len(s) # 0
  BY <1>1
<1>3. Len(s) \in 1..MaxFrames /\ s[Len(s)] \in Frame
  BY <1>1, <1>2, BoundAssumption
<1>4. /\ Front(s) \in Seq(Frame) /\ Len(Front(s)) = Len(s) - 1
      /\ \A k \in 1..(Len(s) - 1) : Front(s)[k] = s[k]
  BY <1>1, <1>2 DEF Front
<1> QED  BY <1>3, <1>4 DEF OnTop, Last

(* A step that leaves the stacks alone and releases at most the timer's    *)
(* line.                                                                   *)
LEMMA Keeps ==
  ASSUME IndIrq, TypeOK', UNCHANGED frames, masterISR \ {PIT_IRQ} \subseteq masterISR'
  PROVE  IndIrq'
<1>1. LineHeld'
  BY LineFacts DEF IndIrq, LineHeld, Active, PIT_IRQ
<1>2. NoReentry'
  BY DEF IndIrq, NoReentry, Active
<1> QED  BY <1>1, <1>2 DEF IndIrq

(* Stacks of handlers that are short enough.                               *)
Stacks == [Threads -> Seq(Frame)]
StacksOK(F) == F \in Stacks /\ \A t \in Threads : Len(F[t]) <= MaxFrames

(* One stack changes.                                                      *)
LEMMA OneStack ==
  ASSUME NEW F, StacksOK(F), NEW u \in Threads,
         NEW s \in Seq(Frame), Len(s) <= MaxFrames
  PROVE  StacksOK([F EXCEPT ![u] = s])
BY DEF StacksOK, Stacks

(* Every step keeps the types.                                             *)
LEMMA TypeStep == TypeOK /\ [Next]_vars => TypeOK'
<1> SUFFICES ASSUME TypeOK, [Next]_vars PROVE TypeOK'
  OBVIOUS
<1>0. StacksOK(frames) /\ curThread \in Threads
  BY DEF TypeOK, StacksOK, Stacks, Frame
<1> DEFINE s == frames[curThread]
<1>1. CASE EnableLine
  BY <1>1 DEF EnableLine, enable_irq, TypeOK
<1>2. ASSUME NEW irq \in Devices, Raise(irq) PROVE TypeOK'
  BY <1>2 DEF Raise, pic, TypeOK
<1>3. ASSUME NEW irq \in Devices, Enter(irq) PROVE TypeOK'
  <2> DEFINE f == [irq |-> irq, eoi |-> FALSE]
  <2>1. f \in Frame
    BY DEF Frame
  <2>2. s \in Seq(Frame) /\ Len(s) < MaxFrames
    BY <1>0, <1>3 DEF Enter, StacksOK, Stacks
  <2>3. Append(s, f) \in Seq(Frame)
    BY <2>1, <2>2
  <2>4. Len(Append(s, f)) <= MaxFrames
    <3>1. Len(Append(s, f)) = Len(s) + 1 /\ Len(s) \in Nat
      BY <2>2
    <3> HIDE DEF s, f
    <3> QED  BY <2>2, <3>1, BoundAssumption
  <2>5. frames' = [frames EXCEPT ![curThread] = Append(s, f)]
    BY <1>3 DEF Enter
  <2>6. StacksOK(frames')
    BY <1>0, <2>3, <2>4, <2>5, OneStack
  <2>7. MasterLine(irq) \in Lines /\ SlaveLines(irq) \subseteq Lines
    BY LineFacts DEF Lines, NUM_IRQS_PER_PIC
  <2>8. masterISR' \subseteq Lines /\ slaveISR' \subseteq Lines
    BY <1>3, <2>7 DEF Enter, InService, TypeOK
  <2> QED  BY <1>3, <2>6, <2>8 DEF Enter, TypeOK, StacksOK, Stacks, Frame
<1>4. CASE HandlerEoi
  <2> DEFINE f == [OnTop EXCEPT !.eoi = TRUE]
  <2>1. /\ Front(s) \in Seq(Frame) /\ OnTop \in Frame
        /\ Len(Front(s)) = Len(s) - 1 /\ Len(s) \in 1..MaxFrames
    BY <1>4, TopIs DEF HandlerEoi
  <2>2. f \in Frame
    BY <2>1 DEF Frame
  <2>3. Append(Front(s), f) \in Seq(Frame)
    BY <2>1, <2>2
  <2>4. Len(Append(Front(s), f)) <= MaxFrames
    <3>1. Len(Append(Front(s), f)) = Len(Front(s)) + 1
      BY <2>1
    <3> HIDE DEF s, f
    <3> QED  BY <2>1, <3>1, BoundAssumption
  <2>5. frames' = [frames EXCEPT ![curThread] = Append(Front(s), f)]
    BY <1>4 DEF HandlerEoi
  <2>6. StacksOK(frames')
    BY <1>0, <2>3, <2>4, <2>5, OneStack
  <2> QED  BY <1>4, <2>6 DEF HandlerEoi, send_eoi, TypeOK, StacksOK, Stacks, Frame
<1>5. CASE HandlerIret
  <2>1. Front(s) \in Seq(Frame) /\ Len(Front(s)) = Len(s) - 1 /\ Len(s) \in 1..MaxFrames
    BY <1>5, TopIs DEF HandlerIret
  <2>2. Len(Front(s)) <= MaxFrames
    <3> HIDE DEF s
    <3> QED  BY <2>1, BoundAssumption
  <2>3. frames' = [frames EXCEPT ![curThread] = Front(s)]
    BY <1>5 DEF HandlerIret
  <2>4. StacksOK(frames')
    BY <1>0, <2>1, <2>2, <2>3, OneStack
  <2> QED  BY <1>5, <2>4 DEF HandlerIret, pic, TypeOK, StacksOK, Stacks, Frame
<1>6. NextThread \in Threads
  BY <1>0, ThreadsAssumption DEF NextThread, Threads
<1>7. CASE TickStartCurrent
  <2>1. << >> \in Seq(Frame) /\ Len(<< >>) <= MaxFrames
    BY BoundAssumption
  <2>2. frames' = [frames EXCEPT ![curThread] = << >>]
    BY <1>7 DEF TickStartCurrent
  <2>3. StacksOK(frames')
    BY <1>0, <2>1, <2>2, OneStack
  <2>4. abandoned' \subseteq Devices
    BY <1>7 DEF TickStartCurrent, Unfinished, TypeOK
  <2> QED
    BY <1>7, <2>3, <2>4 DEF TickStartCurrent, TickDelivered, TypeOK, StacksOK, Stacks, Frame
<1>8. CASE TickStartNext
  BY <1>6, <1>8 DEF TickStartNext, TickDelivered, TypeOK
<1>9. CASE TickSwitch
  BY <1>6, <1>9 DEF TickSwitch, TickDelivered, TypeOK
<1>10. CASE HaltBase
  BY <1>10 DEF HaltBase, pic, TypeOK
<1>11. CASE UNCHANGED vars
  BY <1>11 DEF vars, pic, TypeOK
<1> QED
  BY <1>1, <1>2, <1>3, <1>4, <1>5, <1>7, <1>8, <1>9, <1>10, <1>11 DEF Next, Handlers

(* KBhandler or RTChandler is entered: its line was free, so no other      *)
(* handler of the same interrupt is active.                                *)
LEMMA EnterStep ==
  ASSUME IndIrq, TypeOK', NEW irq \in Devices, Enter(irq)
  PROVE  IndIrq'
<1> DEFINE s == frames[curThread]
           f == [irq |-> irq, eoi |-> FALSE]
<1>1. s \in Seq(Frame) /\ curThread \in Threads /\ frames \in [Threads -> Seq(Frame)]
  BY DEF IndIrq, TypeOK, Frame
<1>2. MasterLine(irq) \notin masterISR
  BY LineFacts DEF Enter, Delivered
<1>3. \A t \in Threads, k \in 1..MaxFrames : ~Active(irq, t, k)
  BY <1>2 DEF IndIrq, LineHeld
<1>4. /\ Len(Append(s, f)) = Len(s) + 1 /\ Append(s, f)[Len(s) + 1] = f
      /\ \A k \in 1..Len(s) : Append(s, f)[k] = s[k]
  BY <1>1
<1>5. frames' = [frames EXCEPT ![curThread] = Append(s, f)]
  BY DEF Enter
<1>6. \A other \in Devices, t \in Threads, k \in 1..MaxFrames :
        Active(other, t, k)' =>
          \/ Active(other, t, k)
          \/ other = irq /\ t = curThread /\ k = Len(s) + 1
  BY <1>1, <1>4, <1>5 DEF Active
<1>7. masterISR' = masterISR \cup {MasterLine(irq)}
  BY DEF Enter, InService
<1>8. LineHeld'
  BY <1>6, <1>7 DEF IndIrq, LineHeld, MasterLine, OnMaster
<1>9. NoReentry'
  BY <1>3, <1>6 DEF IndIrq, NoReentry
<1> QED  BY <1>8, <1>9 DEF IndIrq

(* A handler sends its EOI: the line it releases is its own.               *)
LEMMA EoiStep ==
  ASSUME IndIrq, TypeOK', HandlerEoi
  PROVE  IndIrq'
<1> DEFINE s == frames[curThread]
           f == [OnTop EXCEPT !.eoi = TRUE]
<1>1. curThread \in Threads /\ frames \in [Threads -> Seq(Frame)] /\ TypeOK
  BY DEF IndIrq, TypeOK, Frame
<1>2. /\ Len(s) \in 1..MaxFrames /\ OnTop = s[Len(s)] /\ OnTop \in Frame
      /\ Front(s) \in Seq(Frame) /\ Len(Front(s)) = Len(s) - 1
      /\ \A k \in 1..(Len(s) - 1) : Front(s)[k] = s[k]
  BY <1>1, TopIs DEF HandlerEoi
<1>3. f \in Frame /\ f.eoi = TRUE
  BY <1>2 DEF Frame
<1>4. /\ Len(Append(Front(s), f)) = Len(s) /\ Append(Front(s), f)[Len(s)] = f
      /\ \A k \in 1..(Len(s) - 1) : Append(Front(s), f)[k] = s[k]
  BY <1>2, <1>3
<1>5. frames' = [frames EXCEPT ![curThread] = Append(Front(s), f)]
  BY DEF HandlerEoi
<1>6. \A other \in Devices, t \in Threads, k \in 1..MaxFrames :
        Active(other, t, k)' => Active(other, t, k) /\ ~(t = curThread /\ k = Len(s))
  BY <1>1, <1>2, <1>3, <1>4, <1>5 DEF Active
<1>7. OnTop.irq \in Devices /\ Active(OnTop.irq, curThread, Len(s))
  <2>1. OnTop.irq \in Devices /\ OnTop.eoi = FALSE
    BY <1>2 DEF HandlerEoi, Frame
  <2>2. OnTop = [irq |-> OnTop.irq, eoi |-> FALSE]
    BY <1>2, <2>1 DEF Frame
  <2>3. Len(s) <= Len(s)
    <3> HIDE DEF s
    <3> QED  BY <1>2
  <2> QED  BY <1>2, <2>1, <2>2, <2>3 DEF Active
<1>8. masterISR' = masterISR \ {MasterLine(OnTop.irq)}
  BY DEF HandlerEoi, send_eoi
<1>9. LineHeld'
  <2> SUFFICES ASSUME NEW other \in Devices, NEW t \in Threads, NEW k \in 1..MaxFrames,
                      Active(other, t, k)'
               PROVE  MasterLine(other) \in masterISR'
    BY DEF LineHeld, MasterLine, OnMaster
  <2>1. other # OnTop.irq
    BY <1>1, <1>2, <1>6, <1>7 DEF IndIrq, NoReentry
  <2> QED  BY <1>6, <1>7, <1>8, <2>1, LineFacts DEF IndIrq, LineHeld
<1>10. NoReentry'
  BY <1>6 DEF IndIrq, NoReentry
<1> QED  BY <1>9, <1>10 DEF IndIrq

(* A step that takes frames away and leaves the lines alone.               *)
LEMMA PopStep ==
  ASSUME IndIrq, TypeOK',
         masterISR \ {PIT_IRQ} \subseteq masterISR',
         \A irq \in Devices, t \in Threads, k \in 1..MaxFrames :
           Active(irq, t, k)' => Active(irq, t, k)
  PROVE  IndIrq'
<1>1. LineHeld'
  BY LineFacts DEF IndIrq, LineHeld, PIT_IRQ, MasterLine, OnMaster
<1>2. NoReentry'
  BY DEF IndIrq, NoReentry
<1> QED  BY <1>1, <1>2 DEF IndIrq

(* The invariant is inductive.                                             *)
LEMMA IndIrqStep == IndIrq /\ TypeOK' /\ [Next]_vars => IndIrq'
<1> SUFFICES ASSUME IndIrq, TypeOK', [Next]_vars PROVE IndIrq'
  OBVIOUS
<1>1. CASE EnableLine
  BY <1>1, Keeps DEF EnableLine
<1>2. ASSUME NEW irq \in Devices, Raise(irq) PROVE IndIrq'
  BY <1>2, Keeps DEF Raise, pic
<1>3. ASSUME NEW irq \in Devices, Enter(irq) PROVE IndIrq'
  BY <1>3, EnterStep
<1>4. CASE HandlerEoi
  BY <1>4, EoiStep
<1>5. CASE HandlerIret
  <2> DEFINE s == frames[curThread]
  <2>1. /\ curThread \in Threads /\ frames \in [Threads -> Seq(Frame)]
        /\ Len(s) \in 1..MaxFrames
        /\ Front(s) \in Seq(Frame) /\ Len(Front(s)) = Len(s) - 1
        /\ \A k \in 1..(Len(s) - 1) : Front(s)[k] = s[k]
    BY <1>5, TopIs DEF HandlerIret, IndIrq, TypeOK, Frame
  <2>2. frames' = [frames EXCEPT ![curThread] = Front(s)]
    BY <1>5 DEF HandlerIret
  <2>3. \A irq \in Devices, t \in Threads, k \in 1..MaxFrames :
          Active(irq, t, k)' => Active(irq, t, k)
    BY <2>1, <2>2 DEF Active
  <2> QED  BY <1>5, <2>3, PopStep DEF HandlerIret, pic
<1>6. CASE TickStartCurrent
  <2>1. \A irq \in Devices, t \in Threads, k \in 1..MaxFrames :
          Active(irq, t, k)' => Active(irq, t, k)
    BY <1>6 DEF TickStartCurrent, Active, IndIrq, TypeOK
  <2> QED  BY <1>6, <2>1, PopStep DEF TickStartCurrent, TickDelivered
<1>7. CASE TickStartNext
  BY <1>7, Keeps DEF TickStartNext, TickDelivered
<1>8. CASE TickSwitch
  BY <1>8, Keeps DEF TickSwitch, TickDelivered
<1>9. CASE HaltBase
  BY <1>9, Keeps DEF HaltBase, pic
<1>10. CASE UNCHANGED vars
  BY <1>10, Keeps DEF vars, pic
<1> QED
  BY <1>1, <1>2, <1>3, <1>4, <1>5, <1>6, <1>7, <1>8, <1>9, <1>10 DEF Next, Handlers

(* For any number of threads and any depth of nesting, the handlers of the *)
(* keyboard and the clock are not entered again before they have sent      *)
(* their EOI, wherever PIThandler preempts them.                           *)
THEOREM NeverReentered == SafetySpec => []NoReentry
<1>1. Init => IndIrq
  <2> SUFFICES ASSUME Init PROVE IndIrq
    OBVIOUS
  <2>1. TypeOK
    BY LineFacts, BoundAssumption DEF Init, TypeOK, Frame
  <2>2. LineHeld /\ NoReentry
    BY DEF Init, LineHeld, NoReentry, Active
  <2> QED  BY <2>1, <2>2 DEF IndIrq
<1>2. IndIrq /\ [Next]_vars => IndIrq'
  BY TypeStep, IndIrqStep DEF IndIrq
<1>3. IndIrq => NoReentry
  BY DEF IndIrq
<1> QED  BY <1>1, <1>2, <1>3, PTL DEF SafetySpec

----------------------------------------------------------------------------
(* A step that takes no active frame away and puts no line in service.     *)
LEMMA ServiceKeeps ==
  ASSUME InServiceHasHandler, UNCHANGED abandoned,
         masterISR' \subseteq masterISR, slaveISR' \subseteq slaveISR,
         \A irq \in Devices, t \in Threads, k \in 1..MaxFrames :
           Active(irq, t, k) => Active(irq, t, k)'
  PROVE  InServiceHasHandler'
<1>1. \A irq \in Devices : SomeActive(irq) => SomeActive(irq)'
  BY DEF SomeActive
<1> QED
  BY <1>1 DEF InServiceHasHandler, MasterLine, SlaveLines, OnMaster

(* A handler is entered: it is the one its line is in service for.         *)
LEMMA EnterServes ==
  ASSUME TypeOK, InServiceHasHandler, NEW irq \in Devices, Enter(irq)
  PROVE  InServiceHasHandler'
<1> DEFINE s == frames[curThread]
           f == [irq |-> irq, eoi |-> FALSE]
<1>1. /\ s \in Seq(Frame) /\ Len(s) < MaxFrames /\ curThread \in Threads
      /\ frames \in [Threads -> Seq(Frame)]
      /\ frames' = [frames EXCEPT ![curThread] = Append(s, f)]
  BY DEF Enter, TypeOK, Frame
<1>2. /\ Len(Append(s, f)) = Len(s) + 1 /\ Append(s, f)[Len(s) + 1] = f
      /\ \A k \in 1..Len(s) : Append(s, f)[k] = s[k]
  BY <1>1
<1>3. \A other \in Devices : SomeActive(other) => SomeActive(other)'
  <2>1. \A other \in Devices, t \in Threads, k \in 1..MaxFrames :
          Active(other, t, k) => Active(other, t, k)'
    BY <1>1, <1>2 DEF Active
  <2> QED  BY <2>1 DEF SomeActive
<1>4. SomeActive(irq)'
  <2>1. Len(s) + 1 \in 1..MaxFrames
    <3>1. Len(s) \in Nat
      BY <1>1
    <3> HIDE DEF s
    <3> QED  BY <1>1, <3>1, BoundAssumption
  <2>2. \A t, k : t = curThread /\ k = Len(s) + 1 => Active(irq, t, k)'
    <3>1. frames'[curThread] = Append(s, f)
      BY <1>1
    <3>2. Len(s) + 1 <= Len(frames'[curThread]) /\ frames'[curThread][Len(s) + 1] = f
      BY <1>1, <1>2, <3>1
    <3> QED  BY <3>2 DEF Active
  <2> QED  BY <1>1, <2>1, <2>2 DEF SomeActive
<1>5. /\ masterISR' = masterISR \cup {MasterLine(irq)}
      /\ slaveISR' = slaveISR \cup SlaveLines(irq)
      /\ abandoned' = abandoned
  BY DEF Enter, InService
<1> QED
  BY <1>3, <1>4, <1>5 DEF InServiceHasHandler, MasterLine, SlaveLines, OnMaster

(* A handler sends its EOI: the lines that stay in service are the other   *)
(* handler's, which stays active.                                          *)
LEMMA EoiServes ==
  ASSUME TypeOK, InServiceHasHandler, HandlerEoi
  PROVE  InServiceHasHandler'
<1> DEFINE s == frames[curThread]
           f == [OnTop EXCEPT !.eoi = TRUE]
<1>1. curThread \in Threads /\ frames \in [Threads -> Seq(Frame)]
  BY DEF TypeOK, Frame
<1>2. /\ Len(s) \in 1..MaxFrames /\ OnTop = s[Len(s)] /\ OnTop \in Frame
      /\ Front(s) \in Seq(Frame) /\ Len(Front(s)) = Len(s) - 1
      /\ \A k \in 1..(Len(s) - 1) : Front(s)[k] = s[k]
  BY TopIs DEF HandlerEoi
<1>3. f \in Frame /\ OnTop.irq \in Devices
  BY <1>2 DEF Frame
<1>4. /\ Len(Append(Front(s), f)) = Len(s)
      /\ \A k \in 1..(Len(s) - 1) : Append(Front(s), f)[k] = s[k]
  BY <1>2, <1>3
<1>5. frames' = [frames EXCEPT ![curThread] = Append(Front(s), f)]
  BY DEF HandlerEoi
<1>6. \A other \in Devices \ {OnTop.irq}, t \in Threads, k \in 1..MaxFrames :
        Active(other, t, k) => Active(other, t, k)'
  <2> SUFFICES ASSUME NEW other \in Devices \ {OnTop.irq}, NEW t \in Threads,
                      NEW k \in 1..MaxFrames, Active(other, t, k)
               PROVE  Active(other, t, k)'
    OBVIOUS
  <2>1. CASE t # curThread
    BY <1>1, <1>5, <2>1 DEF Active
  <2>2. CASE t = curThread
    <3>1. k # Len(s)
      BY <1>2, <2>2 DEF Active
    <3>2. frames'[t] = Append(Front(s), f)
      BY <1>1, <1>5, <2>2
    <3>3. k \in 1..(Len(s) - 1)
      <4>1. k <= Len(s)
        BY <2>2 DEF Active
      <4> HIDE DEF s
      <4> QED  BY <1>2, <3>1, <4>1
    <3> QED  BY <1>4, <2>2, <3>2, <3>3 DEF Active
  <2> QED  BY <2>1, <2>2
<1>7. \A other \in Devices \ {OnTop.irq} : SomeActive(other) => SomeActive(other)'
  BY <1>6 DEF SomeActive
<1>8. /\ masterISR' = masterISR \ {MasterLine(OnTop.irq)}
      /\ slaveISR' = slaveISR \ SlaveLines(OnTop.irq)
      /\ abandoned' = abandoned
  BY DEF HandlerEoi, send_eoi
<1>9. \A i \in masterISR' : \E irq \in Devices :
        MasterLine(irq) = i /\ (SomeActive(irq)' \/ irq \in abandoned')
  BY <1>7, <1>8 DEF InServiceHasHandler
<1>10. \A i \in slaveISR' : \E irq \in Devices :
        i \in SlaveLines(irq) /\ (SomeActive(irq)' \/ irq \in abandoned')
  BY <1>7, <1>8 DEF InServiceHasHandler
<1> QED
  BY <1>9, <1>10 DEF InServiceHasHandler, MasterLine, SlaveLines, OnMaster

(* A tick over an endless loop starts a shell on the handlers' stack: each *)
(* of them that has not sent its EOI is abandoned, and those of the other  *)
(* threads stay.                                                           *)
LEMMA StartAbandons ==
  ASSUME TypeOK, InServiceHasHandler, TickStartCurrent
  PROVE  InServiceHasHandler'
<1>1. /\ curThread \in Threads /\ DOMAIN frames = Threads
      /\ frames' = [frames EXCEPT ![curThread] = << >>]
      /\ abandoned' = abandoned \cup Unfinished(curThread)
  BY DEF TypeOK, TickStartCurrent
<1>2. masterISR' \subseteq masterISR /\ slaveISR' \subseteq slaveISR
  BY DEF TickStartCurrent, TickDelivered
<1>3. ASSUME NEW irq \in Devices, SomeActive(irq)
      PROVE  SomeActive(irq)' \/ irq \in abandoned'
  <2>1. PICK t \in Threads, k \in 1..MaxFrames : Active(irq, t, k)
    BY <1>3 DEF SomeActive
  <2>2. CASE t = curThread
    BY <1>1, <2>1, <2>2 DEF Unfinished
  <2>3. CASE t # curThread
    <3>1. Active(irq, t, k)'
      BY <1>1, <2>1, <2>3 DEF Active
    <3> QED  BY <3>1 DEF SomeActive
  <2> QED  BY <2>2, <2>3
<1>4. \A irq \in Devices :
        SomeActive(irq) \/ irq \in abandoned => SomeActive(irq)' \/ irq \in abandoned'
  BY <1>1, <1>3
<1> QED
  BY <1>2, <1>4 DEF InServiceHasHandler, MasterLine, SlaveLines, OnMaster

(* Every step keeps a handler, present or abandoned, for each line in      *)
(* service.                                                                *)
LEMMA ServiceStep ==
  ASSUME TypeOK, InServiceHasHandler, [Next]_vars
  PROVE  InServiceHasHandler'
<1>1. CASE EnableLine
  BY <1>1, ServiceKeeps DEF EnableLine, Active
<1>2. ASSUME NEW irq \in Devices, Raise(irq) PROVE InServiceHasHandler'
  BY <1>2, ServiceKeeps DEF Raise, pic, Active
<1>3. ASSUME NEW irq \in Devices, Enter(irq) PROVE InServiceHasHandler'
  BY <1>3, EnterServes
<1>4. CASE HandlerEoi
  BY <1>4, EoiServes
<1>5. CASE HandlerIret
  <2> DEFINE s == frames[curThread]
  <2>1. /\ curThread \in Threads /\ frames \in [Threads -> Seq(Frame)]
        /\ Len(s) \in 1..MaxFrames /\ OnTop = s[Len(s)] /\ OnTop.eoi
        /\ Front(s) \in Seq(Frame) /\ Len(Front(s)) = Len(s) - 1
        /\ \A k \in 1..(Len(s) - 1) : Front(s)[k] = s[k]
    BY <1>5, TopIs DEF HandlerIret, TypeOK, Frame
  <2>2. frames' = [frames EXCEPT ![curThread] = Front(s)]
    BY <1>5 DEF HandlerIret
  <2>3. ASSUME NEW irq \in Devices, NEW t \in Threads, NEW k \in 1..MaxFrames,
               Active(irq, t, k)
        PROVE  Active(irq, t, k)'
    <3>1. CASE t # curThread
      BY <2>1, <2>2, <2>3, <3>1 DEF Active
    <3>2. CASE t = curThread
      <4>1. k <= Len(s) /\ k # Len(s)
        BY <2>1, <2>3, <3>2 DEF Active
      <4>2. k \in 1..(Len(s) - 1)
        <5> HIDE DEF s
        <5> QED  BY <2>1, <4>1
      <4> QED  BY <2>1, <2>2, <2>3, <3>2, <4>2 DEF Active
    <3> QED  BY <3>1, <3>2
  <2> QED  BY <1>5, <2>3, ServiceKeeps DEF HandlerIret, pic
<1>6. CASE TickStartCurrent
  BY <1>6, StartAbandons
<1>7. CASE TickStartNext
  BY <1>7, ServiceKeeps DEF TickStartNext, TickDelivered, Active
<1>8. CASE TickSwitch
  BY <1>8, ServiceKeeps DEF TickSwitch, TickDelivered, Active
<1>9. CASE HaltBase
  BY <1>9, ServiceKeeps DEF HaltBase, pic, Active
<1>10. CASE UNCHANGED vars
  BY <1>10, ServiceKeeps DEF vars, pic, Active
<1> QED
  BY <1>1, <1>2, <1>3, <1>4, <1>5, <1>6, <1>7, <1>8, <1>9, <1>10 DEF Next, Handlers

(* For any number of threads and any depth of nesting, and wherever ticks  *)
(* come, a line in service of either controller belongs to a handler that  *)
(* is still on some stack and will send its EOI, or to one that PIThandler *)
(* left when it started a shell over an endless loop: that is the only way *)
(* a line stays silent for ever.                                           *)
THEOREM ServiceHasHandler == SafetySpec => []InServiceHasHandler
<1>1. Init => TypeOK /\ InServiceHasHandler
  BY LineFacts, BoundAssumption DEF Init, TypeOK, Frame, InServiceHasHandler
<1>2. TypeOK /\ InServiceHasHandler /\ [Next]_vars => (TypeOK /\ InServiceHasHandler)'
  BY TypeStep, ServiceStep
<1> QED  BY <1>1, <1>2, PTL DEF SafetySpec
=============================================================================
