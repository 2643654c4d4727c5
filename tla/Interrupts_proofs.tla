------------------------- MODULE Interrupts_proofs -------------------------
(***************************************************************************)
(* End of interrupt and the heap's lock, for every line the network card   *)
(* may have and every depth to which handlers nest.                        *)
(***************************************************************************)
EXTENDS Interrupts, SequenceTheorems, TLAPS

-----------------------------------------------------------------------------
(* The steps of a handler, counted from its end *)

Irqs == Lines \cup {7, 15}

(* The step of the handler of irq that r steps follow.  The network card's *)
(* handler makes its "unlock" before it goes on with its body.             *)
StepBefore(irq, r) ==
  CASE r = 0 -> "iret"
    [] r = 1 -> "master"
    [] r = 2 -> IF irq = 0 THEN "master" ELSE IF irq = 1 THEN "key" ELSE "slave"
    [] r = 3 -> IF irq = 0 THEN "slave" ELSE "master"
    [] r = 4 -> IF irq = 0 THEN "tick" ELSE "slave"
    [] r = 5 -> "body"
    [] OTHER -> "unlock"

(* The most steps that a handler can have before it. *)
Longest(irq) == CASE irq = 0 -> 5
                  [] irq = 1 -> 3
                  [] irq = NicIrq -> 7
                  [] OTHER -> 1

Frames == [irq : Irqs, todo : Seq(Steps)]

FrameOK(f) ==
  /\ Len(f.todo) \in 1 .. Longest(f.irq)
  /\ \A k \in 1 .. Len(f.todo) : f.todo[k] = StepBefore(f.irq, Len(f.todo) - k)

(* Steps left of handler i. *)
Left(i) == Len(stack[i].todo)

-----------------------------------------------------------------------------
(* The inductive invariant *)

StackInv ==
  /\ stack \in Seq(Frames) /\ Len(stack) <= MaxDepth
  /\ \A i \in 1 .. Len(stack) : FrameOK(stack[i])

(* A handler is interrupted only while it has interrupts on, which is the  *)
(* network card's after an allocation; nobody is between cli and sti then. *)
FlagInv ==
  /\ \A i \in 2 .. Len(stack) : stack[i].irq = NicIrq /\ Left(i) <= 6
  /\ IF_ /\ stack # <<>> => stack[1].irq = NicIrq /\ Left(1) <= 6
  /\ main.at = "locked" => stack = <<>> /\ ~IF_

(* The handler that runs is the only one whose line, of the master's, is   *)
(* in service, and the timer's has two commands for the master before it   *)
(* as long as its line is.                                                 *)
ServiceInv ==
  /\ master \subseteq {0, 1, Cascade} /\ slave \subseteq {NicIrq}
  /\ 0 \in master => stack # <<>> /\ stack[1].irq = 0 /\ Left(1) >= 3
  /\ 1 \in master => stack # <<>> /\ stack[1].irq = 1 /\ Left(1) >= 2
  /\ NicIrq \in slave => \E i \in 1 .. Len(stack) : stack[i].irq = NicIrq /\ Left(i) >= 3

OtherInv ==
  /\ IF_ \in BOOLEAN /\ irr \subseteq Lines
  /\ main \in [at : {"run", "locked", "read", "clear"}, c : Chars \cup {0}]
  /\ g_ch \in Chars \cup {0}

IntInv == StackInv /\ FlagInv /\ ServiceInv /\ OtherInv

-----------------------------------------------------------------------------
(* Lemmas about handlers *)

(* The network card is on the slave, and on none of the lines that the     *)
(* code treats by number: timer, keyboard, cascade, spurious.              *)
LEMMA NicLine == NicIrq \in Nat /\ NicIrq \notin {0, 1, 2, 7, 15} /\ NicIrq >= 8 /\ NicIrq <= 14
BY InterruptsAssumption

(* What irq_handler and the functions it calls do, as a list.              *)
LEMMA HandlerSteps ==
  ASSUME NEW irq \in Irqs
  PROVE  FrameOK([irq |-> irq, todo |-> irq_handler(irq)])
         /\ irq_handler(irq) \in Seq(Steps)
         /\ Len(irq_handler(irq)) = (IF irq = NicIrq THEN 6 ELSE Longest(irq))
<1> USE NicLine DEF Lines, Irqs
<1>0. "tick" \in Steps /\ "key" \in Steps /\ "body" \in Steps /\ "unlock" \in Steps
      /\ "slave" \in Steps /\ "master" \in Steps /\ "iret" \in Steps
  BY DEF Steps
<1>1. CASE irq = 0
  BY <1>0, <1>1 DEF irq_handler, isr_irq_handler, g_interrupt_handlers, timer_handler,
     pic8259_eoi, pic8259_is_spurious, IRQ_BASE, FrameOK, StepBefore, Longest
<1>2. CASE irq = 1
  BY <1>0, <1>2 DEF irq_handler, isr_irq_handler, g_interrupt_handlers, keyboard_handler,
     pic8259_eoi, pic8259_is_spurious, IRQ_BASE, FrameOK, StepBefore, Longest
<1>3. CASE irq = NicIrq
  BY <1>0, <1>3 DEF irq_handler, isr_irq_handler, g_interrupt_handlers, rtl8139_irq_handler,
     pic8259_eoi, pic8259_is_spurious, FrameOK, StepBefore, Longest
<1>4. CASE irq \in {7, 15}
  BY <1>0, <1>4 DEF irq_handler, isr_irq_handler,
     pic8259_is_spurious, FrameOK, StepBefore, Longest
<1> QED
  BY <1>1, <1>2, <1>3, <1>4

(* The running handler's next step, from the number of those left.         *)
LEMMA NextStepOf ==
  ASSUME StackInv, NEW op, Running(op)
  PROVE  /\ Len(stack) \in Nat \ {0} /\ stack[1] \in Frames /\ FrameOK(stack[1])
         /\ Left(1) \in 1 .. Longest(stack[1].irq)
         /\ op = StepBefore(stack[1].irq, Left(1) - 1)
<1>1. stack \in Seq(Frames) /\ stack # <<>>
  BY DEF StackInv, Running
<1>2. Len(stack) \in Nat \ {0} /\ stack[1] \in Frames
  BY <1>1
<1>3. FrameOK(stack[1])
  BY <1>2 DEF StackInv
<1>4. stack[1].todo \in Seq(Steps) /\ Len(stack[1].todo) \in Nat \ {0}
  BY <1>2, <1>3, NicLine DEF Frames, FrameOK, Longest
<1>5. Head(stack[1].todo) = stack[1].todo[1]
  BY <1>4
<1> QED
  BY <1>2, <1>3, <1>4, <1>5 DEF Left, FrameOK, Running

(* A step of the running handler that is not its last. *)
LEMMA DoneStack ==
  ASSUME StackInv, NEW op, Running(op), op # "iret", Done
  PROVE  /\ StackInv'
         /\ Len(stack') = Len(stack)
         /\ stack'[1].irq = stack[1].irq
         /\ Left(1)' = Left(1) - 1
         /\ \A i \in 2 .. Len(stack) : stack'[i] = stack[i]
<1> DEFINE t == stack[1].todo
<1>1. /\ Len(stack) \in Nat \ {0} /\ stack[1] \in Frames /\ FrameOK(stack[1])
      /\ Len(t) \in 1 .. Longest(stack[1].irq)
      /\ op = StepBefore(stack[1].irq, Len(t) - 1)
  BY NextStepOf DEF Left
<1>2. t \in Seq(Steps) /\ Longest(stack[1].irq) \in Nat
  BY <1>1 DEF Frames, Longest
<1>3. Len(t) >= 2
  <2>1. StepBefore(stack[1].irq, 0) = "iret"
    BY DEF StepBefore
  <2>2. ASSUME NEW n \in Nat, n \in 1 .. Longest(stack[1].irq),
               op = StepBefore(stack[1].irq, n - 1)
        PROVE  n >= 2
    <3>1. CASE n = 1
      BY <2>1, <2>2, <3>1
    <3>2. CASE n # 1
      BY <1>2, <2>2, <3>2
    <3> QED
      BY <3>1, <3>2
  <2>3. Len(t) \in Nat
    BY <1>2, LenProperties
  <2> QED
    BY <1>1, <2>2, <2>3
<1>4. /\ Tail(t) \in Seq(Steps) /\ Len(Tail(t)) = Len(t) - 1
      /\ \A k \in 1 .. Len(Tail(t)) : Tail(t)[k] = t[k + 1]
  BY <1>2, <1>3
<1>5. /\ stack' \in Seq(Frames) /\ Len(stack') = Len(stack)
      /\ stack'[1] = [stack[1] EXCEPT !.todo = Tail(t)]
      /\ \A i \in 2 .. Len(stack) : stack'[i] = stack[i]
  <2>1. [stack[1] EXCEPT !.todo = Tail(t)] \in Frames
    BY <1>1, <1>4 DEF Frames
  <2>2. stack' = [stack EXCEPT ![1] = [stack[1] EXCEPT !.todo = Tail(t)]]
    BY DEF Done
  <2> QED
    BY <2>1, <2>2, <1>1 DEF StackInv
<1>6. stack'[1].irq = stack[1].irq /\ stack'[1].todo = Tail(t)
  BY <1>1, <1>5 DEF Frames
<1>7. FrameOK(stack'[1])
  <2>1. Len(Tail(t)) \in 1 .. Longest(stack[1].irq)
    BY <1>1, <1>2, <1>3, <1>4
  <2>2. ASSUME NEW k \in 1 .. Len(Tail(t))
        PROVE  Tail(t)[k] = StepBefore(stack[1].irq, Len(Tail(t)) - k)
    <3>1. k + 1 \in 1 .. Len(t) /\ Len(t) - (k + 1) = Len(Tail(t)) - k
      BY <1>2, <1>3, <1>4
    <3>2. t[k + 1] = StepBefore(stack[1].irq, Len(t) - (k + 1))
      BY <1>1, <3>1 DEF FrameOK
    <3> QED
      BY <1>4, <3>1, <3>2
  <2> QED
    BY <1>6, <2>1, <2>2 DEF FrameOK
<1>8. \A i \in 1 .. Len(stack') : FrameOK(stack'[i])
  BY <1>1, <1>5, <1>7 DEF StackInv
<1> QED
  BY <1>1, <1>4, <1>5, <1>6, <1>8 DEF StackInv, Left

(* The processor enters a handler. *)
LEMMA EnterStack ==
  ASSUME StackInv, NEW irq \in Irqs, Enter(irq)
  PROVE  /\ StackInv'
         /\ Len(stack') = Len(stack) + 1
         /\ stack'[1].irq = irq
         /\ Left(1)' = (IF irq = NicIrq THEN 6 ELSE Longest(irq))
         /\ \A i \in 1 .. Len(stack) : stack'[i + 1] = stack[i]
         /\ \A i \in 2 .. Len(stack') : stack'[i] = stack[i - 1] /\ i - 1 \in 1 .. Len(stack)
<1> DEFINE f == [irq |-> irq, todo |-> irq_handler(irq)]
<1>1. f \in Frames /\ FrameOK(f)
  BY HandlerSteps DEF Frames
<1>2. stack \in Seq(Frames) /\ Len(stack) \in Nat /\ stack' = <<f>> \o stack
  BY DEF StackInv, Enter
<1> HIDE DEF f
<1>3. /\ stack' \in Seq(Frames) /\ Len(stack') = Len(stack) + 1
      /\ stack'[1] = f
      /\ \A i \in 1 .. Len(stack) : stack'[i + 1] = stack[i]
      /\ \A i \in 2 .. Len(stack') : stack'[i] = stack[i - 1] /\ i - 1 \in 1 .. Len(stack)
  BY <1>1, <1>2
<1>4. \A i \in 1 .. Len(stack') : FrameOK(stack'[i])
  BY <1>1, <1>2, <1>3 DEF StackInv
<1>5. Len(stack') <= MaxDepth
  BY <1>2, <1>3, InterruptsAssumption DEF Enter
<1> QED
  BY <1>3, <1>4, <1>5, HandlerSteps DEF StackInv, Left, f

(* A return from a handler. *)
LEMMA IretStack ==
  ASSUME StackInv, Iret
  PROVE  /\ Left(1) = 1
         /\ StackInv'
         /\ Len(stack') = Len(stack) - 1
         /\ \A i \in 1 .. Len(stack') : stack'[i] = stack[i + 1] /\ i + 1 \in 2 .. Len(stack)
         /\ \A i \in 2 .. Len(stack) : i - 1 \in 1 .. Len(stack') /\ stack'[i - 1] = stack[i]
<1>1. /\ Len(stack) \in Nat \ {0}
      /\ Left(1) \in 1 .. Longest(stack[1].irq)
      /\ "iret" = StepBefore(stack[1].irq, Left(1) - 1)
  BY NextStepOf DEF Iret
<1>2. stack' = Tail(stack) /\ stack \in Seq(Frames) /\ stack # <<>>
  BY DEF Iret, Running, StackInv
<1>3. Left(1) = 1
  <2>1. Longest(stack[1].irq) \in 0 .. 7
    BY DEF Longest
  <2> QED
    BY <1>1, <2>1 DEF StepBefore
<1>4. /\ stack' \in Seq(Frames) /\ Len(stack') = Len(stack) - 1
      /\ \A i \in 1 .. Len(stack') : stack'[i] = stack[i + 1] /\ i + 1 \in 2 .. Len(stack)
      /\ \A i \in 2 .. Len(stack) : i - 1 \in 1 .. Len(stack') /\ stack'[i - 1] = stack[i]
  BY <1>1, <1>2
<1> QED
  BY <1>1, <1>3, <1>4, InterruptsAssumption DEF StackInv

-----------------------------------------------------------------------------
(* What one step may do *)

(* Eoi takes the line of the highest priority out of service. *)
LEMMA EoiOfMaster ==
  ASSUME master \subseteq {0, 1, Cascade}
  PROVE  /\ Eoi(master) \subseteq {0, 1, Cascade} /\ Eoi(master) \subseteq master
         /\ 0 \notin Eoi(master)
         /\ 1 \in Eoi(master) => 0 \in master
<1>1. \A b \in master : b = 0 \/ b = 1 \/ b = 2
  BY DEF Cascade
<1>2. \A b \in Eoi(master) : b \in master /\ \E c \in master : c < b
  BY DEF Eoi
<1>3. \A c \in master : ~(c < 0) /\ (c < 1 => c = 0)
  BY <1>1
<1> QED
  BY <1>2, <1>3

(* An end of interrupt ends the card's, the only one the slave may have.   *)
LEMMA EoiOfSlave == ASSUME slave \subseteq {NicIrq} PROVE Eoi(slave) = {}
<1>1. \A b, c \in slave : ~(c < b)
  BY NicLine
<1> QED
  BY <1>1 DEF Eoi

(* An interrupt is taken when nobody needs interrupts off, and then only   *)
(* its own handler owes anything to the master.                            *)
LEMMA EnterStep ==
  ASSUME IntInv, NEW irq \in Irqs, Enter(irq), irr' \subseteq irr,
         \/ /\ irq \in Lines
            /\ master' = master \cup {MasterLine(irq)}
            /\ slave' = IF irq >= 8 THEN slave \cup {irq} ELSE slave
         \/ /\ irq \in {7, 15}
            /\ master' \subseteq master \cup {Cascade}
            /\ slave' = slave
  PROVE  IntInv'
<1>0. StackInv /\ FlagInv /\ ServiceInv /\ OtherInv
  BY DEF IntInv
<1>1. /\ StackInv'
      /\ Len(stack') = Len(stack) + 1
      /\ stack'[1].irq = irq
      /\ Left(1)' = (IF irq = NicIrq THEN 6 ELSE Longest(irq))
      /\ \A i \in 1 .. Len(stack) : stack'[i + 1] = stack[i]
      /\ \A i \in 2 .. Len(stack') : stack'[i] = stack[i - 1] /\ i - 1 \in 1 .. Len(stack)
  BY <1>0, EnterStack
<1>2. IF_ /\ ~IF_' /\ main' = main /\ g_ch' = g_ch
  BY DEF Enter
<1>3. Len(stack) \in Nat /\ stack' # <<>>
  BY <1>0, <1>1 DEF StackInv
<1>4. FlagInv'
  <2>1. ASSUME NEW i \in 2 .. Len(stack')
        PROVE  stack'[i].irq = NicIrq /\ Left(i)' <= 6
    <3>1. stack'[i] = stack[i - 1] /\ i - 1 \in 1 .. Len(stack)
      BY <1>1
    <3>2. stack[i - 1].irq = NicIrq /\ Left(i - 1) <= 6
      <4>1. CASE i = 2
        BY <4>1, <3>1, <1>0, <1>2, <1>3 DEF FlagInv
      <4>2. CASE i # 2
        BY <4>2, <3>1, <1>0, <1>3 DEF FlagInv
      <4> QED
        BY <4>1, <4>2
    <3> QED
      BY <3>1, <3>2 DEF Left
  <2>2. main.at # "locked"
    BY <1>0, <1>2 DEF FlagInv
  <2> QED
    BY <1>2, <2>1, <2>2 DEF FlagInv
<1>5. ServiceInv'
  <2>1. 0 \notin master /\ 1 \notin master
    BY <1>0, <1>2, NicLine DEF FlagInv, ServiceInv
  <2>2. CASE irq \in Lines
    <3>0. /\ master' = master \cup {MasterLine(irq)}
          /\ slave' = IF irq >= 8 THEN slave \cup {irq} ELSE slave
      BY <2>2, NicLine DEF Lines
    <3>a. MasterLine(irq) \in {0, 1, Cascade} /\ (irq >= 8 => irq = NicIrq)
      BY <2>2, NicLine DEF Lines, MasterLine
    <3>1. master' \subseteq {0, 1, Cascade} /\ slave' \subseteq {NicIrq}
      BY <1>0, <3>0, <3>a DEF ServiceInv
    <3>2. /\ 0 \in master' => irq = 0
          /\ 1 \in master' => irq = 1
      BY <2>1, <2>2, NicLine DEF MasterLine, Cascade, Lines
    <3>3. /\ 0 \in master' => Left(1)' >= 3
          /\ 1 \in master' => Left(1)' >= 2
      BY <1>1, <3>2, NicLine DEF Longest
    <3>4. NicIrq \in slave' =>
            \E i \in 1 .. Len(stack') : stack'[i].irq = NicIrq /\ Left(i)' >= 3
      <4>1. CASE irq = NicIrq
        BY <4>1, <1>1, <1>3
      <4>2. CASE irq # NicIrq /\ NicIrq \in slave'
        <5>1. NicIrq \in slave
          BY <2>2, <4>2, NicLine DEF Lines
        <5>2. PICK i \in 1 .. Len(stack) : stack[i].irq = NicIrq /\ Left(i) >= 3
          BY <5>1, <1>0 DEF ServiceInv
        <5>3. i + 1 \in 1 .. Len(stack') /\ stack'[i + 1] = stack[i]
          BY <1>1, <1>3
        <5> QED
          BY <5>2, <5>3 DEF Left
      <4> QED
        BY <4>1, <4>2
    <3> QED
      BY <1>1, <1>3, <3>1, <3>2, <3>3, <3>4 DEF ServiceInv
  <2>3. CASE irq \in {7, 15}
    <3>0. master' \subseteq master \cup {Cascade} /\ slave' = slave
      BY <2>3, NicLine DEF Lines
    <3>1. /\ master' \subseteq {0, 1, Cascade} /\ slave' \subseteq {NicIrq}
          /\ 0 \notin master' /\ 1 \notin master' /\ slave' = slave
      BY <1>0, <2>1, <3>0 DEF ServiceInv, Cascade
    <3>2. NicIrq \in slave' =>
            \E i \in 1 .. Len(stack') : stack'[i].irq = NicIrq /\ Left(i)' >= 3
      <4>1. CASE NicIrq \in slave
        <5>2. PICK i \in 1 .. Len(stack) : stack[i].irq = NicIrq /\ Left(i) >= 3
          BY <4>1, <1>0 DEF ServiceInv
        <5>3. i + 1 \in 1 .. Len(stack') /\ stack'[i + 1] = stack[i]
          BY <1>1, <1>3
        <5> QED
          BY <5>2, <5>3 DEF Left
      <4> QED
        BY <4>1, <3>1
    <3> QED
      BY <3>1, <3>2 DEF ServiceInv
  <2> QED
    BY <2>2, <2>3
<1>6. OtherInv'
  BY <1>0, <1>2, Zenon DEF OtherInv, Enter
<1> QED
  BY <1>1, <1>4, <1>5, <1>6 DEF IntInv

(* A step of the running handler other than its return: what it must do to *)
(* the interrupt flag and to the controllers.                              *)
LEMMA HandlerStep ==
  ASSUME IntInv, NEW op, Running(op), op # "iret", Done,
         UNCHANGED <<irr, main>>, g_ch' \in Chars \cup {0},
         IF_' = IF_ \/ (op = "unlock" /\ IF_' = TRUE),
         master' = (IF op = "master" THEN Eoi(master) ELSE master),
         slave' = (IF op = "slave" THEN Eoi(slave) ELSE slave)
  PROVE  IntInv'
<1>0. StackInv /\ FlagInv /\ ServiceInv /\ OtherInv
  BY DEF IntInv
<1> DEFINE irq == stack[1].irq
<1>1. /\ StackInv'
      /\ Len(stack') = Len(stack)
      /\ stack'[1].irq = irq
      /\ Left(1)' = Left(1) - 1
      /\ \A i \in 2 .. Len(stack) : stack'[i] = stack[i]
  BY <1>0, DoneStack
<1>2. /\ Len(stack) \in Nat \ {0} /\ irq \in Irqs
      /\ Left(1) \in 1 .. Longest(irq)
      /\ op = StepBefore(irq, Left(1) - 1)
  BY <1>0, NextStepOf DEF Frames
<1>3. Longest(irq) \in 1 .. 7 /\ (irq # NicIrq => Longest(irq) <= 5)
  BY DEF Longest
<1>4. FlagInv'
  <2>1. op = "unlock" => irq = NicIrq
    BY <1>2, <1>3, NicLine DEF StepBefore, Longest
  <2>2. \A i \in 2 .. Len(stack') : stack'[i].irq = NicIrq /\ Left(i)' <= 6
    BY <1>0, <1>1 DEF FlagInv, Left
  <2>3. ASSUME IF_'
        PROVE  stack'[1].irq = NicIrq /\ Left(1)' <= 6
    <3>1. stack # <<>>
      BY DEF Running
    <3>2. irq = NicIrq /\ Left(1) <= 7
      <4>1. CASE op = "unlock"
        BY <4>1, <2>1, <1>2, <1>3
      <4>2. CASE IF_' = IF_
        <5>1. IF_
          BY <2>3, <4>2
        <5>2. irq = NicIrq
          BY <5>1, <3>1, <1>0 DEF FlagInv
        <5> QED
          BY <5>2, <1>2, <1>3
      <4> QED
        BY <4>1, <4>2
    <3> QED
      BY <3>2, <1>1, <1>2, <1>3
  <2>4. main'.at # "locked"
    BY <1>0, <1>2 DEF FlagInv
  <2> QED
    BY <2>2, <2>3, <2>4 DEF FlagInv
<1>5. ServiceInv'
  <2>1. master' \subseteq {0, 1, Cascade} /\ master' \subseteq master
    BY <1>0, EoiOfMaster DEF ServiceInv
  <2>2. slave' \subseteq {NicIrq} /\ slave' \subseteq slave
    BY <1>0, EoiOfSlave DEF ServiceInv
  <2>3. ASSUME 0 \in master'
        PROVE  stack'[1].irq = 0 /\ Left(1)' >= 3
    <3>1. irq = 0 /\ Left(1) >= 3
      BY <2>1, <2>3, <1>0 DEF ServiceInv
    <3>2. op # "master"
      BY <2>3, <1>0, EoiOfMaster DEF ServiceInv
    <3>3. Left(1) # 3
      BY <3>1, <3>2, <1>2 DEF StepBefore
    <3> QED
      BY <3>1, <3>3, <1>1, <1>2, <1>3
  <2>4. ASSUME 1 \in master'
        PROVE  stack'[1].irq = 1 /\ Left(1)' >= 2
    <3>1. irq = 1 /\ Left(1) >= 2
      BY <2>1, <2>4, <1>0 DEF ServiceInv
    <3>2. op # "master"
      BY <2>4, <3>1, <1>0, EoiOfMaster DEF ServiceInv
    <3>3. Left(1) # 2
      BY <3>1, <3>2, <1>2 DEF StepBefore
    <3> QED
      BY <3>1, <3>3, <1>1, <1>2, <1>3
  <2>5. ASSUME NicIrq \in slave'
        PROVE  \E i \in 1 .. Len(stack') : stack'[i].irq = NicIrq /\ Left(i)' >= 3
    <3>1. op # "slave" /\ NicIrq \in slave
      BY <2>2, <2>5, <1>0, EoiOfSlave DEF ServiceInv
    <3>2. PICK i \in 1 .. Len(stack) : stack[i].irq = NicIrq /\ Left(i) >= 3
      BY <3>1, <1>0 DEF ServiceInv
    <3>3. CASE i = 1
      <4>1. Left(1) # 3
        BY <3>1, <3>2, <3>3, <1>2, NicLine DEF StepBefore
      <4>2. Left(1)' >= 3
        BY <4>1, <3>2, <3>3, <1>1, <1>2, <1>3
      <4> QED
        BY <4>2, <3>2, <3>3, <1>1, <1>2
    <3>4. CASE i # 1
      <4>1. i \in 2 .. Len(stack) /\ stack'[i] = stack[i]
        BY <3>4, <1>1, <1>2
      <4> QED
        BY <4>1, <3>2, <1>1 DEF Left
    <3> QED
      BY <3>3, <3>4
  <2>6. stack' # <<>>
    BY <1>1, <1>2 DEF StackInv
  <2> QED
    BY <2>1, <2>2, <2>3, <2>4, <2>5, <2>6 DEF ServiceInv
<1> QED
  BY <1>0, <1>1, <1>4, <1>5 DEF IntInv, OtherInv

(* The network card's handler allocates memory, before the end of its body. *)
LEMMA LockStep == ASSUME IntInv, BodyLocks PROVE IntInv'
<1>0. StackInv /\ FlagInv /\ ServiceInv /\ OtherInv
  BY DEF IntInv
<1> DEFINE t == stack[1].todo
           u == <<"unlock">> \o t
<1>1. /\ Len(stack) \in Nat \ {0} /\ stack[1] \in Frames /\ FrameOK(stack[1])
      /\ Left(1) \in 1 .. Longest(stack[1].irq)
      /\ "body" = StepBefore(stack[1].irq, Left(1) - 1)
  BY <1>0, NextStepOf DEF BodyLocks
<1>2. stack[1].irq = NicIrq /\ Len(t) = 6
  <2>1. Longest(stack[1].irq) \in 1 .. 7 /\ (stack[1].irq # NicIrq => Longest(stack[1].irq) <= 5)
    BY DEF Longest
  <2>2. ASSUME NEW irq, NEW n \in 1 .. 7, "body" = StepBefore(irq, n - 1)
        PROVE  n = 6
    BY <2>2 DEF StepBefore
  <2>3. Left(1) \in 1 .. 7
    BY <1>1, <2>1
  <2>4. Left(1) = 6
    BY <1>1, <2>2, <2>3
  <2>5. stack[1].irq = NicIrq
    BY <1>1, <2>1, <2>4
  <2> QED
    BY <2>4, <2>5 DEF Left
<1>3. t \in Seq(Steps) /\ "unlock" \in Steps
  BY <1>1 DEF Frames, Steps
<1>4. /\ u \in Seq(Steps) /\ Len(u) = 7 /\ u[1] = "unlock"
      /\ \A k \in 2 .. 7 : u[k] = t[k - 1]
  <2> HIDE DEF t
  <2>1. Len(t) = 6
    BY <1>2
  <2>2. /\ u \in Seq(Steps) /\ Len(u) = Len(t) + 1 /\ u[1] = "unlock"
        /\ \A k \in 2 .. Len(u) : u[k] = t[k - 1]
    BY <1>3
  <2> QED
    BY <2>1, <2>2
<1>5. /\ stack' \in Seq(Frames) /\ Len(stack') = Len(stack)
      /\ stack'[1] = [stack[1] EXCEPT !.todo = u]
      /\ \A i \in 2 .. Len(stack) : stack'[i] = stack[i]
  <2>1. [stack[1] EXCEPT !.todo = u] \in Frames
    BY <1>1, <1>4 DEF Frames
  <2>2. stack' = [stack EXCEPT ![1] = [stack[1] EXCEPT !.todo = u]]
    BY DEF BodyLocks
  <2> DEFINE f == [stack[1] EXCEPT !.todo = u]
  <2> HIDE DEF f
  <2>3. f \in Frames /\ stack' = [stack EXCEPT ![1] = f] /\ stack \in Seq(Frames)
    BY <2>1, <2>2, <1>0 DEF f, StackInv
  <2>4. /\ stack' \in Seq(Frames) /\ Len(stack') = Len(stack) /\ stack'[1] = f
        /\ \A i \in 2 .. Len(stack) : stack'[i] = stack[i]
    BY <2>3, <1>1
  <2> QED
    BY <2>4 DEF f
<1>6. stack'[1].irq = NicIrq /\ stack'[1].todo = u
  BY <1>1, <1>2, <1>5 DEF Frames
<1> HIDE DEF u
<1>7. FrameOK(stack'[1])
  <2>1. ASSUME NEW k \in 1 .. 7
        PROVE  u[k] = StepBefore(NicIrq, 7 - k)
    <3>1. CASE k = 1
      BY <3>1, <1>4 DEF StepBefore
    <3>2. CASE k # 1
      <4>1. k - 1 \in 1 .. Len(t) /\ Len(t) - (k - 1) = 7 - k /\ k \in 2 .. 7
        BY <3>2, <1>2
      <4>2. t[k - 1] = StepBefore(NicIrq, Len(t) - (k - 1))
        BY <1>1, <1>2, <4>1 DEF FrameOK
      <4> QED
        BY <1>4, <4>1, <4>2
    <3> QED
      BY <3>1, <3>2
  <2>2. Longest(NicIrq) = 7
    BY NicLine DEF Longest
  <2>3. Len(stack'[1].todo) = 7
    BY <1>4, <1>6
  <2> QED
    BY <1>6, <2>1, <2>2, <2>3 DEF FrameOK
<1>8. StackInv'
  BY <1>0, <1>1, <1>5, <1>7 DEF StackInv
<1>9. ~IF_' /\ UNCHANGED <<irr, master, slave, main, g_ch>>
  BY DEF BodyLocks, liballoc_lock
<1>10. FlagInv'
  <2>1. \A i \in 2 .. Len(stack') : stack'[i].irq = NicIrq /\ Left(i)' <= 6
    BY <1>0, <1>5 DEF FlagInv, Left
  <2>2. main'.at # "locked"
    BY <1>0, <1>1, <1>9 DEF FlagInv
  <2> QED
    BY <1>9, <2>1, <2>2 DEF FlagInv
<1>11. ServiceInv'
  <2>1. 0 \notin master /\ 1 \notin master
    BY <1>0, <1>2, NicLine DEF ServiceInv
  <2>2. Left(1)' = 7 /\ 1 \in 1 .. Len(stack')
    BY <1>1, <1>4, <1>5, <1>6 DEF Left
  <2> QED
    BY <1>0, <1>6, <1>9, <2>1, <2>2 DEF ServiceInv
<1>12. OtherInv'
  BY <1>0, <1>9, Zenon DEF OtherInv, BodyLocks, liballoc_lock
<1> QED
  BY <1>8, <1>10, <1>11, <1>12 DEF IntInv

(* The return finds interrupts on in what it returns to. *)
LEMMA IretStep == ASSUME IntInv, Iret PROVE IntInv'
<1>0. StackInv /\ FlagInv /\ ServiceInv /\ OtherInv
  BY DEF IntInv
<1>1. /\ Left(1) = 1
      /\ StackInv'
      /\ Len(stack') = Len(stack) - 1
      /\ \A i \in 1 .. Len(stack') : stack'[i] = stack[i + 1] /\ i + 1 \in 2 .. Len(stack)
      /\ \A i \in 2 .. Len(stack) : i - 1 \in 1 .. Len(stack') /\ stack'[i - 1] = stack[i]
  BY <1>0, IretStack
<1>2. IF_' = TRUE /\ UNCHANGED <<irr, master, slave, main, g_ch>> /\ stack # <<>>
  BY DEF Iret, Running
<1>3. Len(stack) \in Nat \ {0} /\ Len(stack') \in Nat
  BY <1>0, <1>1, <1>2 DEF StackInv
<1>4. FlagInv'
  <2>1. \A i \in 1 .. Len(stack') : stack'[i].irq = NicIrq /\ Left(i)' <= 6
    BY <1>0, <1>1 DEF FlagInv, Left
  <2>2. main'.at # "locked"
    BY <1>0, <1>2 DEF FlagInv
  <2>3. stack' # <<>> => 1 \in 1 .. Len(stack')
    BY <1>1, <1>3 DEF StackInv
  <2> QED
    BY <1>3, <2>1, <2>2, <2>3 DEF FlagInv
<1>5. ServiceInv'
  <2>1. 0 \notin master /\ 1 \notin master
    BY <1>0, <1>1 DEF ServiceInv
  <2>2. ASSUME NicIrq \in slave
        PROVE  \E i \in 1 .. Len(stack') : stack'[i].irq = NicIrq /\ Left(i)' >= 3
    <3>1. PICK i \in 1 .. Len(stack) : stack[i].irq = NicIrq /\ Left(i) >= 3
      BY <2>2, <1>0 DEF ServiceInv
    <3>2. i \in 2 .. Len(stack)
      BY <1>1, <1>3, <3>1
    <3> QED
      BY <3>1, <3>2, <1>1 DEF Left
  <2> QED
    BY <1>0, <1>2, <2>1, <2>2 DEF ServiceInv
<1>6. OtherInv'
  BY <1>0, <1>2, Zenon DEF OtherInv
<1> QED
  BY <1>1, <1>4, <1>5, <1>6 DEF IntInv

(* The program itself runs when no handler does. *)
LEMMA MainStep == ASSUME IntInv, mainStep PROVE IntInv'
<1>0. StackInv /\ FlagInv /\ ServiceInv /\ OtherInv
  BY DEF IntInv
<1>1. stack = <<>> /\ UNCHANGED <<irr, master, slave, stack>>
  BY DEF mainStep, MainLocks, MainUnlocks, Poll, Read, Clear, Main, pic
<1>2. StackInv' /\ ServiceInv'
  BY <1>0, <1>1 DEF StackInv, ServiceInv, Left
<1>3. CASE MainLocks
  BY <1>0, <1>1, <1>3
  DEF MainLocks, Main, At, liballoc_lock, FlagInv, OtherInv, Left, StackInv, ServiceInv, IntInv
<1>4. CASE MainUnlocks
  BY <1>0, <1>1, <1>4
  DEF MainUnlocks, Main, At, liballoc_unlock, FlagInv, OtherInv, Left, StackInv, ServiceInv, IntInv
<1>5. CASE Poll \/ Clear
  <2>1. main'.at # "locked" /\ IF_' = IF_
    BY <1>5 DEF Poll, Clear, Main, At
  <2>2. OtherInv'
    BY <1>0, <1>1, <1>5 DEF Poll, Clear, Main, At, OtherInv
  <2> QED
    BY <1>0, <1>1, <1>2, <2>1, <2>2 DEF IntInv, FlagInv, Left
<1>6. CASE Read
  <2>1. main'.at # "locked" /\ IF_' = IF_
    BY <1>6 DEF Read, Main
  <2>2. OtherInv'
    BY <1>0, <1>1, <1>6 DEF Read, Main, OtherInv
  <2> QED
    BY <1>0, <1>1, <1>2, <2>1, <2>2 DEF IntInv, FlagInv, Left
<1> QED
  BY <1>3, <1>4, <1>5, <1>6 DEF mainStep

(* Every step of a device, of a controller, of a handler and of the        *)
(* foreground preserves the invariant.                                     *)
LEMMA IntStep == ASSUME IntInv, [Next]_vars PROVE IntInv'
<1> USE DEF IntInv
<1>1. ASSUME NEW irq \in Lines, Request(irq)
      PROVE  IntInv'
  BY <1>1 DEF Request, StackInv, FlagInv, ServiceInv, OtherInv, Left
<1>2. ASSUME NEW irq \in Lines, Deliver(irq)
      PROVE  IntInv'
  BY <1>2, EnterStep DEF Deliver, Irqs
<1>3. ASSUME NEW irq \in {7, 15}, Spurious(irq)
      PROVE  IntInv'
  BY <1>3, EnterStep DEF Spurious, Irqs
<1>4. CASE handlerStep
  <2>1. CASE Tick
    BY <2>1, HandlerStep DEF Tick, OtherInv
  <2>2. CASE Key
    BY <2>2, HandlerStep DEF Key
  <2>3. CASE BodyLocks
    BY <2>3, LockStep
  <2>4. CASE BodyUnlocks
    BY <2>4, HandlerStep DEF BodyUnlocks, liballoc_unlock, OtherInv
  <2>5. CASE BodyEnds
    BY <2>5, HandlerStep DEF BodyEnds, OtherInv
  <2>6. CASE SlaveEoi
    BY <2>6, HandlerStep DEF SlaveEoi, OtherInv
  <2>7. CASE MasterEoi
    BY <2>7, HandlerStep DEF MasterEoi, OtherInv
  <2>8. CASE Iret
    BY <2>8, IretStep
  <2> QED
    BY <1>4, <2>1, <2>2, <2>3, <2>4, <2>5, <2>6, <2>7, <2>8 DEF handlerStep
<1>5. CASE mainStep
  BY <1>5, MainStep
<1>6. CASE UNCHANGED vars
  BY <1>6 DEF vars, StackInv, FlagInv, ServiceInv, OtherInv, Left
<1> QED
  BY <1>1, <1>2, <1>3, <1>4, <1>5, <1>6 DEF Next

(* It holds when interrupts are turned on for the first time.              *)
LEMMA IntInit == Init => IntInv
BY InterruptsAssumption
DEF Init, IntInv, StackInv, FlagInv, ServiceInv, OtherInv, At, Left

(* Handlers, flag and controllers stay in step. *)
LEMMA InterruptsInvariant == Spec => []IntInv
<1>1. IntInv /\ [Next]_vars => IntInv'
  BY IntStep
<1> QED
  BY <1>1, IntInit, PTL DEF Spec

-----------------------------------------------------------------------------
(* Theorems *)

(* No line stays in service that no handler still has to end. *)
THEOREM ServiceIsOwed == Spec => []InServiceOwed
<1>1. ASSUME IntInv PROVE InServiceOwed
  <2>0. StackInv /\ FlagInv /\ ServiceInv /\ OtherInv
    BY <1>1 DEF IntInv
  <2>1. stack \in Seq(Frames) /\ DOMAIN stack = 1 .. Len(stack)
    BY <2>0 DEF StackInv
  <2>2. ASSUME NEW i \in DOMAIN stack
        PROVE  /\ stack[i].irq \in Irqs /\ stack[i].todo \in Seq(Steps)
               /\ Left(i) \in Nat \ {0} /\ DOMAIN stack[i].todo = 1 .. Left(i)
               /\ \A k \in 1 .. Left(i) : stack[i].todo[k] = StepBefore(stack[i].irq, Left(i) - k)
    <3>1. stack[i] \in Frames /\ FrameOK(stack[i])
      BY <2>0, <2>1 DEF StackInv
    <3>2. Longest(stack[i].irq) \in Nat
      BY DEF Longest
    <3>3. stack[i].todo \in Seq(Steps) /\ stack[i].irq \in Irqs
      BY <3>1 DEF Frames
    <3>4. Left(i) \in Nat /\ DOMAIN stack[i].todo = 1 .. Left(i)
      BY <3>3 DEF Left
    <3> QED
      BY <3>1, <3>2, <3>3, <3>4 DEF FrameOK, Left
  <2>3. TypeOK
    <3>1. master \subseteq 0 .. 7
      BY <2>0 DEF ServiceInv, Cascade
    <3>2. ASSUME NEW i \in DOMAIN stack
          PROVE  stack[i].irq \in Lines \cup {7, 15} /\ stack[i].todo \in Seq(Steps)
                 /\ stack[i].todo # <<>>
      BY <2>2 DEF Irqs, Left
    <3> QED
      BY <2>0, <3>1, <3>2 DEF TypeOK, StackInv, ServiceInv, OtherInv
  <2>4. ASSUME NEW irq \in {0, 1}, irq \in master
        PROVE  Owes(irq, "master")
    <3>1. 1 \in DOMAIN stack /\ stack[1].irq = irq /\ Left(1) >= 2
      BY <2>0, <2>1, <2>2, <2>4 DEF ServiceInv
    <3>2. Left(1) - 1 \in 1 .. Left(1) /\ Left(1) - (Left(1) - 1) = 1
      BY <2>2, <3>1
    <3>3. Left(1) - 1 \in DOMAIN stack[1].todo /\ stack[1].todo[Left(1) - 1] = StepBefore(irq, 1)
      BY <2>2, <3>1, <3>2
    <3>4. StepBefore(irq, 1) = "master"
      BY DEF StepBefore
    <3> QED
      BY <3>1, <3>3, <3>4 DEF Owes
  <2>5. ASSUME NicIrq \in slave
        PROVE  Owes(NicIrq, "slave")
    <3>1. PICK i \in DOMAIN stack : stack[i].irq = NicIrq /\ Left(i) >= 3
      BY <2>0, <2>1, <2>5 DEF ServiceInv
    <3>2. Left(i) - 2 \in 1 .. Left(i) /\ Left(i) - (Left(i) - 2) = 2
      BY <2>2, <3>1
    <3>3. /\ Left(i) - 2 \in DOMAIN stack[i].todo
          /\ stack[i].todo[Left(i) - 2] = StepBefore(NicIrq, 2)
      BY <2>2, <3>1, <3>2
    <3>4. StepBefore(NicIrq, 2) = "slave"
      BY NicLine DEF StepBefore
    <3> QED
      BY <3>1, <3>3, <3>4 DEF Owes
  <2> QED
    BY <2>0, <2>3, <2>4, <2>5 DEF InServiceOwed, ServiceInv
<1>2. IntInv => InServiceOwed
  BY <1>1
<1> QED
  BY <1>2, InterruptsInvariant, PTL

(* The heap's lock is not taken while it is held, and only the network     *)
(* card's handler is interrupted.                                          *)
THEOREM LockIsExclusive == Spec => []HeapLockHeld
<1>1. ASSUME IntInv PROVE HeapLockHeld
  <2>0. StackInv /\ FlagInv
    BY <1>1 DEF IntInv
  <2>1. stack \in Seq(Frames) /\ DOMAIN stack = 1 .. Len(stack) /\ Len(stack) \in Nat
    BY <2>0 DEF StackInv
  <2>2. \A i \in DOMAIN stack : i > 1 => stack[i].irq = NicIrq /\ Left(i) <= 6
    BY <2>0, <2>1 DEF FlagInv
  <2>3. ASSUME NEW i \in DOMAIN stack, Head(stack[i].todo) = "unlock"
        PROVE  i = 1 /\ ~IF_
    <3>1. stack[i] \in Frames /\ FrameOK(stack[i]) /\ Longest(stack[i].irq) \in 1 .. 7
      BY <2>0, <2>1 DEF StackInv, Longest
    <3>2. /\ stack[i].todo \in Seq(Steps)
          /\ Left(i) \in 1 .. Longest(stack[i].irq) /\ Left(i) \in 1 .. 7
      <4>1. stack[i].todo \in Seq(Steps) /\ Left(i) \in 1 .. Longest(stack[i].irq)
        BY <3>1 DEF Frames, FrameOK, Left
      <4> QED
        BY <3>1, <4>1
    <3>3. Head(stack[i].todo) = StepBefore(stack[i].irq, Left(i) - 1)
      BY <3>1, <3>2 DEF FrameOK, Left
    <3>4. ASSUME NEW irq, NEW n \in 1 .. 7, "unlock" = StepBefore(irq, n - 1)
          PROVE  n = 7
      BY <3>4 DEF StepBefore
    <3>5. Left(i) = 7
      BY <2>3, <3>2, <3>3, <3>4
    <3>6. i = 1 /\ stack # <<>>
      BY <2>1, <2>2, <3>5
    <3> QED
      BY <2>0, <3>5, <3>6 DEF FlagInv
  <2> QED
    BY <2>0, <2>2, <2>3 DEF HeapLockHeld, FlagInv
<1>2. IntInv => HeapLockHeld
  BY <1>1
<1> QED
  BY <1>2, InterruptsInvariant, PTL

=============================================================================
