---------------------------- MODULE Interrupts ----------------------------
(***************************************************************************)
(* Hardware interrupts: the entry code src/src/asm/irq.asm, the dispatcher *)
(* in cpu/isr.c, drivers/8259_pic.c, the handlers of timer.c, keyboard.c   *)
(* and rtl8139.c, and what they interrupt: code that allocates memory      *)
(* under the heap's lock (liballoc_hook.c) and kb_getchar.                 *)
(*                                                                         *)
(* A handler is the sequence of the steps it still has to make:            *)
(*   "tick", "key"      the bodies of timer_handler and keyboard_handler   *)
(*   "body"             rtl8139_irq_handler up to its last two lines,      *)
(*                      which may call malloc and free any number of times *)
(*   "slave", "master"  an end-of-interrupt command to that controller     *)
(*   "iret"             the end of irq_handler                             *)
(*                                                                         *)
(* The two controllers are external: edge triggered, fully nested, and a   *)
(* non-specific end of interrupt clears the bit of the highest priority.   *)
(***************************************************************************)
EXTENDS Integers, Sequences

CONSTANTS
  NicIrq,        \* nic.irq, a line of the slave controller
  Chars,         \* characters that keys stand for
  MaxDepth       \* bound: handlers active at a time

ASSUME InterruptsAssumption == /\ NicIrq \in 8 .. 14
                               /\ Chars \subseteq Nat \ {0}
                               /\ MaxDepth \in Nat \ {0}

VARIABLES
  IF_,           \* the processor's interrupt flag
  irr,           \* lines that request an interrupt
  master, slave, \* lines in service at the two controllers
  stack,         \* active handlers, the running one first
  main,          \* where the interrupted program is
  g_ch           \* the last key's character, 0 if there is none

vars == <<IF_, irr, master, slave, stack, main, g_ch>>
pic == <<irr, master, slave>>

IRQ_BASE == 32
Lines == {0, 1, NicIrq}
Cascade == 2

-----------------------------------------------------------------------------
(* The code of the handlers *)

pic8259_eoi(irq) == IF irq >= 8 THEN <<"slave", "master">> ELSE <<"master">>

(* Mutant: timer_handler leaves the end of interrupt to its caller. *)
TimerSendsNoEoi == <<"tick">>

(* The argument is the vector, not the line: both controllers get one. *)
timer_handler == <<"tick">> \o pic8259_eoi(IRQ_BASE)

keyboard_handler == <<"key">>

rtl8139_irq_handler == <<"body">> \o pic8259_eoi(NicIrq)

(* With nothing requesting, the controllers read as 0 in the bit that is   *)
(* tested: an interrupt 7 or 15 is always taken for a spurious one.        *)
pic8259_is_spurious(irq) == irq \in {7, 15}

g_interrupt_handlers(irq) == CASE irq = 0 -> timer_handler
                               [] irq = 1 -> keyboard_handler
                               [] irq = NicIrq -> rtl8139_irq_handler

(* Mutant: lines of the master get no end of interrupt. *)
NoMasterEoi(irq) ==
  IF pic8259_is_spurious(irq) THEN <<>>
  ELSE g_interrupt_handlers(irq) \o (IF irq >= 8 THEN pic8259_eoi(irq) ELSE <<>>)

isr_irq_handler(irq) ==
  IF pic8259_is_spurious(irq) THEN <<>>
  ELSE g_interrupt_handlers(irq) \o pic8259_eoi(irq)

irq_handler(irq) == isr_irq_handler(irq) \o <<"iret">>

-----------------------------------------------------------------------------
(* The controllers *)

Eoi(bits) == { b \in bits : \E c \in bits : c < b }

MasterLine(irq) == IF irq >= 8 THEN Cascade ELSE irq

MasterAccepts(line) == \A b \in master : line < b
Accepts(irq) == /\ MasterAccepts(MasterLine(irq))
                /\ irq >= 8 => \A b \in slave : irq < b

(* The processor takes an interrupt and runs its entry code, which turns   *)
(* interrupts off.                                                         *)
Enter(irq) == /\ IF_ /\ Len(stack) < MaxDepth
              /\ IF_' = FALSE
              /\ stack' = <<[irq |-> irq, todo |-> irq_handler(irq)]>> \o stack
              /\ UNCHANGED <<main, g_ch>>

(* No request of a higher priority is waiting for the processor. *)
First(line) == \A j \in irr : Accepts(j) => line <= MasterLine(j)

Deliver(irq) ==
  /\ irq \in irr /\ Accepts(irq) /\ First(MasterLine(irq))
  /\ irr' = irr \ {irq}
  /\ master' = master \cup {MasterLine(irq)}
  /\ slave' = IF irq >= 8 THEN slave \cup {irq} ELSE slave
  /\ Enter(irq)

(* A request that is gone when the processor asks for it.  The slave's     *)
(* leaves the cascade in service at the master.                            *)
Spurious(irq) ==
  /\ MasterAccepts(MasterLine(irq)) /\ First(MasterLine(irq))
  /\ master' = IF irq = 15 THEN master \cup {Cascade} ELSE master
  /\ UNCHANGED <<irr, slave>>
  /\ Enter(irq)

(* Lines request whenever they like. *)
Request(irq) == /\ irq \notin irr
                /\ irr' = irr \cup {irq}
                /\ UNCHANGED <<IF_, master, slave, stack, main, g_ch>>

-----------------------------------------------------------------------------
(* Steps of the running handler *)

Running(op) == stack # <<>> /\ Head(stack[1].todo) = op
Done == stack' = [stack EXCEPT ![1].todo = Tail(@)]

Tick == /\ Running("tick") /\ Done
        /\ UNCHANGED <<IF_, irr, master, slave, main, g_ch>>

(* A press stores the key's character; a release, or a modifier, stores 0. *)
Key == /\ Running("key") /\ Done
       /\ g_ch' \in Chars \cup {0}
       /\ UNCHANGED <<IF_, irr, master, slave, main>>

(* Mutant: the lock leaves interrupts as they are. *)
LockWithoutCli == UNCHANGED IF_

liballoc_lock == IF_' = FALSE
liballoc_unlock == IF_' = TRUE

(* An allocation: its lock, and its unlock, after which the handler runs   *)
(* with interrupts on.                                                     *)
BodyLocks == /\ Running("body")
             /\ stack' = [stack EXCEPT ![1].todo = <<"unlock">> \o @]
             /\ liballoc_lock
             /\ UNCHANGED <<irr, master, slave, main, g_ch>>

BodyUnlocks == /\ Running("unlock") /\ Done
               /\ liballoc_unlock
               /\ UNCHANGED <<irr, master, slave, main, g_ch>>

BodyEnds == /\ Running("body") /\ Done
            /\ UNCHANGED <<IF_, irr, master, slave, main, g_ch>>

SlaveEoi == /\ Running("slave") /\ Done
            /\ slave' = Eoi(slave)
            /\ UNCHANGED <<IF_, irr, master, main, g_ch>>

MasterEoi == /\ Running("master") /\ Done
             /\ master' = Eoi(master)
             /\ UNCHANGED <<IF_, irr, slave, main, g_ch>>

(* The flags of the interrupted code come back: interrupts were on. *)
Iret == /\ Running("iret")
        /\ stack' = Tail(stack)
        /\ IF_' = TRUE
        /\ UNCHANGED <<irr, master, slave, main, g_ch>>

-----------------------------------------------------------------------------
(* The interrupted program *)

Main(from, to) == stack = <<>> /\ main.at = from /\ main' = to

At(where) == [at |-> where, c |-> 0]

MainLocks == Main("run", At("locked")) /\ liballoc_lock /\ UNCHANGED <<pic, stack, g_ch>>

MainUnlocks == Main("locked", At("run")) /\ liballoc_unlock /\ UNCHANGED <<pic, stack, g_ch>>

(* kb_getchar: the loop, the read, the reset. *)
Poll == /\ g_ch > 0
        /\ Main("run", At("read"))
        /\ UNCHANGED <<IF_, pic, stack, g_ch>>

Read == /\ Main("read", [at |-> "clear", c |-> g_ch])
        /\ UNCHANGED <<IF_, pic, stack, g_ch>>

(* It returns c, whatever g_ch has become since. *)
Clear == /\ Main("clear", At("run"))
         /\ g_ch' = 0
         /\ UNCHANGED <<IF_, pic, stack>>

-----------------------------------------------------------------------------
Init == /\ IF_ = TRUE /\ irr = {} /\ master = {} /\ slave = {}
        /\ stack = <<>> /\ main = At("run") /\ g_ch = 0

handlerStep == Tick \/ Key \/ BodyLocks \/ BodyUnlocks \/ BodyEnds
                 \/ SlaveEoi \/ MasterEoi \/ Iret
mainStep == MainLocks \/ MainUnlocks \/ Poll \/ Read \/ Clear

Next == \/ \E irq \in Lines : Request(irq) \/ Deliver(irq)
        \/ Spurious(7) \/ Spurious(15)
        \/ handlerStep
        \/ mainStep

(* The timer keeps ticking; the processor goes on with what it does; a     *)
(* frame needs finitely many allocations; and a request that is let        *)
(* through again and again is taken.                                       *)
Fairness == /\ WF_vars(Request(0))
            /\ WF_vars(handlerStep) /\ SF_vars(BodyEnds)
            /\ WF_vars(mainStep)
            /\ \A irq \in Lines : SF_vars(Deliver(irq))

Spec == Init /\ [][Next]_vars /\ Fairness

-----------------------------------------------------------------------------
(* Properties *)

Steps == {"tick", "key", "body", "unlock", "slave", "master", "iret"}

(* Lines, flags and handlers are well formed; a handler never runs out of  *)
(* steps before its iret.                                                  *)
TypeOK ==
  /\ IF_ \in BOOLEAN /\ irr \subseteq Lines
  /\ master \subseteq 0 .. 7 /\ slave \subseteq {NicIrq}
  /\ Len(stack) <= MaxDepth
  /\ \A i \in DOMAIN stack : /\ stack[i].irq \in Lines \cup {7, 15}
                             /\ stack[i].todo \in Seq(Steps)
                             /\ stack[i].todo # <<>>
  /\ main.at \in {"run", "locked", "read", "clear"}
  /\ main.c \in Chars \cup {0} /\ g_ch \in Chars \cup {0}

Owes(irq, command) ==
  \E i \in DOMAIN stack : /\ stack[i].irq = irq
                          /\ \E k \in DOMAIN stack[i].todo : stack[i].todo[k] = command

(* A line is in service only while an active handler of that line still    *)
(* has to end it, although handlers nest and some send more than one end   *)
(* of interrupt, each of which ends whatever has the highest priority.     *)
(* Only the cascade, after a spurious 15, may be left over.                *)
InServiceOwed ==
  /\ TypeOK
  /\ \A irq \in master \ {Cascade} : Owes(irq, "master")
  /\ \A irq \in slave : Owes(irq, "slave")

(* The heap's lock is never taken while it is held: code between cli and   *)
(* sti is not interrupted, by a handler that allocates or by any other.    *)
(* And only the network card's handler, which allocates memory, is ever    *)
(* interrupted: the timer's and the keyboard's run to their end.           *)
HeapLockHeld ==
  /\ \A i \in DOMAIN stack : i > 1 => stack[i].irq = NicIrq
  /\ main.at = "locked" => stack = <<>> /\ ~IF_
  /\ \A i \in DOMAIN stack : Head(stack[i].todo) = "unlock" => i = 1 /\ ~IF_

(* From some time on a tick comes only after the handler of the last one   *)
(* has ended: ticks are 10 ms apart.                                       *)
SlowTimer == <>[][0 \in irr' => \/ 0 \in irr
                                \/ \A i \in DOMAIN stack : stack[i].irq # 0]_vars

(* No key is pressed or released any more. *)
KeysEnd == <>[][1 \in irr' => 1 \in irr]_vars

(* Every request is served: interrupts come back on, handlers leave no     *)
(* line in service, and lines of a higher priority let others through.     *)
(* isr_irq_handler returns from a spurious 15 without ending the cascade's *)
(* interrupt, which shuts out the network card; the surplus commands of    *)
(* timer_handler let it in again.  A timer that ticks again and again      *)
(* while its handlers run keeps the others waiting; the timer and the      *)
(* keyboard together can keep the card waiting for as long as keys come    *)
(* without a pause.                                                        *)
RequestsServed == /\ []<>(0 \notin irr)
                  /\ SlowTimer => []<>(1 \notin irr)
                  /\ SlowTimer /\ KeysEnd => []<>(NicIrq \notin irr)
=============================================================================
