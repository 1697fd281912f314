------------------------------ MODULE Lamebus -------------------------------
(***************************************************************************)
(* lamebus_interrupt (kern/dev/lamebus/lamebus.c): the boot CPU, to which   *)
(* probe_lamebus routes every slot, calls the handlers of the slots that    *)
(* assert their line, lowest slot first, and reads the lines again after    *)
(* each.  Handlers therefore run one at a time; threads on other CPUs go on *)
(* meanwhile.  Every slot in use has its driver, so no interrupt is a dud.  *)
(***************************************************************************)
EXTENDS Integers, FiniteSets, FiniteSetsExt

CONSTANT Nobody    \* no thread

VARIABLE irq    \* the slot being served, and where in its handler the CPU is

NoIrq == [slot |-> 0, at |-> "off"]

BusInit == irq = NoIrq

\* The handler of slot s is about to be entered, is at a later point, or has returned.
In(s, at) == irq = [slot |-> s, at |-> at]
GoTo(at) == irq' = [irq EXCEPT !.at = at]

lamebus_interrupt(irqs) ==
  /\ irq = NoIrq /\ irqs # {}
  /\ irq' = [slot |-> Min(irqs), at |-> "call"]

\* The loop goes on above the slot just served.
lamebus_interrupt_next(irqs) ==
  LET later == {s \in irqs : s > irq.slot} IN
  /\ irq.at = "next"
  /\ irq' = IF later = {} THEN NoIrq ELSE [slot |-> Min(later), at |-> "call"]
=============================================================================
