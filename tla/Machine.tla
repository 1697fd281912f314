------------------------------ MODULE Machine -------------------------------
(***************************************************************************)
(* The machine as the kernel's drivers see it: the interprocessor interrupt *)
(* line, and the serial port, the disk and the emulator's file system       *)
(* behind the LAMEbus, whose handlers the boot CPU runs one after the       *)
(* other.  mainbus_interrupt                                                *)
(* (kern/arch/sys161/dev/lamebus_machdep.c) serves the two lines            *)
(* independently.                                                           *)
(***************************************************************************)
EXTENDS Ipi, Console, Disk, Emu

CONSTANT Loads    \* bounds, one of which holds in a behaviour: IPIs sent, console
                  \* calls, keys typed, disk calls, emufs calls

ASSUME SlotAssumption == {SerialSlot, DiskSlot, EmuSlot} \subseteq Nat /\ EmuSlot \notin {SerialSlot, DiskSlot}

VARIABLE load     \* what may still be asked for

vars == <<ipivars, cvars, dvars, evars, irq, load>>

Init ==
  /\ IpiInit /\ ConsoleInit /\ DiskInit /\ EmuInit /\ BusInit
  /\ load \in Loads

\* The slots that assert their interrupt (CTLREG_IRQS).
Irqs == (IF SerialIrq THEN {SerialSlot} ELSE {}) \cup (IF DiskIrq THEN {DiskSlot} ELSE {})
          \cup (IF EmuIrq THEN {EmuSlot} ELSE {})

Spend(what) == load[what] > 0 /\ load' = [load EXCEPT ![what] = @ - 1]

IpiRequest(c) == Spend("ipi") /\ IpiCall(c) /\ UNCHANGED <<cvars, dvars, evars, irq>>
IpiInterrupt(c) == IpiStep(c) /\ UNCHANGED <<cvars, dvars, evars, irq, load>>

Bus == (lamebus_interrupt(Irqs) \/ lamebus_interrupt_next(Irqs)) /\ UNCHANGED <<ipivars, cvars, dvars, evars, load>>

Keyboard == Spend("keys") /\ KeyTyped /\ UNCHANGED <<ipivars, dvars, evars>>
SerialDevice == SendDone /\ UNCHANGED <<ipivars, dvars, evars, load>>
SerialInterrupt == SerialHandler /\ UNCHANGED <<ipivars, dvars, evars, load>>
SerialThread(t) == ConsoleStep(t) /\ UNCHANGED <<ipivars, dvars, evars, load>>
SerialCall(t) == Spend("console") /\ ConsoleCall(t) /\ UNCHANGED <<ipivars, dvars, evars>>

DiskDevice == Transfer /\ UNCHANGED <<ipivars, cvars, evars, load>>
DiskInterrupt == lhd_irq /\ UNCHANGED <<ipivars, cvars, evars, load>>
DiskThread(t) == DiskStep(t) /\ UNCHANGED <<ipivars, cvars, evars, load>>
DiskCall(t) == Spend("disk") /\ lhd_io(t) /\ UNCHANGED <<ipivars, cvars, evars>>

EmuDone == EmuDevice /\ UNCHANGED <<ipivars, cvars, dvars, load>>
EmuInterrupt == emu_irq /\ UNCHANGED <<ipivars, cvars, dvars, load>>
EmuThread(t) == EmuStep(t) /\ UNCHANGED <<ipivars, cvars, dvars, load>>
EmuRequest(t) == Spend("emu") /\ EmuCall(t) /\ UNCHANGED <<ipivars, cvars, dvars>>

Next ==
  \/ \E c \in CPUs : IpiRequest(c)
  \/ \E c \in CPUs : IpiInterrupt(c)
  \/ Bus
  \/ Keyboard \/ SerialDevice \/ SerialInterrupt
  \/ \E t \in Threads : SerialThread(t)
  \/ \E t \in Threads : SerialCall(t)
  \/ DiskDevice \/ DiskInterrupt
  \/ \E t \in IoThreads : DiskThread(t)
  \/ \E t \in IoThreads : DiskCall(t)
  \/ EmuDone \/ EmuInterrupt
  \/ \E t \in EmuThreads : EmuThread(t)
  \/ \E t \in EmuThreads : EmuRequest(t)

(***************************************************************************)
(* Fairness: devices finish what they were told to do, the boot CPU takes   *)
(* its interrupts (it enables them again and again), and a thread inside a  *)
(* driver goes on when it can; nobody has to make a call or press a key.    *)
(***************************************************************************)
Fairness ==
  /\ WF_vars(SerialDevice) /\ WF_vars(DiskDevice) /\ WF_vars(EmuDone)
  /\ WF_vars(Bus) /\ WF_vars(SerialInterrupt) /\ WF_vars(DiskInterrupt) /\ WF_vars(EmuInterrupt)
  /\ \A t \in Threads : WF_vars(SerialThread(t))
  /\ \A t \in IoThreads : WF_vars(DiskThread(t))
  /\ \A t \in EmuThreads : WF_vars(EmuThread(t))

Spec == Init /\ [][Next]_vars /\ Fairness

(***************************************************************************)
(* What the drivers promise their callers, with all on one bus: output that *)
(* has begun ends, and the disk and the emulator are handed on.             *)
(***************************************************************************)
DriversFinish == OutputMoves /\ DiskMoves /\ EmuMoves
=============================================================================
