-------------------------------- MODULE Ipi ---------------------------------
(***************************************************************************)
(* Interprocessor interrupts: ipi_send, ipi_tlbshootdown and                *)
(* interprocessor_interrupt of kern/thread/thread.c, and the part of        *)
(* mainbus_interrupt that calls the last (kern/arch/sys161/dev/             *)
(* lamebus_machdep.c).  The functions hold the target's c_ipi_lock from     *)
(* start to end, so each is one step; the interrupt line is dropped in a    *)
(* step of its own, after the handler.  ipi_broadcast is ipi_send to one    *)
(* CPU after the other.                                                     *)
(***************************************************************************)
EXTENDS Integers, Sequences, FiniteSets

CONSTANTS
  CPUs,
  Mappings,          \* what a struct tlbshootdown names
  TLBSHOOTDOWN_MAX   \* the length of c_shootdown (16)

ASSUME MaxAssumption == TLBSHOOTDOWN_MAX \in Nat \ {0}

TLBSHOOTDOWN_ALL == -1
Codes == {"IPI_PANIC", "IPI_OFFLINE", "IPI_UNIDLE", "IPI_TLBSHOOTDOWN"}

VARIABLES
  c_ipi_pending,   \* the codes whose bit is set
  c_shootdown,     \* the array's entries that have been written
  c_numshootdown,
  line,            \* the CPUs whose interrupt line is raised
  pc,              \* "run", "handled" (the line is still up), or "halted"
  owed,            \* requested of the CPU and not passed to vm_tlbshootdown yet
  dropped          \* those of them that ipi_tlbshootdown has lost

ipivars == <<c_ipi_pending, c_shootdown, c_numshootdown, line, pc, owed, dropped>>

IpiInit ==
  /\ c_ipi_pending = [c \in CPUs |-> {}]
  /\ c_shootdown = [c \in CPUs |-> <<>>]
  /\ c_numshootdown = [c \in CPUs |-> 0]
  /\ line = {}
  /\ pc = [c \in CPUs |-> "run"]
  /\ owed = [c \in CPUs |-> {}]
  /\ dropped = [c \in CPUs |-> {}]

----------------------------------------------------------------------------
ipi_send(c, d, code) ==
  /\ pc[c] # "halted"
  /\ c_ipi_pending' = [c_ipi_pending EXCEPT ![d] = @ \cup {code}]
  /\ line' = line \cup {d}
  /\ UNCHANGED <<c_shootdown, c_numshootdown, pc, owed, dropped>>

\* Writing entry n of the array, n counted from 0.
Write(s, n, m) == [k \in 1..(IF n < Len(s) THEN Len(s) ELSE n + 1) |-> IF k = n + 1 THEN m ELSE s[k]]

(***************************************************************************)
(* A full array turns into TLBSHOOTDOWN_ALL.  Once it has, n is -1: the     *)
(* mapping is stored below the array, over c_ipi_pending, which then holds  *)
(* whatever bits the mapping has, and the count becomes 0.  With that, what *)
(* was asked for so far is dropped.                                         *)
(***************************************************************************)
ipi_tlbshootdown(c, d, m) ==
  LET n == c_numshootdown[d]
      pending(bits) == c_ipi_pending' = [c_ipi_pending EXCEPT ![d] = bits \cup {"IPI_TLBSHOOTDOWN"}] IN
  /\ pc[c] # "halted"
  /\ owed' = [owed EXCEPT ![d] = @ \cup {m}]
  /\ \/ /\ n = TLBSHOOTDOWN_MAX
        /\ c_numshootdown' = [c_numshootdown EXCEPT ![d] = TLBSHOOTDOWN_ALL]
        /\ pending(c_ipi_pending[d])
        /\ dropped' = [dropped EXCEPT ![d] = {}]
        /\ UNCHANGED c_shootdown
     \/ /\ n \in 0..(TLBSHOOTDOWN_MAX - 1)
        /\ c_numshootdown' = [c_numshootdown EXCEPT ![d] = n + 1]
        /\ pending(c_ipi_pending[d])
        /\ c_shootdown' = [c_shootdown EXCEPT ![d] = Write(@, n, m)]
        /\ dropped' = [dropped EXCEPT ![d] = @ \ {m}]
     \/ /\ n = TLBSHOOTDOWN_ALL
        /\ c_numshootdown' = [c_numshootdown EXCEPT ![d] = 0]
        /\ \E bits \in SUBSET Codes : pending(bits)
        /\ dropped' = [dropped EXCEPT ![d] = owed[d] \cup {m}]
        /\ UNCHANGED c_shootdown
  /\ line' = line \cup {d}
  /\ UNCHANGED pc

\* Mutant: the handler does not know TLBSHOOTDOWN_ALL; its loop ends before it begins.
Served_NoAll(c) == {c_shootdown[c][i] : i \in 1..c_numshootdown[c]}

\* The mappings interprocessor_interrupt passes to vm_tlbshootdown, or all of them.
Served(c) ==
  IF c_numshootdown[c] = TLBSHOOTDOWN_ALL
    THEN Mappings
    ELSE {c_shootdown[c][i] : i \in 1..c_numshootdown[c]}

interprocessor_interrupt(c) ==
  /\ pc[c] = "run" /\ c \in line
  /\ IF c_ipi_pending[c] \cap {"IPI_PANIC", "IPI_OFFLINE"} # {}
       THEN /\ pc' = [pc EXCEPT ![c] = "halted"]
            /\ UNCHANGED <<c_ipi_pending, c_numshootdown, owed>>
       ELSE /\ pc' = [pc EXCEPT ![c] = "handled"]
            /\ c_ipi_pending' = [c_ipi_pending EXCEPT ![c] = {}]
            /\ IF "IPI_TLBSHOOTDOWN" \in c_ipi_pending[c]
                 THEN /\ owed' = [owed EXCEPT ![c] = @ \ Served(c)]
                      /\ c_numshootdown' = [c_numshootdown EXCEPT ![c] = 0]
                 ELSE UNCHANGED <<owed, c_numshootdown>>
  /\ UNCHANGED <<c_shootdown, line, dropped>>

\* mainbus_interrupt, after interprocessor_interrupt has returned.
lamebus_clear_ipi(c) ==
  /\ pc[c] = "handled"
  /\ pc' = [pc EXCEPT ![c] = "run"]
  /\ line' = line \ {c}
  /\ UNCHANGED <<c_ipi_pending, c_shootdown, c_numshootdown, owed, dropped>>

----------------------------------------------------------------------------
IpiCall(c) ==
  \/ \E d \in CPUs, code \in Codes \ {"IPI_TLBSHOOTDOWN"} : ipi_send(c, d, code)
  \/ \E d \in CPUs, m \in Mappings : ipi_tlbshootdown(c, d, m)

IpiStep(c) == interprocessor_interrupt(c) \/ lamebus_clear_ipi(c)

----------------------------------------------------------------------------
(***************************************************************************)
(* A mapping a CPU has been asked to invalidate is invalidated by the       *)
(* handler that takes the request, however many requests come before it     *)
(* and also when the array has run full: it is not owed any longer once     *)
(* IPI_TLBSHOOTDOWN is not pending.  The one exception are the mappings     *)
(* that ipi_tlbshootdown itself drops, when it is called once more after    *)
(* the array has turned into TLBSHOOTDOWN_ALL and before the handler runs.  *)
(***************************************************************************)
ShootdownServed ==
  \A c \in CPUs : owed[c] \ dropped[c] # {} => "IPI_TLBSHOOTDOWN" \in c_ipi_pending[c]

=============================================================================
