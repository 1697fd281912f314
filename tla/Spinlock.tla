------------------------------ MODULE Spinlock ------------------------------
(***************************************************************************)
(* Spinlocks, interrupt priority levels and the context switch that moves   *)
(* them from one thread to the next: kern/thread/spinlock.c, kern/thread/   *)
(* spl.c, the interrupt entry and exit of kern/arch/mips/locore/trap.c, and *)
(* the switch of kern/thread/thread.c.                                      *)
(*                                                                         *)
(* A spinlock belongs to a CPU and so does the hardware interrupt flag, but *)
(* the nesting depth t_iplhigh_count and the level t_curspl belong to a     *)
(* THREAD.  thread_switch() is entered by one thread with the run queue     *)
(* lock taken and left by another, which releases it: the two threads'      *)
(* counters have to agree for interrupts to come back on, and not early.    *)
(*                                                                         *)
(* Threads call the operations in any order, except that a CPU takes its    *)
(* locks in ascending order, as the kernel's lock order demands, and takes  *)
(* no run queue lock but its own (other CPUs' are taken in module Sched).   *)
(***************************************************************************)
EXTENDS Integers, FiniteSets

CONSTANTS
  CPUs,        \* the processors; each has the run queue lock of its own name
  Threads,     \* the kernel threads
  Locks,       \* other spinlocks, naturals: their place in the lock order
  NULL

ASSUME CpuAssumption == CPUs \cap Locks = {} /\ NULL \notin CPUs \cup Locks \cup Threads
ASSUME LockAssumption == Locks \subseteq Nat
ASSUME FiniteAssumption == IsFiniteSet(CPUs) /\ IsFiniteSet(Locks)

IPL_NONE == 0
IPL_HIGH == 1

Spinlocks == CPUs \cup Locks

VARIABLES
  splk_lock,        \* the lock word: 0 or 1
  splk_holder,      \* the CPU that holds the lock, or NULL
  c_spinlocks,      \* how many spinlocks a CPU holds or is about to hold
  curthread,        \* the thread a CPU runs
  irq,              \* the CPUs that take interrupts: CST_IEc is set
  t_iplhigh_count,  \* how often a thread has raised IPL_HIGH
  t_curspl,         \* the level a thread has set with splx
  t_in_interrupt,   \* whether a thread is inside an interrupt handler
  doadjust,         \* mips_trap's local of that name
  pc,               \* where a thread is inside a spinlock function
  arg               \* the spinlock that function works on, or NULL

cpuvars    == <<c_spinlocks, curthread, irq>>
threadvars == <<t_iplhigh_count, t_curspl, t_in_interrupt, doadjust, pc, arg>>
vars       == <<splk_lock, splk_holder, cpuvars, threadvars>>

(***************************************************************************)
(* The boot thread of every CPU runs with interrupts off, and level HIGH to *)
(* account for it.  The other threads come from thread_fork, which adds the *)
(* run queue lock that thread_switch will hand them: they start, like a     *)
(* thread that was switched away from, two levels up.                       *)
(***************************************************************************)
ThreadInit(boot) ==
  /\ t_iplhigh_count = [t \in Threads |-> IF \E c \in CPUs : boot[c] = t THEN 1 ELSE 2]
  /\ t_curspl = [t \in Threads |-> IPL_HIGH]
  /\ t_in_interrupt = [t \in Threads |-> FALSE]

Init ==
  /\ splk_lock = [l \in Spinlocks |-> 0]
  /\ splk_holder = [l \in Spinlocks |-> NULL]
  /\ c_spinlocks = [c \in CPUs |-> 0]
  /\ curthread \in [CPUs -> Threads]
  /\ \A c, d \in CPUs : c # d => curthread[c] # curthread[d]
  /\ irq = {}
  /\ ThreadInit(curthread)
  /\ doadjust = [t \in Threads |-> FALSE]
  /\ pc = [t \in Threads |-> "run"]
  /\ arg = [t \in Threads |-> NULL]

----------------------------------------------------------------------------
Holds(c, l) == splk_holder[l] = c

\* A lock order: other locks before run queue locks, by number.
MayFollow(c, l) ==
  IF l \in CPUs
    THEN l = c /\ \A k \in CPUs : ~Holds(c, k)
    ELSE \A k \in Spinlocks : Holds(c, k) => k \in Locks /\ k < l

\* Interrupts go off with the first raise and come on with the last lower.
splraise(c, t) ==
  /\ irq' = IF t_iplhigh_count[t] = 0 THEN irq \ {c} ELSE irq
  /\ t_iplhigh_count' = [t_iplhigh_count EXCEPT ![t] = @ + 1]

\* Mutant: every lower turns interrupts on, not only the outermost.
spllower_NotNested(c, t) ==
  /\ t_iplhigh_count' = [t_iplhigh_count EXCEPT ![t] = @ - 1]
  /\ irq' = irq \cup {c}

\* Mutant: the count is tested before it is decremented.
spllower_OffByOne(c, t) ==
  /\ t_iplhigh_count' = [t_iplhigh_count EXCEPT ![t] = @ - 1]
  /\ irq' = IF t_iplhigh_count[t] = 0 THEN irq \cup {c} ELSE irq

spllower(c, t) ==
  /\ t_iplhigh_count' = [t_iplhigh_count EXCEPT ![t] = @ - 1]
  /\ irq' = IF t_iplhigh_count[t] = 1 THEN irq \cup {c} ELSE irq

Goto(t, label, l) ==
  /\ pc' = [pc EXCEPT ![t] = label]
  /\ arg' = [arg EXCEPT ![t] = l]

(***************************************************************************)
(* spinlock_acquire: raise; panic if this CPU is already the holder; count  *)
(* the lock; spin on the lock word; note the holder.                        *)
(***************************************************************************)
AcquireEnter(c, l) ==
  LET t == curthread[c] IN
  /\ pc[t] = "run"
  /\ MayFollow(c, l)
  /\ splraise(c, t)
  /\ IF Holds(c, l)
       THEN Goto(t, "panic", l) /\ UNCHANGED c_spinlocks
       ELSE /\ Goto(t, "spin", l)
            /\ c_spinlocks' = [c_spinlocks EXCEPT ![c] = @ + 1]
  /\ UNCHANGED <<splk_lock, splk_holder, curthread, t_curspl, t_in_interrupt, doadjust>>

\* Mutant: the result of the test-and-set is not looked at.
AcquireSpin_NoTest(c) ==
  LET t == curthread[c] IN
  /\ pc[t] = "spin"
  /\ splk_lock' = [splk_lock EXCEPT ![arg[t]] = 1]
  /\ Goto(t, "sethold", arg[t])
  /\ UNCHANGED <<splk_holder, cpuvars, t_iplhigh_count, t_curspl, t_in_interrupt, doadjust>>

AcquireSpin(c) ==
  LET t == curthread[c] IN
  /\ pc[t] = "spin"
  /\ splk_lock[arg[t]] = 0
  /\ splk_lock' = [splk_lock EXCEPT ![arg[t]] = 1]
  /\ Goto(t, "sethold", arg[t])
  /\ UNCHANGED <<splk_holder, cpuvars, t_iplhigh_count, t_curspl, t_in_interrupt, doadjust>>

AcquireSetHolder(c) ==
  LET t == curthread[c] IN
  /\ pc[t] = "sethold"
  /\ splk_holder' = [splk_holder EXCEPT ![arg[t]] = c]
  /\ Goto(t, "run", NULL)
  /\ UNCHANGED <<splk_lock, cpuvars, t_iplhigh_count, t_curspl, t_in_interrupt, doadjust>>

(***************************************************************************)
(* spinlock_release: the caller holds the lock, not always the last one it  *)
(* took.  The two assertions and the two writes before the lock word is     *)
(* cleared touch only what this CPU owns.                                   *)
(***************************************************************************)
ReleaseEnter(c, l) ==
  LET t == curthread[c] IN
  /\ pc[t] = "run"
  /\ Holds(c, l)
  /\ IF c_spinlocks[c] > 0
       THEN /\ c_spinlocks' = [c_spinlocks EXCEPT ![c] = @ - 1]
            /\ splk_holder' = [splk_holder EXCEPT ![l] = NULL]
            /\ Goto(t, "clear", l)
       ELSE Goto(t, "panic", l) /\ UNCHANGED <<c_spinlocks, splk_holder>>
  /\ UNCHANGED <<splk_lock, curthread, irq, t_iplhigh_count, t_curspl, t_in_interrupt, doadjust>>

ReleaseClear(c) ==
  LET t == curthread[c] IN
  /\ pc[t] = "clear"
  /\ splk_lock' = [splk_lock EXCEPT ![arg[t]] = 0]
  /\ Goto(t, "lower", NULL)
  /\ UNCHANGED <<splk_holder, cpuvars, t_iplhigh_count, t_curspl, t_in_interrupt, doadjust>>

ReleaseLower(c) ==
  LET t == curthread[c] IN
  /\ pc[t] = "lower"
  /\ spllower(c, t)
  /\ Goto(t, "run", NULL)
  /\ UNCHANGED <<splk_lock, splk_holder, c_spinlocks, curthread, t_curspl, t_in_interrupt, doadjust>>

\* Mutant: splx notes the new level and forgets the count when it raises.
splx_RaiseNotCounted(c, spl) ==
  LET t == curthread[c] IN
  /\ pc[t] = "run"
  /\ t_curspl[t] # spl
  /\ spl = IPL_NONE => ~t_in_interrupt[t]
  /\ IF t_curspl[t] < spl THEN UNCHANGED <<irq, t_iplhigh_count>> ELSE spllower(c, t)
  /\ t_curspl' = [t_curspl EXCEPT ![t] = spl]
  /\ UNCHANGED <<splk_lock, splk_holder, c_spinlocks, curthread, t_in_interrupt, doadjust, pc, arg>>

(***************************************************************************)
(* splx(spl).  Raising is splhigh(); lowering is splx of a saved IPL_NONE,  *)
(* or spl0(), and is for a thread that is not in an interrupt handler.      *)
(***************************************************************************)
splx(c, spl) ==
  LET t == curthread[c] IN
  /\ pc[t] = "run"
  /\ t_curspl[t] # spl
  /\ spl = IPL_NONE => ~t_in_interrupt[t]
  /\ IF t_curspl[t] < spl THEN splraise(c, t) ELSE spllower(c, t)
  /\ t_curspl' = [t_curspl EXCEPT ![t] = spl]
  /\ UNCHANGED <<splk_lock, splk_holder, c_spinlocks, curthread, t_in_interrupt, doadjust, pc, arg>>

(***************************************************************************)
(* An interrupt: mips_trap with EX_IRQ.  The processor turns interrupts off *)
(* and the recorded state follows, unless it says off already (cpu_idle).   *)
(***************************************************************************)
Interrupt(c) ==
  LET t == curthread[c] IN
  /\ c \in irq
  /\ ~t_in_interrupt[t]
  /\ irq' = irq \ {c}
  /\ t_in_interrupt' = [t_in_interrupt EXCEPT ![t] = TRUE]
  /\ IF t_curspl[t] = IPL_NONE
       THEN IF t_iplhigh_count[t] = 0
              THEN /\ t_curspl' = [t_curspl EXCEPT ![t] = IPL_HIGH]
                   /\ t_iplhigh_count' = [t_iplhigh_count EXCEPT ![t] = @ + 1]
                   /\ doadjust' = [doadjust EXCEPT ![t] = TRUE]
                   /\ UNCHANGED <<pc, arg>>
              ELSE Goto(t, "panic", arg[t]) /\ UNCHANGED <<t_curspl, t_iplhigh_count, doadjust>>
       ELSE /\ doadjust' = [doadjust EXCEPT ![t] = FALSE]
            /\ IF pc[t] = "idle" THEN Goto(t, "run", arg[t]) ELSE UNCHANGED <<pc, arg>>
            /\ UNCHANGED <<t_curspl, t_iplhigh_count>>
  /\ UNCHANGED <<splk_lock, splk_holder, c_spinlocks, curthread>>

\* The handler is done: it holds nothing, and undoes what entry adjusted.
InterruptReturn(c) ==
  LET t == curthread[c] IN
  /\ t_in_interrupt[t]
  /\ pc[t] = "run"
  /\ c_spinlocks[c] = 0
  /\ t_in_interrupt' = [t_in_interrupt EXCEPT ![t] = FALSE]
  /\ irq' = irq \cup {c}
  /\ IF doadjust[t]
       THEN IF t_curspl[t] = IPL_HIGH /\ t_iplhigh_count[t] = 1
              THEN /\ t_iplhigh_count' = [t_iplhigh_count EXCEPT ![t] = @ - 1]
                   /\ t_curspl' = [t_curspl EXCEPT ![t] = IPL_NONE]
                   /\ UNCHANGED <<pc, arg>>
              ELSE Goto(t, "panic", NULL) /\ UNCHANGED <<t_iplhigh_count, t_curspl>>
       ELSE Goto(t, "idle", NULL) /\ UNCHANGED <<t_iplhigh_count, t_curspl>>
  /\ UNCHANGED <<splk_lock, splk_holder, c_spinlocks, curthread, doadjust>>

(***************************************************************************)
(* cpu_idle, which thread_switch calls with level HIGH and no lock: let the *)
(* interrupts in, then shut them out again.                                 *)
(***************************************************************************)
IdleOn(c) ==
  LET t == curthread[c] IN
  /\ pc[t] = "run"
  /\ t_curspl[t] = IPL_HIGH /\ ~t_in_interrupt[t] /\ c_spinlocks[c] = 0
  /\ irq' = irq \cup {c}
  /\ Goto(t, "idle", NULL)
  /\ UNCHANGED <<splk_lock, splk_holder, c_spinlocks, curthread, t_iplhigh_count, t_curspl,
                 t_in_interrupt, doadjust>>

IdleOff(c) ==
  LET t == curthread[c] IN
  /\ pc[t] = "idle"
  /\ irq' = irq \ {c}
  /\ Goto(t, "run", NULL)
  /\ UNCHANGED <<splk_lock, splk_holder, c_spinlocks, curthread, t_iplhigh_count, t_curspl,
                 t_in_interrupt, doadjust>>

(***************************************************************************)
(* The heart of thread_switch: with level HIGH and this CPU's run queue     *)
(* lock held, and that lock only, another thread continues from the place   *)
(* where it, or the thread that forked it, left off: holding the lock.  The *)
(* handler of an interrupt may switch, but not when it interrupted the idle *)
(* loop, where thread_switch returns at once.                               *)
(***************************************************************************)
Switch(c, u) ==
  LET t == curthread[c] IN
  /\ pc[t] = "run"
  /\ t_curspl[t] = IPL_HIGH
  /\ t_in_interrupt[t] => doadjust[t]
  /\ Holds(c, c)
  /\ \A l \in Spinlocks \ {c} : ~Holds(c, l)
  /\ \A d \in CPUs : curthread[d] # u
  /\ curthread' = [curthread EXCEPT ![c] = u]
  /\ UNCHANGED <<splk_lock, splk_holder, c_spinlocks, irq, threadvars>>

----------------------------------------------------------------------------
CpuStep(c) ==
  \/ \E l \in Spinlocks : AcquireEnter(c, l) \/ ReleaseEnter(c, l)
  \/ AcquireSpin(c) \/ AcquireSetHolder(c)
  \/ ReleaseClear(c) \/ ReleaseLower(c)
  \/ \E spl \in {IPL_NONE, IPL_HIGH} : splx(c, spl)
  \/ Interrupt(c) \/ InterruptReturn(c)
  \/ IdleOn(c) \/ IdleOff(c)
  \/ \E u \in Threads : Switch(c, u)

Next == \E c \in CPUs : CpuStep(c)

Spec == Init /\ [][Next]_vars

----------------------------------------------------------------------------
Labels == {"run", "spin", "sethold", "clear", "lower", "idle", "panic"}

\* Every variable has the type its declaration in the kernel gives it.
TypeOK ==
  /\ splk_lock \in [Spinlocks -> {0, 1}]
  /\ splk_holder \in [Spinlocks -> CPUs \cup {NULL}]
  /\ c_spinlocks \in [CPUs -> Nat]
  /\ curthread \in [CPUs -> Threads]
  /\ irq \subseteq CPUs
  /\ t_iplhigh_count \in [Threads -> Nat]
  /\ t_curspl \in [Threads -> {IPL_NONE, IPL_HIGH}]
  /\ t_in_interrupt \in [Threads -> BOOLEAN]
  /\ doadjust \in [Threads -> BOOLEAN]
  /\ pc \in [Threads -> Labels]
  /\ arg \in [Threads -> Spinlocks \cup {NULL}]

\* The thread CPU c runs is inside spinlock function step `label' on l.
At(c, label, l) == pc[curthread[c]] = label /\ arg[curthread[c]] = l

\* The CPU counts l among its spinlocks.
Counted(c, l) == Holds(c, l) \/ At(c, "spin", l) \/ At(c, "sethold", l)

(***************************************************************************)
(* A lock has one owner: the lock word is 1 exactly while some CPU is       *)
(* between its test-and-set and the clearing of the word, no two CPUs are   *)
(* there at once, and c_spinlocks is the number of locks a CPU has.  Two    *)
(* CPUs that both got the lock would overwrite each other's splk_holder.    *)
(***************************************************************************)
SpinlockExclusion ==
  /\ \A l \in Spinlocks :
       LET owners == {c \in CPUs : Holds(c, l) \/ At(c, "sethold", l) \/ At(c, "clear", l)}
       IN  Cardinality(owners) = splk_lock[l]
  /\ \A c \in CPUs : c_spinlocks[c] = Cardinality({l \in Spinlocks : Counted(c, l)})

(***************************************************************************)
(* No interrupt can arrive on a CPU that has, or is getting, a spinlock:    *)
(* the handler might come back to it and deadlock (spinlock.c, acquire).    *)
(***************************************************************************)
InterruptsMasked ==
  \A c \in CPUs : c \in irq => \A l \in Spinlocks : ~Counted(c, l) /\ ~At(c, "clear", l)

(***************************************************************************)
(* Masking ends: a CPU whose thread is in no handler, at level NONE and     *)
(* without a spinlock takes interrupts, whichever threads raised and        *)
(* lowered the level before it (splx, trap.c "leaked a spinlock").          *)
(***************************************************************************)
InterruptsRestored ==
  \A c \in CPUs :
    LET t == curthread[c] IN
    pc[t] = "run" /\ t_curspl[t] = IPL_NONE /\ c_spinlocks[c] = 0 => c \in irq

(***************************************************************************)
(* No assertion of spinlock.c or of mips_trap's interrupt entry and exit    *)
(* fails, and no CPU panics because it waits for its own spinlock.          *)
(***************************************************************************)
NoPanic == \A t \in Threads : pc[t] # "panic"
=============================================================================
