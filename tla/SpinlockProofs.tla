--------------------------- MODULE SpinlockProofs ---------------------------
(***************************************************************************)
(* Proofs about module Spinlock, for any number of CPUs, threads and locks: *)
(* the inductive invariant, the steps that change a CPU's level or its      *)
(* interrupts but no lock (spl.c, trap.c and cpu_idle), the steps on locks, *)
(* and what follows.                                                        *)
(***************************************************************************)
EXTENDS Spinlock, FiniteSetTheorems, TLAPS

\* Between its test-and-set and the clearing of the lock word.
Owner(c, l) == Holds(c, l) \/ At(c, "sethold", l) \/ At(c, "clear", l)

\* The locks a CPU counts in c_spinlocks.
CountedLocks(c) == {l \in Spinlocks : Counted(c, l)}

\* What a thread that runs nowhere looks like: it left through Switch, or is new.
Parked(t) ==
  /\ pc[t] = "run"
  /\ t_curspl[t] = IPL_HIGH
  /\ t_iplhigh_count[t] = 2

\* No thread runs on two CPUs, and the ones that run nowhere are parked.
InvCurrent ==
  /\ \A c, d \in CPUs : curthread[c] = curthread[d] => c = d
  /\ \A t \in Threads : (\A c \in CPUs : curthread[c] # t) => Parked(t)

\* The lock word and its one owner.
InvOwner ==
  /\ \A l \in Spinlocks : splk_lock[l] = 0 => \A c \in CPUs : ~Owner(c, l)
  /\ \A l \in Spinlocks : splk_lock[l] = 1 => \E c \in CPUs : Owner(c, l)
  /\ \A l \in Spinlocks, c, d \in CPUs : Owner(c, l) /\ Owner(d, l) => c = d

\* What a CPU counts, and what its thread has raised: the balance of spl.c.
Extra(t) == IF pc[t] \in {"clear", "lower"} THEN 1 ELSE 0

InvCpu(c) ==
  LET t == curthread[c] IN
  /\ pc[t] # "panic"
  /\ pc[t] \in {"spin", "sethold", "clear"} => arg[t] \in Spinlocks /\ ~Holds(c, arg[t])
  /\ c_spinlocks[c] = Cardinality(CountedLocks(c))
  /\ t_iplhigh_count[t] = c_spinlocks[c] + t_curspl[t] + Extra(t)
  /\ c \in irq <=> (t_iplhigh_count[t] = 0 \/ pc[t] = "idle")
  /\ pc[t] = "idle" => c_spinlocks[c] = 0 /\ t_curspl[t] = IPL_HIGH /\ ~t_in_interrupt[t]
  /\ t_in_interrupt[t] => t_curspl[t] = IPL_HIGH

IInv == TypeOK /\ InvCurrent /\ InvOwner /\ \A c \in CPUs : InvCpu(c)

USE DEF IPL_NONE, IPL_HIGH

----------------------------------------------------------------------------
\* The sets of counted locks are finite, so c_spinlocks can be compared to them.
LEMMA CountedFinite ==
  ASSUME NEW c \in CPUs
  PROVE  IsFiniteSet(CountedLocks(c)) /\ Cardinality(CountedLocks(c)) \in Nat
<1>1. IsFiniteSet(Spinlocks)
  BY FiniteAssumption, FS_Union, Zenon DEF Spinlocks
<1>2. CountedLocks(c) \in SUBSET Spinlocks
  BY Zenon DEF CountedLocks
<1>3. IsFiniteSet(CountedLocks(c))
  BY <1>1, <1>2, FS_Subset, Zenon
<1>4. QED
  BY <1>3, FS_CardinalityType, Zenon

\* A step of CPU c that leaves alone what CPU d owns keeps what d counts.
LEMMA OtherCpu ==
  ASSUME NEW c \in CPUs, NEW d \in CPUs, c # d, IInv,
         curthread'[d] = curthread[d],
         c_spinlocks'[d] = c_spinlocks[d],
         d \in irq' <=> d \in irq,
         \A t \in Threads \ {curthread[c]} :
            /\ pc'[t] = pc[t] /\ arg'[t] = arg[t]
            /\ t_iplhigh_count'[t] = t_iplhigh_count[t] /\ t_curspl'[t] = t_curspl[t]
            /\ t_in_interrupt'[t] = t_in_interrupt[t],
         \A l \in Spinlocks : splk_holder'[l] = d <=> splk_holder[l] = d
  PROVE  InvCpu(d)'
<1> DEFINE t == curthread[d]
<1>1. t \in Threads \ {curthread[c]}
  BY Zenon DEF IInv, InvCurrent, TypeOK
<1>2. CountedLocks(d)' = CountedLocks(d)
  BY <1>1 DEF CountedLocks, Counted, At, Holds
<1>3. InvCpu(d)
  BY Zenon DEF IInv
<1>4. QED
  BY <1>1, <1>2, <1>3 DEF InvCpu, Holds, Extra

\* Thread t's entries aside, the thread variables stay as they are.
OtherThreadsSame(t) ==
  \A u \in Threads \ {t} :
    /\ pc'[u] = pc[u] /\ arg'[u] = arg[u]
    /\ t_iplhigh_count'[u] = t_iplhigh_count[u] /\ t_curspl'[u] = t_curspl[u]
    /\ t_in_interrupt'[u] = t_in_interrupt[u]

\* A step that touches no lock disturbs only the balance of its own CPU.
LEMMA LocalStep ==
  ASSUME IInv, NEW c \in CPUs,
         UNCHANGED <<splk_lock, splk_holder, c_spinlocks, curthread>>,
         OtherThreadsSame(curthread[c]),
         \A d \in CPUs \ {c} : d \in irq' <=> d \in irq,
         pc[curthread[c]] \in {"run", "lower", "idle"},
         pc'[curthread[c]] \in {"run", "lower", "idle"}
  PROVE  /\ InvCurrent' /\ InvOwner'
         /\ CountedLocks(c)' = CountedLocks(c)
         /\ \A d \in CPUs \ {c} : InvCpu(d)'
<1> USE DEF OtherThreadsSame
<1>1. curthread[c] \in Threads /\ \A d \in CPUs \ {c} : curthread[d] \in Threads \ {curthread[c]}
  BY Zenon DEF IInv, TypeOK, InvCurrent
<1>2. InvCurrent'
  BY <1>1 DEF IInv, InvCurrent, Parked
<1>3. InvOwner'
  <2>1. \A k \in CPUs, m \in Spinlocks : Owner(k, m)' <=> Owner(k, m)
    BY <1>1 DEF Owner, At, Holds
  <2>2. QED
    BY <2>1, Zenon DEF IInv, InvOwner
<1>4. CountedLocks(c)' = CountedLocks(c)
  BY Zenon DEF CountedLocks, Counted, At, Holds
<1>5. ASSUME NEW d \in CPUs \ {c} PROVE InvCpu(d)'
  BY <1>1, OtherCpu, Zenon
<1>6. QED
  BY <1>2, <1>3, <1>4, <1>5, Zenon

\* The last step of release keeps the invariant.
LEMMA ReleaseLowerStep ==
  ASSUME IInv, NEW c \in CPUs, ReleaseLower(c)
  PROVE  IInv'
<1> DEFINE t == curthread[c]
<1>1. t \in Threads /\ InvCpu(c) /\ c_spinlocks[c] \in Nat
  BY Zenon DEF IInv, TypeOK
<1>0. t_iplhigh_count[t] > 0
  BY <1>1 DEF IInv, TypeOK, InvCpu, Extra, ReleaseLower
<1>2. pc[t] \in {"run", "lower", "idle"} /\ pc'[t] \in {"run", "lower", "idle"}
  BY <1>1, Zenon DEF IInv, TypeOK, InvCpu, Extra, ReleaseLower, spllower, Goto
<1>3. TypeOK'
  BY <1>0, <1>1, <1>2 DEF IInv, TypeOK, ReleaseLower, Labels, spllower, Goto
<1>4. /\ InvCurrent' /\ InvOwner'
      /\ CountedLocks(c)' = CountedLocks(c)
      /\ \A d \in CPUs \ {c} : InvCpu(d)'
  BY <1>1, <1>2, LocalStep, Zenon DEF IInv, TypeOK, OtherThreadsSame, ReleaseLower, spllower, Goto
<1>5. InvCpu(c)'
  BY <1>1, <1>2, <1>4 DEF IInv, TypeOK, InvCpu, Extra, Holds, ReleaseLower, spllower, Goto
<1>6. QED
  BY <1>3, <1>4, <1>5, Zenon DEF IInv

\* splhigh() and splx() keep the invariant.
LEMMA SplxStep ==
  ASSUME IInv, NEW c \in CPUs, NEW spl \in {IPL_NONE, IPL_HIGH}, splx(c, spl)
  PROVE  IInv'
<1> DEFINE t == curthread[c]
<1>1. t \in Threads /\ InvCpu(c) /\ c_spinlocks[c] \in Nat
  BY Zenon DEF IInv, TypeOK
<1>2. pc[t] \in {"run", "lower", "idle"} /\ pc'[t] \in {"run", "lower", "idle"}
  BY <1>1, Zenon DEF IInv, TypeOK, InvCpu, Extra, splx, splraise, spllower
<1>3. TypeOK'
  BY <1>1, <1>2 DEF IInv, TypeOK, InvCpu, Extra, splx, Labels, splraise, spllower
<1>4. /\ InvCurrent' /\ InvOwner'
      /\ CountedLocks(c)' = CountedLocks(c)
      /\ \A d \in CPUs \ {c} : InvCpu(d)'
  BY <1>1, <1>2, LocalStep, Zenon DEF IInv, TypeOK, OtherThreadsSame, splx, splraise, spllower
<1>5. InvCpu(c)'
  BY <1>1, <1>2, <1>4 DEF IInv, TypeOK, InvCpu, Extra, Holds, splx, splraise, spllower
<1>6. QED
  BY <1>3, <1>4, <1>5, Zenon DEF IInv

\* Interrupt entry keeps the invariant.
LEMMA InterruptStep ==
  ASSUME IInv, NEW c \in CPUs, Interrupt(c)
  PROVE  IInv'
<1> DEFINE t == curthread[c]
<1>1. t \in Threads /\ InvCpu(c) /\ c_spinlocks[c] \in Nat
  BY Zenon DEF IInv, TypeOK
<1>2. pc[t] \in {"run", "lower", "idle"} /\ pc'[t] \in {"run", "lower", "idle"}
  <2>1. c_spinlocks[c] = 0 /\ (pc[t] # "idle" => t_iplhigh_count[t] = 0 /\ t_curspl[t] = IPL_NONE /\ Extra(t) = 0)
    <3>1. /\ t_iplhigh_count[t] = c_spinlocks[c] + t_curspl[t] + Extra(t)
          /\ c \in irq <=> (t_iplhigh_count[t] = 0 \/ pc[t] = "idle")
          /\ pc[t] = "idle" => c_spinlocks[c] = 0
      BY <1>1, Zenon DEF InvCpu
    <3>2. c \in irq /\ t_curspl[t] \in {0, 1} /\ Extra(t) \in {0, 1}
      BY <1>1, Zenon DEF IInv, TypeOK, Extra, Interrupt
    <3>3. QED
      BY <1>1, <3>1, <3>2
  <2>2. CountedLocks(c) = {}
    BY <1>1, <2>1, CountedFinite, FS_EmptySet, Zenon DEF InvCpu
  <2>3. pc[t] \notin {"spin", "sethold", "clear", "panic"}
    BY <1>1, <2>1, <2>2 DEF CountedLocks, Counted, At, InvCpu, Extra
  <2>4. pc[t] \in {"run", "lower", "idle"}
    BY <1>1, <2>3, Zenon DEF IInv, TypeOK, Labels
  <2>5. CASE t_curspl[t] = IPL_NONE
    BY <1>1, <2>1, <2>4, <2>5 DEF IInv, TypeOK, InvCpu, Interrupt
  <2>6. CASE t_curspl[t] # IPL_NONE
    BY <1>1, <2>1, <2>4, <2>6 DEF IInv, TypeOK, InvCpu, Interrupt, Goto
  <2>7. QED
    BY <2>5, <2>6, Zenon
<1>a. CASE t_curspl[t] = IPL_NONE
  <2>1. t_iplhigh_count[t] = 0 /\ pc[t] # "idle"
    BY <1>1, <1>a DEF InvCpu, Interrupt
  <2>2. /\ t_curspl' = [t_curspl EXCEPT ![t] = IPL_HIGH]
        /\ t_iplhigh_count' = [t_iplhigh_count EXCEPT ![t] = 1]
        /\ doadjust' = [doadjust EXCEPT ![t] = TRUE]
        /\ t_in_interrupt' = [t_in_interrupt EXCEPT ![t] = TRUE]
        /\ irq' = irq \ {c}
        /\ UNCHANGED <<pc, arg, splk_lock, splk_holder, c_spinlocks, curthread>>
    BY <1>1, <1>a, <2>1 DEF Interrupt
  <2>3. TypeOK'
    BY <1>1, <2>2, Zenon DEF IInv, TypeOK
  <2>4. /\ InvCurrent' /\ InvOwner'
        /\ CountedLocks(c)' = CountedLocks(c)
        /\ \A d \in CPUs \ {c} : InvCpu(d)'
    <3>1. OtherThreadsSame(t)
      BY <1>1, <2>2, Zenon DEF IInv, TypeOK, OtherThreadsSame
    <3>2. QED
      BY <1>1, <1>2, <2>2, <3>1, LocalStep, Zenon
  <2>5. InvCpu(c)'
    BY <1>1, <1>2, <1>a, <2>1, <2>2, <2>4 DEF IInv, TypeOK, InvCpu, Extra, Holds
  <2>6. QED
    BY <2>3, <2>4, <2>5, Zenon DEF IInv
<1>b. CASE t_curspl[t] # IPL_NONE
  <2>1. pc[t] = "idle" /\ t_curspl[t] = IPL_HIGH
    BY <1>1, <1>b DEF IInv, TypeOK, InvCpu, Extra, Interrupt
  <2>2. /\ doadjust' = [doadjust EXCEPT ![t] = FALSE]
        /\ t_in_interrupt' = [t_in_interrupt EXCEPT ![t] = TRUE]
        /\ irq' = irq \ {c}
        /\ pc' = [pc EXCEPT ![t] = "run"]
        /\ arg' = [arg EXCEPT ![t] = arg[t]]
        /\ UNCHANGED <<t_curspl, t_iplhigh_count, splk_lock, splk_holder, c_spinlocks, curthread>>
    BY <1>1, <1>b, <2>1, Zenon DEF Interrupt, Goto
  <2>3. TypeOK'
    BY <1>1, <2>2, Zenon DEF IInv, TypeOK, Labels
  <2>4. /\ InvCurrent' /\ InvOwner'
        /\ CountedLocks(c)' = CountedLocks(c)
        /\ \A d \in CPUs \ {c} : InvCpu(d)'
    <3>1. OtherThreadsSame(t)
      BY <1>1, <2>2, Zenon DEF IInv, TypeOK, OtherThreadsSame
    <3>2. QED
      BY <1>1, <1>2, <2>2, <3>1, LocalStep, Zenon
  <2>5. InvCpu(c)'
    BY <1>1, <1>2, <2>1, <2>2, <2>4 DEF IInv, TypeOK, InvCpu, Extra, Holds
  <2>6. QED
    BY <2>3, <2>4, <2>5, Zenon DEF IInv
<1>3. QED
  BY <1>a, <1>b, Zenon

\* Interrupt exit keeps the invariant.
LEMMA InterruptReturnStep ==
  ASSUME IInv, NEW c \in CPUs, InterruptReturn(c)
  PROVE  IInv'
<1> DEFINE t == curthread[c]
<1>1. t \in Threads /\ InvCpu(c) /\ pc[t] = "run" /\ c_spinlocks[c] = 0 /\ t_in_interrupt[t]
  BY Zenon DEF IInv, TypeOK, InterruptReturn
<1>2. t_curspl[t] = 1 /\ t_iplhigh_count[t] = 1
  <2>1. /\ t_iplhigh_count[t] = c_spinlocks[c] + t_curspl[t] + Extra(t)
        /\ t_curspl[t] = IPL_HIGH
    BY <1>1, Zenon DEF InvCpu
  <2>2. Extra(t) = 0
    BY <1>1, Zenon DEF Extra
  <2>3. QED
    BY <1>1, <2>1, <2>2
<1>3. /\ irq' = irq \cup {c}
      /\ t_in_interrupt' = [t_in_interrupt EXCEPT ![t] = FALSE]
      /\ UNCHANGED <<splk_lock, splk_holder, c_spinlocks, curthread, doadjust>>
  BY Zenon DEF InterruptReturn
<1>a. CASE doadjust[t]
  <2>1. /\ t_iplhigh_count' = [t_iplhigh_count EXCEPT ![t] = 0]
        /\ t_curspl' = [t_curspl EXCEPT ![t] = 0]
        /\ UNCHANGED <<pc, arg>>
    BY <1>2, <1>a DEF InterruptReturn
  <2>2. TypeOK'
    BY <1>1, <1>3, <2>1, Zenon DEF IInv, TypeOK
  <2>3. OtherThreadsSame(t)
    BY <1>1, <1>3, <2>1 DEF IInv, TypeOK, OtherThreadsSame
  <2>4. /\ InvCurrent' /\ InvOwner'
        /\ CountedLocks(c)' = CountedLocks(c)
        /\ \A d \in CPUs \ {c} : InvCpu(d)'
    BY <1>1, <1>3, <2>1, <2>3, LocalStep, Zenon
  <2>5. InvCpu(c)'
    <3>1. /\ pc'[t] = "run" /\ t_iplhigh_count'[t] = 0 /\ t_curspl'[t] = 0
          /\ ~t_in_interrupt'[t] /\ c \in irq' /\ c_spinlocks'[c] = 0 /\ curthread'[c] = t
      BY <1>1, <1>3, <2>1, Zenon DEF IInv, TypeOK
    <3>2. 0 = Cardinality(CountedLocks(c)')
      BY <1>1, <2>4, Zenon DEF InvCpu
    <3>3. QED
      BY <3>1, <3>2 DEF InvCpu, Extra
  <2>6. QED
    BY <2>2, <2>4, <2>5, Zenon DEF IInv
<1>b. CASE ~doadjust[t]
  <2>1. /\ pc' = [pc EXCEPT ![t] = "idle"]
        /\ arg' = [arg EXCEPT ![t] = NULL]
        /\ UNCHANGED <<t_iplhigh_count, t_curspl>>
    BY <1>b, Zenon DEF InterruptReturn, Goto
  <2>2. TypeOK'
    BY <1>1, <1>3, <2>1, Zenon DEF IInv, TypeOK, Labels
  <2>3. OtherThreadsSame(t) /\ pc'[t] = "idle"
    BY <1>1, <1>3, <2>1, Zenon DEF IInv, TypeOK, OtherThreadsSame
  <2>4. /\ InvCurrent' /\ InvOwner'
        /\ CountedLocks(c)' = CountedLocks(c)
        /\ \A d \in CPUs \ {c} : InvCpu(d)'
    BY <1>1, <1>3, <2>3, LocalStep, Zenon
  <2>5. InvCpu(c)'
    <3>1. /\ pc'[t] = "idle" /\ t_iplhigh_count'[t] = 1 /\ t_curspl'[t] = 1
          /\ ~t_in_interrupt'[t] /\ c \in irq' /\ c_spinlocks'[c] = 0 /\ curthread'[c] = t
      BY <1>1, <1>2, <1>3, <2>1, <2>3, Zenon DEF IInv, TypeOK
    <3>2. 0 = Cardinality(CountedLocks(c)')
      BY <1>1, <2>4, Zenon DEF InvCpu
    <3>3. QED
      BY <3>1, <3>2 DEF InvCpu, Extra
  <2>6. QED
    BY <2>2, <2>4, <2>5, Zenon DEF IInv
<1>4. QED
  BY <1>a, <1>b, Zenon

\* cpu_idle lets interrupts in, at level HIGH.
LEMMA IdleOnStep ==
  ASSUME IInv, NEW c \in CPUs, IdleOn(c)
  PROVE  IInv'
<1> DEFINE t == curthread[c]
<1>1. t \in Threads /\ InvCpu(c) /\ c_spinlocks[c] \in Nat
  BY Zenon DEF IInv, TypeOK
<1>2. pc[t] \in {"run", "lower", "idle"} /\ pc'[t] \in {"run", "lower", "idle"}
  BY <1>1, Zenon DEF IInv, TypeOK, InvCpu, Extra, IdleOn, Goto
<1>3. TypeOK'
  BY <1>1, <1>2, Zenon DEF IInv, TypeOK, InvCpu, Extra, IdleOn, Labels, Goto
<1>4. /\ InvCurrent' /\ InvOwner'
      /\ CountedLocks(c)' = CountedLocks(c)
      /\ \A d \in CPUs \ {c} : InvCpu(d)'
  BY <1>1, <1>2, LocalStep, Zenon DEF IInv, TypeOK, OtherThreadsSame, IdleOn, Goto
<1>5. InvCpu(c)'
  BY <1>1, <1>2, <1>4 DEF IInv, TypeOK, InvCpu, Extra, Holds, IdleOn, Goto
<1>6. QED
  BY <1>3, <1>4, <1>5, Zenon DEF IInv

\* cpu_idle shuts interrupts out again.
LEMMA IdleOffStep ==
  ASSUME IInv, NEW c \in CPUs, IdleOff(c)
  PROVE  IInv'
<1> DEFINE t == curthread[c]
<1>1. t \in Threads /\ InvCpu(c) /\ c_spinlocks[c] \in Nat
  BY Zenon DEF IInv, TypeOK
<1>2. pc[t] \in {"run", "lower", "idle"} /\ pc'[t] \in {"run", "lower", "idle"}
  BY <1>1, Zenon DEF IInv, TypeOK, InvCpu, Extra, IdleOff, Goto
<1>3. TypeOK'
  BY <1>1, <1>2, Zenon DEF IInv, TypeOK, InvCpu, Extra, IdleOff, Labels, Goto
<1>4. /\ InvCurrent' /\ InvOwner'
      /\ CountedLocks(c)' = CountedLocks(c)
      /\ \A d \in CPUs \ {c} : InvCpu(d)'
  BY <1>1, <1>2, LocalStep, Zenon DEF IInv, TypeOK, OtherThreadsSame, IdleOff, Goto
<1>5. InvCpu(c)'
  BY <1>1, <1>2, <1>4 DEF IInv, TypeOK, InvCpu, Extra, Holds, IdleOff, Goto
<1>6. QED
  BY <1>3, <1>4, <1>5, Zenon DEF IInv

----------------------------------------------------------------------------
\* The steps on locks.

\* Acquire, up to the spin loop, keeps the invariant.
LEMMA AcquireEnterStep ==
  ASSUME IInv, NEW c \in CPUs, NEW l \in Spinlocks, AcquireEnter(c, l)
  PROVE  IInv'
<1> DEFINE t == curthread[c]
<1>1. t \in Threads /\ pc[t] = "run" /\ InvCpu(c)
  BY Zenon DEF IInv, TypeOK, AcquireEnter
<1>2. ~Holds(c, l)
  <2>1. MayFollow(c, l)
    BY Zenon DEF AcquireEnter
  <2>2. l \notin CPUs => l \in Nat
    BY LockAssumption, Zenon DEF Spinlocks
  <2>3. QED
    BY <2>1, <2>2 DEF MayFollow
<1>3. TypeOK'
  BY <1>1, <1>2 DEF IInv, TypeOK, AcquireEnter, splraise, Goto, Labels
<1>4. InvCurrent'
  BY <1>1, <1>2 DEF IInv, TypeOK, InvCurrent, Parked, AcquireEnter, splraise, Goto
<1>5. InvOwner'
  <2>1. \A k \in CPUs, m \in Spinlocks : Owner(k, m)' <=> Owner(k, m)
    BY <1>1, <1>2 DEF IInv, TypeOK, InvCurrent, Owner, At, Holds, AcquireEnter, Goto
  <2>2. QED
    BY <2>1, Zenon DEF IInv, InvOwner, AcquireEnter
<1>6. InvCpu(c)'
  <2>1. CountedLocks(c)' = CountedLocks(c) \cup {l} /\ l \notin CountedLocks(c)
    BY <1>1, <1>2, Zenon DEF IInv, TypeOK, CountedLocks, Counted, At, Holds, AcquireEnter, Goto
  <2>2. Cardinality(CountedLocks(c)') = Cardinality(CountedLocks(c)) + 1
    BY <2>1, CountedFinite, FS_AddElement, Zenon
  <2>3. QED
    BY <1>1, <1>2, <2>2, CountedFinite
       DEF IInv, TypeOK, InvCpu, Extra, Holds, AcquireEnter, splraise, Goto
<1>7. ASSUME NEW d \in CPUs, d # c PROVE InvCpu(d)'
  BY <1>1, <1>2, <1>7, OtherCpu, Zenon DEF IInv, TypeOK, AcquireEnter, splraise, Goto
<1>8. QED
  BY <1>3, <1>4, <1>5, <1>6, <1>7, Zenon DEF IInv

\* The test-and-set makes the CPU the owner, and the word 1.
LEMMA AcquireSpinStep ==
  ASSUME IInv, NEW c \in CPUs, AcquireSpin(c)
  PROVE  IInv'
<1> DEFINE t == curthread[c]
           l == arg[t]
<1>1. t \in Threads /\ InvCpu(c) /\ pc[t] = "spin" /\ l \in Spinlocks
  BY Zenon DEF IInv, TypeOK, InvCpu, AcquireSpin
<1>2. /\ splk_lock[l] = 0
      /\ splk_lock' = [splk_lock EXCEPT ![l] = 1]
      /\ pc' = [pc EXCEPT ![t] = "sethold"]
      /\ arg' = arg
      /\ UNCHANGED <<splk_holder, c_spinlocks, curthread, irq, t_iplhigh_count, t_curspl,
                     t_in_interrupt, doadjust>>
  BY <1>1, Zenon DEF IInv, TypeOK, AcquireSpin, Goto, cpuvars
<1>3. TypeOK'
  BY <1>1, <1>2, Zenon DEF IInv, TypeOK, Labels
<1>4. InvCurrent'
  BY <1>1, <1>2 DEF IInv, InvCurrent, TypeOK, Parked
<1>5. InvOwner'
  <2>1. \A k \in CPUs, m \in Spinlocks : Owner(k, m)' <=> (Owner(k, m) \/ (k = c /\ m = l))
    BY <1>1, <1>2, Zenon DEF IInv, TypeOK, InvCurrent, Owner, At, Holds
  <2>2. QED
    BY <1>1, <1>2, <2>1 DEF IInv, InvOwner, TypeOK
<1>6. InvCpu(c)'
  <2>1. CountedLocks(c)' = CountedLocks(c)
    BY <1>1, <1>2, Zenon DEF IInv, TypeOK, CountedLocks, Counted, At, Holds
  <2>2. QED
    BY <1>1, <1>2, <2>1, Zenon DEF IInv, TypeOK, InvCpu, Extra, Holds
<1>7. ASSUME NEW d \in CPUs, d # c PROVE InvCpu(d)'
  BY <1>1, <1>2, <1>7, OtherCpu, Zenon DEF IInv, TypeOK
<1>8. QED
  BY <1>3, <1>4, <1>5, <1>6, <1>7, Zenon DEF IInv

\* Noting the holder changes neither who owns the lock nor what is counted.
LEMMA AcquireSetHolderStep ==
  ASSUME IInv, NEW c \in CPUs, AcquireSetHolder(c)
  PROVE  IInv'
<1> DEFINE t == curthread[c]
           l == arg[t]
<1>1. t \in Threads /\ InvCpu(c) /\ pc[t] = "sethold" /\ l \in Spinlocks
  BY Zenon DEF IInv, TypeOK, InvCpu, AcquireSetHolder
<1>2. /\ splk_holder' = [splk_holder EXCEPT ![l] = c]
      /\ pc' = [pc EXCEPT ![t] = "run"]
      /\ arg' = [arg EXCEPT ![t] = NULL]
      /\ UNCHANGED <<splk_lock, c_spinlocks, curthread, irq, t_iplhigh_count, t_curspl,
                     t_in_interrupt, doadjust>>
  BY <1>1, Zenon DEF AcquireSetHolder, Goto, cpuvars
<1>3. \A d \in CPUs : Holds(d, l) => d = c
  BY <1>1, Zenon DEF IInv, InvOwner, Owner, At
<1>4. TypeOK'
  BY <1>1, <1>2, Zenon DEF IInv, TypeOK, Labels
<1>5. InvCurrent'
  BY <1>1, <1>2, Zenon DEF IInv, InvCurrent, TypeOK, Parked
<1>6. InvOwner'
  <2>1. \A k \in CPUs, m \in Spinlocks : Owner(k, m)' <=> Owner(k, m)
    BY <1>1, <1>2, <1>3, Zenon DEF IInv, TypeOK, InvCurrent, Owner, At, Holds
  <2>2. QED
    BY <1>2, <2>1, Zenon DEF IInv, InvOwner
<1>7. InvCpu(c)'
  <2>1. CountedLocks(c)' = CountedLocks(c)
    BY <1>1, <1>2, Zenon DEF IInv, TypeOK, CountedLocks, Counted, At, Holds
  <2>2. QED
    BY <1>1, <1>2, <2>1, Zenon DEF IInv, TypeOK, InvCpu, Extra, Holds
<1>8. ASSUME NEW d \in CPUs, d # c PROVE InvCpu(d)'
  <2>1. \A m \in Spinlocks : splk_holder'[m] = d <=> splk_holder[m] = d
    BY <1>1, <1>2, <1>3, <1>8, Zenon DEF IInv, TypeOK, Holds
  <2>2. QED
    BY <1>1, <1>2, <1>8, <2>1, OtherCpu, Zenon DEF IInv, TypeOK
<1>9. QED
  BY <1>4, <1>5, <1>6, <1>7, <1>8, Zenon DEF IInv

\* Release, up to the clearing of the word: the lock is no longer counted.
LEMMA ReleaseEnterStep ==
  ASSUME IInv, NEW c \in CPUs, NEW l \in Spinlocks, ReleaseEnter(c, l)
  PROVE  IInv'
<1> DEFINE t == curthread[c]
<1>1. t \in Threads /\ InvCpu(c) /\ pc[t] = "run" /\ splk_holder[l] = c
  BY Zenon DEF IInv, TypeOK, ReleaseEnter, Holds
<1>2. l \in CountedLocks(c)
  BY <1>1, Zenon DEF CountedLocks, Counted, Holds
<1>3. c_spinlocks[c] \in Nat /\ c_spinlocks[c] > 0
  BY <1>1, <1>2, CountedFinite, FS_EmptySet DEF InvCpu, IInv, TypeOK
<1>4. /\ c_spinlocks' = [c_spinlocks EXCEPT ![c] = c_spinlocks[c] - 1]
      /\ splk_holder' = [splk_holder EXCEPT ![l] = NULL]
      /\ pc' = [pc EXCEPT ![t] = "clear"]
      /\ arg' = [arg EXCEPT ![t] = l]
      /\ UNCHANGED <<splk_lock, curthread, irq, t_iplhigh_count, t_curspl, t_in_interrupt, doadjust>>
  BY <1>1, <1>3, Zenon DEF ReleaseEnter, Goto
<1>5. TypeOK'
  BY <1>1, <1>3, <1>4 DEF IInv, TypeOK, Labels
<1>6. InvCurrent'
  BY <1>1, <1>4, Zenon DEF IInv, InvCurrent, TypeOK, Parked
<1>7. InvOwner'
  <2>1. \A k \in CPUs, m \in Spinlocks : Owner(k, m)' <=> Owner(k, m)
    BY <1>1, <1>4, CpuAssumption DEF IInv, TypeOK, InvCurrent, Owner, At, Holds
  <2>2. QED
    BY <1>4, <2>1, Zenon DEF IInv, InvOwner
<1>8. InvCpu(c)'
  <2>1. CountedLocks(c)' = CountedLocks(c) \ {l}
    BY <1>1, <1>4, CpuAssumption, Zenon DEF IInv, TypeOK, CountedLocks, Counted, At, Holds
  <2>2. Cardinality(CountedLocks(c)') = Cardinality(CountedLocks(c)) - 1
    BY <1>2, <2>1, CountedFinite, FS_RemoveElement, Zenon
  <2>3. QED
    BY <1>1, <1>3, <1>4, <2>2, CpuAssumption DEF IInv, TypeOK, InvCpu, Extra, Holds
<1>9. ASSUME NEW d \in CPUs, d # c PROVE InvCpu(d)'
  <2>1. \A m \in Spinlocks : splk_holder'[m] = d <=> splk_holder[m] = d
    BY <1>1, <1>4, <1>9, CpuAssumption, Zenon DEF IInv, TypeOK
  <2>2. QED
    BY <1>1, <1>4, <1>9, <2>1, OtherCpu, Zenon DEF IInv, TypeOK
<1>10. QED
  BY <1>5, <1>6, <1>7, <1>8, <1>9, Zenon DEF IInv

\* Clearing the word gives the lock up.
LEMMA ReleaseClearStep ==
  ASSUME IInv, NEW c \in CPUs, ReleaseClear(c)
  PROVE  IInv'
<1> DEFINE t == curthread[c]
           l == arg[t]
<1>1. t \in Threads /\ InvCpu(c) /\ pc[t] = "clear" /\ l \in Spinlocks /\ ~Holds(c, l)
  BY Zenon DEF IInv, TypeOK, InvCpu, ReleaseClear
<1>2. /\ splk_lock' = [splk_lock EXCEPT ![l] = 0]
      /\ pc' = [pc EXCEPT ![t] = "lower"]
      /\ arg' = [arg EXCEPT ![t] = NULL]
      /\ UNCHANGED <<splk_holder, c_spinlocks, curthread, irq, t_iplhigh_count, t_curspl,
                     t_in_interrupt, doadjust>>
  BY <1>1, Zenon DEF ReleaseClear, Goto, cpuvars
<1>3. TypeOK'
  BY <1>1, <1>2, Zenon DEF IInv, TypeOK, Labels
<1>4. InvCurrent'
  BY <1>1, <1>2, Zenon DEF IInv, InvCurrent, TypeOK, Parked
<1>5. InvOwner'
  <2>1. \A k \in CPUs, m \in Spinlocks : Owner(k, m)' <=> (Owner(k, m) /\ ~(k = c /\ m = l))
    BY <1>1, <1>2, Zenon DEF IInv, TypeOK, InvCurrent, Owner, At, Holds
  <2>2. Owner(c, l)
    BY <1>1, Zenon DEF Owner, At
  <2>3. QED
    BY <1>1, <1>2, <2>1, <2>2 DEF IInv, InvOwner, TypeOK
<1>6. InvCpu(c)'
  <2>1. CountedLocks(c)' = CountedLocks(c)
    BY <1>1, <1>2, Zenon DEF IInv, TypeOK, CountedLocks, Counted, At, Holds
  <2>2. QED
    BY <1>1, <1>2, <2>1, Zenon DEF IInv, TypeOK, InvCpu, Extra, Holds
<1>7. ASSUME NEW d \in CPUs, d # c PROVE InvCpu(d)'
  BY <1>1, <1>2, <1>7, OtherCpu, Zenon DEF IInv, TypeOK
<1>8. QED
  BY <1>3, <1>4, <1>5, <1>6, <1>7, Zenon DEF IInv

(***************************************************************************)
(* The switch: the thread that leaves has raised the level twice, once for  *)
(* splhigh and once for the run queue lock, and so has the one that comes.  *)
(***************************************************************************)
LEMMA SwitchStep ==
  ASSUME IInv, NEW c \in CPUs, NEW u \in Threads, Switch(c, u)
  PROVE  IInv'
<1> DEFINE t == curthread[c]
<1>1. /\ t \in Threads /\ InvCpu(c) /\ pc[t] = "run" /\ t_curspl[t] = IPL_HIGH
      /\ u # t /\ Parked(u)
      /\ curthread' = [curthread EXCEPT ![c] = u]
      /\ UNCHANGED <<splk_lock, splk_holder, c_spinlocks, irq, t_iplhigh_count, t_curspl,
                     t_in_interrupt, doadjust, pc, arg>>
  BY Zenon DEF IInv, TypeOK, InvCurrent, Switch, threadvars
<1>2. c \in Spinlocks /\ \A l \in Spinlocks : Holds(c, l) <=> l = c
  BY Zenon DEF Switch, Spinlocks
<1>3. CountedLocks(c) = {c} /\ CountedLocks(c)' = {c}
  BY <1>1, <1>2, Zenon DEF IInv, TypeOK, CountedLocks, Counted, At, Holds, Parked
<1>4. c_spinlocks[c] = 1 /\ t_iplhigh_count[t] = 2 /\ c \notin irq
  <2>1. Cardinality(CountedLocks(c)) = 1
    BY <1>3, FS_Singleton, Zenon
  <2>2. /\ c_spinlocks[c] = Cardinality(CountedLocks(c))
        /\ t_iplhigh_count[t] = c_spinlocks[c] + t_curspl[t] + Extra(t)
        /\ c \in irq <=> (t_iplhigh_count[t] = 0 \/ pc[t] = "idle")
    BY <1>1, Zenon DEF InvCpu
  <2>3. Extra(t) = 0
    BY <1>1, Zenon DEF Extra
  <2>4. c_spinlocks[c] = 1
    BY <2>1, <2>2, Zenon
  <2>5. t_iplhigh_count[t] = 2
    <3>1. t_curspl[t] = 1
      BY <1>1, Zenon
    <3>2. QED
      BY <2>2, <2>3, <2>4, <3>1
  <2>6. QED
    BY <1>1, <2>2, <2>4, <2>5
<1>5. TypeOK'
  BY <1>1, Zenon DEF IInv, TypeOK
<1>6. InvCurrent'
  <2>1. \A d \in CPUs : curthread[d] # u
    BY Zenon DEF Switch
  <2>2. QED
    BY <1>1, <1>4, <2>1, Zenon DEF IInv, InvCurrent, TypeOK, Parked
<1>7. InvOwner'
  <2>1. \A k \in CPUs, m \in Spinlocks : Owner(k, m)' <=> Owner(k, m)
    BY <1>1, Zenon DEF IInv, TypeOK, Owner, At, Holds, Parked
  <2>2. QED
    BY <1>1, <2>1, Zenon DEF IInv, InvOwner
<1>8. InvCpu(c)'
  BY <1>1, <1>3, <1>4, FS_Singleton DEF IInv, TypeOK, InvCpu, Extra, Parked
<1>9. ASSUME NEW d \in CPUs, d # c PROVE InvCpu(d)'
  <2>1. curthread'[d] = curthread[d] /\ InvCpu(d)
    BY <1>1, <1>9, Zenon DEF IInv, TypeOK
  <2>2. CountedLocks(d)' = CountedLocks(d)
    BY <1>1, <2>1, Zenon DEF CountedLocks, Counted, At, Holds
  <2>3. QED
    BY <1>1, <2>1, <2>2, Zenon DEF InvCpu, Extra, Holds
<1>10. QED
  BY <1>5, <1>6, <1>7, <1>8, <1>9, Zenon DEF IInv

\* The boot threads, and the threads thread_fork makes, satisfy the invariant.
LEMMA InitIInv == Init => IInv
<1> SUFFICES ASSUME Init PROVE IInv
  OBVIOUS
<1> USE DEF Init, ThreadInit
<1>1. TypeOK
  BY Zenon DEF TypeOK, Labels
<1>2. InvCurrent
  BY <1>1, Zenon DEF InvCurrent, Parked, TypeOK
<1>3. \A c \in CPUs, l \in Spinlocks : ~Owner(c, l) /\ ~Counted(c, l)
  BY <1>1, CpuAssumption, Zenon DEF TypeOK, Owner, Counted, At, Holds
<1>4. InvOwner
  BY <1>3 DEF InvOwner
<1>5. ASSUME NEW c \in CPUs PROVE InvCpu(c)
  <2>1. CountedLocks(c) = {}
    BY <1>3, Zenon DEF CountedLocks
  <2>2. curthread[c] \in Threads /\ t_iplhigh_count[curthread[c]] = 1
    BY <1>1, Zenon DEF TypeOK
  <2>3. QED
    BY <1>1, <2>1, <2>2, FS_EmptySet DEF InvCpu, Extra, TypeOK
<1>6. QED
  BY <1>1, <1>2, <1>4, <1>5, Zenon DEF IInv

\* Every step of every CPU keeps the invariant: one case per action.
LEMMA NextIInv == IInv /\ [Next]_vars => IInv'
<1> SUFFICES ASSUME IInv, [Next]_vars PROVE IInv'
  OBVIOUS
<1>1. CASE UNCHANGED vars
  <2>1. /\ splk_lock' = splk_lock /\ splk_holder' = splk_holder
        /\ c_spinlocks' = c_spinlocks /\ curthread' = curthread /\ irq' = irq
        /\ t_iplhigh_count' = t_iplhigh_count /\ t_curspl' = t_curspl
        /\ t_in_interrupt' = t_in_interrupt /\ doadjust' = doadjust
        /\ pc' = pc /\ arg' = arg
    BY <1>1, Zenon DEF vars, cpuvars, threadvars
  <2>2. TypeOK'
    BY <2>1, Zenon DEF IInv, TypeOK
  <2>3. InvCurrent'
    BY <2>1, Zenon DEF IInv, InvCurrent, Parked
  <2>4. InvOwner'
    BY <2>1 DEF IInv, InvOwner, Owner, At, Holds
  <2>5. ASSUME NEW c \in CPUs PROVE InvCpu(c)'
    <3>1. CountedLocks(c)' = CountedLocks(c)
      BY <2>1, Zenon DEF CountedLocks, Counted, At, Holds
    <3>2. QED
      BY <2>1, <3>1 DEF IInv, InvCpu, Extra, Holds
  <2>6. QED
    BY <2>2, <2>3, <2>4, <2>5, Zenon DEF IInv
<1>2. ASSUME NEW c \in CPUs, CpuStep(c) PROVE IInv'
  <2>1. ASSUME NEW l \in Spinlocks, AcquireEnter(c, l) PROVE IInv'
    BY <2>1, AcquireEnterStep, Zenon
  <2>2. ASSUME NEW l \in Spinlocks, ReleaseEnter(c, l) PROVE IInv'
    BY <2>2, ReleaseEnterStep, Zenon
  <2>3. CASE AcquireSpin(c)
    BY <2>3, AcquireSpinStep, Zenon
  <2>4. CASE AcquireSetHolder(c)
    BY <2>4, AcquireSetHolderStep, Zenon
  <2>5. CASE ReleaseClear(c)
    BY <2>5, ReleaseClearStep, Zenon
  <2>6. CASE ReleaseLower(c)
    BY <2>6, ReleaseLowerStep, Zenon
  <2>7. ASSUME NEW spl \in {IPL_NONE, IPL_HIGH}, splx(c, spl) PROVE IInv'
    BY <2>7, SplxStep, Zenon
  <2>8. CASE Interrupt(c)
    BY <2>8, InterruptStep, Zenon
  <2>9. CASE InterruptReturn(c)
    BY <2>9, InterruptReturnStep, Zenon
  <2>10. CASE IdleOn(c)
    BY <2>10, IdleOnStep, Zenon
  <2>11. CASE IdleOff(c)
    BY <2>11, IdleOffStep, Zenon
  <2>12. ASSUME NEW u \in Threads, Switch(c, u) PROVE IInv'
    BY <2>12, SwitchStep, Zenon
  <2>13. QED
    BY <1>2, <2>1, <2>2, <2>3, <2>4, <2>5, <2>6, <2>7, <2>8, <2>9, <2>10, <2>11, <2>12, Zenon DEF CpuStep
<1>3. QED
  BY <1>1, <1>2, Zenon DEF Next

\* The inductive invariant of spinlocks and interrupt levels (spinlock.c, spl.c, trap.c).
THEOREM SpinlockInvariant == Spec => []IInv
  BY InitIInv, NextIInv, PTL DEF Spec

(***************************************************************************)
(* What the invariant is for.  Interrupts are masked on every CPU that has  *)
(* a spinlock or is getting one.                                            *)
(***************************************************************************)
THEOREM MaskedTheorem == Spec => []InterruptsMasked
<1>1. IInv => InterruptsMasked
  <2> SUFFICES ASSUME IInv, NEW c \in CPUs, c \in irq, NEW l \in Spinlocks
               PROVE  ~Counted(c, l) /\ ~At(c, "clear", l)
    BY Zenon DEF InterruptsMasked
  <2>1. InvCpu(c) /\ curthread[c] \in Threads
    BY Zenon DEF IInv, TypeOK
  <2>2. c_spinlocks[c] = 0 /\ pc[curthread[c]] # "clear"
    BY <2>1 DEF IInv, TypeOK, InvCpu, Extra
  <2>3. CountedLocks(c) = {}
    BY <2>1, <2>2, CountedFinite, FS_EmptySet, Zenon DEF InvCpu
  <2>4. QED
    BY <2>2, <2>3, Zenon DEF CountedLocks, At
<1>2. QED
  BY <1>1, SpinlockInvariant, PTL

\* Interrupts are back on whenever the running thread has nothing left raised.
THEOREM RestoredTheorem == Spec => []InterruptsRestored
<1>1. IInv => InterruptsRestored
  <2> SUFFICES ASSUME IInv, NEW c \in CPUs,
                      pc[curthread[c]] = "run", t_curspl[curthread[c]] = IPL_NONE, c_spinlocks[c] = 0
               PROVE  c \in irq
    BY Zenon DEF InterruptsRestored
  <2>1. QED
    BY DEF IInv, TypeOK, InvCpu, Extra
<1>2. QED
  BY <1>1, SpinlockInvariant, PTL

\* No assertion of the spinlock, spl or interrupt entry and exit code fails.
THEOREM NoPanicTheorem == Spec => []NoPanic
<1>1. IInv => NoPanic
  <2> SUFFICES ASSUME IInv, NEW t \in Threads PROVE pc[t] # "panic"
    BY Zenon DEF NoPanic
  <2>1. CASE \E c \in CPUs : curthread[c] = t
    BY <2>1, Zenon DEF IInv, InvCpu
  <2>2. CASE \A c \in CPUs : curthread[c] # t
    BY <2>2, Zenon DEF IInv, InvCurrent, Parked
  <2>3. QED
    BY <2>1, <2>2, Zenon
<1>2. QED
  BY <1>1, SpinlockInvariant, PTL

\* A spinlock has one owner, and every CPU counts the spinlocks it has.
THEOREM ExclusionTheorem == Spec => []SpinlockExclusion
<1>1. IInv => SpinlockExclusion
  <2> SUFFICES ASSUME IInv PROVE SpinlockExclusion
    OBVIOUS
  <2>1. ASSUME NEW l \in Spinlocks
        PROVE  Cardinality({c \in CPUs : Holds(c, l) \/ At(c, "sethold", l) \/ At(c, "clear", l)}) = splk_lock[l]
    <3> DEFINE owners == {c \in CPUs : Holds(c, l) \/ At(c, "sethold", l) \/ At(c, "clear", l)}
    <3>1. owners = {c \in CPUs : Owner(c, l)}
      BY Zenon DEF Owner
    <3>2. CASE splk_lock[l] = 0
      <4>1. owners = {}
        BY <3>1, <3>2, Zenon DEF IInv, InvOwner
      <4>2. QED
        BY <4>1, <3>2, FS_EmptySet, Zenon
    <3>3. CASE splk_lock[l] = 1
      <4>1. PICK c \in CPUs : Owner(c, l)
        BY <3>3, Zenon DEF IInv, InvOwner
      <4>2. owners = {c}
        BY <3>1, <4>1, Zenon DEF IInv, InvOwner
      <4>3. QED
        BY <4>2, <3>3, FS_Singleton, Zenon
    <3>4. QED
      BY <3>2, <3>3, Zenon DEF IInv, TypeOK
  <2>2. ASSUME NEW c \in CPUs
        PROVE  c_spinlocks[c] = Cardinality({l \in Spinlocks : Counted(c, l)})
    BY Zenon DEF IInv, InvCpu, CountedLocks
  <2>3. QED
    BY <2>1, <2>2, Zenon DEF SpinlockExclusion
<1>2. QED
  BY <1>1, SpinlockInvariant, PTL

\* Every variable keeps its type; in particular t_iplhigh_count never wraps below zero.
THEOREM SpinlockTypeOK == Spec => []TypeOK
<1>1. IInv => TypeOK
  BY Zenon DEF IInv
<1>2. QED
  BY <1>1, SpinlockInvariant, PTL
=============================================================================
