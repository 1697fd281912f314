---------------------------- MODULE SynchProofs -----------------------------
(***************************************************************************)
(* Proofs about the wait channel operations, the semaphore, and the sleep   *)
(* lock with the condition variable, for any threads.                       *)
(***************************************************************************)
EXTENDS Semaphore, CondVar, FiniteSetTheorems, SequenceTheorems, TLAPS

----------------------------------------------------------------------------
(***************************************************************************)
(* What the wait channel operations do to the set of threads on a channel.  *)
(***************************************************************************)

\* A channel nobody sleeps on (wchan_create) lists the empty set.
LEMMA EmptyLists == Lists(<<>>, {})
  BY DEF Lists

\* A channel is empty exactly when it lists nobody.
LEMMA ListsNobody ==
  ASSUME NEW A, NEW wc, Lists(wc, A)
  PROVE  wc = <<>> <=> A = {}
<1>1. wc \in Seq(A) /\ Len(wc) \in Nat
  BY DEF Lists
<1>2. ASSUME A = {} PROVE wc = <<>>
  <2>1. Len(wc) = 0
    BY <1>1, <1>2
  <2>2. QED
    BY <1>1, <2>1
<1>3. ASSUME wc = <<>> PROVE A = {}
  BY <1>3 DEF Lists
<1>4. QED
  BY <1>2, <1>3, Zenon

\* wchan_sleep adds the sleeper to the threads listed.
LEMMA SleepLists ==
  ASSUME NEW A, NEW wc, Lists(wc, A), NEW t, t \notin A
  PROVE  Lists(wchan_sleep(wc, t), A \cup {t})
<1> DEFINE n == Len(wc)
           w == Append(wc, t)
<1>1. wc \in Seq(A) /\ n \in Nat
  BY DEF Lists
<1>2. wc \in Seq(A \cup {t})
  BY <1>1
<1>3. /\ w \in Seq(A \cup {t}) /\ Len(w) = n + 1
      /\ \A i \in 1..n : w[i] = wc[i] /\ wc[i] \in A
      /\ w[n + 1] = t
  BY <1>1, <1>2
<1>4. \A i \in 1..(n + 1) : i \in 1..n \/ i = n + 1
  BY <1>1
<1>5. \A u \in A \cup {t} : \E i \in 1..Len(w) : w[i] = u
  BY <1>1, <1>3 DEF Lists
<1>6. \A i, j \in 1..Len(w) : w[i] = w[j] => i = j
  <2> SUFFICES ASSUME NEW i \in 1..(n + 1), NEW j \in 1..(n + 1), w[i] = w[j]
               PROVE  i = j
    BY <1>3, Zenon
  <2>1. CASE i \in 1..n /\ j \in 1..n
    <3>1. wc[i] = wc[j]
      BY <1>3, <2>1, Zenon
    <3>2. QED
      BY <2>1, <3>1, Zenon DEF Lists
  <2>2. CASE i \in 1..n /\ j = n + 1
    BY <1>3, <2>2, Zenon
  <2>3. CASE i = n + 1 /\ j \in 1..n
    BY <1>3, <2>3, Zenon
  <2>4. CASE i = n + 1 /\ j = n + 1
    BY <2>4, Zenon
  <2>5. QED
    BY <1>4, <2>1, <2>2, <2>3, <2>4, Zenon
<1>7. QED
  BY <1>3, <1>5, <1>6, Zenon DEF Lists, wchan_sleep

\* wchan_wakeone takes one listed thread off, if there is one.
LEMMA WakeoneLists ==
  ASSUME NEW A, NEW wc, Lists(wc, A)
  PROVE  /\ Lists(wchan_wakeone(wc), A \ wakeone_target(wc))
         /\ IF A = {} THEN wakeone_target(wc) = {}
                     ELSE \E t \in A : wakeone_target(wc) = {t}
<1>1. CASE wc = <<>>
  <2>1. A = {}
    BY <1>1, ListsNobody, Zenon
  <2>2. QED
    BY <1>1, <2>1, Zenon DEF wchan_wakeone, wakeone_target
<1>2. CASE wc # <<>>
  <2> DEFINE n == Len(wc)
             h == wc[1]
             w == Tail(wc)
  <2>1. wc \in Seq(A) /\ n \in Nat /\ n > 0 /\ h \in A /\ A # {}
    BY <1>2 DEF Lists
  <2>2. Len(w) = n - 1 /\ \A i \in 1..(n - 1) : w[i] = wc[i + 1]
    BY <1>2, <2>1
  <2>3. \A i \in 2..n : wc[i] \in A \ {h}
    <3> SUFFICES ASSUME NEW i \in 2..n PROVE wc[i] \in A \ {h}
      OBVIOUS
    <3>1. i \in 1..n /\ 1 \in 1..n /\ i # 1
      BY <2>1
    <3>2. wc[i] # wc[1]
      BY <3>1, Zenon DEF Lists
    <3>3. wc[i] \in A
      BY <2>1, <3>1, ElementOfSeq, Zenon
    <3>4. QED
      BY <3>2, <3>3, Zenon
  <2>4. w \in Seq(A \ {h})
    <3>1. w = SubSeq(wc, 2, n)
      BY <1>2, <2>1, TailIsSubSeq, Zenon
    <3>2. SubSeq(wc, 2, n) \in Seq(A \ {h})
      <4>1. n \in Int /\ 2 \in Int
        BY <2>1
      <4>2. QED
        BY <2>3, <4>1, SubSeqProperties, Zenon
    <3>3. QED
      BY <3>1, <3>2, Zenon
  <2>5. \A u \in A \ {h} : \E i \in 1..Len(w) : w[i] = u
    <3> SUFFICES ASSUME NEW u \in A \ {h} PROVE \E i \in 1..Len(w) : w[i] = u
      OBVIOUS
    <3>1. PICK j \in 1..n : wc[j] = u
      BY Zenon DEF Lists
    <3>2. j - 1 \in 1..(n - 1) /\ wc[(j - 1) + 1] = u
      BY <2>1, <3>1
    <3>3. QED
      BY <2>2, <3>2, Zenon
  <2>6. \A i, j \in 1..Len(w) : w[i] = w[j] => i = j
    <3> SUFFICES ASSUME NEW i \in 1..(n - 1), NEW j \in 1..(n - 1), w[i] = w[j] PROVE i = j
      BY <2>2, Zenon
    <3>1. wc[i + 1] = wc[j + 1] /\ i + 1 \in 1..n /\ j + 1 \in 1..n
      BY <2>1, <2>2
    <3>2. i + 1 = j + 1
      BY <3>1, Zenon DEF Lists
    <3>3. QED
      BY <3>2
  <2>7. wakeone_target(wc) = {h} /\ wchan_wakeone(wc) = w
    BY <1>2, <2>1 DEF wakeone_target, wchan_wakeone
  <2>8. QED
    BY <2>1, <2>4, <2>5, <2>6, <2>7, Zenon DEF Lists
<1>3. QED
  BY <1>1, <1>2, Zenon

\* wchan_wakeall takes all of them.
LEMMA WakeallLists ==
  ASSUME NEW A, NEW wc, Lists(wc, A)
  PROVE  wakeall_target(wc) = A /\ Lists(wchan_wakeall(wc), {})
<1>1. DOMAIN wc = 1..Len(wc) /\ \A i \in 1..Len(wc) : wc[i] \in A
  BY DEF Lists
<1>2. wakeall_target(wc) = A
  BY <1>1 DEF Lists, wakeall_target
<1>3. QED
  BY <1>2, EmptyLists, Zenon DEF wchan_wakeall

----------------------------------------------------------------------------
(***************************************************************************)
(* The semaphore, for any initial count.                                    *)
(***************************************************************************)

Locked == {"P_test", "P_take", "V_inc", "V_wake"}

\* The spinlock is held by the one thread that is inside the critical section.
InvLock == \A t \in Threads : pc[t] \in Locked <=> sem_lock = t

\* P has left its loop only with a positive count, which nobody else may take.
InvTake == \A t \in Threads : pc[t] # "panic" /\ (pc[t] = "P_take" => sem_count > 0)

IInv == TypeOK /\ InvLock /\ InvTake /\ SleepersOnChannel /\ NoLostWakeup

----------------------------------------------------------------------------
\* The threads on the way to the lock or past it are finitely many, so counting them is meaningful.
LEMMA OnTheWayFinite == IsFiniteSet(OnTheWay) /\ Cardinality(OnTheWay) \in Nat
<1>1. OnTheWay \in SUBSET Threads
  BY Zenon DEF OnTheWay
<1>2. IsFiniteSet(OnTheWay)
  BY <1>1, ThreadAssumption, FS_Subset, Zenon
<1>3. QED
  BY <1>2, FS_CardinalityType, Zenon

\* A step that moves one thread, and touches neither count nor channel, and lets nobody off the way.
LEMMA MoveKeepsWakeups ==
  ASSUME IInv, NEW t \in Threads, UNCHANGED <<sem_count, sem_wchan>>,
         OnTheWay' = OnTheWay \/ OnTheWay' = OnTheWay \cup {t}
  PROVE  NoLostWakeup'
<1> DEFINE C == Cardinality(OnTheWay)
<1>1. C' \in Nat /\ C' >= C
  <2>1. CASE OnTheWay' = OnTheWay
    BY <2>1, OnTheWayFinite
  <2>2. CASE OnTheWay' = OnTheWay \cup {t}
    <3>1. Cardinality(OnTheWay \cup {t}) = IF t \in OnTheWay THEN C ELSE C + 1
      BY OnTheWayFinite, FS_AddElement, Zenon
    <3>2. QED
      BY <2>2, <3>1, OnTheWayFinite
  <2>3. QED
    BY <2>1, <2>2, Zenon DEF phase
<1>2. QED
  BY <1>1, OnTheWayFinite DEF IInv, NoLostWakeup, TypeOK

\* Entering P or V (synch.c 89, 124) keeps the invariant.
LEMMA CallStep ==
  ASSUME IInv, NEW t \in Threads, Call(t)
  PROVE  IInv'
<1>1. /\ pc[t] = "out"
      /\ pc' = [pc EXCEPT ![t] = "P_spin"] \/ pc' = [pc EXCEPT ![t] = "V_spin"]
      /\ UNCHANGED <<sem_lock, sem_count, sem_wchan>>
  BY Zenon DEF Call, Goto
<1>2. TypeOK'
  BY <1>1, Zenon DEF IInv, TypeOK, Labels
<1>3. InvLock' /\ InvTake'
  BY <1>1, Zenon DEF IInv, TypeOK, InvLock, InvTake, Locked
<1>4. SleepersOnChannel'
  <2>1. Sleepers' = Sleepers
    BY <1>1, Zenon DEF IInv, TypeOK, Sleepers
  <2>2. QED
    BY <1>1, <2>1, Zenon DEF IInv, SleepersOnChannel
<1>5. NoLostWakeup'
  <2>1. OnTheWay' = OnTheWay \/ OnTheWay' = OnTheWay \cup {t}
    BY <1>1, Zenon DEF IInv, TypeOK, OnTheWay
  <2>2. QED
    BY <1>1, <2>1, MoveKeepsWakeups, Zenon
<1>6. QED
  BY <1>2, <1>3, <1>4, <1>5, Zenon DEF IInv

\* Taking the semaphore's spinlock (synch.c 102, 128) keeps the invariant.
LEMMA SpinAcquireStep ==
  ASSUME IInv, NEW t \in Threads, SpinAcquire(t)
  PROVE  IInv'
<1>1. /\ sem_lock = NULL /\ sem_lock' = t
      /\ \/ pc[t] = "P_spin" /\ pc' = [pc EXCEPT ![t] = "P_test"]
         \/ pc[t] = "V_spin" /\ pc' = [pc EXCEPT ![t] = "V_inc"]
      /\ UNCHANGED <<sem_count, sem_wchan>>
  BY Zenon DEF SpinAcquire, Goto
<1>2. TypeOK'
  BY <1>1, Zenon DEF IInv, TypeOK, Labels
<1>3. InvLock' /\ InvTake'
  BY <1>1, ThreadAssumption, Zenon DEF IInv, TypeOK, InvLock, InvTake, Locked
<1>4. SleepersOnChannel'
  <2>1. Sleepers' = Sleepers
    BY <1>1, Zenon DEF IInv, TypeOK, Sleepers
  <2>2. QED
    BY <1>1, <2>1, Zenon DEF IInv, SleepersOnChannel
<1>5. NoLostWakeup'
  <2>1. OnTheWay' = OnTheWay
    BY <1>1, Zenon DEF IInv, TypeOK, OnTheWay
  <2>2. QED
    BY <1>1, <2>1, MoveKeepsWakeups, Zenon
<1>6. QED
  BY <1>2, <1>3, <1>4, <1>5, Zenon DEF IInv

\* Finding the count at zero and going to sleep (synch.c 103-117) keeps the invariant.
LEMMA P_sleepStep ==
  ASSUME IInv, NEW t \in Threads, P_sleep(t)
  PROVE  IInv'
<1>1. /\ pc[t] = "P_test" /\ sem_count = 0
      /\ sem_wchan' = Append(sem_wchan, t)
      /\ sem_lock' = NULL
      /\ pc' = [pc EXCEPT ![t] = "asleep"]
      /\ sem_count' = sem_count
  BY Zenon DEF P_sleep, Goto, wchan_sleep
<1>2. TypeOK'
  BY <1>1 DEF IInv, TypeOK, Labels
<1>3. InvLock' /\ InvTake'
  BY <1>1, ThreadAssumption, Zenon DEF IInv, TypeOK, InvLock, InvTake, Locked
<1>4. SleepersOnChannel'
  <2>1. Sleepers' = Sleepers \cup {t} /\ t \notin Sleepers
    BY <1>1, Zenon DEF IInv, TypeOK, Sleepers
  <2>2. Lists(wchan_sleep(sem_wchan, t), Sleepers \cup {t})
    BY <2>1, SleepLists, Zenon DEF IInv, SleepersOnChannel
  <2>3. QED
    BY <1>1, <2>1, <2>2, Zenon DEF SleepersOnChannel, wchan_sleep
<1>5. NoLostWakeup'
  <2>1. IsFiniteSet(OnTheWay')
    <3>1. OnTheWay' \in SUBSET Threads
      BY Zenon DEF OnTheWay
    <3>2. QED
      BY <3>1, ThreadAssumption, FS_Subset, Zenon
  <2>2. QED
    BY <1>1, <2>1, FS_CardinalityType DEF NoLostWakeup
<1>6. QED
  BY <1>2, <1>3, <1>4, <1>5, Zenon DEF IInv

\* Leaving the loop of P with a positive count (synch.c 103) keeps the invariant.
LEMMA P_leaveStep ==
  ASSUME IInv, NEW t \in Threads, P_leave(t)
  PROVE  IInv'
<1>1. /\ pc[t] = "P_test" /\ sem_count # 0
      /\ pc' = [pc EXCEPT ![t] = "P_take"]
      /\ UNCHANGED <<sem_lock, sem_count, sem_wchan>>
  BY Zenon DEF P_leave, Goto
<1>2. TypeOK'
  BY <1>1, Zenon DEF IInv, TypeOK, Labels
<1>3. InvLock' /\ InvTake'
  BY <1>1 DEF IInv, TypeOK, InvLock, InvTake, Locked
<1>4. SleepersOnChannel'
  <2>1. Sleepers' = Sleepers
    BY <1>1, Zenon DEF IInv, TypeOK, Sleepers
  <2>2. QED
    BY <1>1, <2>1, Zenon DEF IInv, SleepersOnChannel
<1>5. NoLostWakeup'
  <2>1. OnTheWay' = OnTheWay
    BY <1>1, Zenon DEF IInv, TypeOK, OnTheWay
  <2>2. QED
    BY <1>1, <2>1, MoveKeepsWakeups, Zenon
<1>6. QED
  BY <1>2, <1>3, <1>4, <1>5, Zenon DEF IInv

\* Taking the unit and releasing the spinlock (synch.c 118-120) keeps the invariant.
LEMMA P_takeStep ==
  ASSUME IInv, NEW t \in Threads, P_take(t)
  PROVE  IInv'
<1>1. /\ pc[t] = "P_take" /\ sem_count > 0 /\ sem_count \in Nat
      /\ sem_count' = sem_count - 1
      /\ sem_lock' = NULL /\ sem_lock = t
      /\ pc' = [pc EXCEPT ![t] = "out"]
      /\ sem_wchan' = sem_wchan
  BY Zenon DEF IInv, TypeOK, InvTake, InvLock, Locked, P_take, Goto
<1>2. TypeOK'
  BY <1>1 DEF IInv, TypeOK, Labels
<1>3. InvLock' /\ InvTake'
  BY <1>1, ThreadAssumption, Zenon DEF IInv, TypeOK, InvLock, InvTake, Locked
<1>4. SleepersOnChannel'
  <2>1. Sleepers' = Sleepers
    BY <1>1, Zenon DEF IInv, TypeOK, Sleepers
  <2>2. QED
    BY <1>1, <2>1, Zenon DEF IInv, SleepersOnChannel
<1>5. NoLostWakeup'
  <2>1. OnTheWay' = OnTheWay \ {t} /\ t \in OnTheWay
    BY <1>1, Zenon DEF IInv, TypeOK, OnTheWay
  <2>2. Cardinality(OnTheWay \ {t}) = Cardinality(OnTheWay) - 1
    BY <2>1, OnTheWayFinite, FS_RemoveElement, Zenon
  <2>3. QED
    BY <1>1, <2>1, <2>2, OnTheWayFinite DEF IInv, NoLostWakeup
<1>6. QED
  BY <1>2, <1>3, <1>4, <1>5, Zenon DEF IInv

\* Adding the unit (synch.c 130-131) keeps the invariant: V itself is on the way to a sleeper.
LEMMA V_incrementStep ==
  ASSUME IInv, NEW t \in Threads, V_increment(t)
  PROVE  IInv'
<1>1. /\ pc[t] = "V_inc" /\ sem_count \in Nat
      /\ sem_count' = sem_count + 1
      /\ pc' = [pc EXCEPT ![t] = "V_wake"]
      /\ UNCHANGED <<sem_lock, sem_wchan>>
  BY Zenon DEF IInv, TypeOK, V_increment, Goto
<1>2. TypeOK'
  BY <1>1 DEF IInv, TypeOK, Labels
<1>3. InvLock' /\ InvTake'
  BY <1>1, Zenon DEF IInv, TypeOK, InvLock, InvTake, Locked
<1>4. SleepersOnChannel'
  <2>1. Sleepers' = Sleepers
    BY <1>1, Zenon DEF IInv, TypeOK, Sleepers
  <2>2. QED
    BY <1>1, <2>1, Zenon DEF IInv, SleepersOnChannel
<1>5. NoLostWakeup'
  <2>1. OnTheWay' = OnTheWay \cup {t} /\ t \notin OnTheWay
    BY <1>1, Zenon DEF IInv, TypeOK, OnTheWay
  <2>2. Cardinality(OnTheWay \cup {t}) = Cardinality(OnTheWay) + 1
    BY <2>1, OnTheWayFinite, FS_AddElement, Zenon
  <2>3. QED
    BY <1>1, <2>1, <2>2, OnTheWayFinite DEF IInv, NoLostWakeup
<1>6. QED
  BY <1>2, <1>3, <1>4, <1>5, Zenon DEF IInv

\* The step that matters: the unit V has added passes from V to the thread it wakes.
LEMMA V_wakeStep ==
  ASSUME IInv, NEW t \in Threads, V_wake(t)
  PROVE  IInv'
<1> DEFINE woken == wakeone_target(sem_wchan)
<1>1. /\ pc[t] = "V_wake" /\ sem_lock = t
      /\ sem_wchan' = wchan_wakeone(sem_wchan)
      /\ sem_lock' = NULL
      /\ pc' = [u \in Threads |-> IF u = t THEN "out" ELSE IF u \in woken THEN "P_spin" ELSE pc[u]]
      /\ sem_count' = sem_count
  BY Zenon DEF IInv, InvLock, Locked, V_wake, GotoWaking
<1>2. /\ Lists(sem_wchan', Sleepers \ woken)
      /\ IF Sleepers = {} THEN woken = {} ELSE \E u \in Sleepers : woken = {u}
  BY <1>1, WakeoneLists, Zenon DEF IInv, SleepersOnChannel
<1>3. TypeOK'
  <2>1. Sleepers \ woken \subseteq Threads
    BY Zenon DEF Sleepers
  <2>2. sem_wchan' \in Seq(Threads)
    BY <1>2, <2>1, SeqMonotonic, Zenon DEF Lists
  <2>3. QED
    BY <1>1, <2>2, Zenon DEF IInv, TypeOK, Labels
<1>4. \A u \in woken : u \in Threads /\ pc[u] = "asleep" /\ u # t
  BY <1>1, <1>2, Zenon DEF Sleepers
<1>5. InvLock' /\ InvTake'
  BY <1>1, <1>4, ThreadAssumption, Zenon DEF IInv, TypeOK, InvLock, InvTake, Locked
<1>6. SleepersOnChannel'
  <2>1. Sleepers' = Sleepers \ woken
    BY <1>1, <1>4, Zenon DEF IInv, TypeOK, Sleepers
  <2>2. QED
    BY <1>2, <2>1, Zenon DEF SleepersOnChannel
<1>7. NoLostWakeup'
  <2>1. CASE Sleepers = {}
    <3>1. sem_wchan' = <<>>
      BY <1>2, <2>1, ListsNobody
    <3>2. QED
      BY <3>1, Zenon DEF NoLostWakeup
  <2>2. CASE Sleepers # {}
    <3>1. PICK u \in Sleepers : woken = {u}
      BY <1>2, <2>2, Zenon
    <3>2. sem_wchan # <<>>
      BY <2>2, ListsNobody, Zenon DEF IInv, SleepersOnChannel
    <3>3. OnTheWay' = (OnTheWay \ {t}) \cup {u} /\ t \in OnTheWay /\ u \notin OnTheWay
      BY <1>1, <3>1, Zenon DEF IInv, TypeOK, OnTheWay, Sleepers
    <3>4. IsFiniteSet(OnTheWay \ {t}) /\ Cardinality(OnTheWay \ {t}) = Cardinality(OnTheWay) - 1
      BY <3>3, OnTheWayFinite, FS_RemoveElement, Zenon
    <3>5. Cardinality((OnTheWay \ {t}) \cup {u}) = Cardinality(OnTheWay \ {t}) + 1
      BY <3>3, <3>4, FS_AddElement, Zenon
    <3>6. Cardinality(OnTheWay') = Cardinality(OnTheWay)
      BY <3>3, <3>4, <3>5, OnTheWayFinite
    <3>7. QED
      BY <1>1, <3>2, <3>6, Zenon DEF IInv, NoLostWakeup
  <2>3. QED
    BY <2>1, <2>2, Zenon DEF phase
<1>8. QED
  BY <1>3, <1>5, <1>6, <1>7, Zenon DEF IInv

----------------------------------------------------------------------------
\* The semaphore as sem_create leaves it satisfies the invariant.
LEMMA InitIInv == Init => IInv
<1> SUFFICES ASSUME Init PROVE IInv
  OBVIOUS
<1>1. TypeOK
  BY CountAssumption DEF Init, TypeOK, Labels
<1>2. InvLock /\ InvTake /\ NoLostWakeup
  BY ThreadAssumption, Zenon DEF Init, InvLock, InvTake, NoLostWakeup, Locked
<1>3. Sleepers = {}
  BY Zenon DEF Init, Sleepers
<1>4. QED
  BY <1>1, <1>2, <1>3, EmptyLists, Zenon DEF IInv, SleepersOnChannel, Init

\* Every step of every thread keeps the invariant: one case per action.
LEMMA NextIInv == IInv /\ [Next]_vars => IInv'
<1> SUFFICES ASSUME IInv, [Next]_vars PROVE IInv'
  OBVIOUS
<1>1. CASE UNCHANGED vars
  BY <1>1, Zenon DEF vars, IInv, TypeOK, InvLock, InvTake, SleepersOnChannel, Sleepers, NoLostWakeup, OnTheWay
<1>2. ASSUME NEW t \in Threads, Call(t) PROVE IInv'
  BY <1>2, CallStep, Zenon
<1>3. ASSUME NEW t \in Threads, Operation(t) PROVE IInv'
  BY <1>3, SpinAcquireStep, P_sleepStep, P_leaveStep, P_takeStep, V_incrementStep, V_wakeStep, Zenon
     DEF Operation
<1>4. QED
  BY <1>1, <1>2, <1>3, Zenon DEF Next

\* The inductive invariant of the semaphore.
THEOREM SemaphoreInvariant == Spec => []IInv
  BY InitIInv, NextIInv, PTL DEF Spec

\* Every variable keeps its type, and the channel lists the sleepers.
THEOREM SemaphoreTypeOK == Spec => [](TypeOK /\ SleepersOnChannel)
<1>1. IInv => TypeOK /\ SleepersOnChannel
  BY Zenon DEF IInv
<1>2. QED
  BY <1>1, SemaphoreInvariant, PTL

\* P's assertion never fails.
THEOREM SemaphoreNoPanic == Spec => []NoPanic
<1>1. IInv => NoPanic
  BY Zenon DEF IInv, InvTake, NoPanic
<1>2. QED
  BY <1>1, SemaphoreInvariant, PTL

\* No wakeup is lost, for any number of threads.
THEOREM SemaphoreNoLostWakeup == Spec => []NoLostWakeup
<1>1. IInv => NoLostWakeup
  BY Zenon DEF IInv
<1>2. QED
  BY <1>1, SemaphoreInvariant, PTL

----------------------------------------------------------------------------
\* A call, P's last step and V's increment are the abstract steps; the rest stutters.
LEMMA StepSimulation ==
  ASSUME IInv, NEW t \in Threads, Call(t) \/ Operation(t)
  PROVE  [Atomic!Next]_<<sem_count, phase>>
<1>0. TypeOK /\ sem_count \in Nat
  BY Zenon DEF IInv, TypeOK
<1>1. CASE Call(t)
  <2>1. PICK op \in {"P", "V"} :
          /\ pc[t] = "out" /\ sem_count' = sem_count
          /\ pc' = [pc EXCEPT ![t] = IF op = "P" THEN "P_spin" ELSE "V_spin"]
    BY <1>1, Zenon DEF Call, Goto
  <2>2. Phase(t) = "out"
    BY <2>1, Zenon DEF Phase
  <2>3. \A u \in Threads : Phase(u)' = IF u = t THEN op ELSE Phase(u)
    BY <1>0, <2>1, Zenon DEF TypeOK, Phase
  <2>4. Atomic!Call(t, op)
    BY <2>1, <2>2, <2>3, Zenon DEF Atomic!Call, phase
  <2>5. QED
    BY <2>4, Zenon DEF Atomic!Next
<1>2. CASE SpinAcquire(t)
  <2>1. PICK l \in {<<"P_spin", "P_test">>, <<"V_spin", "V_inc">>} :
          pc[t] = l[1] /\ pc' = [pc EXCEPT ![t] = l[2]] /\ sem_count' = sem_count
    BY <1>2, Zenon DEF SpinAcquire, Goto
  <2>2. \A u \in Threads : Phase(u)' = Phase(u)
    BY <1>0, <2>1 DEF TypeOK, Phase
  <2>3. QED
    BY <2>1, <2>2, Zenon DEF phase
<1>3. CASE P_sleep(t) \/ P_leave(t)
  <2>1. PICK l \in {"asleep", "P_take"} :
          pc[t] = "P_test" /\ pc' = [pc EXCEPT ![t] = l] /\ sem_count' = sem_count
    BY <1>3, Zenon DEF P_sleep, P_leave, Goto
  <2>2. \A u \in Threads : Phase(u)' = Phase(u)
    BY <1>0, <2>1, Zenon DEF TypeOK, Phase
  <2>3. QED
    BY <2>1, <2>2, Zenon DEF phase
<1>4. CASE P_take(t)
  <2>1. pc[t] = "P_take" /\ sem_count > 0 /\ sem_count' = sem_count - 1 /\ pc' = [pc EXCEPT ![t] = "out"]
    BY <1>4, Zenon DEF IInv, InvTake, P_take, Goto
  <2>2. Phase(t) = "P"
    BY <2>1, Zenon DEF Phase
  <2>3. \A u \in Threads : Phase(u)' = IF u = t THEN "out" ELSE Phase(u)
    BY <1>0, <2>1, Zenon DEF TypeOK, Phase
  <2>4. Atomic!P(t)
    BY <2>1, <2>2, <2>3, Zenon DEF Atomic!P, phase
  <2>5. QED
    BY <2>4, Zenon DEF Atomic!Next
<1>5. CASE V_increment(t)
  <2>1. pc[t] = "V_inc" /\ sem_count' = sem_count + 1 /\ pc' = [pc EXCEPT ![t] = "V_wake"]
    BY <1>5, Zenon DEF V_increment, Goto
  <2>2. Phase(t) = "V"
    BY <2>1, Zenon DEF Phase
  <2>3. \A u \in Threads : Phase(u)' = IF u = t THEN "out" ELSE Phase(u)
    BY <1>0, <2>1, Zenon DEF TypeOK, Phase
  <2>4. Atomic!V(t)
    BY <2>1, <2>2, <2>3, Zenon DEF Atomic!V, phase
  <2>5. QED
    BY <2>4, Zenon DEF Atomic!Next
<1>6. CASE V_wake(t)
  <2> DEFINE woken == wakeone_target(sem_wchan)
  <2>1. /\ pc[t] = "V_wake" /\ sem_count' = sem_count
        /\ pc' = [u \in Threads |-> IF u = t THEN "out" ELSE IF u \in woken THEN "P_spin" ELSE pc[u]]
    BY <1>6, Zenon DEF V_wake, GotoWaking
  <2>2. IF Sleepers = {} THEN woken = {} ELSE \E u \in Sleepers : woken = {u}
    BY WakeoneLists, Zenon DEF IInv, SleepersOnChannel
  <2>3. \A u \in woken : u \in Threads /\ pc[u] = "asleep"
    BY <2>2, Zenon DEF Sleepers
  <2>4. \A u \in Threads : Phase(u)' = Phase(u)
    BY <1>0, <2>1, <2>3, Zenon DEF TypeOK, Phase
  <2>5. QED
    BY <2>1, <2>4, Zenon DEF phase
<1>7. QED
  BY <1>1, <1>2, <1>3, <1>4, <1>5, <1>6, Zenon DEF Operation

\* P and V are atomic whatever the interleaving: the semaphore of synch.c implements
\* the one whose P and V are single steps.
THEOREM SemaphoreImplementsAtomic == Spec => ImplementsAtomic
<1>1. Init => Atomic!Init
  BY Zenon DEF Init, Atomic!Init, Phase, phase
<1>2. IInv /\ [Next]_vars => [Atomic!Next]_<<sem_count, phase>>
  <2> SUFFICES ASSUME IInv, [Next]_vars
               PROVE  [Atomic!Next]_<<sem_count, phase>>
    OBVIOUS
  <2>1. CASE UNCHANGED vars
    BY <2>1, Zenon DEF vars, Phase, phase
  <2>2. CASE Next
    BY <2>2, StepSimulation, Zenon DEF Next
  <2>3. QED
    BY <2>1, <2>2, Zenon DEF phase
<1>3. QED
  BY <1>1, <1>2, SemaphoreInvariant, PTL DEF Spec, ImplementsAtomic, Atomic!Spec

----------------------------------------------------------------------------
(***************************************************************************)
(* The sleep lock and the condition variable, any of whose callers wait:    *)
(* the holder is exact, no wakeup is lost, and the two implement the        *)
(* monitor.                                                                 *)
(***************************************************************************)

\* Between the spinlock_acquire and the spinlock_release of lk_lock, and of cv_lock.
LkInside == {"A_test", "R_give", "R_wake", "WR_give", "WR_wake"}
CvInside == {"W_rel", "WR_spin", "WR_give", "WR_wake", "W_sleep", "W_unlock", "S_wake", "B_wake"}

Beds == {"L_asleep", "cv_asleep"}

MonLabels == {"out", "A_spin", "W_respin"} \cup Beds \cup Owning \cup LkInside \cup CvInside

\* "panic" is not among the labels.
MonTypeOK ==
  /\ pc \in [Threads -> MonLabels]
  /\ lk_lock \in Threads \cup {NULL} /\ cv_lock \in Threads \cup {NULL}
  /\ lk_count \in {0, 1}
  /\ lk_holder \in Threads \cup {NULL}

\* Each spinlock is held by the one thread that is inside.
SpinsHeld ==
  /\ \A t \in Threads : pc[t] \in LkInside <=> lk_lock = t
  /\ \A t \in Threads : pc[t] \in CvInside <=> cv_lock = t

MonInv == MonTypeOK /\ SpinsHeld /\ DoIHoldExact /\ NoSleepPastRelease

Asleep(bed) == {t \in Threads : pc[t] = bed}

\* The parts of NoSleepPastRelease.
ListsRight == Lists(lk_wchan, Asleep("L_asleep")) /\ Lists(cv_wchan, Asleep("cv_asleep"))

Coming == {"A_spin", "A_test", "R_wake", "WR_wake"}
SomeoneComes == lk_count = 1 /\ lk_wchan # <<>> => \E t \in Threads : pc[t] \in Coming

LEMMA Wakeup_Parts == (NoSleepPastRelease <=> ListsRight /\ SomeoneComes) /\ (NoSleepPastRelease' <=> ListsRight' /\ SomeoneComes')
BY Zenon DEF NoSleepPastRelease, ListsRight, SomeoneComes, Coming, Asleep

----------------------------------------------------------------------------
\* Steps of one thread that change neither channel.

Quiet(t, to) ==
  /\ pc[t] \notin Beds /\ to \notin Beds
  /\ Goto(t, to)
  /\ UNCHANGED <<lk_wchan, cv_wchan>>

LEMMA Quiet_Lists ==
  ASSUME MonInv, NEW t \in Threads, NEW to, Quiet(t, to)
  PROVE  ListsRight'
<1>1. ListsRight /\ pc \in [Threads -> MonLabels]
  BY Wakeup_Parts, Zenon DEF MonInv, MonTypeOK
<1>2. Asleep("L_asleep")' = Asleep("L_asleep") /\ Asleep("cv_asleep")' = Asleep("cv_asleep")
  BY <1>1, Zenon DEF Asleep, Quiet, Goto, Beds
<1> QED BY <1>1, <1>2, Zenon DEF ListsRight, Quiet

\* Whoever comes for the lock still comes after a step that leaves the count.
LEMMA Quiet_Comes ==
  ASSUME MonInv, NEW t \in Threads, NEW to, Quiet(t, to),
         lk_count' = 1 => \/ lk_count = 1 /\ (pc[t] \in Coming => to \in Coming)
                          \/ to \in Coming
  PROVE  SomeoneComes'
<1>1. SomeoneComes /\ pc \in [Threads -> MonLabels]
  BY Wakeup_Parts, Zenon DEF MonInv, MonTypeOK
<1> QED BY <1>1, Zenon DEF SomeoneComes, Quiet, Goto

LEMMA Calls_Inv ==
  ASSUME MonInv, NEW t \in Threads,
         WaitCall(t) \/ WakeCall(t) \/ LockCall(t) \/ (ReleaseCall(t, "W_rel", "WR_spin") /\ UNCHANGED cvars)
  PROVE  MonInv'
<1>1. PICK to \in {"W_spin", "S_spin", "B_spin", "A_spin", "R_spin", "WR_spin"} :
        /\ Goto(t, to) /\ UNCHANGED <<lockvars, cvars>>
        /\ pc[t] = IF to = "A_spin" THEN "out" ELSE IF to = "WR_spin" THEN "W_rel" ELSE "own"
  <2>1. pc[t] \in {"own", "W_rel"} => lock_do_i_hold(t)
    BY Zenon DEF MonInv, DoIHoldExact, Owning
  <2> QED BY <2>1, Zenon DEF WaitCall, WakeCall, LockCall, ReleaseCall, AcquireCall
<1>2. Quiet(t, to)
  BY <1>1, Zenon DEF Quiet, Beds, lockvars, cvars
<1>3. MonTypeOK'
  BY <1>1, Zenon DEF MonInv, MonTypeOK, Goto, MonLabels, Owning, CvInside, lockvars, cvars
<1>4. SpinsHeld'
  BY <1>1, Zenon DEF MonInv, MonTypeOK, SpinsHeld, Goto, LkInside, CvInside, lockvars, cvars
<1>5. DoIHoldExact'
  BY <1>1 DEF MonInv, MonTypeOK, DoIHoldExact, Goto, Owning, lockvars, lock_do_i_hold
<1>6. NoSleepPastRelease'
  BY <1>1, <1>2, Quiet_Lists, Quiet_Comes, Wakeup_Parts, Zenon DEF Coming, lockvars
<1> QED BY <1>3, <1>4, <1>5, <1>6, Zenon DEF MonInv

LEMMA CvSpin_Inv ==
  ASSUME MonInv, NEW t \in Threads, NEW from, NEW to, CvSpin(t, from, to),
         \/ from = "W_spin" /\ to = "W_rel"
         \/ from = "W_respin" /\ to = "W_unlock"
         \/ from = "S_spin" /\ to = "S_wake"
         \/ from = "B_spin" /\ to = "B_wake"
  PROVE  MonInv'
<1>1. Quiet(t, to) /\ UNCHANGED lockvars /\ pc[t] = from
  BY Zenon DEF CvSpin, Quiet, Beds, lockvars
<1>2. MonTypeOK'
  BY Zenon DEF MonInv, MonTypeOK, CvSpin, Goto, MonLabels, Owning, CvInside, lockvars
<1>3. SpinsHeld'
  BY ThreadAssumption, Zenon DEF MonInv, MonTypeOK, SpinsHeld, CvSpin, Goto, LkInside, CvInside, lockvars
<1>4. DoIHoldExact'
  BY Zenon DEF MonInv, MonTypeOK, DoIHoldExact, CvSpin, Goto, Owning, lockvars, lock_do_i_hold
<1>5. NoSleepPastRelease'
  BY <1>1, Quiet_Lists, Quiet_Comes, Wakeup_Parts, Zenon DEF Coming, lockvars
<1> QED BY <1>2, <1>3, <1>4, <1>5, Zenon DEF MonInv

LEMMA WaitUnlock_Inv ==
  ASSUME MonInv, NEW t \in Threads, WaitUnlock(t)
  PROVE  MonInv'
<1>1. Quiet(t, "A_spin") /\ UNCHANGED lockvars
  BY Zenon DEF WaitUnlock, Quiet, Beds, lockvars
<1>2. MonTypeOK'
  BY Zenon DEF MonInv, MonTypeOK, WaitUnlock, Goto, MonLabels, lockvars
<1>3. SpinsHeld'
  BY ThreadAssumption, Zenon DEF MonInv, MonTypeOK, SpinsHeld, WaitUnlock, Goto, LkInside, CvInside, lockvars
<1>4. DoIHoldExact'
  BY Zenon DEF MonInv, MonTypeOK, DoIHoldExact, WaitUnlock, Goto, Owning, lockvars, lock_do_i_hold
<1>5. NoSleepPastRelease'
  BY <1>1, Quiet_Lists, Quiet_Comes, Wakeup_Parts, Zenon DEF Coming, lockvars
<1> QED BY <1>2, <1>3, <1>4, <1>5, Zenon DEF MonInv

LEMMA LockSpin_Inv ==
  ASSUME MonInv, NEW t \in Threads, UNCHANGED cvars, NEW from, NEW to, ReleaseSpin(t, from, to),
         \/ from = "A_spin" /\ to = "A_test"
         \/ from = "R_spin" /\ to = "R_give"
         \/ from = "WR_spin" /\ to = "WR_give"
  PROVE  MonInv'
<1>1. Quiet(t, to) /\ UNCHANGED lk_count /\ pc[t] = from
  BY Zenon DEF ReleaseSpin, Quiet, Beds, cvars
<1>2. MonTypeOK'
  BY Zenon DEF MonInv, MonTypeOK, ReleaseSpin, Goto, MonLabels, Owning, LkInside, cvars
<1>3. SpinsHeld'
  BY ThreadAssumption, Zenon DEF MonInv, MonTypeOK, SpinsHeld, ReleaseSpin, Goto, LkInside, CvInside, cvars
<1>4. DoIHoldExact'
  BY Zenon DEF MonInv, MonTypeOK, DoIHoldExact, ReleaseSpin, Goto, Owning, lock_do_i_hold
<1>5. NoSleepPastRelease'
  BY <1>1, Quiet_Lists, Quiet_Comes, Wakeup_Parts, Zenon DEF Coming
<1> QED BY <1>2, <1>3, <1>4, <1>5, Zenon DEF MonInv

\* A thread inside lk_lock that finds the lock free takes it: nobody owns it.
LEMMA Take_Inv ==
  ASSUME MonInv, NEW t \in Threads, UNCHANGED cvars, AcquireTake(t)
  PROVE  MonInv'
<1>1. /\ pc[t] = "A_test" /\ lk_count = 1 /\ lk_holder = NULL
      /\ lk_holder' = t /\ lk_count' = 0 /\ lk_lock' = NULL /\ Goto(t, "own") /\ UNCHANGED lk_wchan
  BY DEF MonInv, MonTypeOK, DoIHoldExact, AcquireTake
<1>2. Quiet(t, "own")
  BY <1>1, Zenon DEF Quiet, Beds, cvars
<1>3. MonTypeOK'
  BY <1>1, Zenon DEF MonInv, MonTypeOK, Goto, MonLabels, Owning, cvars
<1>4. SpinsHeld'
  BY <1>1, ThreadAssumption, Zenon DEF MonInv, MonTypeOK, SpinsHeld, Goto, LkInside, CvInside, cvars
<1>5. DoIHoldExact'
  BY <1>1, ThreadAssumption DEF MonInv, MonTypeOK, DoIHoldExact, Goto, Owning, lock_do_i_hold
<1>6. NoSleepPastRelease'
  BY <1>1, <1>2, Quiet_Lists, Quiet_Comes, Wakeup_Parts
<1> QED BY <1>3, <1>4, <1>5, <1>6, Zenon DEF MonInv

LEMMA Give_Inv ==
  ASSUME MonInv, NEW t \in Threads, UNCHANGED cvars, NEW from, NEW to, ReleaseGive(t, from, to),
         \/ from = "R_give" /\ to = "R_wake"
         \/ from = "WR_give" /\ to = "WR_wake"
  PROVE  MonInv'
<1>1. pc[t] = from /\ lk_holder = t /\ lk_count = 0 /\ lk_count' = 1 /\ lk_holder' = NULL /\ Goto(t, to)
      /\ UNCHANGED <<lk_lock, lk_wchan>>
  BY ThreadAssumption DEF MonInv, MonTypeOK, DoIHoldExact, ReleaseGive, Owning, lock_do_i_hold
<1>2. Quiet(t, to)
  BY <1>1, Zenon DEF Quiet, Beds, cvars
<1>3. MonTypeOK'
  BY <1>1, Zenon DEF MonInv, MonTypeOK, Goto, MonLabels, LkInside, cvars
<1>4. SpinsHeld'
  BY <1>1 DEF MonInv, MonTypeOK, SpinsHeld, Goto, LkInside, CvInside, cvars
<1>5. DoIHoldExact'
  BY <1>1, ThreadAssumption, Zenon DEF MonInv, MonTypeOK, DoIHoldExact, Goto, Owning, lock_do_i_hold
<1>6. NoSleepPastRelease'
  BY <1>1, <1>2, Quiet_Lists, Quiet_Comes, Wakeup_Parts, Zenon DEF Coming
<1> QED BY <1>3, <1>4, <1>5, <1>6, Zenon DEF MonInv

----------------------------------------------------------------------------
\* Going to sleep.

LEMMA AcquireSleep_Inv ==
  ASSUME MonInv, NEW t \in Threads, UNCHANGED cvars, AcquireSleep(t)
  PROVE  MonInv'
<1>1. MonTypeOK'
  BY Zenon DEF MonInv, MonTypeOK, AcquireSleep, Goto, MonLabels, Beds, cvars
<1>2. SpinsHeld'
  BY ThreadAssumption, Zenon DEF MonInv, MonTypeOK, SpinsHeld, AcquireSleep, Goto, LkInside, CvInside, cvars
<1>3. DoIHoldExact'
  BY Zenon DEF MonInv, MonTypeOK, DoIHoldExact, AcquireSleep, Goto, Owning, lock_do_i_hold
<1>4. ListsRight'
  <2>1. ListsRight /\ t \notin Asleep("L_asleep")
    BY Wakeup_Parts, Zenon DEF MonInv, Asleep, AcquireSleep
  <2>2. Asleep("L_asleep")' = Asleep("L_asleep") \cup {t} /\ Asleep("cv_asleep")' = Asleep("cv_asleep")
    BY Zenon DEF MonInv, MonTypeOK, Asleep, AcquireSleep, Goto
  <2>3. Lists(lk_wchan', Asleep("L_asleep") \cup {t})
    BY <2>1, SleepLists, Zenon DEF ListsRight, AcquireSleep
  <2> QED BY <2>1, <2>2, <2>3, Zenon DEF ListsRight, cvars
<1>5. SomeoneComes'
  BY DEF SomeoneComes, AcquireSleep
<1> QED BY <1>1, <1>2, <1>3, <1>4, <1>5, Wakeup_Parts, Zenon DEF MonInv

LEMMA WaitSleep_Inv ==
  ASSUME MonInv, NEW t \in Threads, WaitSleep(t)
  PROVE  MonInv'
<1>1. MonTypeOK'
  BY Zenon DEF MonInv, MonTypeOK, WaitSleep, Goto, MonLabels, Beds, lockvars
<1>2. SpinsHeld'
  BY ThreadAssumption, Zenon DEF MonInv, MonTypeOK, SpinsHeld, WaitSleep, Goto, LkInside, CvInside, lockvars
<1>3. DoIHoldExact'
  BY Zenon DEF MonInv, MonTypeOK, DoIHoldExact, WaitSleep, Goto, Owning, lockvars, lock_do_i_hold
<1>4. ListsRight'
  <2>1. ListsRight /\ t \notin Asleep("cv_asleep")
    BY Wakeup_Parts, Zenon DEF MonInv, Asleep, WaitSleep
  <2>2. Asleep("cv_asleep")' = Asleep("cv_asleep") \cup {t} /\ Asleep("L_asleep")' = Asleep("L_asleep")
    BY Zenon DEF MonInv, MonTypeOK, Asleep, WaitSleep, Goto
  <2>3. Lists(cv_wchan', Asleep("cv_asleep") \cup {t})
    BY <2>1, SleepLists, Zenon DEF ListsRight, WaitSleep
  <2> QED BY <2>1, <2>2, <2>3, Zenon DEF ListsRight, WaitSleep, lockvars
<1>5. SomeoneComes'
  <2>1. SomeoneComes
    BY Wakeup_Parts, Zenon DEF MonInv
  <2> QED BY <2>1, Zenon DEF MonInv, MonTypeOK, SomeoneComes, Coming, WaitSleep, Goto, lockvars
<1> QED BY <1>1, <1>2, <1>3, <1>4, <1>5, Wakeup_Parts, Zenon DEF MonInv

----------------------------------------------------------------------------
\* Waking.

Woken(t, to, W, up) == pc' = [u \in Threads |-> IF u = t THEN to ELSE IF u \in W THEN up ELSE pc[u]]

LEMMA Wake_Inv ==
  ASSUME MonInv, NEW t \in Threads, UNCHANGED cvars, NEW from, NEW to, ReleaseWake(t, from, to),
         \/ from = "R_wake" /\ to = "out"
         \/ from = "WR_wake" /\ to = "W_sleep"
  PROVE  MonInv'
<1> DEFINE W == wakeone_target(lk_wchan)
<1>1. Woken(t, to, W, "A_spin") /\ lk_wchan' = wchan_wakeone(lk_wchan) /\ pc[t] = from
      /\ lk_lock' = NULL /\ UNCHANGED <<lk_count, lk_holder>>
  BY Zenon DEF ReleaseWake, Woken
<1>2. ListsRight
  BY Wakeup_Parts, Zenon DEF MonInv
<1>3. /\ Lists(lk_wchan', Asleep("L_asleep") \ W)
      /\ IF Asleep("L_asleep") = {} THEN W = {} ELSE \E u \in Asleep("L_asleep") : W = {u}
  BY <1>1, <1>2, WakeoneLists, Zenon DEF ListsRight
<1>4. \A u \in W : u \in Threads /\ pc[u] = "L_asleep"
  BY <1>3, Zenon DEF Asleep
<1> HIDE DEF W
<1>5. MonTypeOK'
  BY <1>1, <1>4, Zenon DEF MonInv, MonTypeOK, Woken, MonLabels, CvInside, cvars
<1>6. SpinsHeld'
  BY <1>1, <1>4, ThreadAssumption, Zenon DEF MonInv, MonTypeOK, SpinsHeld, Woken, LkInside, CvInside, cvars
<1>7. DoIHoldExact'
  BY <1>1, <1>4, Zenon DEF MonInv, MonTypeOK, DoIHoldExact, Woken, Owning, lock_do_i_hold
<1>8. ListsRight'
  <2>1. Asleep("L_asleep")' = Asleep("L_asleep") \ W /\ Asleep("cv_asleep")' = Asleep("cv_asleep")
    BY <1>1, <1>4, Zenon DEF MonInv, MonTypeOK, Asleep, Woken
  <2> QED BY <1>2, <1>3, <2>1, Zenon DEF ListsRight, cvars
<1>9. SomeoneComes'
  <2>1. lk_wchan' # <<>> => Asleep("L_asleep") # {}
    BY <1>3, ListsNobody
  <2>2. ASSUME NEW u \in W PROVE pc'[u] = "A_spin" /\ u \in Threads
    BY <1>1, <1>4, <2>2, Zenon DEF Woken
  <2> QED BY <1>3, <2>1, <2>2, Zenon DEF SomeoneComes, Coming
<1> QED BY <1>5, <1>6, <1>7, <1>8, <1>9, Wakeup_Parts, Zenon DEF MonInv

LEMMA CvWake_Inv ==
  ASSUME MonInv, NEW t \in Threads, SignalWake(t) \/ BroadcastWake(t)
  PROVE  MonInv'
<1>1. ListsRight /\ SomeoneComes
  BY Wakeup_Parts, Zenon DEF MonInv
<1>2. PICK W : /\ Woken(t, "own", W, "W_respin") /\ pc[t] \in {"S_wake", "B_wake"}
               /\ cv_lock' = NULL /\ UNCHANGED lockvars
               /\ W \subseteq Asleep("cv_asleep") /\ Lists(cv_wchan', Asleep("cv_asleep") \ W)
  <2>1. CASE SignalWake(t)
    <3>1. Lists(cv_wchan', Asleep("cv_asleep") \ wakeone_target(cv_wchan))
          /\ wakeone_target(cv_wchan) \subseteq Asleep("cv_asleep")
      BY <1>1, <2>1, WakeoneLists DEF ListsRight, SignalWake
    <3> QED BY <2>1, <3>1, Zenon DEF SignalWake, CvWake, Woken
  <2>2. CASE BroadcastWake(t)
    <3>1. Lists(cv_wchan', Asleep("cv_asleep") \ wakeall_target(cv_wchan))
          /\ wakeall_target(cv_wchan) \subseteq Asleep("cv_asleep")
      <4>1. wakeall_target(cv_wchan) = Asleep("cv_asleep") /\ Lists(cv_wchan', {})
        BY <1>1, <2>2, WakeallLists, Zenon DEF ListsRight, BroadcastWake
      <4> QED BY <4>1, Zenon
    <3> QED BY <2>2, <3>1, Zenon DEF BroadcastWake, CvWake, Woken
  <2> QED BY <2>1, <2>2, Zenon
<1>3. \A u \in W : u \in Threads /\ pc[u] = "cv_asleep"
  BY <1>2, Zenon DEF Asleep
<1>4. MonTypeOK'
  BY <1>2, <1>3, Zenon DEF MonInv, MonTypeOK, Woken, MonLabels, Owning, lockvars
<1>5. SpinsHeld'
  BY <1>2, <1>3, ThreadAssumption, Zenon DEF MonInv, MonTypeOK, SpinsHeld, Woken, LkInside, CvInside, lockvars
<1>6. DoIHoldExact'
  BY <1>2, <1>3, Zenon DEF MonInv, MonTypeOK, DoIHoldExact, Woken, Owning, lock_do_i_hold, lockvars
<1>7. ListsRight'
  <2>1. Asleep("cv_asleep")' = Asleep("cv_asleep") \ W /\ Asleep("L_asleep")' = Asleep("L_asleep")
    BY <1>2, <1>3, Zenon DEF MonInv, MonTypeOK, Asleep, Woken
  <2> QED BY <1>1, <1>2, <2>1, Zenon DEF ListsRight, lockvars
<1>8. SomeoneComes'
  <2>1. \A u \in Threads : pc[u] \in Coming => pc'[u] \in Coming
    BY <1>2, <1>3, Zenon DEF Woken, Coming
  <2> QED BY <1>1, <1>2, <2>1, Zenon DEF SomeoneComes, lockvars
<1> QED BY <1>4, <1>5, <1>6, <1>7, <1>8, Wakeup_Parts, Zenon DEF MonInv

----------------------------------------------------------------------------
LEMMA Mon_Init == CvInit => MonInv
<1> SUFFICES ASSUME CvInit PROVE MonInv
  OBVIOUS
<1>1. MonTypeOK
  BY Zenon DEF CvInit, LockInit, MonTypeOK, MonLabels
<1>2. SpinsHeld /\ DoIHoldExact
  BY ThreadAssumption, Zenon
  DEF CvInit, LockInit, SpinsHeld, DoIHoldExact, LkInside, CvInside, Owning, lock_do_i_hold
<1>3. Asleep("L_asleep") = {} /\ Asleep("cv_asleep") = {}
  BY Zenon DEF CvInit, Asleep
<1>4. ListsRight /\ SomeoneComes
  BY <1>3, EmptyLists, Zenon DEF CvInit, LockInit, ListsRight, SomeoneComes
<1> QED BY <1>1, <1>2, <1>4, Wakeup_Parts, Zenon DEF MonInv

\* The step of one thread, by what it does to the lock and the channels.
LEMMA Step_Cases ==
  ASSUME NEW t \in Threads, WaitCall(t) \/ WakeCall(t) \/ CvStep(t) \/ LockCall(t) \/ LockStep(t)
  PROVE  \/ WaitCall(t) \/ WakeCall(t) \/ LockCall(t) \/ (ReleaseCall(t, "W_rel", "WR_spin") /\ UNCHANGED cvars)
         \/ CvSpin(t, "W_spin", "W_rel") \/ CvSpin(t, "W_respin", "W_unlock")
         \/ CvSpin(t, "S_spin", "S_wake") \/ CvSpin(t, "B_spin", "B_wake")
         \/ WaitUnlock(t)
         \/ /\ UNCHANGED cvars
            /\ \/ ReleaseSpin(t, "A_spin", "A_test") \/ ReleaseSpin(t, "R_spin", "R_give")
               \/ ReleaseSpin(t, "WR_spin", "WR_give")
               \/ AcquireTake(t) \/ AcquireSleep(t)
               \/ ReleaseGive(t, "R_give", "R_wake") \/ ReleaseGive(t, "WR_give", "WR_wake")
               \/ ReleaseWake(t, "R_wake", "out") \/ ReleaseWake(t, "WR_wake", "W_sleep")
         \/ WaitSleep(t) \/ SignalWake(t) \/ BroadcastWake(t)
<1>1. AcquireSpin(t) <=> ReleaseSpin(t, "A_spin", "A_test")
  BY Zenon DEF AcquireSpin, ReleaseSpin
<1> QED BY <1>1, Zenon DEF CvStep, WaitRelease, LockStep, AcquireStep, ReleaseStep

LEMMA Mon_Step == MonInv /\ [CvNext]_cvvars => MonInv'
<1> SUFFICES ASSUME MonInv, [CvNext]_cvvars PROVE MonInv'
  OBVIOUS
<1>1. CASE UNCHANGED cvvars
  <2>1. UNCHANGED <<lk_lock, lk_count, lk_holder, lk_wchan, cv_lock, cv_wchan, pc>>
    BY <1>1, Zenon DEF cvvars, lockvars, cvars
  <2> QED BY <2>1, Zenon
      DEF MonInv, MonTypeOK, SpinsHeld, DoIHoldExact, NoSleepPastRelease, lock_do_i_hold
<1>2. ASSUME NEW t \in Threads, WaitCall(t) \/ WakeCall(t) \/ CvStep(t) \/ LockCall(t) \/ LockStep(t)
      PROVE  MonInv'
  BY <1>2, Step_Cases, Calls_Inv, CvSpin_Inv, WaitUnlock_Inv, LockSpin_Inv, Take_Inv, Give_Inv,
     AcquireSleep_Inv, WaitSleep_Inv, Wake_Inv, CvWake_Inv, Zenon
<1> QED BY <1>1, <1>2, Zenon DEF CvNext

\* MonInv holds in every behaviour of lock_acquire, lock_release, cv_wait, cv_signal and
\* cv_broadcast, for any threads; in particular no assertion of theirs fails.
THEOREM MonitorInvariant == CvSpec => []MonInv
BY Mon_Init, Mon_Step, PTL DEF CvSpec

\* lock_do_i_hold, which reads lk_holder without the spinlock, is exact for its caller.
THEOREM HolderExact == CvSpec => []DoIHoldExact
<1>1. MonInv => DoIHoldExact
  BY Zenon DEF MonInv
<1> QED BY <1>1, MonitorInvariant, PTL

\* lock_release and cv_wait leave no thread asleep on a free lock that nobody comes for, and
\* the two channels hold exactly the threads that sleep on them.
THEOREM LockNoSleepPastRelease == CvSpec => []NoSleepPastRelease
<1>1. MonInv => NoSleepPastRelease
  BY Zenon DEF MonInv
<1> QED BY <1>1, MonitorInvariant, PTL

----------------------------------------------------------------------------
\* Refinement.

\* Who sleeps, or is about to, has given up the lock and cannot take it.
LEMMA Waiting_Same ==
  ASSUME MonInv, MonInv', UNCHANGED cv_wchan,
         \/ UNCHANGED cv_lock /\ \A u \in Threads : pc[u] \in CvInside =>
              (pc'[u] \in {"WR_wake", "W_sleep"} <=> pc[u] \in {"WR_wake", "W_sleep"})
         \/ /\ cv_lock = NULL \/ pc[cv_lock] \notin {"WR_wake", "W_sleep"}
            /\ cv_lock' = NULL \/ pc'[cv_lock'] \notin {"WR_wake", "W_sleep"}
  PROVE  UNCHANGED waiting
BY Zenon DEF waiting, MonInv, MonTypeOK, SpinsHeld

LEMMA Not_Waiting ==
  ASSUME MonInv, NEW t \in Threads, pc[t] = "A_test"
  PROVE  t \notin wakeall_target(waiting)
<1>1. Lists(cv_wchan, Asleep("cv_asleep"))
  BY Wakeup_Parts, Zenon DEF MonInv, ListsRight
<1>2. t \notin Asleep("cv_asleep")
  BY Zenon DEF Asleep
<1>3. CASE cv_lock # NULL /\ pc[cv_lock] \in {"WR_wake", "W_sleep"}
  <2>1. cv_lock # t /\ cv_lock \notin Asleep("cv_asleep")
    BY <1>3, Zenon DEF Asleep
  <2>2. Lists(waiting, Asleep("cv_asleep") \cup {cv_lock})
    BY <1>1, <1>3, <2>1, SleepLists, Zenon DEF waiting
  <2> QED BY <1>2, <2>1, <2>2, WakeallLists
<1>4. CASE ~(cv_lock # NULL /\ pc[cv_lock] \in {"WR_wake", "W_sleep"})
  <2>1. waiting = cv_wchan
    BY <1>4, Zenon DEF waiting
  <2> QED BY <1>1, <1>2, <2>1, WakeallLists, Zenon
<1> QED BY <1>3, <1>4, Zenon

LEMMA Monitor_Step ==
  ASSUME MonInv, MonInv', NEW t \in Threads,
         WaitCall(t) \/ WakeCall(t) \/ CvStep(t) \/ LockCall(t) \/ LockStep(t)
  PROVE  Mon!Next \/ UNCHANGED <<lk_holder, waiting>>
<1>0. pc \in [Threads -> MonLabels] /\ cv_lock \in Threads \cup {NULL} /\ SpinsHeld
      /\ (pc[t] \in Owning => lk_holder = t) /\ (lk_count = 1 => lk_holder = NULL)
  BY Zenon DEF MonInv, MonTypeOK, DoIHoldExact, lock_do_i_hold
<1>1. CASE WaitCall(t) \/ WakeCall(t) \/ LockCall(t) \/ (ReleaseCall(t, "W_rel", "WR_spin") /\ UNCHANGED cvars)
  <2>1. PICK to \in {"W_spin", "S_spin", "B_spin", "A_spin", "R_spin", "WR_spin", "panic"} :
          /\ Goto(t, to) /\ UNCHANGED <<lockvars, cvars>>
          /\ pc[t] \in {"out", "own", "W_rel"}
    BY <1>1, Zenon DEF WaitCall, WakeCall, LockCall, ReleaseCall, AcquireCall
  <2>2. UNCHANGED waiting
    BY <1>0, <2>1, Waiting_Same, Zenon DEF Goto, cvars
  <2> QED BY <2>1, <2>2, Zenon DEF lockvars
<1>2. ASSUME NEW from, NEW to, CvSpin(t, from, to), to \in {"W_rel", "W_unlock", "S_wake", "B_wake"}
      PROVE  UNCHANGED <<lk_holder, waiting>>
  <2>1. UNCHANGED waiting
    BY <1>0, <1>2, Waiting_Same, Zenon DEF CvSpin, Goto
  <2> QED BY <1>2, <2>1, Zenon DEF CvSpin, lockvars
<1>3. CASE WaitUnlock(t)
  <2>1. cv_lock = t
    BY <1>0, <1>3, Zenon DEF SpinsHeld, CvInside, WaitUnlock
  <2>2. UNCHANGED waiting
    BY <1>3, <2>1, Waiting_Same, Zenon DEF WaitUnlock
  <2> QED BY <1>3, <2>2, Zenon DEF WaitUnlock, lockvars
<1>4. ASSUME NEW from, NEW to, ReleaseSpin(t, from, to), UNCHANGED cvars,
             from \in {"A_spin", "R_spin", "WR_spin"}, to \in {"A_test", "R_give", "WR_give"}
      PROVE  UNCHANGED <<lk_holder, waiting>>
  <2>1. UNCHANGED waiting
    BY <1>0, <1>4, Waiting_Same, Zenon DEF ReleaseSpin, Goto, cvars
  <2> QED BY <1>4, <2>1, Zenon DEF ReleaseSpin
<1>5. CASE AcquireTake(t) /\ UNCHANGED cvars
  <2>1. pc[t] = "A_test" /\ lk_holder = NULL /\ lk_holder' = t /\ Goto(t, "own")
    BY <1>5 DEF MonInv, MonTypeOK, DoIHoldExact, AcquireTake
  <2>2. UNCHANGED waiting
    BY <1>0, <1>5, <2>1, Waiting_Same, Zenon DEF Goto, cvars
  <2>3. Mon!Acquire(t)
    BY <2>1, <2>2, Not_Waiting, Zenon DEF Mon!Acquire, Mon!wakeall_target, wakeall_target
  <2> QED BY <2>3, Zenon DEF Mon!Next
<1>6. CASE AcquireSleep(t) /\ UNCHANGED cvars
  <2>1. UNCHANGED waiting
    BY <1>0, <1>6, Waiting_Same, Zenon DEF AcquireSleep, Goto, cvars
  <2> QED BY <1>6, <2>1, Zenon DEF AcquireSleep
<1>7. CASE ReleaseGive(t, "R_give", "R_wake") /\ UNCHANGED cvars
  <2>1. lk_holder = t /\ lk_holder' = NULL
    BY <1>0, <1>7, Zenon DEF ReleaseGive, Owning
  <2>2. UNCHANGED waiting
    BY <1>0, <1>7, Waiting_Same, Zenon DEF ReleaseGive, Goto, cvars, CvInside
  <2>3. Mon!Release(t)
    BY <2>1, <2>2, Zenon DEF Mon!Release
  <2> QED BY <2>3, Zenon DEF Mon!Next
<1>8. CASE ReleaseGive(t, "WR_give", "WR_wake") /\ UNCHANGED cvars
  <2>1. lk_holder = t /\ lk_holder' = NULL /\ pc[t] = "WR_give" /\ pc'[t] = "WR_wake"
    BY <1>0, <1>8, Zenon DEF ReleaseGive, Owning, Goto
  <2>2. cv_lock = t /\ cv_lock' = t /\ t # NULL /\ UNCHANGED cv_wchan
    BY <1>0, <1>8, <2>1, ThreadAssumption, Zenon DEF SpinsHeld, CvInside, cvars
  <2>3. waiting = cv_wchan /\ waiting' = wchan_sleep(cv_wchan, t)
    BY <2>1, <2>2, Zenon DEF waiting
  <2>4. Mon!Wait(t)
    BY <2>1, <2>3, Zenon DEF Mon!Wait, Mon!wchan_sleep, wchan_sleep
  <2> QED BY <2>4, Zenon DEF Mon!Next
<1>9. ASSUME NEW from, NEW to, ReleaseWake(t, from, to), UNCHANGED cvars,
             (from = "R_wake" /\ to = "out") \/ (from = "WR_wake" /\ to = "W_sleep")
      PROVE  UNCHANGED <<lk_holder, waiting>>
  <2>1. \A u \in wakeone_target(lk_wchan) : pc[u] = "L_asleep"
    <3>1. Lists(lk_wchan, Asleep("L_asleep"))
      BY Wakeup_Parts, Zenon DEF MonInv, ListsRight
    <3>2. IF Asleep("L_asleep") = {} THEN wakeone_target(lk_wchan) = {}
                                    ELSE \E u \in Asleep("L_asleep") : wakeone_target(lk_wchan) = {u}
      BY <3>1, WakeoneLists, Zenon
    <3> QED BY <3>2, Zenon DEF Asleep
  <2>2. \A u \in Threads : pc[u] \in CvInside =>
          (pc'[u] \in {"WR_wake", "W_sleep"} <=> pc[u] \in {"WR_wake", "W_sleep"})
    BY <1>9, <2>1, Zenon DEF ReleaseWake, CvInside
  <2>3. UNCHANGED waiting
    BY <1>9, <2>2, Waiting_Same, Zenon DEF cvars
  <2> QED BY <1>9, <2>3, Zenon DEF ReleaseWake
<1>10. CASE WaitSleep(t)
  <2>1. cv_lock = t /\ t # NULL /\ pc[t] = "W_sleep" /\ cv_lock' = NULL /\ UNCHANGED lk_holder
    BY <1>0, <1>10, ThreadAssumption, Zenon DEF SpinsHeld, CvInside, WaitSleep, lockvars
  <2>2. waiting = wchan_sleep(cv_wchan, t) /\ waiting' = cv_wchan'
    BY <2>1, Zenon DEF waiting
  <2> QED BY <1>10, <2>1, <2>2, Zenon DEF WaitSleep
<1>11. CASE SignalWake(t) \/ BroadcastWake(t)
  <2>1. pc[t] \in {"S_wake", "B_wake"} /\ cv_lock' = NULL /\ UNCHANGED lk_holder
    BY <1>11, Zenon DEF SignalWake, BroadcastWake, CvWake, lockvars
  <2>2. cv_lock = t /\ lk_holder = t
    BY <1>0, <2>1, Zenon DEF SpinsHeld, CvInside, Owning
  <2>3. waiting = cv_wchan /\ waiting' = cv_wchan'
    BY <2>1, <2>2, Zenon DEF waiting
  <2>4. Mon!Signal(t) \/ Mon!Broadcast(t)
    BY <1>11, <2>1, <2>2, <2>3, Zenon
    DEF SignalWake, BroadcastWake, Mon!Signal, Mon!Broadcast, Mon!wchan_wakeone, Mon!wchan_wakeall,
        wchan_wakeone, wchan_wakeall
  <2> QED BY <2>4, Zenon DEF Mon!Next
<1>12. CASE \/ CvSpin(t, "W_spin", "W_rel") \/ CvSpin(t, "W_respin", "W_unlock")
             \/ CvSpin(t, "S_spin", "S_wake") \/ CvSpin(t, "B_spin", "B_wake")
  BY <1>2, <1>12, Zenon
<1>13. CASE /\ UNCHANGED cvars
            /\ \/ ReleaseSpin(t, "A_spin", "A_test") \/ ReleaseSpin(t, "R_spin", "R_give")
               \/ ReleaseSpin(t, "WR_spin", "WR_give")
  BY <1>4, <1>13, Zenon
<1>14. CASE /\ UNCHANGED cvars
            /\ ReleaseWake(t, "R_wake", "out") \/ ReleaseWake(t, "WR_wake", "W_sleep")
  BY <1>9, <1>14, Zenon
<1> QED BY <1>1, <1>3, <1>5, <1>6, <1>7, <1>8, <1>10, <1>11, <1>12, <1>13, <1>14, Step_Cases, Zenon

\* Whatever the interleaving of the nested spinlocks, the lock and the condition variable of
\* synch.c are a monitor: cv_wait releases and waits in one step.
THEOREM MonitorImplemented == CvSpec => ImplementsMonitor
<1>1. CvInit => Mon!Init
  BY Zenon DEF CvInit, LockInit, Mon!Init, waiting
<1>2. MonInv /\ MonInv' /\ [CvNext]_cvvars => [Mon!Next]_<<lk_holder, waiting>>
  <2> SUFFICES ASSUME MonInv, MonInv', [CvNext]_cvvars
               PROVE  [Mon!Next]_<<lk_holder, waiting>>
    OBVIOUS
  <2>1. CASE UNCHANGED cvvars
    BY <2>1, Zenon DEF cvvars, lockvars, cvars, waiting
  <2>2. CASE CvNext
    BY <2>2, Monitor_Step, Zenon DEF CvNext
  <2> QED BY <2>1, <2>2, Zenon
<1> QED BY <1>1, <1>2, MonitorInvariant, PTL DEF CvSpec, ImplementsMonitor, Mon!Spec
=============================================================================
