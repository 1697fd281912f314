----------------------------- MODULE SleepLock ------------------------------
(***************************************************************************)
(* The sleep lock of kern/thread/synch.c: a count, the holder, a spinlock   *)
(* that guards both, and a wait channel.  lock_release wakes one sleeper    *)
(* but leaves the lock free: whoever takes the spinlock first gets it.      *)
(* lock_do_i_hold reads the holder without the spinlock.                    *)
(*                                                                         *)
(* The steps of lock_release are parameterised by the labels between which  *)
(* they lead, because cv_wait calls it as well.  Module CondVar puts the    *)
(* steps of the lock and of the condition variable together.                *)
(***************************************************************************)
EXTENDS Synch

VARIABLES
  lk_lock,    \* the thread whose CPU holds the spinlock, or NULL
  lk_count,   \* 1 when the lock is free, 0 when it is held
  lk_holder,  \* the holder as lock_do_i_hold sees it, or NULL
  lk_wchan    \* the sleeping threads, first to be woken first

lockvars == <<lk_lock, lk_count, lk_holder, lk_wchan>>

\* lock_create.
LockInit ==
  /\ lk_lock = NULL
  /\ lk_count = 1
  /\ lk_holder = NULL
  /\ lk_wchan = <<>>

lock_do_i_hold(t) == lk_holder = t

----------------------------------------------------------------------------
(***************************************************************************)
(* lock_acquire.                                                            *)
(***************************************************************************)
AcquireCall(t) ==
  /\ pc[t] = "out"
  /\ Goto(t, "A_spin")
  /\ UNCHANGED lockvars

\* spinlock_acquire, at first or on return from wchan_sleep.
AcquireSpin(t) ==
  /\ pc[t] = "A_spin"
  /\ lk_lock = NULL
  /\ lk_lock' = t
  /\ Goto(t, "A_test")
  /\ UNCHANGED <<lk_count, lk_holder, lk_wchan>>

AcquireSleep(t) ==
  /\ pc[t] = "A_test"
  /\ lk_count = 0
  /\ lk_wchan' = wchan_sleep(lk_wchan, t)
  /\ lk_lock' = NULL
  /\ Goto(t, "L_asleep")
  /\ UNCHANGED <<lk_count, lk_holder>>

\* Mutant: a thread that finds the lock free gives way to those asleep, and tries again.
AcquireTake_Polite(t) ==
  /\ pc[t] = "A_test"
  /\ lk_count # 0
  /\ lk_lock' = NULL
  /\ IF lk_wchan # <<>>
       THEN Goto(t, "A_spin") /\ UNCHANGED <<lk_holder, lk_count>>
       ELSE Goto(t, "own") /\ lk_holder' = t /\ lk_count' = lk_count - 1
  /\ UNCHANGED lk_wchan

\* The loop is left; the assertion, the holder, the count and the spinlock's release.
AcquireTake(t) ==
  /\ pc[t] = "A_test"
  /\ lk_count # 0
  /\ IF lk_count > 0
       THEN /\ lk_holder' = t
            /\ lk_count' = lk_count - 1
            /\ lk_lock' = NULL
            /\ Goto(t, "own")
       ELSE Goto(t, "panic") /\ UNCHANGED <<lk_holder, lk_count, lk_lock>>
  /\ UNCHANGED lk_wchan

AcquireStep(t) == AcquireSpin(t) \/ AcquireSleep(t) \/ AcquireTake(t)

----------------------------------------------------------------------------
(***************************************************************************)
(* lock_release.  The caller must be the holder, and the code asserts it    *)
(* before it takes the spinlock.                                            *)
(***************************************************************************)
ReleaseCall(t, from, to) ==
  /\ pc[t] = from
  /\ Goto(t, IF lock_do_i_hold(t) THEN to ELSE "panic")
  /\ UNCHANGED lockvars

ReleaseSpin(t, from, to) ==
  /\ pc[t] = from
  /\ lk_lock = NULL
  /\ lk_lock' = t
  /\ Goto(t, to)
  /\ UNCHANGED <<lk_count, lk_holder, lk_wchan>>

\* Mutant: lk_holder is not cleared.
ReleaseGive_HolderStays(t, from, to) ==
  /\ pc[t] = from
  /\ lk_count' = lk_count + 1
  /\ Goto(t, to)
  /\ UNCHANGED <<lk_lock, lk_holder, lk_wchan>>

ReleaseGive(t, from, to) ==
  /\ pc[t] = from
  /\ lk_count' = lk_count + 1
  /\ lk_holder' = NULL
  /\ Goto(t, to)
  /\ UNCHANGED <<lk_lock, lk_wchan>>

\* Mutant: lock_release forgets wchan_wakeone.
ReleaseWake_NoWakeup(t, from, to) ==
  /\ pc[t] = from
  /\ Goto(t, to)
  /\ lk_lock' = NULL
  /\ UNCHANGED <<lk_count, lk_holder, lk_wchan>>

\* wchan_wakeone and spinlock_release; the woken thread goes for the spinlock.
ReleaseWake(t, from, to) ==
  /\ pc[t] = from
  /\ lk_wchan' = wchan_wakeone(lk_wchan)
  /\ pc' = [u \in Threads |-> IF u = t THEN to
                              ELSE IF u \in wakeone_target(lk_wchan) THEN "A_spin" ELSE pc[u]]
  /\ lk_lock' = NULL
  /\ UNCHANGED <<lk_count, lk_holder>>

ReleaseStep(t) ==
  \/ ReleaseSpin(t, "R_spin", "R_give")
  \/ ReleaseGive(t, "R_give", "R_wake")
  \/ ReleaseWake(t, "R_wake", "out")
=============================================================================
