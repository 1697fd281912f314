------------------------------ MODULE CondVar -------------------------------
(***************************************************************************)
(* The condition variable of kern/thread/synch.c with its lock: cv_wait     *)
(* keeps the variable's spinlock while it runs the whole of lock_release,   *)
(* so two spinlocks nest, and lets it go only when it is on the channel.    *)
(* The callers hold the lock, as synch.h demands of them.                   *)
(***************************************************************************)
EXTENDS SleepLock

CONSTANT Waiters   \* the threads that call cv_wait; the others signal and broadcast

ASSUME WaiterAssumption == Waiters \subseteq Threads

VARIABLES
  cv_lock,   \* the thread whose CPU holds the variable's spinlock, or NULL
  cv_wchan   \* the waiting threads, first to be woken first

cvars  == <<cv_lock, cv_wchan>>
cvvars == <<lockvars, cvars, pc>>

\* cv_create.
CvInit ==
  /\ LockInit
  /\ cv_lock = NULL /\ cv_wchan = <<>>
  /\ pc = [t \in Threads |-> "out"]

\* Mutant: cv_wait takes cv_lock only after it has released the lock, so a signal comes in between.
CvSpin_WaitUnlocked(t, from, to) ==
  /\ pc[t] = from
  /\ cv_lock = NULL
  /\ cv_lock' = IF from = "W_spin" THEN NULL ELSE t
  /\ Goto(t, to)
  /\ UNCHANGED <<lockvars, cv_wchan>>

\* A spinlock_acquire of cv_lock.
CvSpin(t, from, to) ==
  /\ pc[t] = from
  /\ cv_lock = NULL
  /\ cv_lock' = t
  /\ Goto(t, to)
  /\ UNCHANGED <<lockvars, cv_wchan>>

----------------------------------------------------------------------------
(***************************************************************************)
(* cv_wait: take cv_lock, release the lock, sleep; awake, wchan_sleep takes *)
(* cv_lock once more, cv_wait drops it and acquires the lock.               *)
(***************************************************************************)
WaitCall(t) ==
  /\ pc[t] = "own" /\ t \in Waiters
  /\ Goto(t, "W_spin")
  /\ UNCHANGED <<lockvars, cvars>>

WaitRelease(t) ==
  /\ \/ ReleaseCall(t, "W_rel", "WR_spin")
     \/ ReleaseSpin(t, "WR_spin", "WR_give")
     \/ ReleaseGive(t, "WR_give", "WR_wake")
     \/ ReleaseWake(t, "WR_wake", "W_sleep")
  /\ UNCHANGED cvars

WaitSleep(t) ==
  /\ pc[t] = "W_sleep"
  /\ cv_wchan' = wchan_sleep(cv_wchan, t)
  /\ cv_lock' = NULL
  /\ Goto(t, "cv_asleep")
  /\ UNCHANGED lockvars

WaitUnlock(t) ==
  /\ pc[t] = "W_unlock"
  /\ cv_lock' = NULL
  /\ Goto(t, "A_spin")
  /\ UNCHANGED <<lockvars, cv_wchan>>

----------------------------------------------------------------------------
\* cv_signal and cv_broadcast: take cv_lock, wake, drop it.
WakeCall(t) ==
  /\ pc[t] = "own" /\ t \notin Waiters
  /\ \/ Goto(t, "S_spin")
     \/ Goto(t, "B_spin")
  /\ UNCHANGED <<lockvars, cvars>>

CvWake(t, from, woken) ==
  /\ pc[t] = from
  /\ cv_lock' = NULL
  /\ pc' = [u \in Threads |-> IF u = t THEN "own" ELSE IF u \in woken THEN "W_respin" ELSE pc[u]]
  /\ UNCHANGED lockvars

\* Mutant: cv_signal does not return before it has found a thread to wake.
SignalWake_Insists(t) ==
  IF cv_wchan = <<>>
    THEN /\ pc[t] = "S_wake" /\ Goto(t, "S_spin")
         /\ cv_lock' = NULL
         /\ UNCHANGED <<lockvars, cv_wchan>>
    ELSE /\ CvWake(t, "S_wake", wakeone_target(cv_wchan))
         /\ cv_wchan' = wchan_wakeone(cv_wchan)

SignalWake(t) ==
  /\ CvWake(t, "S_wake", wakeone_target(cv_wchan))
  /\ cv_wchan' = wchan_wakeone(cv_wchan)

BroadcastWake(t) ==
  /\ CvWake(t, "B_wake", wakeall_target(cv_wchan))
  /\ cv_wchan' = wchan_wakeall(cv_wchan)

----------------------------------------------------------------------------
CvStep(t) ==
  \/ CvSpin(t, "W_spin", "W_rel") \/ WaitRelease(t) \/ WaitSleep(t)
  \/ CvSpin(t, "W_respin", "W_unlock") \/ WaitUnlock(t)
  \/ CvSpin(t, "S_spin", "S_wake") \/ SignalWake(t)
  \/ CvSpin(t, "B_spin", "B_wake") \/ BroadcastWake(t)

LockCall(t) == (AcquireCall(t) \/ ReleaseCall(t, "own", "R_spin")) /\ UNCHANGED cvars
LockStep(t) == (AcquireStep(t) \/ ReleaseStep(t)) /\ UNCHANGED cvars

CvNext == \E t \in Threads : WaitCall(t) \/ WakeCall(t) \/ CvStep(t) \/ LockCall(t) \/ LockStep(t)

CvSpec == CvInit /\ [][CvNext]_cvvars

(***************************************************************************)
(* A runnable thread is run eventually (hardclock yields, and the run       *)
(* queues are FIFO), so it goes on with the function it is in; nothing      *)
(* makes a thread call one.                                                 *)
(***************************************************************************)
CvFairSpec == CvSpec /\ \A t \in Threads : WF_cvvars(CvStep(t) \/ LockStep(t))

----------------------------------------------------------------------------
\* The threads between lock_acquire's return and the point where lock_release gives up.
Owning == {"own", "R_spin", "R_give", "W_spin", "W_rel", "WR_spin", "WR_give",
           "S_spin", "S_wake", "B_spin", "B_wake"}

(***************************************************************************)
(* The unlocked read of lk_holder in lock_do_i_hold is right for its caller *)
(* at any moment, in lock_release's assertion and elsewhere: a thread sees  *)
(* itself as the holder exactly while it owns the lock, and the count       *)
(* agrees.                                                                  *)
(***************************************************************************)
DoIHoldExact ==
  /\ \A t \in Threads : lock_do_i_hold(t) <=> pc[t] \in Owning
  /\ lk_count = 1 <=> lk_holder = NULL

(***************************************************************************)
(* No thread that wants the lock sleeps past its release by lock_release or *)
(* by cv_wait: when the lock is free and threads sleep on it, one thread is *)
(* about to take it or about to wake a sleeper, although the woken thread   *)
(* may find the lock taken again and go back to sleep.  Each channel holds  *)
(* exactly the threads that sleep on it, each once.                         *)
(***************************************************************************)
NoSleepPastRelease ==
  /\ Lists(lk_wchan, {t \in Threads : pc[t] = "L_asleep"})
  /\ Lists(cv_wchan, {t \in Threads : pc[t] = "cv_asleep"})
  /\ lk_count = 1 /\ lk_wchan # <<>> =>
       \E t \in Threads : pc[t] \in {"A_spin", "A_test", "R_wake", "WR_wake"}

\* A free lock that somebody waits for in lock_acquire is taken eventually.
LockIsTaken ==
  (lk_count = 1 /\ \E t \in Threads : pc[t] \in {"A_spin", "A_test", "L_asleep"}) ~> (lk_count = 0)

(***************************************************************************)
(* The nested spinlocks never block each other for good: a thread that      *)
(* calls cv_wait gets to sleep, and one that signals or broadcasts returns. *)
(* (That a woken thread gets a spinlock others take again and again is more *)
(* than the test-and-set loop guarantees.)                                  *)
(***************************************************************************)
CvCallsComplete ==
  \A t \in Threads :
    /\ (pc[t] = "W_spin") ~> (pc[t] = "cv_asleep")
    /\ (pc[t] \in {"S_spin", "B_spin"}) ~> (pc[t] = "own")

(***************************************************************************)
(* A thread waits from the moment its cv_wait gives up the lock.  If it is  *)
(* not on the channel yet it has cv_lock, so nobody can signal past it.     *)
(***************************************************************************)
waiting ==
  IF cv_lock # NULL /\ pc[cv_lock] \in {"WR_wake", "W_sleep"}
    THEN wchan_sleep(cv_wchan, cv_lock)
    ELSE cv_wchan

Mon == INSTANCE Monitor WITH owner <- lk_holder

\* The lock and the condition variable implement the monitor.
ImplementsMonitor == Mon!Spec
=============================================================================
