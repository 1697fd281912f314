------------------------------ MODULE MCSynch -------------------------------
(***************************************************************************)
(* The primitives of kern/thread/synch.c for TLC.  They share no state, so  *)
(* a behaviour exercises either a semaphore or a lock with its condition    *)
(* variable.  Interrupt handlers keep to V: lock_acquire is not for them.   *)
(***************************************************************************)
EXTENDS Semaphore, CondVar

VARIABLE used   \* the primitive the threads use

MCInit ==
  /\ used \in {"semaphore", "monitor"}
  /\ Init /\ CvInit

UseSemaphore == used = "semaphore" /\ Next /\ UNCHANGED <<used, lockvars, cvars>>

UseMonitor ==
  /\ used = "monitor" /\ CvNext
  /\ \A h \in Handlers : pc'[h] = pc[h]
  /\ UNCHANGED <<used, sem_lock, sem_count, sem_wchan>>

MCVars == <<used, sem_lock, sem_count, sem_wchan, cvvars>>

MCSpec ==
  /\ MCInit /\ [][UseSemaphore \/ UseMonitor]_MCVars
  /\ \A t \in Threads : WF_cvvars(CvStep(t) \/ LockStep(t))
=============================================================================
