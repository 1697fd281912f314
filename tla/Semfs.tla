------------------------------- MODULE Semfs --------------------------------
(***************************************************************************)
(* semfs, kern/fs/semfs: semaphores that user programs reach as files of    *)
(* "sem:".  A directory maps names to semaphore numbers (under              *)
(* semfs_dirlock), a table maps numbers to semaphores and another lists the *)
(* vnodes (under semfs_tablelock), and a semaphore has a lock and a CV.     *)
(* Sleep locks and CVs are atomic, as CondVar shows; what is done without   *)
(* the lock that guards it is a step of its own.                            *)
(***************************************************************************)
EXTENDS Integers, Sequences, FiniteSets, FiniteSetsExt

CONSTANTS
  Threads,
  NULL,
  Names,
  NSems,       \* bound: semaphores created
  CountMax,    \* the largest unsigned
  MaxOps,      \* bound: calls of all threads
  Failures     \* bound: allocations that fail

VARIABLES
  semfs_dents,   \* name -> semaphore number, 0 for none
  semfs_sems,    \* number -> semaphore, 0 for none
  semfs_vnodes,  \* number -> references of its vnode, 0 when there is no vnode
  sem,           \* the semaphores ever created
  dirlock,
  tablelock,
  th,            \* a thread: where it is, what it has open, the semaphore at hand, tokens wanted
  ops, failures

vars == <<semfs_dents, semfs_sems, semfs_vnodes, sem, dirlock, tablelock, th, ops, failures>>
tables == <<semfs_dents, semfs_sems, semfs_vnodes>>

Sems == 1..NSems
Fresh == {s \in Sems : sem[s].st = "none"}

\* semfs_sem_create.
NewSem(st) == [st |-> st, count |-> 0, hasvnode |-> FALSE, linked |-> FALSE, lock |-> NULL, cv |-> <<>>]

Init ==
  /\ semfs_dents = [n \in Names |-> 0]
  /\ semfs_sems = [k \in Sems |-> 0]
  /\ semfs_vnodes = [k \in Sems |-> 0]
  /\ sem = [s \in Sems |-> NewSem("none")]
  /\ dirlock = NULL /\ tablelock = NULL
  /\ th = [t \in Threads |-> [at |-> "idle", open |-> 0, name |-> NULL, sem |-> 0, want |-> 0]]
  /\ ops = 0 /\ failures = 0

At(t, at) == th[t].at = at
Goto(t, at) == th' = [th EXCEPT ![t].at = at]
Call == ops < MaxOps /\ ops' = ops + 1 /\ UNCHANGED failures
NoCall == UNCHANGED <<ops, failures>>
Done(t) == [th[t] EXCEPT !.at = "idle", !.name = NULL, !.sem = 0, !.want = 0]

----------------------------------------------------------------------------
\* Opening.  semfs_creat holds the directory lock from the search to the entry.

vfs_open(t, name) ==
  /\ At(t, "idle") /\ th[t].open = 0 /\ dirlock = NULL
  /\ Call
  /\ dirlock' = t
  /\ th' = [th EXCEPT ![t] = [@ EXCEPT !.at = "creat", !.name = name]]
  /\ UNCHANGED <<tables, sem, tablelock>>

(***************************************************************************)
(* semfs_getvnode, in one section of the table lock: one more reference to  *)
(* the vnode of number k, or its first.                                     *)
(***************************************************************************)
semfs_getvnode(k) ==
  /\ tablelock = NULL
  /\ semfs_vnodes' = [semfs_vnodes EXCEPT ![k] = @ + 1]

(***************************************************************************)
(* The name is there, or a semaphore is made and put into table and         *)
(* directory, or nothing comes of it: EEXIST, ENOENT from semfs_lookup      *)
(* (which is the first alternative otherwise), or no memory.  Without       *)
(* memory for the entry semfs_creat returns 0 and no vnode, which vfs_open  *)
(* asserts it has.                                                          *)
(***************************************************************************)
semfs_creat(t) ==
  LET k == semfs_dents[th[t].name]
      s == Min(Fresh)
      n == Min({j \in Sems : semfs_sems[j] = 0}) IN
  /\ At(t, "creat")
  /\ \/ /\ k # 0
        /\ semfs_getvnode(k)
        /\ sem' = [sem EXCEPT ![semfs_sems[k]].hasvnode = TRUE]
        /\ th' = [th EXCEPT ![t] = [Done(t) EXCEPT !.open = k]]
        /\ dirlock' = NULL
        /\ UNCHANGED <<semfs_dents, semfs_sems>>
     \/ /\ k = 0 /\ Fresh # {} /\ tablelock = NULL
        /\ sem' = [sem EXCEPT ![s] = NewSem("live")]
        /\ semfs_sems' = [semfs_sems EXCEPT ![n] = s]
        /\ semfs_dents' = [semfs_dents EXCEPT ![th[t].name] = n]
        /\ th' = [th EXCEPT ![t] = [@ EXCEPT !.at = "made", !.sem = s]]
        /\ UNCHANGED <<semfs_vnodes, dirlock>>
     \/ /\ \E at \in IF k = 0 THEN {"idle", "panic"} ELSE {"idle"} :
             th' = [th EXCEPT ![t] = [Done(t) EXCEPT !.at = at]]
        /\ dirlock' = NULL
        /\ UNCHANGED <<tables, sem>>
  /\ NoCall /\ UNCHANGED tablelock

\* The new semaphore gets its vnode, and only then counts as linked; a failure undoes it all.
semfs_creat_vnode(t) ==
  LET k == semfs_dents[th[t].name] IN
  /\ At(t, "made") /\ tablelock = NULL
  /\ dirlock' = NULL
  /\ \/ /\ semfs_getvnode(k)
        /\ sem' = [sem EXCEPT ![th[t].sem].hasvnode = TRUE, ![th[t].sem].linked = TRUE]
        /\ th' = [th EXCEPT ![t] = [Done(t) EXCEPT !.open = k]]
        /\ UNCHANGED <<semfs_dents, semfs_sems, failures>>
     \/ /\ failures < Failures /\ failures' = failures + 1
        /\ semfs_dents' = [semfs_dents EXCEPT ![th[t].name] = 0]
        /\ semfs_sems' = [semfs_sems EXCEPT ![k] = 0]
        /\ sem' = [sem EXCEPT ![th[t].sem].st = "destroyed"]
        /\ th' = [th EXCEPT ![t] = Done(t)]
        /\ UNCHANGED semfs_vnodes
  /\ UNCHANGED <<tablelock, ops>>

----------------------------------------------------------------------------
\* Closing: vnode_decref, then semfs_reclaim if the count may have reached zero.

vfs_close(t) ==
  LET k == th[t].open IN
  /\ At(t, "idle") /\ k # 0
  /\ Call
  /\ IF semfs_vnodes[k] > 1
       THEN /\ semfs_vnodes' = [semfs_vnodes EXCEPT ![k] = @ - 1]
            /\ th' = [th EXCEPT ![t].open = 0]
       ELSE /\ Goto(t, "reclaim")
            /\ UNCHANGED semfs_vnodes
  /\ UNCHANGED <<semfs_dents, semfs_sems, sem, dirlock, tablelock>>

\* Under the table lock the count is read again; the vnode goes, and the semaphore has none.
semfs_reclaim(t) ==
  LET k == th[t].open IN
  /\ At(t, "reclaim") /\ tablelock = NULL
  /\ semfs_vnodes' = [semfs_vnodes EXCEPT ![k] = @ - 1]
  /\ IF semfs_vnodes[k] > 1
       THEN /\ th' = [th EXCEPT ![t] = [Done(t) EXCEPT !.open = 0]]
            /\ UNCHANGED <<sem, tablelock>>
       ELSE /\ sem' = [sem EXCEPT ![semfs_sems[k]].hasvnode = FALSE]
            /\ tablelock' = t
            /\ th' = [th EXCEPT ![t] = [@ EXCEPT !.at = "reclaim_sem", !.sem = semfs_sems[k]]]
  /\ NoCall /\ UNCHANGED <<semfs_dents, semfs_sems, dirlock>>

\* semfs_sem_destroy; a second time is undefined behaviour.
Destroyed(s) == IF sem[s].st = "live" THEN "destroyed" ELSE "destroyed twice"

\* sems_linked is read without the semaphore's lock.
semfs_reclaim_sem(t) ==
  LET k == th[t].open
      s == th[t].sem IN
  /\ At(t, "reclaim_sem")
  /\ IF ~sem[s].linked
       THEN /\ semfs_sems' = [semfs_sems EXCEPT ![k] = 0]
            /\ sem' = [sem EXCEPT ![s].st = Destroyed(s)]
       ELSE UNCHANGED <<semfs_sems, sem>>
  /\ tablelock' = NULL
  /\ th' = [th EXCEPT ![t] = [Done(t) EXCEPT !.open = 0]]
  /\ NoCall /\ UNCHANGED <<semfs_dents, semfs_vnodes, dirlock>>

----------------------------------------------------------------------------
\* Removing, with the directory lock throughout.

semfs_remove(t, name) ==
  LET k == semfs_dents[name] IN
  /\ At(t, "idle") /\ dirlock = NULL /\ tablelock = NULL
  /\ k # 0
  /\ Call
  /\ dirlock' = t
  /\ th' = [th EXCEPT ![t] = [@ EXCEPT !.at = "unlink", !.name = name, !.sem = semfs_sems[k]]]
  /\ UNCHANGED <<tables, sem, tablelock>>

semfs_remove_unlink(t) ==
  LET s == th[t].sem IN
  /\ At(t, "unlink") /\ sem[s].lock = NULL
  /\ sem' = [sem EXCEPT ![s].lock = t, ![s].linked = FALSE]
  /\ Goto(t, "unlinked")
  /\ NoCall /\ UNCHANGED <<tables, dirlock, tablelock>>

\* sems_hasvnode is read without the table lock, perhaps in memory that has been freed.
semfs_remove_test(t) ==
  LET s == th[t].sem IN
  /\ At(t, "unlinked")
  /\ \E hasvnode \in IF sem[s].st = "live" THEN {sem[s].hasvnode} ELSE BOOLEAN :
       IF hasvnode
         THEN /\ Goto(t, "removed")
              /\ sem' = [sem EXCEPT ![s].lock = NULL]
         ELSE Goto(t, "destroy") /\ UNCHANGED sem
  /\ NoCall /\ UNCHANGED <<tables, dirlock, tablelock>>

semfs_remove_destroy(t) ==
  LET s == th[t].sem IN
  /\ At(t, "destroy") /\ tablelock = NULL
  /\ semfs_sems' = [semfs_sems EXCEPT ![semfs_dents[th[t].name]] = 0]
  /\ sem' = [sem EXCEPT ![s].lock = NULL, ![s].st = Destroyed(s)]
  /\ Goto(t, "removed")
  /\ NoCall /\ UNCHANGED <<semfs_dents, semfs_vnodes, dirlock, tablelock>>

semfs_remove_done(t) ==
  /\ At(t, "removed")
  /\ semfs_dents' = [semfs_dents EXCEPT ![th[t].name] = 0]
  /\ dirlock' = NULL
  /\ th' = [th EXCEPT ![t] = Done(t)]
  /\ NoCall /\ UNCHANGED <<semfs_sems, semfs_vnodes, sem, tablelock>>

----------------------------------------------------------------------------
\* P and V on an open semaphore.  semfs_getsem reads the table under its lock.

SemCall(t, at, n) ==
  /\ At(t, "idle") /\ th[t].open # 0 /\ tablelock = NULL
  /\ Call
  /\ th' = [th EXCEPT ![t] = [@ EXCEPT !.at = at, !.sem = semfs_sems[th[t].open], !.want = n]]
  /\ UNCHANGED <<tables, sem, dirlock, tablelock>>

(***************************************************************************)
(* semfs_read with sems_lock held, from the start or from the return of     *)
(* cv_wait to the end or to the next cv_wait: it takes what there is and    *)
(* waits for the rest.                                                      *)
(***************************************************************************)
semfs_read(t) ==
  LET s == th[t].sem
      consume == Min({th[t].want, sem[s].count})
      rest == th[t].want - consume IN
  /\ At(t, "read") /\ sem[s].lock = NULL
  /\ sem' = [sem EXCEPT ![s].count = @ - consume, ![s].cv = IF rest > 0 THEN Append(@, t) ELSE @]
  /\ th' = [th EXCEPT ![t] = IF rest = 0 THEN Done(t) ELSE [@ EXCEPT !.at = "sleep", !.want = rest]]
  /\ NoCall /\ UNCHANGED <<tables, dirlock, tablelock>>

\* semfs_wakeup: the sleepers that are woken when the count becomes newcount.
semfs_wakeup(s, newcount) ==
  LET sleepers == {sem[s].cv[i] : i \in DOMAIN sem[s].cv} IN
  IF sem[s].count > 0 \/ newcount = 0 \/ sleepers = {} THEN {}
  ELSE IF newcount = 1 THEN {Head(sem[s].cv)} ELSE sleepers

SetCount(t, newcount) ==
  LET s == th[t].sem
      woken == semfs_wakeup(s, newcount) IN
  /\ sem' = [sem EXCEPT ![s].count = newcount, ![s].cv = SelectSeq(@, LAMBDA u : u \notin woken)]
  /\ th' = [u \in Threads |-> IF u = t THEN Done(t)
                              ELSE IF u \in woken THEN [th[u] EXCEPT !.at = "read"] ELSE th[u]]

\* semfs_write; a count that would wrap around is refused.
semfs_write(t) ==
  LET s == th[t].sem
      newcount == (sem[s].count + th[t].want) % (CountMax + 1) IN
  /\ At(t, "write") /\ sem[s].lock = NULL
  /\ IF newcount < sem[s].count
       THEN th' = [th EXCEPT ![t] = Done(t)] /\ UNCHANGED sem
       ELSE SetCount(t, newcount)
  /\ NoCall /\ UNCHANGED <<tables, dirlock, tablelock>>

semfs_truncate(t) ==
  /\ At(t, "truncate") /\ sem[th[t].sem].lock = NULL
  /\ SetCount(t, th[t].want)
  /\ NoCall /\ UNCHANGED <<tables, dirlock, tablelock>>

----------------------------------------------------------------------------
\* A failed assertion stops the kernel.
Next ==
  /\ \A t \in Threads : ~At(t, "panic")
  /\ \E t \in Threads :
    \/ \E name \in Names : vfs_open(t, name) \/ semfs_remove(t, name)
    \/ vfs_close(t)
    \/ \E n \in 1..2 : SemCall(t, "read", n) \/ SemCall(t, "write", n)
    \/ \E n \in 0..2 : SemCall(t, "truncate", n)
    \/ semfs_creat(t) \/ semfs_creat_vnode(t)
    \/ semfs_reclaim(t) \/ semfs_reclaim_sem(t)
    \/ semfs_remove_unlink(t) \/ semfs_remove_test(t) \/ semfs_remove_destroy(t) \/ semfs_remove_done(t)
    \/ semfs_read(t) \/ semfs_write(t) \/ semfs_truncate(t)

Spec == Init /\ [][Next]_vars

----------------------------------------------------------------------------
(***************************************************************************)
(* What semfs_wakeup relies on: with a positive count nobody sleeps, or a   *)
(* thread that has been woken is on its way and takes the count.            *)
(***************************************************************************)
NoStrandedReader ==
  \A s \in Sems :
    sem[s].count > 0 /\ sem[s].cv # <<>> => \E t \in Threads : At(t, "read") /\ th[t].sem = s

\* A semaphore that a thread has open is there, under the number its vnode has.
OpenSemLives ==
  \A t \in Threads :
    LET k == th[t].open IN
    /\ k # 0 /\ ~At(t, "reclaim_sem") => semfs_vnodes[k] > 0 /\ semfs_sems[k] # 0 /\ sem[semfs_sems[k]].st = "live"
    /\ th[t].sem # 0 /\ (At(t, "read") \/ At(t, "write") \/ At(t, "truncate") \/ At(t, "sleep")) => th[t].sem = semfs_sems[k]

DestroyedOnce == \A s \in Sems : sem[s].st # "destroyed twice"
=============================================================================
