------------------------------ MODULE OpenFile ------------------------------
(***************************************************************************)
(* Open files and file tables: kern/syscall/openfile.c, filetable.c and     *)
(* file_syscalls.c, with the copy of a table in fork, its destruction in    *)
(* exit, and the standard descriptors runprogram opens.                     *)
(*                                                                         *)
(* A file table belongs to one process and needs no lock; the open files    *)
(* in it are shared by fork and dup2.  A step is one access to shared state *)
(* (a change of of_refcount under its spinlock, a hold of of_offsetlock)    *)
(* with the private work around it.  The vnode is abstracted to whether it  *)
(* is seekable.  A call that returns an error before it touches an open     *)
(* file changes nothing and is no step.                                     *)
(***************************************************************************)
EXTENDS Integers, FiniteSets

CONSTANTS
  Procs,       \* user processes
  Files,       \* memory for struct openfile
  OPEN_MAX,    \* size of a file table (128)
  STD_FDS,     \* the descriptors open_stdfds opens (3)
  MaxOffset,   \* bound on seek positions
  NULL

ASSUME SizeAssumption ==
  /\ OPEN_MAX \in Nat \ {0} /\ STD_FDS \in 0..OPEN_MAX /\ MaxOffset \in Nat
  /\ IsFiniteSet(Procs)
ASSUME NullAssumption == NULL \notin Procs \cup Files

Fds == 0..(OPEN_MAX - 1)

VARIABLES
  of_refcount,     \* per file; 0: the structure is not allocated
  of_offset,
  of_offsetlock,   \* the process that holds it, or NULL
  seekable,        \* VOP_ISSEEKABLE of the file's vnode
  ft,              \* p_filetable: for each process the array ft_openfiles
  pc,              \* where each process is
  file,            \* local variable: the file the call works on
  tbl,             \* the process whose table is copied to or destroyed
  fd,              \* the descriptor of the call, or of the loop over the table
  pos              \* the position read under the lock

filevars == <<of_refcount, of_offset, of_offsetlock, seekable>>
procvars == <<ft, pc, file, tbl, fd, pos>>
vars == <<filevars, procvars>>

Init ==
  /\ of_refcount = [f \in Files |-> 0]
  /\ of_offset = [f \in Files |-> 0]
  /\ of_offsetlock = [f \in Files |-> NULL]
  /\ seekable = [f \in Files |-> FALSE]
  /\ ft = [p \in Procs |-> [d \in Fds |-> NULL]]
  /\ pc = [p \in Procs |-> "none"]
  /\ file = [p \in Procs |-> NULL]
  /\ tbl = [p \in Procs |-> p]
  /\ fd = [p \in Procs |-> 0]
  /\ pos = [p \in Procs |-> 0]

----------------------------------------------------------------------------
Goto(p, to) == pc' = [pc EXCEPT ![p] = to]

\* A failed assertion; the process hangs.
Panic(p) == Goto(p, "panic") /\ UNCHANGED <<filevars, ft, file, tbl, fd, pos>>

\* Back to user mode, the local variables gone.
Return(p) ==
  /\ Goto(p, "user")
  /\ file' = [file EXCEPT ![p] = NULL]
  /\ fd' = [fd EXCEPT ![p] = 0]
  /\ pos' = [pos EXCEPT ![p] = 0]

\* filetable_put at the end of a call: the file must still be in the table.
PutAndReturn(p) ==
  IF ft[p][fd[p]] = file[p]
    THEN Return(p)
    ELSE Goto(p, "panic") /\ UNCHANGED <<file, fd, pos>>

\* openfile_open: vfs_open, then openfile_create in memory kmalloc finds free.
openfile_open(f, seek) ==
  /\ of_refcount[f] = 0
  /\ of_refcount' = [of_refcount EXCEPT ![f] = 1]
  /\ of_offset' = [of_offset EXCEPT ![f] = 0]
  /\ of_offsetlock' = [of_offsetlock EXCEPT ![f] = NULL]
  /\ seekable' = [seekable EXCEPT ![f] = seek]

openfile_incref(f) == of_refcount' = [of_refcount EXCEPT ![f] = @ + 1]

(***************************************************************************)
(* openfile_decref.  The last reference is not counted down: the spinlock   *)
(* is released first, and the file is destroyed in a step of its own.       *)
(***************************************************************************)
DecrefFrom == {"decref", "wipe_decref"}

\* What follows openfile_decref: the end of the call, or the loop of filetable_destroy.
AfterDecref(p) ==
  IF pc[p] \in {"decref", "destroy"}
    THEN Return(p)
    ELSE Goto(p, "wipe_null") /\ UNCHANGED <<file, fd, pos>>

openfile_decref(p) ==
  LET f == file[p] IN
  /\ pc[p] \in DecrefFrom
  /\ \/ /\ of_refcount[f] = 1
        /\ Goto(p, IF pc[p] = "decref" THEN "destroy" ELSE "wipe_destroy")
        /\ UNCHANGED <<filevars, ft, file, tbl, fd, pos>>
     \/ /\ of_refcount[f] > 1
        /\ of_refcount' = [of_refcount EXCEPT ![f] = @ - 1]
        /\ AfterDecref(p)
        /\ UNCHANGED <<of_offset, of_offsetlock, seekable, ft, tbl>>
     \/ of_refcount[f] < 1 /\ Panic(p)

\* openfile_destroy: lock_destroy asserts that nobody sleeps for the lock.
openfile_destroy(p) ==
  LET f == file[p] IN
  /\ pc[p] \in {"destroy", "wipe_destroy"}
  /\ IF \A q \in Procs : ~(pc[q] \in {"rw_lock", "lseek_lock"} /\ file[q] = f)
       THEN /\ of_refcount' = [of_refcount EXCEPT ![f] = 0]
            /\ AfterDecref(p)
            /\ UNCHANGED <<of_offset, of_offsetlock, seekable, ft, tbl>>
       ELSE Panic(p)

----------------------------------------------------------------------------
(***************************************************************************)
(* runprogram in a new process: a file table, then open_stdfds, which       *)
(* asserts that each slot is empty.  con: is not seekable.  When an open    *)
(* fails, the process exits.                                                *)
(***************************************************************************)
runprogram(p) ==
  /\ pc[p] = "none"
  /\ Goto(p, "stdfds")
  /\ UNCHANGED <<filevars, ft, file, tbl, fd, pos>>

placed_open(p) ==
  /\ pc[p] = "stdfds" /\ fd[p] < STD_FDS
  /\ IF ft[p][fd[p]] = NULL
       THEN \E f \in Files :
              /\ openfile_open(f, FALSE)
              /\ ft' = [ft EXCEPT ![p][fd[p]] = f]
              /\ fd' = [fd EXCEPT ![p] = @ + 1]
              /\ UNCHANGED <<pc, file, tbl, pos>>
       ELSE Panic(p)

StdfdsDone(p) ==
  /\ pc[p] = "stdfds"
  /\ \/ fd[p] = STD_FDS /\ Goto(p, "user")
     \/ fd[p] < STD_FDS /\ Goto(p, "wipe")
  /\ fd' = [fd EXCEPT ![p] = 0]
  /\ UNCHANGED <<filevars, ft, file, tbl, pos>>

\* sys_open up to filetable_place.
sys_open(p) ==
  /\ pc[p] = "user"
  /\ \E f \in Files, seek \in BOOLEAN :
       openfile_open(f, seek) /\ file' = [file EXCEPT ![p] = f]
  /\ Goto(p, "place")
  /\ UNCHANGED <<ft, tbl, fd, pos>>

\* filetable_place takes the smallest descriptor; with none free the file is closed again.
filetable_place(p) ==
  /\ pc[p] = "place"
  /\ \/ \E d \in Fds :
          /\ ft[p][d] = NULL
          /\ \A e \in Fds : e < d => ft[p][e] # NULL
          /\ ft' = [ft EXCEPT ![p][d] = file[p]]
          /\ Return(p)
          /\ UNCHANGED <<filevars, tbl>>
     \/ /\ \A d \in Fds : ft[p][d] # NULL
        /\ Goto(p, "decref")
        /\ UNCHANGED <<filevars, ft, file, tbl, fd, pos>>

sys_close(p, d) ==
  /\ pc[p] = "user" /\ ft[p][d] # NULL
  /\ file' = [file EXCEPT ![p] = ft[p][d]]
  /\ ft' = [ft EXCEPT ![p][d] = NULL]
  /\ Goto(p, "decref")
  /\ UNCHANGED <<filevars, tbl, fd, pos>>

\* Mutant: the second descriptor has no reference of its own.
sys_dup2_NoIncref(p, oldfd, newfd) ==
  /\ pc[p] = "user" /\ oldfd # newfd /\ ft[p][oldfd] # NULL
  /\ file' = [file EXCEPT ![p] = ft[p][oldfd]]
  /\ fd' = [fd EXCEPT ![p] = newfd]
  /\ Goto(p, "dup_place")
  /\ UNCHANGED <<filevars, ft, tbl, pos>>

\* sys_dup2: a reference for the new descriptor, then the file that was there goes.
sys_dup2(p, oldfd, newfd) ==
  /\ pc[p] = "user" /\ oldfd # newfd /\ ft[p][oldfd] # NULL
  /\ openfile_incref(ft[p][oldfd])
  /\ file' = [file EXCEPT ![p] = ft[p][oldfd]]
  /\ fd' = [fd EXCEPT ![p] = newfd]
  /\ Goto(p, "dup_place")
  /\ UNCHANGED <<of_offset, of_offsetlock, seekable, ft, tbl, pos>>

Dup2Place(p) ==
  LET newfdfile == ft[p][fd[p]] IN
  /\ pc[p] = "dup_place"
  /\ ft' = [ft EXCEPT ![p][fd[p]] = file[p]]
  /\ IF newfdfile = NULL
       THEN Return(p)
       ELSE Goto(p, "decref") /\ file' = [file EXCEPT ![p] = newfdfile] /\ UNCHANGED <<fd, pos>>
  /\ UNCHANGED <<filevars, tbl>>

----------------------------------------------------------------------------
(***************************************************************************)
(* sys_readwrite.  The lock is held from the read of of_offset, across      *)
(* VOP_READ or VOP_WRITE, to the write of the new offset; on an error       *)
(* (badaccmode, or the vnode's) the offset stays.                           *)
(***************************************************************************)
filetable_get(p, d, to) ==
  /\ pc[p] = "user" /\ ft[p][d] # NULL
  /\ file' = [file EXCEPT ![p] = ft[p][d]]
  /\ fd' = [fd EXCEPT ![p] = d]
  /\ Goto(p, to)
  /\ UNCHANGED <<filevars, ft, tbl, pos>>

sys_readwrite(p, d) ==
  filetable_get(p, d, IF seekable[ft[p][d]] THEN "rw_lock" ELSE "rw_nolock")

sys_lseek(p, d) ==
  ft[p][d] # NULL /\ seekable[ft[p][d]] /\ filetable_get(p, d, "lseek_lock")

\* Mutant: of_offset is used without waiting for of_offsetlock.
LockOffset_NoWait(p, from, to) ==
  /\ pc[p] = from
  /\ of_offsetlock' = [of_offsetlock EXCEPT ![file[p]] = p]
  /\ pos' = [pos EXCEPT ![p] = of_offset[file[p]]]
  /\ Goto(p, to)
  /\ UNCHANGED <<of_refcount, of_offset, seekable, ft, file, tbl, fd>>

LockOffset(p, from, to) ==
  /\ pc[p] = from
  /\ of_offsetlock[file[p]] = NULL
  /\ of_offsetlock' = [of_offsetlock EXCEPT ![file[p]] = p]
  /\ pos' = [pos EXCEPT ![p] = of_offset[file[p]]]
  /\ Goto(p, to)
  /\ UNCHANGED <<of_refcount, of_offset, seekable, ft, file, tbl, fd>>

\* The new offset, or the old one after an error; then release the lock.
UnlockOffset(p, newpos) ==
  /\ of_offset' = [of_offset EXCEPT ![file[p]] = newpos]
  /\ of_offsetlock' = [of_offsetlock EXCEPT ![file[p]] = NULL]
  /\ PutAndReturn(p)
  /\ UNCHANGED <<of_refcount, seekable, ft, tbl>>

RwLock(p) == LockOffset(p, "rw_lock", "rw_io")

RwDone(p) ==
  /\ pc[p] = "rw_io"
  /\ \/ \E newpos \in pos[p]..MaxOffset : UnlockOffset(p, newpos)
     \/ UnlockOffset(p, of_offset[file[p]])

RwNolock(p) ==
  /\ pc[p] = "rw_nolock"
  /\ PutAndReturn(p)
  /\ UNCHANGED <<filevars, ft, tbl>>

LseekLock(p) == LockOffset(p, "lseek_lock", "lseek_stat")

\* SEEK_SET, SEEK_CUR and SEEK_END reach every position; a negative one is refused.
LseekDone(p) ==
  /\ pc[p] = "lseek_stat"
  /\ \/ \E newpos \in 0..MaxOffset : UnlockOffset(p, newpos)
     \/ UnlockOffset(p, of_offset[file[p]])

----------------------------------------------------------------------------
\* sys_fork: the child's table is filled entry by entry.
sys_fork(p, q) ==
  /\ pc[p] = "user" /\ pc[q] = "none"
  /\ tbl' = [tbl EXCEPT ![p] = q]
  /\ pc' = [pc EXCEPT ![p] = "fork", ![q] = "embryo"]
  /\ UNCHANGED <<filevars, ft, file, fd, pos>>

\* Mutant: fork shares the files without taking references.
filetable_copy_NoIncref(p) ==
  /\ pc[p] = "fork" /\ fd[p] < OPEN_MAX
  /\ ft' = [ft EXCEPT ![tbl[p]][fd[p]] = ft[p][fd[p]]]
  /\ fd' = [fd EXCEPT ![p] = @ + 1]
  /\ UNCHANGED <<filevars, pc, file, tbl, pos>>

filetable_copy(p) ==
  LET f == ft[p][fd[p]] IN
  /\ pc[p] = "fork" /\ fd[p] < OPEN_MAX
  /\ IF f # NULL THEN openfile_incref(f) ELSE UNCHANGED of_refcount
  /\ ft' = [ft EXCEPT ![tbl[p]][fd[p]] = f]
  /\ fd' = [fd EXCEPT ![p] = @ + 1]
  /\ UNCHANGED <<of_offset, of_offsetlock, seekable, pc, file, tbl, pos>>

\* thread_fork starts the child, or fails and proc_unfork destroys the copy.
ForkDone(p) ==
  /\ pc[p] = "fork" /\ fd[p] = OPEN_MAX
  /\ fd' = [fd EXCEPT ![p] = 0]
  /\ \/ /\ pc' = [pc EXCEPT ![p] = "user", ![tbl[p]] = "user"]
        /\ tbl' = [tbl EXCEPT ![p] = p]
     \/ Goto(p, "wipe") /\ UNCHANGED tbl
  /\ UNCHANGED <<filevars, ft, file, pos>>

\* sys__exit, as far as proc_destroy.
sys__exit(p) ==
  /\ pc[p] = "user"
  /\ Goto(p, "wipe")
  /\ UNCHANGED <<filevars, ft, file, tbl, fd, pos>>

\* filetable_destroy: a slot is cleared after the reference in it is dropped.
filetable_destroy(p) ==
  LET f == ft[tbl[p]][fd[p]] IN
  /\ pc[p] = "wipe" /\ fd[p] < OPEN_MAX
  /\ IF f = NULL
       THEN fd' = [fd EXCEPT ![p] = @ + 1] /\ UNCHANGED <<pc, file>>
       ELSE Goto(p, "wipe_decref") /\ file' = [file EXCEPT ![p] = f] /\ UNCHANGED fd
  /\ UNCHANGED <<filevars, ft, tbl, pos>>

WipeNull(p) ==
  /\ pc[p] = "wipe_null"
  /\ ft' = [ft EXCEPT ![tbl[p]][fd[p]] = NULL]
  /\ fd' = [fd EXCEPT ![p] = @ + 1]
  /\ file' = [file EXCEPT ![p] = NULL]
  /\ Goto(p, "wipe")
  /\ UNCHANGED <<filevars, tbl, pos>>

\* The process is gone, or the parent of the failed fork returns.
WipeDone(p) ==
  /\ pc[p] = "wipe" /\ fd[p] = OPEN_MAX
  /\ pc' = [pc EXCEPT ![p] = "user", ![tbl[p]] = "none"]
  /\ fd' = [fd EXCEPT ![p] = 0]
  /\ tbl' = [tbl EXCEPT ![p] = p]
  /\ UNCHANGED <<filevars, ft, file, pos>>

----------------------------------------------------------------------------
ProcStep(p) ==
  \/ runprogram(p) \/ placed_open(p) \/ StdfdsDone(p)
  \/ sys_open(p) \/ filetable_place(p)
  \/ \E d \in Fds : sys_close(p, d) \/ sys_readwrite(p, d) \/ sys_lseek(p, d)
  \/ \E oldfd, newfd \in Fds : sys_dup2(p, oldfd, newfd)
  \/ Dup2Place(p)
  \/ openfile_decref(p) \/ openfile_destroy(p)
  \/ RwLock(p) \/ RwDone(p) \/ RwNolock(p) \/ LseekLock(p) \/ LseekDone(p)
  \/ \E q \in Procs : sys_fork(p, q)
  \/ filetable_copy(p) \/ ForkDone(p)
  \/ sys__exit(p) \/ filetable_destroy(p) \/ WipeNull(p) \/ WipeDone(p)

Next == \E p \in Procs : ProcStep(p)

Spec == Init /\ [][Next]_vars

----------------------------------------------------------------------------
(***************************************************************************)
(* No assertion fails: filetable_put finds its file in the table,           *)
(* openfile_decref finds a reference to drop, open_stdfds an empty table,   *)
(* and lock_destroy a lock nobody sleeps for.                               *)
(***************************************************************************)
NoPanic == \A p \in Procs : pc[p] # "panic"

(***************************************************************************)
(* of_refcount counts the references there are: the slots of the file       *)
(* tables, except one that filetable_destroy has dropped and is about to    *)
(* clear, and those a call holds between two of its steps.  A file is freed *)
(* exactly when the last reference goes: never early, never leaked.         *)
(***************************************************************************)
Dropped(p, d) == \E q \in Procs : pc[q] = "wipe_null" /\ tbl[q] = p /\ fd[q] = d

Slots(f) == {s \in Procs \X Fds : ft[s[1]][s[2]] = f /\ ~Dropped(s[1], s[2])}

Carried(f) == {p \in Procs : pc[p] \in {"place", "dup_place", "decref", "destroy"} /\ file[p] = f}

RefcountExact ==
  \A f \in Files : of_refcount[f] = Cardinality(Slots(f)) + Cardinality(Carried(f))

(***************************************************************************)
(* The offset lock works although the file is shared: it is held by a       *)
(* process between its two steps and by nobody else, on a file that is      *)
(* still allocated, and the position that process read is still the         *)
(* file's: no other read, write or lseek is lost or overwritten.  No offset *)
(* is negative.                                                             *)
(***************************************************************************)
InOffsetSection(p) == pc[p] \in {"rw_io", "lseek_stat"}

OffsetNotStale ==
  /\ \A p \in Procs :
       InOffsetSection(p) =>
         /\ of_offsetlock[file[p]] = p
         /\ of_refcount[file[p]] > 0
         /\ pos[p] = of_offset[file[p]]
  /\ \A f \in Files : of_offset[f] >= 0
  /\ \A f \in Files :
       of_refcount[f] > 0 /\ of_offsetlock[f] # NULL =>
         InOffsetSection(of_offsetlock[f]) /\ file[of_offsetlock[f]] = f
=============================================================================
