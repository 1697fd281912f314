--------------------------- MODULE OpenFileProofs ---------------------------
(***************************************************************************)
(* Theorems about open files, for any number of processes, files and        *)
(* descriptors: of_refcount counts the references there are, no assertion   *)
(* fails, and a position read under of_offsetlock is not stale.  The proof  *)
(* that the invariant FileInv is inductive goes by its parts: no assertion  *)
(* fails in a state of it, then the types and the ownership of the tables,  *)
(* the loops over a table, the locals of the calls, the offset sections and *)
(* the counting of references.                                              *)
(***************************************************************************)
EXTENDS OpenFile, TLAPS

----------------------------------------------------------------------------
\* The inductive invariant.

Waiting == {"rw_lock", "lseek_lock"}
Inside == {"rw_io", "lseek_stat"}
WithSlot == Waiting \cup Inside \cup {"rw_nolock"}
Carrying == {"place", "dup_place", "decref", "destroy"}
WipeFile == {"wipe_decref", "wipe_destroy"}
Wiping == WipeFile \cup {"wipe", "wipe_null"}
Plain == {"none", "embryo", "user"}

Labels == Plain \cup {"stdfds", "fork"} \cup WithSlot \cup Carrying \cup Wiping

FileTypeOK ==
  /\ of_refcount \in [Files -> Nat]
  /\ of_offset \in [Files -> Nat]
  /\ of_offsetlock \in [Files -> Procs \cup {NULL}]
  /\ seekable \in [Files -> BOOLEAN]

\* "panic" is not among the labels.
ProcTypeOK ==
  /\ ft \in [Procs -> [Fds -> Files \cup {NULL}]]
  /\ pc \in [Procs -> Labels]
  /\ file \in [Procs -> Files \cup {NULL}]
  /\ tbl \in [Procs -> Procs]
  /\ fd \in [Procs -> 0..OPEN_MAX]
  /\ pos \in [Procs -> Nat]

\* A table is worked on by its process, or by the parent while the child is an embryo.
TablesOwned ==
  /\ \A p \in Procs : tbl[p] # p => pc[p] \in Wiping \cup {"fork"} /\ pc[tbl[p]] = "embryo"
  /\ \A p, q \in Procs : pc[p] # "embryo" /\ pc[q] # "embryo" /\ tbl[p] = tbl[q] => p = q

\* The slots a loop over a table has not filled yet, or has cleared already.
LoopsKeepUp ==
  \A p \in Procs, d \in Fds :
    /\ pc[p] = "none" => ft[p][d] = NULL
    /\ pc[p] = "stdfds" /\ fd[p] <= d => ft[p][d] = NULL
    /\ pc[p] = "fork" /\ fd[p] <= d => ft[tbl[p]][d] = NULL
    /\ pc[p] \in Wiping /\ d < fd[p] => ft[tbl[p]][d] = NULL

\* What the local variables of a call refer to.
LocalsRight ==
  \A p \in Procs :
    /\ pc[p] = "fork" => tbl[p] # p
    /\ pc[p] \in Plain \cup {"place"} => fd[p] = 0
    /\ pc[p] \in WithSlot \cup Carrying \cup WipeFile => file[p] \in Files
    /\ pc[p] \in WithSlot \cup WipeFile \cup {"dup_place", "wipe_null"} => fd[p] \in Fds
    /\ pc[p] \in WithSlot => ft[p][fd[p]] = file[p]
    /\ pc[p] \in WipeFile => ft[tbl[p]][fd[p]] = file[p]
    /\ pc[p] \in {"destroy", "wipe_destroy"} => of_refcount[file[p]] = 1

FileInv ==
  /\ FileTypeOK /\ ProcTypeOK
  /\ TablesOwned /\ LoopsKeepUp /\ LocalsRight
  /\ RefcountExact /\ OffsetNotStale

----------------------------------------------------------------------------
\* What the proofs below need of RefcountExact: a reference counts, and two count as two.
CountsRefs ==
  \A f \in Files :
    /\ \A s \in Slots(f) : of_refcount[f] >= 1
    /\ \A p \in Carried(f) : of_refcount[f] >= 1
    /\ \A s, u \in Slots(f) : s # u => of_refcount[f] >= 2
    /\ \A p, q \in Carried(f) : p # q => of_refcount[f] >= 2
    /\ \A s \in Slots(f), p \in Carried(f) : of_refcount[f] >= 2

LEMMA Two_Refs ==
  ASSUME CountsRefs, NEW f \in Files
  PROVE  /\ \A s \in Slots(f) : of_refcount[f] >= 1
         /\ \A p \in Carried(f) : of_refcount[f] >= 1
         /\ \A s, u \in Slots(f) : s # u => of_refcount[f] >= 2
         /\ \A p, q \in Carried(f) : p # q => of_refcount[f] >= 2
         /\ \A s \in Slots(f), p \in Carried(f) : of_refcount[f] >= 2
BY Zenon DEF CountsRefs

\* A slot of a process that is not being wiped is a reference.
LEMMA Slot_Counts ==
  ASSUME TablesOwned, ProcTypeOK, NEW p \in Procs, NEW d \in Fds, ft[p][d] # NULL,
         pc[p] \notin Wiping \cup {"embryo"}
  PROVE  <<p, d>> \in Slots(ft[p][d]) /\ ft[p][d] \in Files /\ ~Dropped(p, d)
<1>1. ~Dropped(p, d)
  BY Zenon DEF Dropped, TablesOwned, Wiping
<1>2. ft[p][d] \in Files
  BY DEF ProcTypeOK
<1> QED BY <1>1, <1>2, Zenon DEF Slots

\* The slot filetable_destroy is about to drop is a reference, too.
LEMMA Wipe_Counts ==
  ASSUME TablesOwned, LocalsRight, ProcTypeOK, NEW p \in Procs, pc[p] \in WipeFile
  PROVE  <<tbl[p], fd[p]>> \in Slots(file[p]) /\ ~Dropped(tbl[p], fd[p])
<1>1. ~Dropped(tbl[p], fd[p])
  BY Zenon DEF Dropped, TablesOwned, WipeFile
<1>2. tbl[p] \in Procs /\ fd[p] \in Fds /\ ft[tbl[p]][fd[p]] = file[p]
  BY Zenon DEF ProcTypeOK, LocalsRight
<1> QED BY <1>1, <1>2, Zenon DEF Slots

\* A call's own reference.
LEMMA Carry_Counts ==
  ASSUME NEW p \in Procs, pc[p] \in Carrying
  PROVE  p \in Carried(file[p])
BY Zenon DEF Carried, Carrying

----------------------------------------------------------------------------
\* No assertion fails.

LEMMA Put_Safe ==
  ASSUME LocalsRight, NEW p \in Procs, pc[p] \in WithSlot, PutAndReturn(p)
  PROVE  Return(p)
BY Zenon DEF PutAndReturn, LocalsRight

LEMMA Decref_Safe ==
  ASSUME FileInv, CountsRefs, NEW p \in Procs, pc[p] \in DecrefFrom
  PROVE  file[p] \in Files /\ of_refcount[file[p]] >= 1
<1>1. file[p] \in Files
  BY Zenon DEF FileInv, LocalsRight, DecrefFrom, Carrying, WipeFile
<1>2. CASE pc[p] = "decref"
  BY <1>1, <1>2, Carry_Counts, Two_Refs, Zenon DEF FileInv, Carrying
<1>3. CASE pc[p] = "wipe_decref"
  BY <1>1, <1>3, Wipe_Counts, Two_Refs, Zenon DEF FileInv, WipeFile
<1> QED BY <1>1, <1>2, <1>3, Zenon DEF DecrefFrom

\* The last reference is the one being dropped: no other process has the file.
LEMMA Last_Ref ==
  ASSUME FileInv, CountsRefs, NEW p \in Procs, pc[p] \in {"destroy", "wipe_destroy"},
         NEW q \in Procs, pc[q] \in WithSlot
  PROVE  file[q] # file[p]
<1> SUFFICES ASSUME file[q] = file[p] PROVE FALSE
  OBVIOUS
<1>1. file[p] \in Files /\ of_refcount[file[p]] = 1
  BY Zenon DEF FileInv, LocalsRight, Carrying, WipeFile
<1>2. fd[q] \in Fds /\ ft[q][fd[q]] = file[p]
  BY Zenon DEF FileInv, LocalsRight
<1>3. <<q, fd[q]>> \in Slots(file[p])
  BY <1>1, <1>2, Slot_Counts, NullAssumption DEF FileInv, WithSlot, Waiting, Inside, Wiping, WipeFile
<1>4. CASE pc[p] = "destroy"
  BY <1>1, <1>3, <1>4, Carry_Counts, Two_Refs DEF FileInv, Carrying
<1>5. CASE pc[p] = "wipe_destroy"
  <2>1. <<tbl[p], fd[p]>> \in Slots(file[p])
    BY <1>5, Wipe_Counts, Zenon DEF FileInv, WipeFile
  <2>2. tbl[p] # q
    BY <1>5, Zenon DEF FileInv, TablesOwned, WithSlot, Waiting, Inside
  <2> QED BY <1>1, <1>3, <2>1, <2>2, Two_Refs DEF FileInv
<1> QED BY <1>4, <1>5, Zenon

\* The updates a step is made of keep the types.
LEMMA Descriptors ==
  /\ 0 \in 0..OPEN_MAX
  /\ \A d \in Fds : d \in 0..OPEN_MAX /\ d + 1 \in 0..OPEN_MAX
  /\ \A d \in 0..OPEN_MAX : d < OPEN_MAX \/ d < STD_FDS => d \in Fds
BY SizeAssumption DEF Fds

LEMMA Next_Fd ==
  ASSUME NEW d \in Fds, NEW e \in 0..OPEN_MAX
  PROVE  d < e + 1 => d < e \/ d = e
BY SizeAssumption DEF Fds

LEMMA Label_In == "none" \in Labels /\ "embryo" \in Labels /\ "user" \in Labels /\ "stdfds" \in Labels /\
                   "fork" \in Labels /\ "rw_lock" \in Labels /\ "lseek_lock" \in Labels /\ "rw_io" \in Labels /\
                   "lseek_stat" \in Labels /\ "rw_nolock" \in Labels /\ "place" \in Labels /\ "dup_place" \in Labels /\
                   "decref" \in Labels /\ "destroy" \in Labels /\ "wipe_decref" \in Labels /\ "wipe_destroy" \in Labels /\
                   "wipe" \in Labels /\ "wipe_null" \in Labels
BY Zenon DEF Labels, Plain, WithSlot, Waiting, Inside, Carrying, Wiping, WipeFile

LEMMA File_Update ==
  ASSUME FileTypeOK, NEW f \in Files
  PROVE  /\ \A n \in Nat : [of_refcount EXCEPT ![f] = n] \in [Files -> Nat]
         /\ \A n \in Nat : [of_offset EXCEPT ![f] = n] \in [Files -> Nat]
         /\ \A h \in Procs \cup {NULL} : [of_offsetlock EXCEPT ![f] = h] \in [Files -> Procs \cup {NULL}]
         /\ \A b \in BOOLEAN : [seekable EXCEPT ![f] = b] \in [Files -> BOOLEAN]
         /\ of_refcount[f] \in Nat /\ of_refcount[f] + 1 \in Nat /\ of_offset[f] \in Nat
BY DEF FileTypeOK

LEMMA Ft_Update ==
  ASSUME ProcTypeOK, NEW p \in Procs, NEW d \in Fds
  PROVE  /\ \A f \in Files \cup {NULL} : [ft EXCEPT ![p][d] = f] \in [Procs -> [Fds -> Files \cup {NULL}]]
         /\ ft[p][d] \in Files \cup {NULL}
<1> ft \in [Procs -> [Fds -> Files \cup {NULL}]]
  BY Zenon DEF ProcTypeOK
<1> QED OBVIOUS

LEMMA Pc_Update ==
  ASSUME ProcTypeOK, NEW p \in Procs
  PROVE  /\ \A x \in Labels : [pc EXCEPT ![p] = x] \in [Procs -> Labels]
         /\ \A q \in Procs, x, y \in Labels : [pc EXCEPT ![p] = x, ![q] = y] \in [Procs -> Labels]
<1> pc \in [Procs -> Labels]
  BY Zenon DEF ProcTypeOK
<1> QED OBVIOUS

LEMMA Local_Update ==
  ASSUME ProcTypeOK, NEW p \in Procs
  PROVE  /\ \A f \in Files \cup {NULL} : [file EXCEPT ![p] = f] \in [Procs -> Files \cup {NULL}]
         /\ \A q \in Procs : [tbl EXCEPT ![p] = q] \in [Procs -> Procs]
         /\ \A d \in 0..OPEN_MAX : [fd EXCEPT ![p] = d] \in [Procs -> 0..OPEN_MAX]
         /\ \A n \in Nat : [pos EXCEPT ![p] = n] \in [Procs -> Nat]
         /\ tbl[p] \in Procs /\ fd[p] \in 0..OPEN_MAX /\ file[p] \in Files \cup {NULL}
<1> /\ file \in [Procs -> Files \cup {NULL}]
    /\ tbl \in [Procs -> Procs]
    /\ fd \in [Procs -> 0..OPEN_MAX]
    /\ pos \in [Procs -> Nat]
  BY Zenon DEF ProcTypeOK
<1> QED OBVIOUS

----------------------------------------------------------------------------
\* The steps with the branches that the invariant rules out left away.

PlacedOpen(p) ==
  /\ pc[p] = "stdfds" /\ fd[p] < STD_FDS /\ ft[p][fd[p]] = NULL
  /\ \E f \in Files :
       /\ openfile_open(f, FALSE)
       /\ ft' = [ft EXCEPT ![p][fd[p]] = f]
       /\ fd' = [fd EXCEPT ![p] = @ + 1]
       /\ UNCHANGED <<pc, file, tbl, pos>>

GetFile(p) == \E d \in Fds, to \in Waiting \cup {"rw_nolock"} : filetable_get(p, d, to)

LastDrop(p) ==
  /\ \/ pc[p] = "decref" /\ Goto(p, "destroy")
     \/ pc[p] = "wipe_decref" /\ Goto(p, "wipe_destroy")
  /\ of_refcount[file[p]] = 1
  /\ UNCHANGED <<filevars, ft, file, tbl, fd, pos>>

Release(p) ==
  /\ pc[p] \in {"decref", "wipe_decref", "destroy", "wipe_destroy"}
  /\ pc[p] \in DecrefFrom => of_refcount[file[p]] > 1
  /\ of_refcount' = [of_refcount EXCEPT ![file[p]] = @ - 1]
  /\ AfterDecref(p)
  /\ UNCHANGED <<of_offset, of_offsetlock, seekable, ft, tbl>>

Enter(p) ==
  /\ pc[p] \in Waiting
  /\ of_offsetlock[file[p]] = NULL
  /\ of_offsetlock' = [of_offsetlock EXCEPT ![file[p]] = p]
  /\ pos' = [pos EXCEPT ![p] = of_offset[file[p]]]
  /\ \E to \in Inside : Goto(p, to)
  /\ UNCHANGED <<of_refcount, of_offset, seekable, ft, file, tbl, fd>>

Leave(p) ==
  /\ pc[p] \in Inside
  /\ \E n \in Nat : of_offset' = [of_offset EXCEPT ![file[p]] = n]
  /\ of_offsetlock' = [of_offsetlock EXCEPT ![file[p]] = NULL]
  /\ Return(p)
  /\ UNCHANGED <<of_refcount, seekable, ft, tbl>>

PutFile(p) == pc[p] = "rw_nolock" /\ Return(p) /\ UNCHANGED <<filevars, ft, tbl>>

SafeStep(p) ==
  \/ runprogram(p) \/ PlacedOpen(p) \/ StdfdsDone(p) \/ sys_open(p) \/ filetable_place(p)
  \/ (\E d \in Fds : sys_close(p, d)) \/ GetFile(p)
  \/ (\E oldfd, newfd \in Fds : sys_dup2(p, oldfd, newfd)) \/ Dup2Place(p)
  \/ LastDrop(p) \/ Release(p) \/ Enter(p) \/ Leave(p) \/ PutFile(p)
  \/ (\E q \in Procs : sys_fork(p, q)) \/ filetable_copy(p) \/ ForkDone(p) \/ sys__exit(p)
  \/ filetable_destroy(p) \/ WipeNull(p) \/ WipeDone(p)

\* No assertion fails.
LEMMA Step_Safe ==
  ASSUME FileInv, CountsRefs, NEW p \in Procs, ProcStep(p)
  PROVE  SafeStep(p)
<1> FileTypeOK /\ ProcTypeOK /\ LoopsKeepUp /\ LocalsRight
  BY Zenon DEF FileInv
<1>1. placed_open(p) => PlacedOpen(p)
  <2> pc[p] = "stdfds" /\ fd[p] < STD_FDS => fd[p] \in Fds /\ fd[p] <= fd[p]
    BY Descriptors, Local_Update DEF Fds
  <2> pc[p] = "stdfds" /\ fd[p] < STD_FDS => ft[p][fd[p]] = NULL
    BY Zenon DEF LoopsKeepUp
  <2> QED BY Zenon DEF placed_open, PlacedOpen
<1>2. (\E d \in Fds : sys_readwrite(p, d) \/ sys_lseek(p, d)) => GetFile(p)
  BY Zenon DEF sys_readwrite, sys_lseek, GetFile, Waiting
<1>3. openfile_decref(p) => LastDrop(p) \/ Release(p)
  <2> SUFFICES ASSUME openfile_decref(p) PROVE LastDrop(p) \/ Release(p)
    OBVIOUS
  <2> pc[p] \in DecrefFrom /\ file[p] \in Files /\ of_refcount[file[p]] >= 1 /\ of_refcount[file[p]] \in Nat
    BY Decref_Safe, Zenon DEF openfile_decref, FileTypeOK
  <2>2. CASE of_refcount[file[p]] = 1
    BY <2>2 DEF openfile_decref, LastDrop, DecrefFrom
  <2>3. CASE of_refcount[file[p]] > 1
    BY <2>3 DEF openfile_decref, Release, DecrefFrom
  <2> QED BY <2>2, <2>3
<1>4. openfile_destroy(p) => Release(p)
  <2> SUFFICES ASSUME openfile_destroy(p) PROVE Release(p)
    OBVIOUS
  <2> pc[p] \in {"destroy", "wipe_destroy"} /\ of_refcount[file[p]] = 1
    BY Zenon DEF openfile_destroy, LocalsRight
  <2> \A q \in Procs : ~(pc[q] \in {"rw_lock", "lseek_lock"} /\ file[q] = file[p])
    BY Last_Ref, Zenon DEF WithSlot, Waiting
  <2> of_refcount' = [of_refcount EXCEPT ![file[p]] = 0] /\ AfterDecref(p)
         /\ UNCHANGED <<of_offset, of_offsetlock, seekable, ft, tbl>>
    BY Zenon DEF openfile_destroy
  <2> of_refcount' = [of_refcount EXCEPT ![file[p]] = @ - 1]
    OBVIOUS
  <2> QED BY Zenon DEF Release, DecrefFrom
<1>5. RwLock(p) \/ LseekLock(p) => Enter(p)
  BY Zenon DEF RwLock, LseekLock, LockOffset, Enter, Waiting, Inside
<1>6. RwDone(p) \/ LseekDone(p) => Leave(p)
  <2> SUFFICES ASSUME RwDone(p) \/ LseekDone(p) PROVE Leave(p)
    OBVIOUS
  <2> pc[p] \in Inside /\ pc[p] \in WithSlot
    BY Zenon DEF RwDone, LseekDone, Inside, WithSlot
  <2> file[p] \in Files /\ of_offset[file[p]] \in Nat /\ pos[p] \in Nat
    BY Zenon DEF LocalsRight, FileTypeOK, ProcTypeOK
  <2> PICK n \in Nat : UnlockOffset(p, n)
    BY SizeAssumption DEF RwDone, LseekDone
  <2> QED BY Put_Safe, Zenon DEF UnlockOffset, Leave
<1>7. RwNolock(p) => PutFile(p)
  BY Put_Safe, Zenon DEF RwNolock, PutFile, WithSlot
<1> QED BY <1>1, <1>2, <1>3, <1>4, <1>5, <1>6, <1>7, Zenon DEF ProcStep, SafeStep

----------------------------------------------------------------------------
\* Every step keeps the types.
LEMMA FileTypes_Step ==
  ASSUME FileInv, NEW p \in Procs, SafeStep(p)
  PROVE  FileTypeOK'
<1> FileTypeOK /\ ProcTypeOK /\ LocalsRight
  BY Zenon DEF FileInv
<1>1. CASE \/ runprogram(p)
          \/ StdfdsDone(p)
          \/ filetable_place(p)
          \/ (\E d \in Fds : sys_close(p, d))
          \/ GetFile(p)
          \/ Dup2Place(p)
          \/ LastDrop(p)
          \/ PutFile(p)
          \/ (\E q \in Procs : sys_fork(p, q))
          \/ ForkDone(p)
          \/ sys__exit(p)
          \/ filetable_destroy(p)
          \/ WipeNull(p)
          \/ WipeDone(p)
  BY <1>1, Zenon DEF FileTypeOK, filevars, filetable_get, runprogram, StdfdsDone, filetable_place, sys_close, GetFile, Dup2Place, LastDrop, PutFile, sys_fork, ForkDone, sys__exit, filetable_destroy, WipeNull, WipeDone
<1>2. CASE PlacedOpen(p)
  BY <1>2, File_Update DEF PlacedOpen, openfile_open, FileTypeOK
<1>3. CASE sys_open(p)
  BY <1>3, File_Update DEF sys_open, openfile_open, FileTypeOK
<1>4. CASE \E oldfd, newfd \in Fds : sys_dup2(p, oldfd, newfd)
  <2> PICK oldfd \in Fds, newfd \in Fds : sys_dup2(p, oldfd, newfd)
    BY <1>4, Zenon
  <2> ft[p][oldfd] \in Files
    BY Ft_Update, Zenon DEF sys_dup2
  <2> QED BY File_Update, Zenon DEF sys_dup2, openfile_incref, FileTypeOK
<1>5. CASE Release(p)
  <2> USE <1>5
  <2> file[p] \in Files
    BY Zenon DEF Release, LocalsRight, WithSlot, Waiting, Inside, Carrying, WipeFile
  <2> of_refcount[file[p]] - 1 \in Nat
    BY DEF Release, LocalsRight, DecrefFrom, FileTypeOK
  <2> QED BY File_Update, Zenon DEF Release, FileTypeOK
<1>6. CASE Enter(p)
  <2> USE <1>6
  <2> file[p] \in Files
    BY Zenon DEF Enter, LocalsRight, WithSlot, Waiting, Inside, Carrying, WipeFile
  <2> QED BY File_Update, Zenon DEF Enter, FileTypeOK
<1>7. CASE Leave(p)
  <2> USE <1>7
  <2> file[p] \in Files
    BY Zenon DEF Leave, LocalsRight, WithSlot, Waiting, Inside, Carrying, WipeFile
  <2> QED BY File_Update DEF Leave, FileTypeOK
<1>8. CASE filetable_copy(p)
  <2> USE <1>8
  <2> ft[p][fd[p]] \in Files \cup {NULL}
    BY Ft_Update, Local_Update, Descriptors, Zenon DEF filetable_copy
  <2> of_refcount' \in [Files -> Nat]
    BY File_Update DEF filetable_copy, openfile_incref, FileTypeOK
  <2> QED BY Zenon DEF filetable_copy, FileTypeOK
<1> QED BY <1>1, <1>2, <1>3, <1>4, <1>5, <1>6, <1>7, <1>8, Zenon DEF SafeStep

LEMMA Return_Typed ==
  ASSUME ProcTypeOK, NEW p \in Procs, Return(p)
  PROVE  /\ pc' \in [Procs -> Labels] /\ file' \in [Procs -> Files \cup {NULL}]
         /\ fd' \in [Procs -> 0..OPEN_MAX] /\ pos' \in [Procs -> Nat]
<1>1. pc' \in [Procs -> Labels]
  BY Pc_Update, Label_In, Zenon DEF Return, Goto
<1>2. file' \in [Procs -> Files \cup {NULL}] /\ fd' \in [Procs -> 0..OPEN_MAX] /\ pos' \in [Procs -> Nat]
  BY Local_Update, Descriptors, Zenon DEF Return
<1> QED BY <1>1, <1>2, Zenon

LEMMA ProcTypes_Step ==
  ASSUME FileInv, NEW p \in Procs, SafeStep(p)
  PROVE  ProcTypeOK'
<1> FileTypeOK /\ ProcTypeOK /\ LocalsRight
  BY Zenon DEF FileInv
<1> tbl[p] \in Procs /\ fd[p] \in 0..OPEN_MAX
  BY Local_Update, Zenon
<1>1. CASE runprogram(p)
  <2> USE <1>1
  <2> pc' \in [Procs -> Labels]
    BY Pc_Update, Label_In, Zenon DEF runprogram, Goto
  <2> QED BY Zenon DEF runprogram, ProcTypeOK
<1>2. CASE PlacedOpen(p)
  <2> USE <1>2
  <2> fd[p] \in Fds
    BY Descriptors, Zenon DEF PlacedOpen
  <2> ft' \in [Procs -> [Fds -> Files \cup {NULL}]]
    BY Ft_Update DEF PlacedOpen
  <2> fd' \in [Procs -> 0..OPEN_MAX]
    BY Local_Update, Descriptors DEF PlacedOpen
  <2> QED BY Zenon DEF PlacedOpen, ProcTypeOK
<1>3. CASE StdfdsDone(p)
  <2> USE <1>3
  <2> pc' \in [Procs -> Labels]
    BY Pc_Update, Label_In DEF StdfdsDone, Goto
  <2> fd' \in [Procs -> 0..OPEN_MAX]
    BY Local_Update, Descriptors, Zenon DEF StdfdsDone
  <2> QED BY Zenon DEF StdfdsDone, ProcTypeOK
<1>4. CASE sys_open(p)
  <2> USE <1>4
  <2> pc' \in [Procs -> Labels]
    BY Pc_Update, Label_In, Zenon DEF sys_open, Goto
  <2> file' \in [Procs -> Files \cup {NULL}]
    BY Local_Update DEF sys_open
  <2> QED BY Zenon DEF sys_open, ProcTypeOK
<1>5. CASE filetable_place(p)
  <2> USE <1>5
  <2> pc' \in [Procs -> Labels] /\ file' \in [Procs -> Files \cup {NULL}] /\ fd' \in [Procs -> 0..OPEN_MAX] /\ pos' \in [Procs -> Nat]
    <3>1. CASE Return(p)
      BY <3>1, Return_Typed, Zenon
    <3>2. CASE Goto(p, "decref") /\ UNCHANGED <<file, fd, pos>>
      <4>1. pc' \in [Procs -> Labels]
        BY <3>2, Pc_Update, Label_In, Zenon DEF Goto
      <4>2. file' \in [Procs -> Files \cup {NULL}]
        BY <3>2, Local_Update, Ft_Update, Zenon DEF ProcTypeOK
      <4> QED BY <3>2, <4>1, <4>2, Zenon DEF ProcTypeOK
    <3> QED BY <3>1, <3>2, Zenon DEF filetable_place
  <2> ft' \in [Procs -> [Fds -> Files \cup {NULL}]]
    <3>1. file[p] \in Files \cup {NULL} /\ ft \in [Procs -> [Fds -> Files \cup {NULL}]]
      BY Local_Update, Zenon DEF ProcTypeOK
    <3>2. (\E d \in Fds : ft' = [ft EXCEPT ![p][d] = file[p]]) \/ UNCHANGED ft
      BY Zenon DEF filetable_place
    <3>3. ASSUME NEW d \in Fds PROVE [ft EXCEPT ![p][d] = file[p]] \in [Procs -> [Fds -> Files \cup {NULL}]]
      BY <3>1, Ft_Update, Zenon
    <3> QED BY <3>1, <3>2, <3>3, Zenon
  <2> QED BY Zenon DEF filetable_place, ProcTypeOK
<1>6. CASE \E d \in Fds : sys_close(p, d)
  <2> USE <1>6
  <2> ft' \in [Procs -> [Fds -> Files \cup {NULL}]]
    BY Ft_Update DEF sys_close
  <2> pc' \in [Procs -> Labels]
    BY Pc_Update, Label_In DEF sys_close, Goto
  <2> file' \in [Procs -> Files \cup {NULL}]
    BY Local_Update, Ft_Update, Zenon DEF sys_close
  <2> QED BY Zenon DEF sys_close, ProcTypeOK
<1>7. CASE GetFile(p)
  <2> USE <1>7
  <2> pc' \in [Procs -> Labels]
    BY Pc_Update, Label_In DEF GetFile, filetable_get, Goto, Waiting
  <2> file' \in [Procs -> Files \cup {NULL}]
    BY Local_Update, Ft_Update, Zenon DEF GetFile, filetable_get
  <2> fd' \in [Procs -> 0..OPEN_MAX]
    BY Local_Update, Descriptors DEF GetFile, filetable_get
  <2> QED BY DEF GetFile, filetable_get, ProcTypeOK
<1>8. CASE \E oldfd, newfd \in Fds : sys_dup2(p, oldfd, newfd)
  <2> USE <1>8
  <2> pc' \in [Procs -> Labels]
    BY Pc_Update, Label_In DEF sys_dup2, Goto
  <2> file' \in [Procs -> Files \cup {NULL}]
    BY Local_Update, Ft_Update DEF sys_dup2
  <2> fd' \in [Procs -> 0..OPEN_MAX]
    BY Local_Update, Descriptors, Zenon DEF sys_dup2
  <2> QED BY DEF sys_dup2, ProcTypeOK
<1>9. CASE Dup2Place(p)
  <2> USE <1>9
  <2> fd[p] \in Fds
    BY Zenon DEF Dup2Place, LocalsRight
  <2> file[p] \in Files
    BY Zenon DEF Dup2Place, LocalsRight, Carrying
  <2> pc' \in [Procs -> Labels] /\ file' \in [Procs -> Files \cup {NULL}] /\ fd' \in [Procs -> 0..OPEN_MAX] /\ pos' \in [Procs -> Nat]
    <3>1. CASE Return(p)
      BY <3>1, Return_Typed, Zenon
    <3>2. CASE Goto(p, "decref") /\ file' = [file EXCEPT ![p] = ft[p][fd[p]]] /\ UNCHANGED <<fd, pos>>
      <4>1. pc' \in [Procs -> Labels]
        BY <3>2, Pc_Update, Label_In, Zenon DEF Goto
      <4>2. file' \in [Procs -> Files \cup {NULL}]
        BY <3>2, Local_Update, Ft_Update, Zenon DEF ProcTypeOK
      <4> QED BY <3>2, <4>1, <4>2, Zenon DEF ProcTypeOK
    <3> QED BY <3>1, <3>2, Zenon DEF Dup2Place
  <2> ft' \in [Procs -> [Fds -> Files \cup {NULL}]]
    BY Ft_Update, Local_Update, Zenon DEF Dup2Place
  <2> QED BY Zenon DEF Dup2Place, ProcTypeOK
<1>10. CASE LastDrop(p)
  <2> USE <1>10
  <2> pc' \in [Procs -> Labels]
    BY Pc_Update, Label_In DEF LastDrop, Goto
  <2> QED BY Zenon DEF LastDrop, ProcTypeOK
<1>11. CASE Release(p)
  <2> USE <1>11
  <2> pc' \in [Procs -> Labels] /\ file' \in [Procs -> Files \cup {NULL}] /\ fd' \in [Procs -> 0..OPEN_MAX] /\ pos' \in [Procs -> Nat]
    <3>1. CASE Return(p)
      BY <3>1, Return_Typed, Zenon
    <3>2. CASE Goto(p, "wipe_null") /\ UNCHANGED <<file, fd, pos>>
      <4>1. pc' \in [Procs -> Labels]
        BY <3>2, Pc_Update, Label_In, Zenon DEF Goto
      <4>2. file' \in [Procs -> Files \cup {NULL}]
        BY <3>2, Local_Update, Ft_Update, Zenon DEF ProcTypeOK
      <4> QED BY <3>2, <4>1, <4>2, Zenon DEF ProcTypeOK
    <3> QED BY <3>1, <3>2, Zenon DEF Release, AfterDecref
  <2> QED BY Zenon DEF Release, ProcTypeOK
<1>12. CASE Enter(p)
  <2> USE <1>12
  <2> file[p] \in Files
    BY Zenon DEF Enter, LocalsRight, WithSlot
  <2> of_offset[file[p]] \in Nat
    BY Zenon DEF FileTypeOK
  <2> pc' \in [Procs -> Labels]
    BY Pc_Update, Label_In DEF Enter, Goto, Inside
  <2> pos' \in [Procs -> Nat]
    BY Local_Update, Zenon DEF Enter
  <2> QED BY Zenon DEF Enter, ProcTypeOK
<1>13. CASE Leave(p)
  <2> USE <1>13
  <2> pc' \in [Procs -> Labels] /\ file' \in [Procs -> Files \cup {NULL}] /\ fd' \in [Procs -> 0..OPEN_MAX] /\ pos' \in [Procs -> Nat]
    BY Return_Typed, Zenon DEF Leave
  <2> QED BY Zenon DEF Leave, ProcTypeOK
<1>14. CASE PutFile(p)
  <2> USE <1>14
  <2> pc' \in [Procs -> Labels] /\ file' \in [Procs -> Files \cup {NULL}] /\ fd' \in [Procs -> 0..OPEN_MAX] /\ pos' \in [Procs -> Nat]
    BY Return_Typed, Zenon DEF PutFile
  <2> QED BY Zenon DEF PutFile, ProcTypeOK
<1>15. CASE \E q \in Procs : sys_fork(p, q)
  <2> USE <1>15
  <2> pc' \in [Procs -> Labels]
    BY Pc_Update, Label_In DEF sys_fork
  <2> tbl' \in [Procs -> Procs]
    BY Local_Update DEF sys_fork
  <2> QED BY Zenon DEF sys_fork, ProcTypeOK
<1>16. CASE filetable_copy(p)
  <2> USE <1>16
  <2> fd[p] \in Fds
    BY Descriptors, Zenon DEF filetable_copy
  <2> ft' \in [Procs -> [Fds -> Files \cup {NULL}]]
    BY Ft_Update, Zenon DEF filetable_copy
  <2> fd' \in [Procs -> 0..OPEN_MAX]
    BY Local_Update, Descriptors, Zenon DEF filetable_copy
  <2> QED BY Zenon DEF filetable_copy, ProcTypeOK
<1>17. CASE ForkDone(p)
  <2> USE <1>17
  <2> pc' \in [Procs -> Labels]
    BY Pc_Update, Label_In DEF ForkDone, Goto
  <2> fd' \in [Procs -> 0..OPEN_MAX]
    BY Local_Update, Descriptors, Zenon DEF ForkDone
  <2> tbl' \in [Procs -> Procs]
    <3>1. tbl' = [tbl EXCEPT ![p] = p] \/ UNCHANGED tbl
      BY Zenon DEF ForkDone
    <3>2. tbl \in [Procs -> Procs] /\ [tbl EXCEPT ![p] = p] \in [Procs -> Procs]
      BY Local_Update, Zenon DEF ProcTypeOK
    <3> QED BY <3>1, <3>2, Zenon
  <2> QED BY Zenon DEF ForkDone, ProcTypeOK
<1>18. CASE sys__exit(p)
  <2> USE <1>18
  <2> pc' \in [Procs -> Labels]
    BY Pc_Update, Label_In, Zenon DEF sys__exit, Goto
  <2> QED BY Zenon DEF sys__exit, ProcTypeOK
<1>19. CASE filetable_destroy(p)
  <2> USE <1>19
  <2> fd[p] \in Fds
    BY Descriptors, Zenon DEF filetable_destroy
  <2> pc' \in [Procs -> Labels]
    BY Pc_Update, Label_In DEF filetable_destroy, Goto, ProcTypeOK
  <2> file' \in [Procs -> Files \cup {NULL}]
    <3>1. ft[tbl[p]][fd[p]] \in Files \cup {NULL}
      BY Ft_Update, Zenon
    <3>2. file' = [file EXCEPT ![p] = ft[tbl[p]][fd[p]]] \/ UNCHANGED file
      BY Zenon DEF filetable_destroy
    <3> QED BY <3>1, <3>2, Local_Update, Zenon DEF ProcTypeOK
  <2> fd' \in [Procs -> 0..OPEN_MAX]
    <3>1. fd[p] + 1 \in 0..OPEN_MAX /\ fd \in [Procs -> 0..OPEN_MAX]
      BY Descriptors, Zenon DEF ProcTypeOK
    <3>2. fd' = [fd EXCEPT ![p] = fd[p] + 1] \/ UNCHANGED fd
      BY Zenon DEF filetable_destroy
    <3>3. [fd EXCEPT ![p] = fd[p] + 1] \in [Procs -> 0..OPEN_MAX]
      BY <3>1, Local_Update, Zenon
    <3> QED BY <3>1, <3>2, <3>3, Zenon
  <2> QED BY Zenon DEF filetable_destroy, ProcTypeOK
<1>20. CASE WipeNull(p)
  <2> USE <1>20
  <2> fd[p] \in Fds
    BY Zenon DEF WipeNull, LocalsRight
  <2> ft' \in [Procs -> [Fds -> Files \cup {NULL}]]
    BY Ft_Update, Zenon DEF WipeNull
  <2> pc' \in [Procs -> Labels]
    BY Pc_Update, Label_In, Zenon DEF WipeNull, Goto
  <2> file' \in [Procs -> Files \cup {NULL}]
    BY Local_Update, Zenon DEF WipeNull
  <2> fd' \in [Procs -> 0..OPEN_MAX]
    BY Local_Update, Descriptors, Zenon DEF WipeNull
  <2> QED BY Zenon DEF WipeNull, ProcTypeOK
<1>21. CASE WipeDone(p)
  <2> USE <1>21
  <2> pc' \in [Procs -> Labels]
    BY Pc_Update, Label_In, Zenon DEF WipeDone
  <2> tbl' \in [Procs -> Procs]
    BY Local_Update, Zenon DEF WipeDone
  <2> fd' \in [Procs -> 0..OPEN_MAX]
    BY Local_Update, Descriptors, Zenon DEF WipeDone
  <2> QED BY Zenon DEF WipeDone, ProcTypeOK
<1> QED BY <1>1, <1>2, <1>3, <1>4, <1>5, <1>6, <1>7, <1>8, <1>9, <1>10, <1>11, <1>12, <1>13, <1>14, <1>15, <1>16, <1>17, <1>18, <1>19, <1>20, <1>21, Zenon DEF SafeStep

----------------------------------------------------------------------------
\* Every step keeps a table in one pair of hands.
LEMMA Owned_Goto ==
  ASSUME ProcTypeOK, TablesOwned, NEW p \in Procs, NEW x, pc' = [pc EXCEPT ![p] = x], UNCHANGED tbl,
         pc[p] # "embryo", x # "embryo", tbl[p] # p => x \in Wiping \cup {"fork"}
  PROVE  TablesOwned'
BY DEF ProcTypeOK, TablesOwned

LEMMA Owned_Step ==
  ASSUME FileInv, NEW p \in Procs, SafeStep(p)
  PROVE  TablesOwned'
<1> /\ ft \in [Procs -> [Fds -> Files \cup {NULL}]] /\ pc \in [Procs -> Labels] /\ file \in [Procs -> Files \cup {NULL}]
    /\ tbl \in [Procs -> Procs] /\ fd \in [Procs -> 0..OPEN_MAX]
  BY Zenon DEF FileInv, ProcTypeOK
<1> ProcTypeOK
  BY Zenon DEF FileInv
<1> TablesOwned /\ (pc[p] = "fork" => tbl[p] # p)
  BY Zenon DEF FileInv, LocalsRight
<1>1. CASE runprogram(p)
  BY <1>1 DEF runprogram, Goto, TablesOwned, Wiping, WipeFile
<1>2. CASE PlacedOpen(p)
  BY <1>2 DEF PlacedOpen, TablesOwned, Wiping, WipeFile
<1>3. CASE StdfdsDone(p)
  <2> (Goto(p, "user") \/ Goto(p, "wipe")) /\ UNCHANGED tbl
    BY <1>3, Zenon DEF StdfdsDone
  <2> pc[p] # "embryo" /\ tbl[p] = p
    BY <1>3, Zenon DEF StdfdsDone, TablesOwned, Wiping, WipeFile
  <2> QED BY Owned_Goto, Zenon DEF Goto
<1>4. CASE sys_open(p)
  BY <1>4 DEF sys_open, Goto, TablesOwned, Wiping, WipeFile
<1>5. CASE filetable_place(p)
  <2> USE <1>5
  <2> (Goto(p, "user") \/ Goto(p, "decref")) /\ UNCHANGED tbl
    BY Zenon DEF filetable_place, Return
  <2> pc[p] # "embryo" /\ tbl[p] = p
    BY Zenon DEF filetable_place, TablesOwned, Wiping, WipeFile
  <2> QED BY Owned_Goto, Zenon DEF Goto
<1>6. CASE \E d \in Fds : sys_close(p, d)
  BY <1>6 DEF sys_close, Goto, TablesOwned, Wiping, WipeFile
<1>7. CASE GetFile(p)
  BY <1>7 DEF GetFile, filetable_get, Goto, TablesOwned, Wiping, WipeFile, Waiting, Inside
<1>8. CASE \E oldfd, newfd \in Fds : sys_dup2(p, oldfd, newfd)
  BY <1>8 DEF sys_dup2, Goto, TablesOwned, Wiping, WipeFile
<1>9. CASE Dup2Place(p)
  <2> USE <1>9
  <2> (Goto(p, "user") \/ Goto(p, "decref")) /\ UNCHANGED tbl
    BY Zenon DEF Dup2Place, Return
  <2> pc[p] # "embryo" /\ tbl[p] = p
    BY Zenon DEF Dup2Place, TablesOwned, Wiping, WipeFile
  <2> QED BY Owned_Goto, Zenon DEF Goto
<1>10. CASE LastDrop(p)
  <2> (Goto(p, "destroy") \/ Goto(p, "wipe_destroy")) /\ UNCHANGED tbl
    BY <1>10, Zenon DEF LastDrop
  <2> pc[p] # "embryo" /\ (tbl[p] # p => Goto(p, "wipe_destroy"))
    BY <1>10, Zenon DEF LastDrop, TablesOwned, Wiping, WipeFile
  <2> QED BY Owned_Goto, Zenon DEF Goto, Wiping, WipeFile
<1>11. CASE Release(p)
  <2> USE <1>11
  <2> (Goto(p, "user") \/ Goto(p, "wipe_null")) /\ UNCHANGED tbl
    BY Zenon DEF Release, Return, AfterDecref
  <2> pc[p] # "embryo" /\ (tbl[p] # p => Goto(p, "wipe_null"))
    BY Zenon DEF Release, AfterDecref, TablesOwned, Wiping, WipeFile
  <2> QED BY Owned_Goto, Zenon DEF Goto, Wiping
<1>12. CASE Enter(p)
  BY <1>12 DEF Enter, Goto, TablesOwned, Wiping, WipeFile, Waiting, Inside
<1>13. CASE Leave(p)
  <2> USE <1>13
  <2> (Goto(p, "user")) /\ UNCHANGED tbl
    BY Zenon DEF Leave, Return, Inside
  <2> pc[p] # "embryo" /\ tbl[p] = p
    BY Zenon DEF Leave, Inside, TablesOwned, Wiping, WipeFile
  <2> QED BY Owned_Goto, Zenon DEF Goto
<1>14. CASE PutFile(p)
  BY <1>14 DEF PutFile, Return, Goto, TablesOwned, Wiping, WipeFile
<1>15. CASE \E q \in Procs : sys_fork(p, q)
  BY <1>15 DEF sys_fork, TablesOwned, Wiping, WipeFile
<1>16. CASE filetable_copy(p)
  BY <1>16, Zenon DEF filetable_copy, TablesOwned, Wiping, WipeFile
<1>17. CASE ForkDone(p)
  <2> USE <1>17
  <2> pc[p] = "fork" /\ tbl[p] # p /\ pc[tbl[p]] = "embryo" /\ tbl[p] \in Procs
    BY Zenon DEF ForkDone, TablesOwned
  <2>1. CASE pc' = [pc EXCEPT ![p] = "user", ![tbl[p]] = "user"] /\ tbl' = [tbl EXCEPT ![p] = p]
    <3>1. pc'[p] = "user" /\ pc'[tbl[p]] = "user" /\ tbl'[p] = p
      BY <2>1, Zenon
    <3>2. \A q \in Procs : q # p => tbl'[q] = tbl[q] /\ (q # tbl[p] => pc'[q] = pc[q])
      BY <2>1, Zenon
    <3>3. \A q \in Procs : q # p /\ tbl[q] = tbl[p] => q = tbl[p]
      BY Zenon DEF TablesOwned, Wiping, WipeFile
    <3>4. \A q \in Procs : tbl[q] = p => q = p
      BY Zenon DEF TablesOwned
    <3>5. tbl[tbl[p]] = tbl[p]
      BY Zenon DEF TablesOwned, Wiping, WipeFile
    <3>6. ASSUME NEW q \in Procs, tbl'[q] # q
          PROVE  pc'[q] \in Wiping \cup {"fork"} /\ pc'[tbl'[q]] = "embryo"
      <4>1. q # p /\ q # tbl[p] /\ tbl[q] # q /\ tbl[q] \in Procs /\ tbl'[q] = tbl[q]
        BY <3>1, <3>2, <3>5, <3>6, Zenon
      <4>2. tbl[q] # p /\ tbl[q] # tbl[p]
        BY <3>3, <3>4, <4>1, Zenon
      <4> QED BY <3>2, <4>1, <4>2 DEF TablesOwned
    <3>7. ASSUME NEW q \in Procs, NEW r \in Procs, pc'[q] # "embryo", pc'[r] # "embryo", tbl'[q] = tbl'[r], q # r
          PROVE  FALSE
      <4>1. q # p /\ r # p
        BY <3>1, <3>2, <3>4, <3>7
      <4>2. q # tbl[p] /\ r # tbl[p]
        BY <3>2, <3>3, <3>5, <3>7, <4>1
      <4> QED BY <3>2, <3>7, <4>1, <4>2 DEF TablesOwned
    <3> QED BY <3>6, <3>7, Zenon DEF TablesOwned
  <2>2. CASE Goto(p, "wipe") /\ UNCHANGED tbl
    BY <2>2, Owned_Goto, Zenon DEF Goto, Wiping
  <2> QED BY <2>1, <2>2, Zenon DEF ForkDone
<1>18. CASE sys__exit(p)
  BY <1>18 DEF sys__exit, Goto, TablesOwned, Wiping, WipeFile
<1>19. CASE filetable_destroy(p)
  <2> USE <1>19
  <2> (Goto(p, "wipe_decref") \/ UNCHANGED pc) /\ UNCHANGED tbl
    BY Zenon DEF filetable_destroy
  <2> pc[p] = "wipe"
    BY Zenon DEF filetable_destroy
  <2>3. CASE Goto(p, "wipe_decref")
    BY <2>3, Owned_Goto, Zenon DEF Goto, Wiping, WipeFile
  <2>4. CASE UNCHANGED pc
    BY <2>4, Zenon DEF TablesOwned
  <2> QED BY <2>3, <2>4, Zenon
<1>20. CASE WipeNull(p)
  BY <1>20 DEF WipeNull, Goto, TablesOwned, Wiping, WipeFile
<1>21. CASE WipeDone(p)
  <2> /\ pc[p] = "wipe" /\ tbl[p] \in Procs
      /\ pc' = [pc EXCEPT ![p] = "user", ![tbl[p]] = "none"] /\ tbl' = [tbl EXCEPT ![p] = p]
    BY <1>21, Zenon DEF WipeDone
  <2>1. CASE tbl[p] = p
    BY <2>1 DEF TablesOwned
  <2>2. CASE tbl[p] # p
    <3>0. pc[tbl[p]] = "embryo"
      BY <2>2, Zenon DEF TablesOwned
    <3>1. pc'[p] = "user" /\ pc'[tbl[p]] = "none" /\ tbl'[p] = p
      BY <2>2, Zenon
    <3>2. \A q \in Procs : q # p => tbl'[q] = tbl[q] /\ (q # tbl[p] => pc'[q] = pc[q])
      BY <2>2, Zenon
    <3>3. \A q \in Procs : q # p /\ tbl[q] = tbl[p] => q = tbl[p]
      BY <2>2, <3>0, Zenon DEF TablesOwned, Wiping, WipeFile
    <3>4. \A q \in Procs : tbl[q] = p => q = p
      BY <2>2, Zenon DEF TablesOwned
    <3>5. tbl[tbl[p]] = tbl[p]
      BY <3>0, Zenon DEF TablesOwned, Wiping, WipeFile
    <3>6. ASSUME NEW q \in Procs, tbl'[q] # q
          PROVE  pc'[q] \in Wiping \cup {"fork"} /\ pc'[tbl'[q]] = "embryo"
      <4>1. q # p /\ q # tbl[p] /\ tbl[q] # q /\ tbl[q] \in Procs /\ tbl'[q] = tbl[q]
        BY <3>1, <3>2, <3>5, <3>6, Zenon
      <4>2. tbl[q] # p /\ tbl[q] # tbl[p]
        BY <3>3, <3>4, <4>1, Zenon
      <4> QED BY <3>2, <4>1, <4>2 DEF TablesOwned
    <3>7. ASSUME NEW q \in Procs, NEW r \in Procs, pc'[q] # "embryo", pc'[r] # "embryo", tbl'[q] = tbl'[r], q # r
          PROVE  FALSE
      <4>1. q # p /\ r # p
        BY <3>1, <3>2, <3>4, <3>7
      <4>2. q # tbl[p] /\ r # tbl[p]
        BY <3>2, <3>3, <3>5, <3>7, <4>1
      <4> QED BY <3>2, <3>7, <4>1, <4>2 DEF TablesOwned
    <3> QED BY <3>6, <3>7, Zenon DEF TablesOwned
  <2> QED BY <2>1, <2>2, Zenon
<1> QED BY <1>1, <1>2, <1>3, <1>4, <1>5, <1>6, <1>7, <1>8, <1>9, <1>10, <1>11, <1>12, <1>13, <1>14, <1>15, <1>16, <1>17, <1>18, <1>19, <1>20, <1>21, Zenon DEF SafeStep

----------------------------------------------------------------------------
\* What a step leaves alone.  A process that takes a step is not an embryo, its local
\* variables are its own, it writes to no table but its own or its embryo's, and it moves
\* another process only to make an embryo, to start it or to give it up.
Alone(p) ==
  /\ pc[p] # "embryo"
  /\ \A q \in Procs \ {p} : file'[q] = file[q] /\ tbl'[q] = tbl[q] /\ fd'[q] = fd[q] /\ pos'[q] = pos[q]
  /\ \A q \in Procs \ {p} :
       \/ pc'[q] = pc[q]
       \/ pc[q] = "none" /\ pc'[q] = "embryo"
       \/ pc[q] = "embryo" /\ pc'[q] = "user"
       \/ /\ pc[q] = "embryo" /\ pc'[q] = "none"
          /\ q = tbl[p] /\ pc[p] = "wipe" /\ fd[p] = OPEN_MAX /\ ft' = ft
  /\ \A t \in Procs \ {tbl[p]} : ft'[t] = ft[t]
  /\ pc'[p] = "wipe_null" => tbl'[p] = tbl[p] /\ fd'[p] = fd[p]

LEMMA Alone_Step ==
  ASSUME FileInv, NEW p \in Procs, SafeStep(p)
  PROVE  Alone(p)
<1> /\ ft \in [Procs -> [Fds -> Files \cup {NULL}]] /\ pc \in [Procs -> Labels] /\ file \in [Procs -> Files \cup {NULL}]
    /\ tbl \in [Procs -> Procs] /\ fd \in [Procs -> 0..OPEN_MAX] /\ pos \in [Procs -> Nat]
  BY Zenon DEF FileInv, ProcTypeOK
<1> /\ tbl[p] # p => pc[p] \in Wiping \cup {"fork"} /\ pc[tbl[p]] = "embryo"
    /\ pc[p] = "fork" => tbl[p] # p
  BY Zenon DEF FileInv, LocalsRight, TablesOwned
<1>1. CASE runprogram(p)
  BY <1>1, Zenon DEF Alone, runprogram, Goto, filevars
<1>2. CASE PlacedOpen(p)
  BY <1>2 DEF Alone, PlacedOpen, openfile_open, Wiping, WipeFile, Waiting, Inside
<1>3. CASE StdfdsDone(p)
  BY <1>3, Zenon DEF Alone, StdfdsDone, Goto, filevars
<1>4. CASE sys_open(p)
  BY <1>4, Zenon DEF Alone, sys_open, openfile_open, Goto
<1>5. CASE filetable_place(p)
  BY <1>5 DEF Alone, filetable_place, Return, Goto, filevars, Wiping, WipeFile, Waiting, Inside
<1>6. CASE \E d \in Fds : sys_close(p, d)
  BY <1>6 DEF Alone, sys_close, Goto, filevars, Wiping, WipeFile, Waiting, Inside
<1>7. CASE GetFile(p)
  BY <1>7 DEF Alone, GetFile, filetable_get, Goto, filevars, Wiping, WipeFile, Waiting, Inside
<1>8. CASE \E oldfd, newfd \in Fds : sys_dup2(p, oldfd, newfd)
  BY <1>8 DEF Alone, sys_dup2, openfile_incref, Goto
<1>9. CASE Dup2Place(p)
  BY <1>9 DEF Alone, Dup2Place, Return, Goto, filevars, Wiping, WipeFile, Waiting, Inside
<1>10. CASE LastDrop(p)
  BY <1>10, Zenon DEF Alone, LastDrop, Goto, filevars
<1>11. CASE Release(p)
  BY <1>11 DEF Alone, Release, AfterDecref, Return, Goto, DecrefFrom, Wiping, WipeFile, Waiting, Inside
<1>12. CASE Enter(p)
  BY <1>12, Zenon DEF Alone, Enter, Goto, Wiping, WipeFile, Waiting, Inside
<1>13. CASE Leave(p)
  BY <1>13, Zenon DEF Alone, Leave, Return, Goto, Wiping, WipeFile, Waiting, Inside
<1>14. CASE PutFile(p)
  BY <1>14, Zenon DEF Alone, PutFile, Return, Goto, filevars
<1>15. CASE \E q \in Procs : sys_fork(p, q)
  BY <1>15 DEF Alone, sys_fork, filevars
<1>16. CASE filetable_copy(p)
  BY <1>16, Zenon DEF Alone, filetable_copy, openfile_incref
<1>17. CASE ForkDone(p)
  BY <1>17 DEF Alone, ForkDone, Goto, filevars
<1>18. CASE sys__exit(p)
  BY <1>18, Zenon DEF Alone, sys__exit, Goto, filevars
<1>19. CASE filetable_destroy(p)
  BY <1>19, Zenon DEF Alone, filetable_destroy, Goto, filevars
<1>20. CASE WipeNull(p)
  BY <1>20, Zenon DEF Alone, WipeNull, Goto, filevars, Wiping, WipeFile, Waiting, Inside
<1>21. CASE WipeDone(p)
  BY <1>21, Zenon DEF Alone, WipeDone, filevars, Wiping, WipeFile, Waiting, Inside
<1> QED BY <1>1, <1>2, <1>3, <1>4, <1>5, <1>6, <1>7, <1>8, <1>9, <1>10, <1>11, <1>12, <1>13, <1>14, <1>15, <1>16, <1>17, <1>18, <1>19, <1>20, <1>21, Zenon DEF SafeStep

----------------------------------------------------------------------------
\* Every step keeps the loops' slots as they must be: first the other processes.
LEMMA Loops_Others ==
  ASSUME FileInv, NEW p \in Procs, Alone(p), NEW q \in Procs, q # p, NEW d \in Fds
  PROVE  /\ pc'[q] = "none" => ft'[q][d] = NULL
         /\ pc'[q] = "stdfds" /\ fd'[q] <= d => ft'[q][d] = NULL
         /\ pc'[q] = "fork" /\ fd'[q] <= d => ft'[tbl'[q]][d] = NULL
         /\ pc'[q] \in Wiping /\ d < fd'[q] => ft'[tbl'[q]][d] = NULL
<1>t. tbl[p] \in Procs /\ tbl[q] \in Procs /\ fd'[q] = fd[q] /\ tbl'[q] = tbl[q]
  BY Zenon DEF FileInv, ProcTypeOK, Alone
<1>1. pc[q] # "embryo" => tbl[p] # q /\ tbl[p] # tbl[q]
  BY DEF FileInv, TablesOwned, Alone
<1>2. pc[q] # "embryo" => ft'[q] = ft[q] /\ ft'[tbl[q]] = ft[tbl[q]]
  BY <1>t, <1>1, Zenon DEF Alone
<1>3. CASE pc'[q] = pc[q]
  BY <1>t, <1>2, <1>3 DEF FileInv, LoopsKeepUp, Wiping, WipeFile
<1>4. CASE pc'[q] # pc[q] /\ pc'[q] # "none"
  BY <1>4, Zenon DEF Alone, Wiping, WipeFile
<1>5. CASE pc'[q] # pc[q] /\ pc'[q] = "none"
  <2>1. q = tbl[p] /\ pc[p] = "wipe" /\ fd[p] = OPEN_MAX /\ ft' = ft
    BY <1>5, Zenon DEF Alone
  <2>2. d < fd[p]
    BY <2>1, SizeAssumption DEF Fds
  <2>3. ft[tbl[p]][d] = NULL
    BY <2>1, <2>2, Zenon DEF FileInv, LoopsKeepUp, Wiping
  <2> QED BY <1>5, <2>1, <2>3, Zenon DEF Wiping, WipeFile
<1> QED BY <1>3, <1>4, <1>5, Zenon

LEMMA Loops_Step ==
  ASSUME FileInv, NEW p \in Procs, SafeStep(p), Alone(p)
  PROVE  LoopsKeepUp'
<1> /\ ft \in [Procs -> [Fds -> Files \cup {NULL}]] /\ pc \in [Procs -> Labels] /\ file \in [Procs -> Files \cup {NULL}]
    /\ tbl \in [Procs -> Procs] /\ fd \in [Procs -> 0..OPEN_MAX]
  BY Zenon DEF FileInv, ProcTypeOK
<1> LoopsKeepUp /\ LocalsRight
  BY Zenon DEF FileInv
<1> pc[p] \in Plain \cup {"stdfds"} => tbl[p] = p
  BY Zenon DEF FileInv, TablesOwned, Plain, Wiping, WipeFile
<1> SUFFICES ASSUME NEW d \in Fds
             PROVE  /\ pc'[p] = "none" => ft'[p][d] = NULL
                    /\ pc'[p] = "stdfds" /\ fd'[p] <= d => ft'[p][d] = NULL
                    /\ pc'[p] = "fork" /\ fd'[p] <= d => ft'[tbl'[p]][d] = NULL
                    /\ pc'[p] \in Wiping /\ d < fd'[p] => ft'[tbl'[p]][d] = NULL
  <2> \A q \in Procs, e \in Fds : q # p =>
          /\ pc'[q] = "none" => ft'[q][e] = NULL
          /\ pc'[q] = "stdfds" /\ fd'[q] <= e => ft'[q][e] = NULL
          /\ pc'[q] = "fork" /\ fd'[q] <= e => ft'[tbl'[q]][e] = NULL
          /\ pc'[q] \in Wiping /\ e < fd'[q] => ft'[tbl'[q]][e] = NULL
    BY Loops_Others, Zenon
  <2> QED BY Zenon DEF LoopsKeepUp
<1> d \in Int /\ d >= 0 /\ d < OPEN_MAX /\ OPEN_MAX \in Int
  BY SizeAssumption DEF Fds
<1>1. CASE runprogram(p)
  BY <1>1, Zenon DEF runprogram, Goto, filevars, Wiping, WipeFile, LoopsKeepUp, LocalsRight, Plain
<1>2. CASE PlacedOpen(p)
  BY <1>2 DEF PlacedOpen, Wiping, WipeFile, LoopsKeepUp, LocalsRight, Plain
<1>3. CASE StdfdsDone(p)
  BY <1>3 DEF StdfdsDone, Goto, filevars, Wiping, WipeFile, LoopsKeepUp, LocalsRight, Plain
<1>4. CASE sys_open(p)
  BY <1>4, Zenon DEF sys_open, Goto, Wiping, WipeFile
<1>5. CASE filetable_place(p)
  BY <1>5 DEF filetable_place, Return, Goto, filevars, Wiping, WipeFile
<1>6. CASE \E oldfd \in Fds : sys_close(p, oldfd)
  BY <1>6, Zenon DEF sys_close, Goto, filevars, Wiping, WipeFile
<1>7. CASE GetFile(p)
  BY <1>7, Zenon DEF GetFile, filetable_get, Goto, filevars, Wiping, WipeFile, Waiting, Inside
<1>8. CASE \E oldfd, newfd \in Fds : sys_dup2(p, oldfd, newfd)
  BY <1>8, Zenon DEF sys_dup2, Goto, Wiping, WipeFile
<1>9. CASE Dup2Place(p)
  BY <1>9, Zenon DEF Dup2Place, Return, Goto, filevars, Wiping, WipeFile
<1>10. CASE LastDrop(p)
  BY <1>10 DEF LastDrop, Goto, filevars, Wiping, WipeFile, LoopsKeepUp, LocalsRight, Plain
<1>11. CASE Release(p)
  BY <1>11 DEF Release, AfterDecref, Return, Goto, DecrefFrom, Wiping, WipeFile, LoopsKeepUp, LocalsRight, Plain
<1>12. CASE Enter(p)
  BY <1>12, Zenon DEF Enter, Goto, Wiping, WipeFile, Waiting, Inside
<1>13. CASE Leave(p)
  BY <1>13, Zenon DEF Leave, Return, Goto, Wiping, WipeFile
<1>14. CASE PutFile(p)
  BY <1>14, Zenon DEF PutFile, Return, Goto, filevars, Wiping, WipeFile
<1>15. CASE \E q \in Procs : sys_fork(p, q)
  BY <1>15 DEF sys_fork, filevars, Wiping, WipeFile, LoopsKeepUp, LocalsRight, Plain
<1>16. CASE filetable_copy(p)
  BY <1>16 DEF filetable_copy, Wiping, WipeFile, LoopsKeepUp, LocalsRight, Plain
<1>17. CASE ForkDone(p)
  BY <1>17 DEF ForkDone, Goto, filevars, Wiping, WipeFile, LoopsKeepUp, LocalsRight, Plain
<1>18. CASE sys__exit(p)
  BY <1>18 DEF sys__exit, Goto, filevars, Wiping, WipeFile, LoopsKeepUp, LocalsRight, Plain
<1>19. CASE filetable_destroy(p)
  <2> USE <1>19
  <2> tbl[p] \in Procs /\ fd[p] \in Int /\ (d < fd[p] => ft[tbl[p]][d] = NULL)
    BY DEF filetable_destroy, LoopsKeepUp, Wiping
  <2>1. CASE ft[tbl[p]][fd[p]] = NULL
    <3>1. pc'[p] = "wipe" /\ fd'[p] = fd[p] + 1 /\ ft' = ft /\ tbl' = tbl
      BY <2>1, Zenon DEF filetable_destroy
    <3>2. d < fd'[p] => d < fd[p] \/ d = fd[p]
      BY <3>1, Next_Fd, Zenon
    <3> QED BY <2>1, <3>1, <3>2, Zenon DEF Wiping, WipeFile
  <2>2. CASE ft[tbl[p]][fd[p]] # NULL
    <3>1. pc'[p] = "wipe_decref" /\ fd' = fd /\ ft' = ft /\ tbl' = tbl
      BY <2>2, Zenon DEF filetable_destroy, Goto
    <3> QED BY <3>1, Zenon
  <2> QED BY <2>1, <2>2, Zenon
<1>20. CASE WipeNull(p)
  <2> USE <1>20
  <2> tbl[p] \in Procs /\ fd[p] \in Int /\ (d < fd[p] => ft[tbl[p]][d] = NULL)
    BY DEF WipeNull, LoopsKeepUp, Wiping
  <2> fd[p] \in Fds
    BY Zenon DEF WipeNull, LocalsRight
  <2> pc'[p] = "wipe" /\ fd'[p] = fd[p] + 1 /\ tbl' = tbl
    BY Zenon DEF WipeNull, Goto
  <2> ft'[tbl[p]][d] = IF d = fd[p] THEN NULL ELSE ft[tbl[p]][d]
    BY Zenon DEF WipeNull
  <2> d < fd'[p] => d < fd[p] \/ d = fd[p]
    BY Next_Fd, Zenon
  <2> QED BY Zenon DEF Wiping, WipeFile
<1>21. CASE WipeDone(p)
  BY <1>21 DEF WipeDone, filevars, Wiping, WipeFile, LoopsKeepUp, LocalsRight, Plain
<1> QED BY <1>1, <1>2, <1>3, <1>4, <1>5, <1>6, <1>7, <1>8, <1>9, <1>10, <1>11, <1>12, <1>13, <1>14, <1>15, <1>16, <1>17, <1>18, <1>19, <1>20, <1>21, Zenon DEF SafeStep

\* A process that found itself to be the last holder of a file stays the only one.
LEMMA Sole_Slot ==
  ASSUME FileInv, CountsRefs, NEW q \in Procs, pc[q] \in {"destroy", "wipe_destroy"},
         NEW p \in Procs, p # q, pc[p] \notin Wiping \cup {"embryo"}, NEW d \in Fds, ft[p][d] # NULL
  PROVE  ft[p][d] # file[q]
<1> SUFFICES ASSUME ft[p][d] = file[q] PROVE FALSE
  OBVIOUS
<1>1. file[q] \in Files /\ of_refcount[file[q]] = 1
  BY Zenon DEF FileInv, LocalsRight, Carrying, WipeFile
<1>2. <<p, d>> \in Slots(file[q])
  BY Slot_Counts, Zenon DEF FileInv
<1>3. CASE pc[q] = "destroy"
  BY <1>1, <1>2, <1>3, Carry_Counts, Two_Refs DEF FileInv, Carrying
<1>4. CASE pc[q] = "wipe_destroy"
  <2>1. <<tbl[q], fd[q]>> \in Slots(file[q])
    BY <1>4, Wipe_Counts, Zenon DEF FileInv, WipeFile
  <2>2. tbl[q] # p
    BY <1>4, Zenon DEF FileInv, TablesOwned
  <2> QED BY <1>1, <1>2, <2>1, <2>2, Two_Refs DEF FileInv
<1> QED BY <1>3, <1>4, Zenon

LEMMA Sole_Call ==
  ASSUME FileInv, CountsRefs, NEW q \in Procs, pc[q] \in {"destroy", "wipe_destroy"},
         NEW p \in Procs, p # q, pc[p] \in Carrying \cup WipeFile
  PROVE  file[p] # file[q]
<1> SUFFICES ASSUME file[p] = file[q] PROVE FALSE
  OBVIOUS
<1>1. file[q] \in Files /\ of_refcount[file[q]] = 1
  BY Zenon DEF FileInv, LocalsRight, Carrying, WipeFile
<1>2. ASSUME NEW r \in Procs, pc[r] \in Carrying, file[r] = file[q] PROVE r \in Carried(file[q])
  BY <1>2, Carry_Counts, Zenon
<1>3. ASSUME NEW r \in Procs, pc[r] \in WipeFile, file[r] = file[q] PROVE <<tbl[r], fd[r]>> \in Slots(file[q])
  BY <1>3, Wipe_Counts, Zenon DEF FileInv
<1>4. pc[p] \in WipeFile /\ pc[q] \in WipeFile => tbl[p] # tbl[q]
  BY Zenon DEF FileInv, TablesOwned, WipeFile
<1>5. pc[q] \in Carrying \cup WipeFile
  BY Zenon DEF Carrying, WipeFile
<1>6. /\ \A s, u \in Slots(file[q]) : s # u => of_refcount[file[q]] >= 2
      /\ \A r, u \in Carried(file[q]) : r # u => of_refcount[file[q]] >= 2
      /\ \A s \in Slots(file[q]), r \in Carried(file[q]) : of_refcount[file[q]] >= 2
  BY <1>1, Two_Refs, Zenon DEF FileInv
<1>7. ~(of_refcount[file[q]] >= 2)
  BY <1>1
<1>8. CASE pc[p] \in Carrying /\ pc[q] \in Carrying
  BY <1>2, <1>6, <1>7, <1>8, Zenon
<1>9. CASE pc[p] \in Carrying /\ pc[q] \in WipeFile
  BY <1>2, <1>3, <1>6, <1>7, <1>9, Zenon
<1>10. CASE pc[p] \in WipeFile /\ pc[q] \in Carrying
  BY <1>2, <1>3, <1>6, <1>7, <1>10, Zenon
<1>11. CASE pc[p] \in WipeFile /\ pc[q] \in WipeFile
  <2>1. <<tbl[p], fd[p]>> # <<tbl[q], fd[q]>>
    BY <1>4, <1>11, Zenon
  <2> QED BY <1>3, <1>6, <1>7, <1>11, <2>1, Zenon
<1> QED BY <1>5, <1>8, <1>9, <1>10, <1>11, Zenon

LEMMA Sole_Step ==
  ASSUME FileInv, CountsRefs, NEW p \in Procs, SafeStep(p), NEW q \in Procs, q # p,
         pc[q] \in {"destroy", "wipe_destroy"}
  PROVE  of_refcount'[file[q]] = of_refcount[file[q]]
<1> of_refcount \in [Files -> Nat] /\ ProcTypeOK
  BY Zenon DEF FileInv, FileTypeOK
<1> file[q] \in Files /\ of_refcount[file[q]] = 1
  BY Zenon DEF FileInv, LocalsRight, Carrying, WipeFile
<1>1. CASE UNCHANGED of_refcount
  BY <1>1, Zenon
<1>2. CASE PlacedOpen(p) \/ sys_open(p)
  BY <1>2, Zenon DEF PlacedOpen, sys_open, openfile_open
<1>3. CASE \E oldfd, newfd \in Fds : sys_dup2(p, oldfd, newfd)
  BY <1>3, Sole_Slot DEF sys_dup2, openfile_incref, Wiping, WipeFile
<1>4. CASE Release(p)
  BY <1>4, Sole_Call, Zenon DEF Release, Carrying, WipeFile
<1>5. CASE filetable_copy(p)
  <2> USE <1>5
  <2> fd[p] \in Fds /\ pc[p] = "fork"
    BY Descriptors, Local_Update, Zenon DEF filetable_copy
  <2> QED BY Sole_Slot DEF filetable_copy, openfile_incref, Wiping, WipeFile
<1>6. \/ UNCHANGED of_refcount \/ PlacedOpen(p) \/ sys_open(p)
      \/ (\E oldfd, newfd \in Fds : sys_dup2(p, oldfd, newfd)) \/ Release(p) \/ filetable_copy(p)
  BY Zenon DEF SafeStep, filevars, runprogram, StdfdsDone, filetable_place, sys_close, GetFile, filetable_get, Dup2Place, LastDrop,
         Enter, Leave, PutFile, sys_fork, ForkDone, sys__exit, filetable_destroy, WipeNull, WipeDone
<1> QED BY <1>1, <1>2, <1>3, <1>4, <1>5, <1>6, Zenon

----------------------------------------------------------------------------
\* Every step keeps the local variables right: first those of the other processes.
LocalsOf(q) ==
  /\ pc[q] = "fork" => tbl[q] # q
  /\ pc[q] \in Plain \cup {"place"} => fd[q] = 0
  /\ pc[q] \in WithSlot \cup Carrying \cup WipeFile => file[q] \in Files
  /\ pc[q] \in WithSlot \cup WipeFile \cup {"dup_place", "wipe_null"} => fd[q] \in Fds
  /\ pc[q] \in WithSlot => ft[q][fd[q]] = file[q]
  /\ pc[q] \in WipeFile => ft[tbl[q]][fd[q]] = file[q]
  /\ pc[q] \in {"destroy", "wipe_destroy"} => of_refcount[file[q]] = 1

LEMMA Locals_Others ==
  ASSUME FileInv, CountsRefs, NEW p \in Procs, SafeStep(p), Alone(p), NEW q \in Procs, q # p
  PROVE  LocalsOf(q)'
<1>l. LocalsOf(q)
  BY Zenon DEF FileInv, LocalsRight, LocalsOf
<1>t. tbl[p] \in Procs /\ tbl[q] \in Procs /\ fd'[q] = fd[q] /\ tbl'[q] = tbl[q] /\ file'[q] = file[q]
  BY Zenon DEF FileInv, ProcTypeOK, Alone
<1>1. pc[q] # "embryo" => tbl[p] # q /\ tbl[p] # tbl[q]
  BY DEF FileInv, TablesOwned, Alone
<1>2. pc[q] # "embryo" => ft'[q] = ft[q] /\ ft'[tbl[q]] = ft[tbl[q]]
  BY <1>t, <1>1, Zenon DEF Alone
<1>3. CASE pc'[q] = pc[q]
  <2>1. pc[q] \in {"destroy", "wipe_destroy"} => of_refcount'[file[q]] = of_refcount[file[q]]
    BY Sole_Step, Zenon
  <2>2. pc[q] \in WithSlot \cup WipeFile => pc[q] # "embryo"
    BY Zenon DEF WithSlot, Waiting, Inside, WipeFile
  <2> QED BY <1>l, <1>t, <1>2, <1>3, <2>1, <2>2, Zenon DEF LocalsOf
<1>4. CASE pc[q] \in Plain /\ pc'[q] \in Plain
  BY <1>l, <1>t, <1>4, Zenon DEF LocalsOf, Plain, WithSlot, Waiting, Inside, Carrying, WipeFile
<1> QED BY <1>3, <1>4, Zenon DEF Alone, Plain

LEMMA Locals_Step ==
  ASSUME FileInv, CountsRefs, NEW p \in Procs, SafeStep(p), Alone(p)
  PROVE  LocalsRight'
<1> /\ ft \in [Procs -> [Fds -> Files \cup {NULL}]] /\ pc \in [Procs -> Labels] /\ file \in [Procs -> Files \cup {NULL}]
    /\ tbl \in [Procs -> Procs] /\ fd \in [Procs -> 0..OPEN_MAX]
  BY Zenon DEF FileInv, ProcTypeOK
<1> LocalsOf(p)
  BY Zenon DEF FileInv, LocalsRight, LocalsOf
<1> \A d \in 0..OPEN_MAX : d < OPEN_MAX \/ d < STD_FDS => d \in Fds
  BY Descriptors, Zenon
<1> SUFFICES LocalsOf(p)'
  BY Locals_Others, Zenon DEF LocalsRight, LocalsOf
<1>1. CASE runprogram(p)
  BY <1>1, Zenon DEF runprogram, Goto, LocalsOf, Plain, WithSlot, Waiting, Inside, Carrying, WipeFile
<1>2. CASE PlacedOpen(p)
  BY <1>2, Zenon DEF PlacedOpen, openfile_open, LocalsOf, Plain, WithSlot, Waiting, Inside, Carrying, WipeFile
<1>3. CASE StdfdsDone(p)
  BY <1>3 DEF StdfdsDone, Goto, LocalsOf, Plain, WithSlot, Waiting, Inside, Carrying, WipeFile
<1>4. CASE sys_open(p)
  BY <1>4, Zenon DEF sys_open, openfile_open, Goto, LocalsOf, Plain, WithSlot, Waiting, Inside, Carrying, WipeFile
<1>5. CASE filetable_place(p)
  BY <1>5 DEF filetable_place, Return, Goto, LocalsOf, Plain, WithSlot, Waiting, Inside, Carrying, WipeFile
<1>6. CASE \E d \in Fds : sys_close(p, d)
  BY <1>6 DEF sys_close, Goto, LocalsOf, Plain, WithSlot, Waiting, Inside, Carrying, WipeFile
<1>7. CASE GetFile(p)
  BY <1>7 DEF GetFile, filetable_get, Goto, LocalsOf, Plain, WithSlot, Waiting, Inside, Carrying, WipeFile
<1>8. CASE \E oldfd, newfd \in Fds : sys_dup2(p, oldfd, newfd)
  BY <1>8 DEF sys_dup2, Goto, LocalsOf, Plain, WithSlot, Waiting, Inside, Carrying, WipeFile
<1>9. CASE Dup2Place(p)
  BY <1>9 DEF Dup2Place, Return, Goto, LocalsOf, Plain, WithSlot, Waiting, Inside, Carrying, WipeFile
<1>10. CASE LastDrop(p)
  BY <1>10 DEF LastDrop, Goto, filevars, LocalsOf, Plain, WithSlot, Waiting, Inside, Carrying, WipeFile
<1>11. CASE Release(p)
  BY <1>11 DEF Release, AfterDecref, Return, Goto, DecrefFrom, LocalsOf, Plain, WithSlot, Waiting, Inside, Carrying, WipeFile
<1>12. CASE Enter(p)
  BY <1>12, Zenon DEF Enter, Goto, LocalsOf, Plain, WithSlot, Waiting, Inside, Carrying, WipeFile
<1>13. CASE Leave(p)
  BY <1>13, Zenon DEF Leave, Return, Goto, LocalsOf, Plain, WithSlot, Waiting, Inside, Carrying, WipeFile
<1>14. CASE PutFile(p)
  BY <1>14, Zenon DEF PutFile, Return, Goto, LocalsOf, Plain, WithSlot, Waiting, Inside, Carrying, WipeFile
<1>15. CASE \E q \in Procs : sys_fork(p, q)
  BY <1>15, Zenon DEF sys_fork, LocalsOf, Plain, WithSlot, Waiting, Inside, Carrying, WipeFile
<1>16. CASE filetable_copy(p)
  BY <1>16, Zenon DEF filetable_copy, LocalsOf, Plain, WithSlot, Waiting, Inside, Carrying, WipeFile
<1>17. CASE ForkDone(p)
  BY <1>17 DEF ForkDone, Goto, LocalsOf, Plain, WithSlot, Waiting, Inside, Carrying, WipeFile
<1>18. CASE sys__exit(p)
  BY <1>18, Zenon DEF sys__exit, Goto, LocalsOf, Plain, WithSlot, Waiting, Inside, Carrying, WipeFile
<1>19. CASE filetable_destroy(p)
  BY <1>19 DEF filetable_destroy, Goto, LocalsOf, Plain, WithSlot, Waiting, Inside, Carrying, WipeFile
<1>20. CASE WipeNull(p)
  BY <1>20, Zenon DEF WipeNull, Goto, LocalsOf, Plain, WithSlot, Waiting, Inside, Carrying, WipeFile
<1>21. CASE WipeDone(p)
  BY <1>21, Zenon DEF WipeDone, LocalsOf, Plain, WithSlot, Waiting, Inside, Carrying, WipeFile
<1> QED BY <1>1, <1>2, <1>3, <1>4, <1>5, <1>6, <1>7, <1>8, <1>9, <1>10, <1>11, <1>12, <1>13, <1>14, <1>15, <1>16, <1>17, <1>18, <1>19, <1>20, <1>21, Zenon DEF SafeStep

----------------------------------------------------------------------------
\* Every step keeps the positions fresh.

\* The other processes in an offset section stay there with what they had.
LEMMA Section_Others ==
  ASSUME FileInv, NEW p \in Procs, Alone(p)
  PROVE  \A q \in Procs \ {p} :
           /\ InOffsetSection(q)' <=> InOffsetSection(q)
           /\ file'[q] = file[q] /\ pos'[q] = pos[q]
           /\ InOffsetSection(q) => /\ file[q] \in Files /\ of_offsetlock[file[q]] = q /\ q # NULL
                                   /\ of_refcount[file[q]] > 0 /\ pos[q] = of_offset[file[q]]
<1>1. \A q \in Procs \ {p} : (InOffsetSection(q)' <=> InOffsetSection(q)) /\ file'[q] = file[q] /\ pos'[q] = pos[q]
  BY Zenon DEF Alone, InOffsetSection
<1>2. \A q \in Procs : InOffsetSection(q) => file[q] \in Files
  BY Zenon DEF FileInv, LocalsRight, InOffsetSection, WithSlot, Inside
<1>3. \A q \in Procs : InOffsetSection(q) =>
        of_offsetlock[file[q]] = q /\ of_refcount[file[q]] > 0 /\ pos[q] = of_offset[file[q]]
  BY Zenon DEF FileInv, OffsetNotStale
<1> QED BY <1>1, <1>2, <1>3, NullAssumption, Zenon

\* The lock of a file in use is held by a process in its offset section.
LEMMA Holder ==
  ASSUME FileInv, NEW f \in Files, of_refcount[f] > 0, of_offsetlock[f] # NULL
  PROVE  of_offsetlock[f] \in Procs /\ InOffsetSection(of_offsetlock[f]) /\ file[of_offsetlock[f]] = f
<1>1. of_offsetlock[f] \in Procs
  BY Zenon DEF FileInv, FileTypeOK
<1> QED BY <1>1, Zenon DEF FileInv, OffsetNotStale

\* A step outside the sections that leaves the offsets alone.
LEMMA Offsets_Kept ==
  ASSUME FileInv, FileTypeOK', NEW p \in Procs, Alone(p), UNCHANGED <<of_offset, of_offsetlock>>,
         ~InOffsetSection(p), ~InOffsetSection(p)',
         \A f \in Files : of_refcount'[f] > 0 => of_refcount[f] > 0,
         \A q \in Procs \ {p} : InOffsetSection(q) => of_refcount'[file[q]] > 0
  PROVE  OffsetNotStale'
<1>1. ASSUME NEW q \in Procs, InOffsetSection(q)'
      PROVE  of_offsetlock'[file'[q]] = q /\ of_refcount'[file'[q]] > 0 /\ pos'[q] = of_offset'[file'[q]]
  <2>1. q \in Procs \ {p}
    BY <1>1, Zenon
  <2> QED BY <1>1, <2>1, Section_Others, Zenon
<1>2. \A f \in Files : of_offset'[f] >= 0
  BY DEF FileTypeOK
<1>3. ASSUME NEW f \in Files, of_refcount'[f] > 0, of_offsetlock'[f] # NULL
      PROVE  pc'[of_offsetlock'[f]] \in {"rw_io", "lseek_stat"} /\ file'[of_offsetlock'[f]] = f
  <2>1. of_offsetlock[f] \in Procs /\ InOffsetSection(of_offsetlock[f]) /\ file[of_offsetlock[f]] = f
    BY <1>3, Holder, Zenon
  <2>2. of_offsetlock[f] \in Procs \ {p}
    BY <2>1, Zenon
  <2>3. pc'[of_offsetlock[f]] = pc[of_offsetlock[f]] /\ file'[of_offsetlock[f]] = f
    BY <2>1, <2>2, Zenon DEF Alone, InOffsetSection
  <2> QED BY <2>1, <2>3, Zenon DEF InOffsetSection
<1> QED BY <1>1, <1>2, <1>3, Zenon DEF OffsetNotStale, InOffsetSection

\* A step that changes one file, one that no other process is in an offset section of.
LEMMA Offsets_Change ==
  ASSUME FileInv, FileTypeOK', NEW p \in Procs, Alone(p), NEW f \in Files,
         \A g \in Files \ {f} : /\ of_offset'[g] = of_offset[g] /\ of_offsetlock'[g] = of_offsetlock[g]
                                /\ of_refcount'[g] = of_refcount[g],
         \A q \in Procs \ {p} : InOffsetSection(q) => file[q] # f,
         InOffsetSection(p) => file[p] = f,
         InOffsetSection(p)' => /\ file'[p] = f /\ of_offsetlock'[f] = p
                                /\ of_refcount'[f] > 0 /\ pos'[p] = of_offset'[f],
         of_offsetlock'[f] # NULL => of_offsetlock'[f] = p /\ InOffsetSection(p)'
  PROVE  OffsetNotStale'
<1>1. ASSUME NEW q \in Procs, InOffsetSection(q)'
      PROVE  of_offsetlock'[file'[q]] = q /\ of_refcount'[file'[q]] > 0 /\ pos'[q] = of_offset'[file'[q]]
  <2>1. CASE q = p
    BY <1>1, <2>1, Zenon
  <2>2. CASE q # p
    <3>1. q \in Procs \ {p}
      BY <2>2, Zenon
    <3>2. file[q] \in Files \ {f}
      BY <1>1, <3>1, Section_Others, Zenon
    <3> QED BY <1>1, <3>1, <3>2, Section_Others
  <2> QED BY <2>1, <2>2, Zenon
<1>2. \A g \in Files : of_offset'[g] >= 0
  BY DEF FileTypeOK
<1>3. ASSUME NEW g \in Files, of_refcount'[g] > 0, of_offsetlock'[g] # NULL
      PROVE  pc'[of_offsetlock'[g]] \in {"rw_io", "lseek_stat"} /\ file'[of_offsetlock'[g]] = g
  <2>1. CASE g = f
    BY <1>3, <2>1, Zenon DEF InOffsetSection
  <2>2. CASE g # f
    <3>1. of_offsetlock'[g] = of_offsetlock[g] /\ of_refcount[g] > 0 /\ of_offsetlock[g] # NULL
      BY <1>3, <2>2, Zenon
    <3>2. of_offsetlock[g] \in Procs /\ InOffsetSection(of_offsetlock[g]) /\ file[of_offsetlock[g]] = g
      BY <3>1, Holder, Zenon
    <3>3. of_offsetlock[g] # p
      BY <2>2, <3>2, Zenon
    <3>4. pc'[of_offsetlock[g]] = pc[of_offsetlock[g]] /\ file'[of_offsetlock[g]] = g
      BY <3>2, <3>3, Zenon DEF Alone, InOffsetSection
    <3> QED BY <3>1, <3>2, <3>4, Zenon DEF InOffsetSection
  <2> QED BY <2>1, <2>2, Zenon
<1> QED BY <1>1, <1>2, <1>3, Zenon DEF OffsetNotStale, InOffsetSection

\* The file of a process in its offset section is not freed by another's release.
LEMMA Section_Counts ==
  ASSUME FileInv, CountsRefs, NEW p \in Procs, pc[p] \in Carrying \cup WipeFile, NEW q \in Procs, InOffsetSection(q),
         file[q] = file[p]
  PROVE  of_refcount[file[p]] >= 2
<1>1. file[p] \in Files /\ fd[q] \in Fds /\ ft[q][fd[q]] = file[p]
  BY Zenon DEF FileInv, LocalsRight, InOffsetSection, WithSlot, Inside
<1>2. <<q, fd[q]>> \in Slots(file[p])
  BY <1>1, Slot_Counts, NullAssumption, Zenon DEF FileInv, InOffsetSection, Wiping, WipeFile
<1>3. CASE pc[p] \in Carrying
  BY <1>1, <1>2, <1>3, Carry_Counts, Two_Refs, Zenon DEF FileInv
<1>4. CASE pc[p] \in WipeFile
  <2>1. <<tbl[p], fd[p]>> \in Slots(file[p])
    BY <1>4, Wipe_Counts, Zenon DEF FileInv
  <2>2. tbl[p] # q
    BY <1>4, Zenon DEF FileInv, TablesOwned, InOffsetSection, WipeFile
  <2> QED BY <1>1, <1>2, <2>1, <2>2, Two_Refs, Zenon DEF FileInv
<1> QED BY <1>3, <1>4, Zenon

LEMMA Open_Offsets ==
  ASSUME FileInv, FileTypeOK', NEW p \in Procs, Alone(p), NEW f \in Files, NEW b, openfile_open(f, b),
         ~InOffsetSection(p), ~InOffsetSection(p)'
  PROVE  OffsetNotStale'
<1>1. /\ of_refcount \in [Files -> Nat] /\ of_offset \in [Files -> Nat]
      /\ of_offsetlock \in [Files -> Procs \cup {NULL}]
  BY Zenon DEF FileInv, FileTypeOK
<1>2. \A g \in Files \ {f} : /\ of_offset'[g] = of_offset[g] /\ of_offsetlock'[g] = of_offsetlock[g]
                             /\ of_refcount'[g] = of_refcount[g]
  BY <1>1, Zenon DEF openfile_open
<1>3. of_offsetlock'[f] = NULL /\ of_refcount[f] = 0
  BY <1>1, Zenon DEF openfile_open
<1>4. \A q \in Procs \ {p} : InOffsetSection(q) => file[q] # f
  BY <1>3, Section_Others
<1> QED BY <1>2, <1>3, <1>4, Offsets_Change, Zenon

LEMMA Offsets_Step ==
  ASSUME FileInv, CountsRefs, FileTypeOK', NEW p \in Procs, SafeStep(p), Alone(p)
  PROVE  OffsetNotStale'
<1>t. /\ of_refcount \in [Files -> Nat] /\ of_offset \in [Files -> Nat] /\ of_offsetlock \in [Files -> Procs \cup {NULL}]
      /\ ProcTypeOK /\ pc \in [Procs -> Labels]
  BY Zenon DEF FileInv, FileTypeOK, ProcTypeOK
<1>s. \A q \in Procs \ {p} : InOffsetSection(q) => file[q] \in Files /\ of_refcount[file[q]] > 0
  BY Section_Others, Zenon
<1>1. CASE \/ runprogram(p) \/ StdfdsDone(p) \/ filetable_place(p) \/ (\E d \in Fds : sys_close(p, d))
          \/ GetFile(p) \/ Dup2Place(p) \/ LastDrop(p) \/ PutFile(p)
          \/ (\E q \in Procs : sys_fork(p, q)) \/ ForkDone(p) \/ sys__exit(p)
          \/ filetable_destroy(p) \/ WipeNull(p) \/ WipeDone(p)
  <2>1. UNCHANGED <<of_refcount, of_offset, of_offsetlock>>
    BY <1>1, Zenon DEF filevars, runprogram, StdfdsDone, filetable_place, sys_close, GetFile, filetable_get, Dup2Place,
                LastDrop, PutFile, sys_fork, ForkDone, sys__exit, filetable_destroy, WipeNull, WipeDone
  <2>2. ~InOffsetSection(p)
    BY <1>1, Zenon DEF InOffsetSection, runprogram, StdfdsDone, filetable_place, sys_close, GetFile, filetable_get, Dup2Place,
                LastDrop, PutFile, sys_fork, ForkDone, sys__exit, filetable_destroy, WipeNull, WipeDone
  <2>3. pc'[p] \notin {"rw_io", "lseek_stat"}
    BY <1>t, <1>1, Zenon DEF Goto, Return, Waiting, runprogram, StdfdsDone, filetable_place, sys_close, GetFile, filetable_get,
                      Dup2Place, LastDrop, PutFile, sys_fork, ForkDone, sys__exit, filetable_destroy, WipeNull, WipeDone
  <2>4. ~InOffsetSection(p)'
    BY <2>3, Zenon DEF InOffsetSection
  <2> QED BY <1>s, <2>1, <2>2, <2>4, Offsets_Kept, Zenon
<1>2. CASE PlacedOpen(p)
  <2>1. PICK f \in Files : openfile_open(f, FALSE)
    BY <1>2, Zenon DEF PlacedOpen
  <2>2. ~InOffsetSection(p) /\ ~InOffsetSection(p)'
    BY <1>t, <1>2, Zenon DEF PlacedOpen, InOffsetSection
  <2> QED BY <2>1, <2>2, Open_Offsets, Zenon
<1>3. CASE sys_open(p)
  <2>1. PICK f \in Files, b \in BOOLEAN : openfile_open(f, b)
    BY <1>3, Zenon DEF sys_open
  <2>2. ~InOffsetSection(p) /\ ~InOffsetSection(p)'
    BY <1>t, <1>3, Zenon DEF sys_open, Goto, InOffsetSection
  <2> QED BY <2>1, <2>2, Open_Offsets, Zenon
<1>4. CASE (\E oldfd, newfd \in Fds : sys_dup2(p, oldfd, newfd)) \/ filetable_copy(p)
  <2>1. UNCHANGED <<of_offset, of_offsetlock>> /\ ~InOffsetSection(p) /\ ~InOffsetSection(p)'
    BY <1>t, <1>4, Zenon DEF sys_dup2, filetable_copy, Goto, InOffsetSection
  <2>2. (\E f \in Files : openfile_incref(f)) \/ UNCHANGED of_refcount
    <3>1. CASE filetable_copy(p)
      <4>1. fd[p] \in Fds
        BY <1>t, <3>1, Descriptors, Local_Update, Zenon DEF filetable_copy
      <4> QED BY <1>t, <3>1, <4>1, Ft_Update, Zenon DEF filetable_copy
    <3>2. CASE \E oldfd, newfd \in Fds : sys_dup2(p, oldfd, newfd)
      BY <1>t, <3>2, Ft_Update, Zenon DEF sys_dup2
    <3> QED BY <1>4, <3>1, <3>2, Zenon
  <2>3. /\ \A q \in Procs \ {p} : InOffsetSection(q) => of_refcount'[file[q]] > 0
    BY <1>t, <1>s, <2>2 DEF openfile_incref
  <2>4. \A f \in Files : of_refcount'[f] > 0 => of_refcount[f] > 0
    <3>1. CASE filetable_copy(p)
      <4>1. fd[p] \in Fds /\ pc[p] = "fork"
        BY <1>t, <3>1, Descriptors, Local_Update, Zenon DEF filetable_copy
      <4>2. ft[p][fd[p]] # NULL => ft[p][fd[p]] \in Files /\ of_refcount[ft[p][fd[p]]] >= 1
        BY <4>1, Slot_Counts, Two_Refs, Zenon DEF FileInv, Wiping, WipeFile
      <4> QED BY <1>t, <3>1, <4>2 DEF filetable_copy, openfile_incref
    <3>2. CASE \E oldfd, newfd \in Fds : sys_dup2(p, oldfd, newfd)
      <4>1. PICK oldfd \in Fds, newfd \in Fds : sys_dup2(p, oldfd, newfd)
        BY <3>2, Zenon
      <4>2. ft[p][oldfd] \in Files /\ of_refcount[ft[p][oldfd]] >= 1
        BY <4>1, Slot_Counts, Two_Refs, Zenon DEF FileInv, sys_dup2, Wiping, WipeFile
      <4> QED BY <1>t, <4>1, <4>2 DEF sys_dup2, openfile_incref
    <3> QED BY <1>4, <3>1, <3>2, Zenon
  <2> QED BY <2>1, <2>3, <2>4, Offsets_Kept, Zenon
<1>5. CASE Release(p)
  <2>1. UNCHANGED <<of_offset, of_offsetlock>> /\ ~InOffsetSection(p) /\ ~InOffsetSection(p)'
    BY <1>t, <1>5, Zenon DEF Release, AfterDecref, Return, Goto, InOffsetSection
  <2>2. of_refcount' = [of_refcount EXCEPT ![file[p]] = @ - 1] /\ pc[p] \in Carrying \cup WipeFile
    BY <1>5, Zenon DEF Release, Carrying, WipeFile
  <2>3. file[p] \in Files
    BY <2>2, Zenon DEF FileInv, LocalsRight
  <2>4. \A f \in Files : of_refcount'[f] > 0 => of_refcount[f] > 0
    BY <1>t, <2>2, <2>3
  <2>5. \A q \in Procs \ {p} : InOffsetSection(q) => of_refcount'[file[q]] > 0
    BY <1>t, <1>s, <2>2, <2>3, Section_Counts
  <2> QED BY <2>1, <2>4, <2>5, Offsets_Kept, Zenon
<1>6. CASE Enter(p)
  <2>1. file[p] \in Files /\ fd[p] \in Fds /\ ft[p][fd[p]] = file[p] /\ ~InOffsetSection(p)
    BY <1>6, Zenon DEF Enter, FileInv, LocalsRight, WithSlot, Waiting, InOffsetSection
  <2>2. of_refcount[file[p]] > 0
    <3>1. <<p, fd[p]>> \in Slots(file[p])
      BY <1>6, <2>1, Slot_Counts, NullAssumption, Zenon DEF Enter, FileInv, Waiting, Wiping, WipeFile
    <3> QED BY <1>t, <2>1, <3>1, Two_Refs DEF FileInv
  <2>3. /\ file' = file /\ of_offsetlock'[file[p]] = p /\ of_refcount' = of_refcount /\ of_offset' = of_offset
        /\ pos'[p] = of_offset[file[p]]
    BY <1>t, <1>6, <2>1, Zenon DEF Enter, ProcTypeOK
  <2>4. InOffsetSection(p)'
    BY <1>t, <1>6, Zenon DEF Enter, Goto, Inside, InOffsetSection
  <2>5. \A g \in Files \ {file[p]} : of_offsetlock'[g] = of_offsetlock[g]
    BY <1>t, <1>6, Zenon DEF Enter
  <2>6. \A q \in Procs \ {p} : InOffsetSection(q) => file[q] # file[p]
    BY <1>6, Section_Others, Zenon DEF Enter
  <2> DEFINE f == file[p]
  <2>7. f \in Files /\ file'[p] = f
    BY <2>1, <2>3, Zenon
  <2>8. /\ \A g \in Files \ {f} : /\ of_offset'[g] = of_offset[g] /\ of_offsetlock'[g] = of_offsetlock[g]
                                  /\ of_refcount'[g] = of_refcount[g]
        /\ \A q \in Procs \ {p} : InOffsetSection(q) => file[q] # f
        /\ file[p] = f /\ of_offsetlock'[f] = p /\ of_refcount'[f] > 0 /\ pos'[p] = of_offset'[f]
    BY <2>2, <2>3, <2>5, <2>6, Zenon
  <2> HIDE DEF f
  <2> QED BY <2>4, <2>7, <2>8, Offsets_Change, Zenon
<1>7. CASE Leave(p)
  <2>1. file[p] \in Files /\ InOffsetSection(p)
    BY <1>7, Zenon DEF Leave, FileInv, LocalsRight, WithSlot, Inside, InOffsetSection
  <2>2. of_offsetlock'[file[p]] = NULL /\ of_refcount' = of_refcount /\ of_offsetlock[file[p]] = p
    BY <1>t, <1>7, <2>1, Zenon DEF Leave, FileInv, OffsetNotStale
  <2>3. ~InOffsetSection(p)'
    BY <1>t, <1>7, Zenon DEF Leave, Return, Goto, InOffsetSection
  <2>4. \A g \in Files \ {file[p]} : of_offsetlock'[g] = of_offsetlock[g] /\ of_offset'[g] = of_offset[g]
    BY <1>t, <1>7, Zenon DEF Leave
  <2>5. \A q \in Procs \ {p} : InOffsetSection(q) => file[q] # file[p]
    BY <2>2, Section_Others, Zenon
  <2> DEFINE f == file[p]
  <2>6. /\ \A g \in Files \ {f} : /\ of_offset'[g] = of_offset[g] /\ of_offsetlock'[g] = of_offsetlock[g]
                                  /\ of_refcount'[g] = of_refcount[g]
        /\ \A q \in Procs \ {p} : InOffsetSection(q) => file[q] # f
        /\ f \in Files /\ file[p] = f /\ of_offsetlock'[f] = NULL
    BY <2>1, <2>2, <2>4, <2>5, Zenon
  <2> HIDE DEF f
  <2> QED BY <2>3, <2>6, Offsets_Change, Zenon
<1> QED BY <1>1, <1>2, <1>3, <1>4, <1>5, <1>6, <1>7, Zenon DEF SafeStep

----------------------------------------------------------------------------
\* Every step counts the references it makes and drops.

One(v, g) == IF v = g THEN 1 ELSE 0

\* A step that changes at most slot d of its table and its own reference, and counts both.
SlotWas(p, d) == IF pc[p] = "wipe_null" /\ fd[p] = d THEN NULL ELSE ft[tbl[p]][d]
SlotIs(p, d) == IF pc'[p] = "wipe_null" /\ fd[p] = d THEN NULL ELSE ft'[tbl[p]][d]
CallHad(p) == IF pc[p] \in Carrying THEN file[p] ELSE NULL
CallHas(p) == IF pc'[p] \in Carrying THEN file'[p] ELSE NULL

OneSlot(p, d) == \A e \in Fds : e # d => SlotIs(p, e) = SlotWas(p, e)
Balanced(p, d) ==
  \A g \in Files : of_refcount'[g] =
    of_refcount[g] + One(SlotIs(p, d), g) - One(SlotWas(p, d), g) + One(CallHas(p), g) - One(CallHad(p), g)

Accounted(p) == \E d \in Fds : OneSlot(p, d) /\ Balanced(p, d)

LEMMA Is_Accounted ==
  ASSUME NEW p, NEW d \in Fds, OneSlot(p, d), Balanced(p, d)
  PROVE  Accounted(p)
BY Zenon DEF Accounted

LEMMA One_Facts ==
  ASSUME NEW g \in Files
  PROVE  One(NULL, g) = 0 /\ \A v : One(v, g) \in {0, 1}
BY NullAssumption, Zenon DEF One

\* A step that makes and drops no reference.
LEMMA Accounted_Same ==
  ASSUME FileInv, NEW p \in Procs, Alone(p), UNCHANGED of_refcount, ft'[tbl[p]] = ft[tbl[p]],
         pc[p] # "wipe_null", pc'[p] # "wipe_null", CallHas(p) = CallHad(p)
  PROVE  Accounted(p)
<1>1. 0 \in Fds
  BY SizeAssumption DEF Fds
<1>2. \A e \in Fds : SlotIs(p, e) = SlotWas(p, e)
  BY Zenon DEF SlotIs, SlotWas
<1>3. \A g \in Files : of_refcount[g] \in Nat
  BY Zenon DEF FileInv, FileTypeOK
<1>4. Balanced(p, 0)
  BY <1>1, <1>2, <1>3, One_Facts DEF Balanced
<1> QED BY <1>1, <1>2, <1>4, Is_Accounted, Zenon DEF OneSlot

LEMMA Accounted_Step ==
  ASSUME FileInv, NEW p \in Procs, SafeStep(p), Alone(p)
  PROVE  Accounted(p)
<1> /\ ft \in [Procs -> [Fds -> Files \cup {NULL}]] /\ pc \in [Procs -> Labels] /\ file \in [Procs -> Files \cup {NULL}]
    /\ tbl \in [Procs -> Procs] /\ fd \in [Procs -> 0..OPEN_MAX] /\ of_refcount \in [Files -> Nat]
    /\ tbl[p] \in Procs
  BY Zenon DEF FileInv, ProcTypeOK, FileTypeOK
<1> LocalsOf(p)
  BY Zenon DEF FileInv, LocalsRight, LocalsOf
<1> tbl[p] # p => pc[p] \in Wiping \cup {"fork"}
  BY Zenon DEF FileInv, TablesOwned
<1> 0 \in Fds
  BY SizeAssumption DEF Fds
<1> \A g \in Files : One(NULL, g) = 0 /\ \A v : One(v, g) \in {0, 1}
  BY One_Facts, Zenon
<1>1. CASE runprogram(p)
  <2> /\ UNCHANGED of_refcount /\ ft'[tbl[p]] = ft[tbl[p]]
      /\ pc[p] # "wipe_null" /\ pc'[p] # "wipe_null" /\ CallHas(p) = CallHad(p)
    BY <1>1, Zenon DEF runprogram, Goto, filevars, CallHas, CallHad, Carrying
  <2> QED BY Accounted_Same, Zenon
<1>2. CASE PlacedOpen(p)
  <2> USE <1>2
  <2> tbl[p] = p /\ fd[p] \in Fds
    BY Descriptors, Zenon DEF PlacedOpen, Wiping, WipeFile
  <2> PICK f \in Files : of_refcount[f] = 0 /\ of_refcount' = [of_refcount EXCEPT ![f] = 1] /\ ft' = [ft EXCEPT ![p][fd[p]] = f]
    BY Zenon DEF PlacedOpen, openfile_open
  <2> /\ SlotIs(p, fd[p]) = f /\ SlotWas(p, fd[p]) = NULL /\ CallHas(p) = NULL /\ CallHad(p) = NULL
      /\ OneSlot(p, fd[p])
    BY DEF PlacedOpen, SlotIs, SlotWas, CallHas, CallHad, OneSlot, Carrying
  <2> Balanced(p, fd[p])
    BY DEF Balanced, One
  <2> QED BY Is_Accounted, Zenon
<1>3. CASE StdfdsDone(p)
  <2> /\ UNCHANGED of_refcount /\ ft'[tbl[p]] = ft[tbl[p]]
      /\ pc[p] # "wipe_null" /\ pc'[p] # "wipe_null" /\ CallHas(p) = CallHad(p)
    BY <1>3, Zenon DEF StdfdsDone, Goto, filevars, CallHas, CallHad, Carrying
  <2> QED BY Accounted_Same, Zenon
<1>4. CASE sys_open(p)
  <2> USE <1>4
  <2> PICK f \in Files : of_refcount[f] = 0 /\ of_refcount' = [of_refcount EXCEPT ![f] = 1] /\ file' = [file EXCEPT ![p] = f]
    BY Zenon DEF sys_open, openfile_open
  <2> /\ SlotIs(p, 0) = SlotWas(p, 0) /\ CallHas(p) = f /\ CallHad(p) = NULL /\ OneSlot(p, 0)
    BY Zenon DEF sys_open, Goto, SlotIs, SlotWas, CallHas, CallHad, OneSlot, Carrying
  <2> Balanced(p, 0)
    BY DEF Balanced, One
  <2> QED BY Is_Accounted, Zenon
<1>5. CASE filetable_place(p)
  <2> USE <1>5
  <2> tbl[p] = p /\ file[p] \in Files /\ UNCHANGED of_refcount
    BY Zenon DEF filetable_place, filevars, LocalsOf, Carrying, Wiping, WipeFile
  <2>1. CASE Goto(p, "decref") /\ UNCHANGED <<ft, file>>
    <3>1. pc[p] # "wipe_null" /\ pc'[p] # "wipe_null" /\ CallHas(p) = CallHad(p)
      BY <2>1, Zenon DEF filetable_place, Goto, CallHas, CallHad, Carrying
    <3> QED BY <2>1, <3>1, Accounted_Same, Zenon
  <2>2. ASSUME NEW d \in Fds, ft[p][d] = NULL, ft' = [ft EXCEPT ![p][d] = file[p]], Return(p)
        PROVE  Accounted(p)
    <3>1. /\ SlotIs(p, d) = file[p] /\ SlotWas(p, d) = NULL /\ CallHas(p) = NULL /\ CallHad(p) = file[p]
          /\ OneSlot(p, d)
      BY <2>2 DEF filetable_place, Return, Goto, SlotIs, SlotWas, CallHas, CallHad, OneSlot, Carrying
    <3>2. Balanced(p, d)
      BY <3>1 DEF Balanced
    <3> QED BY <3>1, <3>2, Is_Accounted, Zenon
  <2> QED BY <2>1, <2>2, Zenon DEF filetable_place
<1>6. CASE \E d \in Fds : sys_close(p, d)
  <2> PICK d \in Fds : sys_close(p, d)
    BY <1>6, Zenon
  <2> tbl[p] = p /\ UNCHANGED of_refcount
    BY Zenon DEF sys_close, filevars, Wiping, WipeFile
  <2> /\ SlotIs(p, d) = NULL /\ SlotWas(p, d) = ft[p][d] /\ CallHas(p) = ft[p][d] /\ CallHad(p) = NULL
      /\ OneSlot(p, d)
    BY Zenon DEF sys_close, Goto, SlotIs, SlotWas, CallHas, CallHad, OneSlot, Carrying
  <2> Balanced(p, d)
    BY DEF Balanced
  <2> QED BY Is_Accounted, Zenon
<1>7. CASE GetFile(p)
  <2> /\ UNCHANGED of_refcount /\ ft'[tbl[p]] = ft[tbl[p]]
      /\ pc[p] # "wipe_null" /\ pc'[p] # "wipe_null" /\ CallHas(p) = CallHad(p)
    BY <1>7, Zenon DEF GetFile, filetable_get, Goto, filevars, CallHas, CallHad, Carrying, Waiting, Inside
  <2> QED BY Accounted_Same, Zenon
<1>8. CASE \E oldfd, newfd \in Fds : sys_dup2(p, oldfd, newfd)
  <2> PICK oldfd \in Fds, newfd \in Fds : sys_dup2(p, oldfd, newfd)
    BY <1>8, Zenon
  <2> ft[p][oldfd] \in Files /\ of_refcount' = [of_refcount EXCEPT ![ft[p][oldfd]] = @ + 1]
    BY DEF sys_dup2, openfile_incref
  <2> SlotIs(p, 0) = SlotWas(p, 0) /\ CallHas(p) = ft[p][oldfd] /\ CallHad(p) = NULL /\ OneSlot(p, 0)
    BY Zenon DEF sys_dup2, Goto, SlotIs, SlotWas, CallHas, CallHad, OneSlot, Carrying
  <2> Balanced(p, 0)
    BY DEF Balanced, One
  <2> QED BY Is_Accounted, Zenon
<1>9. CASE Dup2Place(p)
  <2> USE <1>9
  <2> tbl[p] = p /\ fd[p] \in Fds /\ file[p] \in Files /\ UNCHANGED of_refcount
    BY Zenon DEF Dup2Place, filevars, LocalsOf, Carrying, Wiping, WipeFile
  <2> /\ SlotIs(p, fd[p]) = file[p] /\ SlotWas(p, fd[p]) = ft[p][fd[p]] /\ CallHad(p) = file[p]
      /\ OneSlot(p, fd[p])
    BY DEF Dup2Place, Return, Goto, SlotIs, SlotWas, CallHad, OneSlot, Carrying
  <2> CallHas(p) = ft[p][fd[p]]
    BY Zenon DEF Dup2Place, Return, Goto, CallHas, Carrying
  <2> Balanced(p, fd[p])
    BY DEF Balanced
  <2> QED BY Is_Accounted, Zenon
<1>10. CASE LastDrop(p)
  <2> /\ UNCHANGED of_refcount /\ ft'[tbl[p]] = ft[tbl[p]]
      /\ pc[p] # "wipe_null" /\ pc'[p] # "wipe_null" /\ CallHas(p) = CallHad(p)
    BY <1>10, Zenon DEF LastDrop, Goto, filevars, CallHas, CallHad, Carrying
  <2> QED BY Accounted_Same, Zenon
<1>11. CASE Release(p)
  <2> USE <1>11
  <2> file[p] \in Files /\ of_refcount' = [of_refcount EXCEPT ![file[p]] = @ - 1] /\ UNCHANGED ft
    BY Zenon DEF Release, LocalsOf, Carrying, WipeFile
  <2>1. CASE pc[p] \in {"decref", "destroy"}
    <3>1. /\ SlotIs(p, 0) = SlotWas(p, 0) /\ CallHas(p) = NULL /\ CallHad(p) = file[p] /\ OneSlot(p, 0)
      BY <2>1, Zenon DEF Release, AfterDecref, Return, Goto, SlotIs, SlotWas, CallHas, CallHad, OneSlot, Carrying
    <3>2. Balanced(p, 0)
      BY <3>1 DEF Balanced, One
    <3> QED BY <3>1, <3>2, Is_Accounted, Zenon
  <2>2. CASE pc[p] \in WipeFile
    <3>0. fd[p] \in Fds /\ ft[tbl[p]][fd[p]] = file[p]
      BY <2>2, Zenon DEF LocalsOf
    <3>1. /\ SlotIs(p, fd[p]) = NULL /\ SlotWas(p, fd[p]) = file[p] /\ CallHas(p) = NULL /\ CallHad(p) = NULL
          /\ OneSlot(p, fd[p])
      BY <2>2, <3>0, Zenon DEF Release, AfterDecref, Goto, SlotIs, SlotWas, CallHas, CallHad, OneSlot, Carrying, WipeFile
    <3>2. Balanced(p, fd[p])
      BY <3>1 DEF Balanced, One
    <3> QED BY <3>0, <3>1, <3>2, Is_Accounted, Zenon
  <2> QED BY <2>1, <2>2, Zenon DEF Release, WipeFile
<1>12. CASE Enter(p)
  <2> /\ UNCHANGED of_refcount /\ ft'[tbl[p]] = ft[tbl[p]]
      /\ pc[p] # "wipe_null" /\ pc'[p] # "wipe_null" /\ CallHas(p) = CallHad(p)
    BY <1>12, Zenon DEF Enter, Goto, CallHas, CallHad, Carrying, Waiting, Inside
  <2> QED BY Accounted_Same, Zenon
<1>13. CASE Leave(p)
  <2> /\ UNCHANGED of_refcount /\ ft'[tbl[p]] = ft[tbl[p]]
      /\ pc[p] # "wipe_null" /\ pc'[p] # "wipe_null" /\ CallHas(p) = CallHad(p)
    BY <1>13, Zenon DEF Leave, Return, Goto, CallHas, CallHad, Carrying, Waiting, Inside
  <2> QED BY Accounted_Same, Zenon
<1>14. CASE PutFile(p)
  <2> /\ UNCHANGED of_refcount /\ ft'[tbl[p]] = ft[tbl[p]]
      /\ pc[p] # "wipe_null" /\ pc'[p] # "wipe_null" /\ CallHas(p) = CallHad(p)
    BY <1>14, Zenon DEF PutFile, Return, Goto, filevars, CallHas, CallHad, Carrying
  <2> QED BY Accounted_Same, Zenon
<1>15. CASE \E q \in Procs : sys_fork(p, q)
  <2> /\ UNCHANGED of_refcount /\ ft'[tbl[p]] = ft[tbl[p]]
      /\ pc[p] # "wipe_null" /\ pc'[p] # "wipe_null" /\ CallHas(p) = CallHad(p)
    BY <1>15 DEF sys_fork, filevars, CallHas, CallHad, Carrying
  <2> QED BY Accounted_Same, Zenon
<1>16. CASE filetable_copy(p)
  <2> USE <1>16
  <2> pc[p] = "fork" /\ fd[p] \in Fds /\ fd[p] <= fd[p]
    BY Descriptors DEF filetable_copy, Fds
  <2> ft[tbl[p]][fd[p]] = NULL
    BY Zenon DEF FileInv, LoopsKeepUp
  <2> /\ SlotIs(p, fd[p]) = ft[p][fd[p]] /\ SlotWas(p, fd[p]) = NULL /\ CallHas(p) = NULL /\ CallHad(p) = NULL
      /\ OneSlot(p, fd[p])
    BY Zenon DEF filetable_copy, SlotIs, SlotWas, CallHas, CallHad, OneSlot, Carrying
  <2>3. CASE ft[p][fd[p]] = NULL
    <3>1. Balanced(p, fd[p])
      BY <2>3 DEF filetable_copy, Balanced
    <3> QED BY <3>1, Is_Accounted, Zenon
  <2>4. CASE ft[p][fd[p]] # NULL
    <3>1. ft[p][fd[p]] \in Files /\ of_refcount' = [of_refcount EXCEPT ![ft[p][fd[p]]] = @ + 1]
      BY <2>4 DEF filetable_copy, openfile_incref
    <3>2. Balanced(p, fd[p])
      BY <3>1 DEF Balanced, One
    <3> QED BY <3>2, Is_Accounted, Zenon
  <2> QED BY <2>3, <2>4, Zenon
<1>17. CASE ForkDone(p)
  <2> /\ UNCHANGED of_refcount /\ ft'[tbl[p]] = ft[tbl[p]]
      /\ pc[p] # "wipe_null" /\ pc'[p] # "wipe_null" /\ CallHas(p) = CallHad(p)
    BY <1>17, Zenon DEF ForkDone, Goto, filevars, CallHas, CallHad, Carrying
  <2> QED BY Accounted_Same, Zenon
<1>18. CASE sys__exit(p)
  <2> /\ UNCHANGED of_refcount /\ ft'[tbl[p]] = ft[tbl[p]]
      /\ pc[p] # "wipe_null" /\ pc'[p] # "wipe_null" /\ CallHas(p) = CallHad(p)
    BY <1>18, Zenon DEF sys__exit, Goto, filevars, CallHas, CallHad, Carrying
  <2> QED BY Accounted_Same, Zenon
<1>19. CASE filetable_destroy(p)
  <2> /\ UNCHANGED of_refcount /\ ft'[tbl[p]] = ft[tbl[p]]
      /\ pc[p] # "wipe_null" /\ pc'[p] # "wipe_null" /\ CallHas(p) = CallHad(p)
    BY <1>19, Zenon DEF filetable_destroy, Goto, filevars, CallHas, CallHad, Carrying
  <2> QED BY Accounted_Same, Zenon
<1>20. CASE WipeNull(p)
  <2> USE <1>20
  <2> fd[p] \in Fds /\ UNCHANGED of_refcount
    BY Zenon DEF WipeNull, LocalsOf, filevars
  <2> /\ SlotIs(p, fd[p]) = NULL /\ SlotWas(p, fd[p]) = NULL /\ CallHas(p) = NULL /\ CallHad(p) = NULL
      /\ OneSlot(p, fd[p])
    BY Zenon DEF WipeNull, Goto, SlotIs, SlotWas, CallHas, CallHad, OneSlot, Carrying
  <2> Balanced(p, fd[p])
    BY DEF Balanced
  <2> QED BY Is_Accounted, Zenon
<1>21. CASE WipeDone(p)
  <2> /\ UNCHANGED of_refcount /\ ft'[tbl[p]] = ft[tbl[p]]
      /\ pc[p] # "wipe_null" /\ pc'[p] # "wipe_null" /\ CallHas(p) = CallHad(p)
    BY <1>21, Zenon DEF WipeDone, filevars, CallHas, CallHad, Carrying
  <2> QED BY Accounted_Same, Zenon
<1> QED BY <1>1, <1>2, <1>3, <1>4, <1>5, <1>6, <1>7, <1>8, <1>9, <1>10, <1>11, <1>12, <1>13, <1>14, <1>15, <1>16, <1>17, <1>18, <1>19, <1>20, <1>21, Zenon DEF SafeStep

----------------------------------------------------------------------------
\* Counting: slots and calls that refer to a file, as two functions.

INSTANCE FiniteSetTheorems

slot == [s \in Procs \X Fds |-> IF Dropped(s[1], s[2]) THEN NULL ELSE ft[s[1]][s[2]]]
carry == [p \in Procs |-> IF pc[p] \in Carrying THEN file[p] ELSE NULL]

Count(S, r, g) == Cardinality({x \in S : r[x] = g})

Differ(S, r, r2, x, g) == Count(S, r2, g) = Count(S, r, g) + One(r2[x], g) - One(r[x], g)

\* Changing a function at one argument changes the counts by that argument only.
LEMMA Count_Change ==
  ASSUME NEW S, IsFiniteSet(S), NEW r, NEW r2, NEW x \in S, NEW g,
         \A y \in S : y # x => r2[y] = r[y]
  PROVE  Differ(S, r, r2, x, g)
<1> DEFINE A == {y \in S : r[y] = g}
           B == {y \in S : r2[y] = g}
<1>1. IsFiniteSet(A) /\ IsFiniteSet(B)
  BY FS_Subset, Zenon
<1>2. Cardinality(A) \in Nat /\ Cardinality(B) \in Nat
  BY <1>1, FS_CardinalityType, Zenon
<1>3. A \ {x} = B \ {x}
  OBVIOUS
<1>4. Cardinality(A \ {x}) = IF x \in A THEN Cardinality(A) - 1 ELSE Cardinality(A)
  BY <1>1, FS_RemoveElement, Zenon
<1>5. Cardinality(B \ {x}) = IF x \in B THEN Cardinality(B) - 1 ELSE Cardinality(B)
  BY <1>1, FS_RemoveElement, Zenon
<1>6. (x \in A <=> r[x] = g) /\ (x \in B <=> r2[x] = g)
  OBVIOUS
<1> DEFINE a == Cardinality(A)
           b == Cardinality(B)
           rest == Cardinality(A \ {x})
<1>7. /\ a \in Nat /\ b \in Nat
      /\ rest = IF r[x] = g THEN a - 1 ELSE a
      /\ rest = IF r2[x] = g THEN b - 1 ELSE b
  BY <1>2, <1>3, <1>4, <1>5, <1>6, Zenon
<1> HIDE DEF a, b, rest
<1>8. b = a + One(r2[x], g) - One(r[x], g)
  BY <1>7 DEF One
<1> QED BY <1>8, Zenon DEF Differ, Count, a, b

\* The number of references that RefcountExact counts, as counts of slot and carry.
LEMMA Count_Refs ==
  ASSUME NEW f \in Files
  PROVE  /\ Cardinality(Slots(f)) = Count(Procs \X Fds, slot, f)
         /\ Cardinality(Carried(f)) = Count(Procs, carry, f)
         /\ IsFiniteSet(Slots(f)) /\ IsFiniteSet(Carried(f))
         /\ Cardinality(Slots(f)) \in Nat /\ Cardinality(Carried(f)) \in Nat
<1>1. Slots(f) = {s \in Procs \X Fds : slot[s] = f}
  BY NullAssumption, Zenon DEF Slots, slot
<1>2. Carried(f) = {p \in Procs : carry[p] = f}
  BY NullAssumption, Zenon DEF Carried, carry, Carrying
<1>3. IsFiniteSet(Procs) /\ IsFiniteSet(Fds)
  BY SizeAssumption, FS_Interval DEF Fds
<1>4. IsFiniteSet(Procs \X Fds)
  BY <1>3, FS_Product, Zenon
<1>5. IsFiniteSet(Slots(f)) /\ IsFiniteSet(Carried(f))
  BY <1>1, <1>2, <1>3, <1>4, FS_Subset, Zenon
<1> QED BY <1>1, <1>2, <1>5, FS_CardinalityType, Zenon DEF Count

\* A step that changes at most one slot and one call's own reference, and counts both.
LEMMA Refs_Change ==
  ASSUME RefcountExact, NEW s \in Procs \X Fds, NEW p \in Procs,
         \A u \in Procs \X Fds : u # s => slot'[u] = slot[u],
         \A q \in Procs : q # p => carry'[q] = carry[q],
         \A g \in Files : of_refcount'[g] =
           of_refcount[g] + One(slot'[s], g) - One(slot[s], g) + One(carry'[p], g) - One(carry[p], g)
  PROVE  RefcountExact'
<1> SUFFICES ASSUME NEW f \in Files
             PROVE  of_refcount'[f] = Cardinality(Slots(f))' + Cardinality(Carried(f))'
  BY Zenon DEF RefcountExact
<1>1. IsFiniteSet(Procs) /\ IsFiniteSet(Procs \X Fds)
  <2>1. IsFiniteSet(Procs) /\ IsFiniteSet(Fds)
    BY SizeAssumption, FS_Interval DEF Fds
  <2> QED BY <2>1, FS_Product, Zenon
<1>2. Count(Procs \X Fds, slot', f) = Count(Procs \X Fds, slot, f) + One(slot'[s], f) - One(slot[s], f)
  <2> DEFINE S == Procs \X Fds
             r == slot
             r2 == slot'
  <2>1. IsFiniteSet(S) /\ s \in S /\ \A y \in S : y # s => r2[y] = r[y]
    BY <1>1, Zenon
  <2> HIDE DEF S, r, r2
  <2>2. Differ(S, r, r2, s, f)
    BY <2>1, Count_Change, Zenon
  <2> QED BY <2>2, Zenon DEF S, r, r2, Differ
<1>3. Count(Procs, carry', f) = Count(Procs, carry, f) + One(carry'[p], f) - One(carry[p], f)
  <2> DEFINE r == carry
             r2 == carry'
  <2>1. \A y \in Procs : y # p => r2[y] = r[y]
    OBVIOUS
  <2> HIDE DEF r, r2
  <2>2. Differ(Procs, r, r2, p, f)
    BY <1>1, <2>1, Count_Change, Zenon
  <2> QED BY <2>2, Zenon DEF r, r2, Differ
<1>4. /\ Cardinality(Slots(f)) = Count(Procs \X Fds, slot, f)
      /\ Cardinality(Carried(f)) = Count(Procs, carry, f)
      /\ Cardinality(Slots(f)) \in Nat /\ Cardinality(Carried(f)) \in Nat
  BY Count_Refs, Zenon
<1>5. /\ Cardinality(Slots(f))' = Count(Procs \X Fds, slot', f)
      /\ Cardinality(Carried(f))' = Count(Procs, carry', f)
  <2>1. Slots(f)' = {u \in Procs \X Fds : slot'[u] = f}
    BY NullAssumption, Zenon DEF Slots, slot
  <2>2. Carried(f)' = {q \in Procs : carry'[q] = f}
    BY NullAssumption, Zenon DEF Carried, carry, Carrying
  <2> QED BY <2>1, <2>2, Zenon DEF Count
<1>6. of_refcount[f] = Cardinality(Slots(f)) + Cardinality(Carried(f))
  BY Zenon DEF RefcountExact
<1> QED BY <1>2, <1>3, <1>4, <1>5, <1>6 DEF One

\* Two references to a file are counted as two.
LEMMA Counts_Refs ==
  ASSUME RefcountExact, FileTypeOK
  PROVE  CountsRefs
<1> SUFFICES ASSUME NEW f \in Files
             PROVE  /\ \A s \in Slots(f) : of_refcount[f] >= 1
                    /\ \A p \in Carried(f) : of_refcount[f] >= 1
                    /\ \A s, u \in Slots(f) : s # u => of_refcount[f] >= 2
                    /\ \A p, q \in Carried(f) : p # q => of_refcount[f] >= 2
                    /\ \A s \in Slots(f), p \in Carried(f) : of_refcount[f] >= 2
  BY Zenon DEF CountsRefs
<1> DEFINE A == Slots(f)
           B == Carried(f)
           a == Cardinality(A)
           b == Cardinality(B)
<1>1. IsFiniteSet(A) /\ IsFiniteSet(B) /\ a \in Nat /\ b \in Nat /\ of_refcount[f] = a + b
  BY Count_Refs, Zenon DEF RefcountExact
<1> HIDE DEF A, B
<1>2. \A s \in A : a >= 1
  BY <1>1, FS_EmptySet
<1>3. \A p \in B : b >= 1
  BY <1>1, FS_EmptySet
<1>4. ASSUME NEW s \in A, NEW u \in A, s # u PROVE a >= 2
  <2>1. IsFiniteSet(A \ {s}) /\ Cardinality(A \ {s}) = a - 1
    BY <1>1, FS_RemoveElement, Zenon
  <2>2. A \ {s} # {}
    BY <1>4, Zenon
  <2>3. Cardinality(A \ {s}) # 0
    BY <2>1, <2>2, FS_EmptySet, Zenon
  <2> QED BY <1>1, <1>2, <2>1, <2>3
<1>5. ASSUME NEW s \in B, NEW u \in B, s # u PROVE b >= 2
  <2>1. IsFiniteSet(B \ {s}) /\ Cardinality(B \ {s}) = b - 1
    BY <1>1, FS_RemoveElement, Zenon
  <2>2. B \ {s} # {}
    BY <1>5, Zenon
  <2>3. Cardinality(B \ {s}) # 0
    BY <2>1, <2>2, FS_EmptySet, Zenon
  <2> QED BY <1>1, <1>3, <2>1, <2>3
<1> HIDE DEF a, b
<1>6. /\ \A s \in A : of_refcount[f] >= 1
      /\ \A p \in B : of_refcount[f] >= 1
      /\ \A s, u \in A : s # u => of_refcount[f] >= 2
      /\ \A p, q \in B : p # q => of_refcount[f] >= 2
      /\ \A s \in A, p \in B : of_refcount[f] >= 2
  BY <1>1, <1>2, <1>3, <1>4, <1>5
<1> QED BY <1>6, Zenon DEF A, B

----------------------------------------------------------------------------
\* What a slot and a call refer to before and after a step.
LEMMA Slot_Before ==
  ASSUME FileInv, NEW p \in Procs, pc[p] # "embryo", NEW d \in Fds
  PROVE  slot[<<tbl[p], d>>] = IF pc[p] = "wipe_null" /\ fd[p] = d THEN NULL ELSE ft[tbl[p]][d]
<1>1. tbl[p] \in Procs
  BY Zenon DEF FileInv, ProcTypeOK
<1>2. Dropped(tbl[p], d) <=> pc[p] = "wipe_null" /\ fd[p] = d
  BY Zenon DEF FileInv, TablesOwned, Dropped
<1>3. slot[<<tbl[p], d>>] = IF Dropped(tbl[p], d) THEN NULL ELSE ft[tbl[p]][d]
  BY <1>1, Zenon DEF slot
<1> QED BY <1>2, <1>3, Zenon

LEMMA Slot_After ==
  ASSUME FileInv, NEW p \in Procs, Alone(p), NEW t \in Procs, NEW d \in Fds
  PROVE  slot'[<<t, d>>] = IF t = tbl[p] THEN IF pc'[p] = "wipe_null" /\ fd[p] = d THEN NULL ELSE ft'[t][d]
                           ELSE slot[<<t, d>>]
<1>1. slot[<<t, d>>] = IF Dropped(t, d) THEN NULL ELSE ft[t][d]
  BY Zenon DEF slot
<1>2. slot'[<<t, d>>] = IF Dropped(t, d)' THEN NULL ELSE ft'[t][d]
  BY Zenon DEF slot
<1>3. Dropped(t, d)' <=> \E q \in Procs : pc'[q] = "wipe_null" /\ tbl'[q] = t /\ fd'[q] = d
  BY Zenon DEF Dropped
<1>4. \A q \in Procs \ {p} : (pc'[q] = "wipe_null" <=> pc[q] = "wipe_null") /\ tbl'[q] = tbl[q] /\ fd'[q] = fd[q]
  BY Zenon DEF Alone
<1>5. CASE t = tbl[p]
  <2>1. \A q \in Procs \ {p} : pc[q] = "wipe_null" => tbl[q] # t
    BY <1>5, Zenon DEF FileInv, TablesOwned, Alone
  <2>2. pc'[p] = "wipe_null" => tbl'[p] = t /\ fd'[p] = fd[p]
    BY <1>5, Zenon DEF Alone
  <2>3. Dropped(t, d)' <=> pc'[p] = "wipe_null" /\ fd[p] = d
    BY <1>3, <1>4, <2>1, <2>2, Zenon
  <2> QED BY <1>2, <1>5, <2>3, Zenon
<1>6. CASE t # tbl[p]
  <2>1. pc'[p] = "wipe_null" => tbl'[p] # t
    BY <1>6, Zenon DEF Alone
  <2>2. Dropped(t, d)' <=> Dropped(t, d)
    BY <1>3, <1>4, <1>6, <2>1, Zenon DEF Dropped
  <2>3. ft'[t] = ft[t]
    BY <1>6, Zenon DEF Alone
  <2> QED BY <1>1, <1>2, <1>6, <2>2, <2>3, Zenon
<1> QED BY <1>5, <1>6, Zenon

\* What the calls refer to: only the call that takes the step changes that.
LEMMA Carry_Others ==
  ASSUME FileInv, NEW p \in Procs, Alone(p)
  PROVE  /\ \A q \in Procs : q # p => carry'[q] = carry[q]
         /\ carry[p] = IF pc[p] \in Carrying THEN file[p] ELSE NULL
         /\ carry'[p] = IF pc'[p] \in Carrying THEN file'[p] ELSE NULL
<1>1. \A q \in Procs : carry[q] = IF pc[q] \in Carrying THEN file[q] ELSE NULL
  BY Zenon DEF carry
<1>2. \A q \in Procs : carry'[q] = IF pc'[q] \in Carrying THEN file'[q] ELSE NULL
  BY Zenon DEF carry
<1>3. \A q \in Procs : q # p => file'[q] = file[q] /\ (pc'[q] \in Carrying <=> pc[q] \in Carrying)
  BY Zenon DEF Alone, Carrying
<1> QED BY <1>1, <1>2, <1>3, Zenon

\* A step that accounts for its references keeps the counts exact.
LEMMA Refs_Balance ==
  ASSUME FileInv, NEW p \in Procs, Alone(p), Accounted(p)
  PROVE  RefcountExact'
<1>0. PICK d \in Fds : OneSlot(p, d) /\ Balanced(p, d)
  BY Zenon DEF Accounted
<1>1. tbl[p] \in Procs /\ pc[p] # "embryo" /\ RefcountExact
  BY Zenon DEF FileInv, ProcTypeOK, Alone
<1> DEFINE s == <<tbl[p], d>>
<1>2. ASSUME NEW e \in Fds
      PROVE  slot[<<tbl[p], e>>] = SlotWas(p, e) /\ slot'[<<tbl[p], e>>] = SlotIs(p, e)
  BY <1>1, Slot_Before, Slot_After DEF SlotWas, SlotIs
<1>3. carry[p] = CallHad(p) /\ carry'[p] = CallHas(p) /\ \A q \in Procs : q # p => carry'[q] = carry[q]
  BY Carry_Others, Zenon DEF CallHad, CallHas
<1>4. ASSUME NEW u \in Procs \X Fds, u # s PROVE slot'[u] = slot[u]
  <2>1. PICK t \in Procs, e \in Fds : u = <<t, e>>
    BY <1>4
  <2>2. CASE t # tbl[p]
    BY <2>1, <2>2, Slot_After
  <2>3. CASE t = tbl[p]
    BY <1>0, <1>2, <1>4, <2>1, <2>3, Zenon DEF OneSlot
  <2> QED BY <2>2, <2>3, Zenon
<1>5. s \in Procs \X Fds /\ slot[s] = SlotWas(p, d) /\ slot'[s] = SlotIs(p, d)
  BY <1>1, <1>2, Zenon
<1> HIDE DEF s
<1>6. \A g \in Files : of_refcount'[g] =
        of_refcount[g] + One(slot'[s], g) - One(slot[s], g) + One(carry'[p], g) - One(carry[p], g)
  BY <1>0, <1>3, <1>5, Zenon DEF Balanced
<1> QED BY <1>1, <1>3, <1>4, <1>5, <1>6, Refs_Change, Zenon

----------------------------------------------------------------------------
\* The invariant is inductive.
LEMMA File_Init ==
  ASSUME Init
  PROVE  FileInv
<1>1. FileTypeOK /\ ProcTypeOK
  <2>1. "none" \in Labels /\ 0 \in 0..OPEN_MAX
    BY Label_In, Descriptors, Zenon
  <2> QED BY <2>1, Zenon DEF Init, FileTypeOK, ProcTypeOK
<1>2. TablesOwned /\ LoopsKeepUp
  BY Zenon DEF Init, TablesOwned, LoopsKeepUp, Wiping, WipeFile
<1>3. LocalsRight
  BY Zenon DEF Init, LocalsRight, Plain, WithSlot, Waiting, Inside, Carrying, WipeFile
<1>4. RefcountExact
  <2> SUFFICES ASSUME NEW f \in Files
               PROVE  of_refcount[f] = Cardinality(Slots(f)) + Cardinality(Carried(f))
    BY Zenon DEF RefcountExact
  <2>1. Slots(f) = {} /\ Carried(f) = {}
    BY NullAssumption, Zenon DEF Init, Slots, Carried
  <2>2. Cardinality({}) = 0
    BY FS_EmptySet, Zenon
  <2> QED BY <2>1, <2>2 DEF Init
<1>5. OffsetNotStale
  BY DEF Init, OffsetNotStale, InOffsetSection
<1> QED BY <1>1, <1>2, <1>3, <1>4, <1>5, Zenon DEF FileInv

LEMMA File_Step ==
  ASSUME FileInv, NEW p \in Procs, ProcStep(p)
  PROVE  FileInv'
<1>0. CountsRefs
  BY Counts_Refs, Zenon DEF FileInv
<1>1. SafeStep(p)
  BY <1>0, Step_Safe, Zenon
<1>2. Alone(p)
  BY <1>1, Alone_Step, Zenon
<1>3. FileTypeOK' /\ ProcTypeOK'
  BY <1>1, FileTypes_Step, ProcTypes_Step, Zenon
<1>4. TablesOwned' /\ LoopsKeepUp' /\ LocalsRight'
  BY <1>0, <1>1, <1>2, Owned_Step, Loops_Step, Locals_Step, Zenon
<1>5. RefcountExact' /\ OffsetNotStale'
  BY <1>0, <1>1, <1>2, <1>3, Accounted_Step, Refs_Balance, Offsets_Step, Zenon
<1> QED BY <1>3, <1>4, <1>5, Zenon DEF FileInv

LEMMA File_Stutter ==
  ASSUME FileInv, UNCHANGED vars
  PROVE  FileInv'
<1>1. (FileTypeOK /\ ProcTypeOK)' /\ (TablesOwned /\ LoopsKeepUp /\ LocalsRight)'
  BY DEF FileInv, vars, filevars, procvars, FileTypeOK, ProcTypeOK, TablesOwned, LoopsKeepUp, LocalsRight
<1>2. RefcountExact'
  BY Zenon DEF FileInv, vars, filevars, procvars, RefcountExact, Slots, Carried, Dropped
<1>3. OffsetNotStale'
  BY Zenon DEF FileInv, vars, filevars, procvars, OffsetNotStale, InOffsetSection
<1> QED BY <1>1, <1>2, <1>3, Zenon DEF FileInv

\* FileInv holds in every reachable state.
THEOREM FileInvariant == Spec => []FileInv
<1>1. Init => FileInv
  BY File_Init, Zenon
<1>2. FileInv /\ [Next]_vars => FileInv'
  BY File_Step, File_Stutter, Zenon DEF Next
<1> QED BY <1>1, <1>2, PTL DEF Spec

(***************************************************************************)
(* of_refcount counts the references there are, whatever processes share    *)
(* the file by open, dup2 and fork and however their closes interleave: a   *)
(* file is destroyed when the last one goes, not before and not after.      *)
(***************************************************************************)
THEOREM ReferencesCounted == Spec => []RefcountExact
<1>1. FileInv => RefcountExact
  BY Zenon DEF FileInv
<1> QED BY <1>1, FileInvariant, PTL

(***************************************************************************)
(* No assertion of openfile.c, filetable.c or lock_destroy fails: the file  *)
(* a call works on stays in the table, and a file that is destroyed has no  *)
(* process waiting for its offset lock.                                     *)
(***************************************************************************)
THEOREM NoFilePanic == Spec => []NoPanic
<1>1. FileInv => NoPanic
  BY Zenon DEF FileInv, ProcTypeOK, NoPanic, Labels, Plain, WithSlot, Waiting, Inside, Carrying, Wiping, WipeFile
<1> QED BY <1>1, FileInvariant, PTL

(***************************************************************************)
(* The position a read, write or lseek computes from is the file's until    *)
(* it stores the new one, although other processes share the file.          *)
(***************************************************************************)
THEOREM OffsetFresh == Spec => []OffsetNotStale
<1>1. FileInv => OffsetNotStale
  BY Zenon DEF FileInv
<1> QED BY <1>1, FileInvariant, PTL
=============================================================================
