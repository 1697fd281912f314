------------------------------ MODULE SfsSystem ------------------------------
(***************************************************************************)
(* A volume in use: threads that go through the VFS to one mounted SFS,      *)
(* transfers that fail, machines that stop between two block writes, sfsck    *)
(* and the next mount.                                                      *)
(*                                                                         *)
(* vfs_biglock makes an operation of Sfs one step; a path name call is       *)
(* several, because the root vnode is got before the operation and given     *)
(* back after it, and giving back is two: vnode_decref decides under the     *)
(* spinlock, sfs_reclaim acts under the big lock.                           *)
(***************************************************************************)
EXTENDS Sfsck

CONSTANTS
  Threads,
  Names,
  Sizes,       \* the lengths a file is cut to
  MaxIO,       \* bound: which transfer of an operation fails
  Bounds       \* bounds of a history, one of which it keeps to: the threads, the
               \* <<offset, length>> that are written, the operations that change the
               \* volume (ops), how many transfers fail and whether they are reads or
               \* writes (fails), the times the machine stops,
               \* and whether there is a file on the volume to begin with (full)

VARIABLES
  bound,      \* which of Bounds
  disk, fm, fmdirty, vn,
  vol,        \* "mounted", "clean" (unmounted), "crashed", "checked", "lost"
  pc,         \* "idle", "dir" with the root in hand, "drop" to give it back, "reclaim"
  roots,      \* references to the root vnode that a thread has
  hold,       \* the file a thread has open, 0 for none
  target,     \* the vnode a thread reclaims
  panic,      \* "", or the kind of assertion that failed
  faults, crashes, ops,
  kept,       \* what the last sfsck has dropped and left marked in use
  durable     \* the <<name, inode>> written by the last sync and left alone since

mem == <<fm, fmdirty, vn>>
vars == <<bound, disk, mem, vol, pc, roots, hold, target, panic, faults, crashes, ops, kept, durable>>

Root == SFS_ROOTDIR_INO
NoVnodes == [i \in {} |-> 0]

\* The names of a root directory.
NamesIn(d, rooti) ==
  {<<Entry(d, rooti, k).name, Entry(d, rooti, k).ino>> : k \in {j \in Slots(rooti) : IsName(Entry(d, rooti, j))}}

\* A volume as the first mount leaves it: empty, or with a file whose only block is the
\* second behind its indirect block.
Populated(name) ==
  LET M == [disk |-> mksfs, log |-> << >>, fm |-> Fixed, fmdirty |-> FALSE, vn |-> NoVnodes,
            err |-> "ok", pos |-> 0, blk |-> 0, fail |-> 0, failed |-> ""]
      C == sfs_creat(sfs_getroot(M), Root, name, TRUE)
      W == sfs_write(C, C.blk, (SFS_NDIRECT + 1) * SFS_BLOCKSIZE, 1) IN
  sfs_sync(Decref(Decref(W, C.blk), Root), << >>).disk

Init ==
  /\ bound \in Bounds
  /\ disk \in (IF bound.full THEN {Populated(n) : n \in Names} ELSE {mksfs})
  /\ fm = {} /\ fmdirty = FALSE /\ vn = NoVnodes
  /\ vol = "clean"
  /\ pc = [t \in Threads |-> "idle"]
  /\ roots = [t \in Threads |-> 0]
  /\ hold = [t \in Threads |-> 0]
  /\ target = [t \in Threads |-> 0]
  /\ panic = ""
  /\ faults = 0 /\ crashes = 0 /\ ops = 0
  /\ kept = {} /\ durable = NamesIn(disk, AsInode(disk[Root]))

----------------------------------------------------------------------------
\* The state an operation starts from, of whose transfers the f-th fails (0: none).
Now(f) == [disk |-> disk, log |-> << >>, fm |-> fm, fmdirty |-> fmdirty, vn |-> vn,
           err |-> "ok", pos |-> 0, blk |-> 0, fail |-> f, failed |-> ""]

MayCrash == crashes < bound.crashes
FailAt == 0..(IF faults < bound.faults THEN MaxIO ELSE 0)

\* The disk after the first k block writes of a log.
After(d, log, k) == FoldLeft(LAMBDA e, w : [e EXCEPT ![w[1]] = w[2]], d, SubSeq(log, 1, k))

\* The machine stops: what is on disk is what is left.
Stop(d, state) ==
  /\ disk' = d
  /\ fm' = {} /\ fmdirty' = FALSE /\ vn' = NoVnodes
  /\ vol' = state
  /\ pc' = [t \in Threads |-> "idle"]
  /\ roots' = [t \in Threads |-> 0]
  /\ hold' = [t \in Threads |-> 0]
  /\ target' = [t \in Threads |-> 0]

\* The operation with the result R got as far as the transfer that fails, if one does.
Failing(f, R) ==
  /\ f > 0 => R.failed \in bound.fails
  /\ faults' = faults + (IF f > 0 THEN 1 ELSE 0)

\* The operation is done, with the result R.
Commit(f, R) ==
  /\ Failing(f, R)
  /\ R.err # "halt"
  /\ disk' = R.disk /\ fm' = R.fm /\ fmdirty' = R.fmdirty /\ vn' = R.vn
  /\ panic' = IF R.err = "panic" THEN "assertion" ELSE panic
  /\ UNCHANGED <<vol, crashes>>

\* The machine stops after some of the block writes of the operation; or it has to,
\* because sfs_getroot or sfs_rename panics over a failed transfer.
Interrupted(f, R) ==
  /\ Failing(f, R)
  /\ \/ /\ f = 0 /\ MayCrash
        /\ crashes' = crashes + 1
        /\ \E k \in 1..Len(R.log) : Stop(After(disk, R.log, k), "crashed")
     \/ /\ R.err = "halt"
        /\ crashes' = crashes
        /\ Stop(R.disk, "crashed")
  /\ UNCHANGED panic

Counted == ops < bound.ops /\ ops' = ops + 1 /\ UNCHANGED <<bound, kept>>
Uncounted == UNCHANGED <<ops, bound, kept>>

Running == vol = "mounted" /\ panic = ""

Crash ==
  /\ Uncounted
  /\ Running /\ MayCrash
  /\ crashes' = crashes + 1
  /\ Stop(disk, "crashed")
  /\ UNCHANGED <<panic, faults, durable>>

----------------------------------------------------------------------------
\* vfs_lookparent, or vfs_lookup of the root: FSOP_GETROOT.  vfs_rename does it twice.
vfs_getroot(t) ==
  /\ Uncounted
  /\ Running /\ pc[t] \in {"idle", "dir"} /\ roots[t] < 2
  /\ \E f \in FailAt :
       LET R == sfs_getroot(Now(f)) IN
       \/ /\ Commit(f, R)
          /\ pc' = [pc EXCEPT ![t] = "dir"]
          /\ roots' = [roots EXCEPT ![t] = @ + 1]
          /\ UNCHANGED <<hold, target>>
       \/ Interrupted(f, R)
  /\ UNCHANGED durable

\* An operation on the root directory with the result R; the file it hands back is got.
DirOp(t, f, R, got) ==
  \/ /\ Commit(f, R)
     /\ pc' = [pc EXCEPT ![t] = "drop"]
     /\ hold' = [hold EXCEPT ![t] = IF Ok(R) THEN got ELSE @]
     /\ UNCHANGED <<roots, target>>
  \/ Interrupted(f, R)

Ready(t, n) == Running /\ pc[t] = "dir" /\ roots[t] = n
Forget(names) == {d \in durable : d[1] \notin names}

VOP_CREAT(t) ==
  /\ Counted
  /\ Ready(t, 1) /\ hold[t] = 0
  /\ \E f \in FailAt, name \in Names, excl \in BOOLEAN :
       LET R == sfs_creat(Now(f), Root, name, excl) IN DirOp(t, f, R, R.blk)
  /\ UNCHANGED durable

VOP_LOOKUP(t) ==
  /\ Uncounted
  /\ Ready(t, 1) /\ hold[t] = 0
  /\ \E f \in FailAt, name \in Names :
       DirOp(t, f, sfs_lookonce(Now(f), Root, name), InoOf(Now(0), Root, name))
  /\ UNCHANGED durable

VOP_LINK(t) ==
  /\ Counted
  /\ Ready(t, 1) /\ hold[t] # 0
  /\ \E f \in FailAt, name \in Names : DirOp(t, f, sfs_link(Now(f), Root, name, hold[t]), hold[t])
  /\ UNCHANGED durable

VOP_REMOVE(t) ==
  /\ Counted
  /\ Ready(t, 1)
  /\ \E f \in FailAt, name \in Names :
       /\ DirOp(t, f, sfs_remove(Now(f), Root, name), hold[t])
       /\ durable' = Forget({name})

VOP_RENAME(t) ==
  /\ Counted
  /\ Ready(t, 2)
  /\ \E f \in FailAt, n1 \in Names, n2 \in Names :
       /\ DirOp(t, f, sfs_rename(Now(f), Root, n1, n2), hold[t])
       /\ durable' = Forget({n1, n2})

----------------------------------------------------------------------------
\* vnode_decref: the last reference is left for reclaim.
vnode_decref(t, ino) ==
  LET last == vn[ino].ref = 1 IN
  /\ vn' = IF last THEN vn ELSE [vn EXCEPT ![ino].ref = @ - 1]
  /\ target' = [target EXCEPT ![t] = IF last THEN ino ELSE 0]
  /\ UNCHANGED <<disk, fm, fmdirty, vol, panic, faults, crashes, durable>>

Next1(t, last, left) ==
  pc' = [pc EXCEPT ![t] = IF last THEN "reclaim" ELSE IF left > 0 THEN "drop" ELSE "idle"]

DropRoot(t) ==
  /\ Uncounted
  /\ Running /\ pc[t] = "drop"
  /\ vnode_decref(t, Root)
  /\ roots' = [roots EXCEPT ![t] = @ - 1]
  /\ Next1(t, vn[Root].ref = 1, roots[t] - 1)
  /\ UNCHANGED hold

vfs_close(t) ==
  /\ Uncounted
  /\ Running /\ pc[t] = "idle" /\ hold[t] # 0
  /\ vnode_decref(t, hold[t])
  /\ hold' = [hold EXCEPT ![t] = 0]
  /\ Next1(t, vn[hold[t]].ref = 1, 0)
  /\ UNCHANGED roots

VOP_RECLAIM(t) ==
  /\ Uncounted
  /\ Running /\ pc[t] = "reclaim"
  /\ \E f \in FailAt :
       LET R == sfs_reclaim(Now(f), target[t]) IN
       \/ /\ Commit(f, R)
          /\ Next1(t, FALSE, roots[t])
          /\ target' = [target EXCEPT ![t] = 0]
          /\ UNCHANGED <<roots, hold>>
       \/ Interrupted(f, R)
  /\ UNCHANGED durable

----------------------------------------------------------------------------
\* Operations on an open file.
FileOp(f, R) == \/ Commit(f, R) /\ UNCHANGED <<pc, roots, hold, target>>
                \/ Interrupted(f, R)

HasFile(t) == Running /\ pc[t] = "idle" /\ hold[t] # 0

VOP_WRITE(t) ==
  /\ Counted
  /\ HasFile(t)
  /\ \E f \in FailAt, w \in bound.writes : FileOp(f, sfs_write(Now(f), hold[t], w[1], w[2]))
  /\ UNCHANGED durable

VOP_READ(t) ==
  /\ Uncounted
  /\ HasFile(t)
  /\ \E f \in FailAt, w \in bound.writes : FileOp(f, sfs_read(Now(f), hold[t], w[1]))
  /\ UNCHANGED durable

VOP_TRUNCATE(t) ==
  /\ Counted
  /\ HasFile(t)
  /\ \E f \in FailAt, len \in Sizes : FileOp(f, sfs_itrunc(Now(f), hold[t], len))
  /\ UNCHANGED durable

VOP_FSYNC(t) ==
  /\ Uncounted
  /\ HasFile(t)
  /\ \E f \in FailAt : FileOp(f, sfs_sync_inode(Now(f), hold[t]))
  /\ UNCHANGED durable

----------------------------------------------------------------------------
\* The volume.

RootI == IF Root \in DOMAIN vn THEN vn[Root].i ELSE AsInode(disk[Root])

Orders == SetToSeqs(DOMAIN vn)

\* FSOP_SYNC, with the table of vnodes in some order.
Sync(f, R) ==
  /\ FileOp(f, R)
  /\ durable' = IF f = 0 /\ vol' = "mounted" THEN NamesIn(disk, RootI) ELSE durable

vfs_sync ==
  /\ Uncounted
  /\ Running
  /\ \E f \in FailAt, order \in Orders : Sync(f, sfs_sync(Now(f), order))

\* vfs_unmount: FSOP_SYNC and then sfs_unmount, EBUSY while a vnode is loaded.
vfs_unmount ==
  /\ Uncounted
  /\ Running
  /\ \E f \in FailAt, order \in Orders :
       LET R == sfs_sync(Now(f), order) IN
       \/ /\ vn # NoVnodes \/ ~Ok(R)
          /\ Sync(f, R)
       \/ /\ vn = NoVnodes /\ Ok(R) /\ f = 0
          /\ Stop(R.disk, "clean")
          /\ panic' = IF R.fmdirty THEN "assertion" ELSE ""
          /\ durable' = NamesIn(disk, RootI)
          /\ UNCHANGED <<faults, crashes>>

\* sfs_domount: the superblock and the freemap are read.  When that fails,
\* sfs_fs_destroy finds the device still set.
sfs_domount ==
  /\ Uncounted
  /\ vol \in {"clean", "checked"} /\ panic = ""
  /\ \E f \in {g \in FailAt : g = 0 \/ (g <= 2 /\ "read" \in bound.fails)} :
       /\ faults' = faults + (IF f > 0 THEN 1 ELSE 0)
       /\ panic' = IF f > 0 THEN "mount" ELSE ""
       /\ vol' = IF f > 0 THEN vol ELSE "mounted"
  /\ fm' = disk[SFS_FREEMAP_START].used
  /\ UNCHANGED <<disk, fmdirty, vn, pc, roots, hold, target, crashes, durable>>

\* sfsck, which the machine may also stop; a volume with a block in use twice is lost.
run_sfsck ==
  /\ UNCHANGED <<ops, bound>>
  /\ vol \in {"clean", "crashed"} /\ panic = ""
  /\ \E K \in {sfsck(disk)} :
     \/ /\ Stop(K.disk, IF K.cross \/ K.garbled THEN "lost" ELSE "checked")
        /\ kept' = K.kept
     \/ /\ \E k \in 1..Len(K.log) : Stop(After(disk, K.log, k), "crashed")
        /\ UNCHANGED kept
  /\ UNCHANGED <<panic, faults, crashes, durable>>

Next ==
  \/ \E t \in bound.threads :
       \/ vfs_getroot(t)
       \/ VOP_CREAT(t)
       \/ VOP_LOOKUP(t)
       \/ VOP_LINK(t)
       \/ VOP_REMOVE(t)
       \/ VOP_RENAME(t)
       \/ DropRoot(t)
       \/ vfs_close(t)
       \/ VOP_RECLAIM(t)
       \/ VOP_WRITE(t)
       \/ VOP_READ(t)
       \/ VOP_TRUNCATE(t)
       \/ VOP_FSYNC(t)
  \/ vfs_sync
  \/ vfs_unmount
  \/ sfs_domount
  \/ run_sfsck
  \/ Crash

Spec == Init /\ [][Next]_vars

----------------------------------------------------------------------------
(***************************************************************************)
(* The properties below are about every order of the operations, every read  *)
(* that fails and every place where the machine stops.  A write that the     *)
(* device fails is lost without a word (sfs_rwblock), and after that only    *)
(* RefsExact holds: run sfs_lost_write shows it of the first.               *)
(***************************************************************************)

(***************************************************************************)
(* No assertion of SFS fails: a block is freed once, every inode in memory   *)
(* is in an allocated block and has a type, a name that is found leads to a  *)
(* file with links, and the freemap is clean when the volume is let go.      *)
(* One assertion is left out because it always fails where it is reached:    *)
(* sfs_fs_destroy's, in a mount that cannot read the superblock or the       *)
(* freemap (panic is "mount" then, and the kernel has stopped).             *)
(***************************************************************************)
NoAssertionFails == panic # "assertion"

\* The inode of a file as the kernel sees it.
View(i) == IF i \in DOMAIN vn THEN vn[i].i ELSE AsInode(disk[i])

Pointers(d, inode) ==
  LET ind == inode.indirect
      fromind == IF ind = 0 THEN << >> ELSE [j \in 1..SFS_DBPERIDB |-> AsIndirect(d[ind])[j - 1]] IN
  SelectSeq([k \in 1..SFS_NDIRECT |-> inode.direct[k - 1]] \o <<ind>> \o fromind, LAMBDA b : b # 0)

\* The inodes in use: the root, what it names, and files that are open without a name.
FilesIn(d, rooti) == {n[2] : n \in NamesIn(d, rooti)}
InUse == {Root} \cup FilesIn(disk, RootI) \cup DOMAIN vn

Used == UNION {{i} \cup ToSet(Pointers(disk, View(i))) : i \in InUse} \cup {SFS_SUPER_BLOCK, SFS_FREEMAP_START}
Uses == 2 + MapThenSumSet(LAMBDA i : 1 + Len(Pointers(disk, View(i))), InUse)

(***************************************************************************)
(* While the volume is mounted every block has at most one use, and every    *)
(* block in use is marked in the freemap in memory.  As long as no read has  *)
(* failed no other block is marked, so no space is lost, not even by         *)
(* crashes; but for the indirect blocks that sfsck itself loses (kept).      *)
(***************************************************************************)
BlocksAccounted ==
  Running => /\ Uses = Cardinality(Used)
             /\ Used \subseteq fm
             /\ faults = 0 => fm = Used \cup kept

\* A mounted volume is read as what was written: no directory block, indirect block or
\* inode is read from a block that holds something else.
KindsRight ==
  Running =>
    /\ \A i \in InUse \ DOMAIN vn : disk[i].kind = "inode"
    /\ \A i \in InUse : View(i).indirect # 0 => ReadsAs(disk[View(i).indirect], "indirect")
    /\ \A n \in 0..(DIVROUNDUP(RootI.size, SFS_BLOCKSIZE) - 1) : ReadsAs(disk[MapBlock(disk, RootI, n)], "dir")

(***************************************************************************)
(* A file's link count is the number of its names, so a file that can be     *)
(* found is never erased and one that cannot be is.                         *)
(***************************************************************************)
Links(d, rooti, i) == Cardinality({n \in NamesIn(d, rooti) : n[2] = i})
LinksExact ==
  Running => \A i \in InUse \ {Root} : View(i).links = Links(disk, RootI, i)

(***************************************************************************)
(* A vnode that some thread refers to is in the table, with at least as      *)
(* many references as there are; exactly as many if no read has failed.      *)
(***************************************************************************)
Refs(i) ==
  Cardinality({t \in Threads : hold[t] = i}) + Cardinality({t \in Threads : target[t] = i})
    + (IF i = Root THEN MapThenSumSet(LAMBDA t : roots[t], Threads) ELSE 0)
RefsExact ==
  Running =>
    /\ \A i \in Blocks \ {0} : Refs(i) > 0 => i \in DOMAIN vn
    /\ \A i \in DOMAIN vn : vn[i].ref >= Refs(i) /\ (faults = 0 => vn[i].ref = Refs(i))

\* What a volume at rest must be to be mounted.
Sound(d) ==
  LET r == AsInode(d[Root])
      files == FilesIn(d, r)
      all == {Root} \cup files
      used == UNION {{i} \cup ToSet(Pointers(d, d[i])) : i \in all} \cup {SFS_SUPER_BLOCK, SFS_FREEMAP_START} IN
  /\ r.type = "DIR"
  /\ \A i \in files : d[i].kind = "inode" /\ d[i].type = "FILE" /\ d[i].links = Links(d, r, i)
  /\ 2 + MapThenSumSet(LAMBDA i : 1 + Len(Pointers(d, d[i])), all) = Cardinality(used)
  /\ used \subseteq d[SFS_FREEMAP_START].used
  /\ \A j, k \in Slots(r) : /\ j # k /\ IsName(Entry(d, r, j)) /\ IsName(Entry(d, r, k))
                            => Entry(d, r, j).name # Entry(d, r, k).name

(***************************************************************************)
(* A volume that was unmounted, and one that sfsck has gone over without    *)
(* finding a block in use twice, is sound - wherever the machine stopped     *)
(* before, in the middle of an operation or of sfsck itself.                *)
(***************************************************************************)
CleanSound == vol \in {"clean", "checked"} => Sound(disk)

(***************************************************************************)
(* A name that was there at the last sync, and that nobody removed or        *)
(* renamed since, is there after a crash and sfsck, for the same file.       *)
(***************************************************************************)
DurableNames == vol = "checked" => durable \subseteq NamesIn(disk, AsInode(disk[Root]))
=============================================================================
