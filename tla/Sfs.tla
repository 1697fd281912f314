--------------------------------- MODULE Sfs ---------------------------------
(***************************************************************************)
(* SFS, kern/fs/sfs: what each file system operation does to the volume and *)
(* to the copies of it that the kernel keeps in memory.  The VFS big lock    *)
(* is held over each of them, so an operation is a function of a state       *)
(*    disk     the blocks of the volume                                      *)
(*    log      the blocks written so far by this operation, in order         *)
(*    fm       the free block bitmap in memory: the blocks in use            *)
(*    fmdirty  sfs_freemapdirty                                              *)
(*    vn       the loaded vnodes: inode number -> inode copy, dirty, refs    *)
(*    err      "ok", an error code, "panic" when an assertion fails, or      *)
(*             "halt" when the code panics because of an I/O error           *)
(*    pos      how far the write under way has got                           *)
(*    blk      the block number the last call handed back                    *)
(*    fail     which transfer from now on the device fails (0: none)         *)
(*    failed   "read" or "write" once it has                                 *)
(* A step that follows a failed one does nothing: the code returns.          *)
(*                                                                         *)
(* Sizes are in directory entries, of which a block holds SFS_BLOCKSIZE.     *)
(* The contents of files are left out.                                      *)
(***************************************************************************)
EXTENDS Integers, Sequences, FiniteSets, FiniteSetsExt, SequencesExt

CONSTANTS
  NBLOCKS,        \* size of the volume
  SFS_NDIRECT,
  SFS_DBPERIDB,
  SFS_BLOCKSIZE

SFS_SUPER_BLOCK == 0
SFS_ROOTDIR_INO == 1
SFS_FREEMAP_START == 2
SFS_NOINO == 0

Blocks == 0..(NBLOCKS - 1)
Fixed == {SFS_SUPER_BLOCK, SFS_ROOTDIR_INO, SFS_FREEMAP_START}

----------------------------------------------------------------------------
\* What a block holds.  A cleared block reads as an invalid inode, an empty directory
\* block or an empty indirect block; that a block is never read as what it is not is
\* checked (KindsRight).
ZERO == [kind |-> "zero"]
DATA == [kind |-> "data"]
SUPER == [kind |-> "super"]
NoEntry == [ino |-> SFS_NOINO, name |-> ""]

sfs_dinode(type, links) ==
  [kind |-> "inode", type |-> type, links |-> links, size |-> 0,
   direct |-> [i \in 0..(SFS_NDIRECT - 1) |-> 0], indirect |-> 0]

AsInode(x) == IF x.kind = "inode" THEN x ELSE sfs_dinode("INVAL", 0)
AsDir(x) == IF x.kind = "dir" THEN x.slots ELSE [j \in 0..(SFS_BLOCKSIZE - 1) |-> NoEntry]
AsIndirect(x) == IF x.kind = "indirect" THEN x.entries ELSE [j \in 0..(SFS_DBPERIDB - 1) |-> 0]
ReadsAs(x, kind) == x.kind \in {"zero", kind}

DirBlock(slots) == [kind |-> "dir", slots |-> slots]
IndirectBlock(entries) == [kind |-> "indirect", entries |-> entries]
FreemapBlock(used) == [kind |-> "freemap", used |-> used]

DIVROUNDUP(a, b) == (a + b - 1) \div b

\* The block of a file block, 0 for a hole.
MapBlock(disk, inode, fileblock) ==
  IF fileblock < SFS_NDIRECT THEN inode.direct[fileblock]
  ELSE IF inode.indirect = 0 \/ fileblock - SFS_NDIRECT >= SFS_DBPERIDB THEN 0
  ELSE AsIndirect(disk[inode.indirect])[fileblock - SFS_NDIRECT]

\* The entries of a directory.
Entry(disk, inode, slot) ==
  LET b == MapBlock(disk, inode, slot \div SFS_BLOCKSIZE) IN
  IF b = 0 THEN NoEntry ELSE AsDir(disk[b])[slot % SFS_BLOCKSIZE]
Slots(inode) == 0..(inode.size - 1)

----------------------------------------------------------------------------
\* Block I/O.

Ok(S) == S.err = "ok"
Fail(S, e) == [S EXCEPT !.err = e]

\* The code after a call: what follows when it succeeds, and the way out when it fails.
Then(S, next(_)) == IF Ok(S) THEN next(S) ELSE S
OnError(S, out(_)) == IF Ok(S) THEN S ELSE out(S)

(***************************************************************************)
(* sfs_rwblock.  A read that fails eleven times returns the error.  lhd_io   *)
(* has taken the data of a write out of the uio before the device fails it,  *)
(* so the second try has nothing to transfer and returns 0: the write is     *)
(* lost, and reported as done.                                              *)
(***************************************************************************)
sfs_rwblock(S, rw) ==
  IF S.fail # 1 THEN [S EXCEPT !.fail = IF @ = 0 THEN 0 ELSE @ - 1]
  ELSE [S EXCEPT !.fail = 0, !.failed = rw, !.err = IF rw = "read" THEN "EIO" ELSE @]

sfs_readblock(S) == Then(S, LAMBDA T : sfs_rwblock(T, "read"))

Written(S, b, x) == [S EXCEPT !.disk[b] = x, !.log = Append(@, <<b, x>>)]

sfs_writeblock(S, b, x) ==
  Then(S, LAMBDA T : LET U == sfs_rwblock(T, "write") IN IF T.fail = 1 THEN U ELSE Written(U, b, x))

----------------------------------------------------------------------------
\* Block allocation.

\* Mutant: the block is given out without its mark.
sfs_balloc_NoMark(S) ==
  LET b == Min(Blocks \ S.fm) IN
  IF ~Ok(S) THEN S
  ELSE IF Blocks \subseteq S.fm THEN Fail(S, "ENOSPC")
  ELSE sfs_writeblock([S EXCEPT !.fmdirty = TRUE, !.blk = b], b, ZERO)

\* The first free block, cleared on disk.
sfs_balloc(S) ==
  LET b == Min(Blocks \ S.fm) IN
  IF ~Ok(S) THEN S
  ELSE IF Blocks \subseteq S.fm THEN Fail(S, "ENOSPC")
  ELSE OnError(sfs_writeblock([S EXCEPT !.fm = @ \cup {b}, !.fmdirty = TRUE, !.blk = b], b, ZERO),
               LAMBDA T : [T EXCEPT !.fm = @ \ {b}])

sfs_bfree(S, b) ==
  IF b \in S.fm THEN [S EXCEPT !.fm = @ \ {b}, !.fmdirty = TRUE] ELSE Fail(S, "panic")

sfs_bused(S, b) == b \in S.fm

\* A block number about to be handed back must be marked in use.
HandBack(S, b) == IF b # 0 /\ ~sfs_bused(S, b) THEN Fail(S, "panic") ELSE [S EXCEPT !.blk = b]

----------------------------------------------------------------------------
\* sfs_bmap: the block of a file block, allocated if need be.
BmapDirect(S, ino, fb, doalloc) ==
  LET b == S.vn[ino].i.direct[fb] IN
  IF b # 0 \/ ~doalloc THEN HandBack(S, b)
  ELSE Then(sfs_balloc(S), LAMBDA T : [T EXCEPT !.vn[ino].i.direct[fb] = T.blk, !.vn[ino].dirty = TRUE])

\* The entry of an indirect block that the file has, filled in if need be.
IndirectEntry(S, ino, off, doalloc) ==
  LET idb  == S.vn[ino].i.indirect
      ents == AsIndirect(S.disk[idb]) IN
  IF ents[off] # 0 \/ ~doalloc THEN HandBack(S, ents[off])
  ELSE Then(sfs_balloc(S), LAMBDA T : sfs_writeblock(T, idb, IndirectBlock([ents EXCEPT ![off] = T.blk])))

BmapIndirect(S, ino, off, doalloc) ==
  LET none  == S.vn[ino].i.indirect = 0
      newblock == Then(sfs_balloc(S), LAMBDA T : [T EXCEPT !.vn[ino].i.indirect = T.blk, !.vn[ino].dirty = TRUE]) IN
  IF off >= SFS_DBPERIDB THEN Fail(S, "EFBIG")
  ELSE IF none /\ ~doalloc THEN HandBack(S, 0)
  ELSE Then(IF none THEN newblock ELSE sfs_readblock(S), LAMBDA T : IndirectEntry(T, ino, off, doalloc))

sfs_bmap(S, ino, fb, doalloc) ==
  IF ~Ok(S) THEN S
  ELSE IF fb < SFS_NDIRECT THEN BmapDirect(S, ino, fb, doalloc)
  ELSE BmapIndirect(S, ino, fb - SFS_NDIRECT, doalloc)

FreeAll(S, bs) == FoldSet(LAMBDA b, T : sfs_bfree(T, b), S, bs)

\* Mutant: the inode keeps its pointer to the indirect block that is given up.
TruncIndirect_KeepsPointer(S, ino, blocklen) ==
  LET R    == sfs_readblock(S)
      idb  == S.vn[ino].i.indirect
      ents == AsIndirect(R.disk[idb])
      drop == {j \in DOMAIN ents : blocklen < SFS_NDIRECT + j /\ ents[j] # 0}
      left == [j \in DOMAIN ents |-> IF j \in drop THEN 0 ELSE ents[j]]
      T    == FreeAll(R, {ents[j] : j \in drop})
  IN
  IF idb = 0 \/ ~(blocklen < SFS_NDIRECT + SFS_DBPERIDB - 1) THEN S
  ELSE IF ~Ok(R) THEN R
  ELSE IF \A j \in DOMAIN left : left[j] = 0 THEN sfs_bfree(T, idb)
  ELSE IF drop # {} THEN sfs_writeblock(T, idb, IndirectBlock(left)) ELSE T

\* The indirect block of a file cut to blocklen blocks.
TruncIndirect(S, ino, blocklen) ==
  LET R    == sfs_readblock(S)
      idb  == S.vn[ino].i.indirect
      ents == AsIndirect(R.disk[idb])
      drop == {j \in DOMAIN ents : blocklen < SFS_NDIRECT + j /\ ents[j] # 0}
      left == [j \in DOMAIN ents |-> IF j \in drop THEN 0 ELSE ents[j]]
      T    == FreeAll(R, {ents[j] : j \in drop})
  IN
  IF idb = 0 \/ ~(blocklen < SFS_NDIRECT + SFS_DBPERIDB - 1) THEN S
  ELSE IF ~Ok(R) THEN R
  ELSE IF \A j \in DOMAIN left : left[j] = 0
    THEN [sfs_bfree(T, idb) EXCEPT !.vn[ino].i.indirect = 0, !.vn[ino].dirty = TRUE]
  ELSE IF drop # {} THEN sfs_writeblock(T, idb, IndirectBlock(left)) ELSE T

\* Mutant: the pointers stay in the inode.
sfs_itrunc_KeepsPointers(S, ino, len) ==
  LET blocklen == DIVROUNDUP(len, SFS_BLOCKSIZE)
      d    == S.vn[ino].i.direct
      T    == FreeAll(S, {d[i] : i \in {k \in DOMAIN d : k >= blocklen /\ d[k] # 0}})
      U    == TruncIndirect(T, ino, blocklen) IN
  IF Ok(U) THEN [U EXCEPT !.vn[ino].i.size = len, !.vn[ino].dirty = TRUE] ELSE U

sfs_itrunc(S, ino, len) ==
  LET blocklen == DIVROUNDUP(len, SFS_BLOCKSIZE)
      d    == S.vn[ino].i.direct
      past == {k \in DOMAIN d : k >= blocklen /\ d[k] # 0}
      F    == FreeAll(S, {d[k] : k \in past})
      T    == IF past = {} THEN S
              ELSE [F EXCEPT !.vn[ino].i.direct = [k \in DOMAIN d |-> IF k \in past THEN 0 ELSE d[k]],
                             !.vn[ino].dirty = TRUE]
      U    == TruncIndirect(T, ino, blocklen) IN
  IF Ok(U) THEN [U EXCEPT !.vn[ino].i.size = len, !.vn[ino].dirty = TRUE] ELSE U

----------------------------------------------------------------------------
\* File I/O: sfs_io over the blocks that off..off+len-1 touches.

\* sfs_partialio has moved the data, and so the offset, before its write fails.
Moved(S, whole, hi) == IF Ok(S) \/ ~whole THEN [S EXCEPT !.pos = hi] ELSE S

\* One block of a write: sfs_blockio, or sfs_partialio with its read of the old contents.
WriteOne(S, ino, fb, lo, hi) ==
  LET whole == lo = fb * SFS_BLOCKSIZE /\ hi = (fb + 1) * SFS_BLOCKSIZE
      T == sfs_bmap(S, ino, fb, TRUE) IN
  Then(IF whole THEN T ELSE sfs_readblock(T), LAMBDA U : Moved(sfs_writeblock(U, U.blk, DATA), whole, hi))

\* The file grows to where the write got, whether or not it failed.
Grown(S, ino, off) ==
  IF S.pos # off /\ S.pos > S.vn[ino].i.size
    THEN [S EXCEPT !.pos = 0, !.vn[ino].i.size = S.pos, !.vn[ino].dirty = TRUE]
    ELSE [S EXCEPT !.pos = 0]

sfs_write(S, ino, off, len) ==
  LET last == off + len
      fbs  == SetToSortSeq((off \div SFS_BLOCKSIZE)..((last - 1) \div SFS_BLOCKSIZE), <)
      step(T, fb) == WriteOne(T, ino, fb, Max({off, fb * SFS_BLOCKSIZE}), Min({last, (fb + 1) * SFS_BLOCKSIZE})) IN
  Grown(FoldLeft(step, [S EXCEPT !.pos = off], fbs), ino, off)

\* A read of one block below the end of the file: nothing is allocated.
sfs_read(S, ino, off) ==
  IF off >= S.vn[ino].i.size THEN S
  ELSE Then(sfs_bmap(S, ino, off \div SFS_BLOCKSIZE, FALSE),
            LAMBDA T : IF T.blk # 0 THEN sfs_readblock(T) ELSE T)

----------------------------------------------------------------------------
\* Inodes in memory.

sfs_sync_inode(S, ino) ==
  IF ~Ok(S) \/ ~S.vn[ino].dirty THEN S
  ELSE Then(sfs_writeblock(S, ino, S.vn[ino].i), LAMBDA T : [T EXCEPT !.vn[ino].dirty = FALSE])

DropVnode(S, ino) == [S EXCEPT !.vn = [j \in DOMAIN @ \ {ino} |-> @[j]]]

\* Mutant: the count is not looked at again under the big lock.
sfs_reclaim_NoRecheck(S, ino) ==
  LET dead == S.vn[ino].i.links = 0 IN
  Then(sfs_sync_inode(IF dead THEN sfs_itrunc(S, ino, 0) ELSE S, ino),
       LAMBDA T : DropVnode(IF dead THEN sfs_bfree(T, ino) ELSE T, ino))

(***************************************************************************)
(* sfs_reclaim: somebody may have picked the vnode up since vnode_decref    *)
(* decided.  A file without names is erased.  A failed write leaves the     *)
(* vnode in the table, with a reference that belongs to nobody.             *)
(***************************************************************************)
sfs_reclaim(S, ino) ==
  LET dead == S.vn[ino].i.links = 0 IN
  IF S.vn[ino].ref # 1 THEN [S EXCEPT !.vn[ino].ref = @ - 1]
  ELSE Then(sfs_sync_inode(IF dead THEN sfs_itrunc(S, ino, 0) ELSE S, ino),
            LAMBDA T : DropVnode(IF dead THEN sfs_bfree(T, ino) ELSE T, ino))

\* VOP_DECREF inside an operation, which goes on with its own result.
GoOn(S, err) == IF S.err = "panic" THEN S ELSE [S EXCEPT !.err = err]

Decref(S, ino) ==
  IF S.err = "panic" THEN S
  ELSE IF S.vn[ino].ref > 1 THEN [S EXCEPT !.vn[ino].ref = @ - 1]
  ELSE GoOn(sfs_reclaim([S EXCEPT !.err = "ok"], ino), S.err)

\* sfs_loadvnode; forcetype is "INVAL" except for a new object.
Loaded(S, ino, forcetype) ==
  LET i == AsInode(S.disk[ino])
      new == forcetype # "INVAL"
      type == IF new THEN forcetype ELSE i.type IN
  IF (new /\ i.type # "INVAL") \/ type \notin {"FILE", "DIR"} THEN Fail(S, "panic")
  ELSE [S EXCEPT !.vn = @ @@ (ino :> [i |-> [i EXCEPT !.type = type], dirty |-> new, ref |-> 1])]

sfs_loadvnode(S, ino, forcetype) ==
  IF ~Ok(S) THEN S
  ELSE IF \E j \in DOMAIN S.vn : ~sfs_bused(S, j) THEN Fail(S, "panic")
  ELSE IF ino \in DOMAIN S.vn
    THEN IF forcetype # "INVAL" THEN Fail(S, "panic") ELSE [S EXCEPT !.vn[ino].ref = @ + 1]
  ELSE IF ~sfs_bused(S, ino) THEN Fail(S, "panic")
  ELSE Then(sfs_readblock(S), LAMBDA T : Loaded(T, ino, forcetype))

sfs_makeobj(S) ==
  Then(sfs_balloc(S),
       LAMBDA T : OnError(sfs_loadvnode(T, T.blk, "FILE"),
                          LAMBDA L : IF L.err = "panic" THEN L ELSE sfs_bfree(L, T.blk)))

sfs_getroot(S) ==
  LET T == sfs_loadvnode(S, SFS_ROOTDIR_INO, "INVAL") IN
  IF T.err = "EIO" THEN Fail(T, "halt")
  ELSE IF Ok(T) /\ T.vn[SFS_ROOTDIR_INO].i.type # "DIR" THEN Fail(T, "panic") ELSE T

----------------------------------------------------------------------------
\* Directories.  d is the inode number of a loaded directory.

Dirent(S, d, slot) == Entry(S.disk, S.vn[d].i, slot)
Having(S, d, name) == {k \in Slots(S.vn[d].i) : Dirent(S, d, k).ino # SFS_NOINO /\ Dirent(S, d, k).name = name}

\* sfs_dir_findname.  A name may be there once.
sfs_dir_findname(S, d, name) ==
  Then(IF S.vn[d].i.size = 0 THEN S ELSE sfs_readblock(S),
       LAMBDA T : IF Cardinality(Having(T, d, name)) > 1 THEN Fail(T, "panic")
                  ELSE IF Having(T, d, name) = {} THEN Fail(T, "ENOENT") ELSE T)

SlotOf(S, d, name) == Min(Having(S, d, name))
InoOf(S, d, name) == Dirent(S, d, SlotOf(S, d, name)).ino

\* sfs_metaio: an entry is written by rewriting its block.
sfs_writedir(S, d, slot, entry) ==
  LET new(T) == DirBlock([AsDir(T.disk[T.blk]) EXCEPT ![slot % SFS_BLOCKSIZE] = entry])
      grown(T) == IF slot + 1 > T.vn[d].i.size
                    THEN [T EXCEPT !.vn[d].i.size = slot + 1, !.vn[d].dirty = TRUE] ELSE T IN
  Then(sfs_readblock(sfs_bmap(S, d, slot \div SFS_BLOCKSIZE, TRUE)),
       LAMBDA T : Then(sfs_writeblock(T, T.blk, new(T)), grown))

\* The slot for a new entry: the last free one, or the end.
FreeSlot(S, d) ==
  LET free == {k \in Slots(S.vn[d].i) : Dirent(S, d, k).ino = SFS_NOINO} IN
  IF free = {} THEN S.vn[d].i.size ELSE Max(free)

sfs_dir_link(S, d, name, ino) ==
  LET T == sfs_dir_findname(S, d, name) IN
  IF ~Ok(S) THEN S
  ELSE IF Ok(T) THEN Fail(T, "EEXIST")
  ELSE IF T.err # "ENOENT" THEN T
  ELSE sfs_writedir([T EXCEPT !.err = "ok"], d, FreeSlot(T, d), [ino |-> ino, name |-> name])

sfs_dir_unlink(S, d, slot) == sfs_writedir(S, d, slot, NoEntry)

\* sfs_lookonce, which is sfs_lookup: the vnode of a name.
sfs_lookonce(S, d, name) ==
  LET linked(T, ino) == IF T.vn[ino].i.links = 0 THEN Fail(T, "panic") ELSE T IN
  Then(sfs_dir_findname(S, d, name),
       LAMBDA T : Then(sfs_loadvnode(T, InoOf(T, d, name), "INVAL"), LAMBDA L : linked(L, InoOf(T, d, name))))

----------------------------------------------------------------------------
\* Operations on the root directory.

AddLinks(S, ino, n) == [S EXCEPT !.vn[ino].i.links = @ + n, !.vn[ino].dirty = TRUE]

\* sfs_creat hands back the file in blk.
Linked(S, ino) == IF Ok(S) THEN [AddLinks(S, ino, 1) EXCEPT !.blk = ino] ELSE Decref(S, ino)

sfs_creat(S, d, name, excl) ==
  LET T == sfs_dir_findname(S, d, name) IN
  IF Ok(T) THEN IF excl THEN Fail(T, "EEXIST")
                ELSE [sfs_loadvnode(T, InoOf(T, d, name), "INVAL") EXCEPT !.blk = InoOf(T, d, name)]
  ELSE IF T.err # "ENOENT" THEN T
  ELSE Then(sfs_makeobj([T EXCEPT !.err = "ok"]),
            LAMBDA N : Linked(sfs_dir_link(N, d, name, N.blk), N.blk))

sfs_link(S, d, name, ino) ==
  IF S.vn[ino].i.type = "DIR" THEN Fail(S, "EINVAL")
  ELSE Then(sfs_dir_link(S, d, name, ino), LAMBDA T : AddLinks(T, ino, 1))

\* Mutant: the link count stays.
sfs_remove_KeepsCount(S, d, name) ==
  Then(sfs_lookonce(S, d, name),
       LAMBDA L : Decref(sfs_dir_unlink(L, d, SlotOf(S, d, name)), InoOf(S, d, name)))

sfs_remove(S, d, name) ==
  LET victim == InoOf(S, d, name) IN
  Then(sfs_lookonce(S, d, name),
       LAMBDA L : Decref(Then(sfs_dir_unlink(L, d, SlotOf(S, d, name)), LAMBDA T : AddLinks(T, victim, -1)), victim))

(***************************************************************************)
(* sfs_rename links the new name and then unlinks the old one.  When that   *)
(* fails the new name is taken back; if even that fails the kernel stops.   *)
(***************************************************************************)
TakenBack(S, g1, err) ==
  IF Ok(S) THEN Decref([S EXCEPT !.err = err, !.vn[g1].i.links = @ - 1], g1) ELSE Fail(S, "halt")

OldUnlinked(S, d, g1, slot2) ==
  IF Ok(S) THEN Decref(AddLinks(S, g1, -1), g1)
  ELSE TakenBack(sfs_dir_unlink([S EXCEPT !.err = "ok"], d, slot2), g1, S.err)

NewLinked(S, d, g1, slot1, slot2) ==
  IF Ok(S) THEN OldUnlinked(sfs_dir_unlink(AddLinks(S, g1, 1), d, slot1), d, g1, slot2)
  ELSE Decref(S, g1)

sfs_rename(S, d, n1, n2) ==
  LET g1 == InoOf(S, d, n1) IN
  Then(sfs_lookonce(S, d, n1),
       LAMBDA L : IF L.vn[g1].i.type # "FILE" THEN Fail(L, "panic")
                  ELSE NewLinked(sfs_dir_link(L, d, n2, g1), d, g1, SlotOf(S, d, n1), FreeSlot(L, d)))

----------------------------------------------------------------------------
\* The whole volume.

sfs_freemapio_write(S) == sfs_writeblock(S, SFS_FREEMAP_START, FreemapBlock(S.fm))

\* Mutant: the inodes are left for later.
sfs_sync_NoInodes(S, order) ==
  IF ~S.fmdirty THEN S ELSE Then(sfs_freemapio_write(S), LAMBDA T : [T EXCEPT !.fmdirty = FALSE])

\* sfs_sync: the loaded inodes, in the order of the table and whatever becomes of them;
\* then the freemap.
sfs_sync(S, order) ==
  LET fsync(T, ino) == [sfs_sync_inode(T, ino) EXCEPT !.err = "ok"]
      I == FoldLeft(fsync, S, order) IN
  IF ~I.fmdirty THEN I ELSE Then(sfs_freemapio_write(I), LAMBDA T : [T EXCEPT !.fmdirty = FALSE])

\* mksfs: an empty volume, with one link to its root.
mksfs ==
  [b \in Blocks |->
     CASE b = SFS_SUPER_BLOCK -> SUPER
       [] b = SFS_ROOTDIR_INO -> sfs_dinode("DIR", 1)
       [] b = SFS_FREEMAP_START -> FreemapBlock(Fixed)
       [] OTHER -> ZERO]
=============================================================================
