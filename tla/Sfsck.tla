-------------------------------- MODULE Sfsck --------------------------------
(***************************************************************************)
(* sfsck, userland/sbin/sfsck: what it makes of a volume.  Its state is      *)
(*    disk, log   the volume and the blocks written so far, in order         *)
(*    used        freemapdata: the blocks found in use                       *)
(*    tofree      tofreedata: the blocks it has dropped                      *)
(*    files       the inode table: file -> the links found in pass 2         *)
(*    kept        emptied indirect blocks: freemap_blockfree has no effect   *)
(*                on them, because they were just found in use               *)
(*    cross       a block was found in use twice (EXIT_UNRECOV)              *)
(*    nodot       there was no room for "." or ".." (EXIT_UNRECOV)           *)
(*    garbled     a block was read as what it is not; what sfsck makes of    *)
(*                its bytes is left open, and the volume is given up         *)
(* SFS has one directory, the root, and its file names are valid.            *)
(***************************************************************************)
EXTENDS Sfs

diskwrite(K, b, x) == [K EXCEPT !.disk[b] = x, !.log = Append(@, <<b, x>>)]

freemap_blockinuse(K, b) ==
  [K EXCEPT !.tofree = @ \ {b}, !.cross = @ \/ b \in K.used, !.used = @ \cup {b}]

freemap_blockfree(K, b) == IF b \in K.used THEN K ELSE [K EXCEPT !.tofree = @ \cup {b}]

\* The superblock and the freemap are in use.
freemap_setup(disk) ==
  [disk |-> disk, log |-> << >>, used |-> {SFS_SUPER_BLOCK, SFS_FREEMAP_START}, tofree |-> {},
   files |-> << >>, kept |-> {}, cross |-> FALSE, nodot |-> FALSE,
   garbled |-> FALSE]

Expect(K, b, kind) == [K EXCEPT !.garbled = @ \/ ~ReadsAs(K.disk[b], kind)]

----------------------------------------------------------------------------
\* Pass 1: blocks and sizes.

\* The block at position n of the file, kept below the end of the file and else dropped.
UseOrFree(K, b, keep) ==
  IF b = 0 THEN K ELSE IF keep THEN freemap_blockinuse(K, b) ELSE freemap_blockfree(K, b)

FoldUpTo(op(_, _), K, n) == FoldLeft(op, K, [i \in 1..n |-> i - 1])

\* check_indirect_block: entries past the end go; an empty indirect block goes too.
\* The indirect block that the file is left with is the field ind.
check_indirect_block(K, inode, fileblocks) ==
  LET idb  == inode.indirect
      ents == AsIndirect(K.disk[idb])
      keep(j) == SFS_NDIRECT + j < fileblocks
      left == [j \in DOMAIN ents |-> IF keep(j) THEN ents[j] ELSE 0]
      use(T, j) == UseOrFree(T, ents[j], keep(j))
      T == FoldUpTo(use, freemap_blockinuse(Expect(K, idb, "indirect"), idb), SFS_DBPERIDB) IN
  IF idb = 0 THEN [k |-> K, ind |-> 0]
  ELSE IF \A j \in DOMAIN left : left[j] = 0 THEN [k |-> [freemap_blockfree(T, idb) EXCEPT !.kept = @ \cup {idb}], ind |-> 0]
  ELSE [k |-> IF left = ents THEN T ELSE diskwrite(T, idb, IndirectBlock(left)), ind |-> idb]

\* pass1_inode with check_inode_blocks, for an inode met for the first time.
pass1_inode(K, ino) ==
  LET inode == AsInode(K.disk[ino])
      fileblocks == DIVROUNDUP(inode.size, SFS_BLOCKSIZE)
      use(T, i) == UseOrFree(T, inode.direct[i], i < fileblocks)
      D == FoldUpTo(use, freemap_blockinuse(K, ino), SFS_NDIRECT)
      C == check_indirect_block(D, inode, fileblocks)
      fixed == [inode EXCEPT !.direct = [i \in DOMAIN @ |-> IF i < fileblocks THEN @[i] ELSE 0],
                             !.indirect = C.ind] IN
  IF fixed = inode THEN C.k ELSE diskwrite(C.k, ino, fixed)

\* sfs_writedir: the blocks of the directory, with what is past its end cleared.
sfs_writedir_all(K, inode, ents) ==
  LET block(T, n) ==
        LET slot(j) == n * SFS_BLOCKSIZE + j
            b == MapBlock(T.disk, inode, n) IN
        IF b = 0 THEN T
        ELSE diskwrite(T, b, DirBlock(
               [j \in 0..(SFS_BLOCKSIZE - 1) |-> IF slot(j) < inode.size THEN ents[slot(j)] ELSE NoEntry])) IN
  FoldUpTo(block, K, DIVROUNDUP(inode.size, SFS_BLOCKSIZE))

RootInode(K) == AsInode(K.disk[SFS_ROOTDIR_INO])
RootEntries(K) == [k \in Slots(RootInode(K)) |-> Entry(K.disk, RootInode(K), k)]
IsName(e) == e.ino # SFS_NOINO /\ e.name \notin {".", ".."}

\* sfs_readdir, of the root.
ReadRoot(K) ==
  LET read(T, n) == IF MapBlock(T.disk, RootInode(T), n) = 0 THEN T
                    ELSE Expect(T, MapBlock(T.disk, RootInode(T), n), "dir") IN
  FoldUpTo(read, K, DIVROUNDUP(RootInode(K).size, SFS_BLOCKSIZE))

\* Mutant: an entry for an inode that was never written stays.
pass1_dir_KeepsEntry(K) ==
  LET ents == RootEntries(K)
      type(k) == AsInode(K.disk[ents[k].ino]).type
      visit(T, k) ==
        IF ~IsName(ents[k]) \/ ents[k].ino \in DOMAIN T.files THEN T
        ELSE IF type(k) # "FILE" THEN Expect(T, ents[k].ino, "inode")
        ELSE pass1_inode([T EXCEPT !.files = @ @@ (ents[k].ino :> 0)], ents[k].ino) IN
  FoldUpTo(visit, K, RootInode(K).size)

\* pass1_dir: what the entries of the root name.  An entry for an inode of no type goes.
pass1_dir(K) ==
  LET ents == RootEntries(K)
      type(k) == AsInode(K.disk[ents[k].ino]).type
      visit(T, k) ==
        IF ~IsName(ents[k]) \/ ents[k].ino \in DOMAIN T.files THEN T
        ELSE IF type(k) # "FILE" THEN Expect(T, ents[k].ino, "inode")
        ELSE pass1_inode([T EXCEPT !.files = @ @@ (ents[k].ino :> 0)], ents[k].ino)
      V == FoldUpTo(visit, K, RootInode(K).size)
      left == [k \in DOMAIN ents |-> IF IsName(ents[k]) /\ type(k) \notin {"FILE", "DIR"} THEN NoEntry ELSE ents[k]] IN
  IF left = ents THEN V ELSE sfs_writedir_all(V, RootInode(V), left)

\* pass1: the root inode, then the root directory.
pass1(K) == pass1_dir(ReadRoot(pass1_inode(K, SFS_ROOTDIR_INO)))

\* freemap_check: the freemap on disk becomes what pass 1 has found.
freemap_check(K) ==
  IF K.disk[SFS_FREEMAP_START].used = K.used THEN K
  ELSE diskwrite(K, SFS_FREEMAP_START, FreemapBlock(K.used))

----------------------------------------------------------------------------
\* Pass 2: the directory.

\* Names that are there twice: one of the two goes, or gets a name of its own.
Merge(ents) ==
  LET twin(k) == {m \in DOMAIN ents : m > k /\ ents[m].ino # SFS_NOINO /\ ents[m].name = ents[k].name} IN
  [k \in DOMAIN ents |->
     IF ents[k].ino = SFS_NOINO \/ twin(k) = {} THEN ents[k]
     ELSE IF \E m \in twin(k) : ents[m].ino = ents[k].ino THEN NoEntry
     ELSE [ents[k] EXCEPT !.name = <<"FSCK", ents[k].ino>>]]

\* sfsdir_tryadd for "." or "..": a free slot, else the next one of the last block.
AddDot(ents, name) ==
  LET free == {k \in DOMAIN ents : ents[k].ino = SFS_NOINO}
      n == Cardinality(DOMAIN ents)
      dot == [ino |-> SFS_ROOTDIR_INO, name |-> name] IN
  IF \E k \in DOMAIN ents : ents[k].name = name
    THEN [k \in DOMAIN ents |-> IF ents[k].name = name THEN dot ELSE ents[k]]
  ELSE IF free # {} THEN [ents EXCEPT ![Min(free)] = dot]
  ELSE IF n % SFS_BLOCKSIZE # 0 THEN ents @@ (n :> dot)
  ELSE ents

pass2(K) ==
  LET inode == RootInode(K)
      ents  == RootEntries(K)
      dots  == AddDot(AddDot(Merge(ents), "."), "..")
      links(f) == Cardinality({k \in DOMAIN dots : IsName(dots[k]) /\ dots[k].ino = f})
      fixed == [inode EXCEPT !.size = Cardinality(DOMAIN dots), !.links = 2]
      has(name) == \E k \in DOMAIN dots : dots[k].name = name
      D == IF dots = ents THEN K ELSE sfs_writedir_all(K, fixed, dots)
      I == IF fixed = inode THEN D ELSE diskwrite(D, SFS_ROOTDIR_INO, fixed) IN
  [I EXCEPT !.files = [f \in DOMAIN @ |-> links(f)], !.nodot = ~has(".") \/ ~has("..")]

\* Pass 3, inode_adjust_filelinks: a file's link count becomes what pass 2 has counted.
inode_adjust_filelinks(K) ==
  LET adjust(T, f) ==
        IF T.disk[f].links = T.files[f] THEN T
        ELSE diskwrite(T, f, [T.disk[f] EXCEPT !.links = T.files[f]]) IN
  FoldLeft(adjust, K, SetToSortSeq(DOMAIN K.files, <))

sfsck(disk) == inode_adjust_filelinks(pass2(freemap_check(pass1(freemap_setup(disk)))))
=============================================================================
