------------------------------- MODULE Kmalloc -------------------------------
(***************************************************************************)
(* The kernel heap, kern/vm/kmalloc.c, on top of the page allocators of     *)
(* Coremap.tla.  Blocks smaller than LARGEST_SUBPAGE_SIZE are cut from      *)
(* pages; each such page has a pageref, and the pagerefs live on pages of   *)
(* their own, which hang off kheaproots.                                    *)
(*                                                                         *)
(* Everything is protected by kmalloc_spinlock, which is released around    *)
(* every call of alloc_kpages and free_kpages: what happens between two     *)
(* such points is one step.                                                 *)
(***************************************************************************)
EXTENDS Coremap, SequencesExt

CONSTANTS
  sizes,               \* block sizes, increasing; block types start at 1
  NUM_PAGEREFPAGES,
  NPAGEREFS_PER_PAGE,
  BootThread,          \* the thread that boots the kernel
  Requests(_),         \* the sizes clients ask for on a machine
  MaxBlocks            \* bound: blocks in use at once

LARGEST_SUBPAGE_SIZE == sizes[Len(sizes)]

\* proc.h allows fewer processes (PROCS_MAX) than a page has pagerefs.
ASSUME HeapAssumption ==
  /\ BootThread \in Threads
  /\ NUM_PAGEREFPAGES \in Nat \ {0}
  /\ Cardinality(Threads) <= NPAGEREFS_PER_PAGE
  /\ \A i \in 1..Len(sizes) : PAGE_SIZE % sizes[i] = 0
  /\ \A m \in Machines : \A sz \in Requests(m) : sz <= PAGE_SIZE

VARIABLES
  kheaproots,    \* per root: page (0 is NULL), the pagerefs in use, numinuse
  pageref,       \* per pageref <<root, index>>: page, blktype, nfree, freelist
  sizebases,     \* per block type: its pagerefs, newest first
  allbase,       \* all pagerefs, newest first
  blocks,        \* what clients hold: [addr, size]
  loc,           \* per thread: what it is doing
  job            \* per thread: its block type, fresh page and pageref

heapvars == <<kheaproots, pageref, sizebases, allbase, blocks>>
vars == <<vmvars, heapvars, loc, job>>

Roots == 1..NUM_PAGEREFPAGES
Indexes == 0..(NPAGEREFS_PER_PAGE - 1)
BlockTypes == 1..Len(sizes)
NoPageref == [page |-> 0, blktype |-> 1, nfree |-> 0, freelist |-> << >>]
NoJob == [blktype |-> 1, prpage |-> 0, ref |-> <<1, 0>>]

Init ==
  /\ VmInit
  /\ kheaproots = [r \in Roots |-> [page |-> 0, inuse |-> {}, numinuse |-> 0]]
  /\ pageref = [p \in Roots \X Indexes |-> NoPageref]
  /\ sizebases = [b \in BlockTypes |-> << >>]
  /\ allbase = << >>
  /\ blocks = {}
  /\ loc = [t \in Threads |-> "run"]
  /\ job = [t \in Threads |-> NoJob]

----------------------------------------------------------------------------
Goto(t, l) == loc' = [loc EXCEPT ![t] = l]

\* The client has its answer: the locals of the call are gone.
Done(t) ==
  /\ Goto(t, "run")
  /\ job' = [job EXCEPT ![t] = NoJob]
  /\ va' = [va EXCEPT ![t] = 0]
  /\ UNCHANGED <<machine, ramvars, bootstrapped, coremap, vmpc, entry, misgiven>>

\* A failed KASSERT: the kernel stops.
Panic(t) == Goto(t, "panic") /\ UNCHANGED <<vmvars, heapvars, job>>

\* The step of a call that is made without the spinlock.
PageFor(t, l) == Goto(t, l) /\ CallAlloc(t) /\ UNCHANGED <<machine, ramvars, bootstrapped, coremap, entry, misgiven>>
FreePage(t, l, addr) ==
  Goto(t, l) /\ CallFree(t, addr) /\ UNCHANGED <<machine, ramvars, bootstrapped, coremap, entry, misgiven>>

blocktype(clientsz) == Min({b \in BlockTypes : clientsz <= sizes[b]})
BlocksPerPage(b) == PAGE_SIZE \div sizes[b]

\* Mutant: the first block of the page is left off the list.
FreshPage_OneShort(page, b) ==
  [page |-> page, blktype |-> b, nfree |-> BlocksPerPage(b),
   freelist |-> [i \in 1..(BlocksPerPage(b) - 1) |-> (BlocksPerPage(b) - i) * sizes[b]]]

\* What a fresh page holds: the list starts at the last block and runs to the first.
FreshPage(page, b) ==
  [page |-> page, blktype |-> b, nfree |-> BlocksPerPage(b),
   freelist |-> [i \in 1..BlocksPerPage(b) |-> (BlocksPerPage(b) - i) * sizes[b]]]

\* Mutant: the block stays on the free list.
doalloc_KeepsBlock(t, prs, p) ==
  LET pr == prs[p] IN
  /\ pageref' = [prs EXCEPT ![p] = [pr EXCEPT !.nfree = @ - 1]]
  /\ blocks' = blocks \cup {[addr |-> pr.page + Head(pr.freelist), size |-> sizes[pr.blktype]]}
  /\ Done(t)

\* The label doalloc: the first block of the page's free list goes to the client.
doalloc(t, prs, p) ==
  LET pr   == prs[p]
      rest == Tail(pr.freelist) IN
  IF (rest = << >>) # (pr.nfree = 1)
    THEN Goto(t, "panic") /\ UNCHANGED <<vmvars, pageref, blocks, job>>
    ELSE /\ pageref' = [prs EXCEPT ![p] = [pr EXCEPT !.nfree = @ - 1, !.freelist = rest]]
         /\ blocks' = blocks \cup {[addr |-> pr.page + Head(pr.freelist), size |-> sizes[pr.blktype]]}
         /\ Done(t)

----------------------------------------------------------------------------
\* During boot vm.c has one thread, and coremap_lock does not exist yet: nothing is freed.
MayCall(t) ==
  /\ loc[t] = "run" /\ vmpc[t] = "idle"
  /\ vm = "dumbvm" \/ bootstrapped \/ t = BootThread
  /\ vm = "vm" /\ ~bootstrapped => (firstpaddr - machine.firstfree) \div PAGE_SIZE + 2 <= MaxSteal

Room == Cardinality(blocks) + Cardinality({t \in Threads : loc[t] \in {"bigpage", "page", "refpage", "spare"}}) < MaxBlocks

\* kmalloc of a block too large for the subpage allocator: a page of its own.
kmalloc_page(t, sz) ==
  /\ MayCall(t) /\ Room
  /\ sz >= LARGEST_SUBPAGE_SIZE
  /\ PageFor(t, "bigpage")
  /\ UNCHANGED <<heapvars, job>>

kmalloc_page_return(t) ==
  /\ loc[t] = "bigpage" /\ vmpc[t] = "idle"
  /\ blocks' = IF va[t] = 0 THEN blocks ELSE blocks \cup {[addr |-> va[t], size |-> PAGE_SIZE]}
  /\ Done(t)
  /\ UNCHANGED <<kheaproots, pageref, sizebases, allbase>>

\* subpage_kmalloc: the first page of the right type with a free block, or else a fresh page.
subpage_kmalloc(t, sz) ==
  LET b     == blocktype(sz)
      avail == {i \in DOMAIN sizebases[b] : pageref[sizebases[b][i]].nfree > 0} IN
  /\ MayCall(t) /\ Room
  /\ sz < LARGEST_SUBPAGE_SIZE
  /\ IF avail # {}
       THEN /\ doalloc(t, pageref, sizebases[b][Min(avail)])
            /\ UNCHANGED <<kheaproots, sizebases, allbase>>
       ELSE /\ PageFor(t, "page")
            /\ job' = [job EXCEPT ![t] = [NoJob EXCEPT !.blktype = b]]
            /\ UNCHANGED heapvars

\* The rest of subpage_kmalloc, once the page has its pageref p.
NewPage(t, page, p) ==
  LET b == job[t].blktype IN
  /\ sizebases' = [sizebases EXCEPT ![b] = <<p>> \o @]
  /\ allbase' = <<p>> \o allbase
  /\ doalloc(t, [pageref EXCEPT ![p] = FreshPage(page, b)], p)

(***************************************************************************)
(* The fresh page is there, and allocpageref marks a pageref.  When that    *)
(* pageref has no page yet, one is asked for, with the mark already set.    *)
(***************************************************************************)
allocpageref(t) ==
  LET page  == va[t]
      roots == {r \in Roots : kheaproots[r].numinuse < NPAGEREFS_PER_PAGE}
      r     == Min(roots)
      i     == Min(Indexes \ kheaproots[r].inuse)
      mark  == [kheaproots EXCEPT ![r] = [@ EXCEPT !.inuse = @ \cup {i}, !.numinuse = @ + 1]]
  IN
  /\ loc[t] = "page" /\ vmpc[t] = "idle"
  /\ CASE page = 0 ->
            Done(t) /\ UNCHANGED heapvars
       [] page # 0 /\ roots = {} ->
            FreePage(t, "freeing", page) /\ UNCHANGED <<heapvars, job>>
       [] page # 0 /\ roots # {} /\ kheaproots[r].page = 0 ->
            /\ kheaproots' = mark
            /\ PageFor(t, "refpage")
            /\ job' = [job EXCEPT ![t] = [@ EXCEPT !.prpage = page, !.ref = <<r, i>>]]
            /\ UNCHANGED <<pageref, sizebases, allbase, blocks>>
       [] OTHER ->
            /\ kheaproots' = mark
            /\ NewPage(t, page, <<r, i>>)

\* Mutant: nobody looks whether the root has got its page in the meantime.
allocpagerefpage_NoRecheck(t) ==
  LET r == job[t].ref[1] IN
  /\ loc[t] = "refpage" /\ vmpc[t] = "idle" /\ va[t] # 0
  /\ kheaproots' = [kheaproots EXCEPT ![r] = [@ EXCEPT !.page = va[t]]]
  /\ NewPage(t, job[t].prpage, job[t].ref)

(***************************************************************************)
(* allocpagerefpage after its alloc_kpages: another thread may have given   *)
(* the root a page; then ours is not needed.  Without any page for the root *)
(* subpage_kmalloc gives the fresh page back and fails; the mark stays.     *)
(***************************************************************************)
allocpagerefpage(t) ==
  LET r == job[t].ref[1] IN
  /\ loc[t] = "refpage" /\ vmpc[t] = "idle"
  /\ CASE va[t] = 0 /\ kheaproots[r].page = 0 ->
            FreePage(t, "freeing", job[t].prpage) /\ UNCHANGED <<heapvars, job>>
       [] va[t] # 0 /\ kheaproots[r].page # 0 ->
            FreePage(t, "spare", va[t]) /\ UNCHANGED <<heapvars, job>>
       [] OTHER ->
            /\ kheaproots' = [kheaproots EXCEPT ![r] = [@ EXCEPT !.page = IF @ = 0 THEN va[t] ELSE @]]
            /\ NewPage(t, job[t].prpage, job[t].ref)

\* The page that was not needed is freed; the pageref is used.
allocpagerefpage_spare(t) ==
  /\ loc[t] = "spare" /\ vmpc[t] = "idle"
  /\ IF kheaproots[job[t].ref[1]].page = 0
       THEN Panic(t)
       ELSE NewPage(t, job[t].prpage, job[t].ref) /\ UNCHANGED kheaproots

----------------------------------------------------------------------------
\* Mutant: the page is given back while it is still on the lists.
remove_lists_OnlyOne(p, b) ==
  /\ sizebases' = [sizebases EXCEPT ![b] = SelectSeq(@, LAMBDA q : q # p)]
  /\ UNCHANGED allbase

remove_lists(p, b) ==
  /\ sizebases' = [sizebases EXCEPT ![b] = SelectSeq(@, LAMBDA q : q # p)]
  /\ allbase' = SelectSeq(allbase, LAMBDA q : q # p)

\* Whether freepageref(p) gets past its assertions: the roots before p's own, and p's mark.
freepageref_ok(p) ==
  /\ \A r \in 1..(p[1] - 1) : kheaproots[r].page = 0 => kheaproots[r].numinuse = 0
  /\ kheaproots[p[1]].page # 0
  /\ p[2] \in kheaproots[p[1]].inuse
  /\ kheaproots[p[1]].numinuse > 0

freepageref(p) ==
  kheaproots' = [kheaproots EXCEPT ![p[1]] = [@ EXCEPT !.inuse = @ \ {p[2]}, !.numinuse = @ - 1]]

(***************************************************************************)
(* kfree of a block: the first page on allbase that holds the address.  No  *)
(* such page: it is a whole-page allocation.  A page whose blocks are all   *)
(* free leaves the heap.                                                    *)
(***************************************************************************)
kfree(t, blk) ==
  LET at == {i \in DOMAIN allbase : blk.addr \in pageref[allbase[i]].page..(pageref[allbase[i]].page + PAGE_SIZE - 1)}
      p  == allbase[Min(at)]
      pr == pageref[p]
      offset == blk.addr - pr.page
      full == pr.nfree + 1 = BlocksPerPage(pr.blktype)
  IN
  /\ MayCall(t) /\ (vm = "vm" => bootstrapped) /\ blk \in blocks
  /\ CASE at = {} ->
            IF blk.addr % PAGE_SIZE # 0 THEN Panic(t)
            ELSE /\ blocks' = blocks \ {blk}
                 /\ FreePage(t, "freeing", blk.addr)
                 /\ UNCHANGED <<kheaproots, pageref, sizebases, allbase, job>>
       [] at # {} /\ (\/ offset % sizes[pr.blktype] # 0
                      \/ pr.freelist # << >> /\ Head(pr.freelist) = offset
                      \/ pr.nfree + 1 > BlocksPerPage(pr.blktype)
                      \/ full /\ ~freepageref_ok(p)) ->
            Panic(t)
       [] OTHER ->
            /\ blocks' = blocks \ {blk}
            /\ pageref' = [pageref EXCEPT ![p] =
                             IF full THEN NoPageref
                             ELSE [pr EXCEPT !.nfree = @ + 1, !.freelist = <<offset>> \o @]]
            /\ IF full
                 THEN /\ remove_lists(p, pr.blktype)
                      /\ freepageref(p)
                      /\ FreePage(t, "freeing", pr.page)
                      /\ UNCHANGED job
                 ELSE /\ Done(t)
                      /\ UNCHANGED <<kheaproots, sizebases, allbase>>

\* free_kpages has returned to the last caller on the way out.
freed(t) ==
  /\ loc[t] = "freeing" /\ vmpc[t] = "idle"
  /\ Done(t)
  /\ UNCHANGED heapvars

\* boot() calls vm_bootstrap.
boot ==
  /\ loc[BootThread] = "run"
  /\ vm_bootstrap
  /\ UNCHANGED <<heapvars, loc, job>>

Next ==
  \/ boot
  \/ \E t \in Threads :
       \/ VmStep(t) /\ UNCHANGED <<heapvars, loc, job>>
       \/ \E sz \in Requests(machine) : kmalloc_page(t, sz) \/ subpage_kmalloc(t, sz)
       \/ \E blk \in blocks : kfree(t, blk)
       \/ kmalloc_page_return(t)
       \/ allocpageref(t)
       \/ allocpagerefpage(t)
       \/ allocpagerefpage_spare(t)
       \/ freed(t)

Spec == Init /\ [][Next]_vars

----------------------------------------------------------------------------
\* Correctness.

\* Until vm.c gives out a page that it does not have (page 0 for want of a free one or in
\* place of a frame that free_kpages has lost, or a page taken during boot), the KASSERTs
\* of kmalloc.c hold whatever other threads do while the spinlock is released.
NoPanic == ~misgiven => \A t \in Threads : loc[t] # "panic"

Extent(blk) == blk.addr..(blk.addr + blk.size - 1)
PagerefPages == {kheaproots[r].page : r \in Roots} \ {0}
FreeBlocks(p) == {pageref[p].page + o : o \in ToSet(pageref[p].freelist)}

\* Until then no byte has two users: two blocks that clients hold do not overlap, and no
\* block overlaps a free block of the heap or a page that holds pagerefs.
BlocksDisjoint ==
  ~misgiven =>
  /\ \A x \in blocks, y \in blocks : x # y => Extent(x) \cap Extent(y) = {}
  /\ \A x \in blocks :
       /\ \A p \in ToSet(allbase) : FreeBlocks(p) \cap Extent(x) = {}
       /\ \A q \in PagerefPages : q \notin Extent(x)

\* What checksubpage and the lists rely on: a page on the heap is on allbase and on the
\* list of its type once, its pageref is marked in use, and nfree counts its free list.
HeapSound ==
  ~misgiven =>
  /\ IsInjective(allbase)
  /\ \A b \in BlockTypes : sizebases[b] = SelectSeq(allbase, LAMBDA p : pageref[p].blktype = b)
  /\ \A p \in ToSet(allbase) :
       /\ p[2] \in kheaproots[p[1]].inuse
       /\ pageref[p].nfree = Len(pageref[p].freelist) /\ IsInjective(pageref[p].freelist)
       /\ pageref[p].nfree < BlocksPerPage(pageref[p].blktype)
  /\ \A r \in Roots : kheaproots[r].numinuse = Cardinality(kheaproots[r].inuse)

\* The pages that a thread has been given, or is about to give back, between two steps.
InHand(t) ==
  (IF loc[t] \in {"bigpage", "page", "refpage"} /\ vmpc[t] = "idle" THEN {va[t]} ELSE {})
  \cup (IF loc[t] \in {"refpage", "spare"} THEN {job[t].prpage} ELSE {})
  \cup (IF vmpc[t] = "got" THEN {PADDR_TO_KVADDR(coremap[entry[t]].pfn)} ELSE {})
  \cup (IF vmpc[t] \in {"free", "found"} THEN {va[t]} ELSE {})

HeapPages == {pageref[p].page : p \in ToSet(allbase)}
BigPages == {blk.addr : blk \in {b \in blocks : b.size = PAGE_SIZE}}

\* Until then a page that the coremap calls DIRTY is in use by exactly one party (the heap,
\* the pageref table, a client or a thread under way), and one that it calls FREE by
\* nobody: no page is lost and none is given out twice while it is in use.  This is about
\* entries that have their frame: free_kpages loses those of a process, for good.
PagesAccounted ==
  ~misgiven =>
  \A i \in {f \in Frames : coremap[f].pfn = PAGE_SIZE * f /\ ~TakenAtBoot(coremap[f].pfn)} :
    LET page  == PADDR_TO_KVADDR(coremap[i].pfn)
        users == {x \in {"heap", "pagerefs", "client"} :
                    page \in CASE x = "heap" -> HeapPages
                               [] x = "pagerefs" -> PagerefPages
                               [] x = "client" -> BigPages}
        hands == {t \in Threads : page \in InHand(t)} IN
    Cardinality(users) + Cardinality(hands) = IF coremap[i].status = "DIRTY" THEN 1 ELSE 0
=============================================================================
