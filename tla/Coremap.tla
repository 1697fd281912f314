------------------------------- MODULE Coremap -------------------------------
(***************************************************************************)
(* Physical memory: ram_stealmem during boot (kern/arch/mips/vm/ram.c),     *)
(* then the coremap of kern/vm/vm.c, or for good in kernels configured with *)
(* dumbvm (kern/arch/mips/vm/dumbvm.c).  Addresses are counted in bytes and *)
(* pages are PAGE_SIZE of them, as in the code; only the numbers are small. *)
(*                                                                         *)
(* coremap_lock is a sleep lock; what happens under it is one step.         *)
(* free_kpages looks its entry up under the lock, lets the lock go and      *)
(* takes it again; alloc_kpages reads the pfn after it has released it.     *)
(* A thread calls with vmpc "alloc" or "free" and comes back with vmpc "idle".        *)
(***************************************************************************)
EXTENDS Integers, FiniteSets, FiniteSetsExt, Sequences

CONSTANTS
  Threads,
  Machines,      \* kernels and what they boot on: [vm : {"vm", "dumbvm"}, firstfree : first address
                 \* after the kernel image, ramsize : Nat, as : per thread its address space or NULL]
  PAGE_SIZE,
  ENTRY_SIZE,    \* sizeof(struct coremap_entry)
  MIPS_KSEG0,    \* offset of the direct-mapped kernel segment
  MaxSteal,      \* bound: the most pages kern/vm/vm.c takes during boot
  NULL

ASSUME SizeAssumption ==
  /\ PAGE_SIZE \in Nat \ {0} /\ ENTRY_SIZE \in Nat \ {0} /\ MaxSteal \in Nat
  /\ MIPS_KSEG0 \in Nat /\ MIPS_KSEG0 % PAGE_SIZE = 0
  /\ \A m \in Machines :
       /\ m.firstfree \in Nat \ {0} /\ m.firstfree % PAGE_SIZE = 0 /\ m.ramsize % PAGE_SIZE = 0
       /\ m.firstfree + MaxSteal * PAGE_SIZE < m.ramsize /\ m.ramsize <= MIPS_KSEG0

PADDR_TO_KVADDR(pa) == pa + MIPS_KSEG0

VARIABLES
  machine,       \* the one that runs
  firstpaddr,    \* ram.c: what is still unused
  lastpaddr,
  bootstrapped,
  coremap,       \* array of entries, a function from 0..num_pages-1
  vmpc,          \* per thread: where it is in alloc_kpages or free_kpages
  entry,         \* per thread: index of the entry it works on
  va,            \* per thread: the address it asked to free, or was given
  misgiven       \* vm.c has given out a page that is in use, or none for want of one

ramvars == <<firstpaddr, lastpaddr>>
vmvars == <<machine, ramvars, bootstrapped, coremap, vmpc, entry, va, misgiven>>

vm == machine.vm
proc_getas(t) == machine.as[t]

\* ram_bootstrap has run.
VmInit ==
  /\ machine \in Machines
  /\ firstpaddr = machine.firstfree /\ lastpaddr = machine.ramsize
  /\ bootstrapped = FALSE
  /\ coremap = << >>
  /\ vmpc = [t \in Threads |-> "idle"]
  /\ entry = [t \in Threads |-> 0]
  /\ va = [t \in Threads |-> 0]
  /\ misgiven = FALSE

----------------------------------------------------------------------------
Frames == DOMAIN coremap

\* A page taken from the front of what is left; nothing changes when there is none.
ram_stealmem ==
  IF firstpaddr + PAGE_SIZE > lastpaddr
    THEN UNCHANGED ramvars
    ELSE firstpaddr' = firstpaddr + PAGE_SIZE /\ UNCHANGED lastpaddr

Stolen == IF firstpaddr + PAGE_SIZE > lastpaddr THEN 0 ELSE firstpaddr

(***************************************************************************)
(* vm_bootstrap: the array is put at the first free address.  The entries   *)
(* describe the pages from address 0 on.  (It panics when the array does    *)
(* not fit; the machine does not come up.)  dumbvm has nothing to do.       *)
(***************************************************************************)
vm_bootstrap ==
  LET num_pages   == (lastpaddr - firstpaddr) \div PAGE_SIZE
      remaining   == firstpaddr + num_pages * ENTRY_SIZE
      fixed_pages == num_pages \div PAGE_SIZE + (IF remaining % PAGE_SIZE # 0 THEN 1 ELSE 0)
  IN
  /\ vm = "vm" /\ ~bootstrapped
  /\ remaining < lastpaddr
  /\ coremap' = [i \in 0..(num_pages - 1) |->
                   LET fixed == i < fixed_pages IN
                   [status |-> IF fixed THEN "FIXED" ELSE "FREE",
                    pfn    |-> PAGE_SIZE * i,
                    vfn    |-> IF fixed THEN PADDR_TO_KVADDR(PAGE_SIZE * i) ELSE 0,
                    as     |-> NULL]]
  /\ firstpaddr' = 0 /\ lastpaddr' = 0
  /\ bootstrapped' = TRUE
  /\ UNCHANGED <<machine, vmpc, entry, va, misgiven>>

\* What ram_getfirstfree has returned, once vm_bootstrap has run.
FirstManaged == machine.ramsize - PAGE_SIZE * Cardinality(Frames)

\* Taken by ram_stealmem, or by the array.
TakenAtBoot(pa) == pa \in machine.firstfree..(FirstManaged + Cardinality(Frames) * ENTRY_SIZE - 1)

----------------------------------------------------------------------------
\* alloc_kpages and free_kpages are called; they have returned when vmpc is "idle".
CallAlloc(t) == vmpc' = [vmpc EXCEPT ![t] = "alloc"] /\ va' = [va EXCEPT ![t] = 0]
CallFree(t, addr) == vmpc' = [vmpc EXCEPT ![t] = "free"] /\ va' = [va EXCEPT ![t] = addr]

Return(t, addr) ==
  /\ vmpc' = [vmpc EXCEPT ![t] = "idle"]
  /\ entry' = [entry EXCEPT ![t] = 0]
  /\ va' = [va EXCEPT ![t] = addr]

(***************************************************************************)
(* alloc_kpages(1) during boot, and in dumbvm always.  dumbvm returns 0 for *)
(* failure; vm.c would return PADDR_TO_KVADDR(0), and during boot there is  *)
(* memory.                                                                  *)
(***************************************************************************)
alloc_kpages_steal(t) ==
  /\ vmpc[t] = "alloc" /\ ~bootstrapped
  /\ ram_stealmem
  /\ Return(t, IF vm = "dumbvm" /\ Stolen = 0 THEN 0 ELSE PADDR_TO_KVADDR(Stolen))
  /\ UNCHANGED <<machine, bootstrapped, coremap, misgiven>>

(***************************************************************************)
(* coremap_get_pages(1): the first free entry.  With none it returns 0,     *)
(* which alloc_kpages turns into PADDR_TO_KVADDR(0), a page like any other  *)
(* to its caller.                                                           *)
(***************************************************************************)
coremap_get_pages(t) ==
  LET free == {i \in Frames : coremap[i].status = "FREE"}
      e    == Min(free) IN
  /\ vmpc[t] = "alloc" /\ bootstrapped
  /\ IF free = {}
       THEN /\ Return(t, PADDR_TO_KVADDR(0))
            /\ misgiven' = TRUE
            /\ UNCHANGED coremap
       ELSE /\ coremap' = [coremap EXCEPT ![e] =
                             [@ EXCEPT !.status = "DIRTY", !.as = proc_getas(t),
                                       !.vfn = PADDR_TO_KVADDR(coremap[e].pfn)]]
            /\ vmpc' = [vmpc EXCEPT ![t] = "got"]
            /\ entry' = [entry EXCEPT ![t] = e]
            /\ misgiven' = (misgiven \/ coremap[e].pfn # PAGE_SIZE * e \/ TakenAtBoot(coremap[e].pfn))
            /\ UNCHANGED va
  /\ UNCHANGED <<machine, ramvars, bootstrapped>>

\* The lock is released; only then is the pfn read for the return value.
alloc_kpages(t) ==
  /\ vmpc[t] = "got"
  /\ Return(t, PADDR_TO_KVADDR(coremap[entry[t]].pfn))
  /\ UNCHANGED <<machine, ramvars, bootstrapped, coremap, misgiven>>

\* The first entry with this address, under the lock.  None: free_kpages only complains.
\* dumbvm leaks the page, and so does the coremap before it is set up.
coremap_find_entry_by_vaddr(t) ==
  LET found == {i \in Frames : coremap[i].vfn = va[t]} IN
  /\ vmpc[t] = "free"
  /\ IF found = {}
       THEN Return(t, 0)
       ELSE /\ vmpc' = [vmpc EXCEPT ![t] = "found"]
            /\ entry' = [entry EXCEPT ![t] = Min(found)]
            /\ UNCHANGED va
  /\ UNCHANGED <<machine, ramvars, bootstrapped, coremap, misgiven>>

\* The rest of free_kpages, with the lock taken again.  The entry of a page of a kernel
\* thread keeps its frame and address; that of a page of a process loses them, and what
\* coremap_get_pages makes of it next is page 0.
free_kpages(t) ==
  /\ vmpc[t] = "found"
  /\ coremap' = [coremap EXCEPT ![entry[t]] =
                   IF @.as # NULL THEN [status |-> "FREE", pfn |-> 0, vfn |-> 0, as |-> NULL]
                                  ELSE [@ EXCEPT !.status = "FREE"]]
  /\ Return(t, 0)
  /\ UNCHANGED <<machine, ramvars, bootstrapped, misgiven>>

VmStep(t) ==
  \/ alloc_kpages_steal(t)
  \/ coremap_get_pages(t)
  \/ alloc_kpages(t)
  \/ coremap_find_entry_by_vaddr(t)
  \/ free_kpages(t)
=============================================================================
