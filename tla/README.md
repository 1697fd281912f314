# OS/161 in TLA+

A verification project for the OS/161 kernel in this repository: TLA+ modules
translated from the kernel's C code, TLC configurations that check them on small
instances, and TLAPS proofs that hold for every number of CPUs, threads, processes,
files and locks. Paths below are relative to `src/`.

## The system

OS/161 is a small multiprocessor Unix kernel for the simulated MIPS machine
System/161. From the bottom up:

| part | what is hard about it | module |
|---|---|---|
| interrupts and spinlocks (`kern/thread/spl.c`, `spinlock.c`, `kern/arch/mips/locore/trap.c`) | an interrupt between any two instructions; levels nest and are carried over a thread switch; test-and-set races | Spinlock |
| wait channels (`kern/thread/thread.c`, `threadlist.c`) | a wakeup between the decision to sleep and the sleep | Wchan, Sched |
| semaphores, locks, condition variables (`kern/thread/synch.c`) | woken threads race with newcomers; the holder is read without the lock; release before sleep | Semaphore, SleepLock, CondVar |
| scheduler (`kern/thread/thread.c`, `clock.c`) | a thread on a queue while a CPU is still on its stack; idling beside work | Sched |
| interprocessor interrupts (`thread.c`, `kern/arch/sys161/dev/lamebus_machdep.c`) | order of handling and clearing; a full array | Ipi |
| processes (`kern/proc/`, `kern/syscall/proc_syscalls.c`) | parents and children exit in any order; pids wrap around | Pid |
| files (`kern/syscall/openfile.c`, `filetable.c`, `file_syscalls.c`) | sharing by fork and dup2 | OpenFile |
| memory (`kern/vm/`, `kern/arch/mips/vm/`) | locks released in the middle; exhaustion | Coremap, Kmalloc |
| SFS and its checker (`kern/fs/sfs/`, `userland/sbin/sfsck/`) | several writes per operation, any of which fails or is the last before a crash | Sfs, SfsSystem, Sfsck |
| semfs (`kern/fs/semfs/`) | three kinds of lock; wakeups by count | Semfs |
| drivers (`kern/dev/`, `kern/lib/kprintf.c`, `kgets.c`) | handler against thread, one device buffer, polling beside interrupts | Console, Disk, Emu, Lamebus, Machine |

The layers interact through a few protocols: everything above spinlocks relies on
them and on interrupts being off while one is held; `wchan_sleep` puts a thread on
a channel inside `thread_switch`; the synchronization primitives, the file
systems and the drivers use `P`/`V`, locks and condition variables; `fork`, `exit`
and `wait` tie processes, file tables and threads together. A module that uses a
lower layer takes it as what its own module shows it to be: a semaphore is atomic
above `Semaphore`, a lock and a condition variable are a monitor above `CondVar`.

## Modules

`MC...` modules only extend a specification with the symmetry set or the values
TLC needs. `MCSynch` in addition puts `Semaphore` and `CondVar`, which share no state, into
one run: a behaviour uses one or the other.

**Spinlock** (spinlock.c, spl.c, trap.c, cpu.c). CPUs run threads; `curthread`
maps one to the other. `pc[t]` is where a thread is inside `spinlock_acquire`
(`spin`, `sethold`) or `spinlock_release` (`clear`, `lower`), or in `run`.
Test-and-set is one step, and so is every write another CPU can see. `irq` is the
set of CPUs whose interrupts are on. `Interrupt` and `InterruptReturn` are
`mips_trap`'s EX_IRQ branch with its assertions; `IdleOn`/`IdleOff` the window in
`cpu_idle` where interrupts are on although the recorded level is high; `Switch` the
change of threads that `thread_switch` makes with exactly the run queue lock
held. Locks are taken in a fixed order (`MayFollow`): that is what the kernel's
callers do, and without it two CPUs deadlock by design.

**Wchan** gives the sleepers' list as operators, used by all modules above it;
**Synch** the threads and their program counter, which the modules of synch.c share.

**Semaphore**, **SleepLock**, **CondVar** (synch.c). A step is what happens between
two accesses to shared state another thread could interleave with. A sleeping thread
is made to run by a wakeup only, and takes the spinlock again. `CondVar` extends
`SleepLock`: `cv_wait` calls its `lock_release` and `lock_acquire` step by step while
it holds `cv_lock`. **AtomicSemaphore** and **Monitor** say what the semaphore and the
lock with its condition variable promise, in single steps; `Semaphore` and `CondVar`
implement them.

**Sched** (thread.c, clock.c). CPUs with run queues and their spinlocks; one wait
channel stands for all. `thread_switch` is `SwitchIdle`, `SwitchLock`,
`SwitchPlace`, then `SwitchPick` or the idle loop `SwitchUnlock` / interrupt /
`SwitchRelock`, then `SwitchTail` and `Exorcise` in the next thread.
`thread_consider_migration` is `MigCount` (one queue at a time), `MigPull`,
`MigPush`/`MigSkip`/`MigMove`/`MigUnlock`, `MigLeft`. Interrupt handlers run on the
current thread's stack, on a running or an idle CPU.

**Pid** (pid.c, proc.c, proc_syscalls.c, menu.c). The process table under its
lock, and the processes around it. `kids` is a history of who forked whom and
with what status it exited; it is what parents should be able to learn.

**OpenFile** (openfile.c, filetable.c, file_syscalls.c, runprogram.c). Open files
shared by processes, each with a table. Reference counts change in one step (they
are under a spinlock); the last reference is dropped in two, as the code does. The
loops over a table (fork's copy, exit's cleanup, `open_stdfds`) take a step per slot.

**Coremap** (vm.c, ram.c, dumbvm.c) and **Kmalloc** (kmalloc.c). Physical addresses
in bytes with a small page size: the boot allocator, `vm_bootstrap`, single pages
taken and given back; on top, the heap's page references, subpage lists and big
blocks. `kmalloc_spinlock` is released around the page allocator: what happens
between two such points is a step. A machine (`Machines`) has one of the two kernels, vm.c
or dumbvm, a size, a first free address, and threads with or without an address space. The
history variable `misgiven` says that vm.c has given out a page it does not have.

**Sfs** (kern/fs/sfs). Every vnode and volume operation as a function from state to
state, down to the block writes, which it logs in order. A transfer may fail at any
point (`fail`). A read that fails is an error, and the code's own way out is followed from
there; a write that fails is lost and reported as done, because `sfs_rwblock` tries again
with a uio that `lhd_io` has emptied. **SfsSystem** runs
operations of several threads through the VFS calls around them (root vnode got and
given back, `vnode_decref` and reclaim in two steps), stops the machine between any two
block writes, runs **Sfsck** (pass by pass, itself interrupted between writes) and
mounts again.

**Semfs**. Directory, table, vnodes and semaphores with their locks; reads, writes
and truncation as P, V and reset; removal and reclaim.

**Console** (console.c, lser.c, kprintf.c, kgets.c), **Disk** (lhd.c), **Emu** (emu.c) are
drivers with their devices; **Lamebus** dispatches their interrupts by slot;
**Ipi** is the other interrupt line; **Machine** composes them. In `Ipi`, `owed`
records what was asked and not passed to `vm_tlbshootdown` yet. A request that finds the
count at `TLBSHOOTDOWN_ALL` writes to `c_shootdown[-1]`, which is `c_ipi_pending`, the field
before the array, with arbitrary bits, and sets the count to 0; `dropped` records what that
loses. In `Console`, `input` and `taken` are the keys accepted and how many have been read,
and `mixed` says that `kgets`, which takes no lock, has been reading beside another reader;
two such readers may advance the tail twice or once. In `Disk`, `last` is the transfer the
device has completed last and for whom.

## What the runs show

| run | instance | result |
|---|---|---|
| `spinlock` | 2 CPUs, 3 threads, 2 nested locks and the run queue locks | a lock has one owner; interrupts are off exactly as long as needed; no assertion of the spinlock or trap code fails |
| `synch` | 4 threads; an interrupt handler that only calls `V`, initial count 1, at most 3; or 3 waiters, 1 signaller, one lock | no lost wakeup, refines AtomicSemaphore; `lock_do_i_hold` without the spinlock is exact; nobody sleeps on past a release; a wanted lock is taken and every call completes (liveness); refines Monitor |
| `sched` | 2 CPUs, 4 threads | every thread is in exactly one place (running, one queue, channel, zombies, victims, ...); curthread is never migrated; a CPU that waits beside work has an interrupt on its way; no assertion fails |
| `sched_idle` | 2 CPUs, 2 threads | idling beside work ends (liveness) |
| `machine` | 2 CPUs with 2 mappings and an array of 1; 3 threads on the console with a ring of 2; 2 on the disk with 2 sectors; 2 on the emulator with 2 handles | shootdowns are served, but those dropped by an overflow; no character is overwritten; keys are read once and in order, as long as `kgets` reads alone; a transfer's result and data are its thread's own; an emulator handle stays open while it is used; what the drivers begin ends (liveness) |
| `pid` | 4 processes, table of 4, pids to 7, two exit statuses | table and count agree, pids are unique, parents find their children's statuses, no assertion fails; a waiter whose child exits returns (liveness) |
| `open_file` | 3 processes, 2 files, 2 descriptors | reference counts equal the references; offsets are not overwritten with stale values; no assertion fails |
| `memory` | 2 threads, pages of 12 bytes in blocks of 4 and 6, 2 pageref pages of 2, at most 3 blocks, four machines | until vm.c gives out a page it does not have: no byte has two users; lists, bitmaps and counts agree; no page is lost or used twice; no assertion fails |
| `sfs` | 9 blocks, 2 names, 1 direct and 2 indirect pointers, 3 threads, reads that fail | no assertion fails; blocks, block kinds, link counts and vnode references are exact; a volume let go, or repaired after a crash, is sound; synced names survive |

Three runs show a disagreement between the code and a comment or an assertion; each is
a finding in `PROJECT.json` with the line quoted:

- `pid_menu_fork`: the menu destroys a process that still has its pid when
  `thread_fork` fails (menu.c:146 against proc.c:177).
- `semfs_wakeup`: two writes before the first woken reader runs leave a second reader
  asleep beside a positive count (semfs_vnops.c:145).
- `sfs_lost_write`: a file is created and closed; the write of its inode fails once, the
  retry writes nothing and reports success (sfs_io.c:86 against sfs_io.c:56), and the next
  lookup of the file panics (sfs_inode.c:230).

### What the passing runs do not claim

Where the code has no right behaviour to check, the model goes there all the same, a history
variable records it, and the properties say what they are about; the hazard is listed in
`PROJECT.json`.

- *IPIs.* An IPI that comes between the handler and the clearing of its line is not
  taken until the next one comes: `Ipi` has that step, and `ShootdownServed` says only
  that such a request is still pending. cpu.h:77-80 has `TLBSHOOTDOWN_ALL` stand for any
  number of mappings beyond the array, but the second request beyond it turns "all" back
  into "none" (thread.c:1183-1184). `ShootdownServed` without `\ dropped[c]` is violated.
  Nothing in the kernel calls `ipi_tlbshootdown` yet.
- *Console input.* The readers of `con_io` exclude each other by `con_userlock_read`; `kgets`,
  which the menu reads with, does not take it (kgets.c:60). A program that reads the console
  while the menu does shares the keys with it, and both may be between a character and the
  tail: a key is lost or read twice. `InputExact` without `~mixed` is violated.
- *Memory.* lib.h:124 has kmalloc return NULL when memory runs out; in vm.c, running out of
  pages returns the kernel address of page 0 (vm.c:199). Freeing a page of a process forgets
  its frame (vm.c:122-126), and the entry then gives out page 0. The coremap counts frames
  from 0 while its length is counted from the first free page (vm.c:61 against ram.c:80-81),
  so that frames it gives out coincide with pages stolen at boot, which vm.h:97-99 wants
  reserved. Run `memory` meets all three; each sets `misgiven`, the properties are about
  what comes before, and the run does not follow what comes after (`SoFarGood`). Put
  `~misgiven` among the invariants for the shortest way to one. That the frames from 0 on are
  also those of the kernel's image is not modelled: no allocation of vm.c is free of it.
  More than one page at a time panics, and freeing before `vm_bootstrap` takes a lock that
  does not exist; no request is that large, and nothing is freed that early. When no page for
  pagerefs can be had, the mark of the new pageref stays (kmalloc.c:282-289); `HeapSound`
  asks for marks, not that every mark has a page.
- *SFS.* After a lost write only `RefsExact` holds, which is about memory; run `sfs` therefore
  fails reads only, and `sfs_lost_write` has the rest. A mount that cannot read its
  superblock or freemap always ends in an assertion of `sfs_fs_destroy` (sfs_fsops.c:216);
  `NoAssertionFails` leaves that one out. A failed reclaim leaves a reference that belongs to
  nobody; `sfs_sync` goes on over errors of `fsync`; `sfs_itrunc` compares
  `blocklen < baseblock + j`, which keeps one block too many behind the indirect pointer;
  sfsck leaves emptied indirect blocks marked in use. The model has all of these, and the
  invariants say what holds with them.
- *semfs.* `semfs_remove` reads `sems_hasvnode` under the semaphore's lock, reclaim changes
  it under the table's: both may destroy the semaphore. `DestroyedOnce` in `Semfs` says
  they do not and is violated (put it in `Semfs.cfg` for `NoStrandedReader`);
  `OpenSemLives`, that an open semaphore exists, holds there. `semfs_creat` returns 0
  without a vnode when the directory entry cannot be made.
- *emufs.* When there is no memory for a vnode, `emufs_loadvnode` returns with `vfs_biglock`
  held (emu.c:1174-1178), and the big lock is then its thread's for good. `Emu` has that step;
  `DriversFinish` says of the emulator that `e_lock` is handed on, which that does not touch.

### Bounds

Every bound is a named constant. Two CPUs are enough for all pairwise races of
run queues and lines; migration and wakeups need more threads than CPUs, to have some that
run, one that sleeps and one that is queued, and migration a fourth to move. Three
threads around a synchronization primitive give one inside, one woken and one newcomer.
The process table has 4 slots and 6 user pids, so that pids wrap and slots collide
(`pid % PROCS_MAX`) within a short run. Two descriptors, one of them a standard
one, reach a full table, dup2 onto an open descriptor and onto itself. The
shootdown array has 1 entry instead of 16, so that "all" is reached with the second
request and lost with the third. The console ring takes one key, so that it is full after one and its indexes
wrap after two. A page holds two or three blocks, so that pages fill, empty and change
lists. Of the machines, two have more memory than the clients can use, one runs out of
coremap and meets its boot pages, and dumbvm has four pages. The volume has six free blocks:
one for the root directory and five for files and their blocks, so that one file can have
both entries of its indirect block and two files fill the volume; a
file reaches into its indirect block; every operation is tried with each of its
first 6 transfers failing (`MaxIO`), and crashes hit every prefix of its writes. `Loads` and
`Bounds` in the MC modules name the mixes of activity that one behaviour may have: each
driver alone, with enough operations to meet itself, and two at once; several threads
without faults, and fewer operations with a fault or a crash. Symmetry is
used only in runs without liveness or refinement properties, on sets whose members the
specification does not tell apart.

### Fairness

`CondVar` (in `MCSynch`): weak fairness on each thread's steps inside a function of
synch.c. Spinlocks are held with interrupts off for a few instructions, so a CPU that is
in such a section goes on. `LockIsTaken` claims only that somebody gets the lock; the
code does not promise that a given thread does. `Sched`: a pending interrupt is taken
(weak); the CPU's way through `thread_switch` and migration, and taking a contended run
queue lock, are strongly fair, because test-and-set is retried forever while the holders
come and go. `Pid`: a woken process gets the lock and goes on. `Machine`: devices finish
what they were told to do, the boot CPU takes interrupts, and a thread inside a driver goes
on (all weak); no thread has to call a driver, and no key has to be pressed.

## What is proved

Proofs hold for every value of the constants that satisfies the named assumptions of the
modules: sets of threads, CPUs, locks and processes are finite where they are counted,
`NULL` is not one of their members, sizes are positive. `PidProofs` needs in addition
`PID_MAX >= 2 * PROCS_MAX - 1` (limits.h has 32767 and 128). All the invariants below were
model-checked before they were proved. Of the 33 invariants the passing runs check, 22 are
proved, and both refinements; the other 11 are those of `Kmalloc` and `SfsSystem`.

**SpinlockProofs.** `IInv` joins the type invariant with: each spinlock has at
most one owner and its word says whether it has one (`InvOwner`); for each CPU, its
count of spinlocks is the number it has, and its thread's count of raises is
that number plus one for the spl level plus one at the points of the code where the
count runs ahead (`InvCpu`); each thread that is not current is parked with exactly the
run queue lock's raise to its name (`InvCurrent`). None of the properties is
inductive alone: that interrupts are off while a lock is held needs the count, and the
count needs to know what a parked thread brings along. One theorem per property of run
`spinlock` follows.

**SynchProofs.** First what sleep, wakeone and wakeall do to the set of threads a
channel lists. For the semaphore, the invariant says who may be inside the spinlock, that
the channel lists exactly the sleepers, and that a positive count beside a sleeper is
matched by threads on their way to it; `V_wakeStep` is the step that matters: the
unit moves from `V` to the thread it wakes. `SemaphoreImplementsAtomic` proves the
refinement: `P`'s last step and `V`'s increment are the atomic steps. For the lock and
the condition variable, `MonInv` adds to the two properties of run `synch` who is inside
which of the two spinlocks: `cv_wait` gives up the lock while it holds `cv_lock`, so
both are needed to see that nobody slips in between. `HolderExact` and
`LockNoSleepPastRelease` follow, and `MonitorImplemented`: the step inside `cv_wait`
that empties `lk_holder` is the monitor's wait, a wakeup its signal, and everything else
stutters.

**SchedProofs.** `SchedInv` says where a thread can be, by its state. A list holds threads
in one state, each once, and a thread on a CPU's own list has that CPU as `t_cpu`
(`Listed`, `Channel`); a CPU's current thread is its own, runs unless it has just been
picked, and may be anywhere its state allows while the CPU idles on its stack (`Current`);
conversely every thread is where its state says (`Found`), and a child that is not
runnable yet is known to its parent alone (`Child`). To keep this, the proof needs where a
CPU can be with which spinlock (`Control`), which thread goes on with a fork it was
interrupted in (`Forking`, `Resumes`), and what the stale counts of
`thread_consider_migration` are still good for: the own queue can only have grown since it
was counted, because nobody but its CPU takes threads from it (`Counted`). The lemmas on
lists say what appending, taking the head, cutting and joining do to the elements of a
queue and keep them distinct. Each action then has a lemma; the ones that move a thread show the
conjuncts for that thread and that CPU, and `Others_Inv` and `OtherThreads_Inv` the rest.
`ThreadInOnePlace`, `CurthreadIsKept`, `IdleIsTold` and `SchedNoPanic` are the properties
of run `sched`. `CurthreadIsKept` rests on `MigSkip`, the test for `curthread` among the victims:
the thread a CPU idles on may be woken onto its queue and pulled off it again, but
is never sent away. `IdleIsTold` is a conjunct of `Control`, and inductive because the
CPU sets `c_isidle` before it lets go of its queue's lock.

**PidProofs.** `PidInv` says, of the process table: an entry sits in its slot
and names a parent only as long as that process has its pid (`Placed`,
`ParentsLive`); who has a pid has an entry of its own that says it lives (`Lives`); what
a process does agrees with the table: in fork it has an embryo, in `pid_wait` its pointer
leads to its child's entry, which has exited exactly when it has been woken (`Forks`,
`Waits`, `StatesRight`, `Embryos`); and the history `kids` is what the entries say
(`KidsRight`). A lemma for each kind of step shows that it is one of a few forms
(`SafeStep`), a second that the form keeps the invariant. That `pid_alloc`'s search ends
is arithmetic: among `PROCS_MAX` consecutive pids, or the ones before and after the wrap,
every slot is tried (`Search_Passes`), and as `nprocs` counts the entries one is free
(`Free_Slot`). `TableIsSound` and `KidsTheorem` are the properties of run `pid`;
`NoPidPanic` needs that the menu's fork does not fail, which is the finding above.

**OpenFileProofs.** `FileInv` adds to the properties: a table is worked on by
its process, or by its parent while it is being made (`TablesOwned`); what the loops of
fork, exit and `open_stdfds` have not filled yet, or have cleared already, is empty
(`LoopsKeepUp`); and what the local variables of each call refer to, in particular that
a call about to destroy a file has the last reference (`LocalsRight`). `CountsRefs`
turns the count into what the other lemmas use: a reference makes it at least 1, two at
least 2. Exactness is kept because every step changes the count by the references it
makes and drops in one slot and one local variable (`Accounted_Step`, `Refs_Balance`).
`ReferencesCounted`, `NoFilePanic` and `OffsetFresh` are the properties of run `open_file`.

**EmuProofs, MachineProofs.** `DiskTransfers`: whoever is past `P(lh_clear)` has the device
alone, the device works only for a thread that waits, and what it finds at each point is
the result of its own request. `ShootdownsServed`: what a CPU owes is in the array, or
"all" is set, or it is among what an overflow has dropped, for any number of requests.
`EmuHandles`: the device works for the thread that has `e_lock`, and its answer, in the
register or already taken by the handler, is to that thread's request (`Asked`, `Quiet`); what a
thread holds follows from where it is (`Shape`); who reclaims a vnode has its last
reference (`LastRef`); and a handle has a vnode or one thread on its way to one (`Owned`).
`e_lock` alone keeps it, held from before `emu_close` to the end of the reclaim. `EmuProofs` has
the driver's own steps, `MachineProofs` puts it on the bus: it needs that the emulator's
slot is not another device's (`SlotAssumption`).

**ConsoleProofs.** `SerialSafe`: the right to write to the port is in `cs_wsem`, with
one thread, with the port or with the interrupt handler, never in two places (`OneTurn`),
and polled output leaves the port as the driver believes it to be (`PortKnown`).
`InputSafe`: the ring holds the keys accepted and not taken, in order, and `cs_rsem` counts
those no reader has been admitted for; the index arithmetic modulo the ring's size is
in `RingSteps`. That needs one reader at a time past `cs_rsem` (`SoleReader`), which
`con_userlock_read` gives; the invariant is conditional on `~mixed`, and every step either
keeps the reader alone or makes `mixed` true. Both theorems hold beside whatever the other
devices on the bus do.

### What is only model-checked

- Liveness (`LockIsTaken`, `CvCallsComplete`, `IdleEnds`, `WaitersReturn`,
  `DriversFinish`): the proof system has no rules for fairness here.
- `Sfs`, `SfsSystem`, `Sfsck` (`NoAssertionFails`, `BlocksAccounted`, `KindsRight`,
  `LinksExact`, `RefsExact`, `CleanSound`, `DurableNames`): an operation is a composition of folds over blocks and
  directory slots, and what a fold computes for every input needs induction over data.
- `Kmalloc` and `Coremap` (`NoPanic`, `BlocksDisjoint`, `HeapSound`, `PagesAccounted`): the
  heap's lists are cut, and compared with one another, by `SelectSeq`, whose facts need
  induction over sequences.
- `Semfs`: no passing run uses it (above); `OpenSemLives` was checked with two names and
  eight operations.

## What is not modelled

Address spaces and the TLB (stubs in this tree), CPU startup, simple
register-access devices, `kern/compile` (generated), kernel tests, the C library and
user programs (sequential), the buffer for output before the console is found,
the wording of messages. Of program loading, `open_stdfds` is in `OpenFile`; the
argument buffer is not, `argbuf_cleanup` gives `execthrottle` back on every path. Of the
VFS, the list of devices and the names of volumes are not modelled (`vfs_setbootfs`
refuses any name with a colon in it, its callers pass none).

`kern/synchprobs/airballoon.c` is not modelled. Read beside `CondVar`, its locking leaves
open: a rope can be severed twice, so that the count of severed ropes passes `NROPES`;
flowerkillers lock two stakes in random order; a counter is incremented without a lock;
and line 167 acquires a lock exactly when the thread holds it already.
