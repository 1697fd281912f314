-------------------------------- MODULE Emu ---------------------------------
(***************************************************************************)
(* The emulator's pass-through file system, kern/dev/lamebus/emu.c: the     *)
(* device with its registers and its interrupt, the operations on device    *)
(* handles under e_lock, and the vnodes that own the handles, under         *)
(* vfs_biglock.  Locks and semaphores are atomic.  Names, data and offsets  *)
(* are left out; every path starts at the root directory, whose handle is   *)
(* always open.  A vnode is known by its handle.                            *)
(***************************************************************************)
EXTENDS Lamebus

CONSTANTS
  EmuThreads,
  EmuSlot,
  Handles,       \* the handles of the device (64)
  EMU_RETRIES    \* how often emu_close tries again (10)

EMU_ROOTHANDLE == 0
NoHandle == -1

ASSUME EmuAssumption ==
  /\ Handles \subseteq Nat \ {EMU_ROOTHANDLE}
  /\ IsFiniteSet(EmuThreads) /\ Nobody \notin EmuThreads

VARIABLES
  e_lock,      \* its holder
  e_sem,       \* count
  e_result,
  edev,        \* the device: operation, handle and result registers, and whose operation it is
  opened,      \* the handles that are open on the device
  ef_vnodes,   \* for each handle the references to its vnode, 0 for none
  vfs_biglock, \* owner and depth
  eth          \* a thread: where, the operation, its handle, the vnode it has open, its retries

evars == <<e_lock, e_sem, e_result, edev, opened, ef_vnodes, vfs_biglock, eth>>

IdleThread(v) == [at |-> "idle", op |-> "none", handle |-> NoHandle, vnode |-> v, big |-> 0, retries |-> 0]

\* config_emu.  The root's vnode, which ef_root keeps, is left out.
EmuInit ==
  /\ e_lock = Nobody /\ e_sem = 0 /\ e_result = "none"
  /\ edev = [oper |-> "none", handle |-> NoHandle, result |-> "0", by |-> Nobody]
  /\ opened = {}
  /\ ef_vnodes = [h \in Handles |-> 0]
  /\ vfs_biglock = [owner |-> Nobody, depth |-> 0]
  /\ eth = [t \in EmuThreads |-> IdleThread(NoHandle)]

EAt(t, at) == eth[t].at = at
ENow(t, at) == eth' = [eth EXCEPT ![t].at = at]

\* vfs_biglock_acquire and vfs_biglock_release: the lock counts how often its owner has it.
MayHaveBig(t) == vfs_biglock.owner \in {t, Nobody}
Biglock(t, depth) ==
  vfs_biglock' = IF depth = 0 THEN [owner |-> Nobody, depth |-> 0] ELSE [owner |-> t, depth |-> depth]

----------------------------------------------------------------------------
\* External: the device.  A handle it gives out is not in use; it knows the open ones.
EmuIrq == edev.result # "0"

EmuDevice ==
  LET free == Handles \ opened
      results == IF edev.handle \notin opened \cup {EMU_ROOTHANDLE} THEN {"BADHANDLE"}
                 ELSE IF edev.oper = "open" /\ free = {} THEN {"NOHANDLES"}
                 ELSE {"SUCCESS", "MEDIA"} IN
  /\ edev.oper # "none"
  /\ \E r \in results :
       LET does(op) == r = "SUCCESS" /\ edev.oper = op IN
       /\ opened' = IF does("open") THEN opened \cup {Min(free)}
                    ELSE IF does("close") THEN opened \ {edev.handle} ELSE opened
       /\ edev' = [edev EXCEPT !.oper = "none", !.result = r, !.handle = IF does("open") THEN Min(free) ELSE @]
  /\ UNCHANGED <<e_lock, e_sem, e_result, ef_vnodes, vfs_biglock, eth, irq>>

emu_irq ==
  /\ In(EmuSlot, "call")
  /\ e_result' = edev.result
  /\ edev' = [edev EXCEPT !.result = "0"]
  /\ e_sem' = e_sem + 1
  /\ GoTo("next")
  /\ UNCHANGED <<e_lock, opened, ef_vnodes, vfs_biglock, eth>>

----------------------------------------------------------------------------
\* Mutant: the operation does not wait for e_lock.
emu_start_NoLock(t) ==
  /\ EAt(t, "start")
  /\ e_lock' = t
  /\ edev' = [edev EXCEPT !.oper = eth[t].op, !.handle = eth[t].handle, !.by = t]
  /\ ENow(t, "wait")
  /\ UNCHANGED <<e_sem, e_result, opened, ef_vnodes, vfs_biglock, irq>>

(***************************************************************************)
(* The start of emu_open, emu_close, emu_doread, emu_write, emu_getsize and *)
(* emu_trunc: e_lock, which emufs_reclaim has already, and the registers.   *)
(* REG_OPER comes last and starts the device.                               *)
(***************************************************************************)
emu_start(t) ==
  /\ EAt(t, "start") /\ e_lock \in {Nobody, t}
  /\ e_lock' = t
  /\ edev' = [edev EXCEPT !.oper = eth[t].op, !.handle = eth[t].handle, !.by = t]
  /\ ENow(t, "wait")
  /\ UNCHANGED <<e_sem, e_result, opened, ef_vnodes, vfs_biglock, irq>>

\* emu_write cannot fetch its data.
emu_write_fault(t) ==
  /\ EAt(t, "start") /\ eth[t].op = "io" /\ e_lock = Nobody
  /\ eth' = [eth EXCEPT ![t] = IdleThread(@.vnode)]
  /\ UNCHANGED <<e_lock, e_sem, e_result, edev, opened, ef_vnodes, vfs_biglock, irq>>

\* translate_err: a bad handle is a fatal error.
emu_waitdone(t) ==
  /\ EAt(t, "wait") /\ e_sem > 0
  /\ e_sem' = e_sem - 1
  /\ eth' = [eth EXCEPT ![t].at =
               IF e_result = "BADHANDLE" THEN "panic" ELSE IF e_result = "SUCCESS" THEN "ok" ELSE "failed"]
  /\ UNCHANGED <<e_lock, e_result, edev, opened, ef_vnodes, vfs_biglock, irq>>

\* The end of a read, write, getsize or truncate; emufs_read and emufs_write may go on.
emu_io_done(t) ==
  /\ eth[t].op = "io" /\ (EAt(t, "ok") \/ EAt(t, "failed"))
  /\ e_lock' = Nobody
  /\ \/ eth' = [eth EXCEPT ![t] = IdleThread(@.vnode)]
     \/ EAt(t, "ok") /\ ENow(t, "start")
  /\ UNCHANGED <<e_sem, e_result, edev, opened, ef_vnodes, vfs_biglock, irq>>

----------------------------------------------------------------------------
\* Calls.  vfs_lookup has vfs_biglock around VOP_LOOKUP; vfs_open has not around VOP_CREAT.
emufs_lookup(t) ==
  /\ EAt(t, "idle") /\ eth[t].vnode = NoHandle /\ MayHaveBig(t)
  /\ Biglock(t, vfs_biglock.depth + 1)
  /\ eth' = [eth EXCEPT ![t] = [@ EXCEPT !.at = "start", !.op = "open", !.handle = EMU_ROOTHANDLE, !.big = 1]]
  /\ UNCHANGED <<e_lock, e_sem, e_result, edev, opened, ef_vnodes, irq>>

emufs_creat(t) ==
  /\ EAt(t, "idle") /\ eth[t].vnode = NoHandle
  /\ eth' = [eth EXCEPT ![t] = [@ EXCEPT !.at = "start", !.op = "open", !.handle = EMU_ROOTHANDLE]]
  /\ UNCHANGED <<e_lock, e_sem, e_result, edev, opened, ef_vnodes, vfs_biglock, irq>>

\* emufs_read, emufs_getdirentry, emufs_write, emufs_stat, emufs_truncate.
emufs_io(t) ==
  /\ EAt(t, "idle") /\ eth[t].vnode # NoHandle
  /\ eth' = [eth EXCEPT ![t] = [@ EXCEPT !.at = "start", !.op = "io", !.handle = eth[t].vnode]]
  /\ UNCHANGED <<e_lock, e_sem, e_result, edev, opened, ef_vnodes, vfs_biglock, irq>>

\* Another process gets the vnode too: fork shares the current directory.
vnode_incref(t, u) ==
  /\ EAt(t, "idle") /\ eth[t].vnode = NoHandle
  /\ EAt(u, "idle") /\ eth[u].vnode # NoHandle
  /\ eth' = [eth EXCEPT ![t].vnode = eth[u].vnode]
  /\ ef_vnodes' = [ef_vnodes EXCEPT ![eth[u].vnode] = @ + 1]
  /\ UNCHANGED <<e_lock, e_sem, e_result, edev, opened, vfs_biglock, irq>>

emu_vnode_decref(t) ==
  LET h == eth[t].vnode IN
  /\ EAt(t, "idle") /\ h # NoHandle
  /\ IF ef_vnodes[h] > 1
       THEN /\ ef_vnodes' = [ef_vnodes EXCEPT ![h] = @ - 1]
            /\ eth' = [eth EXCEPT ![t] = IdleThread(NoHandle)]
       ELSE ENow(t, "reclaim") /\ UNCHANGED ef_vnodes
  /\ UNCHANGED <<e_lock, e_sem, e_result, edev, opened, vfs_biglock, irq>>

----------------------------------------------------------------------------
\* The end of emu_open.
emu_open_done(t) ==
  /\ eth[t].op = "open" /\ (EAt(t, "ok") \/ EAt(t, "failed"))
  /\ e_lock' = Nobody
  /\ IF EAt(t, "ok")
       THEN /\ eth' = [eth EXCEPT ![t] = [@ EXCEPT !.at = "load", !.handle = edev.handle]]
            /\ UNCHANGED vfs_biglock
       ELSE /\ eth' = [eth EXCEPT ![t] = IdleThread(NoHandle)]
            /\ IF eth[t].big = 1 THEN Biglock(t, vfs_biglock.depth - 1) ELSE UNCHANGED vfs_biglock
  /\ UNCHANGED <<e_sem, e_result, edev, opened, ef_vnodes, irq>>

\* emufs_loadvnode and emufs_reclaim take vfs_biglock, then e_lock.
BiglockThen(t, from, to) ==
  /\ EAt(t, from) /\ MayHaveBig(t)
  /\ Biglock(t, vfs_biglock.depth + 1)
  /\ ENow(t, to)
  /\ UNCHANGED <<e_lock, e_sem, e_result, edev, opened, ef_vnodes, irq>>

(***************************************************************************)
(* emufs_loadvnode: a vnode that has the handle gets a reference, or there  *)
(* is a new one.  When the pool cannot grow, or there is no memory, the     *)
(* caller closes the handle; the second error leaves vfs_biglock behind.    *)
(***************************************************************************)
emufs_loadvnode(t) ==
  LET h == eth[t].handle
      Close == eth' = [eth EXCEPT ![t] = [@ EXCEPT !.at = "start", !.op = "close"]] IN
  /\ EAt(t, "loading") /\ e_lock = Nobody
  /\ \/ /\ ef_vnodes' = [ef_vnodes EXCEPT ![h] = @ + 1]
        /\ Biglock(t, vfs_biglock.depth - 1 - eth[t].big)
        /\ eth' = [eth EXCEPT ![t] = IdleThread(h)]
     \/ /\ ef_vnodes[h] = 0 /\ Close
        /\ Biglock(t, vfs_biglock.depth - 1)
        /\ UNCHANGED ef_vnodes
     \/ /\ ef_vnodes[h] = 0 /\ Close
        /\ UNCHANGED <<vfs_biglock, ef_vnodes>>
  /\ UNCHANGED <<e_lock, e_sem, e_result, edev, opened, irq>>

\* The count is read again; emu_close is called with e_lock held.
emufs_reclaim(t) ==
  LET h == eth[t].vnode IN
  /\ EAt(t, "reclaiming") /\ e_lock = Nobody
  /\ IF ef_vnodes[h] > 1
       THEN /\ ef_vnodes' = [ef_vnodes EXCEPT ![h] = @ - 1]
            /\ Biglock(t, vfs_biglock.depth - 1)
            /\ eth' = [eth EXCEPT ![t] = IdleThread(NoHandle)]
            /\ UNCHANGED e_lock
       ELSE /\ e_lock' = t
            /\ eth' = [eth EXCEPT ![t] = [@ EXCEPT !.at = "start", !.op = "close", !.handle = h, !.big = 1]]
            /\ UNCHANGED <<ef_vnodes, vfs_biglock>>
  /\ UNCHANGED <<e_sem, e_result, edev, opened, irq>>

(***************************************************************************)
(* The end of emu_close: an I/O error is tried again.  After it             *)
(* emufs_reclaim removes the vnode, or leaves it when the handle could not  *)
(* be closed, and the locks go.                                             *)
(***************************************************************************)
emu_close_done(t) ==
  LET h == eth[t].vnode IN
  /\ eth[t].op = "close" /\ (EAt(t, "ok") \/ EAt(t, "failed"))
  /\ IF EAt(t, "failed") /\ eth[t].retries < EMU_RETRIES
       THEN /\ eth' = [eth EXCEPT ![t] = [@ EXCEPT !.at = "start", !.retries = eth[t].retries + 1]]
            /\ UNCHANGED <<e_lock, ef_vnodes, vfs_biglock>>
       ELSE /\ ef_vnodes' = IF EAt(t, "ok") /\ h # NoHandle THEN [ef_vnodes EXCEPT ![h] = 0] ELSE ef_vnodes
            /\ e_lock' = Nobody
            /\ IF eth[t].big = 1 THEN Biglock(t, vfs_biglock.depth - 1) ELSE UNCHANGED vfs_biglock
            /\ eth' = [eth EXCEPT ![t] = IdleThread(NoHandle)]
  /\ UNCHANGED <<e_sem, e_result, edev, opened, irq>>

EmuCall(t) ==
  \/ emufs_lookup(t) \/ emufs_creat(t) \/ emufs_io(t) \/ emu_vnode_decref(t)
  \/ \E u \in EmuThreads : vnode_incref(t, u)

EmuStep(t) ==
  \/ emu_start(t) \/ emu_write_fault(t) \/ emu_waitdone(t) \/ emu_io_done(t) \/ emu_open_done(t)
  \/ BiglockThen(t, "load", "loading") \/ BiglockThen(t, "reclaim", "reclaiming")
  \/ emufs_loadvnode(t) \/ emufs_reclaim(t) \/ emu_close_done(t)

----------------------------------------------------------------------------
(***************************************************************************)
(* The driver never gives the device a handle that is not open, which is a  *)
(* panic, although files are closed while other threads use the device: a   *)
(* vnode's handle stays open until the close of its last reference, a       *)
(* handle on its way into a vnode belongs to one thread, and a thread that  *)
(* e_sem lets through finds the result of its own operation.                *)
(***************************************************************************)
Underway(h) == {t \in EmuThreads : eth[t].handle = h /\ eth[t].vnode = NoHandle}
Closing(h) == \E t \in EmuThreads : eth[t].op = "close" /\ eth[t].handle = h /\ (EAt(t, "wait") \/ EAt(t, "ok"))

HandlesSound ==
  /\ \A t \in EmuThreads : ~EAt(t, "panic") /\ (EAt(t, "wait") /\ e_sem > 0 => edev.by = t)
  /\ \A h \in Handles :
       /\ ef_vnodes[h] >= Cardinality({t \in EmuThreads : eth[t].vnode = h})
       /\ ef_vnodes[h] > 0 => Underway(h) = {}
       /\ Cardinality(Underway(h)) <= 1
       /\ ef_vnodes[h] > 0 \/ Underway(h) # {} => h \in opened \/ Closing(h)

\* A thread that has the device gives it up again, also when closing fails.
EmuMoves == e_lock # Nobody ~> e_lock = Nobody
=============================================================================
