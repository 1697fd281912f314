-------------------------------- MODULE Disk --------------------------------
(***************************************************************************)
(* The disk driver, kern/dev/lamebus/lhd.c: lhd_io in several threads, the  *)
(* interrupt handler, and the device with its one buffer.  Semaphores are   *)
(* atomic, as Semaphore shows.  A sector's contents are the thread that     *)
(* wrote it.                                                                *)
(***************************************************************************)
EXTENDS Lamebus

CONSTANTS
  IoThreads,
  DiskSlot,
  Sectors,       \* d_blocks
  MaxSectors     \* bound: sectors of one call

VARIABLES
  lh,      \* lh_clear, lh_done, lh_result
  dev,     \* the device: status register, sector register, buffer
  platter, \* what each sector holds
  ith,     \* a thread in lhd_io: where, read or write, the sector, how many to go
  last     \* the last transfer: whose it was, its result, and for a read what the sector held

dvars == <<lh, dev, platter, ith, last>>

DiskInit ==
  /\ lh = [clear |-> 1, done |-> 0, result |-> "none"]
  /\ dev = [stat |-> "IDLE", write |-> FALSE, sect |-> 0, buf |-> Nobody]
  /\ platter = [s \in 0..(Sectors - 1) |-> Nobody]
  /\ ith = [t \in IoThreads |-> [at |-> "idle", write |-> FALSE, sector |-> 0, left |-> 0]]
  /\ last = [by |-> Nobody, result |-> "none", data |-> Nobody]

On(t, at) == ith[t].at = at
Now(t, at) == ith' = [ith EXCEPT ![t].at = at]
Return(t) == ith' = [ith EXCEPT ![t] = [at |-> "idle", write |-> FALSE, sector |-> 0, left |-> 0]]

\* The device asserts its interrupt until the status is cleared.
DiskIrq == dev.stat \in {"OK", "INVSECT", "MEDIA"}

lhd_code_to_errno(code) == IF code = "OK" THEN "0" ELSE IF code = "INVSECT" THEN "EINVAL" ELSE "EIO"

----------------------------------------------------------------------------
\* External: the device transfers the sector, or fails.
Transfer ==
  /\ dev.stat = "WORKING"
  /\ \E stat \in IF dev.sect \in DOMAIN platter THEN {"OK", "MEDIA"} ELSE {"INVSECT"} :
       /\ dev' = [dev EXCEPT !.stat = stat,
                             !.buf = IF stat = "OK" /\ ~dev.write THEN platter[dev.sect] ELSE @]
       /\ platter' = IF stat = "OK" /\ dev.write THEN [platter EXCEPT ![dev.sect] = dev.buf] ELSE platter
       /\ last' = [last EXCEPT !.result = lhd_code_to_errno(stat),
                               !.data = IF stat = "OK" THEN platter'[dev.sect] ELSE Nobody]
  /\ UNCHANGED <<lh, ith, irq>>

----------------------------------------------------------------------------
\* A call past the end of the disk returns EINVAL at once.
lhd_io(t) ==
  /\ On(t, "idle")
  /\ \E write \in BOOLEAN, sector \in DOMAIN platter, len \in 1..MaxSectors :
       /\ sector + len <= Sectors
       /\ ith' = [ith EXCEPT ![t] = [at |-> "next", write |-> write, sector |-> sector, left |-> len]]
  /\ UNCHANGED <<lh, dev, platter, last, irq>>

lhd_io_clear(t) ==
  /\ On(t, "next") /\ ith[t].left > 0 /\ lh.clear > 0
  /\ lh' = [lh EXCEPT !.clear = @ - 1]
  /\ Now(t, "fill")
  /\ UNCHANGED <<dev, platter, last, irq>>

\* The data of a write goes to the device's buffer; if it cannot be fetched the call ends.
lhd_io_fill(t) ==
  /\ On(t, "fill")
  /\ \/ /\ dev' = IF ith[t].write THEN [dev EXCEPT !.buf = t] ELSE dev
        /\ Now(t, "start")
        /\ UNCHANGED lh
     \/ /\ ith[t].write
        /\ lh' = [lh EXCEPT !.clear = @ + 1]
        /\ Return(t)
        /\ UNCHANGED dev
  /\ UNCHANGED <<platter, last, irq>>

lhd_io_start(t) ==
  /\ On(t, "start")
  /\ dev' = [dev EXCEPT !.sect = ith[t].sector, !.stat = "WORKING", !.write = ith[t].write]
  /\ last' = [by |-> t, result |-> "none", data |-> Nobody]
  /\ Now(t, "wait")
  /\ UNCHANGED <<lh, platter, irq>>

\* Mutant: the next thread is let in before the result and the data are fetched.
lhd_io_done_EarlyClear(t) ==
  /\ On(t, "wait") /\ lh.done > 0
  /\ lh' = [lh EXCEPT !.done = @ - 1, !.clear = @ + 1]
  /\ Now(t, "fetch")
  /\ UNCHANGED <<dev, platter, last, irq>>

lhd_io_done(t) ==
  /\ On(t, "wait") /\ lh.done > 0
  /\ lh' = [lh EXCEPT !.done = @ - 1]
  /\ Now(t, "fetch")
  /\ UNCHANGED <<dev, platter, last, irq>>

\* The data of a read is copied out, which may fail; then the next thread is let in.
lhd_io_fetch(t) ==
  /\ On(t, "fetch")
  /\ lh' = [lh EXCEPT !.clear = @ + 1]
  /\ \/ /\ lh.result # "0" \/ ~ith[t].write
        /\ Return(t)
     \/ /\ lh.result = "0"
        /\ ith' = [ith EXCEPT ![t] = [at |-> "next", write |-> @.write, sector |-> @.sector + 1, left |-> @.left - 1]]
  /\ UNCHANGED <<dev, platter, last, irq>>

lhd_io_return(t) ==
  /\ On(t, "next") /\ ith[t].left = 0
  /\ Return(t)
  /\ UNCHANGED <<lh, dev, platter, last, irq>>

\* The handler acknowledges, keeps the result and wakes the thread.
lhd_irq ==
  /\ In(DiskSlot, "call")
  /\ IF DiskIrq
       THEN /\ dev' = [dev EXCEPT !.stat = "IDLE"]
            /\ lh' = [lh EXCEPT !.result = lhd_code_to_errno(dev.stat), !.done = @ + 1]
       ELSE UNCHANGED <<dev, lh>>
  /\ GoTo("next")
  /\ UNCHANGED <<platter, ith, last>>

DiskStep(t) ==
  \/ lhd_io_clear(t) \/ lhd_io_fill(t) \/ lhd_io_start(t) \/ lhd_io_done(t) \/ lhd_io_fetch(t) \/ lhd_io_return(t)

----------------------------------------------------------------------------
(***************************************************************************)
(* A thread that lh_done has woken finds the result of its own transfer in  *)
(* lh_result, and a read finds its sector's contents in the buffer: no      *)
(* other thread, and no other interrupt, has got in between.                *)
(***************************************************************************)
TransferIsOwn ==
  \A t \in IoThreads :
    On(t, "fetch") =>
      /\ last.by = t /\ dev.stat = "IDLE"
      /\ lh.result = last.result
      /\ lh.result = "0" => dev.buf = last.data /\ (ith[t].write => platter[ith[t].sector] = t)

\* The disk is handed on: a thread that has been let in lets the next one in.
DiskMoves == lh.clear = 0 ~> lh.clear = 1
=============================================================================
