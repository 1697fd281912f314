--------------------------- MODULE MachineProofs ----------------------------
(***************************************************************************)
(* Proofs about the disk, interprocessor interrupts and the emulator's file *)
(* system on one machine, for any numbers of CPUs, threads, sectors and     *)
(* handles and whatever load: a disk transfer is its thread's own, TLB      *)
(* shootdowns are served, and an emulator handle is open while it is used.  *)
(* Each invariant reads the variables of one driver; what the others do     *)
(* leaves it alone.                                                         *)
(***************************************************************************)
EXTENDS Machine, EmuProofs

----------------------------------------------------------------------------
\* The disk.  A thread past P(lh_clear) and before V(lh_clear) has the device.

Inside(t) == ith[t].at \in {"fill", "start", "wait", "fetch"}

Results == {"none", "0", "EINVAL", "EIO"}
Softc == [clear : Int, done : Int, result : Results]
Calls == [at : {"idle", "next", "fill", "start", "wait", "fetch"}, write : BOOLEAN, sector : Int, left : Int]

DiskTypeOK ==
  /\ lh \in Softc
  /\ dev \in [stat : {"IDLE", "WORKING", "OK", "INVSECT", "MEDIA"}, write : BOOLEAN, sect : Int,
              buf : IoThreads \cup {Nobody}]
  /\ platter \in [0..(Sectors - 1) -> IoThreads \cup {Nobody}]
  /\ ith \in [IoThreads -> Calls]
  /\ last \in [by : IoThreads \cup {Nobody}, result : Results,
               data : IoThreads \cup {Nobody}]

\* lh_clear admits one thread at a time.
OneInside ==
  /\ lh.clear <= 1
  /\ \A t \in IoThreads : Inside(t) => lh.clear = 0
  /\ \A t, u \in IoThreads : Inside(t) /\ Inside(u) => t = u

\* The device works, or lh_done is up, only for a thread that waits.
OnlyForWaiter == (\A t \in IoThreads : ~On(t, "wait")) => lh.done = 0 /\ dev.stat = "IDLE"

\* What the thread that has the device finds in it, step by step.
HasOwn(t, result) ==
  /\ result = last.result
  /\ result = "0" => dev.buf = last.data /\ (ith[t].write => platter[ith[t].sector] = t)

Own(t) ==
  /\ On(t, "start") => (ith[t].write => dev.buf = t)
  /\ On(t, "wait") =>
       /\ last.by = t /\ dev.sect = ith[t].sector /\ dev.write = ith[t].write
       /\ lh.done = IF dev.stat = "IDLE" THEN 1 ELSE 0
       /\ dev.stat = "WORKING" => (ith[t].write => dev.buf = t)
       /\ DiskIrq => HasOwn(t, lhd_code_to_errno(dev.stat))
       /\ dev.stat = "IDLE" => HasOwn(t, lh.result)
  /\ On(t, "fetch") => last.by = t /\ HasOwn(t, lh.result)

DiskInv == DiskTypeOK /\ OneInside /\ OnlyForWaiter /\ \A t \in IoThreads : Own(t)

LEMMA DiskThread_Typed ==
  ASSUME DiskTypeOK, NEW t \in IoThreads, lhd_io(t) \/ DiskStep(t)
  PROVE  DiskTypeOK'
<1>0. lh \in Softc /\ ith \in [IoThreads -> Calls]
  BY Zenon DEF DiskTypeOK
<1>1. CASE lhd_io(t)
  BY <1>1 DEF lhd_io, DiskTypeOK, Calls
<1>2. CASE lhd_io_clear(t)
  <2>1. lh' \in Softc
    BY <1>0, <1>2 DEF lhd_io_clear, Softc
  <2>2. ith' \in [IoThreads -> Calls]
    BY <1>0, <1>2, Zenon DEF lhd_io_clear, Now, Calls
  <2> QED BY <1>2, <2>1, <2>2, Zenon DEF DiskTypeOK, lhd_io_clear
<1>3. CASE lhd_io_fill(t)
  <2>1. lh' \in Softc
    <3>1. lh' = lh \/ lh' = [lh EXCEPT !.clear = @ + 1]
      BY <1>3, Zenon DEF lhd_io_fill
    <3> QED BY <1>0, <3>1 DEF Softc
  <2>2. ith' \in [IoThreads -> Calls]
    <3>1. CASE Now(t, "start")
      BY <1>0, <3>1, Zenon DEF Now, Calls
    <3>2. CASE Return(t)
      BY <1>0, <3>2 DEF Return, Calls
    <3> QED BY <1>3, <3>1, <3>2, Zenon DEF lhd_io_fill
  <2> QED BY <1>3, <2>1, <2>2, Zenon DEF DiskTypeOK, lhd_io_fill
<1>4. CASE lhd_io_start(t)
  <2>1. ith' \in [IoThreads -> Calls]
    BY <1>0, <1>4, Zenon DEF lhd_io_start, Now, Calls
  <2> QED BY <1>0, <1>4, <2>1, Zenon DEF DiskTypeOK, lhd_io_start, Results, Calls
<1>5. CASE lhd_io_done(t)
  <2>1. lh' \in Softc
    BY <1>0, <1>5 DEF lhd_io_done, Softc
  <2>2. ith' \in [IoThreads -> Calls]
    BY <1>0, <1>5, Zenon DEF lhd_io_done, Now, Calls
  <2> QED BY <1>5, <2>1, <2>2, Zenon DEF DiskTypeOK, lhd_io_done
<1>6. CASE lhd_io_fetch(t)
  <2>1. lh' \in Softc
    BY <1>0, <1>6 DEF lhd_io_fetch, Softc
  <2>2. ith[t] \in Calls
    BY <1>0, Zenon
  <2>3. [at |-> "next", write |-> ith[t].write, sector |-> ith[t].sector + 1, left |-> ith[t].left - 1] \in Calls
    BY <2>2 DEF Calls
  <2>4. [at |-> "idle", write |-> FALSE, sector |-> 0, left |-> 0] \in Calls
    BY DEF Calls
  <2>5. PICK c \in Calls : ith' = [ith EXCEPT ![t] = c]
    BY <1>6, <2>3, <2>4, Zenon DEF lhd_io_fetch, Return
  <2>6. ith' \in [IoThreads -> Calls]
    BY <1>0, <2>5, Zenon
  <2> QED BY <1>6, <2>1, <2>6, Zenon DEF DiskTypeOK, lhd_io_fetch
<1>7. CASE lhd_io_return(t)
  BY <1>7, Zenon DEF lhd_io_return, Return, DiskTypeOK, Calls
<1> QED BY <1>1, <1>2, <1>3, <1>4, <1>5, <1>6, <1>7, Zenon DEF DiskStep

LEMMA DiskDevice_Typed ==
  ASSUME DiskTypeOK, Transfer \/ lhd_irq
  PROVE  DiskTypeOK'
<1>0. \A code : lhd_code_to_errno(code) \in Results
  BY Zenon DEF lhd_code_to_errno, Results
<1>1. CASE Transfer
  <2>1. PICK stat \in {"OK", "MEDIA", "INVSECT"} :
          /\ stat # "INVSECT" => dev.sect \in DOMAIN platter
          /\ dev' = [dev EXCEPT !.stat = stat,
                                !.buf = IF stat = "OK" /\ ~dev.write THEN platter[dev.sect] ELSE @]
          /\ platter' = IF stat = "OK" /\ dev.write THEN [platter EXCEPT ![dev.sect] = dev.buf] ELSE platter
          /\ last' = [last EXCEPT !.result = lhd_code_to_errno(stat),
                                  !.data = IF stat = "OK" THEN platter'[dev.sect] ELSE Nobody]
    BY <1>1, Zenon DEF Transfer
  <2>2. platter' \in [0..(Sectors - 1) -> IoThreads \cup {Nobody}]
    BY <2>1, Zenon DEF DiskTypeOK
  <2> QED BY <1>0, <1>1, <2>1, <2>2, ZenonT(60) DEF Transfer, DiskTypeOK
<1>2. CASE lhd_irq
  <2>1. lh' \in Softc
    <3>1. lh \in Softc
      BY Zenon DEF DiskTypeOK
    <3>2. PICK d \in Int : d = lh.done + 1
      BY <3>1 DEF Softc
    <3>3. PICK r \in Results : lh' = lh \/ lh' = [lh EXCEPT !.result = r, !.done = d]
      BY <1>0, <1>2, <3>2, Zenon DEF lhd_irq
    <3> QED BY <3>1, <3>3, Zenon DEF Softc
  <2> QED BY <1>2, <2>1, Zenon DEF lhd_irq, DiskTypeOK
<1> QED BY <1>1, <1>2, Zenon

LEMMA DiskInit_Inv == Init => DiskInv
BY DEF Init, DiskInit, DiskInv, DiskTypeOK, Softc, Results, Calls, OneInside, OnlyForWaiter, Own, Inside, On, DiskIrq

LEMMA DiskCall_Inv ==
  ASSUME DiskInv, NEW t \in IoThreads, lhd_io(t)
  PROVE  DiskInv'
<1> USE DEF DiskInv
<1>1. DiskTypeOK'
  BY DiskThread_Typed, Zenon DEF DiskInv, DiskStep
<1>2. OneInside'
  BY SMTT(30) DEF lhd_io, DiskTypeOK, Softc, Results, Calls, On, OneInside, Inside
<1>3. OnlyForWaiter'
  BY Zenon DEF lhd_io, DiskTypeOK, Softc, Results, Calls, On, OnlyForWaiter
<1>4. ASSUME NEW u \in IoThreads PROVE Own(u)'
  BY DEF lhd_io, DiskTypeOK, Softc, Results, Calls, On, Own, HasOwn, DiskIrq, lhd_code_to_errno
<1> QED BY <1>1, <1>2, <1>3, <1>4, Zenon

\* lh_clear admits the thread.
LEMMA DiskClear_Inv ==
  ASSUME DiskInv, NEW t \in IoThreads, lhd_io_clear(t)
  PROVE  DiskInv'
<1>1. DiskTypeOK'
  BY DiskThread_Typed, Zenon DEF DiskInv, DiskStep
<1> USE DEF DiskInv, lhd_io_clear, DiskTypeOK, Softc, Results, Calls, On, Now
<1>2. OneInside'
  BY DEF OneInside, Inside
<1>3. OnlyForWaiter'
  BY Zenon DEF OnlyForWaiter
<1>4. ASSUME NEW u \in IoThreads PROVE Own(u)'
  BY DEF Own, HasOwn, DiskIrq
<1> QED BY <1>1, <1>2, <1>3, <1>4, Zenon

LEMMA DiskFill_Inv ==
  ASSUME DiskInv, NEW t \in IoThreads, lhd_io_fill(t)
  PROVE  DiskInv'
<1>t. DiskTypeOK'
  BY DiskThread_Typed, Zenon DEF DiskInv, DiskStep
<1> USE DEF DiskInv, DiskTypeOK, Softc, Results, Calls, On
<1>0. /\ ith[t].at = "fill" /\ lh.clear = 0 /\ \A u \in IoThreads : u # t => ~Inside(u)
      /\ platter' = platter /\ last' = last
  BY Zenon DEF lhd_io_fill, OneInside, Inside
<1>1. CASE /\ dev' = IF ith[t].write THEN [dev EXCEPT !.buf = t] ELSE dev
           /\ Now(t, "start") /\ lh' = lh
  <2>2. OneInside'
    BY <1>0, <1>1 DEF OneInside, Inside, Now
  <2>3. OnlyForWaiter'
    BY <1>0, <1>1, Zenon DEF OnlyForWaiter, Now
  <2>4. ASSUME NEW u \in IoThreads PROVE Own(u)'
    BY <1>0, <1>1 DEF Own, HasOwn, DiskIrq, Inside, Now
  <2> QED BY <1>t, <2>2, <2>3, <2>4, Zenon
<1>2. CASE lh' = [lh EXCEPT !.clear = @ + 1] /\ Return(t) /\ dev' = dev
  <2>2. OneInside'
    BY <1>0, <1>2 DEF OneInside, Inside, Return
  <2>3. OnlyForWaiter'
    BY <1>0, <1>2, Zenon DEF OnlyForWaiter, Return
  <2>4. ASSUME NEW u \in IoThreads PROVE Own(u)'
    BY <1>0, <1>2 DEF Own, HasOwn, DiskIrq, Inside, Return
  <2> QED BY <1>t, <2>2, <2>3, <2>4, Zenon
<1> QED BY <1>1, <1>2, Zenon DEF lhd_io_fill

LEMMA DiskStart_Inv ==
  ASSUME DiskInv, NEW t \in IoThreads, lhd_io_start(t)
  PROVE  DiskInv'
<1>1. DiskTypeOK'
  BY DiskThread_Typed, Zenon DEF DiskInv, DiskStep
<1> USE DEF DiskInv, lhd_io_start, DiskTypeOK, Softc, Results, Calls, On, Now
<1>2. OneInside'
  BY DEF OneInside, Inside
<1>3. OnlyForWaiter'
  BY Zenon DEF OnlyForWaiter
<1>4. ASSUME NEW u \in IoThreads PROVE Own(u)'
  <2>1. Inside(t) /\ (u # t => ~Inside(u))
    BY Zenon DEF OneInside, Inside
  <2>2. lh.done = 0
    BY <2>1, Zenon DEF OneInside, Inside, OnlyForWaiter
  <2> QED BY <2>1, <2>2 DEF Own, HasOwn, DiskIrq, Inside
<1> QED BY <1>1, <1>2, <1>3, <1>4, Zenon

LEMMA DiskDone_Inv ==
  ASSUME DiskInv, NEW t \in IoThreads, lhd_io_done(t)
  PROVE  DiskInv'
<1>1. DiskTypeOK'
  BY DiskThread_Typed, Zenon DEF DiskInv, DiskStep
<1> USE DEF DiskInv, lhd_io_done, DiskTypeOK, Softc, Results, Calls, On, Now
<1>0. /\ \A u \in IoThreads : u # t => ~Inside(u)
      /\ lh.done = 1 /\ dev.stat = "IDLE"
  BY DEF OneInside, Inside, Own
<1>2. OneInside'
  BY DEF OneInside, Inside
<1>3. OnlyForWaiter'
  BY <1>0
  DEF OnlyForWaiter
<1>4. ASSUME NEW u \in IoThreads PROVE Own(u)'
  BY <1>0 DEF Own, HasOwn, DiskIrq, Inside
<1> QED BY <1>1, <1>2, <1>3, <1>4, Zenon

LEMMA DiskFetch_Inv ==
  ASSUME DiskInv, NEW t \in IoThreads, lhd_io_fetch(t)
  PROVE  DiskInv'
<1>3. DiskTypeOK'
  BY DiskThread_Typed, Zenon DEF DiskInv, DiskStep
<1> USE DEF DiskInv, DiskTypeOK, Softc, Results, Calls, On
<1>0. /\ ith[t].at = "fetch" /\ lh.clear = 0 /\ \A u \in IoThreads : u # t => ~Inside(u)
      /\ lh' = [lh EXCEPT !.clear = @ + 1]
      /\ dev' = dev /\ platter' = platter /\ last' = last
  BY Zenon DEF lhd_io_fetch, OneInside, Inside
<1>2. PICK r : r.at \in {"idle", "next"} /\ ith' = [ith EXCEPT ![t] = r]
  BY DEF lhd_io_fetch, Return
<1>4. OneInside'
  BY <1>0, <1>2 DEF OneInside, Inside
<1>5. OnlyForWaiter'
  BY <1>0, <1>2, Zenon DEF OnlyForWaiter, Inside
<1>6. ASSUME NEW u \in IoThreads PROVE Own(u)'
  BY <1>0, <1>2, Zenon DEF Own, HasOwn, DiskIrq, Inside
<1> QED BY <1>3, <1>4, <1>5, <1>6, Zenon

LEMMA DiskReturn_Inv ==
  ASSUME DiskInv, NEW t \in IoThreads, lhd_io_return(t)
  PROVE  DiskInv'
<1> USE DEF DiskInv, lhd_io_return, DiskTypeOK, Softc, Results, Calls, On, Return
<1>1. DiskTypeOK'
  BY DiskThread_Typed, Zenon DEF DiskInv, DiskStep
<1>2. OneInside'
  BY Zenon DEF OneInside, Inside
<1>3. OnlyForWaiter'
  BY Zenon DEF OnlyForWaiter
<1>4. ASSUME NEW u \in IoThreads PROVE Own(u)'
  BY Zenon DEF Own, HasOwn, DiskIrq
<1> QED BY <1>1, <1>2, <1>3, <1>4, Zenon

\* The device finishes the transfer of the one thread that waits.
LEMMA Transfer_Inv ==
  ASSUME DiskInv, Transfer
  PROVE  DiskInv'
<1> USE DEF DiskInv, DiskTypeOK, Softc, Results, Calls, On
<1>1. PICK t \in IoThreads : On(t, "wait")
  BY Zenon DEF Transfer, OnlyForWaiter
<1>2. \A u \in IoThreads : u # t => ~Inside(u)
  BY <1>1, Zenon DEF OneInside, Inside
<1>3. PICK stat \in {"OK", "MEDIA", "INVSECT"} :
        /\ stat # "INVSECT" => dev.sect \in DOMAIN platter
        /\ dev' = [dev EXCEPT !.stat = stat,
                              !.buf = IF stat = "OK" /\ ~dev.write THEN platter[dev.sect] ELSE @]
        /\ platter' = IF stat = "OK" /\ dev.write THEN [platter EXCEPT ![dev.sect] = dev.buf] ELSE platter
        /\ last' = [last EXCEPT !.result = lhd_code_to_errno(stat),
                                !.data = IF stat = "OK" THEN platter'[dev.sect] ELSE Nobody]
  BY Zenon DEF Transfer
<1>4. dev.stat = "WORKING" /\ UNCHANGED <<lh, ith>>
  BY Zenon DEF Transfer
<1>5. DiskTypeOK'
  BY DiskDevice_Typed, ZenonT(60)
<1>6. OneInside'
  BY <1>4, Zenon DEF OneInside, Inside
<1>7. OnlyForWaiter'
  BY <1>1, <1>4, Zenon DEF OnlyForWaiter
<1>8. Own(t)'
  BY <1>1, <1>3, <1>4, Zenon DEF Own, HasOwn, DiskIrq, lhd_code_to_errno
<1>9. ASSUME NEW u \in IoThreads, u # t PROVE Own(u)'
  BY <1>2, <1>4, <1>9, Zenon DEF Own, Inside
<1> QED BY <1>5, <1>6, <1>7, <1>8, <1>9, Zenon

LEMMA DiskIrq_Inv ==
  ASSUME DiskInv, lhd_irq
  PROVE  DiskInv'
<1> USE DEF DiskInv, DiskTypeOK, Softc, Results, Calls, On
<1>1. CASE ~DiskIrq
  <2>1. UNCHANGED dvars
    BY <1>1, Zenon DEF lhd_irq, dvars
  <2> QED BY <2>1 DEF dvars, OneInside, Inside, OnlyForWaiter, Own, HasOwn, DiskIrq
<1>2. CASE DiskIrq
  <2>1. PICK t \in IoThreads : On(t, "wait")
    BY <1>2, Zenon DEF DiskIrq, OnlyForWaiter
  <2>2. \A u \in IoThreads : u # t => ~Inside(u)
    BY <2>1, Zenon DEF OneInside, Inside
  <2>3. /\ dev' = [dev EXCEPT !.stat = "IDLE"]
        /\ lh' = [lh EXCEPT !.result = lhd_code_to_errno(dev.stat), !.done = @ + 1]
        /\ UNCHANGED <<platter, ith, last>>
    BY <1>2, Zenon DEF lhd_irq
  <2>4. lh.done = 0
    BY <1>2, <2>1, Zenon DEF Own, DiskIrq
  <2>5. DiskTypeOK'
    BY DiskDevice_Typed, Zenon
  <2>6. OneInside'
    BY <2>3, Zenon DEF OneInside, Inside
  <2>7. OnlyForWaiter'
    BY <2>1, <2>3, Zenon DEF OnlyForWaiter
  <2>8. Own(t)'
    BY <1>2, <2>1, <2>3, <2>4 DEF Own, HasOwn, DiskIrq
  <2>9. ASSUME NEW u \in IoThreads, u # t PROVE Own(u)'
    BY <2>2, <2>3, <2>9, Zenon DEF Own, Inside
  <2> QED BY <2>5, <2>6, <2>7, <2>8, <2>9, Zenon
<1> QED BY <1>1, <1>2, Zenon

LEMMA DiskRest_Inv ==
  ASSUME DiskInv, UNCHANGED dvars
  PROVE  DiskInv'
BY ZenonT(60) DEF dvars, DiskInv, DiskTypeOK, OneInside, Inside, OnlyForWaiter, Own, HasOwn, On, DiskIrq

LEMMA Disk_Inductive ==
  ASSUME DiskInv, [Next]_vars
  PROVE  DiskInv'
<1>1. ASSUME NEW t \in IoThreads, DiskThread(t) \/ DiskCall(t) PROVE DiskInv'
  <2>1. CASE lhd_io(t)
    BY <2>1, DiskCall_Inv, Zenon
  <2>2. CASE DiskStep(t)
    BY <2>2, DiskClear_Inv, DiskFill_Inv, DiskStart_Inv, DiskDone_Inv, DiskFetch_Inv, DiskReturn_Inv, Zenon DEF DiskStep
  <2> QED BY <1>1, <2>1, <2>2, Zenon DEF DiskThread, DiskCall
<1>2. CASE DiskDevice \/ DiskInterrupt
  BY <1>2, Transfer_Inv, DiskIrq_Inv, Zenon DEF DiskDevice, DiskInterrupt
<1>3. CASE UNCHANGED dvars
  BY <1>3, DiskRest_Inv, Zenon
<1>4. \/ UNCHANGED dvars
      \/ DiskDevice \/ DiskInterrupt
      \/ \E t \in IoThreads : DiskThread(t) \/ DiskCall(t)
  BY Zenon DEF Next, vars, IpiRequest, IpiInterrupt, Bus, Keyboard, SerialDevice, SerialInterrupt, SerialThread, SerialCall,
         EmuDone, EmuInterrupt, EmuThread, EmuRequest
<1> QED BY <1>1, <1>2, <1>3, <1>4, Zenon

(***************************************************************************)
(* TransferIsOwn holds in every behaviour of the machine: however many      *)
(* threads call lhd_io, the one that lh_done wakes finds in lh_result and   *)
(* in the device's buffer what its own transfer left there.                 *)
(***************************************************************************)
THEOREM DiskTransfers == Spec => []TransferIsOwn
<1>1. Init => DiskInv
  BY DiskInit_Inv, Zenon
<1>2. DiskInv /\ [Next]_vars => DiskInv'
  BY Disk_Inductive, Zenon
<1>3. DiskInv => TransferIsOwn
  <2> SUFFICES ASSUME DiskInv, NEW t \in IoThreads, On(t, "fetch")
               PROVE  /\ last.by = t /\ dev.stat = "IDLE"
                      /\ lh.result = last.result
                      /\ lh.result = "0" => dev.buf = last.data /\ (ith[t].write => platter[ith[t].sector] = t)
    BY Zenon DEF TransferIsOwn
  <2>1. \A u \in IoThreads : ~On(u, "wait")
    BY Zenon DEF DiskInv, OneInside, Inside, On
  <2> QED BY <2>1, Zenon DEF DiskInv, OnlyForWaiter, Own, HasOwn
<1> QED BY <1>1, <1>2, <1>3, PTL DEF Spec

----------------------------------------------------------------------------
\* Shootdowns.  What is owed and not dropped is in the array, unless everything is to be
\* invalidated.

IpiTypeOK ==
  /\ c_ipi_pending \in [CPUs -> SUBSET Codes]
  /\ c_shootdown \in [CPUs -> Seq(Mappings)]
  /\ c_numshootdown \in [CPUs -> Int]
  /\ owed \in [CPUs -> SUBSET Mappings]
  /\ dropped \in [CPUs -> SUBSET Mappings]

Covered(c) ==
  /\ \/ c_numshootdown[c] = TLBSHOOTDOWN_ALL
     \/ c_numshootdown[c] \in 0..TLBSHOOTDOWN_MAX /\ c_numshootdown[c] <= Len(c_shootdown[c])
  /\ owed[c] \ dropped[c] \subseteq Served(c)
  /\ owed[c] \ dropped[c] # {} => "IPI_TLBSHOOTDOWN" \in c_ipi_pending[c]

IpiInv == IpiTypeOK /\ \A c \in CPUs : Covered(c)

LEMMA WriteEntry ==
  ASSUME NEW s \in Seq(Mappings), NEW n \in 0..Len(s), NEW m \in Mappings
  PROVE  /\ Write(s, n, m) \in Seq(Mappings)
         /\ n + 1 <= Len(Write(s, n, m))
         /\ \A i \in 1..n : Write(s, n, m)[i] = s[i]
         /\ Write(s, n, m)[n + 1] = m
<1> DEFINE k == IF n < Len(s) THEN Len(s) ELSE n + 1
           w == [i \in 1..k |-> IF i = n + 1 THEN m ELSE s[i]]
<1>1. Write(s, n, m) = w
  BY Zenon DEF Write
<1>2. Len(s) \in Nat /\ k \in Nat /\ n + 1 <= k
  OBVIOUS
<1>3. ASSUME NEW i \in 1..k PROVE w[i] \in Mappings
  BY <1>2
<1> HIDE DEF k
<1>4. w \in Seq(Mappings) /\ Len(w) = k
  BY <1>2, <1>3
<1>5. ASSUME NEW i \in 1..n PROVE w[i] = s[i]
  BY <1>2
<1>6. w[n + 1] = m
  BY <1>2
<1> QED BY <1>1, <1>2, <1>4, <1>5, <1>6, Zenon

LEMMA IpiInit_Inv == Init => IpiInv
BY MaxAssumption DEF Init, IpiInit, IpiInv, IpiTypeOK, Covered, Served, TLBSHOOTDOWN_ALL

LEMMA IpiSend_Inv ==
  ASSUME IpiInv, NEW c \in CPUs, NEW d \in CPUs, NEW code \in Codes, ipi_send(c, d, code)
  PROVE  IpiInv'
BY DEF IpiInv, IpiTypeOK, Covered, Served, ipi_send

LEMMA IpiClear_Inv ==
  ASSUME IpiInv, NEW c \in CPUs, lamebus_clear_ipi(c)
  PROVE  IpiInv'
BY DEF IpiInv, IpiTypeOK, Covered, Served, lamebus_clear_ipi

\* The handler serves all that is owed and not dropped.
LEMMA IpiHandler_Inv ==
  ASSUME IpiInv, NEW c \in CPUs, interprocessor_interrupt(c)
  PROVE  IpiInv'
<1> USE DEF IpiInv, IpiTypeOK
<1>1. CASE c_ipi_pending[c] \cap {"IPI_PANIC", "IPI_OFFLINE"} # {}
  BY <1>1 DEF interprocessor_interrupt, Covered, Served
<1>2. CASE c_ipi_pending[c] \cap {"IPI_PANIC", "IPI_OFFLINE"} = {} /\ "IPI_TLBSHOOTDOWN" \in c_ipi_pending[c]
  <2>1. /\ c_ipi_pending' = [c_ipi_pending EXCEPT ![c] = {}]
        /\ owed' = [owed EXCEPT ![c] = @ \ Served(c)]
        /\ c_numshootdown' = [c_numshootdown EXCEPT ![c] = 0]
        /\ dropped' = dropped
        /\ c_shootdown' = c_shootdown
    BY <1>2, Zenon DEF interprocessor_interrupt
  <2>2. owed'[c] \ dropped'[c] = {}
    BY <2>1, Zenon DEF Covered
  <2>3. Covered(c)'
    BY <2>1, <2>2, MaxAssumption DEF Covered, TLBSHOOTDOWN_ALL
  <2>4. ASSUME NEW d \in CPUs, d # c PROVE Covered(d)'
    BY <2>1, <2>4 DEF Covered, Served
  <2>5. IpiTypeOK'
    BY <2>1
  <2> QED BY <2>3, <2>4, <2>5, Zenon
<1>3. CASE c_ipi_pending[c] \cap {"IPI_PANIC", "IPI_OFFLINE"} = {} /\ "IPI_TLBSHOOTDOWN" \notin c_ipi_pending[c]
  <2>1. /\ c_ipi_pending' = [c_ipi_pending EXCEPT ![c] = {}]
        /\ UNCHANGED <<owed, c_numshootdown, dropped, c_shootdown>>
    BY <1>3, Zenon DEF interprocessor_interrupt
  <2>2. owed[c] \ dropped[c] = {}
    BY <1>3, Zenon DEF Covered
  <2>3. ASSUME NEW d \in CPUs PROVE Covered(d)'
    BY <2>1, <2>2 DEF Covered, Served
  <2> QED BY <2>1, <2>3, Zenon
<1> QED BY <1>1, <1>2, <1>3, Zenon

\* A request fills the array, turns a full one into TLBSHOOTDOWN_ALL, or drops all that was asked for.
LEMMA IpiShootdown_Inv ==
  ASSUME IpiInv, NEW c \in CPUs, NEW d \in CPUs, NEW m \in Mappings, ipi_tlbshootdown(c, d, m)
  PROVE  IpiInv'
<1> USE DEF IpiInv, IpiTypeOK
<1> DEFINE n == c_numshootdown[d]
<1>1. owed' = [owed EXCEPT ![d] = @ \cup {m}] /\ owed'[d] = owed[d] \cup {m}
  BY Zenon DEF ipi_tlbshootdown
<1>2. CASE n = TLBSHOOTDOWN_MAX
  <2>1. /\ c_numshootdown' = [c_numshootdown EXCEPT ![d] = TLBSHOOTDOWN_ALL] /\ c_shootdown' = c_shootdown
        /\ c_ipi_pending' = [c_ipi_pending EXCEPT ![d] = @ \cup {"IPI_TLBSHOOTDOWN"}]
        /\ dropped' = [dropped EXCEPT ![d] = {}]
    BY <1>2, MaxAssumption DEF ipi_tlbshootdown, TLBSHOOTDOWN_ALL
  <2>2. Covered(d)'
    BY <1>1, <2>1, Zenon DEF Covered, Served
  <2>3. ASSUME NEW e \in CPUs, e # d PROVE Covered(e)'
    BY <1>1, <2>1, <2>3 DEF Covered, Served
  <2>4. IpiTypeOK'
    BY <1>1, <2>1, SMTT(30) DEF Codes, TLBSHOOTDOWN_ALL
  <2> QED BY <2>2, <2>3, <2>4, Zenon
<1>3. CASE n \in 0..(TLBSHOOTDOWN_MAX - 1)
  <2> DEFINE w == Write(c_shootdown[d], n, m)
  <2>0. n \in Nat /\ n # TLBSHOOTDOWN_ALL /\ n # TLBSHOOTDOWN_MAX /\ n <= Len(c_shootdown[d])
    BY <1>3, MaxAssumption DEF Covered, TLBSHOOTDOWN_ALL
  <2>1. /\ c_numshootdown' = [c_numshootdown EXCEPT ![d] = n + 1] /\ c_shootdown' = [c_shootdown EXCEPT ![d] = w]
        /\ c_ipi_pending' = [c_ipi_pending EXCEPT ![d] = @ \cup {"IPI_TLBSHOOTDOWN"}]
        /\ dropped' = [dropped EXCEPT ![d] = @ \ {m}]
    BY <2>0, Zenon DEF ipi_tlbshootdown
  <2>2. c_shootdown[d] \in Seq(Mappings) /\ n \in 0..Len(c_shootdown[d])
    BY <2>0
  <2>3. /\ w \in Seq(Mappings) /\ n + 1 <= Len(w)
        /\ \A i \in 1..n : w[i] = c_shootdown[d][i]
        /\ w[n + 1] = m
    BY <2>2, WriteEntry, ZenonT(60)
  <2> HIDE DEF w
  <2>4. c_numshootdown'[d] = n + 1 /\ c_shootdown'[d] = w /\ dropped'[d] = dropped[d] \ {m}
    BY <2>1, Zenon
  <2>5. owed'[d] \ dropped'[d] \subseteq Served(d)'
    <3>1. Served(d) = {c_shootdown[d][i] : i \in 1..n}
      BY <2>0 DEF Served
    <3>2. Served(d)' = {w[i] : i \in 1..(n + 1)}
      BY <2>0, <2>4 DEF Served, TLBSHOOTDOWN_ALL
    <3>3. n + 1 \in 1..(n + 1) /\ 1..n \subseteq 1..(n + 1)
      BY <2>0
    <3>4. owed[d] \ dropped[d] \subseteq Served(d)
      BY Zenon DEF Covered
    <3> HIDE DEF n
    <3>5. ASSUME NEW x \in owed[d] \ dropped[d] PROVE x \in Served(d)'
      <4>1. PICK i \in 1..n : x = c_shootdown[d][i]
        BY <3>1, <3>4, Zenon
      <4> QED BY <2>3, <3>2, <3>3, <4>1, Zenon
    <3>6. m \in Served(d)'
      BY <2>3, <3>2, <3>3, SMTT(30)
    <3> QED BY <1>1, <2>4, <3>5, <3>6, Zenon
  <2>6. Covered(d)'
    <3>1. "IPI_TLBSHOOTDOWN" \in c_ipi_pending'[d]
      BY <2>1, Zenon
    <3>2. n + 1 \in 0..TLBSHOOTDOWN_MAX
      BY <1>3, MaxAssumption, SMTT(30)
    <3> HIDE DEF n
    <3> QED BY <2>3, <2>4, <2>5, <3>1, <3>2, Zenon DEF Covered
  <2>7. ASSUME NEW e \in CPUs, e # d PROVE Covered(e)'
    <3>1. /\ owed'[e] = owed[e] /\ dropped'[e] = dropped[e] /\ c_numshootdown'[e] = c_numshootdown[e]
          /\ c_shootdown'[e] = c_shootdown[e] /\ c_ipi_pending'[e] = c_ipi_pending[e]
      BY <1>1, <2>1, <2>7, Zenon
    <3> QED BY <3>1, Zenon DEF Covered, Served
  <2>8. IpiTypeOK'
    BY <1>1, <2>0, <2>1, <2>3, SMTT(30) DEF Codes
  <2> QED BY <2>6, <2>7, <2>8, Zenon
<1>4. CASE n = TLBSHOOTDOWN_ALL
  <2>0. n # TLBSHOOTDOWN_MAX /\ n \notin 0..(TLBSHOOTDOWN_MAX - 1)
    BY <1>4, MaxAssumption DEF TLBSHOOTDOWN_ALL
  <2>1. PICK bits \in SUBSET Codes :
          /\ c_numshootdown' = [c_numshootdown EXCEPT ![d] = 0] /\ c_shootdown' = c_shootdown
          /\ c_ipi_pending' = [c_ipi_pending EXCEPT ![d] = bits \cup {"IPI_TLBSHOOTDOWN"}]
          /\ dropped' = [dropped EXCEPT ![d] = owed[d] \cup {m}]
    BY <2>0, Zenon DEF ipi_tlbshootdown
  <2>2. owed'[d] \ dropped'[d] = {}
    BY <1>1, <2>1, Zenon
  <2>3. 0 \in 0..TLBSHOOTDOWN_MAX /\ 0 <= Len(c_shootdown[d])
    BY MaxAssumption
  <2>4. Covered(d)'
    BY <2>1, <2>2, <2>3, Zenon DEF Covered
  <2>5. ASSUME NEW e \in CPUs, e # d PROVE Covered(e)'
    BY <1>1, <2>1, <2>5 DEF Covered, Served
  <2>6. IpiTypeOK'
    BY <1>1, <2>1, SMTT(30) DEF Codes
  <2> QED BY <2>4, <2>5, <2>6, Zenon
<1>5. n = TLBSHOOTDOWN_MAX \/ n \in 0..(TLBSHOOTDOWN_MAX - 1) \/ n = TLBSHOOTDOWN_ALL
  BY Zenon DEF ipi_tlbshootdown
<1> QED BY <1>2, <1>3, <1>4, <1>5, Zenon

LEMMA Ipi_Inductive ==
  ASSUME IpiInv, [Next]_vars
  PROVE  IpiInv'
<1>1. ASSUME NEW c \in CPUs, IpiRequest(c) PROVE IpiInv'
  BY <1>1, IpiSend_Inv, IpiShootdown_Inv, Zenon DEF IpiRequest, IpiCall
<1>2. ASSUME NEW c \in CPUs, IpiInterrupt(c) PROVE IpiInv'
  BY <1>2, IpiHandler_Inv, IpiClear_Inv, Zenon DEF IpiInterrupt, IpiStep
<1>3. CASE UNCHANGED ipivars
  BY <1>3 DEF ipivars, IpiInv, IpiTypeOK, Covered, Served
<1>4. UNCHANGED ipivars \/ \E c \in CPUs : IpiRequest(c) \/ IpiInterrupt(c)
  BY Zenon DEF Next, vars, Bus, Keyboard, SerialDevice, SerialInterrupt, SerialThread, SerialCall, DiskDevice,
         DiskInterrupt, DiskThread, DiskCall, EmuDone, EmuInterrupt, EmuThread, EmuRequest
<1> QED BY <1>1, <1>2, <1>3, <1>4, Zenon

(***************************************************************************)
(* ShootdownServed, for any number of CPUs, mappings and requests and any   *)
(* length of the array: what interprocessor_interrupt serves is all that    *)
(* ipi_tlbshootdown was asked for and has not dropped itself, by a request  *)
(* more than TLBSHOOTDOWN_ALL can take.                                     *)
(***************************************************************************)
THEOREM ShootdownsServed == Spec => []ShootdownServed
<1>1. Init => IpiInv
  BY IpiInit_Inv, Zenon
<1>2. IpiInv /\ [Next]_vars => IpiInv'
  BY Ipi_Inductive, SMTT(30)
<1>3. IpiInv => ShootdownServed
  BY Zenon DEF IpiInv, Covered, ShootdownServed
<1> QED BY <1>1, <1>2, <1>3, PTL DEF Spec

----------------------------------------------------------------------------
\* The emulator on the bus.

\* The bus calls the handlers of the slots that assert their lines; other handlers do not call this one.
LEMMA BusCalls ==
  ASSUME Bus \/ SerialHandler \/ lhd_irq
  PROVE  In(EmuSlot, "call")' => EmuIrq
<1>1. ASSUME NEW S \in SUBSET Irqs, S # {}, Min(S) = EmuSlot PROVE EmuIrq
  <2>1. S \in SUBSET Nat
    BY SlotAssumption, Zenon DEF Irqs
  <2>2. EmuSlot \in Irqs
    BY <1>1, <2>1, MinIn, Zenon
  <2> QED BY <2>2, SlotAssumption, Zenon DEF Irqs
<1>2. CASE Bus
  <2>1. {s \in Irqs : s > irq.slot} \in SUBSET Irqs
    OBVIOUS
  <2> QED BY <1>1, <1>2, <2>1 DEF Bus, lamebus_interrupt, lamebus_interrupt_next, In, NoIrq
<1>3. CASE SerialHandler \/ lhd_irq
  <2>1. (\E s : In(s, "call") \/ In(s, "start") \/ In(s, "input")) /\ (GoTo("start") \/ GoTo("input") \/ GoTo("next"))
    <3>1. CASE lser_irq
      BY <3>1, Zenon DEF lser_irq
    <3>2. CASE con_start
      BY <3>2, Zenon DEF con_start
    <3>3. CASE con_input
      BY <3>3, Zenon DEF con_input
    <3>4. CASE lhd_irq
      BY <3>4, Zenon DEF lhd_irq
    <3> QED BY <1>3, <3>1, <3>2, <3>3, <3>4, Zenon DEF SerialHandler
  <2>2. irq'.at \in {"start", "input", "next"}
    BY <2>1, Zenon DEF In, GoTo
  <2> QED BY <2>2 DEF In
<1> QED BY <1>2, <1>3, Zenon

\* Threads in the drivers leave the bus alone.
LEMMA SerialThreads_Irq ==
  ASSUME NEW t \in Threads, ConsoleStep(t) \/ ConsoleCall(t)
  PROVE  UNCHANGED irq
<1>1. CASE con_io_write(t) \/ kprintf(t) \/ kprintf_polled(t) \/ con_io_read(t) \/ kgets(t)
  BY <1>1, Zenon DEF OutputCall, con_io_write, kprintf, kprintf_polled, con_io_read, kgets, BeginRead
<1>2. CASE OutputLoop(t) \/ putch_intr(t) \/ lser_write(t) \/ lser_writepolled(t)
  BY <1>2, Zenon DEF OutputLoop, putch_intr, lser_write, lser_writepolled
<1>3. CASE lser_poll_until_write(t) \/ lser_writepolled_send(t) \/ lser_writepolled_done(t) \/ kprintf_polled_done(t)
  BY <1>3, Zenon DEF lser_poll_until_write, lser_writepolled_send, lser_writepolled_done, kprintf_polled_done
<1>4. CASE getch_intr(t) \/ getch_intr_char(t) \/ getch_intr_tail(t) \/ con_io_read_more(t)
  BY <1>4, Zenon DEF getch_intr, getch_intr_char, getch_intr_tail, con_io_read_more
<1>5. CASE kgets_key(t) \/ kgets_more(t)
  BY <1>5, Zenon DEF kgets_key, kgets_more, BeginRead
<1> QED BY <1>1, <1>2, <1>3, <1>4, <1>5, Zenon DEF ConsoleStep, ConsoleCall

LEMMA DiskThreads_Irq ==
  ASSUME NEW t \in IoThreads, DiskStep(t) \/ lhd_io(t)
  PROVE  UNCHANGED irq
BY Zenon DEF DiskStep, lhd_io, lhd_io_clear, lhd_io_fill, lhd_io_start, lhd_io_done, lhd_io_fetch, lhd_io_return

LEMMA Emu_Inductive ==
  ASSUME EmuInv, [Next]_vars
  PROVE  EmuInv'
<1>1. ASSUME NEW t \in EmuThreads, EmuThread(t) \/ EmuRequest(t) PROVE EmuInv'
  <2>1. CASE EmuStep(t)
    BY <2>1, EmuStart_Inv, EmuIo_Inv, EmuWaitdone_Inv, EmuOpen_Inv, EmuCalls_Inv, EmuLoad_Inv, EmuReclaim_Inv,
       EmuClose_Inv, Zenon DEF EmuStep
  <2>2. CASE EmuCall(t)
    BY <2>2, EmuCalls_Inv, VnodeDecref_Inv, VnodeIncref_Inv, Zenon DEF EmuCall
  <2> QED BY <1>1, <2>1, <2>2, Zenon DEF EmuThread, EmuRequest
<1>2. CASE EmuDone \/ EmuInterrupt
  BY <1>2, EmuDevice_Inv, EmuIrq_Inv, Zenon DEF EmuDone, EmuInterrupt
<1>3. CASE UNCHANGED <<evars, irq>>
  BY <1>3, EmuRest_Inv, Zenon DEF In
<1>4. CASE UNCHANGED evars /\ (Bus \/ SerialHandler \/ lhd_irq)
  BY <1>4, EmuRest_Inv, BusCalls, Zenon
<1>5. \/ UNCHANGED <<evars, irq>>
      \/ UNCHANGED evars /\ (Bus \/ SerialHandler \/ lhd_irq)
      \/ EmuDone \/ EmuInterrupt
      \/ \E t \in EmuThreads : EmuThread(t) \/ EmuRequest(t)
  <2>1. ASSUME NEW t \in Threads, SerialThread(t) \/ SerialCall(t) PROVE UNCHANGED irq
    BY <2>1, SerialThreads_Irq, Zenon DEF SerialThread, SerialCall
  <2>2. ASSUME NEW t \in IoThreads, DiskThread(t) \/ DiskCall(t) PROVE UNCHANGED irq
    BY <2>2, DiskThreads_Irq, Zenon DEF DiskThread, DiskCall
  <2>3. CASE Keyboard \/ SerialDevice \/ DiskDevice
    BY <2>3, Zenon DEF Keyboard, KeyTyped, SerialDevice, SendDone, DiskDevice, Transfer
  <2>4. UNCHANGED evars \/ EmuDone \/ EmuInterrupt \/ \E t \in EmuThreads : EmuThread(t) \/ EmuRequest(t)
    BY Zenon DEF Next, vars, IpiRequest, IpiInterrupt, Bus, Keyboard, SerialDevice, SerialInterrupt, SerialThread, SerialCall,
           DiskDevice, DiskInterrupt, DiskThread, DiskCall
  <2>5. \/ UNCHANGED irq
        \/ Bus \/ SerialHandler \/ lhd_irq
        \/ EmuDone \/ EmuInterrupt
        \/ \E t \in EmuThreads : EmuThread(t) \/ EmuRequest(t)
    BY <2>1, <2>2, <2>3, Zenon DEF Next, vars, IpiRequest, IpiInterrupt, SerialInterrupt, DiskInterrupt
  <2> QED BY <2>4, <2>5, Zenon
<1> QED BY <1>1, <1>2, <1>3, <1>4, <1>5, Zenon

LEMMA EmuInit_Inv == Init => EmuInv
<1> SUFFICES ASSUME Init PROVE EmuInv
  OBVIOUS
<1>0. EmuInit /\ irq = NoIrq
  BY Zenon DEF Init, BusInit
<1>1. EmuTypeOK /\ Quiet /\ Called
  BY <1>0 DEF EmuInit, EmuTypeOK, IdleThread, EmuCalls, EmuAt, Quiet, Called, In, NoIrq
<1>2. ASSUME NEW t \in EmuThreads PROVE Shape(t) /\ LastRef(t) /\ Asked(t)
  BY <1>0, Zenon DEF EmuInit, IdleThread, Shape, LastRef, Reclaims, Asked, EAt
<1>3. ASSUME NEW h \in Handles PROVE Owned(h)
  <2>1. Refs(h) = {} /\ Underway(h) = {}
    BY <1>0, EmuAssumption, SMTT(30) DEF EmuInit, IdleThread, Refs, Underway, NoHandle
  <2> QED BY <1>0, <2>1, FS_EmptySet DEF EmuInit, Owned
<1> QED BY <1>1, <1>2, <1>3, Zenon DEF EmuInv

(***************************************************************************)
(* HandlesSound holds for any number of threads and handles: the driver     *)
(* never uses a handle that is not open, counts the references to its       *)
(* vnodes, and has each handle in one vnode or with one thread, although    *)
(* files are opened and closed, and closing fails and is tried again,       *)
(* while others use the device.  vfs_biglock has no part in it: e_lock,     *)
(* held from before emu_close to the end of emufs_reclaim, is enough.       *)
(***************************************************************************)
THEOREM EmuHandles == Spec => []HandlesSound
<1>1. Init => EmuInv
  BY EmuInit_Inv, Zenon
<1>2. EmuInv /\ [Next]_vars => EmuInv'
  BY Emu_Inductive, Zenon
<1>3. EmuInv => HandlesSound
  <2> SUFFICES ASSUME EmuInv PROVE HandlesSound
    OBVIOUS
  <2>1. ASSUME NEW t \in EmuThreads PROVE ~EAt(t, "panic") /\ (EAt(t, "wait") /\ e_sem > 0 => edev.by = t)
    BY Zenon DEF EmuInv, EmuTypeOK, EmuCalls, EmuAt, Asked, EAt
  <2>2. ASSUME NEW h \in Handles PROVE Cardinality(Underway(h)) <= 1
    <3>1. CASE Underway(h) = {}
      BY <3>1, FS_EmptySet
    <3>2. ASSUME NEW t \in Underway(h) PROVE Cardinality(Underway(h)) = 1
      <4>1. Underway(h) = {t}
        BY <3>2 DEF EmuInv, Owned
      <4> QED BY <4>1, FS_Singleton, Zenon
    <3> QED BY <3>1, <3>2
  <2>3. ASSUME NEW h \in Handles
        PROVE  /\ ef_vnodes[h] >= Cardinality({t \in EmuThreads : eth[t].vnode = h})
               /\ ef_vnodes[h] > 0 => Underway(h) = {}
               /\ ef_vnodes[h] > 0 \/ Underway(h) # {} => h \in opened \/ Closing(h)
    BY Zenon DEF EmuInv, Owned, Refs
  <2> QED BY <2>1, <2>2, <2>3, Zenon DEF HandlesSound
<1> QED BY <1>1, <1>2, <1>3, PTL DEF Spec
=============================================================================
