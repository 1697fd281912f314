----------------------------- MODULE EmuProofs ------------------------------
(***************************************************************************)
(* The inductive invariant of the emulator's driver, for any number of      *)
(* threads and handles, and that every step of the driver, the device and   *)
(* the handler keeps it.  MachineProofs puts the driver on its bus.         *)
(***************************************************************************)
EXTENDS Emu, FiniteSetTheorems, WellFoundedInduction, TLAPS

----------------------------------------------------------------------------
\* The emulator's handles.

EmuAt == {"idle", "start", "wait", "ok", "failed", "load", "loading", "reclaim", "reclaiming"}
EmuCalls == [at : EmuAt, op : {"none", "open", "io", "close"}, handle : Handles \cup {EMU_ROOTHANDLE, NoHandle},
             vnode : Handles \cup {NoHandle}, big : {0, 1}, retries : Int]

EmuTypeOK ==
  /\ e_lock \in EmuThreads \cup {Nobody}
  /\ e_sem \in Int
  /\ edev \in [oper : {"none", "open", "io", "close"}, handle : Handles \cup {EMU_ROOTHANDLE, NoHandle},
               result : {"0", "BADHANDLE", "NOHANDLES", "SUCCESS", "MEDIA"}, by : EmuThreads \cup {Nobody}]
  /\ opened \in SUBSET Handles
  /\ ef_vnodes \in [Handles -> Int]
  /\ eth \in [EmuThreads -> EmuCalls]

\* What a thread has at each place.
Shape(t) ==
  /\ eth[t].at \in {"idle", "reclaim", "reclaiming"} => eth[t].op = "none" /\ eth[t].handle = NoHandle
  /\ eth[t].at \in {"reclaim", "reclaiming"} => eth[t].vnode # NoHandle
  /\ eth[t].at \in {"load", "loading"} => eth[t].op = "open" /\ eth[t].handle \in Handles /\ eth[t].vnode = NoHandle
  /\ eth[t].at \in {"start", "wait", "ok", "failed"} =>
       \/ eth[t].op = "open" /\ eth[t].handle = EMU_ROOTHANDLE /\ eth[t].vnode = NoHandle
       \/ eth[t].op = "io" /\ eth[t].handle = eth[t].vnode /\ eth[t].vnode # NoHandle
       \/ eth[t].op = "close" /\ eth[t].handle \in Handles /\ eth[t].vnode \in {eth[t].handle, NoHandle}

\* A thread that reclaims a vnode has the last reference to it.
Reclaims(t) == eth[t].at \in {"reclaim", "reclaiming"} \/ (eth[t].op = "close" /\ eth[t].vnode # NoHandle)
LastRef(t) == Reclaims(t) => ef_vnodes[eth[t].vnode] = 1

\* What the device has answered to the operation it was given last.
Answer == IF edev.result # "0" THEN edev.result ELSE e_result

\* A handle that is open and that nobody knows of.
Fresh(h) == h \in opened /\ ef_vnodes[h] = 0 /\ Underway(h) = {}

\* The device works for the thread that has e_lock and waits.
Asked(t) ==
  /\ EAt(t, "wait") => edev.by = t
  /\ eth[t].at \in {"wait", "ok", "failed"} => e_lock = t
  /\ EAt(t, "wait") /\ edev.oper # "none" =>
       /\ e_sem = 0 /\ edev.result = "0" /\ edev.oper = eth[t].op /\ edev.handle = eth[t].handle
       /\ eth[t].handle \in opened \cup {EMU_ROOTHANDLE}
  /\ EAt(t, "wait") /\ edev.oper = "none" =>
       /\ e_sem = IF edev.result = "0" THEN 1 ELSE 0
       /\ Answer # "BADHANDLE"
       /\ eth[t].op = "open" /\ Answer = "SUCCESS" => Fresh(edev.handle)
       /\ eth[t].op = "close" /\ Answer # "SUCCESS" => eth[t].handle \in opened
  /\ EAt(t, "ok") /\ eth[t].op = "open" => Fresh(edev.handle)

Quiet == (\A t \in EmuThreads : ~EAt(t, "wait")) => e_sem = 0 /\ edev.oper = "none" /\ edev.result = "0"

\* A handle has a vnode or one thread on its way to one, and is open until it is closed for good.
Refs(h) == {t \in EmuThreads : eth[t].vnode = h}
Owned(h) ==
  /\ ef_vnodes[h] >= Cardinality(Refs(h))
  /\ ef_vnodes[h] > 0 => Underway(h) = {}
  /\ \A t, u \in Underway(h) : t = u
  /\ ef_vnodes[h] > 0 \/ Underway(h) # {} => h \in opened \/ Closing(h)

\* The handler is called only with a result in the register.
Called == In(EmuSlot, "call") => edev.result # "0"

EmuInv ==
  /\ EmuTypeOK /\ Quiet /\ Called
  /\ \A t \in EmuThreads : Shape(t) /\ LastRef(t) /\ Asked(t)
  /\ \A h \in Handles : Owned(h)

\* A non-empty set of numbers has a least element.
LEMMA MinIn ==
  ASSUME NEW S \in SUBSET Nat, S # {}
  PROVE  Min(S) \in S
<1>1. PICK x \in S : \A y \in S : <<y, x>> \notin OpToRel(<, Nat)
  BY NatLessThanWellFounded, WFMin, Zenon
<1>2. ASSUME NEW y \in S PROVE x <= y
  <2>1. x \in Nat /\ y \in Nat
    OBVIOUS
  <2>2. ~(y < x)
    BY <1>1, <2>1, Zenon DEF OpToRel
  <2> QED BY <2>1, <2>2
<1> QED BY <1>2, Zenon DEF Min

\* References are counted, so a count of one is one thread's.
LEMMA CountedRefs ==
  ASSUME EmuInv, NEW h \in Handles
  PROVE  /\ IsFiniteSet(Refs(h)) /\ Cardinality(Refs(h)) \in Nat /\ ef_vnodes[h] \in Nat
         /\ \A t \in Refs(h) : ef_vnodes[h] >= 1
         /\ ef_vnodes[h] = 1 => \A t, u \in Refs(h) : t = u
<1>1. IsFiniteSet(Refs(h))
  BY EmuAssumption, FS_Subset, Zenon DEF Refs
<1>2. Cardinality(Refs(h)) \in Nat
  BY <1>1, FS_CardinalityType, Zenon
<1>3. ef_vnodes[h] \in Int /\ ef_vnodes[h] >= Cardinality(Refs(h))
  BY Zenon DEF EmuInv, EmuTypeOK, Owned
<1>4. ASSUME NEW t \in Refs(h) PROVE Cardinality(Refs(h)) >= 1
  BY <1>1, <1>2, <1>4, FS_EmptySet
<1>5. ASSUME ef_vnodes[h] = 1, NEW t \in Refs(h), NEW u \in Refs(h) PROVE t = u
  <2>1. Cardinality(Refs(h)) = 1
    BY <1>2, <1>3, <1>4, <1>5
  <2> QED BY <1>1, <2>1, FS_Singleton
<1> QED BY <1>1, <1>2, <1>3, <1>4, <1>5

(***************************************************************************)
(* A step of one thread that leaves every vnode and handle with its owner   *)
(* keeps what is said of the owners and of the other threads.               *)
(***************************************************************************)
SameOwners(t) ==
  /\ eth' \in [EmuThreads -> EmuCalls]
  /\ \A u \in EmuThreads : u # t => eth'[u] = eth[u]
  /\ eth'[t].vnode = eth[t].vnode
  /\ \/ eth'[t].handle = eth[t].handle
     \/ eth[t].vnode # NoHandle
     \/ eth'[t].handle \notin Handles /\ eth[t].handle \notin Handles
  /\ UNCHANGED <<ef_vnodes, opened>>

LEMMA SameOwners_Inv ==
  ASSUME EmuInv, NEW t \in EmuThreads, SameOwners(t),
         eth[t].op = "close" /\ (EAt(t, "wait") \/ EAt(t, "ok")) =>
           \/ eth'[t].at \in {"wait", "ok"} /\ eth'[t].op = "close" /\ eth'[t].handle = eth[t].handle
           \/ eth[t].handle \in opened
  PROVE  /\ \A h \in Handles : Owned(h)' /\ Underway(h)' = Underway(h)
         /\ \A u \in EmuThreads : u # t => Shape(u)' /\ LastRef(u)'
<1>1. ASSUME NEW h \in Handles PROVE Refs(h)' = Refs(h) /\ Underway(h)' = Underway(h)
  BY Zenon DEF SameOwners, Refs, Underway
<1>2. ASSUME NEW h \in Handles, Closing(h) PROVE Closing(h)' \/ h \in opened
  BY <1>2, Zenon DEF SameOwners, Closing, EAt
<1>3. ASSUME NEW h \in Handles PROVE Owned(h)'
  BY <1>1, <1>2, Zenon DEF EmuInv, Owned, SameOwners
<1>4. ASSUME NEW u \in EmuThreads, u # t PROVE Shape(u)' /\ LastRef(u)'
  BY <1>4 DEF EmuInv, SameOwners, Shape, LastRef, Reclaims
<1> QED BY <1>1, <1>3, <1>4, Zenon

\* What the device has to do with another thread does not change.
LEMMA Asked_Other ==
  ASSUME EmuInv, NEW t \in EmuThreads, NEW u \in EmuThreads, u # t, eth'[u] = eth[u],
         eth[u].at \in {"wait", "ok", "failed"} => UNCHANGED <<e_lock, e_sem, e_result, edev, opened>>,
         \A h \in Handles : Fresh(h) => Fresh(h)'
  PROVE  Asked(u)'
BY DEF EmuInv, EmuTypeOK, Asked, EAt, Answer, Fresh

LEMMA Fresh_Same ==
  ASSUME NEW t \in EmuThreads, SameOwners(t), \A h \in Handles : Underway(h)' = Underway(h)
  PROVE  \A h \in Handles : Fresh(h)' = Fresh(h)
BY Zenon DEF SameOwners, Fresh

\* Only one thread is beyond e_lock.
LEMMA HasLock ==
  ASSUME EmuInv, NEW t \in EmuThreads, e_lock \in {Nobody, t}, NEW u \in EmuThreads, u # t
  PROVE  eth[u].at \notin {"wait", "ok", "failed"}
BY EmuAssumption DEF EmuInv, Asked

\* A handle that a thread closes is no other thread's.
LEMMA SoleCloser ==
  ASSUME EmuInv, NEW u \in EmuThreads, eth[u].op = "close", eth[u].at \in {"start", "wait", "ok", "failed"},
         NEW t \in EmuThreads, t # u
  PROVE  eth[u].handle \in Handles /\ t \notin Refs(eth[u].handle) /\ t \notin Underway(eth[u].handle)
<1> DEFINE h == eth[u].handle
<1>1. h \in Handles /\ eth[u].vnode \in {h, NoHandle} /\ (eth[u].vnode = h => ef_vnodes[h] = 1) /\ NoHandle \notin Handles
  BY EmuAssumption DEF EmuInv, Shape, LastRef, Reclaims, NoHandle
<1>2. Owned(h) /\ (u \in Refs(h) \/ u \in Underway(h))
  BY <1>1, Zenon DEF EmuInv, Refs, Underway
<1> HIDE DEF h
<1>3. \A v \in Refs(h) : ef_vnodes[h] >= 1
  BY <1>1, CountedRefs, Zenon
<1>4. CASE u \in Refs(h)
  <2>1. ef_vnodes[h] = 1
    BY <1>1, <1>4, Zenon DEF Refs
  <2>2. \A v, w \in Refs(h) : v = w
    BY <1>1, <2>1, CountedRefs, Zenon
  <2> QED BY <1>1, <1>2, <1>4, <2>1, <2>2 DEF Owned, h
<1>5. CASE u \in Underway(h)
  <2>1. ~(ef_vnodes[h] > 0)
    BY <1>2, <1>5, Zenon DEF Owned
  <2>2. ef_vnodes[h] \in Int
    BY <1>1, Zenon DEF EmuInv, EmuTypeOK
  <2>3. Refs(h) = {}
    BY <1>3, <2>1, <2>2
  <2> QED BY <1>1, <1>2, <1>5, <2>3, Zenon DEF Owned, h
<1> QED BY <1>2, <1>4, <1>5, Zenon

\* A thread that has a handle, and does not close it just now, finds it open.
LEMMA HandleOpen ==
  ASSUME EmuInv, NEW t \in EmuThreads, ~(eth[t].op = "close" /\ (EAt(t, "wait") \/ EAt(t, "ok"))),
         NEW h \in Handles, t \in Refs(h) \/ t \in Underway(h)
  PROVE  h \in opened
<1>1. ef_vnodes[h] > 0 \/ Underway(h) # {}
  BY CountedRefs
<1>2. h \in opened \/ Closing(h)
  BY <1>1, Zenon DEF EmuInv, Owned
<1>3. ASSUME NEW u \in EmuThreads, eth[u].op = "close", eth[u].handle = h, EAt(u, "wait") \/ EAt(u, "ok")
      PROVE  FALSE
  BY <1>3, SoleCloser, Zenon DEF EAt
<1> QED BY <1>2, <1>3, Zenon DEF Closing

LEMMA EmuStart_Inv ==
  ASSUME EmuInv, NEW t \in EmuThreads, emu_start(t)
  PROVE  EmuInv'
<1>0. /\ EAt(t, "start") /\ e_lock \in {Nobody, t} /\ e_lock' = t
      /\ UNCHANGED <<e_sem, e_result, opened, ef_vnodes, irq>>
      /\ eth \in [EmuThreads -> EmuCalls] /\ eth' = [eth EXCEPT ![t].at = "wait"]
      /\ Shape(t) /\ LastRef(t) /\ Asked(t)
  BY Zenon DEF emu_start, ENow, EmuInv, EmuTypeOK
<1>1. /\ eth' \in [EmuThreads -> EmuCalls]
      /\ \A u \in EmuThreads : u # t => eth'[u] = eth[u]
      /\ eth'[t].at = "wait" /\ eth'[t].op = eth[t].op /\ eth'[t].handle = eth[t].handle /\ eth'[t].vnode = eth[t].vnode
      /\ eth[t].at = "start"
  BY <1>0 DEF EmuCalls, EmuAt, EAt
<1>2. /\ edev'.oper = eth[t].op /\ edev'.handle = eth[t].handle /\ edev'.by = t /\ edev'.result = edev.result
  BY Zenon DEF emu_start, EmuInv, EmuTypeOK
<1>3. \A u \in EmuThreads : u # t => eth[u].at \notin {"wait", "ok", "failed"}
  BY <1>0, HasLock, Zenon
<1>4. e_sem = 0 /\ edev.oper = "none" /\ edev.result = "0"
  BY <1>1, <1>3, Zenon DEF EmuInv, Quiet, EAt
<1>5. EmuTypeOK'
  BY <1>0, <1>1, Zenon DEF emu_start, EmuInv, EmuTypeOK, EmuCalls, EmuAt
<1>6. SameOwners(t)
  BY <1>0, <1>1, Zenon DEF SameOwners
<1>7. /\ \A h \in Handles : Owned(h)' /\ Underway(h)' = Underway(h)
      /\ \A u \in EmuThreads : u # t => Shape(u)' /\ LastRef(u)'
  BY <1>1, <1>6, SameOwners_Inv, Zenon DEF EAt
<1>8. Shape(t)' /\ LastRef(t)'
  BY <1>0, <1>1, Zenon DEF Shape, LastRef, Reclaims
<1>9. eth[t].handle \in opened \cup {EMU_ROOTHANDLE}
  <2>1. CASE eth[t].op = "open"
    BY <1>0, <2>1, Zenon DEF Shape, EAt
  <2>2. CASE eth[t].op # "open"
    <3>1. eth[t].handle \in Handles /\ (t \in Refs(eth[t].handle) \/ t \in Underway(eth[t].handle))
      BY <1>0, <1>1, <2>2, Zenon DEF Shape, EmuCalls, Refs, Underway
    <3> QED BY <1>1, <3>1, HandleOpen, Zenon DEF EAt
  <2> QED BY <2>1, <2>2, Zenon
<1>10. Asked(t)'
  BY <1>0, <1>1, <1>2, <1>4, <1>9, Zenon DEF Asked, EAt, Shape
<1>11. ASSUME NEW u \in EmuThreads, u # t PROVE Asked(u)'
  BY <1>1, <1>3, <1>11, Zenon DEF Asked, EAt
<1>12. Quiet' /\ Called'
  BY <1>0, <1>1, <1>4, Zenon DEF EmuInv, Quiet, Called, EAt, In
<1> QED BY <1>5, <1>7, <1>8, <1>10, <1>11, <1>12, Zenon DEF EmuInv

(***************************************************************************)
(* A step of a thread that has nothing to do with the device, or has just   *)
(* finished with it.                                                        *)
(***************************************************************************)
Leaves(t) ==
  /\ eth' \in [EmuThreads -> EmuCalls]
  /\ \A u \in EmuThreads : u # t => eth'[u] = eth[u]
  /\ eth[t].at # "wait" /\ eth'[t].at \notin {"wait", "ok", "failed"}
  /\ e_lock' = e_lock \/ (e_lock \in {Nobody, t} /\ e_lock' \in {Nobody, t})
  /\ UNCHANGED <<e_sem, e_result, edev, opened, irq>>

LEMMA Leaves_Inv ==
  ASSUME EmuInv, NEW t \in EmuThreads, Leaves(t), ef_vnodes' \in [Handles -> Int],
         e_lock = t \/ \A h \in Handles : Fresh(h) => Fresh(h)',
         Shape(t)' /\ LastRef(t)',
         \A u \in EmuThreads : u # t => LastRef(u)',
         \A h \in Handles : Owned(h)'
  PROVE  EmuInv'
<1>1. EmuTypeOK'
  BY Zenon DEF Leaves, EmuInv, EmuTypeOK
<1>2. Quiet' /\ Called'
  BY Zenon DEF Leaves, EmuInv, Quiet, Called, EAt, In
<1>3. ASSUME NEW u \in EmuThreads, u # t PROVE Shape(u)' /\ Asked(u)'
  <2>1. eth[u].at \in {"wait", "ok", "failed"} => e_lock' = e_lock
    BY <1>3, HasLock, Zenon DEF Leaves
  <2>2. ASSUME e_lock = t PROVE Asked(u)'
    BY <1>3, <2>2, HasLock, Zenon DEF Leaves, Asked, EAt
  <2>3. ASSUME \A h \in Handles : Fresh(h) => Fresh(h)' PROVE Asked(u)'
    BY <1>3, <2>1, <2>3, Asked_Other, Zenon DEF Leaves
  <2> QED BY <1>3, <2>2, <2>3, Zenon DEF Leaves, EmuInv, Shape
<1>4. Asked(t)'
  BY Zenon DEF Leaves, Asked, EAt
<1> QED BY <1>1, <1>2, <1>3, <1>4, Zenon DEF EmuInv

LEMMA Local_Inv ==
  ASSUME EmuInv, NEW t \in EmuThreads, Leaves(t), SameOwners(t), Shape(t)' /\ LastRef(t)',
         eth[t].op = "close" /\ EAt(t, "ok") => eth[t].handle \in opened
  PROVE  EmuInv'
<1>1. /\ \A h \in Handles : Owned(h)' /\ Underway(h)' = Underway(h)
      /\ \A u \in EmuThreads : u # t => Shape(u)' /\ LastRef(u)'
  BY SameOwners_Inv, Zenon DEF Leaves, EAt
<1>2. \A h \in Handles : Fresh(h) => Fresh(h)'
  BY <1>1, Fresh_Same, Zenon
<1>3. ef_vnodes' \in [Handles -> Int]
  BY Zenon DEF SameOwners, EmuInv, EmuTypeOK
<1> QED BY <1>1, <1>2, <1>3, Leaves_Inv, Zenon

\* Calls, and the steps between two locks.
LEMMA EmuCalls_Inv ==
  ASSUME EmuInv, NEW t \in EmuThreads,
         \/ emufs_lookup(t) \/ emufs_creat(t) \/ emufs_io(t)
         \/ BiglockThen(t, "load", "loading") \/ BiglockThen(t, "reclaim", "reclaiming")
  PROVE  EmuInv'
<1>0. eth \in [EmuThreads -> EmuCalls] /\ Shape(t) /\ LastRef(t) /\ NoHandle \notin Handles /\ EMU_ROOTHANDLE \notin Handles
  BY EmuAssumption DEF EmuInv, EmuTypeOK, NoHandle, EMU_ROOTHANDLE
<1>1. CASE emufs_lookup(t) \/ emufs_creat(t)
  <2>1. /\ eth[t].at = "idle" /\ eth[t].vnode = NoHandle
        /\ UNCHANGED <<e_lock, e_sem, e_result, edev, opened, ef_vnodes, irq>>
    BY <1>1, Zenon DEF emufs_lookup, emufs_creat, EAt
  <2>2. /\ eth' \in [EmuThreads -> EmuCalls] /\ \A u \in EmuThreads : u # t => eth'[u] = eth[u]
        /\ eth'[t].at = "start" /\ eth'[t].op = "open" /\ eth'[t].handle = EMU_ROOTHANDLE /\ eth'[t].vnode = NoHandle
    <3>1. CASE emufs_lookup(t)
      BY <1>0, <2>1, <3>1, ZenonT(60) DEF emufs_lookup, EmuCalls, EmuAt
    <3>2. CASE emufs_creat(t)
      BY <1>0, <2>1, <3>2, ZenonT(60) DEF emufs_creat, EmuCalls, EmuAt
    <3> QED BY <1>1, <3>1, <3>2, Zenon
  <2>3. Leaves(t) /\ SameOwners(t)
    BY <1>0, <2>1, <2>2, Zenon DEF Leaves, SameOwners, Shape
  <2>4. Shape(t)' /\ LastRef(t)'
    BY <2>2, Zenon DEF Shape, LastRef, Reclaims
  <2> QED BY <2>1, <2>3, <2>4, Local_Inv, Zenon DEF EAt
<1>2. CASE emufs_io(t)
  <2>1. /\ eth[t].at = "idle" /\ eth[t].vnode # NoHandle
        /\ UNCHANGED <<e_lock, e_sem, e_result, edev, opened, ef_vnodes, irq>>
    BY <1>2, Zenon DEF emufs_io, EAt
  <2>2. /\ eth' \in [EmuThreads -> EmuCalls] /\ \A u \in EmuThreads : u # t => eth'[u] = eth[u]
        /\ eth'[t].at = "start" /\ eth'[t].op = "io" /\ eth'[t].handle = eth[t].vnode /\ eth'[t].vnode = eth[t].vnode
    BY <1>0, <1>2, <2>1, ZenonT(60) DEF emufs_io, EmuCalls, EmuAt
  <2>3. Leaves(t) /\ SameOwners(t)
    BY <2>1, <2>2, Zenon DEF Leaves, SameOwners
  <2>4. Shape(t)' /\ LastRef(t)'
    BY <2>1, <2>2, Zenon DEF Shape, LastRef, Reclaims
  <2> QED BY <2>1, <2>3, <2>4, Local_Inv, Zenon DEF EAt
<1>3. ASSUME NEW from \in EmuAt, NEW to \in EmuAt, <<from, to>> \in {<<"load", "loading">>, <<"reclaim", "reclaiming">>},
             BiglockThen(t, from, to)
      PROVE  EmuInv'
  <2>1. /\ eth[t].at = from
        /\ UNCHANGED <<e_lock, e_sem, e_result, edev, opened, ef_vnodes, irq>>
    BY <1>3, Zenon DEF BiglockThen, EAt
  <2>2. /\ eth' \in [EmuThreads -> EmuCalls] /\ \A u \in EmuThreads : u # t => eth'[u] = eth[u]
        /\ eth'[t].at = to /\ eth'[t].op = eth[t].op /\ eth'[t].handle = eth[t].handle /\ eth'[t].vnode = eth[t].vnode
    BY <1>0, <1>3, <2>1 DEF BiglockThen, ENow, EmuCalls
  <2>3. Leaves(t) /\ SameOwners(t)
    BY <1>3, <2>1, <2>2, Zenon DEF Leaves, SameOwners
  <2>4. Shape(t)' /\ LastRef(t)'
    BY <1>0, <1>3, <2>1, <2>2, Zenon DEF Shape, LastRef, Reclaims
  <2> QED BY <1>3, <2>1, <2>3, <2>4, Local_Inv, Zenon DEF EAt
<1> QED BY <1>1, <1>2, <1>3, Zenon DEF EmuAt

\* The end of a transfer, or its failure before it starts.
LEMMA EmuIo_Inv ==
  ASSUME EmuInv, NEW t \in EmuThreads, emu_write_fault(t) \/ emu_io_done(t)
  PROVE  EmuInv'
<1>0. eth \in [EmuThreads -> EmuCalls] /\ Shape(t) /\ Asked(t)
  BY Zenon DEF EmuInv, EmuTypeOK
<1>1. /\ eth[t].at \in {"start", "ok", "failed"} /\ eth[t].op = "io"
      /\ e_lock' = e_lock \/ (e_lock = t /\ e_lock' = Nobody)
      /\ UNCHANGED <<e_sem, e_result, edev, opened, ef_vnodes, irq>>
  BY <1>0, Zenon DEF emu_write_fault, emu_io_done, EAt, Asked
<1>2. CASE eth' = [eth EXCEPT ![t] = IdleThread(@.vnode)]
  <2>1. /\ eth' \in [EmuThreads -> EmuCalls] /\ \A u \in EmuThreads : u # t => eth'[u] = eth[u]
        /\ eth'[t].at = "idle" /\ eth'[t].op = "none" /\ eth'[t].handle = NoHandle /\ eth'[t].vnode = eth[t].vnode
    BY <1>0, <1>2 DEF IdleThread, EmuCalls, EmuAt
  <2>2. Leaves(t) /\ SameOwners(t)
    BY <1>0, <1>1, <2>1, Zenon DEF Leaves, SameOwners, Shape
  <2>3. Shape(t)' /\ LastRef(t)'
    BY <2>1, Zenon DEF Shape, LastRef, Reclaims
  <2> QED BY <1>1, <2>2, <2>3, Local_Inv, Zenon
<1>3. CASE ENow(t, "start")
  <2>1. /\ eth' \in [EmuThreads -> EmuCalls] /\ \A u \in EmuThreads : u # t => eth'[u] = eth[u]
        /\ eth'[t].at = "start" /\ eth'[t].op = "io" /\ eth'[t].handle = eth[t].handle /\ eth'[t].vnode = eth[t].vnode
    BY <1>0, <1>1, <1>3, ZenonT(60) DEF ENow, EmuCalls, EmuAt
  <2>2. Leaves(t) /\ SameOwners(t)
    BY <1>1, <2>1, Zenon DEF Leaves, SameOwners
  <2>3. Shape(t)' /\ LastRef(t)'
    BY <1>0, <1>1, <2>1, Zenon DEF Shape, LastRef, Reclaims
  <2> QED BY <1>1, <2>2, <2>3, Local_Inv, Zenon
<1> QED BY <1>2, <1>3, Zenon DEF emu_write_fault, emu_io_done

\* e_sem lets the thread through to the result of its own operation.
LEMMA EmuWaitdone_Inv ==
  ASSUME EmuInv, NEW t \in EmuThreads, emu_waitdone(t)
  PROVE  EmuInv'
<1>0. eth \in [EmuThreads -> EmuCalls] /\ Shape(t) /\ LastRef(t) /\ Asked(t) /\ e_sem \in Int
  BY Zenon DEF EmuInv, EmuTypeOK
<1>1. /\ eth[t].at = "wait" /\ e_sem > 0 /\ e_sem' = e_sem - 1
      /\ UNCHANGED <<e_lock, e_result, edev, opened, ef_vnodes, irq>>
  BY Zenon DEF emu_waitdone, EAt
<1>2. edev.oper = "none" /\ edev.result = "0" /\ e_sem = 1 /\ e_result # "BADHANDLE" /\ e_lock = t
  BY <1>0, <1>1 DEF Asked, EAt, Answer
<1>3. /\ eth' \in [EmuThreads -> EmuCalls] /\ \A u \in EmuThreads : u # t => eth'[u] = eth[u]
      /\ eth'[t].at = (IF e_result = "SUCCESS" THEN "ok" ELSE "failed")
      /\ eth'[t].op = eth[t].op /\ eth'[t].handle = eth[t].handle /\ eth'[t].vnode = eth[t].vnode
  BY <1>0, <1>1, <1>2 DEF emu_waitdone, EmuCalls, EmuAt
<1>4. SameOwners(t)
  BY <1>1, <1>3, Zenon DEF SameOwners
<1>5. eth[t].op = "close" /\ e_result # "SUCCESS" => eth[t].handle \in opened
  BY <1>0, <1>1, <1>2, Zenon DEF Asked, EAt, Answer
<1>6. /\ \A h \in Handles : Owned(h)' /\ Underway(h)' = Underway(h)
      /\ \A u \in EmuThreads : u # t => Shape(u)' /\ LastRef(u)'
  BY <1>1, <1>3, <1>4, <1>5, SameOwners_Inv, Zenon DEF EAt
<1>7. Shape(t)' /\ LastRef(t)'
  BY <1>0, <1>1, <1>3, Zenon DEF Shape, LastRef, Reclaims
<1>8. \A u \in EmuThreads : u # t => eth[u].at \notin {"wait", "ok", "failed"}
  BY <1>2, HasLock, Zenon
<1>9. ASSUME NEW u \in EmuThreads, u # t PROVE Asked(u)'
  BY <1>3, <1>8, <1>9, Zenon DEF Asked, EAt
<1>10. Asked(t)'
  <2>1. eth[t].op = "open" /\ e_result = "SUCCESS" => Fresh(edev.handle)
    BY <1>0, <1>1, <1>2, Zenon DEF Asked, EAt, Answer
  <2>2. Fresh(edev.handle) => Fresh(edev.handle)'
    BY <1>1, <1>4, <1>6, Fresh_Same, Zenon DEF Fresh, EmuInv, EmuTypeOK
  <2> QED BY <1>1, <1>2, <1>3, <2>1, <2>2, Zenon DEF Asked, EAt, Fresh, Underway
<1>11. EmuTypeOK'
  BY <1>0, <1>1, <1>3 DEF EmuInv, EmuTypeOK
<1>12. Quiet' /\ Called'
  BY <1>1, <1>2 DEF EmuInv, Quiet, Called, In
<1> QED BY <1>6, <1>7, <1>9, <1>10, <1>11, <1>12, Zenon DEF EmuInv

\* A handle that a step has nothing to do with keeps its owner.
LEMMA Owned_Same ==
  ASSUME EmuInv, NEW t \in EmuThreads, Leaves(t), NEW h \in Handles, ef_vnodes'[h] = ef_vnodes[h],
         eth'[t].vnode = h <=> eth[t].vnode = h,
         eth'[t].vnode = NoHandle /\ eth'[t].handle = h <=> eth[t].vnode = NoHandle /\ eth[t].handle = h,
         eth[t].op = "close" /\ EAt(t, "ok") => eth[t].handle # h
  PROVE  Owned(h)' /\ (Fresh(h) => Fresh(h)')
<1>1. Refs(h)' = Refs(h) /\ Underway(h)' = Underway(h)
  BY DEF Leaves, Refs, Underway
<1>2. Closing(h) => Closing(h)'
  BY Zenon DEF Leaves, Closing, EAt
<1> QED BY <1>1, <1>2, Zenon DEF Leaves, EmuInv, Owned, Fresh

LEMMA VnodeIncref_Inv ==
  ASSUME EmuInv, NEW t \in EmuThreads, NEW w \in EmuThreads, vnode_incref(t, w)
  PROVE  EmuInv'
<1>0. /\ eth \in [EmuThreads -> EmuCalls] /\ ef_vnodes \in [Handles -> Int]
      /\ Shape(t) /\ Shape(w) /\ NoHandle \notin Handles
  BY EmuAssumption DEF EmuInv, EmuTypeOK, NoHandle
<1>h. PICK h \in Handles : h = eth[w].vnode
  BY <1>0, Zenon DEF vnode_incref, EmuCalls
<1>1. /\ eth[t].at = "idle" /\ eth[w].at = "idle" /\ eth[t].vnode = NoHandle
      /\ ef_vnodes' = [ef_vnodes EXCEPT ![h] = @ + 1]
      /\ UNCHANGED <<e_lock, e_sem, e_result, edev, opened, irq>>
  BY <1>h, Zenon DEF vnode_incref, EAt
<1>2. /\ eth' \in [EmuThreads -> EmuCalls] /\ \A u \in EmuThreads : u # t => eth'[u] = eth[u]
      /\ eth'[t].at = "idle" /\ eth'[t].op = eth[t].op /\ eth'[t].handle = eth[t].handle /\ eth'[t].vnode = h
  BY <1>0, <1>1, <1>h DEF vnode_incref, EmuCalls, EmuAt
<1>3. w \in Refs(h)
  BY <1>h, Zenon DEF Refs
<1>4. Leaves(t)
  BY <1>1, <1>2, Zenon DEF Leaves
<1>5. Shape(t)' /\ LastRef(t)'
  BY <1>0, <1>1, <1>2, Zenon DEF Shape, LastRef, Reclaims
<1>6. /\ IsFiniteSet(Refs(h)) /\ Cardinality(Refs(h)) \in Nat /\ ef_vnodes[h] \in Nat /\ ef_vnodes[h] >= 1
      /\ ef_vnodes[h] = 1 => \A u, v \in Refs(h) : u = v
  BY <1>1, <1>3, CountedRefs, Zenon
<1>7. ASSUME NEW u \in EmuThreads, u # t PROVE LastRef(u)'
  <2>1. Shape(w) /\ LastRef(u)
    BY Zenon DEF EmuInv
  <2>2. ~Reclaims(w)
    BY <1>1, <2>1, Zenon DEF Shape, Reclaims
  <2>3. Reclaims(u) => eth[u].vnode # h
    BY <1>3, <1>6, <2>1, <2>2, <1>1, Zenon DEF LastRef, Refs
  <2>4. Reclaims(u) => eth[u].vnode \in Handles
    <3>1. Shape(u) /\ eth[u] \in EmuCalls
      BY <1>0, Zenon DEF EmuInv
    <3> QED BY <3>1, Zenon DEF Reclaims, Shape, EmuCalls
  <2> QED BY <1>0, <1>1, <1>2, <1>7, <2>1, <2>3, <2>4, Zenon DEF LastRef, Reclaims
<1>8. Owned(h)' /\ ~Fresh(h)
  <2>1. Refs(h)' = Refs(h) \cup {t} /\ Underway(h)' = Underway(h)
    BY <1>0, <1>1, <1>2 DEF Refs, Underway, Shape
  <2>2. Cardinality(Refs(h)') <= Cardinality(Refs(h)) + 1 /\ Cardinality(Refs(h)') \in Nat
    BY <1>6, <2>1, FS_AddElement, SMTT(30)
  <2>3. Closing(h) => Closing(h)'
    BY <1>1, <1>2, Zenon DEF Closing, EAt
  <2>4. ef_vnodes'[h] = ef_vnodes[h] + 1
    BY <1>0, <1>1, Zenon
  <2> QED BY <1>1, <1>6, <2>1, <2>2, <2>3, <2>4 DEF EmuInv, Owned, Fresh
<1>9. ASSUME NEW g \in Handles, g # h PROVE Owned(g)' /\ (Fresh(g) => Fresh(g)')
  BY <1>0, <1>1, <1>2, <1>4, <1>9, Owned_Same, Zenon DEF EAt, Shape
<1> QED BY <1>0, <1>1, <1>4, <1>5, <1>7, <1>8, <1>9, Leaves_Inv

\* The caller drops its reference, or finds that it is the last one.
LEMMA VnodeDecref_Inv ==
  ASSUME EmuInv, NEW t \in EmuThreads, emu_vnode_decref(t)
  PROVE  EmuInv'
<1>0. /\ eth \in [EmuThreads -> EmuCalls] /\ ef_vnodes \in [Handles -> Int]
      /\ Shape(t) /\ NoHandle \notin Handles
  BY EmuAssumption DEF EmuInv, EmuTypeOK, NoHandle
<1>h. PICK h \in Handles : h = eth[t].vnode
  BY <1>0, Zenon DEF emu_vnode_decref, EmuCalls
<1>1. eth[t].at = "idle" /\ eth[t].vnode = h /\ UNCHANGED <<e_lock, e_sem, e_result, edev, opened, irq>>
  BY <1>h, Zenon DEF emu_vnode_decref, EAt
<1>2. t \in Refs(h)
  BY <1>h, Zenon DEF Refs
<1>3. /\ IsFiniteSet(Refs(h)) /\ Cardinality(Refs(h)) \in Nat /\ ef_vnodes[h] \in Nat /\ ef_vnodes[h] >= 1
  BY <1>1, <1>2, CountedRefs, Zenon
<1>4. CASE ef_vnodes[h] > 1
  <2>1. ef_vnodes' = [ef_vnodes EXCEPT ![h] = @ - 1] /\ eth' = [eth EXCEPT ![t] = IdleThread(NoHandle)]
    BY <1>4, <1>h, Zenon DEF emu_vnode_decref
  <2>2. /\ eth' \in [EmuThreads -> EmuCalls] /\ \A u \in EmuThreads : u # t => eth'[u] = eth[u]
        /\ eth'[t].at = "idle" /\ eth'[t].op = "none" /\ eth'[t].handle = NoHandle /\ eth'[t].vnode = NoHandle
    BY <1>0, <2>1 DEF IdleThread, EmuCalls, EmuAt
  <2>3. Leaves(t)
    BY <1>1, <2>2, Zenon DEF Leaves
  <2>4. Shape(t)' /\ LastRef(t)'
    BY <2>2, Zenon DEF Shape, LastRef, Reclaims
  <2>5. ASSUME NEW u \in EmuThreads, u # t PROVE LastRef(u)'
    <3>1. LastRef(u) /\ Shape(u) /\ eth[u] \in EmuCalls
      BY <1>0, Zenon DEF EmuInv
    <3>2. Reclaims(u) => eth[u].vnode # h /\ eth[u].vnode \in Handles
      BY <1>4, <3>1 DEF LastRef, Reclaims, Shape, EmuCalls
    <3> QED BY <1>0, <1>1, <2>1, <2>2, <2>5, <3>1, <3>2, Zenon DEF LastRef, Reclaims
  <2>6. Owned(h)' /\ ~Fresh(h)
    <3>1. Refs(h)' = Refs(h) \ {t} /\ Underway(h)' = Underway(h)
      BY <1>0, <1>1, <2>2, Zenon DEF Refs, Underway, Shape
    <3>2. Cardinality(Refs(h)') = Cardinality(Refs(h)) - 1
      BY <1>2, <1>3, <3>1, FS_RemoveElement, Zenon
    <3>3. Closing(h) => Closing(h)'
      BY <1>1, <2>2, Zenon DEF Closing, EAt
    <3>4. ef_vnodes'[h] = ef_vnodes[h] - 1
      BY <1>0, <1>1, <2>1, Zenon
    <3> QED BY <1>1, <1>3, <1>4, <3>1, <3>2, <3>3, <3>4 DEF EmuInv, Owned, Fresh
  <2>7. ASSUME NEW g \in Handles, g # h PROVE Owned(g)' /\ (Fresh(g) => Fresh(g)')
    BY <1>0, <1>1, <2>1, <2>2, <2>3, <2>7, Owned_Same, Zenon DEF EAt, Shape
  <2>8. ef_vnodes' \in [Handles -> Int]
    BY <1>0, <1>1, <2>1
  <2> QED BY <2>3, <2>4, <2>5, <2>6, <2>7, <2>8, Leaves_Inv, Zenon
<1>5. CASE ~(ef_vnodes[h] > 1)
  <2>1. ENow(t, "reclaim") /\ UNCHANGED ef_vnodes
    BY <1>5, <1>h, Zenon DEF emu_vnode_decref
  <2>2. /\ eth' \in [EmuThreads -> EmuCalls] /\ \A u \in EmuThreads : u # t => eth'[u] = eth[u]
        /\ eth'[t].at = "reclaim" /\ eth'[t].op = eth[t].op /\ eth'[t].handle = eth[t].handle /\ eth'[t].vnode = h
    BY <1>0, <1>1, <2>1 DEF ENow, EmuCalls, EmuAt
  <2>3. Leaves(t) /\ SameOwners(t)
    BY <1>1, <2>1, <2>2, Zenon DEF Leaves, SameOwners
  <2>4. Shape(t)' /\ LastRef(t)'
    BY <1>0, <1>1, <1>3, <1>5, <2>1, <2>2 DEF Shape, LastRef, Reclaims
  <2> QED BY <1>1, <2>3, <2>4, Local_Inv, Zenon DEF EAt
<1> QED BY <1>4, <1>5, Zenon

\* emu_open gives its caller a handle that nobody else has.
LEMMA EmuOpen_Inv ==
  ASSUME EmuInv, NEW t \in EmuThreads, emu_open_done(t)
  PROVE  EmuInv'
<1>0. /\ eth \in [EmuThreads -> EmuCalls] /\ ef_vnodes \in [Handles -> Int]
      /\ Shape(t) /\ Asked(t) /\ NoHandle \notin Handles /\ EMU_ROOTHANDLE \notin Handles
  BY EmuAssumption DEF EmuInv, EmuTypeOK, NoHandle, EMU_ROOTHANDLE
<1>1. /\ eth[t].op = "open" /\ eth[t].at \in {"ok", "failed"} /\ e_lock = t /\ e_lock' = Nobody
      /\ eth[t].handle = EMU_ROOTHANDLE /\ eth[t].vnode = NoHandle
      /\ UNCHANGED <<e_sem, e_result, edev, opened, ef_vnodes, irq>>
  BY <1>0, Zenon DEF emu_open_done, EAt, Shape, Asked
<1>2. CASE EAt(t, "ok")
  <2>1. PICK h \in Handles : h = edev.handle /\ Fresh(h)
    BY <1>0, <1>1, <1>2, Zenon DEF Asked, Fresh, EmuInv, EmuTypeOK
  <2>2. /\ eth' \in [EmuThreads -> EmuCalls] /\ \A u \in EmuThreads : u # t => eth'[u] = eth[u]
        /\ eth'[t].at = "load" /\ eth'[t].op = "open" /\ eth'[t].handle = h /\ eth'[t].vnode = NoHandle
    <3>1. eth[t] \in EmuCalls
      BY <1>0, Zenon
    <3>2. PICK e \in EmuCalls : e = [eth[t] EXCEPT !.at = "load", !.handle = h]
      BY <3>1, Zenon DEF EmuCalls, EmuAt
    <3>3. e.at = "load" /\ e.op = "open" /\ e.handle = h /\ e.vnode = NoHandle
      BY <1>1, <3>1, <3>2, Zenon DEF EmuCalls
    <3>4. eth' = [eth EXCEPT ![t] = e]
      BY <1>2, <2>1, <3>2, Zenon DEF emu_open_done
    <3> QED BY <1>0, <3>3, <3>4, Zenon
  <2>3. Leaves(t)
    BY <1>1, <2>2, Zenon DEF Leaves
  <2>4. Shape(t)' /\ LastRef(t)'
    BY <2>2, Zenon DEF Shape, LastRef, Reclaims
  <2>5. ASSUME NEW u \in EmuThreads, u # t PROVE LastRef(u)'
    BY <1>1, <2>2, <2>5, Zenon DEF EmuInv, LastRef, Reclaims
  <2>6. Owned(h)'
    <3>1. Refs(h)' = Refs(h) /\ Underway(h)' = {t}
      BY <1>0, <1>1, <2>1, <2>2 DEF Refs, Underway, Fresh
    <3> QED BY <1>1, <2>1, <3>1 DEF EmuInv, Owned, Fresh
  <2>7. ASSUME NEW g \in Handles, g # h PROVE Owned(g)'
    BY <1>0, <1>1, <2>2, <2>3, <2>7, Owned_Same, Zenon
  <2> QED BY <1>0, <1>1, <2>3, <2>4, <2>5, <2>6, <2>7, Leaves_Inv, Zenon
<1>3. CASE ~EAt(t, "ok")
  <2>1. /\ eth' \in [EmuThreads -> EmuCalls] /\ \A u \in EmuThreads : u # t => eth'[u] = eth[u]
        /\ eth'[t].at = "idle" /\ eth'[t].op = "none" /\ eth'[t].handle = NoHandle /\ eth'[t].vnode = NoHandle
    BY <1>0, <1>3 DEF emu_open_done, IdleThread, EmuCalls, EmuAt
  <2>2. Leaves(t) /\ SameOwners(t)
    BY <1>0, <1>1, <2>1, Zenon DEF Leaves, SameOwners
  <2>3. Shape(t)' /\ LastRef(t)'
    BY <2>1, Zenon DEF Shape, LastRef, Reclaims
  <2> QED BY <1>1, <2>2, <2>3, Local_Inv, Zenon
<1> QED BY <1>2, <1>3, Zenon

\* The handle goes into a vnode, or is to be closed again.
LEMMA EmuLoad_Inv ==
  ASSUME EmuInv, NEW t \in EmuThreads, emufs_loadvnode(t)
  PROVE  EmuInv'
<1>0. /\ eth \in [EmuThreads -> EmuCalls] /\ ef_vnodes \in [Handles -> Int]
      /\ Shape(t) /\ NoHandle \notin Handles
  BY EmuAssumption DEF EmuInv, EmuTypeOK, NoHandle
<1>1. /\ eth[t].at = "loading" /\ eth[t].op = "open" /\ eth[t].vnode = NoHandle
      /\ UNCHANGED <<e_lock, e_sem, e_result, edev, opened, irq>>
  BY <1>0, Zenon DEF emufs_loadvnode, EAt, Shape
<1>h. PICK h \in Handles : h = eth[t].handle
  BY <1>0, <1>1, Zenon DEF Shape
<1>2. t \in Underway(h)
  BY <1>1, <1>h, Zenon DEF Underway
<1>3. ef_vnodes[h] = 0 /\ Refs(h) = {} /\ \A u \in Underway(h) : u = t
  <2>1. ef_vnodes[h] \in Nat /\ \A u \in Refs(h) : ef_vnodes[h] >= 1
    BY CountedRefs, Zenon
  <2>2. ~(ef_vnodes[h] > 0)
    BY <1>2, Zenon DEF EmuInv, Owned
  <2> QED BY <1>2, <2>1, <2>2 DEF EmuInv, Owned
<1>4. CASE ef_vnodes' = [ef_vnodes EXCEPT ![h] = @ + 1] /\ eth' = [eth EXCEPT ![t] = IdleThread(h)]
  <2>1. /\ eth' \in [EmuThreads -> EmuCalls] /\ \A u \in EmuThreads : u # t => eth'[u] = eth[u]
        /\ eth'[t].at = "idle" /\ eth'[t].op = "none" /\ eth'[t].handle = NoHandle /\ eth'[t].vnode = h
    BY <1>0, <1>4 DEF IdleThread, EmuCalls, EmuAt
  <2>2. Leaves(t)
    BY <1>1, <2>1, Zenon DEF Leaves
  <2>3. Shape(t)' /\ LastRef(t)'
    BY <2>1, Zenon DEF Shape, LastRef, Reclaims
  <2>4. ASSUME NEW u \in EmuThreads, u # t PROVE LastRef(u)'
    <3>1. LastRef(u) /\ Shape(u) /\ eth[u] \in EmuCalls
      BY <1>0, Zenon DEF EmuInv
    <3>2. Reclaims(u) => eth[u].vnode # h /\ eth[u].vnode \in Handles
      BY <1>3, <3>1 DEF LastRef, Reclaims, Shape, EmuCalls
    <3> QED BY <1>0, <1>4, <2>1, <2>4, <3>1, <3>2, Zenon DEF LastRef, Reclaims
  <2>5. Owned(h)' /\ ~Fresh(h)
    <3>1. Refs(h)' = {t} /\ Underway(h)' = {}
      BY <1>0, <1>3, <2>1 DEF Refs, Underway
    <3>2. ef_vnodes'[h] = 1
      BY <1>0, <1>3, <1>4
    <3>3. h \in opened
      BY <1>1, <1>2, HandleOpen, Zenon
    <3>4. Cardinality({t}) = 1
      BY FS_Singleton, Zenon
    <3> QED BY <1>1, <1>2, <3>1, <3>2, <3>3, <3>4 DEF Owned, Fresh
  <2>6. ASSUME NEW g \in Handles, g # h PROVE Owned(g)' /\ (Fresh(g) => Fresh(g)')
    BY <1>0, <1>1, <1>h, <1>4, <2>1, <2>2, <2>6, Owned_Same, Zenon
  <2>7. ef_vnodes' \in [Handles -> Int]
    BY <1>0, <1>4
  <2> QED BY <2>2, <2>3, <2>4, <2>5, <2>6, <2>7, Leaves_Inv, Zenon
<1>5. CASE eth' = [eth EXCEPT ![t] = [@ EXCEPT !.at = "start", !.op = "close"]] /\ UNCHANGED ef_vnodes
  <2>1. /\ eth' \in [EmuThreads -> EmuCalls] /\ \A u \in EmuThreads : u # t => eth'[u] = eth[u]
        /\ eth'[t].at = "start" /\ eth'[t].op = "close" /\ eth'[t].handle = h /\ eth'[t].vnode = NoHandle
    <3>1. eth[t] \in EmuCalls
      BY <1>0, Zenon
    <3>2. PICK e \in EmuCalls : e = [eth[t] EXCEPT !.at = "start", !.op = "close"]
      BY <3>1, Zenon DEF EmuCalls, EmuAt
    <3>3. e.at = "start" /\ e.op = "close" /\ e.handle = h /\ e.vnode = NoHandle
      BY <1>1, <1>h, <3>1, <3>2, Zenon DEF EmuCalls
    <3> QED BY <1>0, <1>5, <3>2, <3>3, Zenon
  <2>2. Leaves(t) /\ SameOwners(t)
    BY <1>1, <1>h, <1>5, <2>1, Zenon DEF Leaves, SameOwners
  <2>3. Shape(t)' /\ LastRef(t)'
    BY <2>1, Zenon DEF Shape, LastRef, Reclaims
  <2> QED BY <1>1, <2>2, <2>3, Local_Inv, Zenon
<1> QED BY <1>h, <1>4, <1>5, Zenon DEF emufs_loadvnode

\* The last reference goes: the handle is to be closed, with e_lock held.
LEMMA EmuReclaim_Inv ==
  ASSUME EmuInv, NEW t \in EmuThreads, emufs_reclaim(t)
  PROVE  EmuInv'
<1>0. /\ eth \in [EmuThreads -> EmuCalls] /\ Shape(t) /\ LastRef(t) /\ NoHandle \notin Handles
  BY EmuAssumption DEF EmuInv, EmuTypeOK, NoHandle
<1>1. eth[t].at = "reclaiming" /\ e_lock = Nobody /\ UNCHANGED <<e_sem, e_result, edev, opened, irq>>
  BY Zenon DEF emufs_reclaim, EAt
<1>h. PICK h \in Handles : h = eth[t].vnode
  BY <1>0, <1>1, Zenon DEF Shape, EmuCalls
<1>2. ef_vnodes[h] = 1
  BY <1>0, <1>1, <1>h, Zenon DEF LastRef, Reclaims
<1>3. /\ e_lock' = t /\ UNCHANGED ef_vnodes
      /\ eth' = [eth EXCEPT ![t] = [@ EXCEPT !.at = "start", !.op = "close", !.handle = h, !.big = 1]]
  BY <1>h, <1>2 DEF emufs_reclaim
<1>4. /\ eth' \in [EmuThreads -> EmuCalls] /\ \A u \in EmuThreads : u # t => eth'[u] = eth[u]
      /\ eth'[t].at = "start" /\ eth'[t].op = "close" /\ eth'[t].handle = h /\ eth'[t].vnode = h
  <2>1. eth[t] \in EmuCalls
    BY <1>0, Zenon
  <2>2. PICK e \in EmuCalls : e = [eth[t] EXCEPT !.at = "start", !.op = "close", !.handle = h, !.big = 1]
    BY <2>1, Zenon DEF EmuCalls, EmuAt
  <2>3. e.at = "start" /\ e.op = "close" /\ e.handle = h /\ e.vnode = h
    BY <1>h, <2>1, <2>2, Zenon DEF EmuCalls
  <2> QED BY <1>0, <1>3, <2>2, <2>3, Zenon
<1>5. Leaves(t) /\ SameOwners(t)
  BY <1>0, <1>1, <1>h, <1>3, <1>4, Zenon DEF Leaves, SameOwners
<1>6. Shape(t)' /\ LastRef(t)'
  BY <1>2, <1>3, <1>4, Zenon DEF Shape, LastRef, Reclaims
<1> QED BY <1>1, <1>5, <1>6, Local_Inv, Zenon DEF EAt

\* The handle is closed and its vnode gone; or it is tried again, or the handle given up.
LEMMA EmuClose_Inv ==
  ASSUME EmuInv, NEW t \in EmuThreads, emu_close_done(t)
  PROVE  EmuInv'
<1>0. /\ eth \in [EmuThreads -> EmuCalls] /\ ef_vnodes \in [Handles -> Int]
      /\ Shape(t) /\ LastRef(t) /\ Asked(t) /\ NoHandle \notin Handles
  BY EmuAssumption DEF EmuInv, EmuTypeOK, NoHandle
<1>1. /\ eth[t].op = "close" /\ eth[t].at \in {"ok", "failed"} /\ e_lock = t
      /\ UNCHANGED <<e_sem, e_result, edev, opened, irq>>
  BY <1>0, Zenon DEF emu_close_done, EAt, Asked
<1>h. PICK h \in Handles : h = eth[t].handle /\ eth[t].vnode \in {h, NoHandle}
  BY <1>0, <1>1, Zenon DEF Shape
<1>2. CASE EAt(t, "failed") /\ eth[t].retries < EMU_RETRIES
  <2>1. /\ eth' = [eth EXCEPT ![t] = [@ EXCEPT !.at = "start", !.retries = eth[t].retries + 1]]
        /\ UNCHANGED <<e_lock, ef_vnodes>>
    BY <1>2, Zenon DEF emu_close_done
  <2>2. /\ eth' \in [EmuThreads -> EmuCalls] /\ \A u \in EmuThreads : u # t => eth'[u] = eth[u]
        /\ eth'[t].at = "start" /\ eth'[t].op = "close" /\ eth'[t].handle = h /\ eth'[t].vnode = eth[t].vnode
    <3>1. eth[t] \in EmuCalls
      BY <1>0, Zenon
    <3>r. PICK r \in Int : r = eth[t].retries + 1
      BY <3>1 DEF EmuCalls
    <3>2. PICK e \in EmuCalls : e = [eth[t] EXCEPT !.at = "start", !.retries = r]
      BY <3>1, Zenon DEF EmuCalls, EmuAt
    <3>3. e.at = "start" /\ e.op = "close" /\ e.handle = h /\ e.vnode = eth[t].vnode
      BY <1>1, <1>h, <3>1, <3>2, Zenon DEF EmuCalls
    <3>4. eth' = [eth EXCEPT ![t] = e]
      BY <2>1, <3>r, <3>2, Zenon
    <3> QED BY <1>0, <3>3, <3>4, Zenon
  <2>3. Leaves(t) /\ SameOwners(t)
    BY <1>1, <1>h, <2>1, <2>2, Zenon DEF Leaves, SameOwners
  <2>4. Shape(t)' /\ LastRef(t)'
    BY <1>0, <1>1, <1>h, <2>1, <2>2, Zenon DEF Shape, LastRef, Reclaims
  <2> QED BY <1>2, <2>3, <2>4, Local_Inv, Zenon DEF EAt
<1>3. CASE ~(EAt(t, "failed") /\ eth[t].retries < EMU_RETRIES)
  <2>1. /\ ef_vnodes' = IF EAt(t, "ok") /\ eth[t].vnode # NoHandle THEN [ef_vnodes EXCEPT ![eth[t].vnode] = 0] ELSE ef_vnodes
        /\ e_lock' = Nobody /\ eth' = [eth EXCEPT ![t] = IdleThread(NoHandle)]
    BY <1>3, Zenon DEF emu_close_done
  <2>2. /\ eth' \in [EmuThreads -> EmuCalls] /\ \A u \in EmuThreads : u # t => eth'[u] = eth[u]
        /\ eth'[t].at = "idle" /\ eth'[t].op = "none" /\ eth'[t].handle = NoHandle /\ eth'[t].vnode = NoHandle
    BY <1>0, <2>1 DEF IdleThread, EmuCalls, EmuAt
  <2>3. ef_vnodes' \in [Handles -> Int] /\ \A g \in Handles : g # h => ef_vnodes'[g] = ef_vnodes[g]
    BY <1>0, <1>h, <2>1
  <2>4. Leaves(t)
    BY <1>1, <2>1, <2>2, Zenon DEF Leaves
  <2>5. Shape(t)' /\ LastRef(t)'
    BY <2>2, Zenon DEF Shape, LastRef, Reclaims
  <2>6. \A u \in EmuThreads : u # t => u \notin Refs(h) /\ u \notin Underway(h)
    BY <1>1, <1>h, SoleCloser, Zenon
  <2>7. ASSUME NEW u \in EmuThreads, u # t PROVE LastRef(u)'
    <3>1. LastRef(u) /\ Shape(u) /\ eth[u] \in EmuCalls
      BY <1>0, Zenon DEF EmuInv
    <3>2. Reclaims(u) => eth[u].vnode # h /\ eth[u].vnode \in Handles
      BY <2>6, <2>7, <3>1, Zenon DEF Reclaims, Shape, EmuCalls, Refs
    <3> QED BY <2>2, <2>3, <2>7, <3>1, <3>2, Zenon DEF LastRef, Reclaims
  <2>8. Owned(h)'
    <3>1. Refs(h)' = {} /\ Underway(h)' = {}
      BY <1>0, <2>2, <2>6, Zenon DEF Refs, Underway
    <3>2. Cardinality({}) = 0
      BY FS_EmptySet, Zenon
    <3>3. ef_vnodes[h] \in Nat
      BY CountedRefs, Zenon
    <3>4. CASE eth[t].vnode = NoHandle
      <4>1. t \in Underway(h)
        BY <1>h, <3>4, Zenon DEF Underway
      <4>2. ef_vnodes[h] = 0 /\ ef_vnodes'[h] = 0
        BY <2>1, <3>3, <3>4, <4>1 DEF EmuInv, Owned
      <4> QED BY <3>1, <3>2, <4>2 DEF Owned
    <3>5. CASE eth[t].vnode = h /\ EAt(t, "ok")
      <4>1. ef_vnodes'[h] = 0
        BY <1>0, <2>1, <3>5, Zenon
      <4> QED BY <3>1, <3>2, <4>1 DEF Owned
    <3>6. CASE eth[t].vnode = h /\ eth[t].at = "failed"
      <4>1. t \in Refs(h)
        BY <3>6, Zenon DEF Refs
      <4>2. h \in opened
        BY <3>6, <4>1, HandleOpen, Zenon DEF EAt
      <4>3. ef_vnodes'[h] = ef_vnodes[h]
        BY <2>1, <3>6, Zenon DEF EAt
      <4> QED BY <1>1, <3>1, <3>2, <3>3, <4>2, <4>3 DEF Owned
    <3> QED BY <1>1, <1>h, <3>4, <3>5, <3>6, Zenon DEF EAt
  <2>9. ASSUME NEW g \in Handles, g # h PROVE Owned(g)'
    BY <1>0, <1>h, <2>2, <2>3, <2>4, <2>9, Owned_Same, Zenon
  <2> QED BY <1>1, <2>3, <2>4, <2>5, <2>7, <2>8, <2>9, Leaves_Inv, Zenon
<1> QED BY <1>2, <1>3, Zenon

\* The device answers the thread that waits; a handle it gives out is fresh.
LEMMA EmuDevice_Inv ==
  ASSUME EmuInv, EmuDevice
  PROVE  EmuInv'
<1>0. UNCHANGED <<e_lock, e_sem, e_result, ef_vnodes, eth, irq>> /\ edev.oper # "none"
  BY Zenon DEF EmuDevice
<1>t. PICK t \in EmuThreads : eth[t].at = "wait"
  BY <1>0, Zenon DEF EmuInv, Quiet, EAt
<1>1. /\ e_lock = t /\ edev.by = t /\ e_sem = 0 /\ edev.oper = eth[t].op /\ edev.handle = eth[t].handle
      /\ edev.handle \in opened \cup {EMU_ROOTHANDLE} /\ Shape(t)
  BY <1>0, <1>t, Zenon DEF EmuInv, Asked, EAt
<1>2. \A u \in EmuThreads : u # t => eth[u].at \notin {"wait", "ok", "failed"}
  BY <1>1, HasLock, Zenon
<1> DEFINE free == Handles \ opened
           m == Min(free)
<1>3. PICK r \in {"SUCCESS", "MEDIA", "NOHANDLES"} :
        /\ edev.oper = "open" /\ r = "SUCCESS" => free # {}
        /\ opened' = IF r = "SUCCESS" /\ edev.oper = "open" THEN opened \cup {m}
                     ELSE IF r = "SUCCESS" /\ edev.oper = "close" THEN opened \ {edev.handle} ELSE opened
        /\ edev' = [edev EXCEPT !.oper = "none", !.result = r,
                                !.handle = IF r = "SUCCESS" /\ edev.oper = "open" THEN m ELSE @]
  BY <1>1, Zenon DEF EmuDevice
<1>4. free # {} => m \in free
  BY MinIn, EmuAssumption, Zenon
<1> HIDE DEF m
<1>5. /\ EmuTypeOK' /\ edev'.oper = "none" /\ edev'.result = r /\ edev'.by = t
      /\ r = "SUCCESS" /\ edev.oper = "open" => edev'.handle = m
  BY <1>0, <1>1, <1>3, <1>4, Zenon DEF EmuInv, EmuTypeOK
<1>6. Quiet' /\ Called'
  BY <1>0, <1>t, <1>3, <1>5, Zenon DEF Quiet, Called, EAt
<1>7. ASSUME NEW u \in EmuThreads PROVE Shape(u)' /\ LastRef(u)'
  BY <1>0, Zenon DEF EmuInv, Shape, LastRef, Reclaims
<1>8. ASSUME NEW h \in Handles
      PROVE  Refs(h)' = Refs(h) /\ Underway(h)' = Underway(h) /\ Closing(h)' = Closing(h)
  BY <1>0, Zenon DEF Refs, Underway, Closing, EAt
<1>9. ASSUME NEW h \in Handles PROVE Owned(h)'
  <2>1. h \in opened => h \in opened' \/ Closing(h)
    BY <1>t, <1>1, <1>3, Zenon DEF Closing, EAt
  <2> QED BY <1>0, <1>8, <2>1, Zenon DEF EmuInv, Owned
<1>10. ASSUME NEW u \in EmuThreads, u # t PROVE Asked(u)'
  BY <1>0, <1>2, <1>10, Zenon DEF Asked, EAt
<1>11. ASSUME eth[t].op = "open", r = "SUCCESS" PROVE Fresh(edev.handle)'
  <2>1. PICK k \in Handles \ opened : k = m
    BY <1>1, <1>3, <1>4, <1>11, Zenon
  <2>2. ~Closing(k)
    BY <1>2, <1>11, Zenon DEF Closing, EAt
  <2>3. ef_vnodes[k] \in Nat
    BY CountedRefs, Zenon
  <2>4. ef_vnodes[k] = 0 /\ Underway(k) = {}
    BY <2>2, <2>3 DEF EmuInv, Owned
  <2>5. Fresh(k)'
    BY <1>0, <1>1, <1>3, <1>8, <1>11, <2>1, <2>4, Zenon DEF Fresh
  <2>6. edev'.handle = k
    BY <1>1, <1>5, <1>11, <2>1, Zenon
  <2> QED BY <2>5, <2>6, Zenon DEF Fresh, Underway
<1>12. eth[t].op = "close" /\ r # "SUCCESS" => eth[t].handle \in opened'
  BY <1>t, <1>1, <1>3, EmuAssumption, Zenon DEF Shape
<1>13. Asked(t)'
  BY <1>0, <1>t, <1>1, <1>3, <1>5, <1>11, <1>12, Zenon DEF Asked, EAt, Answer
<1> QED BY <1>5, <1>6, <1>7, <1>9, <1>10, <1>13, Zenon DEF EmuInv

\* The handler hands the device's answer over and raises e_sem.
LEMMA EmuIrq_Inv ==
  ASSUME EmuInv, emu_irq
  PROVE  EmuInv'
<1>0. /\ UNCHANGED <<e_lock, opened, ef_vnodes, eth>> /\ e_result' = edev.result /\ e_sem' = e_sem + 1
      /\ edev.result # "0" /\ irq'.at = "next"
      /\ edev'.result = "0" /\ edev'.oper = edev.oper /\ edev'.handle = edev.handle /\ edev'.by = edev.by
      /\ edev' \in [oper : {"none", "open", "io", "close"}, handle : Handles \cup {EMU_ROOTHANDLE, NoHandle},
                    result : {"0", "BADHANDLE", "NOHANDLES", "SUCCESS", "MEDIA"}, by : EmuThreads \cup {Nobody}]
  BY Zenon DEF emu_irq, EmuInv, EmuTypeOK, Called, In, GoTo
<1>t. PICK t \in EmuThreads : eth[t].at = "wait"
  BY <1>0, Zenon DEF EmuInv, Quiet, EAt
<1>1. e_lock = t /\ e_sem = 0 /\ edev.oper = "none"
  BY <1>0, <1>t, Zenon DEF EmuInv, Asked, EAt
<1>2. \A u \in EmuThreads : u # t => eth[u].at \notin {"wait", "ok", "failed"}
  BY <1>1, HasLock, Zenon
<1>3. EmuTypeOK' /\ Quiet' /\ Called'
  BY <1>0, <1>t, <1>1 DEF EmuInv, EmuTypeOK, Quiet, Called, EAt, In
<1>4. ASSUME NEW u \in EmuThreads PROVE Shape(u)' /\ LastRef(u)'
  BY <1>0, Zenon DEF EmuInv, Shape, LastRef, Reclaims
<1>5. ASSUME NEW h \in Handles PROVE Owned(h)'
  BY <1>0 DEF EmuInv, Owned, Refs, Underway, Closing, EAt
<1>6. ASSUME NEW u \in EmuThreads, u # t PROVE Asked(u)'
  BY <1>0, <1>2, <1>6, Zenon DEF Asked, EAt
<1>7. Asked(t)'
  <2>1. Answer' = Answer
    BY <1>0, Zenon DEF Answer
  <2>2. Fresh(edev.handle)' = Fresh(edev.handle)
    BY <1>0 DEF Fresh, Underway
  <2> QED BY <1>0, <1>t, <1>1, <2>1, <2>2 DEF EmuInv, Asked, EAt
<1> QED BY <1>3, <1>4, <1>5, <1>6, <1>7, Zenon DEF EmuInv

LEMMA EmuRest_Inv ==
  ASSUME EmuInv, UNCHANGED evars, In(EmuSlot, "call")' => In(EmuSlot, "call") \/ EmuIrq
  PROVE  EmuInv'
<1>1. UNCHANGED <<e_lock, e_sem, e_result, edev, opened, ef_vnodes, eth>>
  BY Zenon DEF evars
<1>2. EmuTypeOK' /\ Quiet' /\ Called'
  BY <1>1 DEF EmuInv, EmuTypeOK, Quiet, Called, EAt, EmuIrq
<1>3. ASSUME NEW t \in EmuThreads PROVE Shape(t)' /\ LastRef(t)' /\ Asked(t)'
  BY <1>1, Zenon DEF EmuInv, Shape, LastRef, Reclaims, Asked, EAt, Answer, Fresh, Underway
<1>4. ASSUME NEW h \in Handles PROVE Owned(h)'
  BY <1>1 DEF EmuInv, Owned, Refs, Underway, Closing, EAt
<1> QED BY <1>2, <1>3, <1>4, Zenon DEF EmuInv

=============================================================================
