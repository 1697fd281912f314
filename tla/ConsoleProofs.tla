--------------------------- MODULE ConsoleProofs ----------------------------
(***************************************************************************)
(* Proofs about the console and its serial port, for any number of threads, *)
(* any length of output, any size of the input ring and whatever else       *)
(* happens on the bus: the port is written to in turn, and the input ring   *)
(* is exact.  First the types of the console's state, then who holds        *)
(* ls_lock, then that the right to write is in one place at a time; last    *)
(* the ring, which readers and the interrupt handler share without a lock:  *)
(* it is exact until kgets has read at the same time as somebody else.      *)
(***************************************************************************)
EXTENDS Machine, TLAPS

Places == {"idle", "loop", "putch", "send", "panic", "polled", "poll", "polled_send", "poll_sent",
           "getch", "got", "tail", "read"}
Locks == {"read", "write", "kprintf", "kspin", "ls"}
Users == [at : Places, lock : {"read", "write", "kprintf", "none"}, left : Int, puts : Int, ch : Int,
          tail : 0..(N - 1), pending : BOOLEAN]
Port == [sending : BOOLEAN, lost : BOOLEAN, rchar : Int, wactive : BOOLEAN, wforce : BOOLEAN, wenable : BOOLEAN,
         ractive : BOOLEAN]
Ring == [wsem : Int, rsem : Int, head : 0..(N - 1), tail : 0..(N - 1), got : [0..(N - 1) -> Int]]

ConsoleTypeOK ==
  /\ con \in Ring
  /\ locks \in [Locks -> Threads \cup {NULL}]
  /\ ls_wbusy \in BOOLEAN
  /\ ser \in Port
  /\ found \in [start : BOOLEAN, input : BOOLEAN, ch : Int]
  /\ cth \in [Threads -> Users]
  /\ keys \in Int
  /\ input \in Seq(Int)
  /\ taken \in Int

LEMMA Console_InitTyped == Init => ConsoleTypeOK
<1> SUFFICES ASSUME Init PROVE ConsoleTypeOK
  OBVIOUS
<1>1. 0 \in 0..(N - 1) /\ 0 \in Int
  BY BufferAssumption DEF N
<1>2. con \in Ring
  BY <1>1 DEF Init, ConsoleInit, Ring
<1>3. cth \in [Threads -> Users]
  BY <1>1, Zenon DEF Init, ConsoleInit, Users, Places
<1>4. ser \in Port /\ found \in [start : BOOLEAN, input : BOOLEAN, ch : Int]
  BY <1>1, Zenon DEF Init, ConsoleInit, Port
<1>5. locks \in [Locks -> Threads \cup {NULL}]
  BY Zenon DEF Init, ConsoleInit, Locks
<1>6. keys \in Int /\ taken \in Int /\ ls_wbusy \in BOOLEAN
  BY <1>1, Zenon DEF Init, ConsoleInit
<1>7. input = <<>>
  BY Zenon DEF Init, ConsoleInit
<1> QED BY <1>2, <1>3, <1>4, <1>5, <1>6, <1>7 DEF ConsoleTypeOK

\* A step to another place in the code.
LEMMA Move_Typed ==
  ASSUME cth \in [Threads -> Users], NEW t \in Threads, NEW p \in Places, Move(t, p)
  PROVE  cth' \in [Threads -> Users]
BY DEF Move, Users

LEMMA BeginRead_Typed ==
  ASSUME cth \in [Threads -> Users], NEW t \in Threads, NEW l \in {"read", "none"}, BeginRead(t, l)
  PROVE  cth' \in [Threads -> Users]
<1>1. cth[t] \in Users
  BY Zenon
<1>2. [cth[t] EXCEPT !.at = "getch", !.lock = l] \in Users
  BY <1>1, Zenon DEF Users, Places
<1> QED BY <1>2, Zenon DEF BeginRead

\* A call takes its lock.
LEMMA ConsoleCall_Typed ==
  ASSUME ConsoleTypeOK, NEW t \in Threads, ConsoleCall(t)
  PROVE  ConsoleTypeOK'
<1>0. cth \in [Threads -> Users] /\ cth[t] \in Users
  BY Zenon DEF ConsoleTypeOK
<1>1. ASSUME NEW l \in {"write", "kprintf"}, OutputCall(t, l) PROVE ConsoleTypeOK'
  <2>1. PICK n \in 1..MaxOut : cth' = [cth EXCEPT ![t] = [@ EXCEPT !.at = "loop", !.lock = l, !.left = n]]
    BY <1>1, Zenon DEF OutputCall
  <2>2. [cth[t] EXCEPT !.at = "loop", !.lock = l, !.left = n] \in Users
    <3>1. n \in Int
      OBVIOUS
    <3> QED BY <1>0, <1>1, <3>1, Zenon DEF Users, Places
  <2>3. cth' \in [Threads -> Users]
    BY <1>0, <2>1, <2>2, Zenon
  <2> QED BY <1>1, <2>3, Zenon DEF ConsoleTypeOK, OutputCall, Take, NoInput, Locks
<1>2. CASE kprintf_polled(t)
  <2>1. PICK n \in 1..MaxOut : cth' = [cth EXCEPT ![t] = [@ EXCEPT !.at = "polled", !.left = n]]
    BY <1>2, Zenon DEF kprintf_polled
  <2>2. [cth[t] EXCEPT !.at = "polled", !.left = n] \in Users
    <3>1. n \in Int
      OBVIOUS
    <3> QED BY <1>0, <3>1, ZenonT(60) DEF Users, Places
  <2>3. cth' \in [Threads -> Users]
    BY <1>0, <2>1, <2>2, Zenon
  <2> QED BY <1>2, <2>3, Zenon DEF ConsoleTypeOK, kprintf_polled, Take, NoInput, Locks
<1>3. CASE con_io_read(t)
  <2>1. cth' \in [Threads -> Users]
    BY <1>0, <1>3, BeginRead_Typed, Zenon DEF con_io_read
  <2> QED BY <1>3, <2>1, Zenon DEF ConsoleTypeOK, con_io_read, BeginRead, Take, Locks
<1>4. CASE kgets(t)
  <2>1. cth' \in [Threads -> Users]
    BY <1>0, <1>4, BeginRead_Typed, Zenon DEF kgets
  <2> QED BY <1>4, <2>1, Zenon DEF ConsoleTypeOK, kgets, BeginRead
<1> QED BY <1>1, <1>2, <1>3, <1>4, Zenon DEF ConsoleCall, con_io_write, kprintf

LEMMA ConsoleOutput_Typed ==
  ASSUME ConsoleTypeOK, NEW t \in Threads, OutputLoop(t) \/ putch_intr(t) \/ lser_write(t)
  PROVE  ConsoleTypeOK'
<1>0. cth \in [Threads -> Users] /\ cth[t] \in Users /\ con \in Ring /\ ser \in Port
  BY Zenon DEF ConsoleTypeOK
<1>1. CASE OutputLoop(t)
  <2>1. cth' \in [Threads -> Users]
    <3>1. ASSUME NEW n \in {1, 2},
                 cth' = [cth EXCEPT ![t] = [@ EXCEPT !.at = "putch", !.left = cth[t].left - 1, !.puts = n]]
          PROVE  cth' \in [Threads -> Users]
      <4>1. cth[t].left - 1 \in Int /\ n \in Int
        BY <1>0 DEF Users
      <4> DEFINE r == [cth[t] EXCEPT !.at = "putch", !.left = cth[t].left - 1, !.puts = n]
      <4>2. r \in Users
        BY <1>0, <4>1, Zenon DEF Users, Places
      <4>3. cth' = [cth EXCEPT ![t] = r]
        BY <3>1, Zenon
      <4> HIDE DEF r
      <4> QED BY <1>0, <4>2, <4>3, Zenon
    <3>2. ASSUME cth' = [cth EXCEPT ![t] = [@ EXCEPT !.at = "idle", !.lock = "none", !.left = 0]]
          PROVE  cth' \in [Threads -> Users]
      <4>1. 0 \in Int
        OBVIOUS
      <4>2. [cth[t] EXCEPT !.at = "idle", !.lock = "none", !.left = 0] \in Users
        BY <1>0, <4>1, Zenon DEF Users, Places
      <4> QED BY <1>0, <3>2, <4>2, Zenon
    <3> QED BY <1>1, <3>1, <3>2, Zenon DEF OutputLoop
  <2>2. locks' \in [Locks -> Threads \cup {NULL}]
    BY <1>1, Zenon DEF ConsoleTypeOK, OutputLoop, Give
  <2> QED BY <1>1, <2>1, <2>2, Zenon DEF ConsoleTypeOK, OutputLoop, NoInput
<1>2. CASE putch_intr(t)
  <2>1. con' \in Ring
    BY <1>0, <1>2 DEF putch_intr, Ring
  <2>2. cth' \in [Threads -> Users]
    BY <1>0, <1>2, Move_Typed, Zenon DEF putch_intr, Places
  <2> QED BY <1>2, <2>1, <2>2, Zenon DEF ConsoleTypeOK, putch_intr, NoInput
<1>3. CASE lser_write(t)
  <2>1. cth' \in [Threads -> Users]
    <3>1. CASE Move(t, "panic")
      BY <1>0, <3>1, Move_Typed, Zenon DEF Places
    <3>2. CASE cth' = [cth EXCEPT ![t] = [@ EXCEPT !.at = IF cth[t].puts = 1 THEN "loop" ELSE "putch", !.puts = cth[t].puts - 1]]
      <4>1. cth[t].puts - 1 \in Int
        BY <1>0 DEF Users
      <4> DEFINE r == [cth[t] EXCEPT !.at = IF cth[t].puts = 1 THEN "loop" ELSE "putch", !.puts = cth[t].puts - 1]
      <4>2. r \in Users
        BY <1>0, <4>1, Zenon DEF Users, Places
      <4>3. cth' = [cth EXCEPT ![t] = r]
        BY <3>2, Zenon
      <4> HIDE DEF r
      <4> QED BY <1>0, <4>2, <4>3, Zenon
    <3> QED BY <1>3, <3>1, <3>2, Zenon DEF lser_write
  <2>2. ser' \in Port
    BY <1>0, <1>3, Zenon DEF lser_write, WriteChar, Port
  <2> QED BY <1>3, <2>1, <2>2, Zenon DEF ConsoleTypeOK, lser_write, NoInput
<1> QED BY <1>1, <1>2, <1>3, Zenon

LEMMA ConsolePolled_Typed ==
  ASSUME ConsoleTypeOK, NEW t \in Threads,
         \/ lser_writepolled(t) \/ lser_poll_until_write(t) \/ lser_writepolled_send(t)
         \/ lser_writepolled_done(t) \/ kprintf_polled_done(t)
  PROVE  ConsoleTypeOK'
<1>0. cth \in [Threads -> Users] /\ cth[t] \in Users /\ ser \in Port /\ ls_wbusy \in BOOLEAN
  BY Zenon DEF ConsoleTypeOK
<1>1. CASE lser_writepolled(t)
  <2>1. cth' \in [Threads -> Users]
    BY <1>0, <1>1, Zenon DEF lser_writepolled, Users, Places
  <2>2. ser' \in Port
    BY <1>0, <1>1, Zenon DEF lser_writepolled, WriteWirq, Port
  <2> QED BY <1>1, <2>1, <2>2, Zenon DEF ConsoleTypeOK, lser_writepolled, Take, NoInput
<1>2. CASE lser_poll_until_write(t)
  <2>1. cth' \in [Threads -> Users]
    BY <1>0, <1>2, Move_Typed, Zenon DEF lser_poll_until_write, Places
  <2>2. ser' \in Port
    BY <1>0, <1>2, Zenon DEF lser_poll_until_write, WriteWirq, Port
  <2> QED BY <1>2, <2>1, <2>2, Zenon DEF ConsoleTypeOK, lser_poll_until_write, NoInput
<1>3. CASE lser_writepolled_send(t)
  <2>1. cth' \in [Threads -> Users]
    BY <1>0, <1>3, Move_Typed, Zenon DEF lser_writepolled_send, Places
  <2>2. ser' \in Port
    BY <1>0, <1>3, Zenon DEF lser_writepolled_send, WriteChar, Port
  <2> QED BY <1>3, <2>1, <2>2, Zenon DEF ConsoleTypeOK, lser_writepolled_send, NoInput
<1>4. CASE lser_writepolled_done(t)
  <2>1. cth' \in [Threads -> Users]
    <3>1. cth[t].left - 1 \in Int
      BY <1>0 DEF Users
    <3> DEFINE r == [cth[t] EXCEPT !.at = "polled", !.pending = FALSE, !.left = cth[t].left - 1]
    <3>2. r \in Users
      BY <1>0, <3>1, Zenon DEF Users, Places
    <3>3. cth' = [cth EXCEPT ![t] = r]
      BY <1>4, Zenon DEF lser_writepolled_done
    <3> HIDE DEF r
    <3> QED BY <1>0, <3>2, <3>3, Zenon
  <2>2. ser' \in Port
    BY <1>0, <1>4, Zenon DEF lser_writepolled_done, WriteWirq, Port
  <2> QED BY <1>4, <2>1, <2>2, Zenon DEF ConsoleTypeOK, lser_writepolled_done, Give, NoInput
<1>5. CASE kprintf_polled_done(t)
  <2>1. cth' \in [Threads -> Users]
    BY <1>0, <1>5, Move_Typed, Zenon DEF kprintf_polled_done, Places
  <2> QED BY <1>5, <2>1, Zenon DEF ConsoleTypeOK, kprintf_polled_done, Give, NoInput
<1> QED BY <1>1, <1>2, <1>3, <1>4, <1>5, Zenon

LEMMA NextIndex == ASSUME NEW i \in 0..(N - 1) PROVE (i + 1) % N \in 0..(N - 1)
BY BufferAssumption DEF N

LEMMA ConsoleInput_Typed ==
  ASSUME ConsoleTypeOK, NEW t \in Threads,
         \/ getch_intr(t) \/ getch_intr_char(t) \/ getch_intr_tail(t) \/ con_io_read_more(t)
         \/ kgets_key(t) \/ kgets_more(t)
  PROVE  ConsoleTypeOK'
<1>0. cth \in [Threads -> Users] /\ cth[t] \in Users /\ con \in Ring /\ 0 \in Int
  BY DEF ConsoleTypeOK
<1>1. CASE getch_intr(t)
  <2>1. con' \in Ring
    BY <1>0, <1>1 DEF getch_intr, Ring
  <2>2. cth' \in [Threads -> Users]
    BY <1>0, <1>1, Move_Typed, Zenon DEF getch_intr, Places
  <2> QED BY <1>1, <2>1, <2>2, Zenon DEF ConsoleTypeOK, getch_intr, NoInput
<1>2. CASE getch_intr_char(t)
  <2>1. con.got[con.tail] \in Int /\ con.tail \in 0..(N - 1)
    BY <1>0, Zenon DEF Ring
  <2>2. [cth[t] EXCEPT !.at = "tail", !.ch = con.got[con.tail], !.tail = con.tail] \in Users
    BY <1>0, <2>1, Zenon DEF Users, Places
  <2>3. cth' \in [Threads -> Users]
    BY <1>0, <1>2, <2>2, Zenon DEF getch_intr_char
  <2> QED BY <1>2, <2>3, Zenon DEF ConsoleTypeOK, getch_intr_char, NoInput
<1>3. CASE getch_intr_tail(t)
  <2>1. con.tail \in 0..(N - 1) /\ cth[t].tail \in 0..(N - 1) /\ 0 \in 0..(N - 1)
    BY <1>0, BufferAssumption DEF Ring, Users, N
  <2>2. con' \in Ring
    <3>1. PICK i \in 0..(N - 1) : con' = [con EXCEPT !.tail = (i + 1) % N]
      BY <1>3, <2>1, Zenon DEF getch_intr_tail
    <3> QED BY <1>0, <3>1, NextIndex, Zenon DEF Ring
  <2>3. cth' \in [Threads -> Users]
    <3>1. [cth[t] EXCEPT !.at = "read", !.tail = 0] \in Users
      BY <1>0, <2>1, Zenon DEF Users, Places
    <3> QED BY <1>0, <1>3, <3>1, Zenon DEF getch_intr_tail
  <2>4. taken' \in Int
    BY <1>3 DEF ConsoleTypeOK, getch_intr_tail
  <2> QED BY <1>3, <2>2, <2>3, <2>4, Zenon DEF ConsoleTypeOK, getch_intr_tail
<1>4. CASE con_io_read_more(t)
  <2>1. /\ [cth[t] EXCEPT !.at = "getch", !.ch = 0] \in Users
        /\ [cth[t] EXCEPT !.at = "idle", !.ch = 0, !.lock = "none"] \in Users
    BY <1>0, Zenon DEF Users, Places
  <2>2. cth' \in [Threads -> Users]
    BY <1>0, <1>4, <2>1, Zenon DEF con_io_read_more
  <2> QED BY <1>4, <2>2, Zenon DEF ConsoleTypeOK, con_io_read_more, Give, NoInput
<1>5. CASE kgets_key(t)
  <2>1. cth' \in [Threads -> Users]
    <3>1. [cth[t] EXCEPT !.at = "getch", !.ch = 0] \in Users
      BY <1>0, Zenon DEF Users, Places
    <3>2. ASSUME NEW n \in 1..MaxOut
          PROVE  /\ [cth[t] EXCEPT !.at = "putch", !.ch = 0, !.puts = n] \in Users
                 /\ [cth[t] EXCEPT !.at = "loop", !.ch = 0, !.lock = "kprintf", !.left = n] \in Users
      <4>1. n \in Int
        OBVIOUS
      <4> QED BY <1>0, <4>1, Zenon DEF Users, Places
    <3> QED BY <1>0, <1>5, <3>1, <3>2, Zenon DEF kgets_key
  <2>2. locks' \in [Locks -> Threads \cup {NULL}]
    BY <1>5, Zenon DEF ConsoleTypeOK, kgets_key, Take, Locks
  <2>3. UNCHANGED <<con, ls_wbusy, ser, found, keys, input, taken>>
    BY <1>5, Zenon DEF kgets_key, NoInput
  <2> QED BY <2>1, <2>2, <2>3, Zenon DEF ConsoleTypeOK
<1>6. CASE kgets_more(t)
  <2>1. CASE BeginRead(t, "none")
    <3>1. cth' \in [Threads -> Users]
      BY <1>0, <2>1, BeginRead_Typed, Zenon
    <3> QED BY <1>6, <2>1, <3>1, Zenon DEF ConsoleTypeOK, kgets_more, BeginRead
  <2>2. CASE Move(t, "idle") /\ UNCHANGED <<con, ls_wbusy, ser, found, irq>> /\ NoInput
    <3>1. cth' \in [Threads -> Users]
      BY <1>0, <2>2, Move_Typed, Zenon DEF Places
    <3> QED BY <1>6, <2>2, <3>1, Zenon DEF ConsoleTypeOK, kgets_more, NoInput
  <2> QED BY <1>6, <2>1, <2>2, Zenon DEF kgets_more
<1> QED BY <1>1, <1>2, <1>3, <1>4, <1>5, <1>6, Zenon

LEMMA ConsoleDevice_Typed ==
  ASSUME ConsoleTypeOK, SendDone \/ KeyTyped \/ SerialHandler
  PROVE  ConsoleTypeOK'
<1>0. /\ con \in Ring /\ ser \in Port /\ found \in [start : BOOLEAN, input : BOOLEAN, ch : Int] /\ ls_wbusy \in BOOLEAN
      /\ keys \in Int /\ input \in Seq(Int) /\ 0 \in Int
  BY DEF ConsoleTypeOK
<1>1. CASE SendDone
  <2>1. ser' \in Port
    BY <1>0, <1>1, Zenon DEF SendDone, Port
  <2> QED BY <1>1, <2>1, Zenon DEF ConsoleTypeOK, SendDone
<1>2. CASE KeyTyped
  <2>1. keys + 1 \in Int
    BY <1>0
  <2>2. ser' \in Port
    BY <1>0, <1>2, <2>1, Zenon DEF KeyTyped, Port
  <2> QED BY <1>2, <2>1, <2>2, Zenon DEF ConsoleTypeOK, KeyTyped
<1>3. CASE lser_irq
  <2>1. ser' \in Port
    BY <1>0, <1>3, ZenonT(60) DEF lser_irq, WriteWirq, Port
  <2>2. found' \in [start : BOOLEAN, input : BOOLEAN, ch : Int]
    BY <1>0, <1>3, Zenon DEF lser_irq, Port
  <2>3. ls_wbusy' \in BOOLEAN
    BY <1>3, Zenon DEF lser_irq
  <2> QED BY <1>3, <2>1, <2>2, <2>3, Zenon DEF ConsoleTypeOK, lser_irq
<1>4. CASE con_start
  <2>1. con' \in Ring
    <3>1. con' = con \/ con' = [con EXCEPT !.wsem = @ + 1]
      BY <1>4, Zenon DEF con_start
    <3> QED BY <1>0, <3>1 DEF Ring
  <2> QED BY <1>4, <2>1, Zenon DEF ConsoleTypeOK, con_start
<1>5. CASE con_input
  <2>1. con' \in Ring /\ input' \in Seq(Int)
    <3>1. CASE UNCHANGED <<con, input>>
      BY <1>0, <3>1, Zenon
    <3>2. CASE /\ con' = [con EXCEPT !.got[con.head] = found.ch, !.head = (con.head + 1) % N, !.rsem = @ + 1]
               /\ input' = Append(input, found.ch)
      <4>1. /\ found.ch \in Int /\ con.head \in 0..(N - 1) /\ con.rsem + 1 \in Int
            /\ con.got \in [0..(N - 1) -> Int]
        BY <1>0 DEF Ring
      <4>2. (con.head + 1) % N \in 0..(N - 1) /\ [con.got EXCEPT ![con.head] = found.ch] \in [0..(N - 1) -> Int]
        BY <4>1, NextIndex, Zenon
      <4>3. con' = [con EXCEPT !.got = [con.got EXCEPT ![con.head] = found.ch], !.head = (con.head + 1) % N,
                               !.rsem = con.rsem + 1]
        BY <1>0, <3>2, Zenon DEF Ring
      <4>4. con' \in Ring
        BY <1>0, <4>1, <4>2, <4>3, Zenon DEF Ring
      <4> QED BY <1>0, <3>2, <4>1, <4>4
    <3> QED BY <1>5, <3>1, <3>2, Zenon DEF con_input
  <2>2. found' \in [start : BOOLEAN, input : BOOLEAN, ch : Int]
    BY <1>0, <1>5, Zenon DEF con_input
  <2> QED BY <1>5, <2>1, <2>2, Zenon DEF ConsoleTypeOK, con_input
<1> QED BY <1>1, <1>2, <1>3, <1>4, <1>5, Zenon DEF SerialHandler

----------------------------------------------------------------------------
\* A thread in lser_writepolled holds ls_lock; one reading in con_io holds its lock.
Polling(t) == cth[t].at \in {"poll", "polled_send", "poll_sent"}
Writing(t) == cth[t].at \in {"loop", "putch", "send"}

LocksHeld ==
  \A t \in Threads :
    /\ Polling(t) <=> locks["ls"] = t
    /\ Reading(t) /\ cth[t].lock = "read" <=> locks["read"] = t
    /\ Writing(t) => cth[t].lock # "read"

\* lser_irq has found the port clear to write and con_start is still to be called.
Started == found.start /\ In(SerialSlot, "start")

\* The right to write is in cs_wsem, with a thread, with the port or with the handler.
OneTurn ==
  /\ con.wsem \in {0, 1}
  /\ con.wsem = 1 => ~ls_wbusy /\ ~Started
  /\ ~(ls_wbusy /\ Started)
  /\ \A t \in Threads : At(t, "send") => con.wsem = 0 /\ ~ls_wbusy /\ ~Started
  /\ \A t, u \in Threads : At(t, "send") /\ At(u, "send") => t = u

\* The port sends or has sent, outside lser_writepolled, only when the driver knows.
PortKnown ==
  /\ ~ser.lost
  /\ ~(ser.sending /\ ser.wactive)
  /\ locks["ls"] = NULL /\ (ser.sending \/ ser.wactive) => ls_wbusy
  /\ \A t \in Threads :
       /\ ~At(t, "panic")
       /\ At(t, "polled_send") => ~ser.sending /\ ~ser.wactive
       /\ Polling(t) => cth[t].pending = ls_wbusy

SerialInv == ConsoleTypeOK /\ LocksHeld /\ OneTurn /\ PortKnown

LEMMA Serial_Init == Init => SerialInv
<1> SUFFICES ASSUME Init PROVE SerialInv
  OBVIOUS
<1>1. ConsoleTypeOK
  BY Console_InitTyped, Zenon
<1>2. LocksHeld
  BY NullAssumption, Zenon DEF Init, ConsoleInit, LocksHeld, Polling, Reading, Writing
<1>3. OneTurn
  BY Zenon DEF Init, ConsoleInit, OneTurn, Started, At
<1>4. PortKnown
  BY Zenon DEF Init, ConsoleInit, PortKnown, At, Polling
<1> QED BY <1>1, <1>2, <1>3, <1>4, Zenon DEF SerialInv

\* What kgets does beside putch and getch touches neither ls_lock nor the port.
LEMMA Kgets_Inv ==
  ASSUME SerialInv, ConsoleTypeOK', NEW t \in Threads,
         \A u \in Threads : u # t => cth'[u] = cth[u],
         \/ locks' = locks
         \/ /\ locks["kprintf"] = NULL
            /\ locks' = [locks EXCEPT !["kprintf"] = t],
         cth[t].at \in {"idle", "read", "loop"}, Reading(t) => cth[t].lock = "none",
         cth'[t].at \in {"idle", "getch", "putch", "loop"}, cth'[t].lock \in {"kprintf", "none"},
         UNCHANGED <<con, ls_wbusy, ser, found, irq>>
  PROVE  SerialInv'
<1>1. locks \in [Locks -> Threads \cup {NULL}]
  BY Zenon DEF SerialInv, ConsoleTypeOK
<1>2. locks'["ls"] = locks["ls"] /\ locks'["read"] = locks["read"]
  BY <1>1, Zenon DEF Locks
<1>3. LocksHeld'
  <2>1. ASSUME NEW u \in Threads, u # t
        PROVE  /\ (Polling(u) <=> locks["ls"] = u)'
               /\ (Reading(u) /\ cth[u].lock = "read" <=> locks["read"] = u)'
               /\ (Writing(u) => cth[u].lock # "read")'
    BY <1>2, <2>1 DEF SerialInv, LocksHeld, Polling, Reading, Writing
  <2>2. /\ (Polling(t) <=> locks["ls"] = t)'
        /\ (Reading(t) /\ cth[t].lock = "read" <=> locks["read"] = t)'
        /\ (Writing(t) => cth[t].lock # "read")'
    BY <1>2, NullAssumption DEF SerialInv, LocksHeld, Polling, Reading, Writing
  <2> QED BY <2>1, <2>2, Zenon DEF LocksHeld
<1>4. OneTurn'
  BY SMTT(30) DEF SerialInv, OneTurn, Started, In, At
<1>5. PortKnown'
  BY <1>2, SMTT(30) DEF SerialInv, PortKnown, Polling, At
<1> QED BY <1>3, <1>4, <1>5, Zenon DEF SerialInv

LEMMA KgetsCall_Inv ==
  ASSUME SerialInv, NEW t \in Threads, kgets(t)
  PROVE  SerialInv'
<1>0. cth \in [Threads -> Users] /\ ConsoleTypeOK'
  BY ConsoleCall_Typed, Zenon DEF SerialInv, ConsoleTypeOK, ConsoleCall
<1>1. /\ cth[t].at = "idle" /\ cth'[t].at = "getch" /\ cth'[t].lock = "none"
      /\ \A u \in Threads : u # t => cth'[u] = cth[u]
  BY <1>0, Zenon DEF kgets, BeginRead, At, Users
<1>2. UNCHANGED <<locks, con, ls_wbusy, ser, found, irq>>
  BY Zenon DEF kgets, BeginRead
<1> QED BY <1>0, <1>1, <1>2, Kgets_Inv DEF Reading

LEMMA KgetsKey_Inv ==
  ASSUME SerialInv, NEW t \in Threads, kgets_key(t)
  PROVE  SerialInv'
<1>0. cth \in [Threads -> Users] /\ ConsoleTypeOK'
  BY ConsoleInput_Typed, Zenon DEF SerialInv, ConsoleTypeOK
<1>1. cth[t].at = "read" /\ cth[t].lock = "none" /\ UNCHANGED <<con, ls_wbusy, ser, found, irq>>
  BY Zenon DEF kgets_key, At
<1>2. /\ cth'[t].at \in {"idle", "getch", "putch", "loop"} /\ cth'[t].lock \in {"kprintf", "none"}
      /\ \A u \in Threads : u # t => cth'[u] = cth[u]
      /\ \/ locks' = locks
         \/ locks["kprintf"] = NULL /\ locks' = [locks EXCEPT !["kprintf"] = t]
  <2>1. CASE cth' = [cth EXCEPT ![t] = [@ EXCEPT !.at = "getch", !.ch = 0]] /\ locks' = locks
    BY <1>0, <1>1, <2>1, Zenon DEF Users
  <2>2. CASE /\ \E n \in 1..MaxOut : cth' = [cth EXCEPT ![t] = [@ EXCEPT !.at = "putch", !.ch = 0, !.puts = n]]
             /\ locks' = locks
    BY <1>0, <1>1, <2>2, ZenonT(60) DEF Users
  <2>3. CASE /\ Take("kprintf", t)
             /\ \E n \in 1..MaxOut :
                  cth' = [cth EXCEPT ![t] = [@ EXCEPT !.at = "loop", !.ch = 0, !.lock = "kprintf", !.left = n]]
    BY <1>0, <1>1, <2>3, ZenonT(60) DEF Users, Take
  <2> QED BY <2>1, <2>2, <2>3, Zenon DEF kgets_key
<1> QED BY <1>0, <1>1, <1>2, Kgets_Inv, SMTT(30)

LEMMA KgetsMore_Inv ==
  ASSUME SerialInv, NEW t \in Threads, kgets_more(t)
  PROVE  SerialInv'
<1>0. cth \in [Threads -> Users] /\ ConsoleTypeOK'
  BY ConsoleInput_Typed, Zenon DEF SerialInv, ConsoleTypeOK
<1>1. cth[t].at = "loop" /\ cth[t].lock = "none" /\ UNCHANGED <<con, locks, ls_wbusy, ser, found, irq>>
  BY Zenon DEF kgets_more, At, BeginRead
<1>2. /\ cth'[t].at \in {"idle", "getch"} /\ cth'[t].lock = "none"
      /\ \A u \in Threads : u # t => cth'[u] = cth[u]
  BY <1>0, <1>1, Zenon DEF kgets_more, BeginRead, Move, Users
<1> QED BY <1>0, <1>1, <1>2, Kgets_Inv

LEMMA SerialCall_Inv ==
  ASSUME SerialInv, NEW t \in Threads, ConsoleCall(t), ~kgets(t)
  PROVE  SerialInv'
<1>1. ConsoleTypeOK'
  BY ConsoleCall_Typed, Zenon DEF SerialInv
<1>2. PICK l \in {"write", "kprintf", "kspin", "read"}, p \in {"loop", "polled", "getch"} :
        /\ l \in {"write", "kprintf"} <=> p = "loop"
        /\ l = "read" <=> p = "getch"
        /\ cth[t].at = "idle"
        /\ locks[l] = NULL /\ locks' = [locks EXCEPT ![l] = t]
        /\ \A u \in Threads : u # t => cth'[u] = cth[u]
        /\ cth'[t].at = p
        /\ p \in {"loop", "getch"} => cth'[t].lock = l
        /\ UNCHANGED <<con, ls_wbusy, ser, found, irq>>
  <2>0. cth \in [Threads -> Users]
    BY Zenon DEF SerialInv, ConsoleTypeOK
  <2>1. ASSUME NEW k \in {"write", "kprintf"}, OutputCall(t, k)
        PROVE  /\ cth[t].at = "idle"
               /\ locks[k] = NULL /\ locks' = [locks EXCEPT ![k] = t]
               /\ \A u \in Threads : u # t => cth'[u] = cth[u]
               /\ cth'[t].at = "loop" /\ cth'[t].lock = k
               /\ UNCHANGED <<con, ls_wbusy, ser, found, irq>>
    BY <2>0, <2>1, ZenonT(60) DEF OutputCall, Take, At, Users
  <2>2. CASE kprintf_polled(t)
    BY <2>0, <2>2 DEF kprintf_polled, Take, At, Users
  <2>3. CASE con_io_read(t)
    BY <2>0, <2>3, Zenon DEF con_io_read, BeginRead, Take, At, Users
  <2> QED BY <2>1, <2>2, <2>3, Zenon DEF ConsoleCall, con_io_write, kprintf
<1>3. locks \in [Locks -> Threads \cup {NULL}]
  BY Zenon DEF SerialInv, ConsoleTypeOK
<1>4. LocksHeld'
  BY <1>2, <1>3, NullAssumption DEF SerialInv, LocksHeld, Polling, Reading, Writing, Locks
<1>5. OneTurn'
  BY <1>2 DEF SerialInv, OneTurn, Started, At, In
<1>6. PortKnown'
  BY <1>2, <1>3 DEF SerialInv, PortKnown, At, Polling, Locks
<1> QED BY <1>1, <1>4, <1>5, <1>6, Zenon DEF SerialInv

LEMMA OutputLoop_Inv ==
  ASSUME SerialInv, NEW t \in Threads, OutputLoop(t)
  PROVE  SerialInv'
<1>0. ConsoleTypeOK'
  BY ConsoleOutput_Typed, Zenon DEF SerialInv
<1>1. cth \in [Threads -> Users] /\ locks \in [Locks -> Threads \cup {NULL}] /\ ser \in Port /\ con \in Ring
  BY SMTT(30) DEF SerialInv, ConsoleTypeOK
<1>2. /\ cth[t].at = "loop" /\ \A u \in Threads : u # t => cth'[u] = cth[u]
      /\ UNCHANGED <<con, ls_wbusy, ser, found, irq>>
  BY <1>1, ZenonT(60) DEF OutputLoop, At
<1>3. \/ cth'[t].at = "putch" /\ cth'[t].lock = cth[t].lock /\ locks' = locks
      \/ cth'[t].at = "idle" /\ locks' = [locks EXCEPT ![cth[t].lock] = NULL]
  <2>1. CASE \E n \in {1, 2} : cth' = [cth EXCEPT ![t] = [@ EXCEPT !.at = "putch", !.left = cth[t].left - 1, !.puts = n]]
             /\ locks' = locks
    BY <1>1, <2>1 DEF Users
  <2>2. CASE /\ cth' = [cth EXCEPT ![t] = [@ EXCEPT !.at = "idle", !.lock = "none", !.left = 0]]
             /\ locks' = [locks EXCEPT ![cth[t].lock] = NULL]
    BY <1>1, <2>2, Zenon DEF Users
  <2> QED BY <2>1, <2>2, Zenon DEF OutputLoop, Give
<1>4. cth[t].lock \in {"write", "kprintf"}
  <2>1. cth[t] \in Users
    BY <1>1, Zenon
  <2>2. cth[t].lock \in {"read", "write", "kprintf", "none"}
    BY <2>1, Zenon DEF Users
  <2>3. cth[t].lock # "none"
    BY Zenon DEF OutputLoop
  <2>4. cth[t].lock # "read"
    BY <1>2, Zenon DEF SerialInv, LocksHeld, Writing
  <2> QED BY <2>2, <2>3, <2>4, Zenon
<1>5. locks'["ls"] = locks["ls"] /\ locks'["read"] = locks["read"]
  BY <1>1, <1>3, <1>4, Zenon DEF Locks
<1>6. LocksHeld'
  BY <1>2, <1>3, <1>4, <1>5 DEF SerialInv, LocksHeld, Polling, Reading, Writing
<1>7. OneTurn'
  BY <1>2, <1>3, Zenon DEF SerialInv, OneTurn, Started, In, At
<1>8. PortKnown'
  BY <1>2, <1>3, <1>5, Zenon DEF SerialInv, PortKnown, Polling, At
<1> QED BY <1>0, <1>6, <1>7, <1>8, Zenon DEF SerialInv

\* The right passes from cs_wsem to the thread ...
LEMMA Putch_Inv ==
  ASSUME SerialInv, NEW t \in Threads, putch_intr(t)
  PROVE  SerialInv'
<1>0. ConsoleTypeOK'
  BY ConsoleOutput_Typed, Zenon DEF SerialInv
<1>1. cth \in [Threads -> Users] /\ locks \in [Locks -> Threads \cup {NULL}] /\ ser \in Port /\ con \in Ring
  BY Zenon DEF SerialInv, ConsoleTypeOK
<1>2. LocksHeld'
  BY <1>1, NullAssumption DEF SerialInv, LocksHeld, Polling, Reading, Writing, putch_intr, Move, At, Users, Locks
<1>3. OneTurn'
  BY <1>1 DEF SerialInv, LocksHeld, Polling, OneTurn, Started, In, putch_intr, Move, At, Users, Ring
<1>4. PortKnown'
  BY <1>1, NullAssumption DEF SerialInv, LocksHeld, OneTurn, PortKnown, Polling, putch_intr, Move, At, Users, Port, Locks
<1> QED BY <1>0, <1>2, <1>3, <1>4, Zenon DEF SerialInv

\* ... and from the thread to the port.
LEMMA Write_Inv ==
  ASSUME SerialInv, NEW t \in Threads, lser_write(t)
  PROVE  SerialInv'
<1>0. ConsoleTypeOK'
  BY ConsoleOutput_Typed, Zenon DEF SerialInv
<1>1. cth \in [Threads -> Users] /\ locks \in [Locks -> Threads \cup {NULL}] /\ ser \in Port /\ con \in Ring
  BY Zenon DEF SerialInv, ConsoleTypeOK
<1>2. cth[t].at = "send" /\ locks["ls"] = NULL /\ ~ls_wbusy /\ ~ser.sending /\ ~ser.wactive
  BY Zenon DEF lser_write, At, SerialInv, OneTurn, PortKnown
<1>3. /\ ls_wbusy' = TRUE /\ ser' = WriteChar(ser)
      /\ cth' = [cth EXCEPT ![t] = [@ EXCEPT !.at = IF cth[t].puts = 1 THEN "loop" ELSE "putch",
                                             !.puts = cth[t].puts - 1]]
      /\ UNCHANGED <<con, locks, found, irq>>
  BY <1>2, Zenon DEF lser_write
<1>4. /\ cth'[t].at \in {"loop", "putch"} /\ cth'[t].lock = cth[t].lock
      /\ \A u \in Threads : u # t => cth'[u] = cth[u]
  BY <1>1, <1>3, Zenon DEF Users
<1>5. LocksHeld'
  BY <1>2, <1>3, <1>4 DEF SerialInv, LocksHeld, Polling, Reading, Writing
<1>6. OneTurn'
  BY <1>2, <1>3, <1>4 DEF SerialInv, OneTurn, Started, In, At
<1>7. PortKnown'
  <2>1. ser'.sending /\ ~ser'.lost /\ ~ser'.wactive
    BY <1>1, <1>2, <1>3, Zenon DEF SerialInv, PortKnown, WriteChar, Port
  <2>2. \A u \in Threads : ~Polling(u)
    BY <1>2, NullAssumption, Zenon DEF SerialInv, LocksHeld
  <2> QED BY <1>3, <1>4, <2>1, <2>2, Zenon DEF SerialInv, PortKnown, Polling, At
<1> QED BY <1>0, <1>5, <1>6, <1>7, Zenon DEF SerialInv

LEMMA WritePolled_Inv ==
  ASSUME SerialInv, NEW t \in Threads, lser_writepolled(t)
  PROVE  SerialInv'
<1>0. ConsoleTypeOK'
  BY ConsolePolled_Typed, Zenon DEF SerialInv
<1>1. cth \in [Threads -> Users] /\ locks \in [Locks -> Threads \cup {NULL}] /\ ser \in Port /\ con \in Ring
  BY Zenon DEF SerialInv, ConsoleTypeOK
<1>2. LocksHeld'
  BY <1>1, NullAssumption DEF SerialInv, LocksHeld, Polling, Reading, Writing, lser_writepolled, Take, WriteWirq, At, Users, Locks
<1>3. OneTurn'
  BY <1>1 DEF SerialInv, LocksHeld, Polling, OneTurn, Started, In, lser_writepolled, Take, WriteWirq, At, Users, Ring
<1>4. PortKnown'
  BY <1>1, NullAssumption DEF SerialInv, LocksHeld, OneTurn, PortKnown, Polling, lser_writepolled, Take, WriteWirq, At, Users, Port, Locks
<1> QED BY <1>0, <1>2, <1>3, <1>4, Zenon DEF SerialInv

LEMMA PollUntil_Inv ==
  ASSUME SerialInv, NEW t \in Threads, lser_poll_until_write(t)
  PROVE  SerialInv'
<1>0. ConsoleTypeOK'
  BY ConsolePolled_Typed, Zenon DEF SerialInv
<1>1. cth \in [Threads -> Users] /\ locks \in [Locks -> Threads \cup {NULL}] /\ ser \in Port /\ con \in Ring
  BY Zenon DEF SerialInv, ConsoleTypeOK
<1>2. LocksHeld'
  BY <1>1, NullAssumption DEF SerialInv, LocksHeld, Polling, Reading, Writing, lser_poll_until_write, Move, WriteWirq, At, Users, Locks
<1>3. OneTurn'
  BY <1>1, SMTT(30) DEF SerialInv, LocksHeld, Polling, OneTurn, Started, In, lser_poll_until_write, Move, WriteWirq, At, Users, Ring
<1>4. PortKnown'
  BY <1>1, NullAssumption DEF SerialInv, LocksHeld, OneTurn, PortKnown, Polling, lser_poll_until_write, Move, WriteWirq, At, Users, Port, Locks
<1> QED BY <1>0, <1>2, <1>3, <1>4, Zenon DEF SerialInv

LEMMA PolledSend_Inv ==
  ASSUME SerialInv, NEW t \in Threads, lser_writepolled_send(t)
  PROVE  SerialInv'
<1>0. ConsoleTypeOK'
  BY ConsolePolled_Typed, Zenon DEF SerialInv
<1>1. cth \in [Threads -> Users] /\ locks \in [Locks -> Threads \cup {NULL}] /\ ser \in Port /\ con \in Ring
  BY Zenon DEF SerialInv, ConsoleTypeOK
<1>2. LocksHeld'
  BY <1>1, NullAssumption DEF SerialInv, LocksHeld, Polling, Reading, Writing, lser_writepolled_send, Move, WriteChar, At, Users, Locks
<1>3. OneTurn'
  BY <1>1, SMTT(30) DEF SerialInv, LocksHeld, Polling, OneTurn, Started, In, lser_writepolled_send, Move, WriteChar, At, Users, Ring
<1>4. PortKnown'
  BY <1>1, NullAssumption DEF SerialInv, LocksHeld, OneTurn, PortKnown, Polling, lser_writepolled_send, Move, WriteChar, At, Users, Port, Locks
<1> QED BY <1>0, <1>2, <1>3, <1>4, Zenon DEF SerialInv

LEMMA PolledDone_Inv ==
  ASSUME SerialInv, NEW t \in Threads, lser_writepolled_done(t)
  PROVE  SerialInv'
<1>0. ConsoleTypeOK'
  BY ConsolePolled_Typed, Zenon DEF SerialInv
<1>1. cth \in [Threads -> Users] /\ locks \in [Locks -> Threads \cup {NULL}] /\ ser \in Port /\ con \in Ring
  BY Zenon DEF SerialInv, ConsoleTypeOK
<1>2. LocksHeld'
  BY <1>1, NullAssumption DEF SerialInv, LocksHeld, Polling, Reading, Writing, lser_writepolled_done, Give, WriteWirq, At, Users, Locks
<1>3. OneTurn'
  BY <1>1, SMTT(30) DEF SerialInv, LocksHeld, Polling, OneTurn, Started, In, lser_writepolled_done, Give, WriteWirq, At, Users, Ring
<1>4. PortKnown'
  BY <1>1, NullAssumption DEF SerialInv, LocksHeld, OneTurn, PortKnown, Polling, lser_writepolled_done, Give, WriteWirq, At, Users, Port, Locks
<1> QED BY <1>0, <1>2, <1>3, <1>4, Zenon DEF SerialInv

LEMMA PolledEnd_Inv ==
  ASSUME SerialInv, NEW t \in Threads, kprintf_polled_done(t)
  PROVE  SerialInv'
<1>0. ConsoleTypeOK'
  BY ConsolePolled_Typed, Zenon DEF SerialInv
<1>1. cth \in [Threads -> Users] /\ locks \in [Locks -> Threads \cup {NULL}] /\ ser \in Port /\ con \in Ring
  BY Zenon DEF SerialInv, ConsoleTypeOK
<1>2. LocksHeld'
  BY <1>1, NullAssumption DEF SerialInv, LocksHeld, Polling, Reading, Writing, kprintf_polled_done, Give, Move, At, Users, Locks
<1>3. OneTurn'
  BY <1>1, SMTT(30) DEF SerialInv, LocksHeld, Polling, OneTurn, Started, In, kprintf_polled_done, Give, Move, At, Users, Ring
<1>4. PortKnown'
  BY <1>1, NullAssumption DEF SerialInv, LocksHeld, OneTurn, PortKnown, Polling, kprintf_polled_done, Give, Move, At, Users, Port, Locks
<1> QED BY <1>0, <1>2, <1>3, <1>4, Zenon DEF SerialInv

LEMMA Getch_Inv ==
  ASSUME SerialInv, NEW t \in Threads, getch_intr(t)
  PROVE  SerialInv'
<1>0. ConsoleTypeOK'
  BY ConsoleInput_Typed, Zenon DEF SerialInv
<1>1. cth \in [Threads -> Users] /\ locks \in [Locks -> Threads \cup {NULL}] /\ ser \in Port /\ con \in Ring
  BY Zenon DEF SerialInv, ConsoleTypeOK
<1>2. LocksHeld'
  BY <1>1, NullAssumption DEF SerialInv, LocksHeld, Polling, Reading, Writing, getch_intr, Move, At, Users, Locks
<1>3. OneTurn'
  BY <1>1, SMTT(30) DEF SerialInv, LocksHeld, Polling, OneTurn, Started, In, getch_intr, Move, At, Users, Ring
<1>4. PortKnown'
  BY <1>1, NullAssumption DEF SerialInv, LocksHeld, OneTurn, PortKnown, Polling, getch_intr, Move, At, Users, Port, Locks
<1> QED BY <1>0, <1>2, <1>3, <1>4, Zenon DEF SerialInv

LEMMA GetchChar_Inv ==
  ASSUME SerialInv, NEW t \in Threads, getch_intr_char(t)
  PROVE  SerialInv'
<1>0. ConsoleTypeOK'
  BY ConsoleInput_Typed, Zenon DEF SerialInv
<1>1. cth \in [Threads -> Users] /\ locks \in [Locks -> Threads \cup {NULL}] /\ ser \in Port /\ con \in Ring
  BY Zenon DEF SerialInv, ConsoleTypeOK
<1>2. LocksHeld'
  BY <1>1, NullAssumption DEF SerialInv, LocksHeld, Polling, Reading, Writing, getch_intr_char, Move, At, Users, Locks
<1>3. OneTurn'
  BY <1>1, SMTT(30) DEF SerialInv, LocksHeld, Polling, OneTurn, Started, In, getch_intr_char, Move, At, Users, Ring
<1>4. PortKnown'
  BY <1>1, NullAssumption DEF SerialInv, LocksHeld, OneTurn, PortKnown, Polling, getch_intr_char, Move, At, Users, Port, Locks
<1> QED BY <1>0, <1>2, <1>3, <1>4, Zenon DEF SerialInv

LEMMA GetchTail_Inv ==
  ASSUME SerialInv, NEW t \in Threads, getch_intr_tail(t)
  PROVE  SerialInv'
<1>0. ConsoleTypeOK'
  BY ConsoleInput_Typed, Zenon DEF SerialInv
<1>1. cth \in [Threads -> Users] /\ locks \in [Locks -> Threads \cup {NULL}] /\ ser \in Port /\ con \in Ring
  BY Zenon DEF SerialInv, ConsoleTypeOK
<1>2. LocksHeld'
  BY <1>1, NullAssumption DEF SerialInv, LocksHeld, Polling, Reading, Writing, getch_intr_tail, Move, At, Users, Locks
<1>3. OneTurn'
  BY <1>1, SMTT(30) DEF SerialInv, LocksHeld, Polling, OneTurn, Started, In, getch_intr_tail, Move, At, Users, Ring
<1>4. PortKnown'
  BY <1>1, NullAssumption DEF SerialInv, LocksHeld, OneTurn, PortKnown, Polling, getch_intr_tail, Move, At, Users, Port, Locks
<1> QED BY <1>0, <1>2, <1>3, <1>4, Zenon DEF SerialInv

LEMMA ReadMore_Inv ==
  ASSUME SerialInv, NEW t \in Threads, con_io_read_more(t)
  PROVE  SerialInv'
<1>0. ConsoleTypeOK'
  BY ConsoleInput_Typed, Zenon DEF SerialInv
<1>1. cth \in [Threads -> Users] /\ locks \in [Locks -> Threads \cup {NULL}] /\ ser \in Port /\ con \in Ring
  BY Zenon DEF SerialInv, ConsoleTypeOK
<1>2. /\ cth[t].at = "read" /\ cth[t].lock = "read" /\ \A u \in Threads : u # t => cth'[u] = cth[u]
      /\ UNCHANGED <<con, ls_wbusy, ser, found, irq>>
  BY <1>1, Zenon DEF con_io_read_more, At
<1>3. \/ cth'[t].at = "getch" /\ cth'[t].lock = cth[t].lock /\ locks' = locks
      \/ cth'[t].at = "idle" /\ locks' = [locks EXCEPT !["read"] = NULL]
  <2>1. CASE cth' = [cth EXCEPT ![t] = [@ EXCEPT !.at = "getch", !.ch = 0]] /\ locks' = locks
    BY <1>1, <2>1, Zenon DEF Users
  <2>2. CASE /\ cth' = [cth EXCEPT ![t] = [@ EXCEPT !.at = "idle", !.ch = 0, !.lock = "none"]]
             /\ locks' = [locks EXCEPT !["read"] = NULL]
    BY <1>1, <2>2, Zenon DEF Users
  <2> QED BY <2>1, <2>2, Zenon DEF con_io_read_more, Give
<1>4. locks'["ls"] = locks["ls"]
  BY <1>1, <1>3, Zenon DEF Locks
<1>5. LocksHeld'
  <2>1. locks["read"] = t /\ locks'["read"] = IF cth'[t].at = "getch" THEN t ELSE NULL
    BY <1>1, <1>2, <1>3 DEF SerialInv, LocksHeld, Reading, Locks
  <2> QED BY <1>2, <1>3, <1>4, <2>1, NullAssumption, SMTT(30) DEF SerialInv, LocksHeld, Polling, Reading, Writing
<1>6. OneTurn'
  BY <1>2, <1>3 DEF SerialInv, OneTurn, Started, In, At
<1>7. PortKnown'
  BY <1>2, <1>3, <1>4 DEF SerialInv, PortKnown, Polling, At
<1> QED BY <1>0, <1>5, <1>6, <1>7, Zenon DEF SerialInv

LEMMA SerialDevice_Inv ==
  ASSUME SerialInv, SendDone \/ KeyTyped
  PROVE  SerialInv'
<1>0. ConsoleTypeOK'
  BY ConsoleDevice_Typed, Zenon DEF SerialInv
<1>1. ser \in Port
  BY Zenon DEF SerialInv, ConsoleTypeOK
<1>2. LocksHeld'
  BY DEF SerialInv, LocksHeld, Polling, Reading, Writing, SendDone, KeyTyped
<1>3. OneTurn'
  BY DEF SerialInv, OneTurn, Started, In, At, SendDone, KeyTyped
<1>4. CASE SendDone
  <2>1. PortKnown'
    BY <1>1, <1>4, Zenon DEF SerialInv, PortKnown, Polling, At, SendDone, Port
  <2> QED BY <1>0, <1>2, <1>3, <2>1, Zenon DEF SerialInv
<1>5. CASE KeyTyped
  <2>1. PortKnown'
    BY <1>1, <1>5, Zenon DEF SerialInv, PortKnown, Polling, At, KeyTyped, Port
  <2> QED BY <1>0, <1>2, <1>3, <2>1, Zenon DEF SerialInv
<1> QED BY <1>4, <1>5, Zenon

\* The right goes from the port to the handler, and from there back to cs_wsem.
LEMMA SerialIrq_Inv ==
  ASSUME SerialInv, lser_irq
  PROVE  SerialInv'
<1>0. ConsoleTypeOK'
  BY ConsoleDevice_Typed, Zenon DEF SerialInv, SerialHandler
<1>1. ser \in Port
  BY Zenon DEF SerialInv, ConsoleTypeOK
<1>2. LocksHeld'
  BY Zenon DEF SerialInv, LocksHeld, Polling, Reading, Writing, lser_irq
<1>3. /\ locks["ls"] = NULL /\ (ser.wactive => ls_wbusy)
      /\ ls_wbusy' = (ls_wbusy /\ ~ser.wactive)
      /\ found'.start = ser.wactive
      /\ UNCHANGED <<con, locks, cth>>
  BY Zenon DEF SerialInv, PortKnown, lser_irq
<1>4. ~Started
  BY Zenon DEF lser_irq, Started, In
<1>5. OneTurn'
  BY <1>3, <1>4, Zenon DEF SerialInv, OneTurn, Started, At
<1>6. ser'.sending = ser.sending /\ ser'.lost = ser.lost /\ ser'.wactive = FALSE
  BY <1>1, Zenon DEF lser_irq, WriteWirq, Port
<1>7. PortKnown'
  <2>1. \A u \in Threads : ~Polling(u)
    BY <1>3, NullAssumption, Zenon DEF SerialInv, LocksHeld, lser_irq
  <2> QED BY <1>3, <1>6, <2>1, Zenon DEF SerialInv, PortKnown, Polling, At
<1> QED BY <1>0, <1>2, <1>5, <1>7, Zenon DEF SerialInv

LEMMA ConStart_Inv ==
  ASSUME SerialInv, con_start
  PROVE  SerialInv'
<1>0. ConsoleTypeOK'
  BY ConsoleDevice_Typed, Zenon DEF SerialInv, SerialHandler
<1>1. con \in Ring
  BY Zenon DEF SerialInv, ConsoleTypeOK
<1>2. LocksHeld'
  BY Zenon DEF SerialInv, LocksHeld, Polling, Reading, Writing, con_start
<1>3. /\ Started <=> found.start
      /\ ~Started'
      /\ UNCHANGED <<locks, ls_wbusy, ser, found, cth>>
  BY Zenon DEF con_start, Started, In, GoTo
<1>4. con'.wsem = IF found.start THEN con.wsem + 1 ELSE con.wsem
  BY <1>1, Zenon DEF con_start, Ring
<1>5. OneTurn'
  BY <1>3, <1>4 DEF SerialInv, OneTurn, At
<1>6. PortKnown'
  BY <1>3, Zenon DEF SerialInv, PortKnown, Polling, At
<1> QED BY <1>0, <1>2, <1>5, <1>6, Zenon DEF SerialInv

LEMMA ConInput_Inv ==
  ASSUME SerialInv, con_input
  PROVE  SerialInv'
<1>0. ConsoleTypeOK'
  BY ConsoleDevice_Typed, Zenon DEF SerialInv, SerialHandler
<1>1. con \in Ring
  BY Zenon DEF SerialInv, ConsoleTypeOK
<1>2. LocksHeld'
  BY Zenon DEF SerialInv, LocksHeld, Polling, Reading, Writing, con_input
<1>3. con'.wsem = con.wsem /\ ~found'.start /\ UNCHANGED <<locks, ls_wbusy, ser, cth>>
  BY <1>1, Zenon DEF con_input, Ring
<1>4. OneTurn'
  BY <1>3, Zenon DEF SerialInv, OneTurn, Started, At
<1>5. PortKnown'
  BY <1>3, Zenon DEF SerialInv, PortKnown, Polling, At
<1> QED BY <1>0, <1>2, <1>4, <1>5, Zenon DEF SerialInv

\* Nobody but lser_irq sends the boot CPU to con_start.
LEMMA SerialRest_Inv ==
  ASSUME SerialInv, UNCHANGED cvars, In(SerialSlot, "start")' => In(SerialSlot, "start")
  PROVE  SerialInv'
<1>1. ConsoleTypeOK'
  BY Zenon DEF SerialInv, ConsoleTypeOK, cvars
<1>2. LocksHeld'
  BY Zenon DEF SerialInv, LocksHeld, Polling, Reading, Writing, cvars
<1>3. Started' => Started
  BY Zenon DEF Started, cvars
<1>4. OneTurn'
  BY <1>3, Zenon DEF SerialInv, OneTurn, At, cvars
<1>5. PortKnown'
  BY Zenon DEF SerialInv, PortKnown, Polling, At, cvars
<1> QED BY <1>1, <1>2, <1>4, <1>5, Zenon DEF SerialInv

LEMMA Serial_Inductive ==
  ASSUME SerialInv, [Next]_vars
  PROVE  SerialInv'
<1>1. ASSUME NEW t \in Threads, SerialThread(t) PROVE SerialInv'
  BY <1>1, OutputLoop_Inv, Putch_Inv, Write_Inv, WritePolled_Inv, PollUntil_Inv, PolledSend_Inv, PolledDone_Inv,
     PolledEnd_Inv, Getch_Inv, GetchChar_Inv, GetchTail_Inv, ReadMore_Inv,
     KgetsKey_Inv, KgetsMore_Inv, Zenon DEF SerialThread, ConsoleStep
<1>2. ASSUME NEW t \in Threads, SerialCall(t) PROVE SerialInv'
  BY <1>2, SerialCall_Inv, KgetsCall_Inv, Zenon DEF SerialCall
<1>3. CASE Keyboard \/ SerialDevice
  BY <1>3, SerialDevice_Inv, Zenon DEF Keyboard, SerialDevice
<1>4. CASE SerialInterrupt
  BY <1>4, SerialIrq_Inv, ConStart_Inv, ConInput_Inv, Zenon DEF SerialInterrupt, SerialHandler
<1>5. CASE UNCHANGED <<cvars, irq>>
  BY <1>5, SerialRest_Inv, Zenon DEF In
<1>6. CASE Bus
  BY <1>6, SerialRest_Inv DEF Bus, lamebus_interrupt, lamebus_interrupt_next, In, NoIrq
<1>7. CASE DiskInterrupt \/ EmuInterrupt
  BY <1>7, SerialRest_Inv DEF DiskInterrupt, EmuInterrupt, lhd_irq, emu_irq, GoTo, In
<1>8. CASE DiskDevice \/ (\E t \in IoThreads : DiskThread(t) \/ DiskCall(t))
  <2>1. UNCHANGED <<cvars, irq>>
    BY <1>8, Zenon DEF DiskDevice, DiskThread, DiskCall, Transfer, DiskStep, lhd_io, lhd_io_clear, lhd_io_fill, lhd_io_start,
                lhd_io_done, lhd_io_fetch, lhd_io_return
  <2> QED BY <1>5, <2>1, SMTT(30)
<1>9. CASE EmuDone \/ (\E t \in EmuThreads : EmuThread(t) \/ EmuRequest(t))
  <2>1. UNCHANGED cvars
    BY <1>9, SMTT(30) DEF EmuDone, EmuThread, EmuRequest
  <2>2. UNCHANGED irq
    BY <1>9, ZenonT(60) DEF EmuDone, EmuThread, EmuRequest, EmuDevice, EmuStep, EmuCall, emufs_lookup, emufs_creat, emufs_io,
                emu_vnode_decref, vnode_incref, emu_start, emu_write_fault, emu_waitdone, emu_io_done, emu_open_done,
                BiglockThen, emufs_loadvnode, emufs_reclaim, emu_close_done
  <2> QED BY <1>5, <2>1, <2>2, Zenon
<1>10. CASE \E c \in CPUs : IpiRequest(c) \/ IpiInterrupt(c)
  <2>1. UNCHANGED <<cvars, irq>>
    BY <1>10, Zenon DEF IpiRequest, IpiInterrupt
  <2> QED BY <1>5, <2>1, Zenon
<1>11. CASE UNCHANGED vars
  BY <1>5, <1>11, Zenon DEF vars
<1> QED BY <1>1, <1>2, <1>3, <1>4, <1>6, <1>7, <1>8, <1>9, <1>10, <1>11, Zenon DEF Next

(***************************************************************************)
(* SerialInTurn holds in every behaviour of the machine: lser_write never   *)
(* finds the port busy, and no character, polled or not, is lost.           *)
(***************************************************************************)
THEOREM SerialSafe == Spec => []SerialInTurn
<1>1. Init => SerialInv
  BY Serial_Init, Zenon
<1>2. SerialInv /\ [Next]_vars => SerialInv'
  BY Serial_Inductive, Zenon
<1>3. SerialInv => SerialInTurn
  BY Zenon DEF SerialInv, PortKnown, SerialInTurn
<1> QED BY <1>1, <1>2, <1>3, PTL DEF Spec

----------------------------------------------------------------------------
\* The input ring.

\* An index that has left the ring at the end comes in at the beginning.
Wrap(x) == IF x < N THEN x ELSE x - N

LEMMA WrapMod == ASSUME NEW x \in 0..(2 * N - 1) PROVE x % N = Wrap(x)
BY BufferAssumption DEF N, Wrap

\* How many keys are in the ring, and where the i-th of them is.
InRing == Wrap(con.head + N - con.tail)
Slot(i) == Wrap(con.tail + i - 1)

Admitted(t) == cth[t].at \in {"got", "tail"}

\* Whoever reads is alone.
SoleReader == \A t, u \in Threads : Reading(t) /\ Reading(u) => t = u

InputInv ==
  /\ taken >= 0 /\ con.rsem >= 0
  /\ Len(input) = taken + InRing
  /\ \A i \in 1..InRing : con.got[Slot(i)] = input[taken + i]
  /\ \A t \in Threads : Admitted(t) => con.rsem + 1 = InRing
  /\ (\A t \in Threads : ~Admitted(t)) => con.rsem = InRing
  /\ \A t \in Threads :
       /\ cth[t].at = "tail" => cth[t].ch = input[taken + 1] /\ cth[t].tail = con.tail
       /\ cth[t].at = "read" => taken >= 1 /\ cth[t].ch = input[taken]

\* A key more at the head, or one less at the tail: what is left keeps its place.
LEMMA RingSteps ==
  ASSUME NEW h \in 0..(N - 1), NEW t \in 0..(N - 1)
  PROVE  /\ Wrap(h + N - t) \in 0..(N - 1)
         /\ Wrap(h + 1) \in 0..(N - 1) /\ Wrap(h + 1) = (h + 1) % N
         /\ Wrap(h + 1) # t => Wrap(Wrap(h + 1) + N - t) = Wrap(h + N - t) + 1
         /\ Wrap(h + N - t) >= 1 => Wrap(h + N - Wrap(t + 1)) = Wrap(h + N - t) - 1
         /\ Wrap(t + Wrap(h + N - t)) = h
         /\ \A i \in 1..Wrap(h + N - t) :
              Wrap(t + i - 1) \in 0..(N - 1) /\ Wrap(t + i - 1) # h /\ Wrap(t + i - 1) = (t + i - 1) % N
<1>0. N \in Nat \ {0}
  BY BufferAssumption, Zenon DEF N
<1>1. Wrap(h + N - t) \in 0..(N - 1) /\ Wrap(h + 1) \in 0..(N - 1) /\ Wrap(t + 1) \in 0..(N - 1)
  BY <1>0 DEF Wrap
<1>2. Wrap(h + 1) = (h + 1) % N
  BY <1>0, WrapMod
<1>3. Wrap(h + 1) # t => Wrap(Wrap(h + 1) + N - t) = Wrap(h + N - t) + 1
  BY <1>0 DEF Wrap
<1>4. Wrap(h + N - t) >= 1 => Wrap(h + N - Wrap(t + 1)) = Wrap(h + N - t) - 1
  BY <1>0 DEF Wrap
<1>5. Wrap(t + Wrap(h + N - t)) = h
  BY <1>0 DEF Wrap
<1>6. ASSUME NEW i \in 1..Wrap(h + N - t)
      PROVE  Wrap(t + i - 1) \in 0..(N - 1) /\ Wrap(t + i - 1) # h /\ Wrap(t + i - 1) = (t + i - 1) % N
  <2>1. t + i - 1 \in 0..(2 * N - 1)
    BY <1>0, <1>1
  <2>2. Wrap(t + i - 1) \in 0..(N - 1) /\ Wrap(t + i - 1) # h
    BY <1>0 DEF Wrap
  <2> QED BY <2>1, <2>2, WrapMod, Zenon
<1> QED BY <1>1, <1>2, <1>3, <1>4, <1>5, <1>6, Zenon

LEMMA RingGrows ==
  ASSUME NEW h \in 0..(N - 1), NEW t \in 0..(N - 1), Wrap(h + 1) # t
  PROVE  Wrap(Wrap(h + 1) + N - t) = Wrap(h + N - t) + 1
BY RingSteps, ZenonT(60)

LEMMA RingShrinks ==
  ASSUME NEW h \in 0..(N - 1), NEW t \in 0..(N - 1), Wrap(h + N - t) >= 1
  PROVE  Wrap(h + N - Wrap(t + 1)) = Wrap(h + N - t) - 1
BY RingSteps

LEMMA RingMoves ==
  ASSUME NEW h \in 0..(N - 1), NEW t \in 0..(N - 1), NEW i \in 1..(Wrap(h + N - t) - 1)
  PROVE  Wrap(Wrap(t + 1) + i - 1) = Wrap(t + i)
BY BufferAssumption DEF N, Wrap

LEMMA Input_Init == Init => InputInv
<1> SUFFICES ASSUME Init PROVE InputInv
  OBVIOUS
<1>1. InRing = 0
  BY BufferAssumption DEF Init, ConsoleInit, InRing, Wrap, N
<1> QED BY <1>1 DEF Init, ConsoleInit, InputInv, Admitted

LEMMA OneReader ==
  ASSUME SoleReader, NEW t \in Threads, Reading(t), NEW u \in Threads, u # t
  PROVE  ~Admitted(u) /\ cth[u].at \notin {"tail", "read"}
BY DEF SoleReader, Reading, Admitted

\* What leaves the ring, the keys and the readers alone.
LEMMA InputRest_Inv ==
  ASSUME InputInv, UNCHANGED <<input, taken>>,
         con'.head = con.head, con'.tail = con.tail, con'.rsem = con.rsem, con'.got = con.got,
         \A t \in Threads : \/ cth'[t] = cth[t]
                            \/ /\ cth[t].at \notin {"got", "tail"}
                               /\ cth'[t].at \notin {"got", "tail", "read"}
  PROVE  InputInv'
<1>1. InRing' = InRing /\ \A i : Slot(i)' = Slot(i)
  BY Zenon DEF InRing, Slot
<1>2. \A t \in Threads : Admitted(t)' <=> Admitted(t)
  BY Zenon DEF Admitted
<1> QED BY <1>1, <1>2 DEF InputInv

\* P(cs_rsem) admits the reader to one key.
LEMMA InputGetch_Inv ==
  ASSUME SerialInv, SoleReader, InputInv, NEW t \in Threads, getch_intr(t)
  PROVE  InputInv'
<1>1. cth \in [Threads -> Users] /\ con \in Ring
  BY Zenon DEF SerialInv, ConsoleTypeOK
<1>2. /\ cth[t].at = "getch" /\ cth'[t].at = "got" /\ \A u \in Threads : u # t => cth'[u] = cth[u]
      /\ con.rsem > 0 /\ con'.rsem = con.rsem - 1
      /\ con'.head = con.head /\ con'.tail = con.tail /\ con'.got = con.got
      /\ UNCHANGED <<input, taken>>
  <2>1. cth[t].at = "getch" /\ cth'[t].at = "got" /\ \A u \in Threads : u # t => cth'[u] = cth[u]
    BY <1>1, ZenonT(60) DEF getch_intr, Move, At, Users
  <2>2. con' = [con EXCEPT !.rsem = @ - 1] /\ con.rsem > 0 /\ UNCHANGED <<input, taken>>
    BY Zenon DEF getch_intr, NoInput
  <2> QED BY <1>1, <2>1, <2>2, ZenonT(60) DEF Ring
<1>3. InRing' = InRing /\ \A i : Slot(i)' = Slot(i)
  BY <1>2, Zenon DEF InRing, Slot
<1>4. \A u \in Threads : u # t => ~Admitted(u) /\ cth[u].at \notin {"tail", "read"}
  BY <1>2, OneReader, Zenon DEF Reading
<1>5. con.rsem = InRing /\ con.rsem \in Int
  BY <1>1, <1>2, <1>4, Zenon DEF InputInv, Admitted, Ring
<1> QED BY <1>2, <1>3, <1>4, <1>5 DEF InputInv, Admitted

\* The reader fetches the oldest key ...
LEMMA InputChar_Inv ==
  ASSUME SerialInv, SoleReader, InputInv, NEW t \in Threads, getch_intr_char(t)
  PROVE  InputInv'
<1>1. cth \in [Threads -> Users] /\ con \in Ring /\ taken \in Int
  BY Zenon DEF SerialInv, ConsoleTypeOK
<1>2. /\ cth[t].at = "got" /\ cth'[t].at = "tail" /\ cth'[t].ch = con.got[con.tail]
      /\ cth'[t].tail = con'.tail
      /\ \A u \in Threads : u # t => cth'[u] = cth[u]
      /\ UNCHANGED <<con, input, taken>>
  BY <1>1, Zenon DEF getch_intr_char, At, NoInput, Users
<1>3. InRing' = InRing /\ \A i : Slot(i)' = Slot(i)
  BY <1>2, Zenon DEF InRing, Slot
<1>4. con.rsem \in Int /\ con.head \in 0..(N - 1) /\ con.tail \in 0..(N - 1) /\ N \in Nat
  BY <1>1, BufferAssumption, Zenon DEF Ring, N
<1>5. InRing \in 0..(N - 1)
  BY <1>4, RingSteps, ZenonT(60) DEF InRing
<1>6. 1 \in 1..InRing
  BY <1>2, <1>4, <1>5 DEF InputInv, Admitted
<1>7. Slot(1) = con.tail
  BY <1>4 DEF Slot, Wrap
<1>8. cth'[t].ch = input[taken + 1]
  BY <1>2, <1>6, <1>7, Zenon DEF InputInv
<1> QED BY <1>2, <1>3, <1>8 DEF InputInv, Admitted

\* ... and moves the tail.
LEMMA InputTail_Inv ==
  ASSUME SerialInv, SoleReader, InputInv, NEW t \in Threads, getch_intr_tail(t)
  PROVE  InputInv'
<1>1. cth \in [Threads -> Users] /\ con \in Ring /\ taken \in Int
  BY Zenon DEF SerialInv, ConsoleTypeOK
<1>2. con.rsem \in Int /\ con.head \in 0..(N - 1) /\ con.tail \in 0..(N - 1) /\ N \in Nat \ {0}
  BY <1>1, BufferAssumption, Zenon DEF Ring, N
<1>0. cth[t].at = "tail" /\ cth[t].tail = con.tail
  BY Zenon DEF getch_intr_tail, At, InputInv
<1>3. /\ cth[t].at = "tail" /\ cth'[t].at = "read" /\ cth'[t].ch = cth[t].ch
      /\ \A u \in Threads : u # t => cth'[u] = cth[u]
      /\ con'.head = con.head /\ con'.rsem = con.rsem /\ con'.got = con.got
      /\ con'.tail = (con.tail + 1) % N
      /\ taken' = taken + 1 /\ input' = input
  BY <1>0, <1>1 DEF getch_intr_tail, Users, Ring
<1>4. con'.tail = Wrap(con.tail + 1)
  BY <1>2, <1>3, RingSteps, Zenon
<1>5. InRing \in 0..(N - 1) /\ con.rsem + 1 = InRing
  BY <1>2, <1>3, RingSteps, Zenon DEF InRing, InputInv, Admitted
<1>6. InRing' = InRing - 1
  <2>1. InRing >= 1
    BY <1>2, <1>5 DEF InputInv
  <2>2. InRing = Wrap(con.head + N - con.tail) /\ InRing' = Wrap(con.head + N - Wrap(con.tail + 1))
    BY <1>3, <1>4, Zenon DEF InRing
  <2> QED BY <1>2, <2>1, <2>2, RingShrinks, Zenon
<1>7. ASSUME NEW i \in 1..InRing' PROVE con'.got[Slot(i)'] = input'[taken' + i]
  <2>1. i + 1 \in 1..InRing /\ i \in 1..(InRing - 1) /\ i \in Int
    BY <1>5, <1>6
  <2>2. Slot(i)' = Wrap(con.tail + i)
    <3>1. Slot(i)' = Wrap(Wrap(con.tail + 1) + i - 1)
      BY <1>4, Zenon DEF Slot
    <3>2. InRing = Wrap(con.head + N - con.tail)
      BY Zenon DEF InRing
    <3>3. i \in 1..(Wrap(con.head + N - con.tail) - 1)
      BY <2>1, <3>2, Zenon
    <3>4. Wrap(Wrap(con.tail + 1) + i - 1) = Wrap(con.tail + i)
      BY <1>2, <3>3, RingMoves, Zenon
    <3> QED BY <3>1, <3>4, Zenon
  <2>3. Slot(i + 1) = Wrap(con.tail + i)
    <3>1. con.tail + (i + 1) - 1 = con.tail + i
      BY <1>2, <2>1
    <3> QED BY <3>1, Zenon DEF Slot
  <2>4. con.got[Slot(i + 1)] = input[taken + (i + 1)]
    BY <2>1, Zenon DEF InputInv
  <2>5. taken + (i + 1) = taken' + i
    BY <1>1, <1>3, <2>1
  <2> QED BY <1>3, <2>2, <2>3, <2>4, <2>5, Zenon
<1>8. \A u \in Threads : u # t => ~Admitted(u) /\ cth[u].at \notin {"tail", "read"}
  BY <1>3, OneReader, Zenon DEF Reading
<1>9. taken' >= 1 /\ taken' >= 0 /\ Len(input') = taken' + InRing'
  BY <1>1, <1>3, <1>5, <1>6 DEF InputInv
<1>10. cth'[t].ch = input'[taken']
  BY <1>3, Zenon DEF InputInv
<1>11. \A u \in Threads : ~Admitted(u)'
  BY <1>3, <1>8, Zenon DEF Admitted
<1>12. con'.rsem = InRing' /\ con'.rsem >= 0
  BY <1>2, <1>3, <1>5, <1>6 DEF InputInv
<1> QED BY <1>3, <1>7, <1>8, <1>9, <1>10, <1>11, <1>12 DEF InputInv

\* A key that finds room goes behind the others.
LEMMA InputKey_Inv ==
  ASSUME SerialInv, InputInv, con_input
  PROVE  InputInv'
<1>1. con \in Ring /\ taken \in Int /\ input \in Seq(Int) /\ found.ch \in Int /\ cth' = cth /\ taken' = taken
  BY Zenon DEF SerialInv, ConsoleTypeOK, con_input
<1>2. con.rsem \in Int /\ con.head \in 0..(N - 1) /\ con.tail \in 0..(N - 1) /\ N \in Nat \ {0}
      /\ con.got \in [0..(N - 1) -> Int]
  BY <1>1, BufferAssumption, Zenon DEF Ring, N
<1>3. CASE UNCHANGED <<con, input>>
  BY <1>1, <1>3, InputRest_Inv, Zenon
<1>4. CASE /\ (con.head + 1) % N # con.tail
           /\ con' = [con EXCEPT !.got[con.head] = found.ch, !.head = (con.head + 1) % N, !.rsem = @ + 1]
           /\ input' = Append(input, found.ch)
  <2>1. /\ con'.head = Wrap(con.head + 1) /\ con'.tail = con.tail /\ con'.rsem = con.rsem + 1
        /\ con'.got = [con.got EXCEPT ![con.head] = found.ch] /\ Wrap(con.head + 1) # con.tail
    <3>1. (con.head + 1) % N = Wrap(con.head + 1)
      BY <1>2, RingSteps, Zenon
    <3> QED BY <1>1, <1>4, <3>1, Zenon DEF Ring
  <2>2. InRing' = InRing + 1 /\ InRing \in 0..(N - 1)
    <3>1. InRing = Wrap(con.head + N - con.tail) /\ InRing' = Wrap(Wrap(con.head + 1) + N - con.tail)
      BY <2>1, Zenon DEF InRing
    <3>2. Wrap(con.head + N - con.tail) \in 0..(N - 1)
      BY <1>2, RingSteps, Zenon
    <3> QED BY <1>2, <2>1, <3>1, <3>2, RingGrows, Zenon
  <2>3. \A i : Slot(i)' = Slot(i)
    BY <2>1, Zenon DEF Slot
  <2>4. /\ Len(input) \in Nat /\ Len(input') = Len(input) + 1
        /\ \A i \in 1..Len(input) : input'[i] = input[i]
        /\ input'[Len(input) + 1] = found.ch
    BY <1>1, <1>4
  <2>5. Len(input) = taken + InRing /\ taken >= 0
    BY Zenon DEF InputInv
  <2>6. ASSUME NEW i \in 1..InRing PROVE con'.got[Slot(i)'] = input'[taken + i]
    <3>1. Slot(i) \in 0..(N - 1) /\ Slot(i) # con.head
      BY <1>2, RingSteps, ZenonT(60) DEF Slot, InRing
    <3>2. taken + i \in 1..Len(input)
      BY <1>1, <2>2, <2>5
    <3>3. con.got[Slot(i)] = input[taken + i]
      BY Zenon DEF InputInv
    <3> QED BY <1>2, <2>1, <2>3, <2>4, <3>1, <3>2, <3>3, Zenon
  <2>7. ASSUME NEW k, k = InRing + 1 PROVE con'.got[Slot(k)'] = input'[taken + k]
    <3>1. con.tail + k - 1 = con.tail + InRing
      BY <1>2, <2>2, <2>7
    <3>2. Wrap(con.tail + InRing) = con.head
      BY <1>2, RingSteps, Zenon DEF InRing
    <3>3. Slot(k)' = con.head
      BY <2>3, <3>1, <3>2, Zenon DEF Slot
    <3>4. taken + k = Len(input) + 1
      BY <1>1, <2>2, <2>5, <2>7
    <3>5. con'.got[con.head] = found.ch
      BY <1>2, <2>1, Zenon
    <3> QED BY <2>4, <3>3, <3>4, <3>5, Zenon
  <2>8. \A i \in 1..InRing' : con'.got[Slot(i)'] = input'[taken' + i]
    <3> SUFFICES ASSUME NEW i \in 1..InRing' PROVE con'.got[Slot(i)'] = input'[taken + i]
      BY <1>1, Zenon
    <3>1. i \in 1..InRing \/ i = InRing + 1
      BY <2>2
    <3> QED BY <2>6, <2>7, <3>1, Zenon
  <2>9. Len(input') = taken' + InRing' /\ con'.rsem >= 0 /\ taken' >= 0
    BY <1>1, <1>2, <2>1, <2>2, <2>4, <2>5, SMTT(30) DEF InputInv
  <2>10. ASSUME NEW t \in Threads PROVE Admitted(t)' => con'.rsem + 1 = InRing'
    BY <1>1, <1>2, <2>1, <2>2, Zenon DEF InputInv, Admitted
  <2>11. (\A t \in Threads : ~Admitted(t)') => con'.rsem = InRing'
    BY <1>1, <2>1, <2>2, Zenon DEF InputInv, Admitted
  <2>12. ASSUME NEW t \in Threads, cth[t].at = "tail" PROVE cth'[t].ch = input'[taken' + 1] /\ cth'[t].tail = con'.tail
    <3>1. con.rsem + 1 = InRing /\ con.rsem >= 0
      BY <2>12, Zenon DEF InputInv, Admitted
    <3>2. taken + 1 \in 1..Len(input)
      BY <1>1, <1>2, <2>2, <2>5, <3>1
    <3> QED BY <1>1, <2>1, <2>4, <2>12, <3>2, Zenon DEF InputInv
  <2>13. ASSUME NEW t \in Threads, cth[t].at = "read" PROVE taken' >= 1 /\ cth'[t].ch = input'[taken']
    <3>1. taken >= 1 /\ cth[t].ch = input[taken]
      BY <2>13, Zenon DEF InputInv
    <3>2. taken \in 1..Len(input)
      BY <1>1, <2>2, <2>5, <3>1
    <3> QED BY <1>1, <2>4, <3>1, <3>2, Zenon
  <2> QED BY <1>1, <2>8, <2>9, <2>10, <2>11, <2>12, <2>13, Zenon DEF InputInv
<1> QED BY <1>3, <1>4, Zenon DEF con_input

\* Output and its interrupts, and the beginning and the end of a read.
LEMMA InputOther_Inv ==
  ASSUME SerialInv, InputInv
  PROVE  /\ con_start => InputInv'
         /\ \A t \in Threads :
              \/ ConsoleCall(t) \/ OutputLoop(t) \/ putch_intr(t) \/ lser_write(t)
              \/ lser_writepolled(t) \/ lser_poll_until_write(t) \/ lser_writepolled_send(t)
              \/ lser_writepolled_done(t) \/ kprintf_polled_done(t) \/ con_io_read_more(t)
              \/ kgets_key(t) \/ kgets_more(t)
              => InputInv'
<1>0. cth \in [Threads -> Users] /\ con \in Ring
  BY Zenon DEF SerialInv, ConsoleTypeOK
<1>1. CASE con_start
  <2>1. /\ con'.head = con.head /\ con'.tail = con.tail /\ con'.rsem = con.rsem /\ con'.got = con.got
        /\ UNCHANGED <<input, taken, cth>>
    BY <1>0, <1>1, Zenon DEF con_start, Ring
  <2> QED BY <2>1, InputRest_Inv, Zenon
<1>2. ASSUME NEW t \in Threads, NEW from \in Places \ {"got", "tail"}, NEW to \in Places \ {"got", "tail", "read"},
             cth[t].at = from, cth'[t].at = to, \A u \in Threads : u # t => cth'[u] = cth[u],
             UNCHANGED <<con, input, taken>>
      PROVE  InputInv'
  BY <1>2, InputRest_Inv, Zenon
<1>3. ASSUME NEW t \in Threads, ConsoleCall(t) PROVE InputInv'
  <2>1. ASSUME NEW l, OutputCall(t, l) PROVE InputInv'
    <3>1. cth[t].at = "idle" /\ cth'[t].at = "loop" /\ \A u \in Threads : u # t => cth'[u] = cth[u]
      BY <1>0, <2>1, Zenon DEF OutputCall, At, Users
    <3> QED BY <1>2, <2>1, <3>1, Zenon DEF OutputCall, NoInput, Places
  <2>2. CASE kprintf_polled(t)
    BY <1>0, <1>2, <2>2 DEF kprintf_polled, At, NoInput, Users, Places
  <2>3. CASE con_io_read(t)
    BY <1>0, <1>2, <2>3, SMTT(30) DEF con_io_read, BeginRead, At, Users, Places
  <2>4. CASE kgets(t)
    BY <1>0, <1>2, <2>4, SMTT(30) DEF kgets, BeginRead, At, Users, Places
  <2> QED BY <1>3, <2>1, <2>2, <2>3, <2>4, Zenon DEF ConsoleCall, con_io_write, kprintf
<1>4. ASSUME NEW t \in Threads, OutputLoop(t) PROVE InputInv'
  <2>1. cth[t].at = "loop" /\ cth'[t].at \in {"putch", "idle"} /\ \A u \in Threads : u # t => cth'[u] = cth[u]
    <3>0. cth[t].at = "loop"
      BY <1>4, Zenon DEF OutputLoop, At
    <3>1. CASE \E n \in {1, 2} :
                 cth' = [cth EXCEPT ![t] = [@ EXCEPT !.at = "putch", !.left = cth[t].left - 1, !.puts = n]]
      BY <1>0, <3>0, <3>1 DEF Users
    <3>2. CASE cth' = [cth EXCEPT ![t] = [@ EXCEPT !.at = "idle", !.lock = "none", !.left = 0]]
      BY <1>0, <3>0, <3>2, Zenon DEF Users
    <3> QED BY <1>4, <3>1, <3>2, ZenonT(60) DEF OutputLoop
  <2> QED BY <1>2, <1>4, <2>1, ZenonT(60) DEF OutputLoop, NoInput, Places
<1>5. ASSUME NEW t \in Threads, putch_intr(t) PROVE InputInv'
  <2>1. /\ con'.head = con.head /\ con'.tail = con.tail /\ con'.rsem = con.rsem /\ con'.got = con.got
        /\ UNCHANGED <<input, taken>>
    BY <1>0, <1>5, Zenon DEF putch_intr, NoInput, Ring
  <2>2. cth[t].at = "putch" /\ cth'[t].at = "send" /\ \A u \in Threads : u # t => cth'[u] = cth[u]
    BY <1>0, <1>5, Zenon DEF putch_intr, At, Move, Users
  <2> QED BY <2>1, <2>2, InputRest_Inv, Zenon
<1>6. ASSUME NEW t \in Threads, lser_write(t) PROVE InputInv'
  <2>1. /\ cth[t].at = "send" /\ cth'[t].at \in {"panic", "loop", "putch"}
        /\ \A u \in Threads : u # t => cth'[u] = cth[u]
    <3>0. cth[t].at = "send"
      BY <1>6, Zenon DEF lser_write, At
    <3>1. CASE Move(t, "panic")
      BY <1>0, <3>0, <3>1, Zenon DEF Move, Users
    <3>2. CASE cth' = [cth EXCEPT ![t] = [@ EXCEPT !.at = IF cth[t].puts = 1 THEN "loop" ELSE "putch",
                                                  !.puts = cth[t].puts - 1]]
      BY <1>0, <3>0, <3>2, Zenon DEF Users
    <3> QED BY <1>6, <3>1, <3>2, Zenon DEF lser_write
  <2> QED BY <1>2, <1>6, <2>1, Zenon DEF lser_write, NoInput, Places
<1>7. ASSUME NEW t \in Threads,
             lser_writepolled(t) \/ lser_poll_until_write(t) \/ lser_writepolled_send(t) \/ kprintf_polled_done(t)
      PROVE InputInv'
  <2>1. CASE lser_writepolled(t)
    <3>1. /\ cth[t].at = "polled" /\ cth'[t].at \in {"poll", "polled_send"}
          /\ \A u \in Threads : u # t => cth'[u] = cth[u]
      BY <1>0, <2>1, Zenon DEF lser_writepolled, At, Users
    <3> QED BY <1>2, <2>1, <3>1, Zenon DEF lser_writepolled, NoInput, Places
  <2>2. CASE lser_poll_until_write(t)
    BY <1>0, <1>2, <2>2 DEF lser_poll_until_write, At, Move, NoInput, Users, Places
  <2>3. CASE lser_writepolled_send(t)
    BY <1>0, <1>2, <2>3 DEF lser_writepolled_send, At, Move, NoInput, Users, Places
  <2>4. CASE kprintf_polled_done(t)
    BY <1>0, <1>2, <2>4 DEF kprintf_polled_done, At, Move, NoInput, Users, Places
  <2> QED BY <1>7, <2>1, <2>2, <2>3, <2>4, Zenon
<1>8. ASSUME NEW t \in Threads, lser_writepolled_done(t) PROVE InputInv'
  <2>1. cth[t].at = "poll_sent" /\ cth'[t].at = "polled" /\ \A u \in Threads : u # t => cth'[u] = cth[u]
    BY <1>0, <1>8, Zenon DEF lser_writepolled_done, At, Users
  <2> QED BY <1>2, <1>8, <2>1, Zenon DEF lser_writepolled_done, NoInput, Places
<1>9. ASSUME NEW t \in Threads, con_io_read_more(t) PROVE InputInv'
  <2>1. cth[t].at = "read" /\ cth'[t].at \in {"idle", "getch"} /\ \A u \in Threads : u # t => cth'[u] = cth[u]
    <3>0. cth[t].at = "read"
      BY <1>9, Zenon DEF con_io_read_more, At
    <3>1. CASE cth' = [cth EXCEPT ![t] = [@ EXCEPT !.at = "getch", !.ch = 0]]
      BY <1>0, <3>0, <3>1, Zenon DEF Users
    <3>2. CASE cth' = [cth EXCEPT ![t] = [@ EXCEPT !.at = "idle", !.ch = 0, !.lock = "none"]]
      BY <1>0, <3>0, <3>2, Zenon DEF Users
    <3> QED BY <1>9, <3>1, <3>2, Zenon DEF con_io_read_more
  <2> QED BY <1>2, <1>9, <2>1, Zenon DEF con_io_read_more, NoInput, Places
<1>10. ASSUME NEW t \in Threads, kgets_key(t) PROVE InputInv'
  <2>1. cth[t].at = "read" /\ cth'[t].at \in {"getch", "putch", "loop"} /\ \A u \in Threads : u # t => cth'[u] = cth[u]
    <3>0. cth[t].at = "read"
      BY <1>10, Zenon DEF kgets_key, At
    <3>1. CASE cth' = [cth EXCEPT ![t] = [@ EXCEPT !.at = "getch", !.ch = 0]]
      BY <1>0, <3>0, <3>1, Zenon DEF Users
    <3>2. CASE \E n \in 1..MaxOut : cth' = [cth EXCEPT ![t] = [@ EXCEPT !.at = "putch", !.ch = 0, !.puts = n]]
      BY <1>0, <3>0, <3>2, ZenonT(60) DEF Users
    <3>3. CASE \E n \in 1..MaxOut :
                 cth' = [cth EXCEPT ![t] = [@ EXCEPT !.at = "loop", !.ch = 0, !.lock = "kprintf", !.left = n]]
      BY <1>0, <3>0, <3>3, ZenonT(60) DEF Users
    <3> QED BY <1>10, <3>1, <3>2, <3>3, Zenon DEF kgets_key
  <2> QED BY <1>2, <1>10, <2>1, Zenon DEF kgets_key, NoInput, Places
<1>11. ASSUME NEW t \in Threads, kgets_more(t) PROVE InputInv'
  <2>1. cth[t].at = "loop" /\ cth'[t].at \in {"idle", "getch"} /\ \A u \in Threads : u # t => cth'[u] = cth[u]
    BY <1>0, <1>11, ZenonT(60) DEF kgets_more, BeginRead, Move, At, Users
  <2> QED BY <1>2, <1>11, <2>1, Zenon DEF kgets_more, BeginRead, NoInput, Places
<1> QED BY <1>1, <1>3, <1>4, <1>5, <1>6, <1>7, <1>8, <1>9, <1>10, <1>11, Zenon

LEMMA Input_Inductive ==
  ASSUME SerialInv, SoleReader, InputInv, [Next]_vars
  PROVE  InputInv'
<1>1. ASSUME NEW t \in Threads, SerialThread(t) \/ SerialCall(t) PROVE InputInv'
  BY <1>1, InputGetch_Inv, InputChar_Inv, InputTail_Inv, InputOther_Inv, Zenon DEF SerialThread, SerialCall, ConsoleStep
<1>2. CASE SerialInterrupt
  <2>1. CASE lser_irq
    BY <2>1, InputRest_Inv, Zenon DEF lser_irq
  <2> QED BY <1>2, <2>1, InputKey_Inv, InputOther_Inv, Zenon DEF SerialInterrupt, SerialHandler
<1>3. CASE UNCHANGED <<con, cth, input, taken>>
  BY <1>3, InputRest_Inv, SMTT(30)
<1>4. \/ SerialInterrupt
      \/ \E t \in Threads : SerialThread(t) \/ SerialCall(t)
      \/ UNCHANGED <<con, cth, input, taken>>
  BY ZenonT(60) DEF Next, vars, cvars, IpiRequest, IpiInterrupt, Bus, Keyboard, KeyTyped, SerialDevice, SendDone, DiskDevice,
         DiskInterrupt, DiskThread, DiskCall, EmuDone, EmuInterrupt, EmuThread, EmuRequest
<1> QED BY <1>1, <1>2, <1>3, <1>4, Zenon

\* Nobody but kgets begins to read while somebody else does, and then it is known.
LEMMA BeginRead_Sole ==
  ASSUME SerialInv, SoleReader, NEW t \in Threads, NEW l \in {"read", "none"}, BeginRead(t, l), ~mixed',
         l = "read" => locks["read"] = NULL
  PROVE  SoleReader'
<1>0. cth \in [Threads -> Users]
  BY Zenon DEF SerialInv, ConsoleTypeOK
<1>1. \A u \in Threads : u # t => cth'[u] = cth[u]
  BY <1>0, Zenon DEF BeginRead
<1>2. ASSUME NEW u \in Threads, u # t PROVE ~Reading(u)
  <2>1. Reading(u) => {l, cth[u].lock} = {"read"}
    BY <1>2, Zenon DEF BeginRead
  <2>2. Reading(u) => l = "read" /\ locks["read"] = u
    BY <2>1, Zenon DEF SerialInv, LocksHeld
  <2> QED BY <2>2, NullAssumption, Zenon
<1> QED BY <1>1, <1>2, Zenon DEF SoleReader, Reading

\* The invariant, with the number of admitted readers counted.
LEMMA Input_Exact ==
  ASSUME SerialInv, SoleReader, InputInv
  PROVE  InputExact
<1> DEFINE S == {t \in Threads : At(t, "got") \/ At(t, "tail")}
<1>0. con \in Ring /\ con.rsem \in Int /\ con.head \in 0..(N - 1) /\ con.tail \in 0..(N - 1) /\ N \in Nat \ {0}
  BY BufferAssumption, Zenon DEF SerialInv, ConsoleTypeOK, Ring, N
<1>1. (con.head + N - con.tail) % N = InRing
  <2>1. con.head + N - con.tail \in 0..(2 * N - 1)
    BY <1>0
  <2> QED BY <2>1, WrapMod, Zenon DEF InRing
<1>2. ASSUME NEW i \in 1..InRing PROVE con.got[(con.tail + i - 1) % N] = input[taken + i]
  <2>1. Slot(i) = (con.tail + i - 1) % N
    <3>1. i \in 1..Wrap(con.head + N - con.tail)
      BY Zenon DEF InRing
    <3>2. con.tail + i - 1 \in 0..(2 * N - 1)
      <4>1. Wrap(con.head + N - con.tail) \in 0..(N - 1)
        BY <1>0, RingSteps, Zenon
      <4> QED BY <1>0, <3>1, <4>1
    <3> QED BY <3>2, WrapMod, Zenon DEF Slot
  <2> QED BY <2>1, Zenon DEF InputInv
<1>3. (\A t, u \in S : t = u) /\ con.rsem = IF S = {} THEN InRing ELSE InRing - 1
  <2>1. CASE \A t \in Threads : ~Admitted(t)
    <3>1. S = {}
      BY <2>1, Zenon DEF Admitted, At
    <3> QED BY <2>1, <3>1, Zenon DEF InputInv
  <2>2. ASSUME NEW t \in Threads, Admitted(t)
        PROVE  (\A u, v \in S : u = v) /\ con.rsem = IF S = {} THEN InRing ELSE InRing - 1
    <3>1. \A u \in Threads : u # t => ~Admitted(u)
      BY <2>2, OneReader, Zenon DEF Reading, Admitted
    <3>2. S = {t}
      BY <2>2, <3>1, Zenon DEF Admitted, At
    <3>3. con.rsem = InRing - 1
      <4>1. con.rsem + 1 = InRing /\ con.rsem \in Int
        BY <1>0, <2>2, Zenon DEF InputInv
      <4> QED BY <4>1
    <3> QED BY <3>2, <3>3, Zenon
  <2> QED BY <2>1, <2>2, Zenon
<1>4. \A t \in Threads : (At(t, "tail") => cth[t].ch = input[taken + 1]) /\ (At(t, "read") => cth[t].ch = input[taken])
  BY Zenon DEF InputInv, At
<1>5. Len(input) = taken + InRing
  BY Zenon DEF InputInv
<1> QED BY <1>1, <1>2, <1>3, <1>4, <1>5, Zenon DEF InputExact

\* Who does not use the console does not read.
LEMMA RestUnread ==
  ASSUME [Next]_vars
  PROVE  \/ \E t \in Threads : SerialThread(t) \/ SerialCall(t)
         \/ UNCHANGED <<cth, mixed>>
BY ZenonT(60) DEF Next, vars, cvars, IpiRequest, IpiInterrupt, Bus, Keyboard, KeyTyped, SerialDevice, SendDone, DiskDevice,
     DiskInterrupt, DiskThread, DiskCall, EmuDone, EmuInterrupt, EmuThread, EmuRequest, SerialInterrupt, SerialHandler,
     lser_irq, con_start, con_input

LEMMA Mixed_Stays ==
  ASSUME [Next]_vars, mixed
  PROVE  mixed'
<1>1. ASSUME NEW t \in Threads, ConsoleCall(t) PROVE mixed'
  BY <1>1, Zenon DEF ConsoleCall, con_io_write, kprintf, OutputCall, kprintf_polled, con_io_read, kgets, BeginRead, NoInput
<1>2. ASSUME NEW t \in Threads, ConsoleStep(t) PROVE mixed'
  BY <1>2, Zenon DEF ConsoleStep, OutputLoop, putch_intr, lser_write, lser_writepolled, lser_poll_until_write,
        lser_writepolled_send, lser_writepolled_done, kprintf_polled_done, getch_intr, getch_intr_char,
        getch_intr_tail, con_io_read_more, kgets_key, kgets_more, BeginRead, NoInput
<1>3. \/ \E t \in Threads : SerialThread(t) \/ SerialCall(t)
      \/ UNCHANGED <<cth, mixed>>
  BY RestUnread, Zenon
<1> QED BY <1>1, <1>2, <1>3, Zenon DEF SerialThread, SerialCall

LEMMA Reader_Step ==
  ASSUME SerialInv, SoleReader, [Next]_vars, ~mixed'
  PROVE  SoleReader'
<1>0. cth \in [Threads -> Users]
  BY Zenon DEF SerialInv, ConsoleTypeOK
<1>1. ASSUME NEW t \in Threads, Reading(t)' => Reading(t), \A u \in Threads : u # t => cth'[u] = cth[u]
      PROVE  SoleReader'
  BY <1>1, Zenon DEF SoleReader, Reading
<1>2. ASSUME NEW t \in Threads, NEW from \in Places, NEW to \in Places, cth[t].at = from, cth'[t].at = to,
             to \in {"getch", "got", "tail", "read"} => from \in {"getch", "got", "tail", "read"},
             \A u \in Threads : u # t => cth'[u] = cth[u]
      PROVE  SoleReader'
  BY <1>1, <1>2, Zenon DEF Reading
<1>3. ASSUME NEW t \in Threads, ConsoleCall(t) PROVE SoleReader'
  <2>1. ASSUME NEW l, OutputCall(t, l) PROVE SoleReader'
    <3>1. cth[t].at = "idle" /\ cth'[t].at = "loop" /\ \A u \in Threads : u # t => cth'[u] = cth[u]
      BY <1>0, <2>1, Zenon DEF OutputCall, At, Users
    <3> QED BY <1>2, <2>1, <3>1, Zenon DEF Places
  <2>2. CASE kprintf_polled(t)
    <3>1. cth[t].at = "idle" /\ cth'[t].at = "polled" /\ \A u \in Threads : u # t => cth'[u] = cth[u]
      BY <1>0, <2>2, Zenon DEF kprintf_polled, At, Users
    <3> QED BY <1>2, <2>2, <3>1, Zenon DEF Places
  <2>3. CASE con_io_read(t)
    BY <2>3, BeginRead_Sole, Zenon DEF con_io_read, Take
  <2>4. CASE kgets(t)
    BY <2>4, BeginRead_Sole, Zenon DEF kgets
  <2> QED BY <1>3, <2>1, <2>2, <2>3, <2>4, Zenon DEF ConsoleCall, con_io_write, kprintf
<1>4. ASSUME NEW t \in Threads, ConsoleStep(t) PROVE SoleReader'
  <2>1. CASE kgets_more(t)
    <3>1. CASE BeginRead(t, "none")
      BY <3>1, BeginRead_Sole, Zenon
    <3>2. CASE Move(t, "idle")
      <4>1. cth'[t].at = "idle" /\ \A u \in Threads : u # t => cth'[u] = cth[u]
        BY <1>0, <3>2, Zenon DEF Move, Users
      <4> QED BY <1>1, <3>2, <4>1, Zenon DEF Reading
    <3> QED BY <2>1, <3>1, <3>2, Zenon DEF kgets_more
  <2>2. CASE ~kgets_more(t)
    <3>2. \A u \in Threads : u # t => cth'[u] = cth[u]
      BY <1>0, <1>4, <2>2, ZenonT(60) DEF ConsoleStep, OutputLoop, putch_intr, lser_write, lser_writepolled,
            lser_poll_until_write, lser_writepolled_send, lser_writepolled_done, kprintf_polled_done, getch_intr,
            getch_intr_char, getch_intr_tail, con_io_read_more, kgets_key, Move
    <3>3. CASE Reading(t)
      BY <1>1, <3>2, <3>3, Zenon
    <3>4. CASE ~Reading(t)
      <4>1. CASE OutputLoop(t)
        <5>1. cth'[t].at \in {"putch", "idle"}
          <6>1. CASE \E n \in {1, 2} :
                       cth' = [cth EXCEPT ![t] = [@ EXCEPT !.at = "putch", !.left = cth[t].left - 1, !.puts = n]]
            BY <1>0, <6>1 DEF Users
          <6>2. CASE cth' = [cth EXCEPT ![t] = [@ EXCEPT !.at = "idle", !.lock = "none", !.left = 0]]
            BY <1>0, <6>2, Zenon DEF Users
          <6> QED BY <4>1, <6>1, <6>2, Zenon DEF OutputLoop
        <5> QED BY <1>1, <3>2, <5>1, Zenon DEF Reading
      <4>2. CASE putch_intr(t) \/ kprintf_polled_done(t) \/ lser_poll_until_write(t) \/ lser_writepolled_send(t)
        <5>1. cth'[t].at \in {"send", "idle", "polled_send", "poll_sent"}
          <6>1. PICK p \in {"send", "idle", "polled_send", "poll_sent"} : Move(t, p)
            BY <4>2, Zenon DEF putch_intr, kprintf_polled_done, lser_poll_until_write, lser_writepolled_send
          <6> QED BY <1>0, <6>1, Zenon DEF Move, Users
        <5> QED BY <1>1, <3>2, <5>1, Zenon DEF Reading
      <4>3. CASE lser_write(t)
        <5>1. cth'[t].at \in {"panic", "loop", "putch"}
          <6>1. CASE Move(t, "panic")
            BY <1>0, <6>1, Zenon DEF Move, Users
          <6>2. CASE cth' = [cth EXCEPT ![t] = [@ EXCEPT !.at = IF cth[t].puts = 1 THEN "loop" ELSE "putch",
                                                        !.puts = cth[t].puts - 1]]
            BY <1>0, <6>2, Zenon DEF Users
          <6> QED BY <4>3, <6>1, <6>2, Zenon DEF lser_write
        <5> QED BY <1>1, <3>2, <5>1, Zenon DEF Reading
      <4>4. CASE lser_writepolled(t)
        <5>1. cth'[t].at \in {"poll", "polled_send"}
          BY <1>0, <4>4, Zenon DEF lser_writepolled, Users
        <5> QED BY <1>1, <3>2, <5>1, Zenon DEF Reading
      <4>5. CASE lser_writepolled_done(t)
        <5>1. cth'[t].at = "polled"
          BY <1>0, <4>5, Zenon DEF lser_writepolled_done, Users
        <5> QED BY <1>1, <3>2, <5>1, Zenon DEF Reading
      <4>6. ~(getch_intr(t) \/ getch_intr_char(t) \/ getch_intr_tail(t) \/ con_io_read_more(t) \/ kgets_key(t))
        BY <3>4, Zenon DEF Reading, getch_intr, getch_intr_char, getch_intr_tail, con_io_read_more, kgets_key, At
      <4> QED BY <1>4, <2>2, <4>1, <4>2, <4>3, <4>4, <4>5, <4>6, Zenon DEF ConsoleStep
    <3> QED BY <3>3, <3>4, Zenon
  <2> QED BY <2>1, <2>2, Zenon
<1>5. CASE UNCHANGED <<cth, mixed>>
  BY <1>5, Zenon DEF SoleReader, Reading
<1>6. \/ \E t \in Threads : SerialThread(t) \/ SerialCall(t)
      \/ UNCHANGED <<cth, mixed>>
  BY RestUnread, Zenon
<1> QED BY <1>3, <1>4, <1>5, <1>6, Zenon DEF SerialThread, SerialCall

RingInv == ~mixed => SoleReader /\ InputInv

(***************************************************************************)
(* InputExact holds in every behaviour of the machine, for a ring of any    *)
(* size: unless kgets and another thread have been reading at the same      *)
(* time, getch and con_input neither lose nor repeat nor reorder a key that *)
(* was accepted, and cs_rsem counts the keys.  That con_io's own readers    *)
(* never read at the same time is part of the proof.                        *)
(***************************************************************************)
THEOREM InputSafe == Spec => []InputExact
<1>1. Init => SerialInv /\ RingInv
  <2>1. Init => SoleReader
    <3>1. ASSUME Init, NEW t \in Threads PROVE ~Reading(t)
      BY <3>1, Zenon DEF Init, ConsoleInit, Reading
    <3> QED BY <3>1, Zenon DEF SoleReader
  <2> QED BY <2>1, Serial_Init, Input_Init, Zenon DEF RingInv
<1>2. (SerialInv /\ RingInv) /\ [Next]_vars => (SerialInv /\ RingInv)'
  <2> SUFFICES ASSUME SerialInv, RingInv, [Next]_vars PROVE SerialInv' /\ RingInv'
    OBVIOUS
  <2>1. mixed => mixed'
    BY Mixed_Stays, Zenon
  <2>2. ASSUME ~mixed' PROVE SoleReader' /\ InputInv'
    BY <2>1, <2>2, Reader_Step, Input_Inductive, Zenon DEF RingInv
  <2> QED BY <2>2, Serial_Inductive, Zenon DEF RingInv
<1>3. SerialInv /\ RingInv => InputExact
  <2>1. CASE mixed
    BY <2>1, Zenon DEF InputExact
  <2>2. CASE ~mixed
    BY <2>2, Input_Exact, Zenon DEF RingInv
  <2> QED BY <2>1, <2>2, Zenon
<1> QED BY <1>1, <1>2, <1>3, PTL DEF Spec
=============================================================================
