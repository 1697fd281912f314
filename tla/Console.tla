------------------------------ MODULE Console -------------------------------
(***************************************************************************)
(* The console (kern/dev/generic/console.c), the serial port under it       *)
(* (kern/dev/lamebus/lser.c), and kprintf and kgets on top (kern/lib), from *)
(* the moment config_con has attached them.  A section under ls_lock is one *)
(* step, except lser_writepolled, which keeps the lock while it waits for   *)
(* the device.  Semaphores and sleep locks are atomic, as Semaphore and     *)
(* CondVar show.  Keys are numbered, output characters are only counted.    *)
(***************************************************************************)
EXTENDS Lamebus, Sequences

CONSTANTS
  Threads,
  NULL,
  CONSOLE_INPUT_BUFFER_SIZE,
  SerialSlot,
  MaxOut         \* bound: characters of one write or kprintf, or kgets puts out for a key

ASSUME BufferAssumption == CONSOLE_INPUT_BUFFER_SIZE \in Nat \ {0}
ASSUME NullAssumption == NULL \notin Threads

VARIABLES
  con,      \* cs_wsem, cs_rsem, cs_gotchars and its head and tail
  locks,    \* con_userlock_read, con_userlock_write, kprintf_lock, kprintf_spinlock, ls_lock
  ls_wbusy,
  ser,      \* the device: what it sends and receives, and its two interrupt registers
  found,    \* lser_irq's clear_to_write, got_a_read and ch
  cth,      \* a thread: where it is, how many characters are left, what it has read
  keys,     \* keys typed so far
  input,    \* the keys con_input accepted, in order
  taken,    \* how many of them getch has removed
  mixed     \* kgets and somebody else have been reading at the same time

cvars == <<con, locks, ls_wbusy, ser, found, cth, keys, input, taken, mixed>>

N == CONSOLE_INPUT_BUFFER_SIZE

ConsoleInit ==
  /\ con = [wsem |-> 1, rsem |-> 0, head |-> 0, tail |-> 0, got |-> [i \in 0..(N - 1) |-> 0]]
  /\ locks = [l \in {"read", "write", "kprintf", "kspin", "ls"} |-> NULL]
  /\ ls_wbusy = FALSE
  /\ ser = [sending |-> FALSE, lost |-> FALSE, rchar |-> 0,
            wactive |-> FALSE, wforce |-> FALSE, wenable |-> TRUE, ractive |-> FALSE]
  /\ found = [start |-> FALSE, input |-> FALSE, ch |-> 0]
  /\ cth = [t \in Threads |-> [at |-> "idle", lock |-> "none", left |-> 0, puts |-> 0, ch |-> 0,
                               tail |-> 0, pending |-> FALSE]]
  /\ keys = 0
  /\ input = <<>>
  /\ taken = 0
  /\ mixed = FALSE

At(t, at) == cth[t].at = at
Take(l, t) == locks[l] = NULL /\ locks' = [locks EXCEPT ![l] = t]
Give(l) == locks' = [locks EXCEPT ![l] = NULL]
Move(t, at) == cth' = [cth EXCEPT ![t].at = at]
NoInput == UNCHANGED <<keys, input, taken, mixed>>

----------------------------------------------------------------------------
\* The device.

\* A character written while one is being sent is lost.
WriteChar(s) == [s EXCEPT !.sending = TRUE, !.lost = @ \/ s.sending]

WriteWirq(s, active, force, enable) == [s EXCEPT !.wactive = active, !.wforce = force, !.wenable = enable]

SerialIrq == (ser.wenable /\ ser.wactive) \/ ser.wforce \/ ser.ractive

SendDone ==
  /\ ser.sending
  /\ ser' = [ser EXCEPT !.sending = FALSE, !.wactive = TRUE]
  /\ UNCHANGED <<con, locks, ls_wbusy, found, cth, keys, input, taken, mixed, irq>>

KeyTyped ==
  /\ ~ser.ractive
  /\ keys' = keys + 1
  /\ ser' = [ser EXCEPT !.ractive = TRUE, !.rchar = keys + 1]
  /\ UNCHANGED <<con, locks, ls_wbusy, found, cth, input, taken, mixed, irq>>

----------------------------------------------------------------------------
\* The interrupt: lser_irq under ls_lock, then con_start, then con_input.

lser_irq ==
  /\ In(SerialSlot, "call") /\ locks["ls"] = NULL
  /\ found' = [start |-> ser.wactive, input |-> ser.ractive,
               ch |-> IF ser.ractive THEN ser.rchar ELSE 0]
  /\ ls_wbusy' = (ls_wbusy /\ ~ser.wactive)
  /\ ser' = [(IF ser.wactive THEN WriteWirq(ser, FALSE, FALSE, TRUE) ELSE ser) EXCEPT !.ractive = FALSE]
  /\ GoTo("start")
  /\ UNCHANGED <<con, locks, cth, keys, input, taken, mixed>>

con_start ==
  /\ In(SerialSlot, "start")
  /\ con' = IF found.start THEN [con EXCEPT !.wsem = @ + 1] ELSE con
  /\ GoTo("input")
  /\ UNCHANGED <<locks, ls_wbusy, ser, found, cth, keys, input, taken, mixed>>

\* Mutant: the ring may fill up to the last slot.
con_input_NoGap ==
  LET nexthead == (con.head + 1) % N IN
  /\ In(SerialSlot, "input")
  /\ IF ~found.input
       THEN UNCHANGED <<con, input>>
       ELSE /\ con' = [con EXCEPT !.got[con.head] = found.ch, !.head = nexthead, !.rsem = @ + 1]
            /\ input' = Append(input, found.ch)
  /\ found' = [start |-> FALSE, input |-> FALSE, ch |-> 0]
  /\ GoTo("next")
  /\ UNCHANGED <<locks, ls_wbusy, ser, cth, keys, taken, mixed>>

\* A full ring drops the key.
con_input ==
  LET nexthead == (con.head + 1) % N IN
  /\ In(SerialSlot, "input")
  /\ IF ~found.input \/ nexthead = con.tail
       THEN UNCHANGED <<con, input>>
       ELSE /\ con' = [con EXCEPT !.got[con.head] = found.ch, !.head = nexthead, !.rsem = @ + 1]
            /\ input' = Append(input, found.ch)
  /\ found' = [start |-> FALSE, input |-> FALSE, ch |-> 0]
  /\ GoTo("next")
  /\ UNCHANGED <<locks, ls_wbusy, ser, cth, keys, taken, mixed>>

----------------------------------------------------------------------------
\* Output: con_io and kprintf in a thread that may sleep.  puts counts the putch calls of
\* the character at hand: two for a newline.

OutputCall(t, l) ==
  /\ At(t, "idle")
  /\ Take(l, t)
  /\ \E n \in 1..MaxOut :
       cth' = [cth EXCEPT ![t] = [@ EXCEPT !.at = "loop", !.lock = l, !.left = n]]
  /\ UNCHANGED <<con, ls_wbusy, ser, found, irq>> /\ NoInput

con_io_write(t) == OutputCall(t, "write")
kprintf(t) == OutputCall(t, "kprintf")

\* uiomove may fail, which ends the call; kprintf has its characters at hand.
OutputLoop(t) ==
  /\ At(t, "loop") /\ cth[t].lock # "none"
  /\ \/ /\ cth[t].left > 0
        /\ \E n \in IF cth[t].lock = "write" THEN {1, 2} ELSE {1} :
             cth' = [cth EXCEPT ![t] = [@ EXCEPT !.at = "putch", !.left = cth[t].left - 1, !.puts = n]]
        /\ UNCHANGED locks
     \/ /\ cth[t].left = 0 \/ cth[t].lock = "write"
        /\ Give(cth[t].lock)
        /\ cth' = [cth EXCEPT ![t] = [@ EXCEPT !.at = "idle", !.lock = "none", !.left = 0]]
  /\ UNCHANGED <<con, ls_wbusy, ser, found, irq>> /\ NoInput

\* Mutant: the write semaphore is not waited for.
putch_intr_NoWait(t) ==
  /\ At(t, "putch")
  /\ Move(t, "send")
  /\ UNCHANGED <<con, locks, ls_wbusy, ser, found, irq>> /\ NoInput

putch_intr(t) ==
  /\ At(t, "putch") /\ con.wsem > 0
  /\ con' = [con EXCEPT !.wsem = @ - 1]
  /\ Move(t, "send")
  /\ UNCHANGED <<locks, ls_wbusy, ser, found, irq>> /\ NoInput

lser_write(t) ==
  /\ At(t, "send") /\ locks["ls"] = NULL
  /\ IF ls_wbusy
       THEN Move(t, "panic") /\ UNCHANGED <<ls_wbusy, ser>>
       ELSE /\ ls_wbusy' = TRUE
            /\ ser' = WriteChar(ser)
            /\ cth' = [cth EXCEPT ![t] = [@ EXCEPT !.at = IF cth[t].puts = 1 THEN "loop" ELSE "putch", !.puts = cth[t].puts - 1]]
  /\ UNCHANGED <<con, locks, found, irq>> /\ NoInput

----------------------------------------------------------------------------
(***************************************************************************)
(* Output that may not sleep: kprintf with a spinlock held, at a raised     *)
(* interrupt level or in an interrupt, one lser_writepolled per character.  *)
(***************************************************************************)
kprintf_polled(t) ==
  /\ At(t, "idle")
  /\ Take("kspin", t)
  /\ \E n \in 1..MaxOut :
       cth' = [cth EXCEPT ![t] = [@ EXCEPT !.at = "polled", !.left = n]]
  /\ UNCHANGED <<con, ls_wbusy, ser, found, irq>> /\ NoInput

\* With a character under way its interrupt is still to come; otherwise interrupts go off.
lser_writepolled(t) ==
  /\ At(t, "polled") /\ cth[t].left > 0
  /\ Take("ls", t)
  /\ cth' = [cth EXCEPT ![t] = [@ EXCEPT !.at = IF ls_wbusy THEN "poll" ELSE "polled_send", !.pending = ls_wbusy]]
  /\ ser' = IF ls_wbusy THEN ser ELSE WriteWirq(ser, FALSE, FALSE, FALSE)
  /\ UNCHANGED <<con, ls_wbusy, found, irq>> /\ NoInput

\* The character under way is out: clear the condition but keep the interrupt asserted.
lser_poll_until_write(t) ==
  /\ At(t, "poll") /\ ser.wactive
  /\ ser' = WriteWirq(ser, FALSE, TRUE, TRUE)
  /\ Move(t, "polled_send")
  /\ UNCHANGED <<con, locks, ls_wbusy, found, irq>> /\ NoInput

lser_writepolled_send(t) ==
  /\ At(t, "polled_send")
  /\ ser' = WriteChar(ser)
  /\ Move(t, "poll_sent")
  /\ UNCHANGED <<con, locks, ls_wbusy, found, irq>> /\ NoInput

\* Mutant: the condition is cleared whether or not an interrupt is pending.
lser_writepolled_done_Clears(t) ==
  /\ At(t, "poll_sent") /\ ser.wactive
  /\ ser' = WriteWirq(ser, FALSE, FALSE, TRUE)
  /\ Give("ls")
  /\ cth' = [cth EXCEPT ![t] = [@ EXCEPT !.at = "polled", !.pending = FALSE, !.left = cth[t].left - 1]]
  /\ UNCHANGED <<con, ls_wbusy, found, irq>> /\ NoInput

lser_writepolled_done(t) ==
  /\ At(t, "poll_sent") /\ ser.wactive
  /\ ser' = IF cth[t].pending THEN ser ELSE WriteWirq(ser, FALSE, FALSE, TRUE)
  /\ Give("ls")
  /\ cth' = [cth EXCEPT ![t] = [@ EXCEPT !.at = "polled", !.pending = FALSE, !.left = cth[t].left - 1]]
  /\ UNCHANGED <<con, ls_wbusy, found, irq>> /\ NoInput

kprintf_polled_done(t) ==
  /\ At(t, "polled") /\ cth[t].left = 0
  /\ Give("kspin")
  /\ Move(t, "idle")
  /\ UNCHANGED <<con, ls_wbusy, ser, found, irq>> /\ NoInput

----------------------------------------------------------------------------
(***************************************************************************)
(* Input: con_io holds con_userlock_read over its calls of getch, kgets no  *)
(* lock at all.  The character is fetched and the tail advanced without a   *)
(* lock, while con_input may run.                                           *)
(***************************************************************************)
Reading(t) == cth[t].at \in {"getch", "got", "tail", "read"}

\* A thread begins to read, under lock l or, in kgets, under none.
BeginRead(t, l) ==
  /\ cth' = [cth EXCEPT ![t] = [@ EXCEPT !.at = "getch", !.lock = l]]
  /\ mixed' = (mixed \/ \E u \in Threads \ {t} : Reading(u) /\ {l, cth[u].lock} # {"read"})
  /\ UNCHANGED <<con, ls_wbusy, ser, found, keys, input, taken, irq>>

con_io_read(t) ==
  /\ At(t, "idle")
  /\ Take("read", t)
  /\ BeginRead(t, "read")

kgets(t) ==
  /\ At(t, "idle")
  /\ BeginRead(t, "none")
  /\ UNCHANGED locks

getch_intr(t) ==
  /\ At(t, "getch") /\ con.rsem > 0
  /\ con' = [con EXCEPT !.rsem = @ - 1]
  /\ Move(t, "got")
  /\ UNCHANGED <<locks, ls_wbusy, ser, found, irq>> /\ NoInput

getch_intr_char(t) ==
  /\ At(t, "got")
  /\ cth' = [cth EXCEPT ![t] = [@ EXCEPT !.at = "tail", !.ch = con.got[con.tail], !.tail = con.tail]]
  /\ UNCHANGED <<con, locks, ls_wbusy, ser, found, irq>> /\ NoInput

\* The tail that is advanced is the one the character was at, or it is read once more.
getch_intr_tail(t) ==
  /\ At(t, "tail")
  /\ \E i \in {cth[t].tail, con.tail} : con' = [con EXCEPT !.tail = (i + 1) % N]
  /\ taken' = taken + 1
  /\ cth' = [cth EXCEPT ![t] = [@ EXCEPT !.at = "read", !.tail = 0]]
  /\ UNCHANGED <<locks, ls_wbusy, ser, found, irq, keys, input, mixed>>

\* uiomove failed, the line or the buffer is complete, or there is more to read.
con_io_read_more(t) ==
  /\ At(t, "read") /\ cth[t].lock = "read"
  /\ \/ /\ Give("read")
        /\ cth' = [cth EXCEPT ![t] = [@ EXCEPT !.at = "idle", !.ch = 0, !.lock = "none"]]
     \/ /\ cth' = [cth EXCEPT ![t] = [@ EXCEPT !.at = "getch", !.ch = 0]]
        /\ UNCHANGED locks
  /\ UNCHANGED <<con, ls_wbusy, ser, found, irq>> /\ NoInput

(***************************************************************************)
(* What kgets does with a key: nothing (erasing an empty line), some calls  *)
(* of putch, or, for ^R, a kprintf, after which it goes on as if called.    *)
(***************************************************************************)
kgets_key(t) ==
  /\ At(t, "read") /\ cth[t].lock = "none"
  /\ \/ /\ cth' = [cth EXCEPT ![t] = [@ EXCEPT !.at = "getch", !.ch = 0]]
        /\ UNCHANGED locks
     \/ /\ \E n \in 1..MaxOut : cth' = [cth EXCEPT ![t] = [@ EXCEPT !.at = "putch", !.ch = 0, !.puts = n]]
        /\ UNCHANGED locks
     \/ /\ Take("kprintf", t)
        /\ \E n \in 1..MaxOut :
             cth' = [cth EXCEPT ![t] = [@ EXCEPT !.at = "loop", !.ch = 0, !.lock = "kprintf", !.left = n]]
  /\ UNCHANGED <<con, ls_wbusy, ser, found, irq>> /\ NoInput

\* After the last putch: the next key, or the end of the line.
kgets_more(t) ==
  /\ At(t, "loop") /\ cth[t].lock = "none"
  /\ \/ BeginRead(t, "none")
     \/ Move(t, "idle") /\ UNCHANGED <<con, ls_wbusy, ser, found, irq>> /\ NoInput
  /\ UNCHANGED locks

----------------------------------------------------------------------------
\* What a thread does of its own accord, and what it goes on to do once it has begun.
ConsoleCall(t) == con_io_write(t) \/ kprintf(t) \/ kprintf_polled(t) \/ con_io_read(t) \/ kgets(t)

ConsoleStep(t) ==
  \/ OutputLoop(t) \/ putch_intr(t) \/ lser_write(t)
  \/ lser_writepolled(t) \/ lser_poll_until_write(t) \/ lser_writepolled_send(t)
  \/ lser_writepolled_done(t) \/ kprintf_polled_done(t)
  \/ getch_intr(t) \/ getch_intr_char(t) \/ getch_intr_tail(t) \/ con_io_read_more(t)
  \/ kgets_key(t) \/ kgets_more(t)

SerialHandler == lser_irq \/ con_start \/ con_input
----------------------------------------------------------------------------
(***************************************************************************)
(* Nobody writes to the serial port before it is clear to write: lser_write *)
(* never panics, and no character, polled or not, reaches the device while  *)
(* it still sends the one before.                                           *)
(***************************************************************************)
SerialInTurn == ~ser.lost /\ \A t \in Threads : ~At(t, "panic")

(***************************************************************************)
(* The keys con_input accepts are read once each and in order, although     *)
(* reader and interrupt share the ring without a lock: what has been taken  *)
(* and what is in the ring make up what was accepted, one reader at most is *)
(* past P(cs_rsem) and has yet to take its key, and cs_rsem counts the keys *)
(* in the ring but that reader's.  This takes that kgets reads alone:       *)
(* con_io's readers exclude each other, but nothing keeps the menu and a    *)
(* program apart, and once both have been reading keys may be lost or read  *)
(* twice.                                                                   *)
(***************************************************************************)
InputExact ==
  LET n == (con.head + N - con.tail) % N
      admitted == {t \in Threads : At(t, "got") \/ At(t, "tail")} IN
  ~mixed =>
    /\ Len(input) = taken + n
    /\ \A i \in 1..n : con.got[(con.tail + i - 1) % N] = input[taken + i]
    /\ \A t, u \in admitted : t = u
    /\ con.rsem = IF admitted = {} THEN n ELSE n - 1
    /\ \A t \in Threads : /\ At(t, "tail") => cth[t].ch = input[taken + 1]
                          /\ At(t, "read") => cth[t].ch = input[taken]

\* A character handed to the port is followed by its interrupt, also when polled output
\* gets in between: the port becomes clear to write again.
OutputMoves == ls_wbusy ~> ~ls_wbusy
=============================================================================
