------------------------------- MODULE Wchan --------------------------------
(***************************************************************************)
(* Wait channels as the synchronization primitives use them: a FIFO of      *)
(* sleeping threads (thread.c, on top of threadlist.c).  These operators    *)
(* say what a channel holds after wchan_sleep, wchan_wakeone and            *)
(* wchan_wakeall, and whom a wakeup makes runnable; a channel is only       *)
(* touched while its spinlock is held.  How a thread gets on and off the    *)
(* CPU in between is module Sched.                                          *)
(***************************************************************************)
EXTENDS Integers, Sequences

\* wchan_sleep puts the current thread at the tail.
wchan_sleep(wc, t) == Append(wc, t)

\* wchan_wakeone takes the thread at the head, if there is one.
wakeone_target(wc) == IF wc = <<>> THEN {} ELSE {Head(wc)}
wchan_wakeone(wc)  == IF wc = <<>> THEN wc ELSE Tail(wc)

\* wchan_wakeall takes them all.
wakeall_target(wc) == {wc[i] : i \in DOMAIN wc}
wchan_wakeall(wc)  == <<>>

\* The channel holds exactly the threads of A, each once.
Lists(wc, A) ==
  /\ wc \in Seq(A)
  /\ \A t \in A : \E i \in 1..Len(wc) : wc[i] = t
  /\ \A i, j \in 1..Len(wc) : wc[i] = wc[j] => i = j
=============================================================================
