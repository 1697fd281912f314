---------------------------- MODULE SchedProofs -----------------------------
(***************************************************************************)
(* Theorems about the scheduler, for any number of CPUs and threads: a      *)
(* thread is in one place, a CPU keeps the stack it idles on, a CPU that    *)
(* waits has no work or an interrupt on the way, and no assertion fails.    *)
(***************************************************************************)
EXTENDS Sched, TLAPS

----------------------------------------------------------------------------
\* The inductive invariant.

ThreadPcs == {"run", "lk_back", "forking", "lk_held", "waking"}
IdlePcs == {"pick", "idle", "relock"}
BusyPcs == {"place", "tail", "exorcise"}
HandlerPcs == {"switch", "clear_ipi", "mig_count", "mig_pull", "mig_push", "mig_move", "mig_left"}
MigratingPcs == {"mig_push", "mig_move", "mig_left"}

Migrations == [i : Int, my_count : Int, total_count : Int, one_share : Int, to_send : Int]

SchedTypeOK ==
  /\ c_curthread \in [CPUs -> Threads] /\ c_isidle \in [CPUs -> BOOLEAN]
  /\ c_runqueue \in [CPUs -> Seq(Threads)] /\ c_zombies \in [CPUs -> Seq(Threads)]
  /\ woken \in [CPUs -> Seq(Threads)] /\ victims \in [CPUs -> Seq(Threads)]
  /\ wchan \in Seq(Threads)
  /\ t_state \in [Threads -> {"NONE", "RUN", "READY", "SLEEP", "ZOMBIE"}]
  /\ t_cpu \in [Threads -> CPUs \cup {NULL}]
  /\ pc \in [CPUs -> ThreadPcs \cup IdlePcs \cup BusyPcs \cup HandlerPcs]
  /\ newstate \in [CPUs -> {"READY", "SLEEP", "ZOMBIE"}]
  /\ mig \in [CPUs -> Migrations]
  /\ resume \in [Threads -> {"run", "lk_back", "forking"}]
  /\ forked \in [Threads -> Threads \cup {NULL}]

Elems(s) == {s[i] : i \in 1..Len(s)}
Distinct(s) == \A i, j \in 1..Len(s) : s[i] = s[j] => i = j

\* A list holds threads in one state, each once; a thread on a CPU's own list is that CPU's.
Listed(c) ==
  /\ Distinct(c_runqueue[c]) /\ Distinct(victims[c]) /\ Distinct(c_zombies[c]) /\ Distinct(woken[c])
  /\ \A t \in Elems(c_runqueue[c]) : t_state[t] = "READY" /\ t_cpu[t] = c /\ t \notin Elems(victims[c])
  /\ \A t \in Elems(victims[c]) : t_state[t] = "READY" /\ t_cpu[t] = c
  /\ \A t \in Elems(c_zombies[c]) : t_state[t] = "ZOMBIE" /\ t_cpu[t] = c
  /\ \A t \in Elems(woken[c]) : t_state[t] = "SLEEP" /\ t \notin Elems(wchan)
  /\ woken[c] # <<>> <=> pc[c] = "waking"
  /\ victims[c] # <<>> => pc[c] \in MigratingPcs

Channel == Distinct(wchan) /\ \A t \in Elems(wchan) : t_state[t] = "SLEEP"

\* A CPU's current thread runs, unless it has just been picked or the CPU idles on its stack.
Current(c) ==
  LET t == c_curthread[c] IN
  /\ t_cpu[t] = c
  /\ ~c_isidle[c] /\ pc[c] # "tail" => t_state[t] = "RUN"
  /\ ~c_isidle[c] /\ pc[c] = "tail" =>
       t_state[t] = "READY" /\ t \notin Elems(c_runqueue[c]) /\ t \notin Elems(victims[c])

\* A thread is where its state says.
Found(t) ==
  /\ t_state[t] = "NONE" => t_cpu[t] = NULL \/ \E u \in Threads : forked[u] = t
  /\ t_state[t] # "NONE" => t_cpu[t] \in CPUs
  /\ t_state[t] = "RUN" => c_curthread[t_cpu[t]] = t /\ ~c_isidle[t_cpu[t]]
  /\ t_state[t] = "READY" =>
       \/ t \in Elems(c_runqueue[t_cpu[t]])
       \/ t \in Elems(victims[t_cpu[t]])
       \/ c_curthread[t_cpu[t]] = t /\ ~c_isidle[t_cpu[t]]
  /\ t_state[t] = "SLEEP" => t \in Elems(wchan) \/ \E c \in CPUs : t \in Elems(woken[c])
  /\ t_state[t] = "ZOMBIE" => t \in Elems(c_zombies[t_cpu[t]])

\* A new thread is its parent's alone until it is made runnable.
Child(t) ==
  forked[t] # NULL =>
    /\ t_state[forked[t]] = "NONE" /\ t_cpu[forked[t]] \in CPUs
    /\ \A u \in Threads : forked[u] = forked[t] => u = t

PlaceInv ==
  /\ Channel
  /\ \A c \in CPUs : Listed(c) /\ Current(c)
  /\ \A t \in Threads : Found(t) /\ Child(t)

\* Where a CPU can be while it idles and while it does not, and with which spinlock.
Control(c) ==
  /\ c_isidle[c] => pc[c] \in IdlePcs \cup HandlerPcs \cup {"lk_held", "waking"}
  /\ ~c_isidle[c] => pc[c] \notin IdlePcs
  /\ pc[c] \in {"lk_held", "waking"} => lk = c
  /\ pc[c] \in {"switch", "place"} /\ newstate[c] = "SLEEP" => lk = c /\ ~c_isidle[c]
  /\ pc[c] \in {"mig_count", "mig_pull"} \cup MigratingPcs => newstate[c] = "READY"
  /\ pc[c] = "switch" /\ c_isidle[c] => newstate[c] = "READY"
  /\ pc[c] = "idle" /\ c_runqueue[c] # <<>> => c \in unidle

\* A thread has a child to make runnable when that is where it goes on.
Forking(c) ==
  LET t == c_curthread[c] IN
  ~c_isidle[c] =>
    /\ pc[c] \in ThreadPcs => (forked[t] # NULL <=> pc[c] = "forking")
    /\ pc[c] \in {"switch", "place"} /\ newstate[c] # "READY" => resume[t] # "forking"

Resumes(t) ==
  /\ (\A c \in CPUs : c_curthread[c] = t /\ ~c_isidle[c] => pc[c] \notin ThreadPcs)
       => (forked[t] # NULL <=> resume[t] = "forking")
  /\ t_state[t] \in {"NONE", "ZOMBIE"} => forked[t] = NULL

\* The counts of thread_consider_migration: the own queue can only have grown since.
Counted(c) ==
  /\ mig[c].to_send >= 0 /\ mig[c].total_count >= 0
  /\ 0 <= mig[c].my_count /\ mig[c].my_count <= Len(c_runqueue[c])
  /\ pc[c] # "mig_count" => mig[c].my_count = 0
  /\ pc[c] = "mig_count" => mig[c].i \in CPUs
  /\ pc[c] = "mig_pull" => mig[c].to_send <= Len(c_runqueue[c])
  /\ pc[c] \in {"mig_push", "mig_move"} => mig[c].to_send <= Len(victims[c]) /\ mig[c].i >= 1
  /\ pc[c] = "mig_move" => mig[c].i \in CPUs \ {c}

SchedInv ==
  /\ SchedTypeOK /\ PlaceInv
  /\ \A c \in CPUs : Control(c) /\ Forking(c) /\ Counted(c)
  /\ \A t \in Threads : Resumes(t)

----------------------------------------------------------------------------
\* Lists.

LEMMA ElemsEmpty == Elems(<<>>) = {} /\ Distinct(<<>>)
BY DEF Elems, Distinct

LEMMA EmptyLen == ASSUME NEW s \in Seq(Threads) PROVE s # <<>> <=> Len(s) > 0
OBVIOUS

LEMMA Pred == \A n \in Nat : n > 0 => (n - 1 > 0 <=> n # 1)
OBVIOUS

LEMMA ElemsTyped ==
  ASSUME NEW s \in Seq(Threads)
  PROVE  Elems(s) \subseteq Threads /\ (s # <<>> => Head(s) \in Elems(s)) /\ wakeall_target(s) = Elems(s)
BY DEF Elems, wakeall_target

LEMMA AppendElems ==
  ASSUME NEW s \in Seq(Threads), NEW t \in Threads
  PROVE  /\ Append(s, t) \in Seq(Threads) /\ Append(s, t) # <<>> /\ Len(Append(s, t)) = Len(s) + 1
         /\ Elems(Append(s, t)) = Elems(s) \cup {t}
         /\ Distinct(s) /\ t \notin Elems(s) => Distinct(Append(s, t))
<1>1. /\ Append(s, t) \in Seq(Threads) /\ Len(Append(s, t)) = Len(s) + 1 /\ Len(s) \in Nat
      /\ \A i \in 1..Len(s) : Append(s, t)[i] = s[i]
      /\ Append(s, t)[Len(s) + 1] = t
  OBVIOUS
<1>2. \A i \in 1..(Len(s) + 1) : i \in 1..Len(s) \/ i = Len(s) + 1
  BY <1>1
<1>3. Elems(Append(s, t)) = Elems(s) \cup {t}
  BY <1>1, <1>2 DEF Elems
<1>4. Distinct(s) /\ t \notin Elems(s) => Distinct(Append(s, t))
  BY <1>1, <1>2, Zenon DEF Elems, Distinct
<1> QED BY <1>1, <1>3, <1>4

LEMMA TailElems ==
  ASSUME NEW s \in Seq(Threads), s # <<>>, Distinct(s)
  PROVE  /\ Tail(s) \in Seq(Threads) /\ Len(Tail(s)) = Len(s) - 1 /\ Head(s) \in Threads
         /\ Elems(Tail(s)) = Elems(s) \ {Head(s)}
         /\ Distinct(Tail(s))
<1>1. /\ Tail(s) \in Seq(Threads) /\ Len(Tail(s)) = Len(s) - 1 /\ Len(s) \in Nat \ {0} /\ Head(s) = s[1]
      /\ \A i \in 1..(Len(s) - 1) : Tail(s)[i] = s[i + 1]
  OBVIOUS
<1>2. Distinct(Tail(s))
  BY <1>1 DEF Distinct
<1>3. ASSUME NEW t \in Elems(s), t # Head(s) PROVE t \in Elems(Tail(s))
  <2>1. PICK i \in 1..Len(s) : s[i] = t
    BY Zenon DEF Elems
  <2>2. i - 1 \in 1..(Len(s) - 1) /\ Tail(s)[i - 1] = t
    BY <1>1, <1>3, <2>1
  <2> QED BY <1>1, <2>2, Zenon DEF Elems
<1>4. ASSUME NEW t \in Elems(Tail(s)) PROVE t \in Elems(s) /\ t # Head(s)
  <2>1. PICK i \in 1..(Len(s) - 1) : Tail(s)[i] = t
    BY <1>1, Zenon DEF Elems
  <2>2. i + 1 \in 1..Len(s) /\ s[i + 1] = t /\ i + 1 # 1 /\ 1 \in 1..Len(s)
    BY <1>1, <2>1
  <2> QED BY <1>1, <2>2, Zenon DEF Elems, Distinct
<1> QED BY <1>1, <1>2, <1>3, <1>4

LEMMA CutElems ==
  ASSUME NEW s \in Seq(Threads), Distinct(s), NEW k \in 0..Len(s)
  PROVE  LET front == SubSeq(s, 1, k)
             back == SubSeq(s, k + 1, Len(s)) IN
         /\ front \in Seq(Threads) /\ back \in Seq(Threads)
         /\ Len(front) = k /\ Len(back) = Len(s) - k
         /\ Distinct(front) /\ Distinct(back)
         /\ Elems(front) \cup Elems(back) = Elems(s)
         /\ \A t \in Elems(front) : t \notin Elems(back)
<1> DEFINE front == SubSeq(s, 1, k)
           back == SubSeq(s, k + 1, Len(s))
<1>0. Len(s) \in Nat /\ k \in Nat /\ k <= Len(s)
  OBVIOUS
<1>1. front \in Seq(Threads) /\ Len(front) = k /\ \A i \in 1..k : front[i] = s[i]
  BY <1>0
<1>2. back \in Seq(Threads) /\ Len(back) = Len(s) - k /\ \A i \in 1..(Len(s) - k) : back[i] = s[k + i]
  BY <1>0
<1> HIDE DEF front, back
<1>3. Distinct(front) /\ Distinct(back)
  <2>1. Distinct(front)
    BY <1>0, <1>1 DEF Distinct
  <2>2. ASSUME NEW i \in 1..(Len(s) - k), NEW j \in 1..(Len(s) - k), back[i] = back[j] PROVE i = j
    <3>1. k + i \in 1..Len(s) /\ k + j \in 1..Len(s) /\ s[k + i] = s[k + j]
      BY <1>0, <1>2, <2>2
    <3> QED BY <1>0, <3>1 DEF Distinct
  <2> QED BY <1>2, <2>1, <2>2, Zenon DEF Distinct
<1>4. ASSUME NEW t \in Elems(s) PROVE t \in Elems(front) \cup Elems(back)
  <2>1. PICK i \in 1..Len(s) : s[i] = t
    BY Zenon DEF Elems
  <2>2. CASE i <= k
    BY <1>0, <1>1, <2>1, <2>2 DEF Elems
  <2>3. CASE i > k
    <3>1. i - k \in 1..(Len(s) - k) /\ back[i - k] = t
      BY <1>0, <1>2, <2>1, <2>3
    <3> QED BY <1>2, <3>1, Zenon DEF Elems
  <2> QED BY <1>0, <2>2, <2>3
<1>5. ASSUME NEW i \in 1..k PROVE front[i] \in Elems(s) /\ front[i] \notin Elems(back)
  BY <1>0, <1>1, <1>2 DEF Elems, Distinct
<1>6. ASSUME NEW i \in 1..(Len(s) - k) PROVE back[i] \in Elems(s)
  BY <1>0, <1>2 DEF Elems
<1>7. (\A t \in Elems(front) : t \in Elems(s) /\ t \notin Elems(back)) /\ \A t \in Elems(back) : t \in Elems(s)
  BY <1>1, <1>2, <1>5, <1>6 DEF Elems
<1> QED BY <1>1, <1>2, <1>3, <1>4, <1>7, Zenon DEF front, back

LEMMA JoinElems ==
  ASSUME NEW s \in Seq(Threads), NEW r \in Seq(Threads)
  PROVE  /\ s \o r \in Seq(Threads) /\ Len(s \o r) = Len(s) + Len(r)
         /\ Elems(s \o r) = Elems(s) \cup Elems(r)
         /\ Distinct(s) /\ Distinct(r) /\ (\A t \in Elems(s) : t \notin Elems(r)) => Distinct(s \o r)
<1>1. /\ s \o r \in Seq(Threads) /\ Len(s \o r) = Len(s) + Len(r) /\ Len(s) \in Nat /\ Len(r) \in Nat
      /\ \A i \in 1..Len(s) : (s \o r)[i] = s[i]
      /\ \A i \in 1..Len(r) : (s \o r)[Len(s) + i] = r[i]
  OBVIOUS
<1>2. ASSUME NEW i \in 1..Len(s \o r)
      PROVE  i \in 1..Len(s) \/ (i - Len(s) \in 1..Len(r) /\ (s \o r)[i] = r[i - Len(s)])
  BY <1>1
<1>3. ASSUME NEW t \in Elems(s \o r) PROVE t \in Elems(s) \cup Elems(r)
  BY <1>1, <1>2 DEF Elems
<1>4. ASSUME NEW t \in Elems(s) \cup Elems(r) PROVE t \in Elems(s \o r)
  <2>1. CASE t \in Elems(s)
    BY <1>1, <2>1 DEF Elems
  <2>2. CASE t \in Elems(r)
    <3>1. PICK i \in 1..Len(r) : t = r[i]
      BY <2>2, Zenon DEF Elems
    <3>2. Len(s) + i \in 1..Len(s \o r)
      BY <1>1
    <3> QED BY <1>1, <3>1, <3>2, Zenon DEF Elems
  <2> QED BY <1>4, <2>1, <2>2, Zenon
<1>5. ASSUME Distinct(s), Distinct(r), \A t \in Elems(s) : t \notin Elems(r) PROVE Distinct(s \o r)
  <2>1. ASSUME NEW i \in 1..Len(s), NEW j \in 1..Len(r) PROVE s[i] # r[j]
    BY <1>5, Zenon DEF Elems
  <2> QED BY <1>1, <1>2, <1>5, <2>1 DEF Distinct
<1> QED BY <1>1, <1>3, <1>4, <1>5, Zenon

----------------------------------------------------------------------------
\* What the steps share.

\* What the other CPUs see of a step of CPU c: a longer queue at most, with an interrupt if they idle.
Apart(c, d) ==
  /\ pc'[d] = pc[d] /\ newstate'[d] = newstate[d] /\ mig'[d] = mig[d] /\ victims'[d] = victims[d]
  /\ c_isidle'[d] = c_isidle[d] /\ c_curthread'[d] = c_curthread[d]
  /\ forked'[c_curthread[d]] = forked[c_curthread[d]] /\ resume'[c_curthread[d]] = resume[c_curthread[d]]
  /\ lk = d => lk' = d
  /\ d \in unidle => d \in unidle'
  /\ c_runqueue'[d] = c_runqueue[d] \/ (Len(c_runqueue'[d]) >= Len(c_runqueue[d]) /\ (c_isidle[d] => d \in unidle'))

LEMMA Others_Inv ==
  ASSUME SchedInv, SchedTypeOK', NEW c \in CPUs, \A d \in CPUs : d # c => Apart(c, d)
  PROVE  \A d \in CPUs : d # c => Control(d)' /\ Forking(d)' /\ Counted(d)'
<1> SUFFICES ASSUME NEW d \in CPUs, d # c PROVE Control(d)' /\ Forking(d)' /\ Counted(d)'
  OBVIOUS
<1>0. Control(d) /\ Forking(d) /\ Counted(d) /\ Apart(c, d)
  BY Zenon DEF SchedInv
<1>1. Control(d)'
  <2>1. pc[d] = "idle" => c_isidle[d]
    BY <1>0, Zenon DEF Control, IdlePcs
  <2>2. pc'[d] = "idle" /\ c_runqueue'[d] # <<>> => d \in unidle'
    BY <1>0, <2>1, Zenon DEF Control, Apart
  <2> QED BY <1>0, <2>2, Zenon DEF Control, Apart
<1>2. Forking(d)'
  BY <1>0, Zenon DEF Forking, Apart
<1>3. Counted(d)'
  <2>1. mig[d] \in Migrations
    BY Zenon DEF SchedInv, SchedTypeOK
  <2>2. mig[d].my_count \in Int /\ mig[d].to_send \in Int
    BY <2>1, Zenon DEF Migrations
  <2>3. c_runqueue[d] \in Seq(Threads) /\ c_runqueue'[d] \in Seq(Threads)
    BY Zenon DEF SchedInv, SchedTypeOK
  <2>4. Len(c_runqueue[d]) \in Nat /\ Len(c_runqueue'[d]) \in Nat /\ Len(c_runqueue'[d]) >= Len(c_runqueue[d])
    BY <1>0, <2>3 DEF Apart
  <2>5. pc'[d] = pc[d] /\ mig'[d] = mig[d] /\ victims'[d] = victims[d]
    BY <1>0, Zenon DEF Apart
  <2> QED BY <1>0, <2>2, <2>4, <2>5 DEF Counted
<1> QED BY <1>1, <1>2, <1>3, Zenon

\* What is said of the threads other than t, when only CPU c and thread t do something.
LEMMA OtherThreads_Inv ==
  ASSUME SchedInv, NEW c \in CPUs, NEW t \in Threads, \A d \in CPUs : d # c => Apart(c, d),
         c_curthread[c] = t \/ c_isidle[c], c_curthread'[c] = t \/ c_isidle'[c],
         \A u \in Threads : u # t => /\ forked'[u] = forked[u] /\ resume'[u] = resume[u]
                                     /\ (t_state'[u] \in {"NONE", "ZOMBIE"} => t_state[u] \in {"NONE", "ZOMBIE"})
  PROVE  \A u \in Threads : u # t => Resumes(u)'
<1> SUFFICES ASSUME NEW u \in Threads, u # t PROVE Resumes(u)'
  OBVIOUS
<1>1. Resumes(u)
  BY Zenon DEF SchedInv
<1>2. ASSUME \A d \in CPUs : c_curthread'[d] = u /\ ~c_isidle'[d] => pc'[d] \notin ThreadPcs
      PROVE  \A d \in CPUs : c_curthread[d] = u /\ ~c_isidle[d] => pc[d] \notin ThreadPcs
  BY <1>2, Zenon DEF Apart
<1> QED BY <1>1, <1>2, Zenon DEF Resumes

LEMMA Distinct_Currents ==
  ASSUME SchedInv, NEW c \in CPUs, NEW d \in CPUs, d # c
  PROVE  c_curthread[d] # c_curthread[c]
BY Zenon DEF SchedInv, PlaceInv, Current

LEMMA Return_Forking ==
  ASSUME SchedInv, NEW c \in CPUs, ~c_isidle[c], pc[c] \notin ThreadPcs
  PROVE  forked[c_curthread[c]] # NULL <=> resume[c_curthread[c]] = "forking"
<1>1. PICK t \in Threads : t = c_curthread[c]
  BY Zenon DEF SchedInv, SchedTypeOK
<1>2. Resumes(t) /\ \A d \in CPUs : d # c => c_curthread[d] # t
  BY <1>1, Distinct_Currents, Zenon DEF SchedInv
<1> QED BY <1>1, <1>2, Zenon DEF Resumes

LEMMA Acts_Inv ==
  ASSUME SchedInv, SchedTypeOK', PlaceInv', NEW c \in CPUs, \A d \in CPUs : d # c => Apart(c, d),
         Control(c)', Forking(c)', Counted(c)', \A t \in Threads : Resumes(t)'
  PROVE  SchedInv'
<1>1. \A d \in CPUs : d # c => Control(d)' /\ Forking(d)' /\ Counted(d)'
  BY Others_Inv, Zenon
<1> QED BY <1>1, Zenon DEF SchedInv

\* Threads on lists have the lists' states.
LEMMA ListStates ==
  ASSUME SchedInv, NEW c \in CPUs
  PROVE  /\ Elems(c_runqueue[c]) \subseteq {t \in Threads : t_state[t] = "READY" /\ t_cpu[t] = c}
         /\ Elems(victims[c]) \subseteq {t \in Threads : t_state[t] = "READY" /\ t_cpu[t] = c}
         /\ Elems(c_zombies[c]) \subseteq {t \in Threads : t_state[t] = "ZOMBIE" /\ t_cpu[t] = c}
         /\ Elems(woken[c]) \subseteq {t \in Threads : t_state[t] = "SLEEP"}
         /\ Elems(wchan) \subseteq {t \in Threads : t_state[t] = "SLEEP"}
         /\ woken[c] # <<>> => lk = c
<1>1. /\ Elems(c_runqueue[c]) \subseteq Threads /\ Elems(victims[c]) \subseteq Threads /\ Elems(c_zombies[c]) \subseteq Threads
      /\ Elems(woken[c]) \subseteq Threads /\ Elems(wchan) \subseteq Threads
  BY ElemsTyped, Zenon DEF SchedInv, SchedTypeOK
<1>2. Listed(c) /\ Channel /\ Control(c)
  BY Zenon DEF SchedInv, PlaceInv
<1> QED BY <1>1, <1>2, Zenon DEF Listed, Channel, Control

\* CPU d's lists, when at most its run queue changes.
LEMMA Listed_Keeps ==
  ASSUME SchedInv, NEW d \in CPUs,
         victims'[d] = victims[d], c_zombies'[d] = c_zombies[d], woken'[d] = woken[d],
         \A v \in Elems(woken[d]) : v \notin Elems(wchan'),
         \A v \in Elems(victims[d]) \cup Elems(c_zombies[d]) \cup Elems(woken[d]) : t_state'[v] = t_state[v] /\ t_cpu'[v] = t_cpu[v],
         Distinct(c_runqueue'[d]),
         \A v \in Elems(c_runqueue'[d]) : t_state'[v] = "READY" /\ t_cpu'[v] = d /\ v \notin Elems(victims[d]),
         pc'[d] = "waking" <=> pc[d] = "waking", pc[d] \in MigratingPcs => pc'[d] \in MigratingPcs
  PROVE  Listed(d)'
<1>1. Listed(d)
  BY Zenon DEF SchedInv, PlaceInv
<1>2. Distinct(victims'[d]) /\ Distinct(c_zombies'[d]) /\ Distinct(woken'[d])
  BY <1>1, Zenon DEF Listed
<1>3. \A v \in Elems(victims'[d]) : t_state'[v] = "READY" /\ t_cpu'[v] = d
  BY <1>1 DEF Listed
<1>4. \A v \in Elems(c_zombies'[d]) : t_state'[v] = "ZOMBIE" /\ t_cpu'[v] = d
  BY <1>1 DEF Listed
<1>5. \A v \in Elems(woken'[d]) : t_state'[v] = "SLEEP" /\ v \notin Elems(wchan')
  BY <1>1 DEF Listed
<1>6. (woken'[d] # <<>> <=> pc'[d] = "waking") /\ (victims'[d] # <<>> => pc'[d] \in MigratingPcs)
  BY <1>1, Zenon DEF Listed
<1> QED BY <1>2, <1>3, <1>4, <1>5, <1>6, Zenon DEF Listed

\* The same when no list of CPU d changes.
LEMMA Listed_Same ==
  ASSUME SchedInv, NEW d \in CPUs,
         c_runqueue'[d] = c_runqueue[d], victims'[d] = victims[d], c_zombies'[d] = c_zombies[d], woken'[d] = woken[d],
         \A v \in Elems(woken[d]) : v \notin Elems(wchan'),
         \A v \in Elems(c_runqueue[d]) \cup Elems(victims[d]) \cup Elems(c_zombies[d]) \cup Elems(woken[d]) :
           t_state'[v] = t_state[v] /\ t_cpu'[v] = t_cpu[v],
         pc'[d] = "waking" <=> pc[d] = "waking", pc[d] \in MigratingPcs => pc'[d] \in MigratingPcs
  PROVE  Listed(d)'
<1>1. Listed(d)
  BY Zenon DEF SchedInv, PlaceInv
<1>2. Distinct(c_runqueue'[d])
  BY <1>1, Zenon DEF Listed
<1>3. \A v \in Elems(c_runqueue'[d]) : t_state'[v] = "READY" /\ t_cpu'[v] = d /\ v \notin Elems(victims[d])
  BY <1>1 DEF Listed
<1> QED BY <1>2, <1>3, Listed_Keeps, Zenon

\* The counts of a CPU that is not in thread_consider_migration.
LEMMA Counted_Out ==
  ASSUME SchedInv, SchedTypeOK', NEW c \in CPUs, mig'[c] = mig[c], pc[c] # "mig_count",
         pc'[c] \notin {"mig_count", "mig_pull", "mig_push", "mig_move"}
  PROVE  Counted(c)'
<1>1. Counted(c) /\ Len(c_runqueue'[c]) \in Nat
  BY DEF SchedInv, SchedTypeOK
<1>2. mig[c].my_count = 0
  BY <1>1, Zenon DEF Counted
<1> QED BY <1>1, <1>2 DEF Counted

\* No thread's way back changes.
LEMMA Resumes_Keep ==
  ASSUME SchedInv, NEW c \in CPUs, \A d \in CPUs : d # c => Apart(c, d),
         UNCHANGED <<c_curthread, c_isidle, forked, resume>>, pc[c] \in ThreadPcs => pc'[c] \in ThreadPcs,
         \A v \in Threads : t_state'[v] \in {"NONE", "ZOMBIE"} => t_state[v] \in {"NONE", "ZOMBIE"}
  PROVE  \A v \in Threads : Resumes(v)'
<1> SUFFICES ASSUME NEW v \in Threads PROVE Resumes(v)'
  OBVIOUS
<1>1. Resumes(v)
  BY Zenon DEF SchedInv
<1>2. ASSUME \A d \in CPUs : c_curthread'[d] = v /\ ~c_isidle'[d] => pc'[d] \notin ThreadPcs
      PROVE  \A d \in CPUs : c_curthread[d] = v /\ ~c_isidle[d] => pc[d] \notin ThreadPcs
  BY <1>2, Zenon DEF Apart
<1> QED BY <1>1, <1>2, Zenon DEF Resumes

----------------------------------------------------------------------------
\* Where a thread is, by its state.

\* The parts of Places(t).
OnQueues(t) == On("runqueue", c_runqueue, t)
OnWoken(t) == On("woken", woken, t)
OnVictims(t) == On("victims", victims, t)
OnZombies(t) == On("zombies", c_zombies, t)
OnChannel(t) == Positions("wchan", 0, wchan, t)
OnCpus(t) == {<<"cpu", c, 0>> : c \in {d \in CPUs : c_curthread[d] = t /\ ~c_isidle[d]}}
OnParents(t) == {<<"forked", u, 0>> : u \in {v \in Threads : forked[v] = t}}

LEMMA Places_Parts ==
  ASSUME NEW t
  PROVE  Places(t) = OnQueues(t) \cup OnWoken(t) \cup OnVictims(t) \cup OnZombies(t) \cup OnChannel(t) \cup OnCpus(t) \cup OnParents(t)
BY Zenon DEF Places, OnQueues, OnWoken, OnVictims, OnZombies, OnChannel, OnCpus, OnParents

LEMMA NoPosition ==
  ASSUME NEW s \in Seq(Threads), NEW t, t \notin Elems(s), NEW tag, NEW c
  PROVE  Positions(tag, c, s, t) = {}
BY DEF Positions, Elems

LEMMA OnePosition ==
  ASSUME NEW s \in Seq(Threads), NEW t, t \in Elems(s), Distinct(s), NEW tag, NEW c
  PROVE  \E x : Positions(tag, c, s, t) = {x}
<1>1. PICK i \in 1..Len(s) : s[i] = t
  BY Zenon DEF Elems
<1>2. {j \in DOMAIN s : s[j] = t} = {i}
  BY <1>1 DEF Distinct
<1>3. Positions(tag, c, s, t) = {<<tag, c, i>>}
  BY <1>2, Zenon DEF Positions
<1> QED BY <1>3, Zenon

LEMMA NoneOn ==
  ASSUME NEW f \in [CPUs -> Seq(Threads)], NEW t, \A c \in CPUs : t \notin Elems(f[c]), NEW tag
  PROVE  On(tag, f, t) = {}
<1>1. \A c \in CPUs : Positions(tag, c, f[c], t) = {}
  BY NoPosition, Zenon
<1> QED BY <1>1 DEF On

LEMMA OneOn ==
  ASSUME NEW f \in [CPUs -> Seq(Threads)], NEW t, NEW k \in CPUs, t \in Elems(f[k]), Distinct(f[k]),
         \A c \in CPUs : c # k => t \notin Elems(f[c]), NEW tag
  PROVE  \E x : On(tag, f, t) = {x}
<1>0. f[k] \in Seq(Threads)
  OBVIOUS
<1>1. PICK x : Positions(tag, k, f[k], t) = {x}
  BY <1>0, OnePosition, Zenon
<1>2. \A c \in CPUs : c # k => Positions(tag, c, f[c], t) = {}
  BY NoPosition, Zenon
<1>3. \A y : y \in On(tag, f, t) <=> \E c \in CPUs : y \in Positions(tag, c, f[c], t)
  BY Zenon DEF On
<1>4. On(tag, f, t) = {x}
  BY <1>1, <1>2, <1>3
<1> QED BY <1>4, Zenon

\* Where a thread is not, by its state.
LEMMA Elsewhere ==
  ASSUME SchedInv, NEW t \in Threads
  PROVE  /\ t_state[t] # "READY" => OnQueues(t) = {} /\ OnVictims(t) = {}
         /\ t_state[t] # "SLEEP" => OnWoken(t) = {} /\ OnChannel(t) = {}
         /\ t_state[t] # "ZOMBIE" => OnZombies(t) = {}
         /\ t_state[t] \notin {"RUN", "READY"} => OnCpus(t) = {}
         /\ t_state[t] # "NONE" => OnParents(t) = {}
<1>0. /\ c_runqueue \in [CPUs -> Seq(Threads)] /\ c_zombies \in [CPUs -> Seq(Threads)] /\ woken \in [CPUs -> Seq(Threads)]
      /\ victims \in [CPUs -> Seq(Threads)] /\ wchan \in Seq(Threads)
  BY Zenon DEF SchedInv, SchedTypeOK
<1>1. ASSUME t_state[t] # "READY" PROVE OnQueues(t) = {} /\ OnVictims(t) = {}
  <2>1. \A c \in CPUs : t \notin Elems(c_runqueue[c]) /\ t \notin Elems(victims[c])
    BY <1>1, ListStates, Zenon
  <2> QED BY <1>0, <2>1, NoneOn, Zenon DEF OnQueues, OnVictims
<1>2. ASSUME t_state[t] # "SLEEP" PROVE OnWoken(t) = {} /\ OnChannel(t) = {}
  <2>1. (\A c \in CPUs : t \notin Elems(woken[c])) /\ t \notin Elems(wchan)
    BY <1>2, ListStates, Zenon DEF SchedInv, PlaceInv, Channel
  <2> QED BY <1>0, <2>1, NoneOn, NoPosition, Zenon DEF OnWoken, OnChannel
<1>3. ASSUME t_state[t] # "ZOMBIE" PROVE OnZombies(t) = {}
  <2>1. \A c \in CPUs : t \notin Elems(c_zombies[c])
    BY <1>3, ListStates, Zenon
  <2> QED BY <1>0, <2>1, NoneOn, Zenon DEF OnZombies
<1>4. ASSUME t_state[t] \notin {"RUN", "READY"} PROVE OnCpus(t) = {}
  <2>1. \A c \in CPUs : ~(c_curthread[c] = t /\ ~c_isidle[c])
    BY <1>4 DEF SchedInv, PlaceInv, Current
  <2> QED BY <2>1, Zenon DEF OnCpus
<1>5. ASSUME t_state[t] # "NONE" PROVE OnParents(t) = {}
  <2>1. \A v \in Threads : forked[v] # t
    BY <1>5, CpuAssumption DEF SchedInv, PlaceInv, Child
  <2> QED BY <2>1, Zenon DEF OnParents
<1> QED BY <1>1, <1>2, <1>3, <1>4, <1>5, Zenon

LEMMA Places_One ==
  ASSUME SchedInv, NEW t \in Threads, t_cpu[t] # NULL
  PROVE  \E x : Places(t) = {x}
<1>0. /\ c_runqueue \in [CPUs -> Seq(Threads)] /\ c_zombies \in [CPUs -> Seq(Threads)] /\ woken \in [CPUs -> Seq(Threads)]
      /\ victims \in [CPUs -> Seq(Threads)] /\ wchan \in Seq(Threads) /\ Found(t)
      /\ t_state[t] \in {"NONE", "RUN", "READY", "SLEEP", "ZOMBIE"} /\ t_cpu[t] \in CPUs \cup {NULL}
  BY Zenon DEF SchedInv, SchedTypeOK, PlaceInv
<1>1. PICK k \in CPUs : k = t_cpu[t]
  BY <1>0, Zenon
<1>2. /\ Listed(k) /\ Current(k)
      /\ \A d \in CPUs : d # k => /\ t \notin Elems(c_runqueue[d]) /\ t \notin Elems(victims[d]) /\ t \notin Elems(c_zombies[d])
                                  /\ c_curthread[d] # t
  BY <1>1, ListStates DEF SchedInv, PlaceInv, Current
<1>3. CASE t_state[t] = "NONE"
  <2>1. PICK u \in Threads : forked[u] = t
    BY <1>0, <1>3, Zenon DEF Found
  <2>2. \A v \in Threads : forked[v] = t => v = u
    BY <2>1, CpuAssumption, Zenon DEF SchedInv, PlaceInv, Child
  <2>3. OnParents(t) = {<<"forked", u, 0>>}
    BY <2>1, <2>2, Zenon DEF OnParents
  <2>4. Places(t) = {<<"forked", u, 0>>}
    BY <1>3, <2>3, Places_Parts, Elsewhere, Zenon
  <2> QED BY <2>4, Zenon
<1>4. ASSUME c_curthread[k] = t, ~c_isidle[k] PROVE OnCpus(t) = {<<"cpu", k, 0>>}
  BY <1>2, <1>4, Zenon DEF OnCpus
<1>5. CASE t_state[t] = "RUN"
  <2>1. OnCpus(t) = {<<"cpu", k, 0>>}
    BY <1>0, <1>1, <1>4, <1>5, Zenon DEF Found
  <2>2. Places(t) = {<<"cpu", k, 0>>}
    BY <1>5, <2>1, Places_Parts, Elsewhere, Zenon
  <2> QED BY <2>2, Zenon
<1>6. CASE t_state[t] = "ZOMBIE"
  <2>1. t \in Elems(c_zombies[k]) /\ Distinct(c_zombies[k])
    BY <1>0, <1>1, <1>2, <1>6, Zenon DEF Found, Listed
  <2>2. PICK x : OnZombies(t) = {x}
    BY <1>0, <1>2, <2>1, OneOn, Zenon DEF OnZombies
  <2>3. Places(t) = {x}
    BY <1>6, <2>2, Places_Parts, Elsewhere, Zenon
  <2> QED BY <2>3, Zenon
<1>7. CASE t_state[t] = "SLEEP"
  <2>1. CASE t \in Elems(wchan)
    <3>1. Distinct(wchan) /\ \A c \in CPUs : t \notin Elems(woken[c])
      BY <2>1, Zenon DEF SchedInv, PlaceInv, Channel, Listed
    <3>2. PICK x : OnChannel(t) = {x}
      BY <1>0, <2>1, <3>1, OnePosition, Zenon DEF OnChannel
    <3>3. OnWoken(t) = {}
      BY <1>0, <3>1, NoneOn, Zenon DEF OnWoken
    <3>4. Places(t) = {x}
      BY <1>7, <3>2, <3>3, Places_Parts, Elsewhere, Zenon
    <3> QED BY <3>4, Zenon
  <2>2. CASE t \notin Elems(wchan)
    <3>1. PICK c \in CPUs : t \in Elems(woken[c])
      BY <1>0, <1>7, <2>2, Zenon DEF Found
    <3>2. Distinct(woken[c])
      BY Zenon DEF SchedInv, PlaceInv, Listed
    <3>3. \A d \in CPUs : d # c => t \notin Elems(woken[d])
      <4>1. \A d \in CPUs : t \in Elems(woken[d]) => lk = d
        BY ListStates, ElemsEmpty, Zenon
      <4> QED BY <3>1, <4>1, Zenon
    <3>4. PICK x : OnWoken(t) = {x}
      <4>1. woken \in [CPUs -> Seq(Threads)]
        BY <1>0, Zenon
      <4>2. \E x : On("woken", woken, t) = {x}
        BY <3>1, <3>2, <3>3, <4>1, OneOn, Zenon
      <4> QED BY <4>2, Zenon DEF OnWoken
    <3>5. OnChannel(t) = {}
      BY <1>0, <2>2, NoPosition, Zenon DEF OnChannel
    <3>6. Places(t) = {x}
      BY <1>7, <3>4, <3>5, Places_Parts, Elsewhere, Zenon
    <3> QED BY <3>6, Zenon
  <2> QED BY <2>1, <2>2, Zenon
<1>8. CASE t_state[t] = "READY"
  <2>0. OnWoken(t) = {} /\ OnChannel(t) = {} /\ OnZombies(t) = {} /\ OnParents(t) = {}
    BY <1>8, Elsewhere, Zenon
  <2>1. CASE c_curthread[k] = t /\ ~c_isidle[k]
    <3>1. t \notin Elems(c_runqueue[k]) /\ t \notin Elems(victims[k])
      BY <1>2, <1>8, <2>1, Zenon DEF Current
    <3>2. OnQueues(t) = {} /\ OnVictims(t) = {}
      BY <1>0, <1>2, <3>1, NoneOn, Zenon DEF OnQueues, OnVictims
    <3>3. Places(t) = {<<"cpu", k, 0>>}
      BY <1>4, <2>0, <2>1, <3>2, Places_Parts, Zenon
    <3> QED BY <3>3, Zenon
  <2>2. CASE ~(c_curthread[k] = t /\ ~c_isidle[k])
    <3>1. OnCpus(t) = {}
      BY <1>2, <2>2, Zenon DEF OnCpus
    <3>2. CASE t \in Elems(c_runqueue[k])
      <4>1. Distinct(c_runqueue[k]) /\ t \notin Elems(victims[k])
        BY <1>2, <3>2, Zenon DEF Listed
      <4>2. PICK x : OnQueues(t) = {x}
        <5>1. c_runqueue \in [CPUs -> Seq(Threads)]
          BY <1>0, Zenon
        <5>2. \A d \in CPUs : d # k => t \notin Elems(c_runqueue[d])
          BY <1>2, Zenon
        <5>3. Distinct(c_runqueue[k])
          BY <4>1, Zenon
        <5>4. \E x : On("runqueue", c_runqueue, t) = {x}
          BY <3>2, <5>1, <5>2, <5>3, OneOn, Zenon
        <5> QED BY <5>4, Zenon DEF OnQueues
      <4>3. OnVictims(t) = {}
        BY <1>0, <1>2, <4>1, NoneOn, Zenon DEF OnVictims
      <4>4. Places(t) = {x}
        BY <2>0, <3>1, <4>2, <4>3, Places_Parts, Zenon
      <4> QED BY <4>4, Zenon
    <3>3. CASE t \notin Elems(c_runqueue[k])
      <4>1. t \in Elems(victims[k]) /\ Distinct(victims[k])
        BY <1>0, <1>1, <1>2, <1>8, <2>2, <3>3, Zenon DEF Found, Listed
      <4>2. PICK x : OnVictims(t) = {x}
        BY <1>0, <1>2, <4>1, OneOn, Zenon DEF OnVictims
      <4>3. OnQueues(t) = {}
        BY <1>0, <1>2, <3>3, NoneOn, Zenon DEF OnQueues
      <4>4. Places(t) = {x}
        BY <2>0, <3>1, <4>2, <4>3, Places_Parts, Zenon
      <4> QED BY <4>4, Zenon
    <3> QED BY <3>2, <3>3, Zenon
  <2> QED BY <2>1, <2>2, Zenon
<1> QED BY <1>0, <1>3, <1>5, <1>6, <1>7, <1>8, Zenon

LEMMA Places_None ==
  ASSUME SchedInv, NEW t \in Threads, t_cpu[t] = NULL
  PROVE  Places(t) = {}
<1>1. t_state[t] = "NONE"
  BY CpuAssumption, Zenon DEF SchedInv, PlaceInv, Found
<1>2. \A v \in Threads : forked[v] # t
  BY CpuAssumption, Zenon DEF SchedInv, PlaceInv, Child
<1>3. OnParents(t) = {}
  BY <1>2, Zenon DEF OnParents
<1> QED BY <1>1, <1>3, Places_Parts, Elsewhere, Zenon

----------------------------------------------------------------------------
\* Steps that move threads.

\* thread_make_runnable, for a thread that is not runnable, puts it on the queue of its CPU k.
Queued(u, k) ==
  /\ c_runqueue' \in [CPUs -> Seq(Threads)]
  /\ t_state' \in [Threads -> {"NONE", "RUN", "READY", "SLEEP", "ZOMBIE"}]
  /\ t_state'[u] = "READY" /\ \A v \in Threads : v # u => t_state'[v] = t_state[v]
  /\ u \in Elems(c_runqueue'[k])
  /\ \A d \in CPUs :
       /\ Distinct(c_runqueue'[d]) /\ Len(c_runqueue'[d]) >= Len(c_runqueue[d])
       /\ \A v \in Elems(c_runqueue'[d]) : t_state'[v] = "READY" /\ t_cpu[v] = d /\ v \notin Elems(victims[d])
       /\ Elems(c_runqueue[d]) \subseteq Elems(c_runqueue'[d])
       /\ Elems(c_runqueue'[d]) \subseteq Elems(c_runqueue[d]) \cup {u}
       /\ d \in unidle => d \in unidle'
       /\ c_runqueue'[d] = c_runqueue[d] \/ (c_isidle[d] => d \in unidle')

LEMMA Runnable_Queues ==
  ASSUME SchedInv, NEW u \in Threads, NEW k \in CPUs, k = t_cpu[u], t_state[u] \in {"NONE", "SLEEP"},
         thread_make_runnable(u)
  PROVE  Queued(u, k)
<1>0. /\ c_runqueue \in [CPUs -> Seq(Threads)] /\ c_runqueue[k] \in Seq(Threads)
      /\ t_state \in [Threads -> {"NONE", "RUN", "READY", "SLEEP", "ZOMBIE"}]
  BY Zenon DEF SchedInv, SchedTypeOK
<1>1. PICK q : q = Append(c_runqueue[k], u)
  BY Zenon
<1>2. /\ c_runqueue' = [c_runqueue EXCEPT ![k] = q]
      /\ t_state' = [t_state EXCEPT ![u] = "READY"]
      /\ unidle' = IF c_isidle[k] THEN unidle \cup {k} ELSE unidle
  BY <1>1, Zenon DEF thread_make_runnable
<1>3. Distinct(c_runqueue[k]) /\ u \notin Elems(c_runqueue[k]) /\ u \notin Elems(victims[k])
  BY ListStates, Zenon DEF SchedInv, PlaceInv, Listed
<1>4. /\ q \in Seq(Threads) /\ Len(q) = Len(c_runqueue[k]) + 1 /\ Distinct(q)
      /\ Elems(q) = Elems(c_runqueue[k]) \cup {u}
  BY <1>0, <1>1, <1>3, AppendElems, Zenon
<1>5. /\ c_runqueue' \in [CPUs -> Seq(Threads)] /\ c_runqueue'[k] = q
      /\ \A d \in CPUs : d # k => c_runqueue'[d] = c_runqueue[d]
  BY <1>0, <1>2, <1>4, Zenon
<1>6. /\ t_state' \in [Threads -> {"NONE", "RUN", "READY", "SLEEP", "ZOMBIE"}]
      /\ t_state'[u] = "READY" /\ \A v \in Threads : v # u => t_state'[v] = t_state[v]
  BY <1>0, <1>2, Zenon
<1>7. ASSUME NEW d \in CPUs
      PROVE  /\ Distinct(c_runqueue'[d]) /\ Len(c_runqueue'[d]) >= Len(c_runqueue[d])
             /\ Elems(c_runqueue[d]) \subseteq Elems(c_runqueue'[d])
             /\ Elems(c_runqueue'[d]) \subseteq Elems(c_runqueue[d]) \cup {u}
  <2>1. CASE d = k
    <3>1. Len(c_runqueue[k]) \in Nat
      BY <1>0
    <3> QED BY <1>4, <1>5, <2>1, <3>1
  <2>2. CASE d # k
    <3>1. Distinct(c_runqueue[d]) /\ Len(c_runqueue[d]) \in Nat
      BY <1>0 DEF SchedInv, PlaceInv, Listed
    <3> QED BY <1>5, <2>2, <3>1
  <2> QED BY <2>1, <2>2, Zenon
<1>8. ASSUME NEW d \in CPUs, NEW v \in Elems(c_runqueue'[d])
      PROVE  t_state'[v] = "READY" /\ t_cpu[v] = d /\ v \notin Elems(victims[d])
  <2>1. CASE v = u
    <3>1. d = k
      BY <1>5, <2>1, ListStates, Zenon
    <3> QED BY <1>3, <1>6, <2>1, <3>1, Zenon
  <2>2. CASE v # u
    <3>1. v \in Elems(c_runqueue[d])
      BY <1>7, <2>2, Zenon
    <3>2. v \in Threads /\ t_state[v] = "READY" /\ t_cpu[v] = d /\ v \notin Elems(victims[d])
      BY <3>1, ListStates DEF SchedInv, PlaceInv, Listed
    <3> QED BY <1>6, <2>2, <3>2, Zenon
  <2> QED BY <2>1, <2>2, Zenon
<1>9. ASSUME NEW d \in CPUs
      PROVE  (d \in unidle => d \in unidle') /\ (c_runqueue'[d] = c_runqueue[d] \/ (c_isidle[d] => d \in unidle'))
  BY <1>2, <1>5, Zenon
<1> QED BY <1>4, <1>5, <1>6, <1>7, <1>8, <1>9, Zenon DEF Queued

\* The parent makes its new thread runnable.
LEMMA ForkRunnable_Inv ==
  ASSUME SchedInv, NEW c \in CPUs, ForkRunnable(c)
  PROVE  SchedInv'
<1>0. PICK t \in Threads, u \in Threads \cup {NULL} : t = c_curthread[c] /\ u = forked[t]
  BY Zenon DEF SchedInv, SchedTypeOK
<1>1. /\ pc[c] = "forking" /\ thread_make_runnable(u) /\ forked' = [forked EXCEPT ![t] = NULL]
      /\ pc' = [pc EXCEPT ![c] = "run"]
      /\ UNCHANGED <<c_curthread, c_isidle, c_zombies, wchan, lk, t_cpu, resume, newstate, woken, mig, victims>>
  BY <1>0, Zenon DEF ForkRunnable, Goto, chanvars, migvars
<1>2. ~c_isidle[c] /\ u # NULL
  BY <1>0, <1>1, Zenon DEF SchedInv, Control, IdlePcs, HandlerPcs, Forking, ThreadPcs
<1>3. u \in Threads /\ t_state[u] = "NONE" /\ t_cpu[u] \in CPUs /\ \A v \in Threads : forked[v] = u => v = t
  BY <1>0, <1>2, Zenon DEF SchedInv, SchedTypeOK, PlaceInv, Child
<1>4. PICK k \in CPUs : k = t_cpu[u]
  BY <1>3, Zenon
<1>5. Queued(u, k)
  BY <1>1, <1>3, <1>4, Runnable_Queues, Zenon
<1> USE DEF Queued
<1>6. /\ forked' \in [Threads -> Threads \cup {NULL}] /\ forked'[t] = NULL
      /\ \A v \in Threads : v # t => forked'[v] = forked[v]
      /\ pc'[c] = "run" /\ \A d \in CPUs : d # c => pc'[d] = pc[d]
  BY <1>1, Zenon DEF SchedInv, SchedTypeOK
<1>7. SchedTypeOK'
  BY <1>1, <1>5, <1>6, Zenon DEF SchedInv, SchedTypeOK, ThreadPcs
<1>8. PlaceInv'
  <2>1. Channel'
    <3>1. u \notin Elems(wchan) /\ Elems(wchan) \subseteq Threads
      BY <1>3, ListStates, Zenon
    <3> QED BY <1>1, <1>5, <3>1 DEF SchedInv, PlaceInv, Channel
  <2>2. ASSUME NEW d \in CPUs PROVE Listed(d)'
    <3>1. \A v \in Elems(victims[d]) \cup Elems(c_zombies[d]) \cup Elems(woken[d]) : v \in Threads /\ v # u
      BY <1>3, ListStates
    <3>2. pc'[d] = "waking" <=> pc[d] = "waking"
      BY <1>1, <1>6, Zenon
    <3>3. pc[d] \in MigratingPcs => pc'[d] \in MigratingPcs
      BY <1>1, <1>6, Zenon DEF MigratingPcs
    <3>4. \A v \in Elems(victims[d]) \cup Elems(c_zombies[d]) \cup Elems(woken[d]) : t_state'[v] = t_state[v] /\ t_cpu'[v] = t_cpu[v]
      BY <1>1, <1>5, <3>1, Zenon
    <3>5. /\ victims'[d] = victims[d] /\ c_zombies'[d] = c_zombies[d] /\ woken'[d] = woken[d]
          /\ \A v \in Elems(woken[d]) : v \notin Elems(wchan')
      BY <1>1, Zenon DEF SchedInv, PlaceInv, Listed
    <3>6. /\ Distinct(c_runqueue'[d])
          /\ \A v \in Elems(c_runqueue'[d]) : t_state'[v] = "READY" /\ t_cpu'[v] = d /\ v \notin Elems(victims[d])
      BY <1>1, <1>5, Zenon
    <3> QED BY <3>2, <3>3, <3>4, <3>5, <3>6, Listed_Keeps, Zenon
  <2>3. ASSUME NEW d \in CPUs PROVE Current(d)'
    <3>1. Current(d) /\ c_curthread[d] \in Threads
      BY Zenon DEF SchedInv, PlaceInv, SchedTypeOK
    <3>2. pc'[d] = "tail" <=> pc[d] = "tail"
      BY <1>1, <1>6, Zenon
    <3>3. ~c_isidle[d] => c_curthread[d] # u
      BY <1>3, <3>1, Zenon DEF Current
    <3> QED BY <1>1, <1>5, <3>1, <3>2, <3>3, Zenon DEF Current
  <2>4. ASSUME NEW v \in Threads PROVE Found(v)'
    <3>1. CASE v = u
      BY <1>1, <1>4, <1>5, <3>1, Zenon DEF Found
    <3>2. CASE v # u
      <4>1. Found(v)
        BY Zenon DEF SchedInv, PlaceInv
      <4>2. t_state[v] = "NONE" => t_cpu[v] = NULL \/ \E w \in Threads : forked'[w] = v
        BY <1>0, <1>6, <3>2, <4>1, Zenon DEF Found
      <4> QED BY <1>1, <1>5, <3>2, <4>1, <4>2, Zenon DEF Found
    <3> QED BY <3>1, <3>2, Zenon
  <2>5. ASSUME NEW v \in Threads PROVE Child(v)'
    <3>1. CASE v = t
      BY <1>6, <3>1, Zenon DEF Child
    <3>2. CASE v # t
      <4>1. Child(v) /\ forked[v] # u /\ forked'[v] = forked[v] /\ forked[v] \in Threads \cup {NULL}
        BY <1>3, <1>6, <3>2, Zenon DEF SchedInv, SchedTypeOK, PlaceInv
      <4> QED BY <1>1, <1>5, <1>6, <4>1 DEF Child
    <3> QED BY <3>1, <3>2, Zenon
  <2> QED BY <2>1, <2>2, <2>3, <2>4, <2>5, Zenon DEF PlaceInv
<1>9. ASSUME NEW d \in CPUs, d # c PROVE Apart(c, d)
  <2>1. c_curthread[d] \in Threads /\ c_curthread[d] # t
    BY <1>0, <1>9, Distinct_Currents, Zenon DEF SchedInv, SchedTypeOK
  <2> QED BY <1>1, <1>5, <1>6, <1>9, <2>1, Zenon DEF Apart
<1>10. Control(c)'
  BY <1>1, <1>2, <1>6, Zenon DEF Control, IdlePcs, HandlerPcs, MigratingPcs
<1>11. Forking(c)'
  BY <1>0, <1>1, <1>6, Zenon DEF Forking
<1>12. Counted(c)'
  <2>1. Counted(c) /\ mig[c].my_count = 0 /\ mig'[c] = mig[c] /\ Len(c_runqueue'[c]) >= 0
    BY <1>1, <1>5 DEF SchedInv, Counted
  <2> QED BY <1>6, <2>1, Zenon DEF Counted
<1>13. ASSUME NEW v \in Threads PROVE Resumes(v)'
  <2>1. CASE v = t
    <3>1. pc'[c] \in ThreadPcs
      BY <1>6, Zenon DEF ThreadPcs
    <3> QED BY <1>0, <1>1, <1>2, <1>6, <2>1, <3>1, Zenon DEF Resumes
  <2>2. CASE v # t
    <3>1. \A w \in Threads : w # t => /\ forked'[w] = forked[w] /\ resume'[w] = resume[w]
                                     /\ (t_state'[w] \in {"NONE", "ZOMBIE"} => t_state[w] \in {"NONE", "ZOMBIE"})
      BY <1>1, <1>5, <1>6, Zenon
    <3>2. c_curthread[c] = t /\ c_curthread'[c] = t
      BY <1>0, <1>1, Zenon
    <3> QED BY <1>9, <2>2, <3>1, <3>2, OtherThreads_Inv, Zenon
  <2> QED BY <2>1, <2>2, Zenon
<1> QED BY <1>7, <1>8, <1>9, <1>10, <1>11, <1>12, <1>13, Acts_Inv, Zenon


\* A wakeup makes the first of the threads it took off the channel runnable.
LEMMA WakeRunnable_Inv ==
  ASSUME SchedInv, NEW c \in CPUs, WakeRunnable(c)
  PROVE  SchedInv'
<1>0. /\ Listed(c) /\ Control(c) /\ pc[c] = "waking" /\ woken[c] \in Seq(Threads)
      /\ woken \in [CPUs -> Seq(Threads)] /\ pc \in [CPUs -> ThreadPcs \cup IdlePcs \cup BusyPcs \cup HandlerPcs]
  BY Zenon DEF WakeRunnable, SchedInv, PlaceInv, SchedTypeOK
<1>1. woken[c] # <<>> /\ Distinct(woken[c]) /\ lk = c
  BY <1>0, Zenon DEF Listed, Control
<1>2. PICK u \in Threads, rest \in Seq(Threads), to \in {"lk_held", "waking"} :
        /\ u = Head(woken[c]) /\ rest = Tail(woken[c]) /\ u \in Elems(woken[c])
        /\ Elems(rest) = Elems(woken[c]) \ {u} /\ Distinct(rest)
        /\ to = IF Len(woken[c]) = 1 THEN "lk_held" ELSE "waking"
        /\ rest # <<>> <=> to = "waking"
  <2>1. Tail(woken[c]) # <<>> <=> Len(woken[c]) # 1
    <3>1. Tail(woken[c]) \in Seq(Threads) /\ Len(Tail(woken[c])) = Len(woken[c]) - 1 /\ Len(woken[c]) \in Nat /\ Len(woken[c]) > 0
      BY <1>0, <1>1, TailElems, EmptyLen
    <3>2. Tail(woken[c]) # <<>> <=> Len(Tail(woken[c])) > 0
      BY <3>1, EmptyLen, Zenon
    <3> QED BY <3>1, <3>2, Pred, Zenon
  <2> QED BY <1>0, <1>1, <2>1, ElemsTyped, TailElems, Zenon
<1>3. /\ thread_make_runnable(u) /\ woken' = [woken EXCEPT ![c] = rest] /\ pc' = [pc EXCEPT ![c] = to]
      /\ UNCHANGED <<c_curthread, c_isidle, c_zombies, wchan, lk, t_cpu, resume, forked, newstate, mig, victims>>
  BY <1>2, Zenon DEF WakeRunnable, Goto, chanvars, migvars
<1>4. t_state[u] = "SLEEP" /\ u \notin Elems(wchan) /\ t_cpu[u] \in CPUs
  BY <1>0, <1>2, Zenon DEF Listed, SchedInv, PlaceInv, Found
<1>5. PICK k \in CPUs : k = t_cpu[u]
  BY <1>4, Zenon
<1>6. Queued(u, k)
  BY <1>3, <1>4, <1>5, Runnable_Queues, Zenon
<1> USE DEF Queued
<1>7. /\ woken' \in [CPUs -> Seq(Threads)] /\ woken'[c] = rest /\ \A d \in CPUs : d # c => woken'[d] = woken[d]
      /\ pc'[c] = to /\ \A d \in CPUs : d # c => pc'[d] = pc[d]
  BY <1>0, <1>3, Zenon
<1>8. \A d \in CPUs : d # c => woken[d] = <<>>
  BY <1>1, ListStates, Zenon
<1>9. SchedTypeOK'
  BY <1>3, <1>6, <1>7, Zenon DEF SchedInv, SchedTypeOK, ThreadPcs
<1>10. PlaceInv'
  <2>1. Channel'
    <3>1. \A v \in Elems(wchan) : v \in Threads /\ v # u /\ t_state[v] = "SLEEP"
      BY <1>4, ListStates, Zenon
    <3>2. \A v \in Elems(wchan) : t_state'[v] = "SLEEP"
      BY <1>6, <3>1, Zenon
    <3> QED BY <1>3, <3>2, Zenon DEF SchedInv, PlaceInv, Channel
  <2>2. ASSUME NEW d \in CPUs PROVE Listed(d)'
    <3>1. \A v \in Elems(victims[d]) \cup Elems(c_zombies[d]) : t_state'[v] = t_state[v] /\ t_cpu'[v] = t_cpu[v]
      <4>1. \A v \in Elems(victims[d]) \cup Elems(c_zombies[d]) : v \in Threads /\ v # u
        BY <1>4, ListStates
      <4> QED BY <1>3, <1>6, <4>1
    <3>2. /\ Distinct(c_runqueue'[d])
          /\ \A v \in Elems(c_runqueue'[d]) : t_state'[v] = "READY" /\ t_cpu'[v] = d /\ v \notin Elems(victims[d])
      BY <1>3, <1>6, Zenon
    <3>3. CASE d # c
      <4>1. Elems(woken[d]) = {} /\ woken'[d] = woken[d] /\ pc'[d] = pc[d]
        BY <1>7, <1>8, <3>3, ElemsEmpty, Zenon
      <4>2. victims'[d] = victims[d] /\ c_zombies'[d] = c_zombies[d]
        BY <1>3, Zenon
      <4> QED BY <3>1, <3>2, <4>1, <4>2, Listed_Keeps, Zenon
    <3>4. CASE d = c
      <4>1. Distinct(victims'[c]) /\ Distinct(c_zombies'[c]) /\ Distinct(woken'[c]) /\ victims'[c] = <<>>
        BY <1>0, <1>2, <1>3, <1>7, Zenon DEF Listed, MigratingPcs
      <4>2. \A v \in Elems(victims'[c]) : t_state'[v] = "READY" /\ t_cpu'[v] = c
        BY <4>1, ElemsEmpty, Zenon
      <4>3. \A v \in Elems(c_zombies'[c]) : t_state'[v] = "ZOMBIE" /\ t_cpu'[v] = c
        BY <1>0, <1>3, <3>1, <3>4, Zenon DEF Listed
      <4>4. \A v \in Elems(woken'[c]) : t_state'[v] = "SLEEP" /\ v \notin Elems(wchan')
        <5>1. \A v \in Elems(rest) : v \in Threads /\ v # u /\ t_state[v] = "SLEEP" /\ v \notin Elems(wchan)
          BY <1>0, <1>2, ListStates, Zenon DEF Listed
        <5>2. \A v \in Elems(rest) : t_state'[v] = "SLEEP"
          BY <1>6, <5>1, Zenon
        <5> QED BY <1>3, <1>7, <5>1, <5>2, Zenon
      <4>5. woken'[c] # <<>> <=> pc'[c] = "waking"
        BY <1>2, <1>7, Zenon
      <4> QED BY <3>2, <3>4, <1>3, <4>1, <4>2, <4>3, <4>4, <4>5 DEF Listed
    <3> QED BY <3>3, <3>4, Zenon
  <2>3. ASSUME NEW d \in CPUs PROVE Current(d)'
    <3>1. Current(d) /\ c_curthread[d] \in Threads
      BY Zenon DEF SchedInv, PlaceInv, SchedTypeOK
    <3>2. pc'[d] = "tail" <=> pc[d] = "tail"
      BY <1>0, <1>7, Zenon
    <3>3. ~c_isidle[d] => c_curthread[d] # u
      BY <1>4, <3>1, Zenon DEF Current
    <3> QED BY <1>3, <1>6, <3>1, <3>2, <3>3, Zenon DEF Current
  <2>4. ASSUME NEW v \in Threads PROVE Found(v)'
    <3>1. CASE v = u
      BY <1>3, <1>5, <1>6, <3>1, Zenon DEF Found
    <3>2. CASE v # u
      <4>1. Found(v) /\ t_state'[v] = t_state[v]
        BY <1>6, <3>2, Zenon DEF SchedInv, PlaceInv
      <4>2. \A d \in CPUs : v \in Elems(woken[d]) => v \in Elems(woken'[d])
        BY <1>2, <1>7, <3>2, Zenon
      <4>3. t_state'[v] = "SLEEP" => v \in Elems(wchan') \/ \E d \in CPUs : v \in Elems(woken'[d])
        BY <1>3, <4>1, <4>2, Zenon DEF Found
      <4>4. \A d \in CPUs : v \in Elems(c_runqueue[d]) => v \in Elems(c_runqueue'[d])
        BY <1>6, Zenon
      <4> QED BY <1>3, <4>1, <4>3, <4>4, Zenon DEF Found
    <3> QED BY <3>1, <3>2, Zenon
  <2>5. ASSUME NEW v \in Threads PROVE Child(v)'
    <3>1. Child(v) /\ forked[v] \in Threads \cup {NULL}
      BY Zenon DEF SchedInv, SchedTypeOK, PlaceInv
    <3> QED BY <1>3, <1>4, <1>6, <3>1, Zenon DEF Child
  <2> QED BY <2>1, <2>2, <2>3, <2>4, <2>5, Zenon DEF PlaceInv
<1>11. ASSUME NEW d \in CPUs, d # c PROVE Apart(c, d)
  BY <1>3, <1>6, <1>7, <1>11, Zenon DEF Apart
<1>12. Control(c)'
  BY <1>0, <1>1, <1>3, <1>7, Zenon DEF Control, IdlePcs, HandlerPcs, MigratingPcs
<1>13. Forking(c)'
  BY <1>0, <1>3, <1>7, Zenon DEF SchedInv, Forking, ThreadPcs
<1>14. Counted(c)'
  BY <1>0, <1>3, <1>7, <1>9, Counted_Out, Zenon
<1>15. \A v \in Threads : Resumes(v)'
  <2>1. pc'[c] \in ThreadPcs
    BY <1>7, Zenon DEF ThreadPcs
  <2> QED BY <1>3, <1>6, <1>11, <2>1, Resumes_Keep, Zenon
<1> QED BY <1>9, <1>10, <1>11, <1>12, <1>13, <1>14, <1>15, Acts_Inv, Zenon

\* A wakeup takes the first thread, or every thread, off the channel.
LEMMA WakeTake_Inv ==
  ASSUME SchedInv, NEW c \in CPUs, WakeTake(c)
  PROVE  SchedInv'
<1>0. /\ Listed(c) /\ Control(c) /\ Channel /\ pc[c] = "lk_held" /\ wchan \in Seq(Threads) /\ wchan # <<>>
      /\ woken \in [CPUs -> Seq(Threads)] /\ pc \in [CPUs -> ThreadPcs \cup IdlePcs \cup BusyPcs \cup HandlerPcs]
  BY Zenon DEF WakeTake, SchedInv, PlaceInv, SchedTypeOK
<1>1. lk = c /\ \A d \in CPUs : woken[d] = <<>>
  <2>1. woken[c] = <<>>
    BY <1>0, Zenon DEF Listed
  <2> QED BY <1>0, <2>1, ListStates, Zenon DEF Control
<1>2. Distinct(wchan) /\ \A v \in Elems(wchan) : v \in Threads /\ t_state[v] = "SLEEP"
  BY <1>0, ElemsTyped, Zenon DEF Channel
<1>3. PICK taken \in Seq(Threads), left \in Seq(Threads) :
        /\ woken' = [woken EXCEPT ![c] = taken] /\ wchan' = left /\ taken # <<>>
        /\ Distinct(taken) /\ Distinct(left) /\ Elems(taken) \cup Elems(left) = Elems(wchan)
        /\ \A v \in Elems(taken) : v \notin Elems(left)
  <2>1. CASE woken' = [woken EXCEPT ![c] = <<Head(wchan)>>] /\ wchan' = wchan_wakeone(wchan)
    <3>1. PICK u \in Threads, left \in Seq(Threads) :
            u = Head(wchan) /\ left = Tail(wchan) /\ u \in Elems(wchan) /\ Elems(left) = Elems(wchan) \ {u} /\ Distinct(left)
      BY <1>0, <1>2, ElemsTyped, TailElems, Zenon
    <3>2. <<u>> \in Seq(Threads) /\ <<u>> # <<>> /\ Elems(<<u>>) = {u} /\ Distinct(<<u>>)
      BY DEF Elems, Distinct
    <3>3. wchan' = left
      BY <1>0, <2>1, <3>1, Zenon DEF wchan_wakeone
    <3>4. Elems(<<u>>) \cup Elems(left) = Elems(wchan) /\ \A v \in Elems(<<u>>) : v \notin Elems(left)
      BY <3>1, <3>2, Zenon
    <3> QED BY <2>1, <3>1, <3>2, <3>3, <3>4, Zenon
  <2>2. CASE woken' = [woken EXCEPT ![c] = wchan] /\ wchan' = wchan_wakeall(wchan)
    <3>1. wchan' = <<>> /\ <<>> \in Seq(Threads)
      BY <2>2 DEF wchan_wakeall
    <3> QED BY <1>0, <1>2, <2>2, <3>1, ElemsEmpty, Zenon
  <2> QED BY <2>1, <2>2, Zenon DEF WakeTake
<1>4. /\ pc' = [pc EXCEPT ![c] = "waking"]
      /\ UNCHANGED <<c_curthread, c_runqueue, c_isidle, c_zombies, unidle, lk, t_state, t_cpu, resume, forked, newstate, mig, victims>>
  BY Zenon DEF WakeTake, Goto, cpuvars, threadvars, migvars
<1>5. /\ woken' \in [CPUs -> Seq(Threads)] /\ woken'[c] = taken /\ \A d \in CPUs : d # c => woken'[d] = woken[d]
      /\ pc'[c] = "waking" /\ \A d \in CPUs : d # c => pc'[d] = pc[d]
  BY <1>0, <1>3, <1>4, Zenon
<1>6. SchedTypeOK'
  BY <1>3, <1>4, <1>5, Zenon DEF SchedInv, SchedTypeOK, ThreadPcs
<1>7. PlaceInv'
  <2>1. Channel'
    BY <1>2, <1>3, <1>4, Zenon DEF Channel
  <2>2. ASSUME NEW d \in CPUs PROVE Listed(d)'
    <3>1. CASE d # c
      <4>1. woken'[d] = woken[d] /\ Elems(woken[d]) = {} /\ pc'[d] = pc[d]
        BY <1>1, <1>5, <3>1, ElemsEmpty, Zenon
      <4> QED BY <1>4, <4>1, Listed_Same, Zenon
    <3>2. CASE d = c
      <4>1. \A v \in Elems(woken'[c]) : t_state'[v] = "SLEEP" /\ v \notin Elems(wchan')
        BY <1>2, <1>3, <1>4, <1>5, Zenon
      <4>2. woken'[c] # <<>> /\ Distinct(woken'[c]) /\ victims'[c] = <<>>
        BY <1>0, <1>3, <1>4, <1>5, Zenon DEF Listed, MigratingPcs
      <4> QED BY <1>0, <1>4, <1>5, <3>2, <4>1, <4>2, Zenon DEF Listed
    <3> QED BY <3>1, <3>2, Zenon
  <2>3. ASSUME NEW d \in CPUs PROVE Current(d)'
    <3>1. pc'[d] = "tail" <=> pc[d] = "tail"
      BY <1>0, <1>5, Zenon
    <3> QED BY <1>4, <3>1, Zenon DEF SchedInv, PlaceInv, Current
  <2>4. ASSUME NEW v \in Threads PROVE Found(v)'
    <3>1. Found(v)
      BY Zenon DEF SchedInv, PlaceInv
    <3>2. \A d \in CPUs : Elems(woken[d]) = {}
      BY <1>1, ElemsEmpty, Zenon
    <3>3. t_state'[v] = "SLEEP" => v \in Elems(wchan') \/ v \in Elems(woken'[c])
      BY <1>3, <1>4, <1>5, <3>1, <3>2, Zenon DEF Found
    <3> QED BY <1>4, <3>1, <3>3, Zenon DEF Found
  <2>5. ASSUME NEW v \in Threads PROVE Child(v)'
    BY <1>4, Zenon DEF SchedInv, PlaceInv, Child
  <2> QED BY <2>1, <2>2, <2>3, <2>4, <2>5, Zenon DEF PlaceInv
<1>8. ASSUME NEW d \in CPUs, d # c PROVE Apart(c, d)
  BY <1>4, <1>5, <1>8, Zenon DEF Apart
<1>9. Control(c)'
  BY <1>0, <1>1, <1>4, <1>5, Zenon DEF Control, IdlePcs, HandlerPcs, MigratingPcs
<1>10. Forking(c)'
  BY <1>0, <1>4, <1>5, Zenon DEF SchedInv, Forking, ThreadPcs
<1>11. Counted(c)'
  BY <1>0, <1>4, <1>5, <1>6, Counted_Out, Zenon
<1>12. \A v \in Threads : Resumes(v)'
  <2>1. pc'[c] \in ThreadPcs
    BY <1>5, Zenon DEF ThreadPcs
  <2> QED BY <1>4, <1>8, <2>1, Resumes_Keep, Zenon
<1> QED BY <1>6, <1>7, <1>8, <1>9, <1>10, <1>11, <1>12, Acts_Inv, Zenon

\* A thread makes another, on its own CPU.
LEMMA ForkCreate_Inv ==
  ASSUME SchedInv, NEW c \in CPUs, NEW u \in Threads, ForkCreate(c, u)
  PROVE  SchedInv'
<1>0. PICK t \in Threads : t = c_curthread[c]
  BY Zenon DEF SchedInv, SchedTypeOK
<1>1. /\ pc[c] = "run" /\ t_state[u] = "NONE" /\ (\A v \in Threads : forked[v] # u)
      /\ t_cpu' = [t_cpu EXCEPT ![u] = t_cpu[t]] /\ resume' = [resume EXCEPT ![u] = "run"]
      /\ forked' = [forked EXCEPT ![t] = u] /\ pc' = [pc EXCEPT ![c] = "forking"]
      /\ UNCHANGED <<c_curthread, c_runqueue, c_isidle, c_zombies, unidle, wchan, lk, t_state, newstate, woken, mig, victims>>
  BY <1>0, Zenon DEF ForkCreate, Goto, cpuvars, chanvars, migvars
<1>2. Listed(c) /\ Control(c) /\ Current(c) /\ Found(u) /\ Resumes(u) /\ Forking(c)
  BY Zenon DEF SchedInv, PlaceInv
<1>3. ~c_isidle[c] /\ t_cpu[t] = c /\ t_state[t] = "RUN" /\ t # u /\ forked[u] = NULL /\ forked[t] = NULL
  <2>1. ~c_isidle[c]
    BY <1>1, <1>2, Zenon DEF Control, IdlePcs, HandlerPcs
  <2> QED BY <1>0, <1>1, <1>2, <2>1, Zenon DEF Current, Resumes, Forking, ThreadPcs
<1>4. /\ t_cpu' \in [Threads -> CPUs \cup {NULL}] /\ t_cpu'[u] = c /\ (\A v \in Threads : v # u => t_cpu'[v] = t_cpu[v])
      /\ resume' \in [Threads -> {"run", "lk_back", "forking"}] /\ resume'[u] = "run"
      /\ (\A v \in Threads : v # u => resume'[v] = resume[v])
      /\ forked' \in [Threads -> Threads \cup {NULL}] /\ forked'[t] = u /\ (\A v \in Threads : v # t => forked'[v] = forked[v])
      /\ pc'[c] = "forking" /\ (\A d \in CPUs : d # c => pc'[d] = pc[d])
  BY <1>1, <1>3, Zenon DEF SchedInv, SchedTypeOK
<1>5. SchedTypeOK'
  BY <1>1, <1>4, Zenon DEF SchedInv, SchedTypeOK, ThreadPcs
<1>6. ASSUME NEW d \in CPUs PROVE c_curthread[d] \in Threads /\ c_curthread[d] # u
  <2>1. Current(d) /\ c_curthread[d] \in Threads
    BY Zenon DEF SchedInv, PlaceInv, SchedTypeOK
  <2>2. t_cpu[u] = NULL
    BY <1>1, <1>2, Zenon DEF Found
  <2> QED BY <2>1, <2>2, CpuAssumption, Zenon DEF Current
<1>7. PlaceInv'
  <2>1. Channel'
    BY <1>1, Zenon DEF SchedInv, PlaceInv, Channel
  <2>2. ASSUME NEW d \in CPUs PROVE Listed(d)'
    <3>1. \A v \in Elems(c_runqueue[d]) \cup Elems(victims[d]) \cup Elems(c_zombies[d]) \cup Elems(woken[d]) : v \in Threads /\ v # u
      BY <1>1, ListStates
    <3>2. \A v \in Elems(c_runqueue[d]) \cup Elems(victims[d]) \cup Elems(c_zombies[d]) \cup Elems(woken[d]) :
            t_state'[v] = t_state[v] /\ t_cpu'[v] = t_cpu[v]
      BY <1>1, <1>4, <3>1, Zenon
    <3>3. (pc'[d] = "waking" <=> pc[d] = "waking") /\ (pc[d] \in MigratingPcs => pc'[d] \in MigratingPcs)
      BY <1>1, <1>4, Zenon DEF MigratingPcs
    <3>4. \A v \in Elems(woken[d]) : v \notin Elems(wchan')
      BY <1>1, Zenon DEF SchedInv, PlaceInv, Listed
    <3> QED BY <1>1, <3>2, <3>3, <3>4, Listed_Same, Zenon
  <2>3. ASSUME NEW d \in CPUs PROVE Current(d)'
    <3>1. Current(d) /\ (pc'[d] = "tail" <=> pc[d] = "tail")
      BY <1>1, <1>4, Zenon DEF SchedInv, PlaceInv
    <3> QED BY <1>1, <1>4, <1>6, <3>1, Zenon DEF Current
  <2>4. ASSUME NEW v \in Threads PROVE Found(v)'
    <3>1. CASE v = u
      BY <1>1, <1>4, <3>1, Zenon DEF Found
    <3>2. CASE v # u
      <4>1. Found(v)
        BY Zenon DEF SchedInv, PlaceInv
      <4>2. \A w \in Threads : forked[w] = v => forked'[w] = v
        BY <1>3, <1>4, CpuAssumption
      <4> QED BY <1>1, <1>4, <3>2, <4>1, <4>2 DEF Found
    <3> QED BY <3>1, <3>2, Zenon
  <2>5. ASSUME NEW v \in Threads PROVE Child(v)'
    <3>1. CASE v = t
      BY <1>1, <1>4, <3>1 DEF Child
    <3>2. CASE v # t
      <4>1. Child(v) /\ forked[v] # u /\ forked'[v] = forked[v] /\ forked[v] \in Threads \cup {NULL}
        BY <1>1, <1>4, <3>2, Zenon DEF SchedInv, SchedTypeOK, PlaceInv
      <4> QED BY <1>1, <1>4, <4>1 DEF Child
    <3> QED BY <3>1, <3>2, Zenon
  <2> QED BY <2>1, <2>2, <2>3, <2>4, <2>5, Zenon DEF PlaceInv
<1>8. ASSUME NEW d \in CPUs, d # c PROVE Apart(c, d)
  <2>1. c_curthread[d] # t
    BY <1>0, <1>8, Distinct_Currents, Zenon
  <2> QED BY <1>1, <1>4, <1>6, <1>8, <2>1, Zenon DEF Apart
<1>9. Control(c)'
  BY <1>1, <1>3, <1>4, Zenon DEF Control, IdlePcs, HandlerPcs, MigratingPcs
<1>10. Forking(c)'
  BY <1>0, <1>1, <1>4, CpuAssumption, Zenon DEF Forking, ThreadPcs
<1>11. Counted(c)'
  BY <1>1, <1>4, <1>5, Counted_Out, Zenon
<1>12. ASSUME NEW v \in Threads PROVE Resumes(v)'
  <2>1. CASE v = t
    <3>1. pc'[c] \in ThreadPcs
      BY <1>4, Zenon DEF ThreadPcs
    <3> QED BY <1>0, <1>1, <1>3, <2>1, <3>1, Zenon DEF Resumes
  <2>2. CASE v = u
    BY <1>3, <1>4, <2>2, Zenon DEF Resumes
  <2>3. CASE v # t /\ v # u
    <3>1. Resumes(v) /\ forked'[v] = forked[v] /\ resume'[v] = resume[v] /\ t_state'[v] = t_state[v]
      BY <1>1, <1>4, <2>3, Zenon DEF SchedInv
    <3>2. ASSUME \A d \in CPUs : c_curthread'[d] = v /\ ~c_isidle'[d] => pc'[d] \notin ThreadPcs
          PROVE  \A d \in CPUs : c_curthread[d] = v /\ ~c_isidle[d] => pc[d] \notin ThreadPcs
      BY <1>0, <1>1, <1>4, <2>3, <3>2, Zenon
    <3> QED BY <3>1, <3>2, Zenon DEF Resumes
  <2> QED BY <2>1, <2>2, <2>3, Zenon
<1> QED BY <1>5, <1>7, <1>8, <1>9, <1>10, <1>11, <1>12, Acts_Inv, Zenon

\* The thread that was switched to runs.
LEMMA SwitchTail_Inv ==
  ASSUME SchedInv, NEW c \in CPUs, SwitchTail(c)
  PROVE  SchedInv'
<1>0. PICK t \in Threads : t = c_curthread[c]
  BY Zenon DEF SchedInv, SchedTypeOK
<1>1. /\ pc[c] = "tail" /\ t_state' = [t_state EXCEPT ![t] = "RUN"] /\ pc' = [pc EXCEPT ![c] = "exorcise"]
      /\ UNCHANGED <<c_curthread, c_runqueue, c_isidle, c_zombies, unidle, wchan, lk, t_cpu, resume, forked, newstate, woken, mig, victims>>
  BY <1>0, Zenon DEF SwitchTail, Goto, chanvars, migvars
<1>2. ~c_isidle[c]
  BY <1>1, Zenon DEF SchedInv, Control, IdlePcs, HandlerPcs
<1>3. t_state[t] = "READY" /\ t_cpu[t] = c /\ t \notin Elems(c_runqueue[c]) /\ t \notin Elems(victims[c])
  BY <1>0, <1>1, <1>2, Zenon DEF SchedInv, PlaceInv, Current
<1>4. /\ t_state' \in [Threads -> {"NONE", "RUN", "READY", "SLEEP", "ZOMBIE"}]
      /\ t_state'[t] = "RUN" /\ \A v \in Threads : v # t => t_state'[v] = t_state[v]
      /\ pc'[c] = "exorcise" /\ \A d \in CPUs : d # c => pc'[d] = pc[d]
  BY <1>1, Zenon DEF SchedInv, SchedTypeOK
<1>5. SchedTypeOK'
  BY <1>1, <1>4, Zenon DEF SchedInv, SchedTypeOK, BusyPcs
<1>6. PlaceInv'
  <2>1. Channel'
    <3>1. \A v \in Elems(wchan) : v \in Threads /\ v # t /\ t_state[v] = "SLEEP"
      BY <1>3, ListStates, Zenon
    <3> QED BY <1>1, <1>4, <3>1, Zenon DEF SchedInv, PlaceInv, Channel
  <2>2. ASSUME NEW d \in CPUs PROVE Listed(d)'
    <3>1. \A v \in Elems(c_runqueue[d]) \cup Elems(victims[d]) \cup Elems(c_zombies[d]) \cup Elems(woken[d]) : v \in Threads /\ v # t
      BY <1>3, ListStates
    <3>2. \A v \in Elems(c_runqueue[d]) \cup Elems(victims[d]) \cup Elems(c_zombies[d]) \cup Elems(woken[d]) :
            t_state'[v] = t_state[v] /\ t_cpu'[v] = t_cpu[v]
      BY <1>1, <1>4, <3>1, Zenon
    <3>3. (pc'[d] = "waking" <=> pc[d] = "waking") /\ (pc[d] \in MigratingPcs => pc'[d] \in MigratingPcs)
      BY <1>1, <1>4, Zenon DEF MigratingPcs
    <3>4. \A v \in Elems(woken[d]) : v \notin Elems(wchan')
      BY <1>1, Zenon DEF SchedInv, PlaceInv, Listed
    <3> QED BY <1>1, <3>2, <3>3, <3>4, Listed_Same, Zenon
  <2>3. ASSUME NEW d \in CPUs PROVE Current(d)'
    <3>1. CASE d = c
      BY <1>0, <1>1, <1>3, <1>4, <3>1, Zenon DEF Current
    <3>2. CASE d # c
      <4>1. Current(d) /\ c_curthread[d] \in Threads /\ c_curthread[d] # t
        BY <1>0, <3>2, Distinct_Currents, Zenon DEF SchedInv, PlaceInv, SchedTypeOK
      <4> QED BY <1>1, <1>4, <3>2, <4>1, Zenon DEF Current
    <3> QED BY <3>1, <3>2, Zenon
  <2>4. ASSUME NEW v \in Threads PROVE Found(v)'
    <3>1. CASE v = t
      BY <1>0, <1>1, <1>2, <1>3, <1>4, <3>1, Zenon DEF Found
    <3>2. CASE v # t
      <4>1. Found(v)
        BY Zenon DEF SchedInv, PlaceInv
      <4> QED BY <1>1, <1>4, <3>2, <4>1, Zenon DEF Found
    <3> QED BY <3>1, <3>2, Zenon
  <2>5. ASSUME NEW v \in Threads PROVE Child(v)'
    <3>1. Child(v) /\ forked[v] \in Threads \cup {NULL}
      BY Zenon DEF SchedInv, SchedTypeOK, PlaceInv
    <3> QED BY <1>1, <1>3, <1>4, <3>1, Zenon DEF Child
  <2> QED BY <2>1, <2>2, <2>3, <2>4, <2>5, Zenon DEF PlaceInv
<1>7. ASSUME NEW d \in CPUs, d # c PROVE Apart(c, d)
  BY <1>1, <1>4, <1>7, Zenon DEF Apart
<1>8. Control(c)'
  BY <1>1, <1>2, <1>4, Zenon DEF Control, IdlePcs, HandlerPcs, MigratingPcs
<1>9. Forking(c)'
  BY <1>4, Zenon DEF Forking, ThreadPcs
<1>10. Counted(c)'
  BY <1>1, <1>4, <1>5, Counted_Out, Zenon
<1>11. \A v \in Threads : Resumes(v)'
  <2>1. pc[c] \notin ThreadPcs
    BY <1>1, Zenon DEF ThreadPcs
  <2>2. \A v \in Threads : t_state'[v] \in {"NONE", "ZOMBIE"} => t_state[v] \in {"NONE", "ZOMBIE"}
    BY <1>4, Zenon
  <2> QED BY <1>1, <1>7, <2>1, <2>2, Resumes_Keep, Zenon
<1> QED BY <1>5, <1>6, <1>7, <1>8, <1>9, <1>10, <1>11, Acts_Inv, Zenon

\* The idle CPU takes the first thread of its queue.
LEMMA SwitchPick_Inv ==
  ASSUME SchedInv, NEW c \in CPUs, SwitchPick(c)
  PROVE  SchedInv'
<1>0. /\ Listed(c) /\ Control(c) /\ c_runqueue[c] \in Seq(Threads)
      /\ c_runqueue \in [CPUs -> Seq(Threads)] /\ c_curthread \in [CPUs -> Threads] /\ c_isidle \in [CPUs -> BOOLEAN]
      /\ pc \in [CPUs -> ThreadPcs \cup IdlePcs \cup BusyPcs \cup HandlerPcs]
  BY Zenon DEF SchedInv, PlaceInv, SchedTypeOK
<1>1. /\ pc[c] = "pick" /\ c_runqueue[c] # <<>> /\ c_isidle' = [c_isidle EXCEPT ![c] = FALSE] /\ pc' = [pc EXCEPT ![c] = "tail"]
      /\ UNCHANGED <<c_zombies, unidle, wchan, lk, t_state, t_cpu, resume, forked, newstate, woken, mig, victims>>
  BY Zenon DEF SwitchPick, Goto, chanvars, threadvars, migvars
<1>2. c_isidle[c] /\ Distinct(c_runqueue[c])
  BY <1>0, <1>1, Zenon DEF Control, Listed, IdlePcs
<1>3. PICK h \in Threads, rest \in Seq(Threads) :
        /\ h = Head(c_runqueue[c]) /\ rest = Tail(c_runqueue[c]) /\ h \in Elems(c_runqueue[c])
        /\ Elems(rest) = Elems(c_runqueue[c]) \ {h} /\ Distinct(rest)
  BY <1>0, <1>1, <1>2, ElemsTyped, TailElems, Zenon
<1>4. c_curthread' = [c_curthread EXCEPT ![c] = h] /\ c_runqueue' = [c_runqueue EXCEPT ![c] = rest]
  BY <1>3, Zenon DEF SwitchPick
<1>5. /\ c_curthread' \in [CPUs -> Threads] /\ c_curthread'[c] = h /\ (\A d \in CPUs : d # c => c_curthread'[d] = c_curthread[d])
      /\ c_runqueue' \in [CPUs -> Seq(Threads)] /\ c_runqueue'[c] = rest /\ (\A d \in CPUs : d # c => c_runqueue'[d] = c_runqueue[d])
      /\ c_isidle' \in [CPUs -> BOOLEAN] /\ ~c_isidle'[c] /\ (\A d \in CPUs : d # c => c_isidle'[d] = c_isidle[d])
      /\ pc'[c] = "tail" /\ (\A d \in CPUs : d # c => pc'[d] = pc[d])
  BY <1>0, <1>1, <1>4, Zenon
<1>6. SchedTypeOK'
  BY <1>1, <1>5, Zenon DEF SchedInv, SchedTypeOK, BusyPcs
<1>7. t_state[h] = "READY" /\ t_cpu[h] = c /\ h \notin Elems(victims[c]) /\ h \notin Elems(rest)
  BY <1>0, <1>3, Zenon DEF Listed
<1>8. PlaceInv'
  <2>1. Channel'
    BY <1>1, Zenon DEF SchedInv, PlaceInv, Channel
  <2>2. ASSUME NEW d \in CPUs PROVE Listed(d)'
    <3>1. (pc'[d] = "waking" <=> pc[d] = "waking") /\ (pc[d] \in MigratingPcs => pc'[d] \in MigratingPcs)
      BY <1>1, <1>5, Zenon DEF MigratingPcs
    <3>2. \A v \in Elems(woken[d]) : v \notin Elems(wchan')
      BY <1>1, Zenon DEF SchedInv, PlaceInv, Listed
    <3>3. CASE d # c
      BY <1>1, <1>5, <3>1, <3>2, <3>3, Listed_Same, Zenon
    <3>4. CASE d = c
      <4>1. \A v \in Elems(rest) : t_state[v] = "READY" /\ t_cpu[v] = c /\ v \notin Elems(victims[c])
        BY <1>0, <1>3, Zenon DEF Listed
      <4> QED BY <1>1, <1>3, <1>5, <3>1, <3>2, <3>4, <4>1, Listed_Keeps, Zenon
    <3> QED BY <3>3, <3>4, Zenon
  <2>3. ASSUME NEW d \in CPUs PROVE Current(d)'
    <3>1. CASE d = c
      BY <1>1, <1>5, <1>7, <3>1, Zenon DEF Current
    <3>2. CASE d # c
      <4>1. Current(d)
        BY Zenon DEF SchedInv, PlaceInv
      <4> QED BY <1>1, <1>5, <3>2, <4>1, Zenon DEF Current
    <3> QED BY <3>1, <3>2, Zenon
  <2>4. ASSUME NEW v \in Threads PROVE Found(v)'
    <3>1. Found(v)
      BY Zenon DEF SchedInv, PlaceInv
    <3>2. CASE v = h
      BY <1>1, <1>5, <1>7, <3>2, Zenon DEF Found
    <3>3. CASE v # h
      <4>1. \A d \in CPUs : c_curthread[d] = v /\ ~c_isidle[d] => c_curthread'[d] = v /\ ~c_isidle'[d]
        BY <1>2, <1>5, Zenon
      <4>2. \A d \in CPUs : v \in Elems(c_runqueue[d]) => v \in Elems(c_runqueue'[d])
        BY <1>3, <1>5, <3>3, Zenon
      <4> QED BY <1>1, <3>1, <4>1, <4>2, Zenon DEF Found
    <3> QED BY <3>2, <3>3, Zenon
  <2>5. ASSUME NEW v \in Threads PROVE Child(v)'
    BY <1>1, Zenon DEF SchedInv, PlaceInv, Child
  <2> QED BY <2>1, <2>2, <2>3, <2>4, <2>5, Zenon DEF PlaceInv
<1>9. ASSUME NEW d \in CPUs, d # c PROVE Apart(c, d)
  BY <1>1, <1>5, <1>9, Zenon DEF Apart
<1>10. Control(c)'
  BY <1>1, <1>5, Zenon DEF Control, IdlePcs, HandlerPcs, MigratingPcs
<1>11. Forking(c)'
  BY <1>5, Zenon DEF Forking, ThreadPcs
<1>12. Counted(c)'
  BY <1>1, <1>5, <1>6, Counted_Out, Zenon
<1>13. ASSUME NEW v \in Threads PROVE Resumes(v)'
  <2>1. Resumes(v)
    BY Zenon DEF SchedInv
  <2>2. ASSUME \A d \in CPUs : c_curthread'[d] = v /\ ~c_isidle'[d] => pc'[d] \notin ThreadPcs
        PROVE  \A d \in CPUs : c_curthread[d] = v /\ ~c_isidle[d] => pc[d] \notin ThreadPcs
    BY <1>2, <1>5, <2>2, Zenon
  <2> QED BY <1>1, <2>1, <2>2, Zenon DEF Resumes
<1> QED BY <1>6, <1>8, <1>9, <1>10, <1>11, <1>12, <1>13, Acts_Inv, Zenon

\* The current thread goes to the run queue, to the channel or to the zombies, and its CPU idles on its stack.
LEMMA SwitchPlace_Inv ==
  ASSUME SchedInv, NEW c \in CPUs, SwitchPlace(c)
  PROVE  SchedInv'
<1>0. PICK t \in Threads : t = c_curthread[c]
  BY Zenon DEF SchedInv, SchedTypeOK
<1>1. PICK n \in {"READY", "SLEEP", "ZOMBIE"} : n = newstate[c]
  BY Zenon DEF SchedInv, SchedTypeOK
<1>2. /\ pc[c] = "place" /\ t_state' = [t_state EXCEPT ![t] = n] /\ c_isidle' = [c_isidle EXCEPT ![c] = TRUE]
      /\ pc' = [pc EXCEPT ![c] = "pick"]
      /\ UNCHANGED <<c_curthread, unidle, t_cpu, resume, forked, newstate, woken, mig, victims>>
  BY <1>0, <1>1, Zenon DEF SwitchPlace, Goto, migvars
<1>3. /\ Listed(c) /\ Control(c) /\ Current(c) /\ Forking(c) /\ Channel
      /\ c_runqueue \in [CPUs -> Seq(Threads)] /\ c_zombies \in [CPUs -> Seq(Threads)] /\ wchan \in Seq(Threads)
      /\ c_runqueue[c] \in Seq(Threads) /\ c_zombies[c] \in Seq(Threads)
  BY Zenon DEF SchedInv, PlaceInv, SchedTypeOK
<1>4. /\ ~c_isidle[c] /\ t_cpu[t] = c /\ t_state[t] = "RUN" /\ (n = "SLEEP" => lk = c)
      /\ woken[c] = <<>> /\ victims[c] = <<>>
  <2>1. ~c_isidle[c]
    BY <1>2, <1>3, Zenon DEF Control, IdlePcs, HandlerPcs
  <2> QED BY <1>0, <1>1, <1>2, <1>3, <2>1, Zenon DEF Control, Current, Listed, MigratingPcs
<1>5. ASSUME NEW d \in CPUs
      PROVE  /\ \A v \in Elems(c_runqueue[d]) \cup Elems(victims[d]) \cup Elems(c_zombies[d]) \cup Elems(woken[d]) : v \in Threads /\ v # t
             /\ t \notin Elems(wchan) /\ (n = "SLEEP" => woken[d] = <<>>)
  BY <1>4, ListStates
<1>6. PICK q \in Seq(Threads), w \in Seq(Threads), z \in Seq(Threads) :
        /\ c_runqueue' = [c_runqueue EXCEPT ![c] = q] /\ wchan' = w /\ c_zombies' = [c_zombies EXCEPT ![c] = z]
        /\ n = "SLEEP" \/ lk' = lk
        /\ Elems(q) = IF n = "READY" THEN Elems(c_runqueue[c]) \cup {t} ELSE Elems(c_runqueue[c])
        /\ Elems(w) = IF n = "SLEEP" THEN Elems(wchan) \cup {t} ELSE Elems(wchan)
        /\ Elems(z) = IF n = "ZOMBIE" THEN Elems(c_zombies[c]) \cup {t} ELSE Elems(c_zombies[c])
        /\ Distinct(q) /\ Distinct(w) /\ Distinct(z)
  <2>0. /\ Distinct(c_runqueue[c]) /\ Distinct(wchan) /\ Distinct(c_zombies[c])
        /\ t \notin Elems(c_runqueue[c]) /\ t \notin Elems(wchan) /\ t \notin Elems(c_zombies[c])
    BY <1>3, <1>5, Zenon DEF Listed, Channel
  <2>1. c_runqueue = [c_runqueue EXCEPT ![c] = c_runqueue[c]] /\ c_zombies = [c_zombies EXCEPT ![c] = c_zombies[c]]
    BY <1>3, Zenon
  <2>2. CASE n = "READY"
    <3>1. c_runqueue' = [c_runqueue EXCEPT ![c] = Append(c_runqueue[c], t)] /\ UNCHANGED <<c_zombies, wchan, lk>>
      BY <1>0, <1>1, <2>2, Zenon DEF SwitchPlace, chanvars
    <3>2. Append(c_runqueue[c], t) \in Seq(Threads) /\ Elems(Append(c_runqueue[c], t)) = Elems(c_runqueue[c]) \cup {t} /\ Distinct(Append(c_runqueue[c], t))
      BY <1>3, <2>0, AppendElems, Zenon
    <3>3. n # "SLEEP" /\ n # "ZOMBIE"
      BY <2>2, Zenon
    <3> QED BY <1>3, <2>0, <2>1, <2>2, <3>1, <3>2, <3>3, Zenon
  <2>3. CASE n = "SLEEP"
    <3>1. wchan' = Append(wchan, t) /\ UNCHANGED <<c_runqueue, c_zombies>>
      BY <1>0, <1>1, <2>3, Zenon DEF SwitchPlace, wchan_sleep
    <3>2. Append(wchan, t) \in Seq(Threads) /\ Elems(Append(wchan, t)) = Elems(wchan) \cup {t} /\ Distinct(Append(wchan, t))
      BY <1>3, <2>0, AppendElems, Zenon
    <3>3. n # "READY" /\ n # "ZOMBIE"
      BY <2>3, Zenon
    <3> QED BY <1>3, <2>0, <2>1, <2>3, <3>1, <3>2, <3>3, Zenon
  <2>4. CASE n = "ZOMBIE"
    <3>1. c_zombies' = [c_zombies EXCEPT ![c] = Append(c_zombies[c], t)] /\ UNCHANGED <<c_runqueue, wchan, lk>>
      BY <1>0, <1>1, <2>4, Zenon DEF SwitchPlace, chanvars
    <3>2. Append(c_zombies[c], t) \in Seq(Threads) /\ Elems(Append(c_zombies[c], t)) = Elems(c_zombies[c]) \cup {t} /\ Distinct(Append(c_zombies[c], t))
      BY <1>3, <2>0, AppendElems, Zenon
    <3>3. n # "READY" /\ n # "SLEEP"
      BY <2>4, Zenon
    <3> QED BY <1>3, <2>0, <2>1, <2>4, <3>1, <3>2, <3>3, Zenon
  <2> QED BY <2>2, <2>3, <2>4, Zenon
<1>7. /\ c_runqueue' \in [CPUs -> Seq(Threads)] /\ c_runqueue'[c] = q /\ (\A d \in CPUs : d # c => c_runqueue'[d] = c_runqueue[d])
      /\ c_zombies' \in [CPUs -> Seq(Threads)] /\ c_zombies'[c] = z /\ (\A d \in CPUs : d # c => c_zombies'[d] = c_zombies[d])
      /\ c_isidle' \in [CPUs -> BOOLEAN] /\ c_isidle'[c] /\ (\A d \in CPUs : d # c => c_isidle'[d] = c_isidle[d])
      /\ pc'[c] = "pick" /\ (\A d \in CPUs : d # c => pc'[d] = pc[d])
      /\ t_state' \in [Threads -> {"NONE", "RUN", "READY", "SLEEP", "ZOMBIE"}]
      /\ t_state'[t] = n /\ (\A v \in Threads : v # t => t_state'[v] = t_state[v])
  BY <1>2, <1>6, Zenon DEF SchedInv, SchedTypeOK
<1>8. SchedTypeOK'
  BY <1>2, <1>6, <1>7, Zenon DEF SchedInv, SchedTypeOK, IdlePcs
<1>9. PlaceInv'
  <2>1. Channel'
    <3>1. \A v \in Elems(wchan) : v \in Threads /\ v # t /\ t_state[v] = "SLEEP"
      BY <1>4, ListStates, Zenon
    <3> QED BY <1>6, <1>7, <3>1 DEF Channel
  <2>2. ASSUME NEW d \in CPUs PROVE Listed(d)'
    <3>1. (pc'[d] = "waking" <=> pc[d] = "waking") /\ (pc[d] \in MigratingPcs => pc'[d] \in MigratingPcs)
      BY <1>2, <1>7, Zenon DEF MigratingPcs
    <3>2. \A v \in Elems(woken[d]) : v \notin Elems(wchan')
      BY <1>5, <1>6, ElemsEmpty, Zenon DEF SchedInv, PlaceInv, Listed
    <3>3. CASE d # c
      <4>1. \A v \in Elems(c_runqueue[d]) \cup Elems(victims[d]) \cup Elems(c_zombies[d]) \cup Elems(woken[d]) :
              t_state'[v] = t_state[v] /\ t_cpu'[v] = t_cpu[v]
        BY <1>2, <1>5, <1>7
      <4> QED BY <1>2, <1>7, <3>1, <3>2, <3>3, <4>1, Listed_Same, Zenon
    <3>4. CASE d = c
      <4>1. woken'[c] = <<>> /\ victims'[c] = <<>> /\ Elems(<<>>) = {} /\ Distinct(<<>>)
        BY <1>2, <1>4, ElemsEmpty, Zenon
      <4>2. \A v \in Elems(c_runqueue'[c]) : t_state'[v] = "READY" /\ t_cpu'[v] = c
        <5>1. \A v \in Elems(c_runqueue[c]) : v \in Threads /\ v # t /\ t_state[v] = "READY" /\ t_cpu[v] = c
          BY <1>4, ListStates
        <5> QED BY <1>2, <1>4, <1>6, <1>7, <5>1
      <4>3. \A v \in Elems(c_zombies'[c]) : t_state'[v] = "ZOMBIE" /\ t_cpu'[v] = c
        <5>1. \A v \in Elems(c_zombies[c]) : v \in Threads /\ v # t /\ t_state[v] = "ZOMBIE" /\ t_cpu[v] = c
          BY <1>4, ListStates
        <5> QED BY <1>2, <1>4, <1>6, <1>7, <5>1
      <4> QED BY <1>6, <1>7, <3>4, <4>1, <4>2, <4>3 DEF Listed
    <3> QED BY <3>3, <3>4, Zenon
  <2>3. ASSUME NEW d \in CPUs PROVE Current(d)'
    <3>1. CASE d = c
      BY <1>0, <1>2, <1>4, <1>7, <3>1, Zenon DEF Current
    <3>2. CASE d # c
      <4>1. Current(d) /\ c_curthread[d] \in Threads /\ c_curthread[d] # t
        BY <1>0, <3>2, Distinct_Currents, Zenon DEF SchedInv, PlaceInv, SchedTypeOK
      <4> QED BY <1>2, <1>7, <3>2, <4>1 DEF Current
    <3> QED BY <3>1, <3>2, Zenon
  <2>4. ASSUME NEW v \in Threads PROVE Found(v)'
    <3>1. CASE v = t
      <4>1. t_cpu'[t] = c /\ t_state'[t] = n
        BY <1>2, <1>4, <1>7, Zenon
      <4>2. /\ n = "READY" => t \in Elems(c_runqueue'[c])
            /\ n = "SLEEP" => t \in Elems(wchan')
            /\ n = "ZOMBIE" => t \in Elems(c_zombies'[c])
        BY <1>6, <1>7, Zenon
      <4> QED BY <3>1, <4>1, <4>2, Zenon DEF Found
    <3>2. CASE v # t
      <4>1. Found(v) /\ t_state'[v] = t_state[v]
        BY <1>7, <3>2, Zenon DEF SchedInv, PlaceInv
      <4>2. \A d \in CPUs : /\ v \in Elems(c_runqueue[d]) => v \in Elems(c_runqueue'[d])
                            /\ v \in Elems(c_zombies[d]) => v \in Elems(c_zombies'[d])
                            /\ c_curthread[d] = v => c_isidle'[d] = c_isidle[d]
        BY <1>0, <1>6, <1>7, <3>2, Zenon
      <4>3. v \in Elems(wchan) => v \in Elems(wchan')
        BY <1>6, Zenon
      <4> QED BY <1>2, <4>1, <4>2, <4>3, Zenon DEF Found
    <3> QED BY <3>1, <3>2, Zenon
  <2>5. ASSUME NEW v \in Threads PROVE Child(v)'
    <3>1. Child(v) /\ forked[v] \in Threads \cup {NULL}
      BY Zenon DEF SchedInv, SchedTypeOK, PlaceInv
    <3> QED BY <1>2, <1>4, <1>7, <3>1, Zenon DEF Child
  <2> QED BY <2>1, <2>2, <2>3, <2>4, <2>5, Zenon DEF PlaceInv
<1>10. ASSUME NEW d \in CPUs, d # c PROVE Apart(c, d)
  BY <1>2, <1>4, <1>6, <1>7, <1>10, Zenon DEF Apart
<1>11. Control(c)'
  BY <1>7, Zenon DEF Control, IdlePcs, MigratingPcs
<1>12. Forking(c)'
  BY <1>7, Zenon DEF Forking
<1>13. Counted(c)'
  BY <1>2, <1>7, <1>8, Counted_Out, Zenon
<1>14. ASSUME NEW v \in Threads PROVE Resumes(v)'
  <2>1. CASE v = t
    <3>1. forked[t] # NULL <=> resume[t] = "forking"
      BY <1>0, <1>2, <1>4, Return_Forking, Zenon DEF ThreadPcs
    <3>2. n = "ZOMBIE" => resume[t] # "forking"
      BY <1>0, <1>1, <1>2, <1>3, <1>4, Zenon DEF Forking
    <3> QED BY <1>2, <1>7, <2>1, <3>1, <3>2, Zenon DEF Resumes
  <2>2. CASE v # t
    <3>1. \A u \in Threads : u # t => /\ forked'[u] = forked[u] /\ resume'[u] = resume[u]
                                      /\ (t_state'[u] \in {"NONE", "ZOMBIE"} => t_state[u] \in {"NONE", "ZOMBIE"})
      BY <1>2, <1>7, Zenon
    <3>2. c_curthread[c] = t /\ c_isidle'[c]
      BY <1>0, <1>7, Zenon
    <3> QED BY <1>10, <2>2, <3>1, <3>2, OtherThreads_Inv, Zenon
  <2> QED BY <2>1, <2>2, Zenon
<1> QED BY <1>8, <1>9, <1>10, <1>11, <1>12, <1>13, <1>14, Acts_Inv, Zenon

\* A thread that runs again destroys its CPU's zombies; exorcise's assertions hold.
LEMMA Exorcise_Inv ==
  ASSUME SchedInv, NEW c \in CPUs, Exorcise(c)
  PROVE  SchedInv'
<1>0. PICK t \in Threads, to \in {"run", "lk_back", "forking"} : t = c_curthread[c] /\ to = resume[t]
  BY Zenon DEF SchedInv, SchedTypeOK
<1>1. PICK dead : dead = Elems(c_zombies[c])
  BY Zenon
<1>2. /\ pc[c] = "exorcise" /\ wakeall_target(c_zombies[c]) = dead /\ Listed(c) /\ Control(c) /\ Current(c)
  <2>1. c_zombies[c] \in Seq(Threads)
    BY Zenon DEF SchedInv, SchedTypeOK
  <2> QED BY <1>1, <2>1, ElemsTyped, Zenon DEF SchedInv, PlaceInv, Exorcise
<1>3. ~c_isidle[c] /\ t_cpu[t] = c /\ t_state[t] = "RUN"
  <2>1. ~c_isidle[c]
    BY <1>2, Zenon DEF Control, IdlePcs, HandlerPcs
  <2> QED BY <1>0, <1>2, <2>1, Zenon DEF Current
<1>4. \A v \in dead : v \in Threads /\ v # t /\ t_state[v] = "ZOMBIE" /\ t_cpu[v] = c
  BY <1>1, <1>3, ListStates
<1>5. /\ c_zombies' = [c_zombies EXCEPT ![c] = <<>>] /\ pc' = [pc EXCEPT ![c] = to]
      /\ t_state' = [v \in Threads |-> IF v \in dead THEN "NONE" ELSE t_state[v]]
      /\ t_cpu' = [v \in Threads |-> IF v \in dead THEN NULL ELSE t_cpu[v]]
      /\ UNCHANGED <<c_curthread, c_runqueue, c_isidle, unidle, wchan, lk, resume, forked, newstate, woken, mig, victims>>
  BY <1>0, <1>2, <1>4, Zenon DEF Exorcise, Goto, chanvars, migvars
<1>6. /\ c_zombies' \in [CPUs -> Seq(Threads)] /\ c_zombies'[c] = <<>> /\ (\A d \in CPUs : d # c => c_zombies'[d] = c_zombies[d])
      /\ pc'[c] = to /\ (\A d \in CPUs : d # c => pc'[d] = pc[d])
      /\ t_state' \in [Threads -> {"NONE", "RUN", "READY", "SLEEP", "ZOMBIE"}]
      /\ t_cpu' \in [Threads -> CPUs \cup {NULL}]
      /\ \A v \in dead : t_state'[v] = "NONE" /\ t_cpu'[v] = NULL
      /\ \A v \in Threads : v \notin dead => t_state'[v] = t_state[v] /\ t_cpu'[v] = t_cpu[v]
  BY <1>4, <1>5 DEF SchedInv, SchedTypeOK
<1>7. SchedTypeOK'
  BY <1>5, <1>6, Zenon DEF SchedInv, SchedTypeOK, ThreadPcs
<1>8. PlaceInv'
  <2>1. Channel'
    <3>1. \A v \in Elems(wchan) : v \in Threads /\ v \notin dead /\ t_state[v] = "SLEEP"
      BY <1>4, ListStates, Zenon
    <3> QED BY <1>5, <1>6, <3>1, Zenon DEF SchedInv, PlaceInv, Channel
  <2>2. ASSUME NEW d \in CPUs PROVE Listed(d)'
    <3>1. (pc'[d] = "waking" <=> pc[d] = "waking") /\ (pc[d] \in MigratingPcs => pc'[d] \in MigratingPcs)
      BY <1>2, <1>6, Zenon DEF MigratingPcs
    <3>2. \A v \in Elems(woken[d]) : v \notin Elems(wchan')
      BY <1>5, Zenon DEF SchedInv, PlaceInv, Listed
    <3>3. \A v \in Elems(c_runqueue[d]) \cup Elems(victims[d]) \cup Elems(woken[d]) : t_state'[v] = t_state[v] /\ t_cpu'[v] = t_cpu[v]
      <4>1. \A v \in Elems(c_runqueue[d]) \cup Elems(victims[d]) \cup Elems(woken[d]) : v \in Threads /\ v \notin dead
        BY <1>4, ListStates, Zenon
      <4> QED BY <1>6, <4>1, Zenon
    <3>4. CASE d # c
      <4>1. \A v \in Elems(c_zombies[d]) : v \in Threads /\ v \notin dead
        BY <1>4, <3>4, ListStates
      <4>2. \A v \in Elems(c_zombies[d]) : t_state'[v] = t_state[v] /\ t_cpu'[v] = t_cpu[v]
        BY <1>6, <4>1, Zenon
      <4> QED BY <1>5, <1>6, <3>1, <3>2, <3>3, <3>4, <4>2, Listed_Same, Zenon
    <3>5. CASE d = c
      <4>1. Elems(c_zombies'[c]) = {} /\ Distinct(c_zombies'[c]) /\ woken' = woken /\ victims' = victims /\ c_runqueue' = c_runqueue
        BY <1>5, <1>6, ElemsEmpty, Zenon
      <4>2. /\ \A v \in Elems(c_runqueue[c]) : t_state'[v] = "READY" /\ t_cpu'[v] = c /\ v \notin Elems(victims[c])
            /\ \A v \in Elems(victims[c]) : t_state'[v] = "READY" /\ t_cpu'[v] = c
            /\ \A v \in Elems(woken[c]) : t_state'[v] = "SLEEP"
        BY <1>2, <3>3, <3>5 DEF Listed
      <4> QED BY <1>2, <3>1, <3>2, <3>5, <4>1, <4>2, Zenon DEF Listed
    <3> QED BY <3>4, <3>5, Zenon
  <2>3. ASSUME NEW d \in CPUs PROVE Current(d)'
    <3>1. Current(d) /\ c_curthread[d] \in Threads
      BY Zenon DEF SchedInv, PlaceInv, SchedTypeOK
    <3>2. c_curthread[d] \notin dead
      BY <1>0, <1>4, <3>1, Zenon DEF Current
    <3>3. pc'[d] = "tail" <=> pc[d] = "tail"
      BY <1>2, <1>6, Zenon
    <3> QED BY <1>5, <1>6, <3>1, <3>2, <3>3, Zenon DEF Current
  <2>4. ASSUME NEW v \in Threads PROVE Found(v)'
    <3>1. CASE v \in dead
      BY <1>6, <3>1, Zenon DEF Found
    <3>2. CASE v \notin dead
      <4>1. Found(v) /\ t_state'[v] = t_state[v] /\ t_cpu'[v] = t_cpu[v]
        BY <1>6, <3>2, Zenon DEF SchedInv, PlaceInv
      <4>2. \A d \in CPUs : v \in Elems(c_zombies[d]) => v \in Elems(c_zombies'[d])
        BY <1>1, <1>6, <3>2, Zenon
      <4> QED BY <1>5, <4>1, <4>2, Zenon DEF Found
    <3> QED BY <3>1, <3>2, Zenon
  <2>5. ASSUME NEW v \in Threads PROVE Child(v)'
    <3>1. Child(v) /\ forked[v] \in Threads \cup {NULL}
      BY Zenon DEF SchedInv, SchedTypeOK, PlaceInv
    <3> QED BY <1>4, <1>5, <1>6, <3>1, Zenon DEF Child
  <2> QED BY <2>1, <2>2, <2>3, <2>4, <2>5, Zenon DEF PlaceInv
<1>9. ASSUME NEW d \in CPUs, d # c PROVE Apart(c, d)
  BY <1>5, <1>6, <1>9, Zenon DEF Apart
<1>10. Control(c)'
  BY <1>3, <1>5, <1>6, Zenon DEF Control, IdlePcs, HandlerPcs, MigratingPcs
<1>11. Forking(c)'
  <2>1. forked[t] # NULL <=> to = "forking"
    BY <1>0, <1>2, <1>3, Return_Forking, Zenon DEF ThreadPcs
  <2> QED BY <1>0, <1>5, <1>6, <2>1, Zenon DEF Forking
<1>12. Counted(c)'
  BY <1>2, <1>5, <1>6, <1>7, Counted_Out, Zenon
<1>13. ASSUME NEW v \in Threads PROVE Resumes(v)'
  <2>1. CASE v = t
    <3>1. pc'[c] \in ThreadPcs /\ t_state'[t] = "RUN"
      BY <1>3, <1>4, <1>6, Zenon DEF ThreadPcs
    <3> QED BY <1>0, <1>3, <1>5, <2>1, <3>1, Zenon DEF Resumes
  <2>2. CASE v # t
    <3>1. \A u \in Threads : u # t => /\ forked'[u] = forked[u] /\ resume'[u] = resume[u]
                                      /\ (t_state'[u] \in {"NONE", "ZOMBIE"} => t_state[u] \in {"NONE", "ZOMBIE"})
      BY <1>4, <1>5, <1>6, Zenon
    <3>2. c_curthread[c] = t /\ c_curthread'[c] = t
      BY <1>0, <1>5, Zenon
    <3> QED BY <1>9, <2>2, <3>1, <3>2, OtherThreads_Inv, Zenon
  <2> QED BY <2>1, <2>2, Zenon
<1> QED BY <1>7, <1>8, <1>9, <1>10, <1>11, <1>12, <1>13, Acts_Inv, Zenon

\* thread_consider_migration: threads go from the own queue to the victims, or back, or change places there.
LEMMA Shuffle_Inv ==
  ASSUME SchedInv, NEW c \in CPUs, NEW to \in {"switch"} \cup MigratingPcs, pc[c] \in {"mig_pull"} \cup MigratingPcs,
         NEW q \in Seq(Threads), NEW vs \in Seq(Threads), NEW m \in Migrations,
         Distinct(q), Distinct(vs), \A v \in Elems(q) : v \notin Elems(vs),
         Elems(q) \cup Elems(vs) = Elems(c_runqueue[c]) \cup Elems(victims[c]), vs # <<>> => to \in MigratingPcs,
         pc' = [pc EXCEPT ![c] = to], mig' = [mig EXCEPT ![c] = m],
         c_runqueue' = [c_runqueue EXCEPT ![c] = q], victims' = [victims EXCEPT ![c] = vs],
         UNCHANGED <<c_curthread, c_isidle, c_zombies, unidle, wchan, lk, t_state, t_cpu, resume, forked, newstate, woken>>,
         Counted(c)'
  PROVE  SchedInv'
<1>1. /\ c_runqueue' \in [CPUs -> Seq(Threads)] /\ c_runqueue'[c] = q /\ (\A d \in CPUs : d # c => c_runqueue'[d] = c_runqueue[d])
      /\ victims' \in [CPUs -> Seq(Threads)] /\ victims'[c] = vs /\ (\A d \in CPUs : d # c => victims'[d] = victims[d])
      /\ mig' \in [CPUs -> Migrations] /\ mig'[c] = m /\ (\A d \in CPUs : d # c => mig'[d] = mig[d])
      /\ pc'[c] = to /\ (\A d \in CPUs : d # c => pc'[d] = pc[d])
  BY Zenon DEF SchedInv, SchedTypeOK
<1>2. Listed(c) /\ Control(c)
  BY Zenon DEF SchedInv, PlaceInv
<1>3. newstate[c] = "READY"
  BY <1>2, Zenon DEF Control, MigratingPcs
<1>4. SchedTypeOK'
  BY <1>1, Zenon DEF SchedInv, SchedTypeOK, HandlerPcs, MigratingPcs
<1>5. PlaceInv'
  <2>1. Channel'
    BY Zenon DEF SchedInv, PlaceInv, Channel
  <2>2. ASSUME NEW d \in CPUs PROVE Listed(d)'
    <3>1. \A v \in Elems(woken[d]) : v \notin Elems(wchan')
      BY Zenon DEF SchedInv, PlaceInv, Listed
    <3>2. CASE d # c
      <4>1. /\ c_runqueue'[d] = c_runqueue[d] /\ victims'[d] = victims[d] /\ c_zombies'[d] = c_zombies[d]
            /\ woken'[d] = woken[d] /\ t_state' = t_state /\ t_cpu' = t_cpu /\ pc'[d] = pc[d]
        BY <1>1, <3>2, Zenon
      <4> QED BY <3>1, <4>1, Listed_Same, Zenon
    <3>3. CASE d = c
      <4>1. \A v \in Elems(q) \cup Elems(vs) : t_state[v] = "READY" /\ t_cpu[v] = c
        BY <1>2, Zenon DEF Listed
      <4>2. pc'[c] # "waking" /\ woken[c] = <<>>
        BY <1>1, <1>2, Zenon DEF Listed, MigratingPcs
      <4> QED BY <1>1, <1>2, <3>3, <4>1, <4>2 DEF Listed
    <3> QED BY <3>2, <3>3, Zenon
  <2>3. ASSUME NEW d \in CPUs PROVE Current(d)'
    <3>1. Current(d)
      BY Zenon DEF SchedInv, PlaceInv
    <3>2. CASE d # c
      BY <1>1, <3>1, <3>2, Zenon DEF Current
    <3>3. CASE d = c
      <4>1. pc[c] # "tail" /\ pc'[c] # "tail"
        BY <1>1, Zenon DEF MigratingPcs
      <4> QED BY <3>1, <3>3, <4>1, Zenon DEF Current
    <3> QED BY <3>2, <3>3, Zenon
  <2>4. ASSUME NEW v \in Threads PROVE Found(v)'
    <3>1. Found(v)
      BY Zenon DEF SchedInv, PlaceInv
    <3>2. \A d \in CPUs : v \in Elems(c_runqueue[d]) \/ v \in Elems(victims[d]) => v \in Elems(c_runqueue'[d]) \/ v \in Elems(victims'[d])
      BY <1>1, Zenon
    <3> QED BY <3>1, <3>2, Zenon DEF Found
  <2>5. ASSUME NEW v \in Threads PROVE Child(v)'
    BY Zenon DEF SchedInv, PlaceInv, Child
  <2> QED BY <2>1, <2>2, <2>3, <2>4, <2>5, Zenon DEF PlaceInv
<1>6. ASSUME NEW d \in CPUs, d # c PROVE Apart(c, d)
  BY <1>1, <1>6, Zenon DEF Apart
<1>7. Control(c)'
  BY <1>1, <1>2, <1>3, Zenon DEF Control, IdlePcs, HandlerPcs, MigratingPcs
<1>8. Forking(c)'
  BY <1>1, <1>3, Zenon DEF Forking, ThreadPcs, MigratingPcs
<1>9. \A v \in Threads : Resumes(v)'
  <2>1. pc[c] \notin ThreadPcs
    BY Zenon DEF ThreadPcs, MigratingPcs
  <2> QED BY <1>6, <2>1, Resumes_Keep, Zenon
<1> QED BY <1>4, <1>5, <1>6, <1>7, <1>8, <1>9, Acts_Inv, Zenon

LEMMA Restart == ASSUME NEW m \in Migrations PROVE [m EXCEPT !.i = 1] \in Migrations
BY DEF Migrations

LEMMA MigPull_Inv ==
  ASSUME SchedInv, NEW c \in CPUs, MigPull(c)
  PROVE  SchedInv'
<1>0. /\ c_runqueue[c] \in Seq(Threads) /\ mig[c] \in Migrations /\ Counted(c) /\ Listed(c) /\ pc[c] = "mig_pull"
      /\ mig \in [CPUs -> Migrations] /\ c_runqueue \in [CPUs -> Seq(Threads)] /\ victims \in [CPUs -> Seq(Threads)]
      /\ pc \in [CPUs -> ThreadPcs \cup IdlePcs \cup BusyPcs \cup HandlerPcs]
  BY Zenon DEF SchedInv, PlaceInv, SchedTypeOK, MigPull
<1>1. PICK len \in Nat, send \in Int : len = Len(c_runqueue[c]) /\ send = mig[c].to_send
  <2>1. Len(c_runqueue[c]) \in Nat /\ mig[c].to_send \in Int
    BY <1>0 DEF Migrations
  <2> QED BY <2>1, Zenon
<1>2. PICK k \in 0..len : k = len - send /\ k >= 0 /\ send >= 0
  BY <1>0, <1>1 DEF Counted
<1>3. PICK q \in Seq(Threads), vs \in Seq(Threads) :
        /\ q = SubSeq(c_runqueue[c], 1, k) /\ vs = SubSeq(c_runqueue[c], k + 1, len)
        /\ Len(q) = k /\ Len(vs) = len - k /\ Distinct(q) /\ Distinct(vs)
        /\ Elems(q) \cup Elems(vs) = Elems(c_runqueue[c]) /\ \A v \in Elems(q) : v \notin Elems(vs)
  <2>1. Distinct(c_runqueue[c]) /\ k \in 0..Len(c_runqueue[c])
    BY <1>0, <1>1, Zenon DEF Listed
  <2>2. /\ SubSeq(c_runqueue[c], 1, k) \in Seq(Threads) /\ SubSeq(c_runqueue[c], k + 1, len) \in Seq(Threads)
        /\ Len(SubSeq(c_runqueue[c], 1, k)) = k /\ Len(SubSeq(c_runqueue[c], k + 1, len)) = len - k
        /\ Distinct(SubSeq(c_runqueue[c], 1, k)) /\ Distinct(SubSeq(c_runqueue[c], k + 1, len))
        /\ Elems(SubSeq(c_runqueue[c], 1, k)) \cup Elems(SubSeq(c_runqueue[c], k + 1, len)) = Elems(c_runqueue[c])
        /\ \A v \in Elems(SubSeq(c_runqueue[c], 1, k)) : v \notin Elems(SubSeq(c_runqueue[c], k + 1, len))
    <3>1. c_runqueue[c] \in Seq(Threads) /\ len = Len(c_runqueue[c])
      BY <1>0, <1>1, Zenon
    <3> QED BY <2>1, <3>1, CutElems, Zenon
  <2> QED BY <2>2, Zenon
<1>4. PICK m \in Migrations : m = [mig[c] EXCEPT !.i = 1]
  <2>1. [mig[c] EXCEPT !.i = 1] \in Migrations
    BY <1>0, Restart, Zenon
  <2> QED BY <2>1, Zenon
<1>5. m.i = 1 /\ m.to_send = send /\ m.my_count = mig[c].my_count /\ m.total_count = mig[c].total_count
  BY <1>0, <1>1, <1>4, Zenon DEF Migrations
<1>6. /\ victims' = [victims EXCEPT ![c] = vs] /\ c_runqueue' = [c_runqueue EXCEPT ![c] = q]
      /\ pc' = [pc EXCEPT ![c] = "mig_push"] /\ mig' = [mig EXCEPT ![c].i = 1]
      /\ UNCHANGED <<c_curthread, c_isidle, c_zombies, unidle, wchan, lk, t_state, t_cpu, resume, forked, newstate, woken>>
  BY <1>1, <1>2, <1>3, Zenon DEF MigPull, Goto, chanvars, threadvars
<1>7. mig' = [mig EXCEPT ![c] = m]
  BY <1>4, <1>6, Zenon
<1>8. victims'[c] = vs /\ c_runqueue'[c] = q /\ pc'[c] = "mig_push" /\ mig'[c] = m
  BY <1>0, <1>6, <1>7, Zenon
<1>9. Counted(c)'
  <2>1. send <= len - k /\ mig[c].my_count = 0 /\ mig[c].total_count >= 0
    BY <1>0, <1>1, <1>2 DEF Counted
  <2> QED BY <1>2, <1>3, <1>5, <1>8, <2>1 DEF Counted
<1>10. Elems(victims[c]) = {}
  <2>1. victims[c] = <<>>
    BY <1>0, Zenon DEF Listed, MigratingPcs
  <2> QED BY <2>1, ElemsEmpty, Zenon
<1>11. Elems(q) \cup Elems(vs) = Elems(c_runqueue[c]) \cup Elems(victims[c]) /\ "mig_push" \in MigratingPcs
  BY <1>3, <1>10, Zenon DEF MigratingPcs
<1> QED BY <1>0, <1>3, <1>6, <1>7, <1>9, <1>11, Shuffle_Inv, Zenon

\* to_send goes down by one.
LEMMA Sent ==
  ASSUME SchedInv, NEW c \in CPUs, pc[c] = "mig_move", mig[c].to_send > 0, mig' = [mig EXCEPT ![c].to_send = @ - 1]
  PROVE  \E m \in Migrations :
           /\ mig' = [mig EXCEPT ![c] = m] /\ mig'[c] = m
           /\ m.i = mig[c].i /\ m.i >= 1 /\ m.i \in CPUs \ {c} /\ m.my_count = 0 /\ m.total_count >= 0
           /\ m.to_send >= 0 /\ m.to_send + 1 <= Len(victims[c]) /\ m.to_send + 1 = mig[c].to_send
<1>0. mig \in [CPUs -> Migrations] /\ mig[c] \in Migrations /\ Counted(c)
  BY Zenon DEF SchedInv, SchedTypeOK
<1>1. PICK n \in Int : n = mig[c].to_send /\ n - 1 \in Int /\ n > 0
  <2>1. mig[c].to_send \in Int
    BY <1>0, Zenon DEF Migrations
  <2> QED BY <2>1
<1>2. PICK m \in Migrations : m = [mig[c] EXCEPT !.to_send = n - 1]
  <2>1. [mig[c] EXCEPT !.to_send = n - 1] \in Migrations
    BY <1>0, <1>1, Zenon DEF Migrations
  <2> QED BY <2>1, Zenon
<1>3. m.to_send = n - 1 /\ m.i = mig[c].i /\ m.my_count = mig[c].my_count /\ m.total_count = mig[c].total_count
  BY <1>0, <1>1, <1>2, Zenon DEF Migrations
<1>4. mig' = [mig EXCEPT ![c] = m] /\ mig'[c] = m
  BY <1>0, <1>1, <1>2, Zenon
<1>5. Len(victims[c]) \in Nat
  BY DEF SchedInv, SchedTypeOK
<1>6. /\ m.i >= 1 /\ m.i \in CPUs \ {c} /\ m.my_count = 0 /\ m.total_count >= 0
      /\ m.to_send >= 0 /\ m.to_send + 1 <= Len(victims[c]) /\ m.to_send + 1 = mig[c].to_send
  BY <1>0, <1>1, <1>3, <1>5 DEF Counted
<1> QED BY <1>3, <1>4, <1>6, Zenon

LEMMA MigSkip_Inv ==
  ASSUME SchedInv, NEW c \in CPUs, MigSkip(c)
  PROVE  SchedInv'
<1>0. /\ c_runqueue[c] \in Seq(Threads) /\ victims[c] \in Seq(Threads) /\ Counted(c) /\ Listed(c) /\ pc[c] = "mig_move"
      /\ c_runqueue \in [CPUs -> Seq(Threads)] /\ victims \in [CPUs -> Seq(Threads)]
      /\ pc \in [CPUs -> ThreadPcs \cup IdlePcs \cup BusyPcs \cup HandlerPcs]
  BY Zenon DEF SchedInv, PlaceInv, SchedTypeOK, MigSkip
<1>1. PICK m \in Migrations :
        /\ mig' = [mig EXCEPT ![c] = m] /\ mig'[c] = m
        /\ m.i = mig[c].i /\ m.i >= 1 /\ m.i \in CPUs \ {c} /\ m.my_count = 0 /\ m.total_count >= 0
        /\ m.to_send >= 0 /\ m.to_send + 1 <= Len(victims[c]) /\ m.to_send + 1 = mig[c].to_send
  BY Sent, Zenon DEF MigSkip
<1>2. PICK n \in Int, len \in Nat : n = m.to_send /\ n >= 0 /\ len = Len(victims[c]) /\ n + 1 <= len
  <2>1. m.to_send \in Int /\ Len(victims[c]) \in Nat
    BY <1>0 DEF Migrations
  <2> QED BY <1>1, <2>1, Zenon
<1>3. victims[c] # <<>> /\ Distinct(victims[c]) /\ Distinct(c_runqueue[c]) /\ \A v \in Elems(c_runqueue[c]) : v \notin Elems(victims[c])
  <2>1. len > 0
    BY <1>2
  <2> QED BY <1>0, <1>2, <2>1, EmptyLen, Zenon DEF Listed
<1>4. PICK h \in Threads, rest \in Seq(Threads) :
        /\ h = Head(victims[c]) /\ rest = Tail(victims[c]) /\ h \in Elems(victims[c]) /\ Len(rest) = len - 1
        /\ Elems(rest) = Elems(victims[c]) \ {h} /\ Distinct(rest)
  BY <1>0, <1>2, <1>3, ElemsTyped, TailElems, Zenon
<1>5. PICK vs \in Seq(Threads) :
        vs = Append(rest, h) /\ Len(vs) = Len(rest) + 1 /\ Elems(vs) = Elems(rest) \cup {h} /\ Distinct(vs)
  <2>1. h \notin Elems(rest)
    BY <1>4, Zenon
  <2> QED BY <1>4, <2>1, AppendElems, Zenon
<1>6. /\ victims' = [victims EXCEPT ![c] = vs] /\ pc' = pc /\ c_runqueue' = c_runqueue
      /\ UNCHANGED <<c_curthread, c_isidle, c_zombies, unidle, wchan, lk, t_state, t_cpu, resume, forked, newstate, woken>>
  BY <1>4, <1>5, Zenon DEF MigSkip, cpuvars, chanvars, threadvars
<1>7. /\ pc' = [pc EXCEPT ![c] = "mig_move"] /\ c_runqueue' = [c_runqueue EXCEPT ![c] = c_runqueue[c]]
      /\ victims'[c] = vs
  BY <1>0, <1>6, Zenon
<1>8. Counted(c)'
  <2>1. n <= Len(vs) /\ Len(c_runqueue[c]) \in Nat
    BY <1>0, <1>2, <1>4, <1>5
  <2> QED BY <1>0, <1>1, <1>2, <1>6, <1>7, <2>1, Zenon DEF Counted
<1>9. Elems(vs) = Elems(victims[c]) /\ "mig_move" \in MigratingPcs
  BY <1>4, <1>5, Zenon DEF MigratingPcs
<1> QED BY <1>0, <1>1, <1>3, <1>5, <1>6, <1>7, <1>8, <1>9, Shuffle_Inv, Zenon

LEMMA MigLeft_Inv ==
  ASSUME SchedInv, NEW c \in CPUs, MigLeft(c)
  PROVE  SchedInv'
<1>0. /\ c_runqueue[c] \in Seq(Threads) /\ victims[c] \in Seq(Threads) /\ Listed(c) /\ pc[c] = "mig_left"
      /\ c_runqueue \in [CPUs -> Seq(Threads)] /\ victims \in [CPUs -> Seq(Threads)] /\ mig \in [CPUs -> Migrations]
      /\ pc \in [CPUs -> ThreadPcs \cup IdlePcs \cup BusyPcs \cup HandlerPcs]
  BY Zenon DEF SchedInv, PlaceInv, SchedTypeOK, MigLeft
<1>1. PICK q \in Seq(Threads) : q = c_runqueue[c] \o victims[c] /\ Elems(q) = Elems(c_runqueue[c]) \cup Elems(victims[c]) /\ Distinct(q)
  <2>1. Distinct(c_runqueue[c]) /\ Distinct(victims[c]) /\ \A v \in Elems(c_runqueue[c]) : v \notin Elems(victims[c])
    BY <1>0, Zenon DEF Listed
  <2> QED BY <1>0, <2>1, JoinElems, Zenon
<1>2. /\ c_runqueue' = [c_runqueue EXCEPT ![c] = q] /\ victims' = [victims EXCEPT ![c] = <<>>]
      /\ mig' = [mig EXCEPT ![c] = NoMigration] /\ pc' = [pc EXCEPT ![c] = "switch"]
      /\ UNCHANGED <<c_curthread, c_isidle, c_zombies, unidle, wchan, lk, t_state, t_cpu, resume, forked, newstate, woken>>
  BY <1>1, Zenon DEF MigLeft, Goto, chanvars, threadvars
<1>3. NoMigration \in Migrations /\ <<>> \in Seq(Threads)
  BY DEF NoMigration, Migrations
<1>4. c_runqueue'[c] = q /\ mig'[c] = NoMigration /\ pc'[c] = "switch"
  BY <1>0, <1>2, Zenon
<1>5. Counted(c)'
  <2>1. Len(q) \in Nat
    OBVIOUS
  <2> QED BY <1>4, <2>1 DEF Counted, NoMigration
<1>6. /\ Elems(<<>>) = {} /\ Distinct(<<>>) /\ (\A v \in Elems(q) : v \notin Elems(<<>>))
      /\ Elems(q) \cup Elems(<<>>) = Elems(c_runqueue[c]) \cup Elems(victims[c]) /\ "mig_left" \in MigratingPcs
  BY <1>1, ElemsEmpty, Zenon DEF MigratingPcs
<1> QED BY <1>0, <1>1, <1>2, <1>3, <1>5, <1>6, Shuffle_Inv, Zenon

\* A victim goes to the queue of another CPU; it is nobody's current thread.
LEMMA MigMove_Inv ==
  ASSUME SchedInv, NEW c \in CPUs, MigMove(c)
  PROVE  SchedInv'
<1>0. /\ victims[c] \in Seq(Threads) /\ Counted(c) /\ Listed(c) /\ Control(c) /\ pc[c] = "mig_move"
      /\ c_runqueue \in [CPUs -> Seq(Threads)] /\ victims \in [CPUs -> Seq(Threads)] /\ t_cpu \in [Threads -> CPUs \cup {NULL}]
      /\ mig \in [CPUs -> Migrations]
  BY Zenon DEF SchedInv, PlaceInv, SchedTypeOK, MigMove
<1>1. PICK m \in Migrations :
        /\ mig' = [mig EXCEPT ![c] = m] /\ mig'[c] = m
        /\ m.i = mig[c].i /\ m.i >= 1 /\ m.i \in CPUs \ {c} /\ m.my_count = 0 /\ m.total_count >= 0
        /\ m.to_send >= 0 /\ m.to_send + 1 <= Len(victims[c]) /\ m.to_send + 1 = mig[c].to_send
  BY Sent, Zenon DEF MigMove
<1>2. PICK n \in Int, len \in Nat : n = m.to_send /\ n >= 0 /\ len = Len(victims[c]) /\ n + 1 <= len
  <2>1. m.to_send \in Int /\ Len(victims[c]) \in Nat
    BY <1>0 DEF Migrations
  <2> QED BY <1>1, <2>1, Zenon
<1>3. victims[c] # <<>> /\ Distinct(victims[c])
  <2>1. len > 0
    BY <1>2
  <2> QED BY <1>0, <1>2, <2>1, EmptyLen, Zenon DEF Listed
<1>4. PICK k \in CPUs : k = mig[c].i /\ k # c /\ c_runqueue[k] \in Seq(Threads)
  BY <1>0, <1>1, Zenon
<1>5. PICK t \in Threads, rest \in Seq(Threads) :
        /\ t = Head(victims[c]) /\ rest = Tail(victims[c]) /\ t \in Elems(victims[c]) /\ Len(rest) = len - 1
        /\ Elems(rest) = Elems(victims[c]) \ {t} /\ Distinct(rest)
  BY <1>0, <1>2, <1>3, ElemsTyped, TailElems, Zenon
<1>6. t_state[t] = "READY" /\ t_cpu[t] = c /\ t \notin Elems(c_runqueue[c])
  BY <1>0, <1>5, Zenon DEF Listed
<1>7. ASSUME NEW d \in CPUs
      PROVE  /\ t \notin Elems(c_runqueue[d]) /\ t \notin Elems(c_zombies[d]) /\ t \notin Elems(woken[d])
             /\ d # c => t \notin Elems(victims[d])
             /\ c_curthread[d] # t /\ c_curthread[d] \in Threads /\ Current(d)
  <2>1. t # c_curthread[c]
    BY <1>5, Zenon DEF MigMove
  <2>2. Current(d) /\ c_curthread[d] \in Threads
    BY Zenon DEF SchedInv, PlaceInv, SchedTypeOK
  <2>3. c_curthread[d] # t
    BY <1>6, <2>1, <2>2, Zenon DEF Current
  <2>4. t \notin Elems(c_runqueue[d]) /\ t \notin Elems(c_zombies[d]) /\ t \notin Elems(woken[d]) /\ (d # c => t \notin Elems(victims[d]))
    BY <1>6, ListStates
  <2> QED BY <2>2, <2>3, <2>4, Zenon
<1>8. PICK q \in Seq(Threads) :
        /\ q = Append(c_runqueue[k], t) /\ Len(q) = Len(c_runqueue[k]) + 1 /\ Elems(q) = Elems(c_runqueue[k]) \cup {t} /\ Distinct(q)
  <2>1. Distinct(c_runqueue[k]) /\ t \notin Elems(c_runqueue[k])
    BY <1>7, Zenon DEF SchedInv, PlaceInv, Listed
  <2> QED BY <1>4, <2>1, AppendElems, Zenon
<1>9. /\ t_cpu' = [t_cpu EXCEPT ![t] = k] /\ c_runqueue' = [c_runqueue EXCEPT ![k] = q] /\ victims' = [victims EXCEPT ![c] = rest]
      /\ unidle' = IF c_isidle[k] THEN unidle \cup {k} ELSE unidle
      /\ UNCHANGED <<c_curthread, c_isidle, c_zombies, wchan, lk, t_state, resume, forked, pc, newstate, woken>>
  BY <1>4, <1>5, <1>8, Zenon DEF MigMove, chanvars
<1>10. /\ t_cpu' \in [Threads -> CPUs \cup {NULL}] /\ t_cpu'[t] = k /\ (\A v \in Threads : v # t => t_cpu'[v] = t_cpu[v])
       /\ c_runqueue' \in [CPUs -> Seq(Threads)] /\ c_runqueue'[k] = q /\ (\A d \in CPUs : d # k => c_runqueue'[d] = c_runqueue[d])
       /\ victims' \in [CPUs -> Seq(Threads)] /\ victims'[c] = rest /\ (\A d \in CPUs : d # c => victims'[d] = victims[d])
       /\ mig' \in [CPUs -> Migrations] /\ (\A d \in CPUs : d # c => mig'[d] = mig[d])
       /\ (\A d \in CPUs : d \in unidle => d \in unidle') /\ (c_isidle[k] => k \in unidle')
  BY <1>0, <1>1, <1>9, Zenon
<1>11. SchedTypeOK'
  BY <1>9, <1>10, Zenon DEF SchedInv, SchedTypeOK
<1>12. PlaceInv'
  <2>1. Channel'
    BY <1>9, Zenon DEF SchedInv, PlaceInv, Channel
  <2>2. ASSUME NEW d \in CPUs PROVE Listed(d)'
    <3>1. Listed(d) /\ pc' = pc /\ woken' = woken /\ wchan' = wchan /\ c_zombies' = c_zombies /\ t_state' = t_state
      BY <1>9, Zenon DEF SchedInv, PlaceInv
    <3>2. \A v \in Elems(c_zombies[d]) \cup Elems(woken[d]) \cup (Elems(victims[d]) \ {t}) \cup Elems(c_runqueue[d]) : t_cpu'[v] = t_cpu[v]
      <4>1. \A v \in Elems(c_zombies[d]) \cup Elems(woken[d]) \cup (Elems(victims[d]) \ {t}) \cup Elems(c_runqueue[d]) : v \in Threads /\ v # t
        BY <1>7, ListStates
      <4> QED BY <1>10, <4>1, Zenon
    <3>3. Distinct(victims'[d]) /\ Elems(victims'[d]) = Elems(victims[d]) \ {t} /\ (victims'[d] # <<>> => victims[d] # <<>>)
      <4>1. CASE d = c
        <5>1. victims'[d] = rest
          BY <1>10, <4>1, Zenon
        <5> QED BY <1>3, <1>5, <4>1, <5>1, Zenon
      <4>2. CASE d # c
        BY <1>7, <1>10, <3>1, <4>2 DEF Listed
      <4> QED BY <4>1, <4>2, Zenon
    <3>4. Distinct(c_runqueue'[d]) /\ Elems(c_runqueue'[d]) = IF d = k THEN Elems(c_runqueue[d]) \cup {t} ELSE Elems(c_runqueue[d])
      <4>1. CASE d = k
        BY <1>8, <1>10, <4>1, Zenon
      <4>2. CASE d # k
        <5>1. c_runqueue'[d] = c_runqueue[d]
          BY <1>10, <4>2, Zenon
        <5> QED BY <3>1, <4>2, <5>1, Zenon DEF Listed
      <4> QED BY <4>1, <4>2, Zenon
    <3>5. \A v \in Elems(c_runqueue'[d]) : t_state'[v] = "READY" /\ t_cpu'[v] = d /\ v \notin Elems(victims'[d])
      <4>1. \A v \in Elems(c_runqueue[d]) : t_state'[v] = "READY" /\ t_cpu'[v] = d /\ v \notin Elems(victims'[d])
        BY <3>1, <3>2, <3>3, Zenon DEF Listed
      <4>2. d = k => t_state'[t] = "READY" /\ t_cpu'[t] = d /\ t \notin Elems(victims'[d])
        BY <1>6, <1>10, <3>1, <3>3, Zenon
      <4> QED BY <3>4, <4>1, <4>2, Zenon
    <3>6. \A v \in Elems(victims'[d]) : t_state'[v] = "READY" /\ t_cpu'[v] = d
      BY <3>1, <3>2, <3>3, Zenon DEF Listed
    <3>7. \A v \in Elems(c_zombies'[d]) : t_state'[v] = "ZOMBIE" /\ t_cpu'[v] = d
      BY <3>1, <3>2, Zenon DEF Listed
    <3> QED BY <3>1, <3>3, <3>4, <3>5, <3>6, <3>7, Zenon DEF Listed
  <2>3. ASSUME NEW d \in CPUs PROVE Current(d)'
    <3>1. Current(d) /\ c_curthread[d] # t /\ c_curthread[d] \in Threads
      BY <1>7, Zenon
    <3>2. /\ c_curthread[d] \notin Elems(c_runqueue[d]) => c_curthread[d] \notin Elems(c_runqueue'[d])
          /\ c_curthread[d] \notin Elems(victims[d]) => c_curthread[d] \notin Elems(victims'[d])
      BY <1>5, <1>8, <1>10, <3>1, Zenon
    <3> QED BY <1>9, <1>10, <3>1, <3>2, Zenon DEF Current
  <2>4. ASSUME NEW v \in Threads PROVE Found(v)'
    <3>1. CASE v = t
      <4>1. t_state'[t] = "READY" /\ t_cpu'[t] = k /\ t \in Elems(c_runqueue'[k])
        <5>1. t \in Elems(q)
          BY <1>8, Zenon
        <5> QED BY <1>6, <1>9, <1>10, <5>1, Zenon
      <4> QED BY <3>1, <4>1, Zenon DEF Found
    <3>2. CASE v # t
      <4>1. Found(v) /\ t_cpu'[v] = t_cpu[v]
        BY <1>10, <3>2, Zenon DEF SchedInv, PlaceInv
      <4>2. \A d \in CPUs : /\ v \in Elems(c_runqueue[d]) => v \in Elems(c_runqueue'[d])
                            /\ v \in Elems(victims[d]) => v \in Elems(victims'[d])
        BY <1>5, <1>8, <1>10, <3>2, Zenon
      <4> QED BY <1>9, <4>1, <4>2, Zenon DEF Found
    <3> QED BY <3>1, <3>2, Zenon
  <2>5. ASSUME NEW v \in Threads PROVE Child(v)'
    <3>1. Child(v) /\ forked[v] \in Threads \cup {NULL}
      BY Zenon DEF SchedInv, SchedTypeOK, PlaceInv
    <3> QED BY <1>6, <1>9, <1>10, <3>1 DEF Child
  <2> QED BY <2>1, <2>2, <2>3, <2>4, <2>5, Zenon DEF PlaceInv
<1>13. ASSUME NEW d \in CPUs, d # c PROVE Apart(c, d)
  <2>1. c_runqueue'[d] = c_runqueue[d] \/ (Len(c_runqueue'[d]) >= Len(c_runqueue[d]) /\ (c_isidle[d] => d \in unidle'))
    <3>1. Len(c_runqueue[k]) \in Nat
      BY <1>4
    <3> QED BY <1>8, <1>10, <3>1
  <2> QED BY <1>9, <1>10, <1>13, <2>1, Zenon DEF Apart
<1>14. Control(c)'
  BY <1>0, <1>4, <1>9, <1>10, Zenon DEF Control
<1>15. Forking(c)'
  BY <1>0, <1>9, Zenon DEF Forking, ThreadPcs
<1>16. Counted(c)'
  <2>1. n <= Len(rest)
    BY <1>2, <1>5
  <2>2. c_runqueue'[c] = c_runqueue[c] /\ Len(c_runqueue[c]) \in Nat
    <3>1. c_runqueue'[c] = c_runqueue[c]
      BY <1>4, <1>10, Zenon
    <3> QED BY <1>0, <3>1
  <2>3. 0 <= m.my_count /\ m.my_count <= Len(c_runqueue'[c])
    BY <1>1, <2>2
  <2>4. m.to_send <= Len(victims'[c])
    BY <1>2, <1>10, <2>1, Zenon
  <2>5. pc'[c] = "mig_move"
    BY <1>0, <1>9, Zenon
  <2> QED BY <1>1, <2>3, <2>4, <2>5, Zenon DEF Counted
<1>17. \A v \in Threads : Resumes(v)'
  BY <1>9, <1>13, Resumes_Keep, Zenon
<1> QED BY <1>11, <1>12, <1>13, <1>14, <1>15, <1>16, <1>17, Acts_Inv, Zenon

----------------------------------------------------------------------------
\* Steps that leave every thread where it is.

placevars == <<c_curthread, c_runqueue, c_isidle, c_zombies, wchan, t_state, t_cpu, woken, victims, forked>>

\* CPU c goes from one place in its code to another; neither is one that PlaceInv tells apart.
Moves(c, from, to) ==
  /\ pc[c] = from /\ pc' = [pc EXCEPT ![c] = to]
  /\ from \notin {"tail", "waking"} /\ to \notin {"tail", "waking"}
  /\ from \in MigratingPcs => to \in MigratingPcs

LEMMA Stays_Inv ==
  ASSUME SchedInv, NEW c \in CPUs, UNCHANGED placevars, NEW from, NEW to, Moves(c, from, to)
  PROVE  PlaceInv'
<1>0. /\ pc'[c] = to /\ pc[c] = from /\ \A d \in CPUs : d # c => pc'[d] = pc[d]
      /\ from \notin {"tail", "waking"} /\ to \notin {"tail", "waking"} /\ (from \in MigratingPcs => to \in MigratingPcs)
  BY Zenon DEF Moves, SchedInv, SchedTypeOK
<1>1. Channel'
  BY Zenon DEF placevars, SchedInv, PlaceInv, Channel
<1>2. ASSUME NEW d \in CPUs PROVE Listed(d)'
  <2>1. Listed(d)
    BY Zenon DEF SchedInv, PlaceInv
  <2> QED BY <1>0, <2>1, Zenon DEF placevars, Listed
<1>3. ASSUME NEW d \in CPUs PROVE Current(d)'
  <2>1. Current(d)
    BY Zenon DEF SchedInv, PlaceInv
  <2> QED BY <1>0, <2>1, Zenon DEF placevars, Current
<1>4. ASSUME NEW t \in Threads PROVE Found(t)' /\ Child(t)'
  BY Zenon DEF placevars, SchedInv, PlaceInv, Found, Child
<1> QED BY <1>1, <1>2, <1>3, <1>4, Zenon DEF PlaceInv

\* A step within CPU c's code, on behalf of its current thread.
Within(c) ==
  /\ UNCHANGED placevars
  /\ \E from, to : Moves(c, from, to)
  /\ \A d \in CPUs : d # c => /\ newstate'[d] = newstate[d] /\ mig'[d] = mig[d]
                              /\ (lk = d => lk' = d) /\ (d \in unidle => d \in unidle')
  /\ \A u \in Threads : u # c_curthread[c] => resume'[u] = resume[u]

LEMMA Within_Inv ==
  ASSUME SchedInv, SchedTypeOK', NEW c \in CPUs, Within(c), NEW t \in Threads, t = c_curthread[c],
         Control(c)', Forking(c)', Counted(c)', Resumes(t)'
  PROVE  SchedInv'
<1>1. PlaceInv'
  BY Stays_Inv, Zenon DEF Within
<1>2. c_curthread[c] \in Threads /\ c_curthread' = c_curthread /\ c_isidle' = c_isidle
  BY Zenon DEF SchedInv, SchedTypeOK, Within, placevars
<1>3. ASSUME NEW d \in CPUs, d # c PROVE Apart(c, d)
  <2>1. pc'[d] = pc[d]
    BY <1>3, Zenon DEF Within, Moves, SchedInv, SchedTypeOK
  <2>2. c_curthread[d] \in Threads /\ c_curthread[d] # c_curthread[c]
    BY <1>3, Distinct_Currents, Zenon DEF SchedInv, SchedTypeOK
  <2> QED BY <1>3, <2>1, <2>2, Zenon DEF Apart, Within, placevars
<1>4. \A d \in CPUs : d # c => Control(d)' /\ Forking(d)' /\ Counted(d)'
  BY <1>3, Others_Inv, Zenon
<1>5. ASSUME NEW u \in Threads, u # t PROVE Resumes(u)'
  <2>1. \A v \in Threads : v # t => /\ forked'[v] = forked[v] /\ resume'[v] = resume[v]
                                     /\ (t_state'[v] \in {"NONE", "ZOMBIE"} => t_state[v] \in {"NONE", "ZOMBIE"})
    BY Zenon DEF Within, placevars
  <2> QED BY <1>2, <1>3, <1>5, <2>1, OtherThreads_Inv, Zenon
<1> QED BY <1>1, <1>2, <1>4, <1>5, Zenon DEF SchedInv

LEMMA Unchanged_Inv ==
  ASSUME SchedInv, UNCHANGED vars
  PROVE  SchedInv'
<1>0. UNCHANGED <<placevars, c_runqueue_lock, unidle, lk, pc, newstate, mig, resume>>
  BY DEF vars, cpuvars, chanvars, threadvars, migvars, placevars
<1>1. SchedTypeOK'
  BY <1>0, Zenon DEF SchedInv, SchedTypeOK, placevars
<1>2. PlaceInv'
  <2>1. UNCHANGED placevars /\ pc' = pc
    BY <1>0, Zenon
  <2>2. Channel'
    BY <2>1, Zenon DEF SchedInv, PlaceInv, Channel, placevars
  <2>3. ASSUME NEW c \in CPUs PROVE Listed(c)'
    <3>1. Listed(c)
      BY Zenon DEF SchedInv, PlaceInv
    <3> QED BY <2>1, <3>1, Zenon DEF Listed, placevars
  <2>4. \A c \in CPUs : Current(c)'
    BY <2>1, Zenon DEF SchedInv, PlaceInv, Current, placevars
  <2>5. \A t \in Threads : Found(t)' /\ Child(t)'
    BY <2>1, Zenon DEF SchedInv, PlaceInv, Found, Child, placevars
  <2> QED BY <2>2, <2>3, <2>4, <2>5, Zenon DEF PlaceInv
<1>3. ASSUME NEW c \in CPUs PROVE Control(c)' /\ Forking(c)' /\ Counted(c)'
  BY <1>0, Zenon DEF SchedInv, Control, Forking, Counted, placevars
<1>4. ASSUME NEW t \in Threads PROVE Resumes(t)'
  BY <1>0, Zenon DEF SchedInv, Resumes, placevars
<1> QED BY <1>1, <1>2, <1>3, <1>4, Zenon DEF SchedInv

\* Exit, Yield and Sleep call thread_switch.
LEMMA Calls_Inv ==
  ASSUME SchedInv, NEW c \in CPUs, Exit(c) \/ Yield(c) \/ Sleep(c)
  PROVE  SchedInv'
<1>t. PICK t \in Threads : t = c_curthread[c]
  BY Zenon DEF SchedInv, SchedTypeOK
<1> USE DEF Exit, Yield, Sleep, CallSwitch, Goto, cpuvars, chanvars, migvars
<1>0. PICK label \in {"run", "lk_back"}, state \in {"READY", "SLEEP", "ZOMBIE"} :
        /\ newstate' = [newstate EXCEPT ![c] = state]
        /\ resume' = [resume EXCEPT ![t] = label]
        /\ pc' = [pc EXCEPT ![c] = "switch"]
        /\ state = "SLEEP" => pc[c] = "lk_held"
  BY <1>t, Zenon
<1>1. /\ UNCHANGED <<placevars, lk, unidle, mig>>
      /\ pc[c] \in {"run", "lk_held"} /\ ~c_isidle[c]
  BY Zenon DEF placevars, SchedInv, Control, IdlePcs, HandlerPcs
<1>2. forked[t] = NULL
  BY <1>t, <1>1, Zenon DEF SchedInv, Forking, ThreadPcs
<1> HIDE DEF Exit, Yield, Sleep, CallSwitch, Goto
<1>3. SchedTypeOK'
  BY <1>0, <1>1, Zenon DEF SchedInv, SchedTypeOK, HandlerPcs, placevars
<1>4. /\ pc'[c] = "switch" /\ newstate'[c] = state /\ resume'[t] = label /\ c_curthread'[c] = t
      /\ \A d \in CPUs : d # c => newstate'[d] = newstate[d] /\ pc'[d] = pc[d]
      /\ \A u \in Threads : u # t => resume'[u] = resume[u]
  BY <1>t, <1>0, <1>1, Zenon DEF SchedInv, SchedTypeOK, placevars
<1>5. Within(c)
  <2>1. Moves(c, pc[c], "switch")
    BY <1>0, <1>1, Zenon DEF Moves, MigratingPcs
  <2> QED BY <1>t, <1>1, <1>4, <2>1, Zenon DEF Within
<1>6. Control(c)'
  BY <1>0, <1>1, <1>4, Zenon DEF SchedInv, Control, placevars, HandlerPcs, IdlePcs, MigratingPcs
<1>7. Forking(c)'
  BY <1>0, <1>1, <1>2, <1>4, Zenon DEF Forking, placevars, ThreadPcs
<1>8. Counted(c)'
  BY <1>1, <1>4, Zenon DEF SchedInv, Counted, placevars
<1>9. Resumes(t)'
  BY <1>0, <1>1, <1>2, <1>4, Zenon DEF Resumes, placevars
<1> QED BY <1>t, <1>3, <1>5, <1>6, <1>7, <1>8, <1>9, Within_Inv, Zenon

\* A step that changes nothing but CPU c's place, and the locks and interrupts of others for the better.
LEMMA Goes_Inv ==
  ASSUME SchedInv, NEW c \in CPUs, NEW to \in ThreadPcs \cup IdlePcs \cup BusyPcs \cup HandlerPcs, Moves(c, pc[c], to),
         UNCHANGED <<placevars, newstate, mig, resume>>,
         \A d \in CPUs : d # c => (lk = d => lk' = d) /\ (d \in unidle => d \in unidle'),
         ~c_isidle[c] /\ pc[c] \in ThreadPcs => to \in ThreadPcs,
         Control(c)', Forking(c)', Counted(c)'
  PROVE  SchedInv'
<1>1. PICK t \in Threads : t = c_curthread[c]
  BY Zenon DEF SchedInv, SchedTypeOK
<1>2. SchedTypeOK'
  BY Zenon DEF SchedInv, SchedTypeOK, Moves, placevars
<1>3. pc'[c] = to
  BY Zenon DEF Moves, SchedInv, SchedTypeOK
<1>4. Within(c)
  BY Zenon DEF Within
<1>5. Resumes(t)'
  <2>1. Resumes(t) /\ \A d \in CPUs : d # c => c_curthread[d] # t
    BY <1>1, Distinct_Currents, Zenon DEF SchedInv
  <2> QED BY <1>1, <1>3, <2>1, Zenon DEF Resumes, placevars
<1> QED BY <1>1, <1>2, <1>4, <1>5, Within_Inv, Zenon

LEMMA Locks_Inv ==
  ASSUME SchedInv, NEW c \in CPUs, ChanLock(c) \/ HandlerLock(c)
  PROVE  SchedInv'
<1>1. /\ pc[c] \in {"run", "lk_back", "idle"} /\ pc' = [pc EXCEPT ![c] = "lk_held"] /\ pc'[c] = "lk_held"
      /\ lk = NULL /\ lk' = c
      /\ UNCHANGED <<placevars, newstate, mig, resume, unidle>>
  BY Zenon DEF ChanLock, HandlerLock, Goto, cpuvars, threadvars, migvars, placevars, SchedInv, SchedTypeOK
<1>2. Moves(c, pc[c], "lk_held")
  BY <1>1, Zenon DEF Moves, MigratingPcs
<1>3. c_isidle[c] <=> pc[c] = "idle"
  BY <1>1, Zenon DEF SchedInv, Control, IdlePcs, HandlerPcs
<1>4. Control(c)'
  BY <1>1, <1>3, Zenon DEF Control, IdlePcs, HandlerPcs, MigratingPcs, placevars
<1>5. Forking(c)'
  <2>1. Forking(c)
    BY Zenon DEF SchedInv
  <2> QED BY <1>1, <1>3, <2>1, Zenon DEF Forking, ThreadPcs, placevars
<1>6. Counted(c)'
  BY <1>1, Zenon DEF SchedInv, Counted, placevars
<1>7. \A d \in CPUs : lk # d
  BY <1>1, CpuAssumption, Zenon
<1> QED BY <1>1, <1>2, <1>3, <1>4, <1>5, <1>6, <1>7, Goes_Inv, Zenon DEF ThreadPcs

LEMMA Unlocks_Inv ==
  ASSUME SchedInv, NEW c \in CPUs, ChanUnlock(c)
  PROVE  SchedInv'
<1> DEFINE to == IF c_isidle[c] THEN "relock" ELSE "run"
<1>1. /\ pc[c] = "lk_held" /\ pc' = [pc EXCEPT ![c] = to] /\ pc'[c] = to /\ lk' = NULL
      /\ UNCHANGED <<placevars, newstate, mig, resume, unidle>>
  BY Zenon DEF ChanUnlock, Goto, cpuvars, threadvars, migvars, placevars, SchedInv, SchedTypeOK
<1>2. lk = c
  BY <1>1, Zenon DEF SchedInv, Control
<1>3. Moves(c, pc[c], to)
  BY <1>1, Zenon DEF Moves, MigratingPcs
<1>4. Control(c)'
  BY <1>1 DEF Control, IdlePcs, HandlerPcs, MigratingPcs, placevars
<1>5. Forking(c)'
  <2>1. Forking(c)
    BY Zenon DEF SchedInv
  <2> QED BY <1>1, <2>1 DEF Forking, ThreadPcs, placevars
<1>6. Counted(c)'
  BY <1>1 DEF SchedInv, Counted, placevars
<1>7. to \in ThreadPcs \cup IdlePcs /\ (~c_isidle[c] => to \in ThreadPcs)
  BY Zenon DEF ThreadPcs, IdlePcs
<1> QED BY <1>1, <1>2, <1>3, <1>4, <1>5, <1>6, <1>7, Goes_Inv, Zenon

\* thread_switch up to the choice of the next thread: the lock is taken, or let go to idle, or there is nothing to do.
LEMMA SwitchLocks_Inv ==
  ASSUME SchedInv, NEW c \in CPUs, SwitchIdle(c) \/ SwitchUnlock(c) \/ SwitchRelock(c)
  PROVE  SchedInv'
<1>1. PICK to \in {"relock", "idle", "pick"} :
        /\ pc[c] \in {"switch", "pick", "relock"} /\ pc' = [pc EXCEPT ![c] = to] /\ pc'[c] = to
        /\ to = "idle" => c_runqueue[c] = <<>>
        /\ pc[c] = "switch" => c_isidle[c]
        /\ UNCHANGED <<placevars, newstate, mig, resume, unidle, lk>>
  BY Zenon DEF SwitchIdle, SwitchUnlock, SwitchRelock, Goto, cpuvars, chanvars, threadvars, migvars, placevars, SchedInv, SchedTypeOK
<1>2. c_isidle[c]
  BY <1>1, Zenon DEF SchedInv, Control, IdlePcs
<1>3. Moves(c, pc[c], to)
  BY <1>1, Zenon DEF Moves, MigratingPcs
<1>4. Control(c)'
  BY <1>1, <1>2, Zenon DEF Control, IdlePcs, HandlerPcs, MigratingPcs, placevars
<1>5. Forking(c)'
  BY <1>1, <1>2, Zenon DEF Forking, placevars
<1>6. Counted(c)'
  BY <1>1, Zenon DEF SchedInv, Counted, placevars
<1> QED BY <1>1, <1>2, <1>3, <1>4, <1>5, <1>6, Goes_Inv, Zenon DEF IdlePcs

\* A thread goes on where it was interrupted, or was switched away from.
LEMMA Returns_Inv ==
  ASSUME SchedInv, NEW c \in CPUs, pc[c] \in {"switch", "clear_ipi"}, ~c_isidle[c],
         pc' = [pc EXCEPT ![c] = resume[c_curthread[c]]],
         UNCHANGED <<placevars, newstate, mig, resume, lk>>,
         \A d \in CPUs : d # c => (d \in unidle => d \in unidle')
  PROVE  SchedInv'
<1>1. PICK to \in {"run", "lk_back", "forking"} : to = resume[c_curthread[c]] /\ pc'[c] = to
  BY Zenon DEF SchedInv, SchedTypeOK
<1>2. Moves(c, pc[c], to)
  BY <1>1, Zenon DEF Moves, MigratingPcs
<1>3. Control(c)'
  BY <1>1, Zenon DEF Control, IdlePcs, HandlerPcs, MigratingPcs, placevars
<1>4. Forking(c)'
  BY <1>1, Return_Forking, Zenon DEF Forking, ThreadPcs, placevars
<1>5. Counted(c)'
  BY <1>1, Zenon DEF SchedInv, Counted, placevars
<1>6. to \in ThreadPcs
  BY Zenon DEF ThreadPcs
<1> QED BY <1>1, <1>2, <1>3, <1>4, <1>5, <1>6, Goes_Inv, Zenon

LEMMA SwitchLock_Inv ==
  ASSUME SchedInv, NEW c \in CPUs, SwitchLock(c)
  PROVE  SchedInv'
<1>1. /\ pc[c] = "switch" /\ ~c_isidle[c]
      /\ UNCHANGED <<placevars, newstate, mig, resume, lk, unidle>>
      /\ pc' = [pc EXCEPT ![c] = resume[c_curthread[c]]] \/ pc' = [pc EXCEPT ![c] = "place"]
  BY Zenon DEF SwitchLock, Goto, chanvars, threadvars, migvars, placevars
<1>2. CASE pc' = [pc EXCEPT ![c] = resume[c_curthread[c]]]
  BY <1>1, <1>2, Returns_Inv, Zenon
<1>3. CASE pc' = [pc EXCEPT ![c] = "place"]
  <2>1. pc'[c] = "place"
    BY <1>3, Zenon DEF SchedInv, SchedTypeOK
  <2>2. Moves(c, pc[c], "place")
    BY <1>1, <1>3, Zenon DEF Moves, MigratingPcs
  <2>3. Control(c)'
    BY <1>1, <2>1, Zenon DEF SchedInv, Control, IdlePcs, HandlerPcs, MigratingPcs, placevars
  <2>4. Forking(c)'
    BY <1>1, <2>1, Zenon DEF SchedInv, Forking, ThreadPcs, placevars
  <2>5. Counted(c)'
    BY <1>1, <2>1, Zenon DEF SchedInv, Counted, placevars
  <2> QED BY <1>1, <2>2, <2>3, <2>4, <2>5, Goes_Inv, Zenon DEF BusyPcs, ThreadPcs
<1> QED BY <1>1, <1>2, <1>3, Zenon

LEMMA ClearIpi_Inv ==
  ASSUME SchedInv, NEW c \in CPUs, ClearIpi(c)
  PROVE  SchedInv'
<1>1. /\ pc[c] = "clear_ipi" /\ UNCHANGED <<placevars, newstate, mig, resume, lk>>
      /\ pc' = [pc EXCEPT ![c] = IF c_isidle[c] THEN "relock" ELSE resume[c_curthread[c]]]
      /\ \A d \in CPUs : d # c => (d \in unidle => d \in unidle')
  BY Zenon DEF ClearIpi, Goto, chanvars, threadvars, migvars, placevars
<1>2. CASE ~c_isidle[c]
  BY <1>1, <1>2, Returns_Inv, Zenon
<1>3. CASE c_isidle[c]
  <2>1. pc' = [pc EXCEPT ![c] = "relock"] /\ pc'[c] = "relock"
    BY <1>1, <1>3, Zenon DEF SchedInv, SchedTypeOK
  <2>2. Moves(c, pc[c], "relock")
    BY <1>1, <2>1, Zenon DEF Moves, MigratingPcs
  <2>3. Control(c)'
    BY <1>1, <1>3, <2>1, Zenon DEF SchedInv, Control, IdlePcs, HandlerPcs, MigratingPcs, placevars
  <2>4. Forking(c)'
    BY <1>1, <1>3, Zenon DEF Forking, placevars
  <2>5. Counted(c)'
    BY <1>1, <2>1, Zenon DEF SchedInv, Counted, placevars
  <2> QED BY <1>1, <1>3, <2>2, <2>3, <2>4, <2>5, Goes_Inv, Zenon DEF IdlePcs
<1> QED BY <1>2, <1>3, Zenon

\* Interrupts.
LEMMA Handlers_Inv ==
  ASSUME SchedInv, NEW c \in CPUs, UnidleInterrupt(c) \/ HardclockYield(c) \/ HardclockMigrate(c)
  PROVE  SchedInv'
<1>0. PICK t \in Threads : t = c_curthread[c]
  BY Zenon DEF SchedInv, SchedTypeOK
<1>1. PICK to \in {"clear_ipi", "switch", "mig_count"} :
        /\ EnterHandler(c, to) /\ unidle' = unidle
        /\ newstate' = [newstate EXCEPT ![c] = "READY"] \/ (newstate' = newstate /\ to = "clear_ipi")
        /\ (mig' = mig /\ to # "mig_count") \/ (mig' = [mig EXCEPT ![c].i = 1] /\ to = "mig_count")
  BY Zenon DEF UnidleInterrupt, HardclockYield, HardclockMigrate
<1>2. /\ UNCHANGED <<placevars, lk>> /\ pc[c] \in {"run", "lk_back", "forking", "idle"}
      /\ pc' = [pc EXCEPT ![c] = to] /\ pc'[c] = to
      /\ resume' = IF pc[c] = "idle" THEN resume ELSE [resume EXCEPT ![t] = pc[c]]
  BY <1>0, <1>1, Zenon DEF EnterHandler, Interruptible, Goto, chanvars, placevars, SchedInv, SchedTypeOK
<1>3. c_isidle[c] <=> pc[c] = "idle"
  BY <1>2, Zenon DEF SchedInv, Control, IdlePcs, HandlerPcs
<1>4. /\ newstate' \in [CPUs -> {"READY", "SLEEP", "ZOMBIE"}] /\ (to # "clear_ipi" => newstate'[c] = "READY")
      /\ \A d \in CPUs : d # c => newstate'[d] = newstate[d]
  BY <1>1, Zenon DEF SchedInv, SchedTypeOK
<1>5. /\ resume' \in [Threads -> {"run", "lk_back", "forking"}]
      /\ \A u \in Threads : u # t => resume'[u] = resume[u]
      /\ resume'[t] = IF pc[c] = "idle" THEN resume[t] ELSE pc[c]
  BY <1>2, Zenon DEF SchedInv, SchedTypeOK
<1>6. mig' \in [CPUs -> Migrations]
  <2>1. mig \in [CPUs -> Migrations] /\ mig[c] \in Migrations
    BY Zenon DEF SchedInv, SchedTypeOK
  <2>2. PICK m \in Migrations : m = [mig[c] EXCEPT !.i = 1]
    <3>1. [mig[c] EXCEPT !.i = 1] \in Migrations
      BY <2>1 DEF Migrations
    <3> QED BY <3>1, Zenon
  <2>3. mig' = mig \/ mig' = [mig EXCEPT ![c] = m]
    BY <1>1, <2>2, Zenon
  <2> QED BY <2>1, <2>3, Zenon
<1>7. \A d \in CPUs : d # c => mig'[d] = mig[d]
  BY <1>1, Zenon DEF SchedInv, SchedTypeOK
<1>8. SchedTypeOK'
  BY <1>2, <1>4, <1>5, <1>6, Zenon DEF SchedInv, SchedTypeOK, HandlerPcs, placevars
<1>9. Within(c)
  <2>1. Moves(c, pc[c], to)
    BY <1>2, Zenon DEF Moves, MigratingPcs
  <2> QED BY <1>0, <1>1, <1>2, <1>4, <1>5, <1>7, <2>1, Zenon DEF Within
<1>10. Control(c)'
  BY <1>1, <1>2, <1>3, <1>4, Zenon DEF Control, IdlePcs, HandlerPcs, MigratingPcs, placevars
<1>11. Forking(c)'
  BY <1>2, <1>4, Zenon DEF Forking, ThreadPcs, placevars
<1>12. Counted(c)'
  <2>1. Counted(c) /\ mig[c] \in Migrations
    BY Zenon DEF SchedInv, SchedTypeOK
  <2>2. /\ mig'[c].my_count = mig[c].my_count /\ mig'[c].total_count = mig[c].total_count
        /\ mig'[c].to_send = mig[c].to_send /\ (to = "mig_count" => mig'[c].i = 1)
    BY <1>1, <2>1 DEF SchedInv, SchedTypeOK, Migrations
  <2>3. 1 \in CPUs
    BY CpuAssumption DEF CPUs
  <2> QED BY <1>2, <2>1, <2>2, <2>3, Zenon DEF Counted, placevars
<1>13. Resumes(t)'
  <2>1. Resumes(t) /\ \A d \in CPUs : d # c => c_curthread[d] # t
    BY <1>0, Distinct_Currents, Zenon DEF SchedInv
  <2>2. CASE pc[c] = "idle"
    BY <1>0, <1>2, <1>3, <1>5, <2>1, <2>2, Zenon DEF Resumes, placevars
  <2>3. CASE pc[c] # "idle"
    <3>1. forked[t] # NULL <=> pc[c] = "forking"
      BY <1>0, <1>2, <1>3, <2>3, Zenon DEF SchedInv, Forking, ThreadPcs
    <3>2. t_state[t] \in {"NONE", "ZOMBIE"} => forked[t] = NULL
      BY <2>1, Zenon DEF Resumes
    <3> QED BY <1>2, <1>5, <2>3, <3>1, <3>2, Zenon DEF Resumes, placevars
  <2> QED BY <2>2, <2>3, Zenon
<1> QED BY <1>0, <1>8, <1>9, <1>10, <1>11, <1>12, <1>13, Within_Inv, Zenon

\* thread_consider_migration: the steps that count, and those of its loop that move nobody.
LEMMA Migrates_Inv ==
  ASSUME SchedInv, NEW c \in CPUs, NEW m \in Migrations, NEW to \in {"switch", "mig_count", "mig_pull"} \cup MigratingPcs,
         pc[c] \in {"mig_count", "mig_push", "mig_move"}, pc[c] \in MigratingPcs => to \in MigratingPcs,
         pc' = [pc EXCEPT ![c] = to], mig' = [mig EXCEPT ![c] = m],
         UNCHANGED <<placevars, newstate, lk, unidle, resume>>, Counted(c)'
  PROVE  SchedInv'
<1>0. PICK t \in Threads : t = c_curthread[c]
  BY Zenon DEF SchedInv, SchedTypeOK
<1>1. pc'[c] = to /\ \A d \in CPUs : d # c => mig'[d] = mig[d]
  BY Zenon DEF SchedInv, SchedTypeOK
<1>2. SchedTypeOK'
  BY Zenon DEF SchedInv, SchedTypeOK, HandlerPcs, MigratingPcs, placevars
<1>3. Within(c)
  <2>1. Moves(c, pc[c], to)
    BY Zenon DEF Moves, MigratingPcs
  <2> QED BY <1>1, <2>1, Zenon DEF Within
<1>4. Control(c)'
  BY <1>1, Zenon DEF SchedInv, Control, IdlePcs, HandlerPcs, MigratingPcs, placevars
<1>5. Forking(c)'
  <2>1. newstate[c] = "READY"
    BY Zenon DEF SchedInv, Control, MigratingPcs
  <2> QED BY <1>1, <2>1, Zenon DEF Forking, ThreadPcs, MigratingPcs, placevars
<1>6. Resumes(t)'
  <2>1. Resumes(t) /\ \A d \in CPUs : d # c => c_curthread[d] # t
    BY <1>0, Distinct_Currents, Zenon DEF SchedInv
  <2>2. pc[c] \notin ThreadPcs
    BY Zenon DEF ThreadPcs
  <2> QED BY <1>0, <1>1, <2>1, <2>2, Zenon DEF Resumes, ThreadPcs, MigratingPcs, placevars
<1> QED BY <1>0, <1>2, <1>3, <1>4, <1>5, <1>6, Within_Inv, Zenon

LEMMA Share == ASSUME NEW n \in Nat PROVE DIVROUNDUP(n, NCPU) \in Nat
BY CpuAssumption DEF DIVROUNDUP

LEMMA MigCount_Inv ==
  ASSUME SchedInv, NEW c \in CPUs, MigCount(c)
  PROVE  SchedInv'
<1> DEFINE len == Len(c_runqueue[mig[c].i])
           total == mig[c].total_count + len
           mine == IF mig[c].i = c THEN len ELSE mig[c].my_count
           share == DIVROUNDUP(total, NCPU)
<1>1. /\ pc[c] = "mig_count" /\ UNCHANGED <<placevars, newstate, lk, unidle, resume>>
      /\ IF mig[c].i < NCPU
           THEN /\ mig' = [mig EXCEPT ![c] = [mig[c] EXCEPT !.i = mig[c].i + 1, !.my_count = mine, !.total_count = total]]
                /\ pc' = pc
           ELSE IF mine < share
                  THEN mig' = [mig EXCEPT ![c] = NoMigration] /\ pc' = [pc EXCEPT ![c] = "switch"]
                  ELSE /\ mig' = [mig EXCEPT ![c] = [NoMigration EXCEPT !.one_share = share, !.to_send = mine - share]]
                       /\ pc' = [pc EXCEPT ![c] = "mig_pull"]
  BY Zenon DEF MigCount, Goto, cpuvars, chanvars, threadvars, placevars
<1>2. mig[c] \in Migrations /\ Counted(c)
  BY Zenon DEF SchedInv, SchedTypeOK
<1>3. /\ mig[c].i \in CPUs /\ mig[c].i \in Int /\ mig[c].my_count \in Int /\ mig[c].total_count \in Int
      /\ mig[c].total_count >= 0 /\ 0 <= mig[c].my_count /\ mig[c].my_count <= Len(c_runqueue[c])
  BY <1>1, <1>2, Zenon DEF Counted, Migrations
<1>4. len \in Nat /\ Len(c_runqueue[c]) \in Nat
  BY <1>3 DEF SchedInv, SchedTypeOK
<1>5. total \in Nat /\ mine \in Nat /\ mine <= Len(c_runqueue[c])
  BY <1>3, <1>4, SMTT(20)
<1>6. share \in Nat
  BY <1>5, Share, Zenon
<1> HIDE DEF len, total, mine, share
<1>7. CASE mig[c].i < NCPU
  <2>1. PICK m \in Migrations : m = [mig[c] EXCEPT !.i = mig[c].i + 1, !.my_count = mine, !.total_count = total]
    <3>1. mig[c].i + 1 \in Int /\ mine \in Int /\ total \in Int
      BY <1>3, <1>5
    <3>2. [mig[c] EXCEPT !.i = mig[c].i + 1, !.my_count = mine, !.total_count = total] \in Migrations
      BY <1>2, <3>1, Zenon DEF Migrations
    <3> QED BY <3>2, Zenon
  <2>2. m.i = mig[c].i + 1 /\ m.my_count = mine /\ m.total_count = total /\ m.to_send = mig[c].to_send
    BY <1>2, <2>1, Zenon DEF Migrations
  <2>3. mig' = [mig EXCEPT ![c] = m] /\ pc' = [pc EXCEPT ![c] = "mig_count"] /\ mig'[c] = m /\ pc'[c] = "mig_count"
    BY <1>1, <1>7, <2>1 DEF SchedInv, SchedTypeOK
  <2>4. m.i \in CPUs
    BY <1>3, <1>7, <2>2, CpuAssumption DEF CPUs
  <2>5. Counted(c)'
    BY <1>1, <1>2, <1>5, <2>2, <2>3, <2>4 DEF Counted, placevars
  <2> QED BY <1>1, <2>3, <2>5, Migrates_Inv, Zenon DEF MigratingPcs
<1>8. CASE ~(mig[c].i < NCPU) /\ mine < share
  <2>1. NoMigration \in Migrations
    BY DEF NoMigration, Migrations
  <2>2. mig' = [mig EXCEPT ![c] = NoMigration] /\ pc' = [pc EXCEPT ![c] = "switch"] /\ mig'[c] = NoMigration /\ pc'[c] = "switch"
    BY <1>1, <1>8 DEF SchedInv, SchedTypeOK
  <2>3. Counted(c)'
    BY <1>1, <1>4, <2>2 DEF Counted, placevars, NoMigration
  <2> QED BY <1>1, <2>1, <2>2, <2>3, Migrates_Inv, Zenon DEF MigratingPcs
<1>9. CASE ~(mig[c].i < NCPU) /\ ~(mine < share)
  <2>1. PICK m \in Migrations : m = [NoMigration EXCEPT !.one_share = share, !.to_send = mine - share]
    <3>1. mine - share \in Int /\ share \in Int
      BY <1>5, <1>6
    <3>2. NoMigration \in Migrations
      BY DEF Migrations, NoMigration
    <3>3. [NoMigration EXCEPT !.one_share = share, !.to_send = mine - share] \in Migrations
      BY <3>1, <3>2, Zenon DEF Migrations
    <3> QED BY <3>3, Zenon
  <2>2. m.my_count = 0 /\ m.total_count = 0 /\ m.to_send = mine - share
    BY <2>1, Zenon DEF NoMigration
  <2>3. mig' = [mig EXCEPT ![c] = m] /\ pc' = [pc EXCEPT ![c] = "mig_pull"] /\ mig'[c] = m /\ pc'[c] = "mig_pull"
    <3>1. mig' = [mig EXCEPT ![c] = m] /\ pc' = [pc EXCEPT ![c] = "mig_pull"]
      BY <1>1, <1>9, <2>1, Zenon
    <3> QED BY <3>1, Zenon DEF SchedInv, SchedTypeOK
  <2>4. m.to_send >= 0 /\ m.to_send <= Len(c_runqueue[c])
    BY <1>4, <1>5, <1>6, <1>9, <2>2
  <2>5. Counted(c)'
    BY <1>1, <1>4, <2>2, <2>3, <2>4 DEF Counted, placevars
  <2> QED BY <1>1, <2>3, <2>5, Migrates_Inv, Zenon DEF MigratingPcs
<1> QED BY <1>7, <1>8, <1>9, Zenon

LEMMA MigLoop_Inv ==
  ASSUME SchedInv, NEW c \in CPUs, MigPush(c) \/ MigUnlock(c)
  PROVE  SchedInv'
<1>1. mig[c] \in Migrations /\ Counted(c)
  BY Zenon DEF SchedInv, SchedTypeOK
<1>2. mig[c].i \in Int /\ mig[c].to_send \in Int
  BY <1>1, Zenon DEF Migrations
<1>3. PICK m \in Migrations, to \in MigratingPcs :
        /\ pc[c] \in {"mig_push", "mig_move"} /\ UNCHANGED <<placevars, newstate, lk, unidle, resume>>
        /\ pc' = [pc EXCEPT ![c] = to] /\ mig' = [mig EXCEPT ![c] = m]
        /\ m.to_send = mig[c].to_send /\ m.my_count = mig[c].my_count /\ m.total_count = mig[c].total_count
        /\ m.i \in {mig[c].i, mig[c].i + 1}
        /\ to = "mig_move" => mig[c].i <= NCPU /\ mig[c].i # c /\ m.i = mig[c].i
  <2>1. PICK m \in Migrations : m = [mig[c] EXCEPT !.i = mig[c].i + 1]
    <3>1. [mig[c] EXCEPT !.i = mig[c].i + 1] \in Migrations
      BY <1>1, <1>2 DEF Migrations
    <3> QED BY <3>1, Zenon
  <2>2. /\ m.to_send = mig[c].to_send /\ m.my_count = mig[c].my_count /\ m.total_count = mig[c].total_count
        /\ m.i = mig[c].i + 1
    BY <1>1, <2>1, Zenon DEF Migrations
  <2>3. mig = [mig EXCEPT ![c] = mig[c]] /\ pc = [pc EXCEPT ![c] = pc[c]]
    BY Zenon DEF SchedInv, SchedTypeOK
  <2>4. /\ pc[c] \in {"mig_push", "mig_move"} /\ UNCHANGED <<placevars, newstate, lk, unidle, resume>>
        /\ \/ mig' = [mig EXCEPT ![c] = m] /\ (pc' = pc \/ pc' = [pc EXCEPT ![c] = "mig_push"]) /\ pc'[c] # "mig_move"
           \/ mig' = mig /\ pc' = [pc EXCEPT ![c] = "mig_move"] /\ mig[c].i <= NCPU /\ mig[c].i # c
           \/ mig' = mig /\ pc' = [pc EXCEPT ![c] = "mig_left"]
    BY <2>1, Zenon DEF MigPush, MigUnlock, Goto, cpuvars, chanvars, threadvars, placevars, SchedInv, SchedTypeOK
  <2> QED BY <1>1, <2>2, <2>3, <2>4, Zenon DEF MigratingPcs
<1>4. pc'[c] = to /\ mig'[c] = m
  BY <1>3, Zenon DEF SchedInv, SchedTypeOK
<1>5. to = "mig_move" => m.i \in CPUs \ {c}
  BY <1>1, <1>2, <1>3, CpuAssumption DEF Counted, CPUs
<1>6. m.i >= 1
  BY <1>1, <1>2, <1>3 DEF Counted
<1>7. Counted(c)'
  BY <1>1, <1>3, <1>4, <1>5, <1>6, Zenon DEF Counted, placevars, MigratingPcs
<1> QED BY <1>3, <1>7, Migrates_Inv, Zenon

----------------------------------------------------------------------------
\* The invariant.

LEMMA Init_Inv ==
  ASSUME Init
  PROVE  SchedInv
<1>1. /\ \A c \in CPUs : c_runqueue[c] = <<>> /\ c_zombies[c] = <<>> /\ woken[c] = <<>> /\ victims[c] = <<>>
                         /\ ~c_isidle[c] /\ pc[c] = "run" /\ mig[c] = NoMigration /\ c_curthread[c] \in Threads
      /\ \A t \in Threads : resume[t] = "run" /\ forked[t] = NULL
      /\ wchan = <<>> /\ <<>> \in Seq(Threads) /\ NoMigration \in Migrations
  BY DEF Init, NoMigration, Migrations
<1>2. ASSUME NEW t \in Threads
      PROVE  \/ t_state[t] = "NONE" /\ t_cpu[t] = NULL /\ (\A c \in CPUs : c_curthread[c] # t)
             \/ t_state[t] = "RUN" /\ t_cpu[t] \in CPUs /\ c_curthread[t_cpu[t]] = t
  <2>1. CASE \E c \in CPUs : c_curthread[c] = t
    <3>1. t_state[t] = "RUN" /\ t_cpu[t] = CHOOSE c \in CPUs : c_curthread[c] = t
      BY <2>1, Zenon DEF Init
    <3> QED BY <2>1, <3>1, Zenon
  <2>2. CASE ~\E c \in CPUs : c_curthread[c] = t
    BY <2>2, Zenon DEF Init
  <2> QED BY <2>1, <2>2, Zenon
<1>3. SchedTypeOK
  <2>1. t_state \in [Threads -> {"NONE", "RUN", "READY", "SLEEP", "ZOMBIE"}] /\ t_cpu \in [Threads -> CPUs \cup {NULL}]
    <3>1. DOMAIN t_state = Threads /\ DOMAIN t_cpu = Threads
      BY Zenon DEF Init
    <3>2. /\ t_state = [t \in Threads |-> t_state[t]] /\ t_cpu = [t \in Threads |-> t_cpu[t]]
      BY Zenon DEF Init
    <3>3. \A t \in Threads : t_state[t] \in {"NONE", "RUN", "READY", "SLEEP", "ZOMBIE"} /\ t_cpu[t] \in CPUs \cup {NULL}
      BY <1>2, Zenon
    <3> QED BY <3>2, <3>3, Zenon
  <2> QED BY <1>1, <2>1, Zenon DEF Init, SchedTypeOK, ThreadPcs
<1>4. PlaceInv
  <2>1. Channel
    BY <1>1, ElemsEmpty, Zenon DEF Channel
  <2>2. ASSUME NEW c \in CPUs PROVE Listed(c)
    BY <1>1, ElemsEmpty, Zenon DEF Listed
  <2>3. ASSUME NEW c \in CPUs PROVE Current(c)
    <3>1. PICK t \in Threads : t = c_curthread[c]
      BY <1>1, Zenon
    <3>2. t_state[t] = "RUN" /\ t_cpu[t] \in CPUs /\ c_curthread[t_cpu[t]] = t
      BY <1>2, <3>1, Zenon
    <3>3. t_cpu[t] = c
      BY <3>1, <3>2, Zenon DEF Init
    <3> QED BY <1>1, <3>1, <3>2, <3>3, Zenon DEF Current
  <2>4. ASSUME NEW t \in Threads PROVE Found(t) /\ Child(t)
    BY <1>1, <1>2, Zenon DEF Found, Child
  <2> QED BY <2>1, <2>2, <2>3, <2>4, Zenon DEF PlaceInv
<1>5. ASSUME NEW c \in CPUs PROVE Control(c) /\ Forking(c) /\ Counted(c)
  <2>1. Control(c) /\ Forking(c)
    BY <1>1, Zenon DEF Control, Forking, IdlePcs, MigratingPcs
  <2>2. Len(c_runqueue[c]) = 0
    BY <1>1
  <2> QED BY <1>1, <2>1, <2>2 DEF Counted, NoMigration
<1>6. ASSUME NEW t \in Threads PROVE Resumes(t)
  BY <1>1, Zenon DEF Resumes
<1> QED BY <1>3, <1>4, <1>5, <1>6, Zenon DEF SchedInv

LEMMA Next_Inv ==
  ASSUME SchedInv, [Next]_vars
  PROVE  SchedInv'
<1>1. CASE UNCHANGED vars
  BY <1>1, Unchanged_Inv, Zenon
<1>2. ASSUME NEW c \in CPUs, ThreadCode(c) PROVE SchedInv'
  <2>1. ASSUME NEW u \in Threads, ForkCreate(c, u) PROVE SchedInv'
    BY <2>1, ForkCreate_Inv, Zenon
  <2> QED BY <1>2, <2>1, ForkRunnable_Inv, Calls_Inv, Locks_Inv, Unlocks_Inv, WakeTake_Inv, WakeRunnable_Inv, Zenon DEF ThreadCode
<1>3. ASSUME NEW c \in CPUs, Switching(c) PROVE SchedInv'
  BY <1>3, SwitchLocks_Inv, SwitchLock_Inv, SwitchPlace_Inv, SwitchPick_Inv, SwitchTail_Inv, Exorcise_Inv, Zenon DEF Switching
<1>4. ASSUME NEW c \in CPUs, Interrupt(c) PROVE SchedInv'
  BY <1>4, Handlers_Inv, ClearIpi_Inv, Locks_Inv, Zenon DEF Interrupt
<1>5. ASSUME NEW c \in CPUs, Migrating(c) PROVE SchedInv'
  BY <1>5, MigCount_Inv, MigPull_Inv, MigLoop_Inv, MigSkip_Inv, MigMove_Inv, MigLeft_Inv, Zenon DEF Migrating
<1> QED BY <1>1, <1>2, <1>3, <1>4, <1>5, Zenon DEF Next

\* SchedInv holds in every state.
LEMMA Sched_Inductive == Spec => []SchedInv
BY Init_Inv, Next_Inv, PTL DEF Spec

----------------------------------------------------------------------------
\* What it gives.

\* The stack a CPU runs or idles on is its own: no other CPU has the thread as its current one or on
\* its run queue, so thread_consider_migration did not send it away and no other CPU picks it up.
THEOREM CurthreadIsKept == Spec => []CurthreadStays
<1>1. ASSUME SchedInv PROVE CurthreadStays
  <2>1. ASSUME NEW c \in CPUs PROVE t_cpu[c_curthread[c]] = c
    BY <1>1, Zenon DEF SchedInv, PlaceInv, Current
  <2>2. ASSUME NEW c \in CPUs, NEW d \in CPUs, d # c
        PROVE  c_curthread[d] # c_curthread[c] /\ c_curthread[c] \notin wakeall_target(c_runqueue[d])
    <3>1. c_runqueue[d] \in Seq(Threads)
      BY <1>1, Zenon DEF SchedInv, SchedTypeOK
    <3>2. wakeall_target(c_runqueue[d]) = Elems(c_runqueue[d])
      BY <3>1, ElemsTyped, Zenon
    <3>3. \A v \in Elems(c_runqueue[d]) : t_cpu[v] = d
      BY <1>1, ListStates, Zenon
    <3> QED BY <2>1, <2>2, <3>2, <3>3, Zenon
  <2> QED BY <2>1, <2>2, Zenon DEF CurthreadStays
<1> QED BY <1>1, Sched_Inductive, PTL

\* A CPU in cpu_idle whose run queue has a thread has IPI_UNIDLE pending, whatever order the test of
\* the queue, the unlock, cpu_idle and another CPU's thread_make_runnable come in.
THEOREM IdleIsTold == Spec => []IdleHasNoWork
<1>1. ASSUME SchedInv PROVE IdleHasNoWork
  BY <1>1, Zenon DEF SchedInv, Control, IdleHasNoWork
<1> QED BY <1>1, Sched_Inductive, PTL

\* The assertions of exorcise and thread_destroy hold, and thread_consider_migration, which counts
\* under locks it has let go, never takes a thread from an empty list and keeps to_send unsigned.
THEOREM SchedNoPanic == Spec => []NoPanic
<1>1. ASSUME SchedInv PROVE NoPanic
  <2> SUFFICES ASSUME NEW c \in CPUs
               PROVE  pc[c] # "panic" /\ mig[c].to_send >= 0 /\ (pc[c] = "mig_move" => Len(victims[c]) >= mig[c].to_send)
    BY Zenon DEF NoPanic
  <2>1. pc[c] \in ThreadPcs \cup IdlePcs \cup BusyPcs \cup HandlerPcs /\ Counted(c) /\ mig[c] \in Migrations
    BY <1>1, Zenon DEF SchedInv, SchedTypeOK
  <2>2. pc[c] # "panic"
    BY <2>1, Zenon DEF ThreadPcs, IdlePcs, BusyPcs, HandlerPcs
  <2>3. mig[c].to_send \in Int /\ Len(victims[c]) \in Nat
    BY <1>1, <2>1 DEF Migrations, SchedInv, SchedTypeOK
  <2> QED BY <2>1, <2>2, <2>3, Zenon DEF Counted
<1> QED BY <1>1, Sched_Inductive, PTL

INSTANCE FiniteSetTheorems

\* Every thread there is, is in exactly one place: running on one CPU, once on one run queue, on the
\* channel, in the hands of a wakeup, a migration or its parent, or among the zombies of its CPU.
THEOREM ThreadInOnePlace == Spec => []OnePlace
<1>1. ASSUME SchedInv PROVE OnePlace
  <2> SUFFICES ASSUME NEW t \in Threads PROVE Cardinality(Places(t)) = IF t_cpu[t] = NULL THEN 0 ELSE 1
    BY Zenon DEF OnePlace
  <2>1. CASE t_cpu[t] = NULL
    BY <1>1, <2>1, Places_None, FS_EmptySet, Zenon
  <2>2. CASE t_cpu[t] # NULL
    <3>1. PICK x : Places(t) = {x}
      BY <1>1, <2>2, Places_One, Zenon
    <3> QED BY <2>2, <3>1, FS_Singleton, Zenon
  <2> QED BY <2>1, <2>2, Zenon
<1> QED BY <1>1, Sched_Inductive, PTL
=============================================================================
