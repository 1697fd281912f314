------------------------------ MODULE MCKmalloc ------------------------------
(***************************************************************************)
(* The heap for TLC: pages of 12 bytes cut into blocks of 4 or 6, two       *)
(* threads, two pagerefs to a page.  A vm.c kernel runs on a machine with   *)
(* more memory than the clients can use, so that pages are returned and     *)
(* used again, with kernel threads only and with a process; and on one so   *)
(* small that the coremap runs out and that its frames meet those taken     *)
(* during boot.  A dumbvm kernel has four pages and runs out.  What comes   *)
(* after vm.c has given out a page it does not have is not followed.        *)
(***************************************************************************)
EXTENDS Kmalloc

CONSTANTS t1, t2, as2

Machine(v, first, pages, as) ==
  [vm |-> v, firstfree |-> PAGE_SIZE * first, ramsize |-> PAGE_SIZE * pages,
   as |-> [t \in Threads |-> IF t = t2 THEN as ELSE NULL]]
MCMachines ==
  {Machine("vm", 7, 13, NULL), Machine("vm", 7, 13, as2), Machine("vm", 2, 6, NULL), Machine("dumbvm", 7, 11, NULL)}

SoFarGood == ~misgiven

MCSizes == <<4, 6>>
MCRequests(m) == IF m.vm = "dumbvm" THEN {4, 5, 12} ELSE IF m.as[t2] = NULL THEN {4, 12} ELSE {4}
=============================================================================
