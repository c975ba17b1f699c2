----------------------------- MODULE ForkJoinMC -----------------------------
(* Programs for ForkJoin. *)
EXTENDS ForkJoin

(* Three regions of two threads, nested and beside each other, and regions *)
(* that ask for one thread, for all and for more than there are.           *)
MCPrograms == {<<2, 2, 2>>, <<6, 2>>, <<2, 6>>, <<1, 4>>}

(* Regions that meet at the limit. *)
LimitPrograms == {<<2, 3, 2>>, <<3, 2, 2>>, <<2, 2, 3>>}
=============================================================================
