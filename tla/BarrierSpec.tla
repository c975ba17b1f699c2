----------------------------- MODULE BarrierSpec -----------------------------
(***************************************************************************)
(* What a team barrier promises, with no mechanism: a thread leaves its    *)
(* k-th barrier only after every member of the team has entered its k-th.  *)
(***************************************************************************)
EXTENDS Naturals

CONSTANTS Threads,              \* the members of the team
          Rounds                \* barriers each member executes (a bound)

VARIABLES entered,              \* barriers the thread has entered
          left                  \* barriers it has left

vars == <<entered, left>>

Init ==
  /\ entered = [t \in Threads |-> 0]
  /\ left = [t \in Threads |-> 0]

Enter(t) ==
  /\ left[t] = entered[t]
  /\ entered[t] < Rounds
  /\ entered' = [entered EXCEPT ![t] = @ + 1]
  /\ UNCHANGED left

Leave(t) ==
  /\ left[t] < entered[t]
  /\ \A u \in Threads : entered[u] >= entered[t]
  /\ left' = [left EXCEPT ![t] = @ + 1]
  /\ UNCHANGED entered

Next == \E t \in Threads : Enter(t) \/ Leave(t)

Spec == Init /\ [][Next]_vars
=============================================================================
