----------------------------- MODULE MutexSpec -----------------------------
(***************************************************************************)
(* What a critical construct promises: one thread at a time is inside.     *)
(***************************************************************************)
CONSTANT Threads

VARIABLE inside                 \* the threads in the critical section

Init == inside = {}

Acquire(t) == inside = {} /\ inside' = {t}

Release(t) == inside = {t} /\ inside' = {}

Next == \E t \in Threads : Acquire(t) \/ Release(t)

Spec == Init /\ [][Next]_inside
=============================================================================
