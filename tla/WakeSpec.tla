------------------------------ MODULE WakeSpec ------------------------------
(***************************************************************************)
(* What __pmp_thread_wait and __pmp_thread_wake promise their callers: a   *)
(* binary semaphore per thread.  A wake-up is never lost and never counted *)
(* twice, and it may come before the wait it ends, even before the thread  *)
(* exists.                                                                 *)
(***************************************************************************)
CONSTANT Threads

VARIABLES token,                \* a wake-up is there for the thread
          waiting               \* the thread is in __pmp_thread_wait

vars == <<token, waiting>>

Init ==
  /\ token = [t \in Threads |-> FALSE]
  /\ waiting = [t \in Threads |-> FALSE]

Wake(u) ==
  /\ ~token[u]
  /\ token' = [token EXCEPT ![u] = TRUE]
  /\ UNCHANGED waiting

StartWait(t) ==
  /\ ~waiting[t]
  /\ waiting' = [waiting EXCEPT ![t] = TRUE]
  /\ UNCHANGED token

EndWait(t) ==
  /\ waiting[t] /\ token[t]
  /\ waiting' = [waiting EXCEPT ![t] = FALSE]
  /\ token' = [token EXCEPT ![t] = FALSE]

Next == \E t \in Threads : Wake(t) \/ StartWait(t) \/ EndWait(t)

Spec == Init /\ [][Next]_vars
=============================================================================
