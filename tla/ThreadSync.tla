----------------------------- MODULE ThreadSync -----------------------------
(***************************************************************************)
(* The wait / wake primitive of the OpenMP runtime (libopenmp/thread.c):   *)
(* __pmp_thread_wait and __pmp_thread_wake, on which the team barrier,     *)
(* the join of a parallel region and the assignment of pooled threads all  *)
(* rest.                                                                   *)
(*                                                                         *)
(* The module has no Next of its own.  A caller starts a call with         *)
(* CallWait or CallWake, composes WaitStep and WakeStep into its Next, and *)
(* lets a thread run on only while InCall(t) is false: wait[t] and wake[t] *)
(* are the program counters inside the two functions.                      *)
(***************************************************************************)
EXTENDS Integers

CONSTANT Threads                \* the pmp_thread_t structures involved

VARIABLES sync,                 \* thread->sync
          pending,              \* SIGPMP is pending for the thread
          wait,                 \* where the thread is in __pmp_thread_wait
          wake,                 \* where it is in __pmp_thread_wake
          target                \* the thread it is waking

syncVars == <<sync, pending, wait, wake, target>>

SyncStates == {"IDLE", "BLOCKED", "UNBLOCKED"}
WaitPoints == {"out", "spin", "clear", "block", "sigwait"}
WakePoints == {"out", "cas", "idle", "kill"}

(***************************************************************************)
(* target[t] means something only while wake[t] is not "out".               *)
(***************************************************************************)
SyncTypeOK ==
  /\ sync \in [Threads -> SyncStates]
  /\ pending \in [Threads -> BOOLEAN]
  /\ wait \in [Threads -> WaitPoints]
  /\ wake \in [Threads -> WakePoints]
  /\ target \in [Threads -> Threads]

SyncInit ==
  /\ sync = [t \in Threads |-> "IDLE"]
  /\ pending = [t \in Threads |-> FALSE]
  /\ wait = [t \in Threads |-> "out"]
  /\ wake = [t \in Threads |-> "out"]
  /\ target = [t \in Threads |-> t]

InCall(t) == wait[t] # "out" \/ wake[t] # "out"

(***************************************************************************)
(* The two calls: the frames that callers conjoin to their own step.       *)
(***************************************************************************)
CallWait(t) ==
  /\ wait' = [wait EXCEPT ![t] = "spin"]
  /\ UNCHANGED <<sync, pending, wake, target>>

CallWake(t, u) ==
  /\ wake' = [wake EXCEPT ![t] = "cas"]
  /\ target' = [target EXCEPT ![t] = u]
  /\ UNCHANGED <<sync, pending, wait>>

-----------------------------------------------------------------------------
(***************************************************************************)
(* __pmp_thread_wait.  The first test of sync and the spin loop are the    *)
(* same read, repeated at least once; thread_spin (0 to 100000 and more)   *)
(* is abstracted to "any number of times".                                 *)
(***************************************************************************)
SpinHit(t) ==
  /\ wait[t] = "spin"
  /\ sync[t] = "UNBLOCKED"
  /\ wait' = [wait EXCEPT ![t] = "clear"]
  /\ UNCHANGED <<sync, pending, wake, target>>

SpinOver(t) ==
  /\ wait[t] = "spin"
  /\ sync[t] # "UNBLOCKED"
  /\ wait' = [wait EXCEPT ![t] = "block"]
  /\ UNCHANGED <<sync, pending, wake, target>>

(* Fault: BLOCKED is stored without looking, not exchanged for IDLE.       *)
BlockByStore(t) ==
  /\ wait[t] = "block"
  /\ sync' = [sync EXCEPT ![t] = "BLOCKED"]
  /\ wait' = [wait EXCEPT ![t] = "sigwait"]
  /\ UNCHANGED <<pending, wake, target>>

Block(t) ==
  /\ wait[t] = "block"
  /\ IF sync[t] = "IDLE"
       THEN /\ sync' = [sync EXCEPT ![t] = "BLOCKED"]
            /\ wait' = [wait EXCEPT ![t] = "sigwait"]
       ELSE /\ wait' = [wait EXCEPT ![t] = "clear"]
            /\ UNCHANGED sync
  /\ UNCHANGED <<pending, wake, target>>

Clear(t) ==
  /\ wait[t] = "clear"
  /\ sync' = [sync EXCEPT ![t] = "IDLE"]
  /\ wait' = [wait EXCEPT ![t] = "out"]
  /\ UNCHANGED <<pending, wake, target>>

SigWait(t) ==
  /\ wait[t] = "sigwait"
  /\ pending[t]
  /\ pending' = [pending EXCEPT ![t] = FALSE]
  /\ wait' = [wait EXCEPT ![t] = "out"]
  /\ UNCHANGED <<sync, wake, target>>

WaitStep(t) == SpinHit(t) \/ SpinOver(t) \/ Block(t) \/ Clear(t) \/ SigWait(t)

-----------------------------------------------------------------------------
(***************************************************************************)
(* __pmp_thread_wake.  The assertion on the value the exchange returns is  *)
(* not a guard: a build without assertions goes on, and the second wake-up *)
(* is lost.  NoDoubleWake states the assertion.                            *)
(***************************************************************************)
(* Fault: the signal is sent whatever the exchange returned.               *)
WakeCasAndSignal(t) ==
  LET u == target[t] IN
  /\ wake[t] = "cas"
  /\ sync' = [sync EXCEPT ![u] = IF @ = "IDLE" THEN "UNBLOCKED" ELSE @]
  /\ wake' = [wake EXCEPT ![t] = "idle"]
  /\ UNCHANGED <<pending, wait, target>>

WakeCas(t) ==
  LET u == target[t] IN
  /\ wake[t] = "cas"
  /\ sync' = [sync EXCEPT ![u] = IF @ = "IDLE" THEN "UNBLOCKED" ELSE @]
  /\ wake' = [wake EXCEPT ![t] = IF sync[u] = "BLOCKED" THEN "idle" ELSE "out"]
  /\ UNCHANGED <<pending, wait, target>>

(* Fault: the thread is signalled but stays marked BLOCKED.                *)
WakeStillBlocked(t) ==
  /\ wake[t] = "idle"
  /\ wake' = [wake EXCEPT ![t] = "kill"]
  /\ UNCHANGED <<sync, pending, wait, target>>

WakeIdle(t) ==
  /\ wake[t] = "idle"
  /\ sync' = [sync EXCEPT ![target[t]] = "IDLE"]
  /\ wake' = [wake EXCEPT ![t] = "kill"]
  /\ UNCHANGED <<pending, wait, target>>

WakeKill(t) ==
  /\ wake[t] = "kill"
  /\ pending' = [pending EXCEPT ![target[t]] = TRUE]
  /\ wake' = [wake EXCEPT ![t] = "out"]
  /\ UNCHANGED <<sync, wait, target>>

WakeStep(t) == WakeCas(t) \/ WakeIdle(t) \/ WakeKill(t)

-----------------------------------------------------------------------------
(***************************************************************************)
(* assert(sync != PMP_SYNC_UNBLOCKED) in __pmp_thread_wake: a thread is    *)
(* never woken a second time before it has consumed the first wake-up, and *)
(* no two threads are inside a wake-up of the same thread.                 *)
(***************************************************************************)
NoDoubleWake ==
  \A t \in Threads : wake[t] # "out" =>
    /\ wake[t] = "cas" => sync[target[t]] # "UNBLOCKED"
    /\ ~pending[target[t]]
    /\ \A u \in Threads \ {t} :
         wake[u] # "out" => target[u] # target[t]
=============================================================================
