------------------------------ MODULE WaitWake ------------------------------
(***************************************************************************)
(* The wait / wake primitive under its most general use in the runtime:    *)
(* threads are created, start up and then wait over and over; any other    *)
(* thread may wake a thread for which no wake-up is outstanding, also one  *)
(* that does not exist yet (the "usurped" creator of the comment in        *)
(* __pmp_thread_run).                                                      *)
(***************************************************************************)
EXTENDS ThreadSync

VARIABLES born,                 \* "no", "created" or "running" (tid is set)
          credit                \* history: a wake-up is owed or delivered

vars == <<syncVars, born, credit>>

TypeOK ==
  /\ SyncTypeOK
  /\ born \in [Threads -> {"no", "created", "running"}]
  /\ credit \in [Threads -> BOOLEAN]

Init ==
  /\ SyncInit
  /\ born = [t \in Threads |-> "no"]
  /\ credit = [t \in Threads |-> FALSE]

(* pthread_create, and the first lines of __pmp_thread_run.                *)
Create(t) ==
  /\ born[t] = "no"
  /\ born' = [born EXCEPT ![t] = "created"]
  /\ UNCHANGED <<syncVars, credit>>

Start(t) ==
  /\ born[t] = "created"
  /\ born' = [born EXCEPT ![t] = "running"]
  /\ UNCHANGED <<syncVars, credit>>

Wait(t) ==
  /\ born[t] = "running"
  /\ ~InCall(t)
  /\ CallWait(t)
  /\ UNCHANGED <<born, credit>>

(* What the callers guarantee: one wake-up per wait.                       *)
Wake(t, u) ==
  /\ born[t] = "running"
  /\ ~InCall(t)
  /\ u # t
  /\ ~credit[u]
  /\ credit' = [credit EXCEPT ![u] = TRUE]
  /\ CallWake(t, u)
  /\ UNCHANGED born

(* The wait ends, and with it the wake-up it consumed.                     *)
InWait(t) ==
  /\ WaitStep(t)
  /\ credit' = [credit EXCEPT ![t] = @ /\ wait'[t] # "out"]
  /\ UNCHANGED born

InWake(t) ==
  /\ WakeStep(t)
  /\ UNCHANGED <<born, credit>>

Next ==
  \E t \in Threads :
    \/ Create(t) \/ Start(t) \/ Wait(t)
    \/ \E u \in Threads : Wake(t, u)
    \/ InWait(t) \/ InWake(t)

Spec == Init /\ [][Next]_vars
FairSpec == Spec /\ \A t \in Threads : WF_vars(InWait(t)) /\ WF_vars(InWake(t))
-----------------------------------------------------------------------------
(***************************************************************************)
(* assert(thread->tid != -1) in __pmp_thread_wake: only a thread that has  *)
(* started, and so has a tid and a pthread_id, is ever signalled.          *)
(***************************************************************************)
SignalledHasTid ==
  \A t \in Threads : wake[t] \in {"idle", "kill"} => born[target[t]] = "running"

(***************************************************************************)
(* A wake-up is delivered when the exchange has stored UNBLOCKED or the    *)
(* signal is pending; the wait ends with the store of IDLE or the return   *)
(* of sigwait.  Under this mapping wait and wake are the semaphore of      *)
(* WakeSpec: nothing is lost, nothing is delivered twice.                  *)
(***************************************************************************)
Token == [t \in Threads |-> sync[t] = "UNBLOCKED" \/ pending[t]]
Waiting == [t \in Threads |-> wait[t] # "out"]
Semaphore == INSTANCE WakeSpec WITH token <- Token, waiting <- Waiting
ImplementsSemaphore == Semaphore!Spec

(***************************************************************************)
(* A waiting thread for which a wake-up has been issued returns, whichever *)
(* of the exchange, the store and the signal the two threads interleave.   *)
(***************************************************************************)
WokenReturns ==
  \A t \in Threads : (wait[t] # "out" /\ credit[t]) ~> (wait[t] = "out")
-----------------------------------------------------------------------------
(***************************************************************************)
(* The inductive invariant.  A thread with no wake-up issued is quiet; one *)
(* with a wake-up issued has it in flight (exactly one waker is in its     *)
(* wake) or delivered.                                                     *)
(***************************************************************************)
Undisturbed(u) ==
  /\ ~pending[u]
  /\ sync[u] = IF wait[u] = "sigwait" THEN "BLOCKED" ELSE "IDLE"
  /\ wait[u] # "clear"

Delivered(u) ==
  \/ sync[u] = "UNBLOCKED" /\ ~pending[u] /\ wait[u] # "sigwait"
  \/ sync[u] = "IDLE" /\ pending[u] /\ wait[u] = "sigwait"

Targets(t, u) == wake[t] # "out" /\ target[t] = u

InFlight(t, u) ==
  /\ credit[u]
  /\ wake[t] = "cas" => Undisturbed(u)
  /\ wake[t] = "idle" => Undisturbed(u) /\ wait[u] = "sigwait"
  /\ wake[t] = "kill" => ~pending[u] /\ sync[u] = "IDLE" /\ wait[u] = "sigwait"

WakeInv ==
  /\ TypeOK
  /\ \A t \in Threads : born[t] # "running" => ~InCall(t)
  /\ \A t, v, u \in Threads : Targets(t, u) /\ Targets(v, u) => t = v
  /\ \A t, u \in Threads : Targets(t, u) => InFlight(t, u)
  /\ \A u \in Threads : ~credit[u] => Undisturbed(u)
  /\ \A u \in Threads :
       credit[u] /\ (\A t \in Threads : ~Targets(t, u)) => Delivered(u)
=============================================================================
