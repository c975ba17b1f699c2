----------------------------- MODULE TeamBarrier -----------------------------
(***************************************************************************)
(* __pmp_thread_barrier (libopenmp/thread.c) over the real wait and wake   *)
(* primitives: the members of one team count down barrier_count, the last  *)
(* one resets it and wakes the others one by one, in the order of their    *)
(* local ids.  A thread that has been woken may run ahead and enter the    *)
(* next barrier while the waker is still in its loop.                      *)
(***************************************************************************)
EXTENDS ThreadSync, FiniteSets

CONSTANTS TeamSize,             \* team->team_size
          Rounds                \* barriers each member executes (a bound)

ASSUME TeamSizeAssumption == TeamSize \in Nat /\ TeamSize > 1
ASSUME RoundsAssumption == Rounds \in Nat
ASSUME ThreadsAssumption == Threads = 0 .. TeamSize - 1   \* local ids

VARIABLES barrier_count,        \* team->barrier_count
          pc,                   \* where the thread is in the barrier
          next,                 \* the index i of the waker's loop
          entered,              \* history: barriers the thread has entered
          left,                 \* history: barriers it has left
          generation            \* history: barriers completed by the team

vars == <<syncVars, barrier_count, pc, next, entered, left, generation>>

BarrierPoints == {"run", "wait", "reset", "waking"}

TypeOK ==
  /\ SyncTypeOK
  /\ barrier_count \in Int
  /\ pc \in [Threads -> BarrierPoints]
  /\ next \in [Threads -> 0 .. TeamSize]
  /\ entered \in [Threads -> Nat]
  /\ left \in [Threads -> Nat]
  /\ generation \in Nat

Init ==
  /\ SyncInit
  /\ barrier_count = TeamSize
  /\ pc = [t \in Threads |-> "run"]
  /\ next = [t \in Threads |-> 0]
  /\ entered = [t \in Threads |-> 0]
  /\ left = [t \in Threads |-> 0]
  /\ generation = 0

-----------------------------------------------------------------------------
(* Fault: off by one in the test for the last member.                      *)
EnterShort(t) ==
  /\ pc[t] = "run"
  /\ entered[t] < Rounds
  /\ barrier_count' = barrier_count - 1
  /\ entered' = [entered EXCEPT ![t] = @ + 1]
  /\ IF barrier_count > 2
       THEN pc' = [pc EXCEPT ![t] = "wait"] /\ CallWait(t)
       ELSE pc' = [pc EXCEPT ![t] = "reset"] /\ UNCHANGED syncVars
  /\ UNCHANGED <<next, left, generation>>

(* A member enters: the atomic decrement decides whether it is the last.   *)
Enter(t) ==
  /\ pc[t] = "run"
  /\ entered[t] < Rounds
  /\ barrier_count' = barrier_count - 1
  /\ entered' = [entered EXCEPT ![t] = @ + 1]
  /\ IF barrier_count > 1
       THEN pc' = [pc EXCEPT ![t] = "wait"] /\ CallWait(t)
       ELSE pc' = [pc EXCEPT ![t] = "reset"] /\ UNCHANGED syncVars
  /\ UNCHANGED <<next, left, generation>>

(* Fault: the count is reset to the number of members that wait.           *)
ResetToWaiters(t) ==
  /\ pc[t] = "reset"
  /\ barrier_count' = TeamSize - 1
  /\ pc' = [pc EXCEPT ![t] = "waking"]
  /\ next' = [next EXCEPT ![t] = 0]
  /\ generation' = generation + 1
  /\ UNCHANGED <<syncVars, entered, left>>

(* The last member resets the count before it wakes anybody.               *)
Reset(t) ==
  /\ pc[t] = "reset"
  /\ barrier_count' = TeamSize
  /\ pc' = [pc EXCEPT ![t] = "waking"]
  /\ next' = [next EXCEPT ![t] = 0]
  /\ generation' = generation + 1
  /\ UNCHANGED <<syncVars, entered, left>>

(* Fault: the waker wakes itself, too.                                     *)
WakeNextSelf(t) ==
  /\ pc[t] = "waking"
  /\ ~InCall(t)
  /\ next[t] < TeamSize
  /\ next' = [next EXCEPT ![t] = @ + 1]
  /\ CallWake(t, next[t])
  /\ UNCHANGED <<barrier_count, pc, entered, left, generation>>

(* One turn of the waker's loop: every member but itself is woken.         *)
WakeNext(t) ==
  /\ pc[t] = "waking"
  /\ ~InCall(t)
  /\ next[t] < TeamSize
  /\ next' = [next EXCEPT ![t] = @ + 1]
  /\ IF next[t] # t THEN CallWake(t, next[t]) ELSE UNCHANGED syncVars
  /\ UNCHANGED <<barrier_count, pc, entered, left, generation>>

(* The function returns: from the wait, or from the end of the loop.       *)
Leave(t) ==
  /\ ~InCall(t)
  /\ \/ pc[t] = "wait"
     \/ pc[t] = "waking" /\ next[t] = TeamSize
  /\ pc' = [pc EXCEPT ![t] = "run"]
  /\ left' = [left EXCEPT ![t] = @ + 1]
  /\ UNCHANGED <<syncVars, barrier_count, next, entered, generation>>

InSync(t) ==
  /\ WaitStep(t) \/ WakeStep(t)
  /\ UNCHANGED <<barrier_count, pc, next, entered, left, generation>>

Step(t) == Enter(t) \/ Reset(t) \/ WakeNext(t) \/ Leave(t) \/ InSync(t)

Next == \E t \in Threads : Step(t)

Spec == Init /\ [][Next]_vars

(* The kernel schedules every runnable thread.                             *)
FairSpec == Spec /\ \A t \in Threads : WF_vars(Step(t))
-----------------------------------------------------------------------------
(***************************************************************************)
(* Nobody leaves the k-th barrier before every member has entered it: what *)
(* __ompc_barrier promises the program.                                    *)
(***************************************************************************)
NoEarlyExit == \A t, u \in Threads : left[t] <= entered[u]

(***************************************************************************)
(* assert(count > 0) in __pmp_thread_barrier, and the counter counts the   *)
(* members that are still outside the barrier the team is in.              *)
(***************************************************************************)
Missing == {t \in Threads : entered[t] = generation}

CountIsMissing ==
  barrier_count = Cardinality(Missing)

(***************************************************************************)
(* A wake-up is never left over: a member that runs user code has consumed *)
(* the wake-up that let it out, so that its next wait really waits.        *)
(***************************************************************************)
NoStaleWake ==
  \A t \in Threads : pc[t] # "wait" => sync[t] = "IDLE" /\ ~pending[t]

(***************************************************************************)
(* Every thread that enters a barrier leaves it: no wake-up is lost, in    *)
(* whatever order decrements, exchanges and signals interleave.            *)
(***************************************************************************)
EveryBarrierEnds ==
  \A t \in Threads : (left[t] < entered[t]) ~> (left[t] = entered[t])

(***************************************************************************)
(* The barrier of thread.c implements the abstract barrier.                *)
(***************************************************************************)
Abstract == INSTANCE BarrierSpec
ImplementsBarrier == Abstract!Spec
-----------------------------------------------------------------------------
(***************************************************************************)
(* The inductive invariant.  A member in the wait is asleep, half woken    *)
(* (its waker is between the store to sync and pthread_kill) or woken; the *)
(* waker owes a wake-up to the members its loop has not finished with.     *)
(***************************************************************************)
Asleep(u) ==
  /\ ~pending[u]
  /\ \/ wait[u] \in {"spin", "block"} /\ sync[u] = "IDLE"
     \/ wait[u] = "sigwait" /\ sync[u] = "BLOCKED"

HalfWoken(u) == wait[u] = "sigwait" /\ sync[u] = "IDLE" /\ ~pending[u]

Woken(u) ==
  \/ wait[u] \in {"spin", "block", "clear"} /\ sync[u] = "UNBLOCKED" /\ ~pending[u]
  \/ wait[u] = "sigwait" /\ sync[u] = "IDLE" /\ pending[u]
  \/ wait[u] = "out" /\ sync[u] = "IDLE" /\ ~pending[u]

Waking(t, u) == wake[t] # "out" /\ target[t] = u

Owes(t, u) == pc[t] = "waking" /\ u # t /\ (next[t] <= u \/ Waking(t, u))

(* Where a member is, and which barrier it is in.                          *)
PhaseInv ==
  \A t \in Threads :
    /\ entered[t] \in {generation, generation + 1}
    /\ pc[t] \in {"run", "waking"} => entered[t] = generation
    /\ entered[t] = IF pc[t] = "run" THEN left[t] ELSE left[t] + 1

(* At most one member is past its decrement as the last one.               *)
OneWaker ==
  \A t, u \in Threads :
    pc[t] \in {"reset", "waking"} /\ pc[u] \in {"reset", "waking"} => t = u

CallInv ==
  \A t \in Threads :
    /\ pc[t] # "wait" => wait[t] = "out" /\ sync[t] = "IDLE" /\ ~pending[t]
    /\ wake[t] # "out" =>
         pc[t] = "waking" /\ next[t] = target[t] + 1 /\ target[t] # t

(* The last member resets the count when everybody has entered.            *)
ResetInv == \A t, u \in Threads : pc[t] = "reset" => entered[u] = generation + 1

OwesInv ==
  \A t, u \in Threads : Owes(t, u) =>
    /\ pc[u] = "wait" /\ entered[u] = generation
    /\ IF Waking(t, u) /\ wake[t] = "kill" THEN HalfWoken(u) ELSE Asleep(u)
    /\ Waking(t, u) /\ wake[t] = "idle" => sync[u] = "BLOCKED"

SleepInv ==
  \A u \in Threads : pc[u] = "wait" =>
    /\ entered[u] = generation + 1 => Asleep(u)
    /\ entered[u] = generation /\ (\A t \in Threads : ~Owes(t, u)) => Woken(u)

BarrierInv ==
  /\ TypeOK
  /\ PhaseInv
  /\ CountIsMissing
  /\ ResetInv
  /\ OneWaker
  /\ CallInv
  /\ OwesInv
  /\ SleepInv
=============================================================================
