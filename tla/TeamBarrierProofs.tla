-------------------------- MODULE TeamBarrierProofs --------------------------
(***************************************************************************)
(* Proofs about the team barrier, for every team size and number of        *)
(* rounds.                                                                 *)
(***************************************************************************)
EXTENDS TeamBarrier, FiniteSetTheorems, TLAPS

(***************************************************************************)
(* The team is finite, and its members are numbered below TeamSize.        *)
(***************************************************************************)
LEMMA TeamFacts ==
  /\ IsFiniteSet(Threads)
  /\ Cardinality(Threads) = TeamSize
  /\ \A t \in Threads : t \in Nat /\ t < TeamSize
<1>1. 0 \in Int /\ TeamSize - 1 \in Int /\ ~(0 > TeamSize - 1)
  BY TeamSizeAssumption
<1>2. /\ IsFiniteSet(0 .. TeamSize - 1)
      /\ Cardinality(0 .. TeamSize - 1) = TeamSize - 1 - 0 + 1
  BY <1>1, FS_Interval
<1> QED
  BY <1>2, TeamSizeAssumption, ThreadsAssumption

(***************************************************************************)
(* The steps inside __pmp_thread_wait and __pmp_thread_wake keep the types *)
(* of the synchronization state.                                           *)
(***************************************************************************)
LEMMA SyncStepType ==
  ASSUME SyncTypeOK, NEW t \in Threads, WaitStep(t) \/ WakeStep(t)
  PROVE  SyncTypeOK'
<1>1. CASE WaitStep(t)
  BY ZenonT(30), <1>1 DEF SyncTypeOK, WaitStep, SpinHit, SpinOver, Block, Clear, SigWait,
              SyncStates, WaitPoints
<1>2. CASE WakeStep(t)
  BY ZenonT(30), <1>2 DEF SyncTypeOK, WakeStep, WakeCas, WakeIdle, WakeKill,
              SyncStates, WakePoints
<1> QED BY <1>1, <1>2

(***************************************************************************)
(* Every step keeps the types.                                             *)
(***************************************************************************)
LEMMA TypeStep == TypeOK /\ [Next]_vars => TypeOK'
<1> USE TeamSizeAssumption, RoundsAssumption
<1> SUFFICES ASSUME TypeOK, [Next]_vars PROVE TypeOK'
  OBVIOUS
<1>1. ASSUME NEW t \in Threads, Enter(t) PROVE TypeOK'
  BY <1>1 DEF TypeOK, SyncTypeOK, Enter, CallWait, BarrierPoints, WaitPoints,
              syncVars
<1>2. ASSUME NEW t \in Threads, Reset(t) PROVE TypeOK'
  BY <1>2 DEF TypeOK, SyncTypeOK, Reset, BarrierPoints, syncVars
<1>3. ASSUME NEW t \in Threads, WakeNext(t) PROVE TypeOK'
  <2>1. next[t] \in Threads
    BY <1>3, ThreadsAssumption DEF TypeOK, WakeNext
  <2> QED
    BY <1>3, <2>1 DEF TypeOK, SyncTypeOK, WakeNext, CallWake, WakePoints,
                      syncVars
<1>4. ASSUME NEW t \in Threads, Leave(t) PROVE TypeOK'
  BY <1>4 DEF TypeOK, SyncTypeOK, Leave, BarrierPoints, syncVars
<1>5. ASSUME NEW t \in Threads, InSync(t) PROVE TypeOK'
  BY <1>5, SyncStepType DEF TypeOK, InSync
<1>6. CASE UNCHANGED vars
  BY <1>6 DEF TypeOK, SyncTypeOK, vars, syncVars
<1> QED
  BY <1>1, <1>2, <1>3, <1>4, <1>5, <1>6 DEF Next, Step

(***************************************************************************)
(* The structures of a new team have their types.                          *)
(***************************************************************************)
LEMMA TypeInit == Init => TypeOK
BY TeamSizeAssumption DEF Init, SyncInit, TypeOK, SyncTypeOK, SyncStates,
   WaitPoints, WakePoints, BarrierPoints

(***************************************************************************)
(* Type correctness of the barrier of thread.c.                            *)
(***************************************************************************)
THEOREM TypeCorrect == Spec => []TypeOK
BY TypeInit, TypeStep, PTL DEF Spec

-----------------------------------------------------------------------------
(***************************************************************************)
(* Entering: the decrement takes the member out of Missing, and it is the  *)
(* last one exactly when Missing was {t}.                                  *)
(***************************************************************************)
LEMMA EnterCount ==
  ASSUME BarrierInv, NEW t \in Threads, Enter(t)
  PROVE  /\ CountIsMissing'
         /\ barrier_count > 1 \/ \A u \in Threads \ {t} : entered[u] = generation + 1
<1>1. IsFiniteSet(Missing) /\ Cardinality(Missing) \in Nat
  <2>1. Missing \in SUBSET Threads
    BY DEF Missing
  <2> QED BY <2>1, TeamFacts, FS_Subset, FS_CardinalityType
<1>2. t \in Missing
  BY DEF Missing, BarrierInv, PhaseInv, Enter
<1>3. Missing' = Missing \ {t}
  BY <1>2 DEF Missing, Enter, BarrierInv, TypeOK, PhaseInv
<1>4. Cardinality(Missing \ {t}) = Cardinality(Missing) - 1
  BY ZenonT(30), <1>1, <1>2, FS_RemoveElement
<1>5. CountIsMissing'
  BY <1>3, <1>4 DEF CountIsMissing, BarrierInv, Enter
<1>6. ASSUME ~(barrier_count > 1), NEW u \in Threads \ {t}
      PROVE  entered[u] = generation + 1
  <2>1. Cardinality(Missing \ {t}) = 0 
    <3>1. IsFiniteSet(Missing \ {t})
      BY <1>1, FS_RemoveElement
    <3>2. Cardinality(Missing \ {t}) \in Nat
      BY <3>1, FS_CardinalityType
    <3> QED BY <1>1, <1>4, <1>6, <3>2 DEF BarrierInv, CountIsMissing
  <2>2. Missing \ {t} = {}
    BY ZenonT(30), <2>1, <1>1, FS_RemoveElement, FS_EmptySet
  <2> QED BY <2>2, <1>6 DEF Missing, BarrierInv, PhaseInv
<1> QED BY <1>5, <1>6

(***************************************************************************)
(* Entering the barrier keeps the invariant.                               *)
(***************************************************************************)
LEMMA EnterStep ==
  ASSUME BarrierInv, TypeOK', NEW t \in Threads, Enter(t)
  PROVE  BarrierInv'
<1> USE DEF BarrierInv
<1>1. /\ pc[t] = "run" /\ entered[t] = generation /\ left[t] = entered[t]
      /\ wait[t] = "out" /\ wake[t] = "out" /\ sync[t] = "IDLE" /\ ~pending[t]
  BY DEF Enter, PhaseInv, CallInv
<1>2. /\ entered' = [entered EXCEPT ![t] = generation + 1]
      /\ UNCHANGED <<sync, pending, wake, target, next, left, generation>>
      /\ \A u \in Threads \ {t} : pc'[u] = pc[u] /\ wait'[u] = wait[u]
      /\ \/ barrier_count > 1 /\ pc'[t] = "wait" /\ wait'[t] = "spin"
         \/ ~(barrier_count > 1) /\ pc'[t] = "reset" /\ wait'[t] = "out"
  BY <1>1 DEF Enter, CallWait, TypeOK, SyncTypeOK, syncVars
<1>3. PhaseInv'
  BY <1>1, <1>2 DEF PhaseInv, TypeOK
<1>4. CountIsMissing'
  BY EnterCount
<1>5. \A u \in Threads : pc[u] # "reset"
  BY <1>1 DEF ResetInv, TypeOK
<1>6. ResetInv'
  BY <1>2, <1>5, EnterCount DEF ResetInv, TypeOK
<1>7. OneWaker'
  <2>1. ~(barrier_count > 1) => \A u \in Threads \ {t} : pc[u] # "waking"
    BY EnterCount DEF PhaseInv, TypeOK
  <2> QED BY <1>1, <1>2, <1>5, <2>1 DEF OneWaker
<1>8. CallInv'
  BY <1>1, <1>2 DEF CallInv
<1>9. \A v, u \in Threads : Owes(v, u)' <=> Owes(v, u)
  BY <1>1, <1>2 DEF Owes, Waking
<1>10. \A v \in Threads : ~Owes(v, t)
  BY <1>1 DEF OwesInv
<1>11. OwesInv'
  BY <1>1, <1>2, <1>9, <1>10 DEF OwesInv, Waking, HalfWoken, Asleep, TypeOK
<1>12. SleepInv'
  BY <1>1, <1>2, <1>9 DEF SleepInv, Asleep, Woken, TypeOK
<1> QED BY <1>3, <1>4, <1>6, <1>7, <1>8, <1>11, <1>12

(***************************************************************************)
(* The reset: everybody has entered, so the new generation has everybody   *)
(* missing from its barrier and everybody but the waker asleep.            *)
(***************************************************************************)
LEMMA ResetStep ==
  ASSUME BarrierInv, TypeOK', NEW t \in Threads, Reset(t)
  PROVE  BarrierInv'
<1> USE DEF BarrierInv
<1>1. /\ UNCHANGED <<sync, pending, wait, wake, target, entered, left>>
      /\ pc[t] = "reset" /\ pc'[t] = "waking" /\ next'[t] = 0
      /\ \A u \in Threads \ {t} : pc'[u] = pc[u] /\ next'[u] = next[u]
      /\ generation' = generation + 1 /\ barrier_count' = TeamSize
  BY DEF Reset, TypeOK, syncVars
<1>2. \A u \in Threads : entered[u] = generation + 1
  BY <1>1 DEF ResetInv
<1>3. \A u \in Threads \ {t} : pc[u] = "wait" /\ Asleep(u)
  BY <1>1, <1>2 DEF PhaseInv, OneWaker, SleepInv, TypeOK, BarrierPoints
<1>4. PhaseInv'
  BY <1>1, <1>2, <1>3 DEF PhaseInv, TypeOK
<1>5. CountIsMissing'
  <2>1. Missing' = Threads
    BY <1>1, <1>2 DEF Missing
  <2> QED BY <1>1, <2>1, TeamFacts DEF CountIsMissing
<1>6. ResetInv' /\ OneWaker'
  BY <1>1, <1>3 DEF ResetInv, OneWaker
<1>7. CallInv'
  BY <1>1, <1>3 DEF CallInv
<1>8. \A v \in Threads : wake[v] = "out"
  BY <1>1, <1>3 DEF CallInv, TypeOK
<1>9. \A v, u \in Threads : Owes(v, u)' <=> v = t /\ u # t
  BY <1>1, <1>3, <1>8, TeamFacts DEF Owes, Waking
<1>10. OwesInv'
  BY <1>1, <1>2, <1>3, <1>8, <1>9 DEF OwesInv, Waking, Asleep
<1>11. SleepInv'
  BY <1>1, <1>2, <1>9 DEF SleepInv, TypeOK
<1> QED BY <1>4, <1>5, <1>6, <1>7, <1>10, <1>11

(***************************************************************************)
(* A turn of the loop moves one member from "not yet reached" to "being    *)
(* woken": the waker owes what it owed.                                    *)
(***************************************************************************)
LEMMA WakeNextStep ==
  ASSUME BarrierInv, TypeOK', NEW t \in Threads, WakeNext(t)
  PROVE  BarrierInv'
<1> USE DEF BarrierInv
<1>1. /\ UNCHANGED <<sync, pending, wait, barrier_count, pc, entered, left, generation>>
      /\ pc[t] = "waking" /\ wake[t] = "out" /\ next'[t] = next[t] + 1
      /\ \/ next[t] # t /\ wake'[t] = "cas" /\ target'[t] = next[t]
         \/ next[t] = t /\ wake'[t] = "out" /\ target'[t] = target[t]
      /\ \A u \in Threads \ {t} :
           next'[u] = next[u] /\ wake'[u] = wake[u] /\ target'[u] = target[u]
  BY DEF WakeNext, CallWake, InCall, TypeOK, SyncTypeOK, syncVars
<1>2. PhaseInv' /\ CountIsMissing' /\ ResetInv' /\ OneWaker'
  BY <1>1 DEF PhaseInv, CountIsMissing, Missing, ResetInv, OneWaker
<1>3. CallInv'
  BY <1>1 DEF CallInv
<1>4. \A v, u \in Threads : Owes(v, u)' <=> Owes(v, u)
  BY <1>1, TeamFacts DEF Owes, Waking, TypeOK
<1>5. OwesInv'
  BY <1>1, <1>4 DEF OwesInv, Waking, HalfWoken, Asleep
<1>6. SleepInv'
  BY <1>1, <1>4 DEF SleepInv, Asleep, Woken
<1> QED BY <1>2, <1>3, <1>5, <1>6

(***************************************************************************)
(* Whoever leaves has been woken, or was the waker and owes nothing more.  *)
(***************************************************************************)
LEMMA LeaverIsWoken ==
  ASSUME BarrierInv, NEW t \in Threads, Leave(t)
  PROVE  /\ entered[t] = generation
         /\ wait[t] = "out" /\ wake[t] = "out" /\ sync[t] = "IDLE" /\ ~pending[t]
         /\ \A u \in Threads : ~Owes(t, u)
<1> USE DEF BarrierInv
<1>1. CASE pc[t] = "wait"
  <2>1. wait[t] = "out" /\ wake[t] = "out" /\ ~Asleep(t) /\ ~HalfWoken(t)
    BY DEF Leave, InCall, Asleep, HalfWoken
  <2>2. entered[t] = generation
    BY <1>1, <2>1 DEF SleepInv, PhaseInv
  <2>3. \A v \in Threads : ~Owes(v, t)
    BY <2>1 DEF OwesInv
  <2> QED BY <1>1, <2>1, <2>2, <2>3 DEF SleepInv, Woken, Owes
<1>2. CASE pc[t] = "waking" /\ next[t] = TeamSize
  BY <1>2, TeamFacts DEF Leave, InCall, PhaseInv, CallInv, Owes, Waking, TypeOK
<1> QED BY <1>1, <1>2 DEF Leave

(***************************************************************************)
(* Leaving the barrier keeps the invariant.                                *)
(***************************************************************************)
LEMMA LeaveStep ==
  ASSUME BarrierInv, TypeOK', NEW t \in Threads, Leave(t)
  PROVE  BarrierInv'
<1> USE DEF BarrierInv
<1>1. /\ UNCHANGED <<sync, pending, wait, wake, target, barrier_count, next, entered, generation>>
      /\ pc[t] \in {"wait", "waking"} /\ pc'[t] = "run" /\ left'[t] = left[t] + 1
      /\ \A u \in Threads \ {t} : pc'[u] = pc[u] /\ left'[u] = left[u]
  BY DEF Leave, TypeOK, syncVars
<1>2. PhaseInv'
  BY <1>1, LeaverIsWoken DEF PhaseInv, TypeOK
<1>3. CountIsMissing' /\ ResetInv' /\ OneWaker'
  BY <1>1 DEF CountIsMissing, Missing, ResetInv, OneWaker
<1>4. CallInv'
  BY <1>1, LeaverIsWoken DEF CallInv
<1>5. \A v, u \in Threads : Owes(v, u)' <=> Owes(v, u)
  BY <1>1, LeaverIsWoken DEF Owes, Waking
<1>6. OwesInv'
  <2>1. \A v \in Threads : ~Owes(v, t)
    BY LeaverIsWoken DEF OwesInv, Asleep, HalfWoken
  <2> QED BY <1>1, <1>5, <2>1 DEF OwesInv, Waking, HalfWoken, Asleep
<1>7. SleepInv'
  BY <1>1, <1>5 DEF SleepInv, Asleep, Woken
<1> QED BY <1>2, <1>3, <1>4, <1>6, <1>7

(***************************************************************************)
(* A step inside __pmp_thread_wait concerns one member that is in the      *)
(* barrier: asleep it stays asleep, woken it stays woken.                  *)
(***************************************************************************)
LEMMA WaitInSync ==
  ASSUME BarrierInv, TypeOK', NEW t \in Threads, InSync(t), WaitStep(t)
  PROVE  BarrierInv'
<1> USE DEF BarrierInv
<1>1. /\ UNCHANGED <<wake, target, barrier_count, pc, next, entered, left, generation>>
      /\ wait[t] # "out"
      /\ \A u \in Threads \ {t} :
           sync'[u] = sync[u] /\ pending'[u] = pending[u] /\ wait'[u] = wait[u]
  BY DEF InSync, WaitStep, SpinHit, SpinOver, Block, Clear, SigWait, TypeOK,
         SyncTypeOK
<1>2. pc[t] = "wait"
  BY <1>1 DEF CallInv
<1>3. PhaseInv' /\ CountIsMissing' /\ ResetInv' /\ OneWaker' /\ CallInv'
  BY <1>1, <1>2 DEF PhaseInv, CountIsMissing, Missing, ResetInv, OneWaker, CallInv
<1>4. /\ Asleep(t) => Asleep(t)' /\ (sync[t] = "BLOCKED" => sync'[t] = "BLOCKED")
      /\ ~HalfWoken(t)
      /\ Woken(t) => Woken(t)'
  BY DEF WaitStep, SpinHit, SpinOver, Block, Clear, SigWait, Asleep, HalfWoken,
         Woken, TypeOK, SyncTypeOK
<1>5. \A v, u \in Threads : Owes(v, u)' <=> Owes(v, u)
  BY <1>1 DEF Owes, Waking
<1>6. \A u \in Threads \ {t} : /\ Asleep(u)' <=> Asleep(u)
                               /\ HalfWoken(u)' <=> HalfWoken(u)
                               /\ Woken(u)' <=> Woken(u)
  BY <1>1 DEF Asleep, HalfWoken, Woken
<1>7. OwesInv'
  <2> SUFFICES ASSUME NEW v \in Threads, NEW u \in Threads, Owes(v, u)
               PROVE  /\ pc[u] = "wait" /\ entered[u] = generation
                      /\ IF Waking(v, u) /\ wake[v] = "kill"
                           THEN HalfWoken(u)' ELSE Asleep(u)'
                      /\ Waking(v, u) /\ wake[v] = "idle" => sync'[u] = "BLOCKED"
    BY <1>1, <1>5 DEF OwesInv, Waking
  <2>1. CASE u = t
    BY SMTT(30), <1>4, <2>1 DEF OwesInv
  <2>2. CASE u # t
    BY SMTT(30), <1>1, <1>6, <2>2 DEF OwesInv
  <2> QED BY <2>1, <2>2
<1>8. SleepInv'
  BY <1>1, <1>4, <1>5, <1>6 DEF SleepInv
<1> QED BY <1>3, <1>7, <1>8

(***************************************************************************)
(* A step inside __pmp_thread_wake concerns the waker and the member it is *)
(* waking: the last one of them turns "owes" into "woken".                 *)
(***************************************************************************)
LEMMA WakeInSync ==
  ASSUME BarrierInv, TypeOK', NEW t \in Threads, InSync(t), WakeStep(t)
  PROVE  BarrierInv'
<1> USE DEF BarrierInv
<1> DEFINE u == target[t]
<1>1. /\ UNCHANGED <<wait, target, barrier_count, pc, next, entered, left, generation>>
      /\ wake[t] # "out" /\ u \in Threads
      /\ \A v \in Threads \ {t} : wake'[v] = wake[v]
      /\ \A v \in Threads \ {u} : sync'[v] = sync[v] /\ pending'[v] = pending[v]
  BY DEF InSync, WakeStep, WakeCas, WakeIdle, WakeKill, TypeOK, SyncTypeOK
<1>2. pc[t] = "waking" /\ u # t /\ next[t] = u + 1 /\ Owes(t, u) /\ Waking(t, u)
  BY <1>1 DEF CallInv, Owes, Waking
<1>3. /\ pc[u] = "wait" /\ entered[u] = generation
      /\ IF wake[t] = "kill" THEN HalfWoken(u) ELSE Asleep(u)
      /\ wake[t] = "idle" => sync[u] = "BLOCKED"
  BY <1>1, <1>2 DEF OwesInv
<1>4. \/ wake'[t] = "out" /\ Woken(u)'
      \/ wake'[t] = "idle" /\ Asleep(u)' /\ sync'[u] = "BLOCKED"
      \/ wake'[t] = "kill" /\ HalfWoken(u)'
  BY <1>1, <1>3 DEF WakeStep, WakeCas, WakeIdle, WakeKill, Woken, Asleep,
                    HalfWoken, TypeOK, SyncTypeOK
<1>5. PhaseInv' /\ CountIsMissing' /\ ResetInv' /\ OneWaker'
  BY SMTT(30), <1>1 DEF PhaseInv, CountIsMissing, Missing, ResetInv, OneWaker
<1>6. CallInv'
  BY <1>1, <1>2, <1>3 DEF CallInv
<1>7. \A v, w \in Threads : Owes(v, w)' <=>
        Owes(v, w) /\ ~(v = t /\ w = u /\ wake'[t] = "out")
  <2>1. ~(next[t] <= u)
    BY <1>1, <1>2, TeamFacts
  <2> QED BY <1>1, <1>2, <2>1 DEF Owes, Waking
<1>8. \A v \in Threads \ {t} : ~Owes(v, u)
  BY <1>2 DEF Owes, OneWaker
<1>9. OwesInv'
  <2> SUFFICES ASSUME NEW v \in Threads, NEW w \in Threads, Owes(v, w)'
               PROVE  /\ pc[w] = "wait" /\ entered[w] = generation
                      /\ IF Waking(v, w)' /\ wake'[v] = "kill"
                           THEN HalfWoken(w)' ELSE Asleep(w)'
                      /\ Waking(v, w)' /\ wake'[v] = "idle" => sync'[w] = "BLOCKED"
    BY <1>1 DEF OwesInv
  <2>1. CASE w = u
    BY SMTT(30), <1>1, <1>2, <1>3, <1>4, <1>7, <1>8, <2>1 DEF Waking
  <2>2. CASE w # u
    <3>1. Owes(v, w) /\ v = t /\ ~Waking(t, w) /\ ~Waking(t, w)'
      BY <1>1, <1>2, <1>7, <2>2 DEF Owes, OneWaker, Waking
    <3> QED BY SMTT(30), <1>1, <2>2, <3>1 DEF OwesInv, Asleep
  <2> QED BY <2>1, <2>2
<1>10. SleepInv'
  <2> SUFFICES ASSUME NEW w \in Threads, pc[w] = "wait"
               PROVE  /\ entered[w] = generation + 1 => Asleep(w)'
                      /\ entered[w] = generation /\ (\A v \in Threads : ~Owes(v, w)')
                            => Woken(w)'
    BY <1>1 DEF SleepInv
  <2>1. CASE w = u
    BY SMTT(30), <1>1, <1>2, <1>3, <1>4, <1>7, <2>1 DEF TypeOK
  <2>2. CASE w # u
    BY <1>1, <1>7, <2>2 DEF SleepInv, Asleep, Woken
  <2> QED BY <2>1, <2>2
<1> QED BY <1>5, <1>6, <1>9, <1>10

-----------------------------------------------------------------------------
(***************************************************************************)
(* A new team satisfies the invariant: everybody is missing.               *)
(***************************************************************************)
LEMMA InvInit == Init => BarrierInv
<1> SUFFICES ASSUME Init PROVE BarrierInv
  OBVIOUS
<1>1. Missing = Threads
  BY DEF Init, Missing
<1>2. CountIsMissing
  BY <1>1, TeamFacts DEF Init, CountIsMissing
<1> QED
  BY <1>2, TypeInit DEF Init, SyncInit, BarrierInv, PhaseInv, ResetInv, OneWaker,
     CallInv, OwesInv, SleepInv, Owes

(***************************************************************************)
(* Every step of the barrier keeps the invariant, action by action.        *)
(***************************************************************************)
LEMMA InvStep == BarrierInv /\ [Next]_vars => BarrierInv'
<1> SUFFICES ASSUME BarrierInv, [Next]_vars PROVE BarrierInv'
  OBVIOUS
<1>1. TypeOK'
  BY TypeStep DEF BarrierInv
<1>2. ASSUME NEW t \in Threads, Step(t) PROVE BarrierInv'
  BY <1>1, <1>2, EnterStep, ResetStep, WakeNextStep, LeaveStep, WaitInSync,
     WakeInSync DEF Step, InSync
<1>3. CASE UNCHANGED vars
  BY <1>1, <1>3 DEF vars, syncVars, BarrierInv, PhaseInv, CountIsMissing,
     Missing, ResetInv, OneWaker, CallInv, OwesInv, SleepInv, Owes, Waking,
     Asleep, HalfWoken, Woken
<1> QED BY <1>2, <1>3 DEF Next

(***************************************************************************)
(* The inductive invariant holds for every team size.                      *)
(***************************************************************************)
THEOREM BarrierInvariant == Spec => []BarrierInv
BY InvInit, InvStep, PTL DEF Spec

(***************************************************************************)
(* __ompc_barrier keeps its promise: no member is out of its k-th barrier  *)
(* before every member has entered its k-th.                               *)
(***************************************************************************)
THEOREM BarrierSafe == Spec => []NoEarlyExit
<1>1. BarrierInv => NoEarlyExit
  BY DEF BarrierInv, PhaseInv, NoEarlyExit, TypeOK
<1> QED BY <1>1, BarrierInvariant, PTL

(***************************************************************************)
(* The assertion in __pmp_thread_wake never fails in a barrier: nobody is  *)
(* woken twice for one wait, and no wake-up outlives the wait it ended.    *)
(***************************************************************************)
THEOREM WakeOnce == Spec => [](NoDoubleWake /\ NoStaleWake)
<1>1. BarrierInv => NoStaleWake
  BY DEF BarrierInv, CallInv, NoStaleWake
<1>2. BarrierInv => NoDoubleWake
  <2> SUFFICES ASSUME BarrierInv, NEW t \in Threads, wake[t] # "out"
               PROVE  /\ wake[t] = "cas" => sync[target[t]] # "UNBLOCKED"
                      /\ ~pending[target[t]]
                      /\ \A u \in Threads \ {t} :
                           wake[u] # "out" => target[u] # target[t]
    BY DEF NoDoubleWake
  <2>1. target[t] \in Threads /\ Owes(t, target[t]) /\ Waking(t, target[t])
    BY DEF BarrierInv, CallInv, TypeOK, SyncTypeOK, Owes, Waking
  <2>2. wake[t] # "kill" => Asleep(target[t])
    BY <2>1 DEF BarrierInv, OwesInv
  <2>3. wake[t] = "kill" => HalfWoken(target[t])
    BY <2>1 DEF BarrierInv, OwesInv
  <2>4. \A u \in Threads \ {t} : wake[u] = "out"
    BY DEF BarrierInv, CallInv, OneWaker
  <2> QED BY <2>2, <2>3, <2>4 DEF Asleep, HalfWoken
<1> QED BY <1>1, <1>2, BarrierInvariant, PTL

(***************************************************************************)
(* Every step of the barrier of thread.c is an Enter, a Leave or a stutter *)
(* of the abstract barrier.                                                *)
(***************************************************************************)
THEOREM BarrierImplementsSpec == Spec => ImplementsBarrier
<1>1. Init => Abstract!Init
  BY DEF Init, Abstract!Init
<1>2. BarrierInv /\ [Next]_vars => [Abstract!Next]_(Abstract!vars)
  <2> SUFFICES ASSUME BarrierInv, [Next]_vars
               PROVE  Abstract!Next \/ UNCHANGED <<entered, left>>
    BY DEF Abstract!vars
  <2>1. ASSUME NEW t \in Threads, Enter(t) PROVE Abstract!Enter(t)
    BY <2>1 DEF Enter, Abstract!Enter, BarrierInv, PhaseInv
  <2>2. ASSUME NEW t \in Threads, Leave(t) PROVE Abstract!Leave(t)
    <3>1. pc[t] # "run" /\ entered[t] = left[t] + 1 /\ entered[t] = generation
      BY ZenonT(30), <2>2, LeaverIsWoken DEF Leave, BarrierInv, PhaseInv
    <3> QED
      BY <2>2, <3>1 DEF Leave, Abstract!Leave, BarrierInv, PhaseInv, TypeOK
  <2>3. ASSUME NEW t \in Threads, Reset(t) \/ WakeNext(t) \/ InSync(t)
        PROVE  UNCHANGED <<entered, left>>
    BY <2>3 DEF Reset, WakeNext, InSync
  <2>4. CASE UNCHANGED vars
    BY <2>4 DEF vars
  <2> QED BY <2>1, <2>2, <2>3, <2>4 DEF Next, Step, Abstract!Next
<1> QED
  BY <1>1, <1>2, BarrierInvariant, PTL DEF Spec, ImplementsBarrier, Abstract!Spec
=============================================================================
