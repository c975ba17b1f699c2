--------------------------- MODULE UserLockProofs ---------------------------
(***************************************************************************)
(* The program's locks exclude each other and count their levels right,    *)
(* for every set of threads, depth of nesting, kind of lock and lock mode. *)
(***************************************************************************)
EXTENDS UserLock, TLAPS

(***************************************************************************)
(* A lock that has been initialised is free.                               *)
(***************************************************************************)
LEMMA LockInit == Init => LockInv
BY NoneAssumption, LevelsAssumption
  DEF Init, LockInv, TypeOK, HolderInv, PointInv, FreeInv, Holders, Points, MaySet

(***************************************************************************)
(* Every operation keeps the types: the mutex is never unlocked when its   *)
(* count is 0.                                                             *)
(***************************************************************************)
LEMMA LockType == LockInv /\ [Next]_vars => TypeOK'
<1> SUFFICES ASSUME LockInv, [Next]_vars PROVE TypeOK'
  OBVIOUS
<1> USE LevelsAssumption DEF LockInv, TypeOK, Points
<1>1. CASE UNCHANGED vars
  BY <1>1 DEF vars
<1>2. ASSUME NEW t \in Threads, Step(t) PROVE TypeOK'
  <2>1. nestable' \in BOOLEAN /\ lock_spin' \in BOOLEAN
    BY <1>2 DEF Step
  <2>2. CASE Set(t) \/ Poll(t)
    BY <2>1, <2>2 DEF Set, Poll, Goto
  <2>3. CASE Lock(t) \/ Test(t)
    BY <2>1, <2>3 DEF Lock, Test, Take, Had, Goto, Gain
  <2>4. CASE Count(t)
    BY <2>1, <2>4 DEF Count, Goto, Gain
  <2>5. CASE Unset(t) \/ Uncount(t)
    BY <2>1, <2>5 DEF Unset, Uncount, Goto
  <2>6. CASE Release(t)
    <3>1. ~lock_spin => levels >= 1
      BY <2>6 DEF Release, HolderInv, Holders, LevelsOf
    <3> QED BY <2>1, <2>6, <3>1 DEF Release, Goto
  <2> QED BY <1>2, <2>2, <2>3, <2>4, <2>5, <2>6 DEF Step, InCall
<1> QED BY <1>1, <1>2 DEF Next

(***************************************************************************)
(* Whoever finds the lock available is its only possible holder.           *)
(***************************************************************************)
LEMMA OnlyHolder ==
  ASSUME LockInv, NEW t \in Threads, Available(t)
  PROVE  Holders \subseteq {t}
BY NoneAssumption DEF LockInv, HolderInv, Available, Holders

(***************************************************************************)
(* LockInv is inductive: one step per operation.                           *)
(***************************************************************************)
LEMMA LockStep == LockInv /\ [Next]_vars => LockInv'
<1> SUFFICES ASSUME LockInv, [Next]_vars PROVE LockInv'
  OBVIOUS
<1>1. TypeOK'
  BY LockType
<1> USE NoneAssumption, LevelsAssumption, <1>1
    DEF LockInv, TypeOK, HolderInv, PointInv, FreeInv, Holders, NestOf, LevelsOf, MaySet
<1>2. CASE UNCHANGED vars
  BY <1>2 DEF vars
<1>3. ASSUME NEW t \in Threads, Step(t), Set(t) \/ Poll(t) PROVE LockInv'
  BY ZenonT(30), <1>3 DEF Step, Set, Poll, Goto
<1>4. ASSUME NEW t \in Threads, Step(t), Available(t), Take(t), UNCHANGED nest,
             MaySet(t), pc[t] \in {"run", "lock"}
      PROVE  LockInv'
  <2>1. Holders \subseteq {t}
    BY <1>4, OnlyHolder
  <2>2. CASE nestable
    BY <1>4, <2>1, <2>2 DEF Step, Take, Had, Goto, Full
  <2>3. CASE ~nestable
    BY <1>4, <2>1, <2>3 DEF Step, Take, Had, Goto, Gain, Full
  <2> QED BY ZenonT(30), <2>2, <2>3
<1>5. ASSUME NEW t \in Threads, Step(t), Lock(t), ~Available(t) PROVE LockInv'
  BY <1>5 DEF Step, Lock, Goto, Available
<1>6. ASSUME NEW t \in Threads, Step(t), Count(t) PROVE LockInv'
  BY <1>6 DEF Step, Count, Goto, Gain
<1>7. ASSUME NEW t \in Threads, Step(t), Unset(t) PROVE LockInv'
  BY <1>7 DEF Step, Unset, Goto
<1>8. ASSUME NEW t \in Threads, Step(t), Uncount(t) PROVE LockInv'
  BY <1>8 DEF Step, Uncount, Goto, LastLevel
<1>9. ASSUME NEW t \in Threads, Step(t), Release(t) PROVE LockInv'
  BY <1>9 DEF Step, Release, Goto
<1>10. ASSUME NEW t \in Threads, Available(t), Test(t) \/ Lock(t) PROVE MaySet(t)
  BY <1>10 DEF Test, Lock, Available
<1>11. ASSUME NEW t \in Threads, Step(t), Test(t), ~(Available(t) /\ Take(t))
       PROVE  LockInv'
  BY <1>11 DEF Step, Test
<1> HIDE DEF LockInv, MaySet
<1> QED BY <1>2, <1>3, <1>4, <1>5, <1>6, <1>7, <1>8, <1>9, <1>10, <1>11
    DEF Next, Step, InCall, Lock, Test

(***************************************************************************)
(* lock->nest is the depth of the holder, and the assertions of lock.h     *)
(* hold.                                                                   *)
(***************************************************************************)
THEOREM LockInvariant == Spec => []LockInv
BY LockInit, LockStep, PTL DEF Spec

(***************************************************************************)
(* Each operation is a step of the mutex, or keeps the set of holders: the *)
(* levels in between neither take nor give up the lock.                    *)
(***************************************************************************)
LEMMA MutexStep == LockInv /\ [Next]_vars => [Mutex!Next]_Holders
<1> SUFFICES ASSUME LockInv, [Next]_vars PROVE [Mutex!Next]_Holders
  OBVIOUS
<1> USE NoneAssumption DEF LockInv, TypeOK, HolderInv, PointInv, Holders
<1>1. CASE UNCHANGED vars
  BY <1>1 DEF vars
<1>2. ASSUME NEW t \in Threads, Set(t) \/ Poll(t) \/ Count(t) \/ Unset(t)
      PROVE  UNCHANGED Holders
  BY <1>2 DEF Set, Poll, Count, Unset, Goto, Gain
<1>3. ASSUME NEW t \in Threads, Available(t), Take(t), pc[t] \in {"run", "lock"}
      PROVE  Mutex!Acquire(t) \/ UNCHANGED Holders
  <2>1. Holders \subseteq {t}
    BY <1>3, OnlyHolder
  <2>2. Holders' = {t}
    BY <1>3, <2>1 DEF Take, Had, Goto, Gain
  <2> HIDE DEF Holders
  <2> QED BY <2>1, <2>2 DEF Mutex!Acquire
<1>4. ASSUME NEW t \in Threads, Lock(t) \/ Test(t), ~(Available(t) /\ Take(t))
      PROVE  UNCHANGED Holders
  BY <1>4 DEF Lock, Test, Goto
<1>5. ASSUME NEW t \in Threads, Uncount(t) PROVE UNCHANGED Holders
  BY <1>5 DEF Uncount, Goto, LastLevel, NestOf
<1>6. ASSUME NEW t \in Threads, Release(t) PROVE Mutex!Release(t)
  BY <1>6 DEF Release, Goto, Mutex!Release
<1> HIDE DEF LockInv, Holders
<1> QED BY <1>1, <1>2, <1>3, <1>4, <1>5, <1>6
    DEF Next, Step, InCall, Lock, Test, Mutex!Next

(***************************************************************************)
(* omp_set_lock, omp_test_lock, omp_unset_lock and their nestable versions *)
(* implement mutual exclusion.                                             *)
(***************************************************************************)
THEOREM LockImplementsMutex == Spec => ImplementsMutex
<1>1. Init => Mutex!Init
  BY DEF Init, Mutex!Init, Holders
<1> QED BY <1>1, MutexStep, LockInvariant, PTL
    DEF Spec, ImplementsMutex, Mutex!Spec
=============================================================================
