--------------------------- MODULE CriticalProofs ---------------------------
(***************************************************************************)
(* Critical constructs are mutual exclusion, for every set of threads and  *)
(* in both lock modes.                                                     *)
(***************************************************************************)
EXTENDS Critical, TLAPS

(***************************************************************************)
(* The construct starts with no lock and nobody in it.                     *)
(***************************************************************************)
LEMMA CriticalInit == Init => CriticalInv
BY NoneAssumption DEF Init, CriticalInv, TypeOK, Inside

(***************************************************************************)
(* Every step of a thread keeps the types.                                 *)
(***************************************************************************)
LEMMA CriticalType == CriticalInv /\ [Next]_vars => TypeOK'
<1> SUFFICES ASSUME CriticalInv, [Next]_vars PROVE TypeOK'
  OBVIOUS
<1> USE DEF CriticalInv, TypeOK
<1>1. CASE UNCHANGED vars
  BY <1>1 DEF vars
<1>2. ASSUME NEW t \in Threads, Step(t) PROVE TypeOK'
  <2>1. lock_spin' \in BOOLEAN
    BY <1>2 DEF Step
  <2>2. CASE Enter(t) \/ Alloc(t) \/ Install(t)
    BY <2>1, <2>2 DEF Enter, Alloc, Install
  <2>3. CASE LockCas(t) \/ Poll(t) \/ Leave(t) \/ Unlock(t)
    BY <2>1, <2>3 DEF LockCas, Poll, Leave, Unlock
  <2> QED BY <1>2, <2>2, <2>3 DEF Step
<1> QED BY <1>1, <1>2 DEF Next

(***************************************************************************)
(* CriticalInv is inductive: one step per action.                          *)
(***************************************************************************)
LEMMA CriticalStep == CriticalInv /\ [Next]_vars => CriticalInv'
<1> SUFFICES ASSUME CriticalInv, [Next]_vars PROVE CriticalInv'
  OBVIOUS
<1>1. TypeOK'
  BY CriticalType
<1> USE NoneAssumption, <1>1 DEF CriticalInv, TypeOK, Inside
<1>2. CASE UNCHANGED vars
  BY <1>2 DEF vars
<1>3. ASSUME NEW t \in Threads, Enter(t) PROVE CriticalInv'
  BY <1>3 DEF Enter
<1>4. ASSUME NEW t \in Threads, Alloc(t) PROVE CriticalInv'
  BY <1>4 DEF Alloc
<1>5. ASSUME NEW t \in Threads, Install(t) PROVE CriticalInv'
  BY <1>5 DEF Install
<1>6. ASSUME NEW t \in Threads, LockCas(t) PROVE CriticalInv'
  BY <1>6 DEF LockCas
<1>7. ASSUME NEW t \in Threads, Poll(t) \/ Leave(t) PROVE CriticalInv'
  BY <1>7 DEF Poll, Leave
<1>8. ASSUME NEW t \in Threads, Unlock(t) PROVE CriticalInv'
  BY <1>8 DEF Unlock
<1> QED BY <1>2, <1>3, <1>4, <1>5, <1>6, <1>7, <1>8 DEF Next, Step

(***************************************************************************)
(* The installed lock is live and owned by the thread inside.              *)
(***************************************************************************)
THEOREM CriticalInvariant == Spec => []CriticalInv
BY CriticalInit, CriticalStep, PTL DEF Spec

(***************************************************************************)
(* Nobody touches a freed lock, and the assertions of lock.h hold.         *)
(***************************************************************************)
THEOREM CriticalSafe == Spec => [](OneLiveLock /\ OwnerAsserts)
<1>1. CriticalInv => OneLiveLock
  BY DEF CriticalInv, OneLiveLock
<1>2. CriticalInv => OwnerAsserts
  BY ZenonT(30) DEF CriticalInv, OwnerAsserts, Inside
<1> QED BY <1>1, <1>2, CriticalInvariant, PTL

(***************************************************************************)
(* Each step of the construct is a step of the mutex, or leaves the set of *)
(* threads inside alone.                                                   *)
(***************************************************************************)
LEMMA MutexStep == CriticalInv /\ [Next]_vars => [Mutex!Next]_Inside
<1> SUFFICES ASSUME CriticalInv, [Next]_vars PROVE [Mutex!Next]_Inside
  OBVIOUS
<1> USE NoneAssumption DEF CriticalInv, TypeOK, Inside
<1>1. CASE UNCHANGED vars
  BY <1>1 DEF vars
<1>2. ASSUME NEW t \in Threads,
             Enter(t) \/ Alloc(t) \/ Install(t) \/ Poll(t) \/ Leave(t)
      PROVE  UNCHANGED Inside
  BY <1>2 DEF Enter, Alloc, Install, Poll, Leave
<1>3. ASSUME NEW t \in Threads, LockCas(t)
      PROVE  Mutex!Acquire(t) \/ UNCHANGED Inside
  BY <1>3 DEF LockCas, Mutex!Acquire
<1>4. ASSUME NEW t \in Threads, Unlock(t) PROVE Mutex!Release(t)
  BY <1>4 DEF Unlock, Mutex!Release
<1> HIDE DEF CriticalInv, Inside
<1> QED BY <1>1, <1>2, <1>3, <1>4 DEF Next, Step, Mutex!Next

(***************************************************************************)
(* __ompc_critical and __ompc_end_critical implement mutual exclusion.     *)
(***************************************************************************)
THEOREM CriticalImplementsMutex == Spec => ImplementsMutex
<1>1. Init => Mutex!Init
  BY DEF Init, Mutex!Init, Inside
<1> QED BY <1>1, MutexStep, CriticalInvariant, PTL
    DEF Spec, ImplementsMutex, Mutex!Spec
=============================================================================
