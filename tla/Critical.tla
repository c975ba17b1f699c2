------------------------------ MODULE Critical ------------------------------
(***************************************************************************)
(* Named critical constructs (libopenmp/lock.c) over the runtime's lock    *)
(* (libopenmp/lock.h): __ompc_critical, __ompc_end_critical, __pmp_lock    *)
(* and __pmp_unlock.  The lock of a construct is allocated by the first    *)
(* thread to arrive; threads that arrive together each allocate one, and   *)
(* the compare-and-exchange on the construct's pointer decides which stays.*)
(* The same __pmp_lock guards idlock, pthread_create_lock and the I/O lock.*)
(***************************************************************************)
CONSTANTS Threads,              \* global ids
          None                  \* NULL, and PMP_SYNC_UNLOCKED

ASSUME NoneAssumption == None \notin Threads

VARIABLES lock_spin,            \* param->lock_spin # 0: spin, else a mutex
          lock,                 \* *lock, the construct's pointer
          heap,                 \* the lock a thread has allocated
          sync,                 \* lock->sync, or the owner of lock->mutex
          l,                    \* the local pointer l
          pc

vars == <<lock_spin, lock, heap, sync, l, pc>>

(* A thread allocates at most one lock: locks are named by their creators. *)
TypeOK ==
  /\ lock_spin \in BOOLEAN
  /\ lock \in Threads \cup {None}
  /\ heap \in [Threads -> {"none", "live", "freed"}]
  /\ sync \in [Threads -> Threads \cup {None}]
  /\ l \in [Threads -> Threads \cup {None}]
  /\ pc \in [Threads -> {"out", "alloc", "install", "lock", "poll", "cs", "unlock"}]

Init ==
  /\ lock_spin \in BOOLEAN
  /\ lock = None
  /\ heap = [t \in Threads |-> "none"]
  /\ sync = [t \in Threads |-> None]
  /\ l = [t \in Threads |-> None]
  /\ pc = [t \in Threads |-> "out"]

-----------------------------------------------------------------------------
Enter(t) ==
  /\ pc[t] = "out"
  /\ l' = [l EXCEPT ![t] = lock]
  /\ pc' = [pc EXCEPT ![t] = IF lock = None THEN "alloc" ELSE "lock"]
  /\ UNCHANGED <<lock, heap, sync>>

(* posix_memalign and __pmp_lock_init.                                     *)
Alloc(t) ==
  /\ pc[t] = "alloc"
  /\ heap' = [heap EXCEPT ![t] = "live"]
  /\ sync' = [sync EXCEPT ![t] = None]
  /\ l' = [l EXCEPT ![t] = t]
  /\ pc' = [pc EXCEPT ![t] = "install"]
  /\ UNCHANGED lock

(* Faults: a plain store installs the lock; the loser keeps its own lock.  *)
InstallByStore(t) ==
  /\ pc[t] = "install"
  /\ lock' = l[t]
  /\ pc' = [pc EXCEPT ![t] = "lock"]
  /\ UNCHANGED <<heap, sync, l>>

InstallKeepOwn(t) ==
  /\ pc[t] = "install"
  /\ IF lock = None
       THEN lock' = l[t] /\ UNCHANGED heap
       ELSE heap' = [heap EXCEPT ![t] = "freed"] /\ UNCHANGED lock
  /\ pc' = [pc EXCEPT ![t] = "lock"]
  /\ UNCHANGED <<sync, l>>

(* The exchange installs the new lock, or the loser frees it and uses the  *)
(* installed one.                                                          *)
Install(t) ==
  /\ pc[t] = "install"
  /\ IF lock = None
       THEN lock' = l[t] /\ UNCHANGED <<heap, l>>
       ELSE /\ heap' = [heap EXCEPT ![t] = "freed"]
            /\ l' = [l EXCEPT ![t] = lock]
            /\ UNCHANGED lock
  /\ pc' = [pc EXCEPT ![t] = "lock"]
  /\ UNCHANGED sync

(***************************************************************************)
(* __pmp_lock.  Spinning: an exchange, and after a failure plain reads     *)
(* until the lock looks free, then the exchange again.  With a mutex the   *)
(* thread sleeps until it has it.                                          *)
(***************************************************************************)
LockCas(t) ==
  /\ pc[t] = "lock"
  /\ IF sync[l[t]] = None
       THEN /\ sync' = [sync EXCEPT ![l[t]] = t]
            /\ pc' = [pc EXCEPT ![t] = "cs"]
       ELSE /\ lock_spin
            /\ pc' = [pc EXCEPT ![t] = "poll"]
            /\ UNCHANGED sync
  /\ UNCHANGED <<lock, heap, l>>

(* Fault: the compiler reads sync once, as if it were not volatile.        *)
PollStale(t) == pc[t] = "poll" /\ UNCHANGED vars

Poll(t) ==
  /\ pc[t] = "poll"
  /\ sync[l[t]] = None
  /\ pc' = [pc EXCEPT ![t] = "lock"]
  /\ UNCHANGED <<lock, heap, sync, l>>

(* __ompc_end_critical reads the pointer again, then unlocks.              *)
Leave(t) ==
  /\ pc[t] = "cs"
  /\ l' = [l EXCEPT ![t] = lock]
  /\ pc' = [pc EXCEPT ![t] = "unlock"]
  /\ UNCHANGED <<lock, heap, sync>>

Unlock(t) ==
  /\ pc[t] = "unlock"
  /\ sync' = [sync EXCEPT ![l[t]] = IF @ = t THEN None ELSE @]
  /\ pc' = [pc EXCEPT ![t] = "out"]
  /\ UNCHANGED <<lock, heap, l>>

Step(t) ==
  /\ \/ Enter(t) \/ Alloc(t) \/ Install(t) \/ LockCas(t) \/ Poll(t)
     \/ Leave(t) \/ Unlock(t)
  /\ UNCHANGED lock_spin

Next == \E t \in Threads : Step(t)

Spec == Init /\ [][Next]_vars

(* A thread that is in the construct goes on when it can run.              *)
FairSpec == Spec /\ \A t \in Threads : WF_vars(pc[t] # "out" /\ Step(t))
-----------------------------------------------------------------------------
(***************************************************************************)
(* The section is exclusive, whatever allocations, exchanges and entries   *)
(* interleave: __ompc_critical implements the mutex of MutexSpec.          *)
(***************************************************************************)
Inside == {t \in Threads : pc[t] \in {"cs", "unlock"}}
Mutex == INSTANCE MutexSpec WITH inside <- Inside
ImplementsMutex == Mutex!Spec

(***************************************************************************)
(* A thread that locks or unlocks uses the installed lock, and never one   *)
(* that the loser of the race has freed.                                   *)
(***************************************************************************)
OneLiveLock ==
  \A t \in Threads : pc[t] \in {"lock", "poll", "unlock"} =>
    l[t] = lock /\ lock # None /\ heap[lock] = "live"

(***************************************************************************)
(* The assertions of __pmp_lock and __pmp_unlock: the lock a thread waits  *)
(* for is not its own, the one it releases is.                             *)
(***************************************************************************)
OwnerAsserts ==
  \A t \in Threads :
    /\ pc[t] \in {"lock", "poll"} => sync[l[t]] # t
    /\ pc[t] = "unlock" => sync[l[t]] = t

(***************************************************************************)
(* When threads are at the lock somebody gets in ("an increased risk of    *)
(* starvation for an unlucky thread" is accepted, a standstill is not).    *)
(***************************************************************************)
AtLock == \E t \in Threads : pc[t] \in {"lock", "poll"}
SomebodyEnters == AtLock ~> (\E t \in Threads : pc[t] = "cs")
-----------------------------------------------------------------------------
(***************************************************************************)
(* The inductive invariant: the installed lock is live and its owner is    *)
(* the thread inside; every other live lock is still private.              *)
(***************************************************************************)
CriticalInv ==
  /\ TypeOK
  /\ lock # None => heap[lock] = "live"
  /\ \A t \in Threads :
       /\ pc[t] \in {"lock", "poll", "cs", "unlock"} => l[t] = lock /\ lock # None
       /\ pc[t] = "install" => l[t] = t /\ heap[t] = "live" /\ lock # t
       /\ pc[t] = "alloc" => heap[t] = "none" /\ lock # t
       /\ lock = None /\ pc[t] = "out" => heap[t] = "none"
       /\ lock # None => (t \in Inside <=> sync[lock] = t)
       /\ lock = None => sync[t] = None
       /\ heap[t] = "live" /\ lock # t => pc[t] = "install"
       /\ pc[t] = "install" => sync[t] = None
=============================================================================
