------------------------------ MODULE UserLock ------------------------------
(***************************************************************************)
(* The locks a program makes with omp_init_lock and omp_init_nest_lock     *)
(* (libopenmp/omp.c, lock.h): omp_set_, omp_test_ and omp_unset_ on one    *)
(* lock, plain or nestable, that spins or sleeps on a pthread mutex.  The  *)
(* owner of a nestable lock counts its levels in lock->nest, outside of    *)
(* the atomic operations.                                                  *)
(***************************************************************************)
EXTENDS Integers

CONSTANTS Threads,              \* global ids
          None,                 \* PMP_SYNC_UNLOCKED, or a mutex nobody has
          MaxNest,              \* levels the program nests (a bound)
          MaxLevels             \* what a recursive mutex can count

ASSUME NoneAssumption == None \notin Threads
ASSUME LevelsAssumption == MaxNest \in Nat /\ MaxLevels \in Nat \ {0} /\ MaxNest <= MaxLevels

VARIABLES nestable, lock_spin,  \* the kind of lock; param->lock_spin # 0
          owner,                \* lock->sync, or the owner of lock->mutex
          levels,               \* how often the owner has locked the mutex
          nest,                 \* lock->nest
          depth,                \* what a thread holds: sets minus unsets
          pc

vars == <<nestable, lock_spin, owner, levels, nest, depth, pc>>

Points == {"run", "lock", "poll", "count", "uncount", "release"}

TypeOK ==
  /\ nestable \in BOOLEAN
  /\ lock_spin \in BOOLEAN
  /\ owner \in Threads \cup {None}
  /\ levels \in Nat
  /\ nest \in Int
  /\ depth \in [Threads -> Nat]
  /\ pc \in [Threads -> Points]

Init ==
  /\ nestable \in BOOLEAN
  /\ lock_spin \in BOOLEAN
  /\ owner = None
  /\ levels = 0
  /\ nest = 0
  /\ depth = [t \in Threads |-> 0]
  /\ pc = [t \in Threads |-> "run"]

Goto(t, p) == pc' = [pc EXCEPT ![t] = p]
Gain(t) == depth' = [depth EXCEPT ![t] = @ + 1]
-----------------------------------------------------------------------------
(* A program sets a plain lock only when it does not hold it.              *)
MaySet(t) == depth[t] < (IF nestable THEN MaxNest ELSE 1)

Set(t) ==
  /\ pc[t] = "run"
  /\ MaySet(t)
  /\ Goto(t, "lock")
  /\ UNCHANGED <<owner, levels, nest, depth>>

(***************************************************************************)
(* The lock is had: a plain one at once, a nestable one has to be counted. *)
(***************************************************************************)
Had(t) ==
  IF nestable THEN Goto(t, "count") /\ UNCHANGED depth
              ELSE Goto(t, "run") /\ Gain(t)

(* A mutex that cannot count further stays as it is; the error that        *)
(* pthread_mutex_lock returns then is ignored.                             *)
Full == ~lock_spin /\ levels = MaxLevels

Take(t) ==
  /\ owner' = t
  /\ levels' = IF lock_spin \/ Full THEN levels ELSE levels + 1
  /\ Had(t)

(* Who gets the lock: whoever finds it free, and the owner of a nestable   *)
(* one.  Fault: the owner of a plain lock gets it again.                   *)
FreeOrMine(t) == owner = None \/ owner = t
Available(t) == owner = None \/ (nestable /\ owner = t)

(***************************************************************************)
(* __pmp_lock and __pmp_nest_lock.  A mutex that somebody else has puts    *)
(* the thread to sleep; the exchange fails and the thread polls.           *)
(***************************************************************************)
Lock(t) ==
  /\ pc[t] = "lock"
  /\ \/ Available(t) /\ Take(t)
     \/ /\ ~Available(t) /\ lock_spin
        /\ Goto(t, "poll")
        /\ UNCHANGED <<owner, levels, depth>>
  /\ UNCHANGED nest

(* Fault: the value is read once, before the loop.                         *)
PollStale(t) == pc[t] = "poll" /\ UNCHANGED <<owner, levels, nest, depth, pc>>

Poll(t) ==
  /\ pc[t] = "poll"
  /\ owner = None
  /\ Goto(t, "lock")
  /\ UNCHANGED <<owner, levels, nest, depth>>

(***************************************************************************)
(* __pmp_trylock and __pmp_nest_trylock: as above, but a lock that cannot  *)
(* be had is reported.  A plain lock cannot be had twice, in either mode.  *)
(***************************************************************************)
Test(t) ==
  /\ pc[t] = "run"
  /\ nestable => MaySet(t)
  /\ \/ Available(t) /\ ~Full /\ Take(t)
     \/ (~Available(t) \/ Full) /\ UNCHANGED <<owner, levels, depth, pc>>
  /\ UNCHANGED nest

Count(t) ==
  /\ pc[t] = "count"
  /\ nest' = nest + 1
  /\ Gain(t)
  /\ Goto(t, "run")
  /\ UNCHANGED <<owner, levels>>

(***************************************************************************)
(* __pmp_unlock and __pmp_nest_unlock.  The mutex of a nestable lock is    *)
(* recursive and has been locked once per level; it is unlocked once.      *)
(***************************************************************************)
Unset(t) ==
  /\ pc[t] = "run"
  /\ depth[t] > 0
  /\ depth' = [depth EXCEPT ![t] = @ - 1]
  /\ Goto(t, IF nestable THEN "uncount" ELSE "release")
  /\ UNCHANGED <<owner, levels, nest>>

(* Fault: the lock is given up with one level left.                        *)
LastButOne(t) == nest <= 2
LastLevel(t) == nest = 1

Uncount(t) ==
  /\ pc[t] = "uncount"
  /\ nest' = nest - 1
  /\ Goto(t, IF LastLevel(t) THEN "release" ELSE "run")
  /\ UNCHANGED <<owner, levels, depth>>

Release(t) ==
  /\ pc[t] = "release"
  /\ levels' = IF lock_spin THEN levels ELSE levels - 1
  /\ owner' = IF owner = t /\ levels' = 0 THEN None ELSE owner
  /\ Goto(t, "run")
  /\ UNCHANGED <<nest, depth>>

InCall(t) == Lock(t) \/ Poll(t) \/ Count(t) \/ Uncount(t) \/ Release(t)

Step(t) ==
  /\ Set(t) \/ Test(t) \/ Unset(t) \/ InCall(t)
  /\ UNCHANGED <<nestable, lock_spin>>

Next == \E t \in Threads : Step(t)

Spec == Init /\ [][Next]_vars

(* A thread that is in a call goes on when it can run.                     *)
FairSpec ==
  Spec /\ \A t \in Threads : WF_vars(InCall(t) /\ UNCHANGED <<nestable, lock_spin>>)
-----------------------------------------------------------------------------
Holders == {t \in Threads : depth[t] > 0 \/ pc[t] \in {"count", "uncount", "release"}}

(***************************************************************************)
(* A lock has one holder at a time, from the exchange that takes it to the *)
(* one that gives it up, in both modes and for both kinds of lock.         *)
(***************************************************************************)
Mutex == INSTANCE MutexSpec WITH inside <- Holders
ImplementsMutex == Mutex!Spec

(***************************************************************************)
(* The inductive invariant.  lock->nest is the depth of the holder, so     *)
(* that the plain increments are made by one thread at a time, and         *)
(* omp_test_nest_lock returns the new nesting count; the assertions of     *)
(* __pmp_nest_lock, __pmp_nest_unlock, __pmp_lock and __pmp_unlock hold.   *)
(***************************************************************************)
NestOf(t) == IF pc[t] = "uncount" THEN depth[t] + 1 ELSE depth[t]

LevelsOf(t) ==
  IF ~nestable \/ pc[t] = "release" THEN 1
  ELSE IF pc[t] = "count" THEN nest + 1 ELSE nest

HolderInv ==
  \A t \in Threads : t \in Holders =>
    /\ owner = t
    /\ nestable => nest = NestOf(t)
    /\ ~lock_spin => levels >= LevelsOf(t)

PointInv ==
  \A t \in Threads :
    /\ pc[t] = "release" => depth[t] = 0
    /\ pc[t] \in {"count", "uncount"} => nestable
    /\ ~nestable => depth[t] <= 1
    /\ pc[t] \in {"lock", "poll"} => MaySet(t)
    /\ pc[t] = "poll" => lock_spin /\ depth[t] = 0

FreeInv ==
  /\ lock_spin => levels = 0
  /\ lock_spin /\ owner # None => owner \in Holders
  /\ Holders = {} \/ ~nestable => nest = 0

LockInv == TypeOK /\ HolderInv /\ PointInv /\ FreeInv

(***************************************************************************)
(* When the lock is free and threads are at it, somebody gets it.  It is   *)
(* said of every lock but a nestable one on a mutex: that one is never     *)
(* free again once its holder has nested (lock.h:214 unlocks it once).     *)
(***************************************************************************)
FreeLockIsTaken ==
  (lock_spin \/ ~nestable) =>
    ((Holders = {} /\ \E t \in Threads : pc[t] \in {"lock", "poll"}) ~> (Holders # {}))
=============================================================================
