------------------------------ MODULE ForkJoin ------------------------------
(***************************************************************************)
(* Parallel regions of the OpenMP runtime: __ompc_fork with everything it  *)
(* calls (libopenmp/thread.c, team.c, manager.c, idstack.h).  A thread     *)
(* that forks acquires waiting threads from the pool, creates the missing  *)
(* ones up to PMP_MAX_THREADS, pops their ids, wakes them, works, joins    *)
(* and gives them back.  Workers may fork in their turn (nested regions),  *)
(* so that several threads run this code at the same time.                 *)
(*                                                                         *)
(* Waits and wake-ups are the semaphore of WakeSpec, which the protocol of *)
(* ThreadSync is proved to implement (module WaitWakeProofs): a wake-up    *)
(* sets token[u], a wait ends by taking it.  The critical sections on      *)
(* idlock are single actions: what they touch is only touched under that   *)
(* lock, whose mutual exclusion module Critical shows.  Locals are reset   *)
(* where they die.  __pmp_thread_bind only moves threads between CPUs.     *)
(***************************************************************************)
EXTENDS Integers, FiniteSets, Sequences, FiniteSetsExt

CONSTANTS Threads,              \* the pmp_thread_t structures
          MaxThreads,           \* PMP_MAX_THREADS
          InitialTeam,          \* default_team_size when the manager starts
          Programs,             \* the team sizes that the regions of a
                                \* program ask for, in the order of the forks
          MaxDepth              \* bound: regions a thread nests

ASSUME PoolAssumption ==
  /\ MaxThreads \in Nat /\ MaxThreads > 0
  /\ Threads = 0 .. MaxThreads - 1
  /\ InitialTeam \in 1 .. MaxThreads
  /\ Programs \subseteq Seq(Nat \ {0})
  /\ MaxDepth \in Nat

VARIABLES token,                \* a wake-up is there for the thread
          waiting_threads, allocated_threads, idstack,   \* __pmp_manager
          cur_numthreads,       \* __ompc_cur_numthreads
          team, local_id,       \* thread->team, thread->local_id
          saved,                \* old_team and old_local_id of open forks
          team_size, members, working_threads,           \* per team
          pc,                   \* where the thread is
          want, count, need,    \* nthreads, count, required of the acquire
          made,                 \* count of __pmp_manager_create_more_threads
          spawning,             \* the id being created
          next,                 \* the loop index of __pmp_thread_assign
          forks                 \* the sizes of the regions to come

poolVars == <<waiting_threads, allocated_threads, idstack, cur_numthreads>>
teamVars == <<team, local_id, saved, team_size, members, working_threads>>
localVars == <<want, count, need, made, spawning, next>>
vars == <<token, poolVars, teamVars, localVars, pc, forks>>

(* A team is named by its master and the nesting depth it is forked at.    *)
Teams == Threads \X (0 .. MaxDepth - 1)
NoTeam == <<>>

Points == {"unborn", "start", "idle", "user", "acquire", "restore", "create",
           "undo", "spawn", "spawned", "assign", "wake", "join", "zero",
           "joinwait", "release", "restock", "workerjoin", "wakemaster"}

TypeOK ==
  /\ token \in [Threads -> BOOLEAN]
  /\ waiting_threads \in Int /\ waiting_threads < MaxThreads
  /\ allocated_threads \in 1 .. 2 * MaxThreads
  /\ idstack \in Seq(Threads \ {0})
  /\ cur_numthreads \in Int
  /\ team \in [Threads -> Teams \cup {NoTeam}]
  /\ local_id \in [Threads -> -1 .. MaxThreads - 1]
  /\ \A t \in Threads : Len(saved[t]) <= MaxDepth
  /\ team_size \in [Teams -> Int]
  /\ \A T \in Teams : members[T] \in Seq(Threads)
  /\ working_threads \in [Teams -> Int]
  /\ pc \in [Threads -> Points]

(* Frames: nesting_depth is the number of regions the thread has open.     *)
NestingDepth(t) == Len(saved[t])
Current(t) == <<t, NestingDepth(t) - 1>>      \* the team it is master of

(* Fault: ids are read from the bottom of the stack.                       *)
PoppedFromBottom(k) == [i \in 1 .. k |-> idstack[i]]

(* The first k ids that k calls of __pmp_idstack_pop return.               *)
Popped(k) == [i \in 1 .. k |-> idstack[Len(idstack) + 1 - i]]

(***************************************************************************)
(* __pmp_manager_init: the main thread holds id 0 and is about to create   *)
(* the initial threads; every other structure is initialised.              *)
(***************************************************************************)
Init ==
  /\ token = [t \in Threads |-> FALSE]
  /\ waiting_threads = 0
  /\ allocated_threads = 1
  /\ idstack = [i \in 1 .. MaxThreads - 1 |-> MaxThreads - i]
  /\ cur_numthreads = 1
  /\ team = [t \in Threads |-> NoTeam]
  /\ local_id = [t \in Threads |-> IF t = 0 THEN 0 ELSE -1]
  /\ saved = [t \in Threads |-> <<>>]
  /\ team_size = [T \in Teams |-> 0]
  /\ members = [T \in Teams |-> <<>>]
  /\ working_threads = [T \in Teams |-> 0]
  /\ pc = [t \in Threads |-> IF t = 0 THEN "create" ELSE "unborn"]
  /\ want = [t \in Threads |-> 0]
  /\ count = [t \in Threads |-> 0]
  /\ need = [t \in Threads |-> IF t = 0 THEN InitialTeam - 1 ELSE 0]
  /\ made = [t \in Threads |-> 0]
  /\ spawning = [t \in Threads |-> 0]
  /\ next = [t \in Threads |-> 0]
  /\ forks \in Programs

Reset(v, t) == [v EXCEPT ![t] = 0]
Goto(t, p) == pc' = [pc EXCEPT ![t] = p]
-----------------------------------------------------------------------------
(* "count from 1 to ignore master thread".                                 *)
FirstCount == 1

(* __pmp_thread_fork up to the acquire.                                    *)
Fork(t) ==
  /\ pc[t] = "user"
  /\ forks # <<>>
  /\ NestingDepth(t) < MaxDepth
  /\ forks' = Tail(forks)
  /\ saved' = [saved EXCEPT ![t] = Append(@, <<team[t], local_id[t]>>)]
  /\ local_id' = [local_id EXCEPT ![t] = 0]
  /\ want' = [want EXCEPT ![t] = Head(forks)]
  /\ count' = [count EXCEPT ![t] = FirstCount]
  /\ Goto(t, "acquire")
  /\ UNCHANGED <<token, poolVars, team, team_size, members, working_threads,
                 need, made, spawning, next>>

(***************************************************************************)
(* __pmp_thread_acquire: take what is waiting; what was taken in excess is *)
(* put back in a second atomic operation, and only then are threads        *)
(* created and the loop tried again.                                       *)
(***************************************************************************)
Acquire(t) ==
  LET required == want[t] - count[t] IN
  /\ pc[t] = "acquire"
  /\ \/ /\ required <= 0
        /\ Goto(t, "assign")
        /\ UNCHANGED <<waiting_threads, count, need>>
     \/ /\ required > 0
        /\ waiting_threads' = waiting_threads - required
        /\ IF waiting_threads >= required
             THEN /\ count' = [count EXCEPT ![t] = want[t]]
                  /\ Goto(t, "assign")
                  /\ UNCHANGED need
             ELSE /\ count' = [count EXCEPT ![t] = @ + waiting_threads]
                  /\ need' = [need EXCEPT ![t] = required - waiting_threads]
                  /\ Goto(t, "restore")
  /\ UNCHANGED <<token, allocated_threads, idstack, cur_numthreads, teamVars,
                 want, made, spawning, next, forks>>

(* What was taken in excess.                                               *)
Excess(t) == need[t]

Restore(t) ==
  /\ pc[t] = "restore"
  /\ waiting_threads' = waiting_threads + Excess(t)
  /\ Goto(t, "create")
  /\ UNCHANGED <<token, allocated_threads, idstack, cur_numthreads, teamVars,
                 localVars, forks>>

(***************************************************************************)
(* __pmp_manager_create_more_threads: an id is taken, and given back when  *)
(* the limit is reached.  The acquire gives up when nothing was created;   *)
(* the main thread returns to the program when it started the manager.     *)
(***************************************************************************)
LeaveCreate(t) ==
  /\ Goto(t, IF want[t] = 0 THEN "user" ELSE IF made[t] = 0 THEN "assign" ELSE "acquire")
  /\ need' = Reset(need, t)
  /\ made' = Reset(made, t)

Create(t) ==
  /\ pc[t] = "create"
  /\ IF made[t] >= need[t]
       THEN LeaveCreate(t) /\ UNCHANGED <<allocated_threads, spawning>>
       ELSE /\ allocated_threads' = allocated_threads + 1
            /\ spawning' = [spawning EXCEPT ![t] = allocated_threads]
            /\ Goto(t, IF allocated_threads >= MaxThreads THEN "undo" ELSE "spawn")
            /\ UNCHANGED <<need, made>>
  /\ UNCHANGED <<token, waiting_threads, idstack, cur_numthreads, teamVars,
                 want, count, next, forks>>

(* The id taken beyond the limit.  Fault: it is not given back.            *)
KeepId == allocated_threads
GiveBackId == allocated_threads - 1

Undo(t) ==
  /\ pc[t] = "undo"
  /\ allocated_threads' = GiveBackId
  /\ spawning' = Reset(spawning, t)
  /\ LeaveCreate(t)
  /\ UNCHANGED <<token, waiting_threads, idstack, cur_numthreads, teamVars,
                 want, count, next, forks>>

(* __pmp_thread_create: the thread exists, then it is counted as waiting.  *)
Spawn(t) ==
  /\ pc[t] = "spawn"
  /\ pc' = [pc EXCEPT ![t] = "spawned", ![spawning[t]] = "start"]
  /\ UNCHANGED <<token, poolVars, teamVars, localVars, forks>>

Spawned(t) ==
  /\ pc[t] = "spawned"
  /\ waiting_threads' = waiting_threads + 1
  /\ made' = [made EXCEPT ![t] = @ + 1]
  /\ spawning' = Reset(spawning, t)
  /\ Goto(t, "create")
  /\ UNCHANGED <<token, allocated_threads, idstack, cur_numthreads, teamVars,
                 want, count, need, next, forks>>

(***************************************************************************)
(* The rest of __pmp_team_alloc, and __pmp_thread_assign under idlock: the *)
(* team gets its fields and the popped threads their place in it.  The     *)
(* assertions of both are AssignSound, not guards.                         *)
(***************************************************************************)
Assign(t) ==
  LET T == Current(t)
      n == count[t]
      ids == Popped(IF n > 1 THEN n - 1 ELSE 0)
      Index(u) == CHOOSE i \in DOMAIN ids : ids[i] = u
      Taken == {ids[i] : i \in DOMAIN ids} IN
  /\ pc[t] = "assign"
  /\ cur_numthreads' = cur_numthreads + n - 1
  /\ team_size' = [team_size EXCEPT ![T] = n]
  /\ working_threads' = [working_threads EXCEPT ![T] = n]
  /\ members' = [members EXCEPT ![T] = <<t>> \o ids]
  /\ idstack' = SubSeq(idstack, 1, Len(idstack) - Len(ids))
  /\ local_id' = [u \in Threads |-> IF u \in Taken THEN Index(u) ELSE local_id[u]]
  /\ team' = [u \in Threads |-> IF u \in Taken THEN T ELSE team[u]]
  /\ next' = [next EXCEPT ![t] = 1]
  /\ want' = Reset(want, t)
  /\ count' = Reset(count, t)
  /\ Goto(t, "wake")
  /\ UNCHANGED <<token, waiting_threads, allocated_threads, saved, need, made,
                 spawning, forks>>

(* The wake loop of __pmp_thread_assign, and the master starts to work.    *)
WakeWorker(t) ==
  LET T == Current(t) IN
  /\ pc[t] = "wake"
  /\ IF next[t] < team_size[T]
       THEN /\ token' = [token EXCEPT ![members[T][next[t] + 1]] = TRUE]
            /\ next' = [next EXCEPT ![t] = @ + 1]
            /\ UNCHANGED <<pc, team>>
       ELSE /\ team' = [team EXCEPT ![t] = T]
            /\ next' = Reset(next, t)
            /\ Goto(t, "user")
            /\ UNCHANGED token
  /\ UNCHANGED <<poolVars, local_id, saved, team_size, members, working_threads,
                 want, count, need, made, spawning, forks>>

(* The work function returns, in the master or in a worker.                *)
Finish(t) ==
  /\ pc[t] = "user"
  /\ \/ NestingDepth(t) > 0 /\ Goto(t, "join")
     \/ NestingDepth(t) = 0 /\ team[t] # NoTeam /\ Goto(t, "workerjoin")
  /\ UNCHANGED <<token, poolVars, teamVars, localVars, forks>>

-----------------------------------------------------------------------------
(***************************************************************************)
(* __pmp_thread_master_join: the spin loop sees that only the master is    *)
(* left, or the master counts itself out and waits for the last worker.    *)
(***************************************************************************)
JoinSpin(t) ==
  /\ pc[t] = "join"
  /\ working_threads[Current(t)] = 1
  /\ Goto(t, "zero")
  /\ UNCHANGED <<token, poolVars, teamVars, localVars, forks>>

JoinZero(t) ==
  /\ pc[t] = "zero"
  /\ working_threads' = [working_threads EXCEPT ![Current(t)] = 0]
  /\ Goto(t, "release")
  /\ UNCHANGED <<token, poolVars, team, local_id, saved, team_size, members,
                 localVars, forks>>

(* Workers are left.  Fault: off by one, the last worker is missed.        *)
TwoWorkersLeft(T) == working_threads[T] > 2
WorkersLeft(T) == working_threads[T] > 1

JoinCount(t) ==
  LET T == Current(t) IN
  /\ pc[t] = "join"
  /\ working_threads' = [working_threads EXCEPT ![T] = @ - 1]
  /\ Goto(t, IF WorkersLeft(T) THEN "joinwait" ELSE "release")
  /\ UNCHANGED <<token, poolVars, team, local_id, saved, team_size, members,
                 localVars, forks>>

JoinWait(t) ==
  /\ pc[t] = "joinwait"
  /\ token[t]
  /\ token' = [token EXCEPT ![t] = FALSE]
  /\ Goto(t, "release")
  /\ UNCHANGED <<poolVars, teamVars, localVars, forks>>

(* __pmp_thread_release: the ids go back under idlock, the last one first. *)
Release(t) ==
  LET T == Current(t)
      workers == Tail(members[T]) IN
  /\ pc[t] = "release"
  /\ idstack' = idstack \o [i \in 1 .. Len(workers) |-> workers[Len(workers) + 1 - i]]
  /\ local_id' = [u \in Threads |->
                   IF \E i \in DOMAIN workers : workers[i] = u THEN -1 ELSE local_id[u]]
  /\ team' = [u \in Threads |->
               IF \E i \in DOMAIN workers : workers[i] = u THEN NoTeam ELSE team[u]]
  /\ cur_numthreads' = cur_numthreads - (team_size[T] - 1)
  /\ Goto(t, "restock")
  /\ UNCHANGED <<token, waiting_threads, allocated_threads, saved, team_size,
                 members, working_threads, localVars, forks>>

(* The threads given back.                                                 *)
Workers(T) == team_size[T] - 1

(* The workers become waiting threads again; the team is freed and the     *)
(* master is back in its old team.                                         *)
Restock(t) ==
  LET T == Current(t)
      old == saved[t][NestingDepth(t)] IN
  /\ pc[t] = "restock"
  /\ waiting_threads' = waiting_threads + Workers(T)
  /\ team_size' = [team_size EXCEPT ![T] = 0]
  /\ members' = [members EXCEPT ![T] = <<>>]
  /\ saved' = [saved EXCEPT ![t] = SubSeq(@, 1, Len(@) - 1)]
  /\ team' = [team EXCEPT ![t] = old[1]]
  /\ local_id' = [local_id EXCEPT ![t] = old[2]]
  /\ Goto(t, "user")
  /\ UNCHANGED <<token, allocated_threads, idstack, cur_numthreads,
                 working_threads, localVars, forks>>

-----------------------------------------------------------------------------
(***************************************************************************)
(* __pmp_thread_run: the thread sets up its identity and waits for work;   *)
(* after the work the last worker wakes the master, and the thread waits   *)
(* again.                                                                  *)
(***************************************************************************)
Start(t) ==
  /\ pc[t] = "start"
  /\ Goto(t, "idle")
  /\ UNCHANGED <<token, poolVars, teamVars, localVars, forks>>

Pick(t) ==
  /\ pc[t] = "idle"
  /\ token[t]
  /\ token' = [token EXCEPT ![t] = FALSE]
  /\ Goto(t, "user")
  /\ UNCHANGED <<poolVars, teamVars, localVars, forks>>

(* The exchange-and-add returned 1.  Faults: the new value is tested, so   *)
(* that nobody is last; the last but one counts as last, too.              *)
NobodyLast(T) == working_threads[T] = 0
TwoLast(T) == working_threads[T] <= 2
LastOut(T) == working_threads[T] = 1

WorkerJoin(t) ==
  LET T == team[t] IN
  /\ pc[t] = "workerjoin"
  /\ working_threads' = [working_threads EXCEPT ![T] = @ - 1]
  /\ Goto(t, IF LastOut(T) THEN "wakemaster" ELSE "idle")
  /\ UNCHANGED <<token, poolVars, team, local_id, saved, team_size, members,
                 localVars, forks>>

WakeMaster(t) ==
  /\ pc[t] = "wakemaster"
  /\ token' = [token EXCEPT ![members[team[t]][1]] = TRUE]
  /\ Goto(t, "idle")
  /\ UNCHANGED <<poolVars, teamVars, localVars, forks>>

-----------------------------------------------------------------------------
Step(t) ==
  \/ Fork(t) \/ Acquire(t) \/ Restore(t) \/ Create(t) \/ Undo(t) \/ Spawn(t) \/ Spawned(t)
  \/ Assign(t) \/ WakeWorker(t) \/ Finish(t)
  \/ JoinSpin(t) \/ JoinZero(t) \/ JoinCount(t) \/ JoinWait(t)
  \/ Release(t) \/ Restock(t)
  \/ Start(t) \/ Pick(t) \/ WorkerJoin(t) \/ WakeMaster(t)

(* The main thread is back in serial code and every worker is parked.      *)
Parked(t) == pc[t] = "unborn" \/ (pc[t] = "idle" /\ ~token[t])
Quiet == pc[0] = "user" /\ NestingDepth(0) = 0
         /\ \A t \in Threads \ {0} : Parked(t)

Next == \E t \in Threads : Step(t)

Spec == Init /\ [][Next]_vars
FairSpec == Spec /\ \A t \in Threads : WF_vars(Step(t))
-----------------------------------------------------------------------------
(***************************************************************************)
(* assert(nthreads > 0) in __pmp_team_alloc: a region always has at least  *)
(* its master.                                                             *)
(***************************************************************************)
TeamNotEmpty == \A t \in Threads : pc[t] = "assign" => count[t] > 0

(***************************************************************************)
(* No thread is handed out twice: an id is on the stack at most once, and  *)
(* not while its thread is in a team.                                      *)
(***************************************************************************)
IdsExclusive ==
  \A i \in DOMAIN idstack :
    /\ \A j \in DOMAIN idstack : idstack[i] = idstack[j] => i = j
    /\ team[idstack[i]] = NoTeam

(***************************************************************************)
(* The threads a region gets are there for it alone: no id is handed out   *)
(* twice, and the assertions of __pmp_team_alloc, __pmp_idstack_pop and    *)
(* __pmp_thread_assign hold.  The team has a master and is not in use,     *)
(* there are as many ids as threads were acquired, and the threads popped  *)
(* are in no team.                                                         *)
(***************************************************************************)
AssignSound ==
  /\ TeamNotEmpty
  /\ IdsExclusive
  /\ \A t \in Threads : pc[t] = "assign" =>
       /\ team_size[Current(t)] = 0
       /\ Len(idstack) >= count[t] - 1
       /\ \A i \in 1 .. count[t] - 1 :
            team[Popped(i)[i]] = NoTeam /\ local_id[Popped(i)[i]] = -1

(***************************************************************************)
(* assert(team != NULL) in __pmp_thread_run, and what it is for: a thread  *)
(* that comes out of its wait finds itself a member, under its local id,   *)
(* of a team that is in use.                                               *)
(***************************************************************************)
WokenIntoTeam ==
  \A t \in Threads : pc[t] \in {"idle", "start", "unborn"} /\ token[t] =>
    /\ team[t] # NoTeam
    /\ local_id[t] \in 1 .. team_size[team[t]] - 1
    /\ members[team[t]][local_id[t] + 1] = t

(***************************************************************************)
(* A region is over only when its work is: past the join no member is in   *)
(* the work function any more or about to count itself out, and the team   *)
(* that is freed has no threads left (assertions of __pmp_team_free).      *)
(***************************************************************************)
JoinedMeansDone ==
  \A t \in Threads : pc[t] \in {"release", "restock"} =>
    /\ working_threads[Current(t)] = 0
    /\ \A u \in Threads \ {t} :
         team[u] = Current(t) => pc[u] = "idle" /\ ~token[u]

(***************************************************************************)
(* assert(sync != PMP_SYNC_UNBLOCKED) in __pmp_thread_wake: no wake-up is  *)
(* issued to a thread that has not consumed the one before.  This is what  *)
(* the callers of the wait / wake protocol owe it (Wake in WaitWake).  And *)
(* the last worker reads its team's first member while the team exists.    *)
(***************************************************************************)
OneWakePerWait ==
  \A t \in Threads :
    /\ pc[t] = "wake" /\ next[t] < team_size[Current(t)]
         => ~token[members[Current(t)][next[t] + 1]]
    /\ pc[t] = "wakemaster" =>
         /\ team[t] # NoTeam /\ team_size[team[t]] # 0
         /\ ~token[members[team[t]][1]]

(***************************************************************************)
(* Wake-ups come one per wait, and each finds its thread in a team that is *)
(* in use.                                                                 *)
(***************************************************************************)
WakesSound == WokenIntoTeam /\ OneWakePerWait

(***************************************************************************)
(* The accounting of waiting_threads against the threads that exist: what  *)
(* a forking thread has taken, or has still to put back, is missing from   *)
(* it, and nothing else is.                                                *)
(***************************************************************************)
Frames(t) == {d \in 0 .. NestingDepth(t) - 1 : team_size[<<t, d>>] # 0}
Held(t) ==
  MapThenSumSet(LAMBDA d : team_size[<<t, d>>] - 1, Frames(t))
  + (IF pc[t] \in {"acquire", "create", "undo", "spawn", "spawned", "assign", "restore"}
       /\ want[t] > 0 THEN count[t] - 1 ELSE 0)
  + (IF pc[t] = "restore" THEN need[t] ELSE 0)
Existing == {t \in Threads \ {0} : pc[t] # "unborn"}
ThreadsConserved ==
  waiting_threads + MapThenSumSet(Held, Threads)
    = Cardinality(Existing) - Cardinality({t \in Threads : pc[t] = "spawned"})

(***************************************************************************)
(* Serial code finds the pool as __pmp_manager_init left it, with more     *)
(* threads at most: every created thread waits, every id is back.          *)
(***************************************************************************)
PoolRestored ==
  Quiet =>
    /\ waiting_threads = allocated_threads - 1
    /\ allocated_threads <= MaxThreads
    /\ Len(idstack) = MaxThreads - 1
    /\ cur_numthreads = 1
    /\ team[0] = NoTeam /\ local_id[0] = 0

(***************************************************************************)
(* The pool loses no thread and gains none: the accounting holds at every  *)
(* step of concurrent forks, joins and creations up to the limit, and the  *)
(* pool is whole again in serial code.                                     *)
(***************************************************************************)
PoolInv == TypeOK /\ ThreadsConserved /\ PoolRestored

(***************************************************************************)
(* Every region that is forked ends: no member waits for a thread that     *)
(* does not exist, and no wake-up between join, release and the next       *)
(* assignment is lost.                                                     *)
(***************************************************************************)
EveryRegionEnds ==
  \A t \in Threads, d \in 1 .. MaxDepth :
    (NestingDepth(t) = d) ~> (NestingDepth(t) # d)
=============================================================================
