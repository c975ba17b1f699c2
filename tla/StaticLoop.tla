----------------------------- MODULE StaticLoop -----------------------------
(***************************************************************************)
(* Statically scheduled loops, with the bookkeeping of PMP_CHECK           *)
(* (__pmp_start_check, __pmp_loop_check, __pmp_last_check and              *)
(* __pmp_stop_check in libopenmp/loop.c): every thread of the team computes*)
(* its share, by itself, from its local id, and __pmp_loop_analyser walks  *)
(* it.  The shares are independent, so the threads take turns.             *)
(* Loops that are empty by more than one step have a negative size.  With  *)
(* assertions, or when loops are checked, some of them end the program;    *)
(* the release build, which has neither, runs them all.                    *)
(***************************************************************************)
EXTENDS Schedules, FiniteSets, Sequences

CONSTANTS Uppers, Incs, Chunks, Teams      \* bounds: the loops that are tried

ASSUME LoopsAssumption ==
  /\ Uppers \subseteq Int /\ Incs \subseteq Int \ {0}
  /\ Chunks \subseteq Nat \ {0} /\ Teams \subseteq Nat \ {0, 1}

VARIABLES loop,                 \* bounds and schedule
          via,                  \* "static_init" or "schedule_next"
          fair,                 \* param->static_fair
          team_size,
          assertions,           \* the build does not define NDEBUG
          check,                \* PMP_CHECK and param->check: loops are checked
          turn,                 \* threads that have run their share
          check_loop,           \* how often each value was executed
          check_last,           \* how often the last iteration was seen
          shares,               \* history: iterations per thread
          stopped               \* an assertion or __pmp_fatal ended the program

setting == <<loop, via, fair, team_size, assertions, check>>
vars == <<setting, turn, check_loop, check_last, shares, stopped>>

Values == -20 .. 20             \* bound: every value the shares reach

Init ==
  /\ loop \in {[lower |-> 1, upper |-> u, inc |-> i, chunk |-> c, sched |-> s] :
                 u \in Uppers, i \in Incs, c \in Chunks, s \in {"EVEN", "STATIC"}}
  /\ via \in {"static_init", "schedule_next"}
  /\ fair \in BOOLEAN
  /\ team_size \in Teams
  /\ assertions \in BOOLEAN
  /\ check \in BOOLEAN
  /\ turn = 0
  /\ check_loop = [v \in Values |-> 0]
  /\ check_last = 0
  /\ shares = <<>>
  /\ stopped = FALSE

-----------------------------------------------------------------------------
(***************************************************************************)
(* The pieces a thread runs: one with a stride from __pmp_static_init, or  *)
(* those that __pmp_schedule_next returns until there is none.             *)
(***************************************************************************)
Pieces(id) ==
  LET r == StaticInit(loop, fair, team_size, id)
      next(k) == IF loop.sched = "EVEN" THEN EvenNext(loop, fair, team_size, id)
                                        ELSE StaticNext(loop, team_size, id, k)
      turns == IF loop.sched = "EVEN" THEN {0} ELSE 0 .. Abs(Size(loop)) IN
  IF via = "static_init"
    THEN {[lower |-> r.share.lower, upper |-> r.share.upper,
           stride |-> r.share.stride, chunk |-> r.chunk]}
    ELSE {[lower |-> next(k).lower, upper |-> next(k).upper, stride |-> 0,
           chunk |-> CDiv(next(k).upper - next(k).lower, loop.inc) + 1] :
            k \in {k \in turns : Within(loop.inc, next(k).lower, next(k).upper)}}

(***************************************************************************)
(* __pmp_loop_analyser: the outer turns of a piece and the values of the   *)
(* inner loop of each.                                                     *)
(***************************************************************************)
Outer(p) ==
  {p.lower + k * p.stride : k \in IF p.stride = 0 THEN {0} ELSE 0 .. Abs(loop.upper) + 1}
    \cap {v \in Values : Within(loop.inc, v, loop.upper)}

Inner(p, outer) ==
  {outer + i * loop.inc : i \in 0 .. p.chunk - 1}
    \cap {v \in Values : Within(loop.inc, v,
            IF outer = p.lower THEN p.upper
            ELSE LOOPMIN(loop.inc, p.upper + (outer - p.lower), loop.upper))}

Runs(p) == IF Within(loop.inc, p.lower, p.upper) THEN Outer(p) ELSE {}

(* The inner variable ends past the bound of the whole loop.               *)
SeesLast(p, outer) ==
  ~Within(loop.inc, outer + Cardinality(Inner(p, outer)) * loop.inc, loop.upper)

(***************************************************************************)
(* Where the program ends: assert(size >= 0) of __pmp_static_init, which   *)
(* the other schedules do not have; assert(chunk != 0) of                  *)
(* __pmp_loop_analyser, which returns before it when nothing is checked;   *)
(* and the array of __pmp_start_check, which cannot have a negative size.  *)
(***************************************************************************)
SizeAsserted == via = "static_init" /\ loop.sched = "EVEN" => Size(loop) >= 0

ChunkAsserted ==
  via = "static_init" /\ check =>
    StaticInit(loop, fair, team_size, turn).chunk # 0

ArrayAllocated == check => Size(loop) >= 0

GoesOn == (assertions => SizeAsserted /\ ChunkAsserted) /\ ArrayAllocated

Stop ==
  /\ turn < team_size /\ ~ stopped /\ ~ GoesOn
  /\ stopped' = TRUE
  /\ UNCHANGED <<setting, turn, check_loop, check_last, shares>>

Analyse ==
  LET pieces == Pieces(turn)
      walks == {<<p, o>> \in pieces \X UNION {Runs(p) : p \in pieces} : o \in Runs(p)}
      hits(v) == {w \in walks : v \in Inner(w[1], w[2])}
      lasts == {w \in walks : SeesLast(w[1], w[2])} IN
  /\ turn < team_size /\ ~ stopped /\ GoesOn
  /\ turn' = turn + 1
  /\ check_loop' = [v \in Values |-> check_loop[v] + Cardinality(hits(v))]
  /\ check_last' = check_last + Cardinality(lasts)
  /\ shares' = Append(shares, Cardinality(UNION {Inner(w[1], w[2]) : w \in walks}))
  /\ UNCHANGED <<setting, stopped>>

Next == Analyse \/ Stop

Spec == Init /\ [][Next]_vars
-----------------------------------------------------------------------------
(***************************************************************************)
(* What __pmp_stop_check looks for: when all threads have run, every value *)
(* of the loop has been executed exactly once, and no other value has (the *)
(* assertions of __pmp_loop_check).  Up and down, with any step, any team  *)
(* size, also for loops with fewer iterations than threads, and for empty  *)
(* ones: a program that does not end at one of them (Stop) runs nothing.   *)
(***************************************************************************)
EachIterationOnce ==
  turn = team_size =>
    check_loop = [v \in Values |-> IF v \in Iterations(loop) THEN 1 ELSE 0]

(***************************************************************************)
(* A share without iterations "will not trigger the LASTPRIVATE check": in *)
(* a loop that has iterations, the variable of a thread that runs none of  *)
(* them stays within the bound.                                            *)
(***************************************************************************)
EmptyShareNotLast ==
  turn < team_size /\ Iterations(loop) # {} =>
    \A p \in Pieces(turn) : Runs(p) = {} => Within(loop.inc, p.lower, loop.upper)

(***************************************************************************)
(* The LASTPRIVATE test is true in exactly one thread: for a loop with     *)
(* iterations exactly one thread ends with its variable past the bound     *)
(* (check_last of __pmp_stop_check), and never one without iterations; for *)
(* an empty loop no thread does (where __pmp_stop_check, which asks for    *)
(* one, warns all the same).                                               *)
(***************************************************************************)
LastIterationOnce ==
  /\ EmptyShareNotLast
  /\ turn = team_size =>
       check_last = IF Iterations(loop) = {} THEN 0 ELSE 1

(***************************************************************************)
(* "the difference between the minimum and maximum number of iterations    *)
(* assigned to the threads across the team is at most 1", and the longest  *)
(* share is no longer than that of the default schedule.                   *)
(***************************************************************************)
FairSharesBalanced ==
  turn = team_size /\ fair /\ loop.sched = "EVEN" =>
    \A i, j \in 1 .. team_size :
      /\ shares[i] - shares[j] <= 1
      /\ shares[i] <= EvenChunk(Cardinality(Iterations(loop)), team_size)
=============================================================================
