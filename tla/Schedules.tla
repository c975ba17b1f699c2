----------------------------- MODULE Schedules -----------------------------
(***************************************************************************)
(* The arithmetic of the loop schedules (libopenmp/schedule.c) as pure     *)
(* operators.  A loop is a record with fields lower, upper, inc and chunk; *)
(* its upper bound is inclusive and its increment may be negative.  The    *)
(* 64-bit values of the code are integers: the bounds checked stay far     *)
(* from overflow.                                                          *)
(***************************************************************************)
EXTENDS Integers

Abs(a) == IF a < 0 THEN -a ELSE a
Min2(a, b) == IF a <= b THEN a ELSE b
Max2(a, b) == IF a >= b THEN a ELSE b

(* Division of C: it rounds towards zero.                                  *)
CDiv(a, b) ==
  LET q == Abs(a) \div Abs(b) IN IF (a < 0) = (b < 0) THEN q ELSE -q

LOOPMIN(i, a, b) == IF i >= 0 THEN Min2(a, b) ELSE Max2(a, b)

(* v has not run past the bound b in the direction of the loop.            *)
Within(inc, v, b) == IF inc >= 0 THEN v <= b ELSE v >= b

(* size: the trip count of a loop that has iterations.                     *)
Size(loop) == CDiv(loop.upper - loop.lower, loop.inc) + 1

(* What the program means by the loop: the values of its variable.         *)
Iterations(loop) ==
  {loop.lower + k * loop.inc : k \in 0 .. Abs(loop.upper - loop.lower)}
    \cap {v \in Min2(loop.lower, loop.upper) .. Max2(loop.lower, loop.upper) :
            Within(loop.inc, v, loop.upper)}

-----------------------------------------------------------------------------
(* The first iteration of thread id when the remainder of size / n goes to *)
(* the threads with the lowest ids.                                        *)
FairIndex(size, n, id) ==
  LET chunk == CDiv(size, n)
      remainder == size - chunk * n IN
  Min2(id, remainder) * (chunk + 1)
    + (IF id > remainder THEN (id - remainder) * chunk ELSE 0)

(* Fault: the first thread gets the whole remainder.                       *)
FairChunkFirst(size, n, id) ==
  IF id = 0 THEN size - CDiv(size, n) * (n - 1) ELSE CDiv(size, n)

FairChunk(size, n, id) ==
  LET chunk == CDiv(size, n) IN
  IF id < size - chunk * n THEN chunk + 1 ELSE chunk

EvenChunk(size, n) == CDiv(size + n - 1, n)

(* Fault: the stride forgets the other threads.                            *)
OwnStride(loop, n) == loop.chunk * loop.inc
TeamStride(loop, n) == loop.chunk * loop.inc * n

(* Fault: an empty share is an ordinary one past the end of the loop.      *)
EmptyPastEnd(loop) ==
  [lower |-> loop.upper + loop.inc, upper |-> loop.upper, stride |-> loop.inc]

(* "a non-iterating loop which will not trigger the LASTPRIVATE check".    *)
EmptyShare(loop) ==
  [lower |-> loop.lower - loop.inc, upper |-> loop.lower - 2 * loop.inc,
   stride |-> loop.inc]

(***************************************************************************)
(* __pmp_static_init: what thread id of a team of n > 1 is told to run.    *)
(***************************************************************************)
Bounded(loop, lower, chunk, stride) ==
  IF Within(loop.inc, lower, loop.upper)
    THEN [lower |-> lower, stride |-> stride,
          upper |-> LOOPMIN(loop.inc, lower + (chunk - 1) * loop.inc, loop.upper)]
    ELSE EmptyShare(loop)

StaticInit(loop, fair, n, id) ==
  CASE loop.sched = "EVEN" /\ ~fair ->
         LET chunk == EvenChunk(Size(loop), n) IN
         [share |-> Bounded(loop, loop.lower + id * chunk * loop.inc, chunk,
                            Size(loop) * loop.inc),
          chunk |-> chunk]
    [] loop.sched = "EVEN" /\ fair ->
         LET chunk == FairChunk(Size(loop), n, id) IN
         [share |-> Bounded(loop, loop.lower + FairIndex(Size(loop), n, id) * loop.inc,
                            chunk, Size(loop) * loop.inc),
          chunk |-> chunk]
    [] loop.sched = "STATIC" ->
         [share |-> Bounded(loop, loop.lower + id * loop.chunk * loop.inc,
                            loop.chunk, TeamStride(loop, n)),
          chunk |-> loop.chunk]

(***************************************************************************)
(* __pmp_schedule_next for the static schedules: the bounds of the         *)
(* iteration-th piece of thread id; an empty one ends the loop.            *)
(***************************************************************************)
PerThread(loop, n) == (CDiv(Size(loop) - 1, n) + 1) * loop.inc

StaticNext(loop, n, id, iteration) ==
  LET first == loop.lower + id * PerThread(loop, n)
      last == LOOPMIN(loop.inc, first + PerThread(loop, n) - loop.inc, loop.upper)
      lower == first + iteration * loop.chunk * loop.inc IN
  [lower |-> lower,
   upper |-> LOOPMIN(loop.inc, lower + (loop.chunk - 1) * loop.inc, last)]

EvenNext(loop, fair, n, id) ==
  LET size == Size(loop)
      first == loop.lower + (IF fair THEN FairIndex(size, n, id) * loop.inc
                                     ELSE id * PerThread(loop, n))
      last == first + (IF fair THEN (FairChunk(size, n, id) - 1) * loop.inc
                               ELSE PerThread(loop, n) - loop.inc) IN
  [lower |-> first, upper |-> LOOPMIN(loop.inc, last, loop.upper)]

(***************************************************************************)
(* __pmp_scheduler_init: the first and the smallest chunk of a guided      *)
(* loop, from the range of the loop and the chunk of the directive.        *)
(***************************************************************************)
MinChunk(loop) == Max2(1, loop.chunk)

GuidedFirst(loop, n, divisor, max) ==
  Max2(MinChunk(loop),
       Min2(max, CDiv(loop.upper - loop.lower + n * divisor, n * divisor)))

(* __pmp_schedule_next: the chunk taken from estimates of chunk and rest,  *)
(* and the chunk left for the next thread.                                 *)
GuidedChunk(loop, chunk, current) ==
  Max2(loop.min_chunk, Min2(chunk, loop.upper - current + 1))

GuidedRest(loop, upper, n, divisor, max) ==
  Max2(loop.min_chunk,
       Min2(max, CDiv(loop.upper - upper + n * divisor - 1, n * divisor)))
=============================================================================
