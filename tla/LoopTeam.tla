------------------------------ MODULE LoopTeam ------------------------------
(***************************************************************************)
(* Loops that a team schedules at run time (libopenmp/loop.c, schedule.c): *)
(* every member executes the same program of loops, without a barrier in   *)
(* between.  The first to reach a loop claims the next of the team's loop  *)
(* structures, which are reused in turn; the others wait until they find   *)
(* the id of their loop in it; the last to run out of iterations frees it. *)
(* Ordered regions serve the iterations in the order of the loop.          *)
(***************************************************************************)
EXTENDS Schedules, FiniteSets, Sequences

CONSTANTS Threads,              \* local ids
          Program,              \* the loops, in program order
          MAX_LOOPS,            \* PMP_MAX_LOOPS
          ID_RANGE,             \* PMP_MASK_LOOP_ID + 1
          StaticFair, Divisor, ChunkMax,      \* parameters
          RuntimeSchedule, RuntimeChunk,      \* OMP_SCHEDULE
          NestAt                \* loops before which a member may fork

TeamSize == Cardinality(Threads)

(* The ids of the code are 31 bits wide, its structures at most 16.        *)
ASSUME LoopAssumption ==
  /\ TeamSize \in Nat /\ Threads = 0 .. TeamSize - 1 /\ TeamSize > 1
  /\ MAX_LOOPS \in Nat \ {0} /\ ID_RANGE \in Nat /\ ID_RANGE % MAX_LOOPS = 0
  /\ ID_RANGE > MAX_LOOPS

(* Any bounds and chunks; __pmp_scheduler_init asserts inc # 0, and the    *)
(* parameters of the guided schedule are positive after __pmp_init.        *)
Kinds == {"STATIC", "EVEN", "DYNAMIC", "GUIDED"}
ASSUME ProgramAssumption ==
  /\ Program \in Seq([sched : Kinds \cup {"RUNTIME"}, lower : Int, upper : Int,
                      inc : Int \ {0}, chunk : Int, ordered : BOOLEAN])
  /\ Len(Program) > 0
  /\ RuntimeSchedule \in Kinds /\ RuntimeChunk \in Int
  /\ StaticFair \in BOOLEAN /\ Divisor \in Nat \ {0} /\ ChunkMax \in Nat \ {0}

VARIABLES team_loop_count, loop_count,        \* team->, thread->loop_count
          loops,                \* team->loops
          pc, at,               \* at: the member's place in Program
          slot,                 \* thread->loop
          lower, upper,         \* what is left of the member's piece
          iteration,            \* thread->iteration (0 outside of a loop)
          ticket,               \* thread->ticket_number
          chunk, my_chunk,      \* locals of __pmp_schedule_next (guided)
          runs,                 \* history: executions of each iteration
          order                 \* history: iterations in ordered regions

piece == <<lower, upper, iteration, ticket>>
local == <<piece, chunk, my_chunk>>
history == <<runs, order>>
vars == <<team_loop_count, loop_count, loops, pc, at, slot, local, history>>

Loops == 1 .. Len(Program)
UNUSED == -1
Id(count) == count % ID_RANGE
Index(count) == count % MAX_LOOPS
MyId(t) == Id(loop_count[t] - 1)      \* of the loop the member is in
Mine(t) == loops[slot[t]]

(* PMP_SCHED_RUNTIME is replaced, with its chunk; min_chunk is not.        *)
Resolved(d) ==
  LET sched == IF d.sched = "RUNTIME" THEN RuntimeSchedule ELSE d.sched
      first == IF d.sched = "RUNTIME" THEN RuntimeChunk ELSE d.chunk IN
  [lower |-> d.lower, upper |-> d.upper, inc |-> d.inc, ordered |-> d.ordered,
   sched |-> sched, min_chunk |-> MinChunk(d),
   chunk |-> IF sched = "GUIDED" THEN GuidedFirst(d, TeamSize, Divisor, ChunkMax)
                                 ELSE first]

Free == [loop_id |-> UNUSED, looping_threads |-> 0, now_serving |-> 0,
         current |-> 0, place |-> 0, loop |-> Resolved(Program[1])]

Init ==
  /\ team_loop_count = 0
  /\ loop_count = [t \in Threads |-> 0]
  /\ loops = [i \in 0 .. MAX_LOOPS - 1 |-> Free]
  /\ pc = [t \in Threads |-> "between"]
  /\ at = [t \in Threads |-> 1]
  /\ slot = [t \in Threads |-> 0]
  /\ lower = [t \in Threads |-> 0]
  /\ upper = [t \in Threads |-> 0]
  /\ iteration = [t \in Threads |-> 0]
  /\ chunk = [t \in Threads |-> 0]
  /\ my_chunk = [t \in Threads |-> 0]
  /\ ticket = [t \in Threads |-> 0]
  /\ runs = [p \in Loops |-> [v \in Iterations(Program[p]) |-> 0]]
  /\ order = [p \in Loops |-> <<>>]

Goto(t, p) == pc' = [pc EXCEPT ![t] = p]

(* Values that are overwritten before they are read again are set to 0, so *)
(* that states differ only in what is alive: the piece of a member without *)
(* one here, and the fields of an unused structure in Unuse.               *)
NoPiece(t) ==
  /\ lower' = [lower EXCEPT ![t] = 0]
  /\ upper' = [upper EXCEPT ![t] = 0]
  /\ ticket' = [ticket EXCEPT ![t] = 0]
Set(f, t, v) == [f EXCEPT ![t] = v]
-----------------------------------------------------------------------------
(***************************************************************************)
(* A parallel region forked by a member between two loops: __pmp_thread_   *)
(* fork leaves its loop_count at 0 (the region itself contains no loop).   *)
(***************************************************************************)
NestedRegion(t) ==
  /\ pc[t] = "between"
  /\ at[t] \in NestAt
  /\ loop_count' = Set(loop_count, t, 0)
  /\ UNCHANGED <<team_loop_count, loops, pc, at, slot, local, history>>

(***************************************************************************)
(* __pmp_loop_alloc.  The exchange on team->loop_count tells the first     *)
(* member from the others.                                                 *)
(***************************************************************************)
LoopAlloc(t) ==
  LET count == loop_count[t] IN
  /\ pc[t] = "between"
  /\ at[t] \in Loops
  /\ loop_count' = Set(loop_count, t, count + 1)
  /\ slot' = Set(slot, t, Index(count))
  /\ IF team_loop_count = count
       THEN team_loop_count' = count + 1 /\ Goto(t, "claim")
       ELSE UNCHANGED team_loop_count /\ Goto(t, "find")
  /\ UNCHANGED <<loops, at, local, history>>

(* Fault: the structure is taken as soon as another loop is in it.         *)
NotMyLoop(t) == Mine(t).loop_id # MyId(t)
Claimable(t) == Mine(t).loop_id = UNUSED

Claim(t) ==
  LET loop == Resolved(Program[at[t]]) IN
  /\ pc[t] = "claim"
  /\ Claimable(t)
  /\ loops' = [loops EXCEPT ![slot[t]] =
       [loop_id |-> @.loop_id, looping_threads |-> TeamSize,
        now_serving |-> loop.lower, current |-> loop.lower,
        place |-> at[t], loop |-> loop]]
  /\ Goto(t, "publish")
  /\ UNCHANGED <<team_loop_count, loop_count, at, slot, local, history>>

Publish(t) ==
  /\ pc[t] = "publish"
  /\ loops' = [loops EXCEPT ![slot[t]].loop_id = IF @ = UNUSED THEN MyId(t) ELSE @]
  /\ Goto(t, "next")
  /\ UNCHANGED <<team_loop_count, loop_count, at, slot, local, history>>

Find(t) ==
  /\ pc[t] = "find"
  /\ Mine(t).loop_id = MyId(t)
  /\ Goto(t, "next")
  /\ UNCHANGED <<team_loop_count, loop_count, loops, at, slot, local, history>>
-----------------------------------------------------------------------------
(***************************************************************************)
(* __pmp_schedule_next: the member gets a piece, or frees the loop.        *)
(***************************************************************************)
Take(t, lo, up) ==
  /\ lower' = Set(lower, t, lo)
  /\ upper' = Set(upper, t, up)
  /\ ticket' = Set(ticket, t, lo)
  /\ iteration' = Set(iteration, t, iteration[t] + 1)

TakeOrFree(t, lo, up, last, taken) ==
  IF Within(Mine(t).loop.inc, lo, last)
    THEN Take(t, lo, up) /\ Goto(t, taken)
    ELSE NoPiece(t) /\ iteration' = Set(iteration, t, 0) /\ Goto(t, "free")

(* The static schedules only read the loop.  The code compares this_lower  *)
(* with thread_upper; with chunks from 1 on, that and the comparison with  *)
(* this_upper come to the same.                                            *)
NextStatic(t) ==
  LET loop == Mine(t).loop
      share == StaticNext(loop, TeamSize, t, iteration[t]) IN
  /\ pc[t] = "next"
  /\ loop.sched = "STATIC"
  /\ TakeOrFree(t, share.lower, share.upper, share.upper, "body")
  /\ UNCHANGED <<team_loop_count, loop_count, loops, at, slot, chunk, my_chunk,
                 history>>

NextEven(t) ==
  LET loop == Mine(t).loop
      share == EvenNext(loop, StaticFair, TeamSize, t) IN
  /\ pc[t] = "next"
  /\ loop.sched = "EVEN"
  /\ IF iteration[t] = 0
       THEN TakeOrFree(t, share.lower, share.upper, share.upper, "body")
       ELSE NoPiece(t) /\ iteration' = Set(iteration, t, 0) /\ Goto(t, "free")
  /\ UNCHANGED <<team_loop_count, loop_count, loops, at, slot, chunk, my_chunk,
                 history>>

(* Fault: the result of the atomic add is taken for the new value.         *)
AddedCurrent(t, stride) == Mine(t).current + stride
OldCurrent(t, stride) == Mine(t).current

(* The atomic add to loop->current hands out stride / inc iterations.      *)
TakeCurrent(t, stride, taken) ==
  LET loop == Mine(t).loop
      current == OldCurrent(t, stride) IN
  /\ loops' = [loops EXCEPT ![slot[t]].current = @ + stride]
  /\ TakeOrFree(t, current, LOOPMIN(loop.inc, loop.upper, current + stride - loop.inc),
                loop.upper, taken)

NextDynamic(t) ==
  LET loop == Mine(t).loop IN
  /\ pc[t] = "next"
  /\ loop.sched = "DYNAMIC"
  /\ TakeCurrent(t, loop.inc * loop.chunk, "body")
  /\ UNCHANGED <<team_loop_count, loop_count, at, slot, chunk, my_chunk, history>>

(* Guided: loop->chunk and loop->current are read one after the other, and *)
(* both may be stale when current is advanced and chunk exchanged.         *)
ReadChunk(t) ==
  /\ pc[t] = "next"
  /\ Mine(t).loop.sched = "GUIDED"
  /\ chunk' = Set(chunk, t, Mine(t).loop.chunk)
  /\ Goto(t, "estimate")
  /\ UNCHANGED <<team_loop_count, loop_count, loops, at, slot, piece, my_chunk,
                 history>>

Estimate(t) ==
  /\ pc[t] = "estimate"
  /\ my_chunk' = Set(my_chunk, t, GuidedChunk(Mine(t).loop, chunk[t], Mine(t).current))
  /\ Goto(t, "add")
  /\ UNCHANGED <<team_loop_count, loop_count, loops, at, slot, piece, chunk, history>>

NextGuided(t) ==
  /\ pc[t] = "add"
  /\ TakeCurrent(t, Mine(t).loop.inc * my_chunk[t], "rechunk")
  /\ my_chunk' = Set(my_chunk, t, 0)
  /\ chunk' = Set(chunk, t, IF pc'[t] = "free" THEN 0 ELSE chunk[t])
  /\ UNCHANGED <<team_loop_count, loop_count, at, slot, history>>

Rechunk(t) ==
  LET loop == Mine(t).loop
      new_chunk == GuidedRest(loop, upper[t], TeamSize, Divisor, ChunkMax) IN
  /\ pc[t] = "rechunk"
  /\ loops' = [loops EXCEPT ![slot[t]].loop.chunk =
                 IF @ = chunk[t] THEN new_chunk ELSE @]
  /\ chunk' = Set(chunk, t, 0)
  /\ Goto(t, "body")
  /\ UNCHANGED <<team_loop_count, loop_count, at, slot, piece, my_chunk, history>>
-----------------------------------------------------------------------------
(* One iteration of the program's loop, with its ordered region.           *)
Advance(t, next_ticket) ==
  LET inc == Mine(t).loop.inc IN
  /\ runs' = [runs EXCEPT ![at[t]][lower[t]] = @ + 1]
  /\ IF Within(inc, lower[t] + inc, upper[t])
       THEN /\ lower' = Set(lower, t, lower[t] + inc)
            /\ ticket' = Set(ticket, t, next_ticket)
            /\ UNCHANGED upper
            /\ Goto(t, "body")
       ELSE NoPiece(t) /\ Goto(t, "next")

Body(t) ==
  /\ pc[t] = "body"
  /\ ~Mine(t).loop.ordered
  /\ Advance(t, ticket[t])
  /\ UNCHANGED <<team_loop_count, loop_count, loops, at, slot, iteration, chunk,
                 my_chunk, order>>

(* Fault: a ticket is served while earlier ones are still waiting.         *)
ServedEarly(t) == Mine(t).now_serving <= ticket[t]
Served(t) == Mine(t).now_serving = ticket[t]

Ordered(t) ==
  /\ pc[t] = "body"
  /\ Mine(t).loop.ordered
  /\ Served(t)
  /\ order' = [order EXCEPT ![at[t]] = Append(@, lower[t])]
  /\ Goto(t, "ordered")
  /\ UNCHANGED <<team_loop_count, loop_count, loops, at, slot, local, runs>>

(* Fault: the member's own ticket is not advanced.                         *)
SameTicket(t) == ticket[t]
NextTicket(t) == ticket[t] + Mine(t).loop.inc

EndOrdered(t) ==
  /\ pc[t] = "ordered"
  /\ loops' = [loops EXCEPT ![slot[t]].now_serving = @ + Mine(t).loop.inc]
  /\ Advance(t, NextTicket(t))
  /\ UNCHANGED <<team_loop_count, loop_count, at, slot, iteration, chunk, my_chunk,
                 order>>

(***************************************************************************)
(* __pmp_loop_free: the last member gives the structure back.              *)
(***************************************************************************)
LastMember(t) == Mine(t).looping_threads = 1

LoopFree(t) ==
  /\ pc[t] = "free"
  /\ loops' = [loops EXCEPT ![slot[t]].looping_threads = @ - 1]
  /\ IF LastMember(t) THEN Goto(t, "unuse") /\ UNCHANGED at
                      ELSE Goto(t, "between") /\ at' = Set(at, t, at[t] + 1)
  /\ UNCHANGED <<team_loop_count, loop_count, slot, local, history>>

Unuse(t) ==
  /\ pc[t] = "unuse"
  /\ loops' = [loops EXCEPT ![slot[t]] = Free]
  /\ Goto(t, "between")
  /\ at' = Set(at, t, at[t] + 1)
  /\ UNCHANGED <<team_loop_count, loop_count, slot, local, history>>

Step(t) ==
  \/ LoopAlloc(t) \/ Claim(t) \/ Publish(t) \/ Find(t)
  \/ NextStatic(t) \/ NextEven(t) \/ NextDynamic(t)
  \/ ReadChunk(t) \/ Estimate(t) \/ NextGuided(t) \/ Rechunk(t)
  \/ Body(t) \/ Ordered(t) \/ EndOrdered(t) \/ LoopFree(t) \/ Unuse(t)

Next == \E t \in Threads : Step(t) \/ NestedRegion(t)

Spec == Init /\ [][Next]_vars

(* The spin loops yield, and the kernel runs every member.                 *)
FairSpec == Spec /\ \A t \in Threads : WF_vars(Step(t))
-----------------------------------------------------------------------------
InLoop(t) == pc[t] \notin {"between", "claim", "find"}

(***************************************************************************)
(* What __pmp_stop_check looks for: no iteration is executed twice, and    *)
(* none is left out when the loop is over.                                 *)
(***************************************************************************)
EachIterationOnce ==
  \A p \in Loops : \A v \in DOMAIN runs[p] :
    /\ runs[p][v] <= 1
    /\ (\A t \in Threads : at[t] > p) => runs[p][v] = 1

(***************************************************************************)
(* The assertions of __pmp_loop_free and __pmp_loop_alloc, and what they   *)
(* are about: the structure a member works with holds its loop, however    *)
(* far other members have run ahead, and a structure is claimed only when  *)
(* nobody uses it any more.                                                *)
(***************************************************************************)
StructureIsMine ==
  \A t \in Threads :
    /\ InLoop(t) => Mine(t).place = at[t]
    /\ InLoop(t) /\ pc[t] # "publish" => Mine(t).loop_id = MyId(t)
    /\ pc[t] = "publish" =>
         Mine(t).loop_id = UNUSED
           /\ \A u \in Threads \ {t} : InLoop(u) => slot[u] # slot[t]
    /\ pc[t] = "claim" => Mine(t).loop_id # MyId(t)
    /\ pc[t] = "free" => Mine(t).looping_threads >= 1

(***************************************************************************)
(* Ordered regions run one at a time, in the order of the iterations, and  *)
(* each leaves as the one that is served (assertion of __ompc_end_ordered).*)
(***************************************************************************)
OrderedInSequence ==
  /\ \A p \in Loops : \A i \in DOMAIN order[p] :
       order[p][i] = Program[p].lower + (i - 1) * Program[p].inc
  /\ \A t, u \in Threads :
       pc[t] = "ordered" /\ pc[u] = "ordered" /\ at[t] = at[u] => t = u
  /\ \A t \in Threads : pc[t] = "ordered" => Mine(t).now_serving = ticket[t]

(***************************************************************************)
(* Every member gets through all loops: the spin loops on loop_id and on   *)
(* now_serving end.                                                        *)
(***************************************************************************)
EveryLoopEnds == <>(\A t \in Threads : at[t] = Len(Program) + 1)

(***************************************************************************)
(* "This is not the first thread to hit this loop": a member that waits    *)
(* for a loop to appear comes after another one.                           *)
(***************************************************************************)
NotFirst ==
  \A t \in Threads : pc[t] = "find" =>
    \E u \in Threads \ {t} : at[u] > at[t] \/ (at[u] = at[t] /\ pc[u] # "between")
=============================================================================
