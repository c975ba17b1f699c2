---------------------------- MODULE LoopTeamInv -----------------------------
(***************************************************************************)
(* What is invariant while a team works through its loops: which loop each *)
(* structure holds and who still needs it (SlotInv); where each iteration  *)
(* of each loop is, still to be handed out, owed by one member, or         *)
(* executed (WorkInv, with the bookkeeping of DataInv); and who is let     *)
(* into an ordered region next (OrderInv).                                 *)
(***************************************************************************)
EXTENDS LoopTeam

(***************************************************************************)
(* The structures: which loop each of them holds, and who still needs it.  *)
(***************************************************************************)
Slots == 0 .. MAX_LOOPS - 1
Inner == {"next", "estimate", "add", "rechunk", "body", "ordered", "free"}

(* The member is through with loop q. *)
Done(t, q) == at[t] > q \/ (at[t] = q /\ pc[t] = "unuse")
Looping(q) == {t \in Threads : ~ Done(t, q)}

LoopRecords ==
  [lower : Int, upper : Int, inc : Int \ {0}, ordered : BOOLEAN, sched : Kinds,
   min_chunk : Nat \ {0}, chunk : Int]
Structures ==
  [loop_id : Int, looping_threads : Int, now_serving : Int, current : Int,
   place : Nat, loop : LoopRecords]

TypeInv ==
  /\ team_loop_count \in 0 .. Len(Program)
  /\ loop_count \in [Threads -> Nat]
  /\ pc \in [Threads -> Inner \cup {"between", "claim", "publish", "find", "unuse"}]
  /\ at \in [Threads -> 1 .. Len(Program) + 1]
  /\ slot \in [Threads -> Slots]

DataTypes ==
  /\ loops \in [Slots -> Structures]
  /\ lower \in [Threads -> Int] /\ upper \in [Threads -> Int]
  /\ ticket \in [Threads -> Int] /\ iteration \in [Threads -> Nat]
  /\ chunk \in [Threads -> Int] /\ my_chunk \in [Threads -> Int]

(* loop_count follows the member's place in the program. *)
PlaceInv ==
  \A t \in Threads :
    /\ loop_count[t] = IF pc[t] = "between" THEN at[t] - 1 ELSE at[t]
    /\ loop_count[t] <= team_loop_count
    /\ pc[t] # "between" => at[t] \in Loops /\ slot[t] = Index(at[t] - 1)

(* Nobody is past a loop that is still to be published. *)
ClaimInv ==
  \A t \in Threads : pc[t] \in {"claim", "publish"} =>
    \A u \in Threads \ {t} : at[u] < at[t] \/ (at[u] = at[t] /\ pc[u] \in {"between", "find"})

(* A structure holds one loop of the program, until the last member has    *)
(* left it; all members have left the earlier loops it held.               *)
HoldsInv(i, q) ==
  /\ q \in Loops /\ Index(q - 1) = i /\ q <= team_loop_count
  /\ loops[i].looping_threads = Cardinality(Looping(q))
  /\ \A t \in Threads : pc[t] = "claim" => at[t] # q
  /\ \/ loops[i].loop_id = UNUSED /\ \E t \in Threads : pc[t] = "publish" /\ at[t] = q
     \/ loops[i].loop_id = Id(q - 1) /\ \A t \in Threads : ~ (pc[t] = "publish" /\ at[t] = q)
  /\ \E t \in Threads : at[t] <= q
  /\ \A p \in 1 .. q - 1 : Index(p - 1) = i => \A t \in Threads : at[t] > p

StructInv ==
  \A i \in Slots : \A q \in Nat : loops[i].place = q =>
    /\ q = 0 => loops[i].loop_id = UNUSED
    /\ q # 0 => HoldsInv(i, q)

(* Every loop that a member has reached is being claimed, in its           *)
(* structure, or over.                                                     *)
LoopInv ==
  \A p \in 1 .. team_loop_count :
    \/ \E t \in Threads : pc[t] = "claim" /\ at[t] = p
    \/ loops[Index(p - 1)].place = p
    \/ \A t \in Threads : at[t] > p

MemberInv ==
  \A t \in Threads :
    /\ InLoop(t) => Mine(t).place = at[t]
    /\ pc[t] = "unuse" => \A u \in Threads \ {t} : at[u] > at[t]

SlotInv == TypeInv /\ DataTypes /\ PlaceInv /\ ClaimInv /\ StructInv /\ LoopInv /\ MemberInv

-----------------------------------------------------------------------------
(***************************************************************************)
(* The iterations of a loop, by number.                                    *)
(***************************************************************************)
At(d, k) == d.lower + k * d.inc
Trip(d) == IF Within(d.inc, d.lower, d.upper)
             THEN Abs(d.upper - d.lower) \div Abs(d.inc) + 1 ELSE 0
Numbers(d) == 0 .. Trip(d) - 1
IsLoop(d) == d.lower \in Int /\ d.upper \in Int /\ d.inc \in Int \ {0}

(***************************************************************************)
(* The numbers that a member gets from a static schedule, BlockLo up to    *)
(* BlockEnd, and those that are left of them after some pieces.            *)
(***************************************************************************)
Per(d) == CDiv(Size(d) - 1, TeamSize) + 1
IsFair(d) == d.sched = "EVEN" /\ StaticFair
BlockLo(d, t) == IF IsFair(d) THEN FairIndex(Size(d), TeamSize, t) ELSE t * Per(d)
BlockLen(d, t) == IF IsFair(d) THEN FairChunk(Size(d), TeamSize, t) ELSE Per(d)
BlockEnd(d, t) == BlockLo(d, t) + BlockLen(d, t)
InBlock(d, t, k) == BlockLo(d, t) <= k /\ k < BlockEnd(d, t)

(* Where the piece starts that a member gets after it pieces. *)
Start(d, t, it) ==
  IF d.sched = "STATIC" THEN BlockLo(d, t) + it * d.chunk
    ELSE IF it = 0 THEN BlockLo(d, t) ELSE BlockEnd(d, t)

-----------------------------------------------------------------------------
(***************************************************************************)
(* The work of a loop: what is still to be handed out, what members have   *)
(* or will get, and what has been executed.                                *)
(***************************************************************************)
LoopOf(p) == Resolved(Program[p])
IsStatic(p) == LoopOf(p).sched \in {"STATIC", "EVEN"}

HasPiece(t) == pc[t] \in {"rechunk", "body", "ordered"}
InPiece(t, p, k) ==
  /\ at[t] = p /\ HasPiece(t)
  /\ Within(LoopOf(p).inc, lower[t], At(LoopOf(p), k))
  /\ Within(LoopOf(p).inc, At(LoopOf(p), k), upper[t])

(* What the member has still to take of its block. *)
InRest(t, p, k) ==
  /\ IsStatic(p)
  /\ at[t] < p \/ (at[t] = p /\ pc[t] \notin {"free", "unuse"})
  /\ Start(LoopOf(p), t, IF at[t] = p THEN iteration[t] ELSE 0) <= k
  /\ k < BlockEnd(LoopOf(p), t)
Owes(t, p, k) == InPiece(t, p, k) \/ InRest(t, p, k)

Begun(t, p) == at[t] > p \/ (at[t] = p /\ InLoop(t))
InPool(p, k) ==
  /\ ~ IsStatic(p)
  /\ IF loops[Index(p - 1)].place = p
       THEN Within(LoopOf(p).inc, loops[Index(p - 1)].current, At(LoopOf(p), k))
       ELSE \A t \in Threads : ~ Begun(t, p)

Ran(p, k) == runs[p][At(LoopOf(p), k)]

(* Iteration number k of loop p is in the pool, owed by one member, or     *)
(* executed.                                                               *)
WorkAt(p, k) ==
  /\ Ran(p, k) \in {0, 1}
  /\ \A t, u \in Threads : Owes(t, p, k) /\ Owes(u, p, k) => t = u
  /\ \A t \in Threads : Owes(t, p, k) => Ran(p, k) = 0 /\ ~ InPool(p, k)
  /\ InPool(p, k) => Ran(p, k) = 0
  /\ Ran(p, k) = 0 => InPool(p, k) \/ \E t \in Threads : Owes(t, p, k)

RunsType ==
  /\ DOMAIN runs = Loops
  /\ \A p \in Loops : DOMAIN runs[p] = Iterations(Program[p])

WorkInv == RunsType /\ \A p \in Loops : \A k \in Numbers(LoopOf(p)) : WorkAt(p, k)

(* A structure describes the loop it holds; nobody leaves a loop that has  *)
(* iterations to hand out.                                                 *)
StructData(i, q) ==
  LET loop == loops[i].loop
      d == LoopOf(q) IN
  /\ loop.lower = d.lower /\ loop.upper = d.upper /\ loop.inc = d.inc
  /\ loop.ordered = d.ordered /\ loop.sched = d.sched
  /\ d.sched # "GUIDED" => loop = d
  /\ \E c \in Nat : loops[i].current = At(d, c)
  /\ ~ IsStatic(q) =>
       \A t \in Threads : at[t] > q \/ (at[t] = q /\ pc[t] \in {"free", "unuse"}) =>
         ~ Within(d.inc, loops[i].current, d.upper)

(* A member with a piece is inside the loop, and has taken the piece from  *)
(* the rest of its block.                                                  *)
PieceOk(t, p) ==
  LET d == LoopOf(p) IN
  /\ \E a \in Numbers(d) : lower[t] = At(d, a)
  /\ Within(d.inc, lower[t], upper[t])
  /\ \A k \in Nat : Within(d.inc, At(d, k), upper[t]) => k < Trip(d) /\ ~ InRest(t, p, k)
  /\ d.ordered => ticket[t] = lower[t]

MemberData(t, p) ==
  /\ HasPiece(t) => PieceOk(t, p)
  /\ iteration[t] # 0 => pc[t] \in Inner \ {"free"}
  /\ pc[t] = "add" => my_chunk[t] \in Nat \ {0}
  /\ pc[t] \in {"estimate", "add", "rechunk"} => LoopOf(p).sched = "GUIDED"

DataInv ==
  /\ \A i \in Slots : \A q \in Loops : loops[i].place = q => StructData(i, q)
  /\ \A t \in Threads : \A p \in Nat : at[t] = p => MemberData(t, p)

-----------------------------------------------------------------------------
(***************************************************************************)
(* Ordered regions: now_serving is the iteration after the last one that   *)
(* was let in, or this one while it is still in its region.                *)
(***************************************************************************)
OrderAt(p) ==
  /\ order[p] \in Seq(Int)
  /\ \A n \in 1 .. Len(order[p]) : order[p][n] = At(LoopOf(p), n - 1)
  /\ (\A t \in Threads : ~ Begun(t, p)) => order[p] = <<>>

InRegion(t, p) == at[t] = p /\ pc[t] = "ordered"
Serving(i, p) ==
  IF \E t \in Threads : InRegion(t, p)
    THEN Len(order[p]) > 0 /\ loops[i].now_serving = At(LoopOf(p), Len(order[p]) - 1)
    ELSE loops[i].now_serving = At(LoopOf(p), Len(order[p]))

OrderInv ==
  /\ DOMAIN order = Loops
  /\ \A p \in Loops : OrderAt(p)
  /\ \A i \in Slots : \A p \in Loops : loops[i].place = p => Serving(i, p)
  /\ \A t \in Threads : \A p \in Loops : \A i \in Slots :
       InRegion(t, p) /\ slot[t] = i => LoopOf(p).ordered /\ loops[i].now_serving = lower[t]

-----------------------------------------------------------------------------
(* No member forks a region between two loops: it would start its own      *)
(* loop_count from 0 again, and take itself for a late member.             *)
NoRegionBetween == NestAt \subseteq {1}

(* Chunks are positive.  __pmp_scheduler_init asserts that a chunk is not  *)
(* 0; that it is not negative is left to the program and to OMP_SCHEDULE.  *)
PositiveChunks ==
  \A p \in Loops : LoopOf(p).sched \in {"STATIC", "DYNAMIC"} => LoopOf(p).chunk > 0
=============================================================================
