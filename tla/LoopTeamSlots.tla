--------------------------- MODULE LoopTeamSlots ----------------------------
(***************************************************************************)
(* The structures that a team shares between its loops are never used for  *)
(* two loops at once: SlotInv is inductive, and StructureIsMine follows.   *)
(* The second half has the arithmetic of the schedules: which numbered     *)
(* iterations the pieces of a static schedule are, and that the blocks of  *)
(* the members cover a loop without overlapping.                           *)
(***************************************************************************)
EXTENDS LoopTeamInv, FiniteSetTheorems, TLAPS

-----------------------------------------------------------------------------
(* The remainder of a division. *)
LEMMA DivMod ==
  ASSUME NEW a \in Int, NEW m \in Nat \ {0}
  PROVE  /\ a \div m \in Int /\ a % m \in Int
         /\ a = m * (a \div m) + (a % m) /\ 0 <= a % m /\ a % m < m
OBVIOUS

(* Quotient and remainder are unique. *)
LEMMA DivUnique ==
  ASSUME NEW a \in Int, NEW m \in Nat \ {0}, NEW q \in Int, NEW r \in Int,
         a = m * q + r, 0 <= r, r < m
  PROVE  a % m = r /\ a \div m = q
OBVIOUS

(* Two numbers with the same remainder are a whole divisor apart, and the  *)
(* number one divisor below has it too.                                    *)
LEMMA SameRemainder ==
  ASSUME NEW a \in Int, NEW b \in Int, NEW m \in Nat \ {0}, a % m = b % m
  PROVE  /\ (b - m) % m = b % m
         /\ a < b => a <= b - m
<1>. DEFINE x == a \div m
            y == b \div m
            r == b % m
<1>1. /\ x \in Int /\ y \in Int /\ r \in Int /\ 0 <= r /\ r < m
      /\ a = m * x + r /\ b = m * y + r
  BY DivMod
<1>. HIDE DEF x, y, r
<1>2. (b - m) % m = r
  <2>1. b - m = m * (y - 1) + r /\ b - m \in Int /\ y - 1 \in Int
    BY <1>1
  <2>. QED  BY <1>1, <2>1, DivUnique
<1>3. a < b => a <= b - m
  <2>1. SUFFICES ASSUME a < b PROVE m * (y - x) >= m
    BY <1>1
  <2>2. y > x
    <3>1. SUFFICES ASSUME y <= x PROVE FALSE
      BY <1>1
    <3>2. m * (x - y) >= 0
      BY <1>1, <3>1
    <3>. QED  BY <1>1, <2>1, <3>2
  <2>. QED  BY <1>1, <2>2
<1>. QED  BY <1>2, <1>3 DEF r

(* The constants. *)
LEMMA Constants ==
  /\ TeamSize \in Nat /\ TeamSize > 1 /\ Threads = 0 .. TeamSize - 1
  /\ IsFiniteSet(Threads) /\ Cardinality(Threads) = TeamSize
  /\ MAX_LOOPS \in Nat \ {0} /\ ID_RANGE \in Nat \ {0} /\ ID_RANGE > MAX_LOOPS
  /\ Len(Program) \in Nat /\ Len(Program) > 0
<1>1. IsFiniteSet(0 .. TeamSize - 1)
  BY LoopAssumption, FS_Interval
<1>. QED  BY <1>1, LoopAssumption, ProgramAssumption DEF TeamSize

(* A loop before this one that goes into the same structure. *)
LEMMA SameSlot ==
  ASSUME NEW p \in Nat, NEW q \in Nat, Index(p - 1) = Index(q - 1), p < q
  PROVE  p <= q - MAX_LOOPS /\ Index(q - MAX_LOOPS - 1) = Index(q - 1)
<1>1. (p - 1) % MAX_LOOPS = (q - 1) % MAX_LOOPS /\ p - 1 \in Int /\ q - 1 \in Int /\ p - 1 < q - 1
  BY DEF Index
<1>2. (q - 1) - MAX_LOOPS = q - MAX_LOOPS - 1
  BY Constants
<1>3. p - 1 <= (q - 1) - MAX_LOOPS /\ ((q - 1) - MAX_LOOPS) % MAX_LOOPS = (q - 1) % MAX_LOOPS
  BY <1>1, Constants, SameRemainder, Zenon
<1>. QED  BY <1>2, <1>3, Constants DEF Index

(* Loops with one id are a whole turn of the ids apart, more than          *)
(* MAX_LOOPS loops.                                                        *)
LEMMA SameId ==
  ASSUME NEW p \in Nat, NEW q \in Nat, Id(p - 1) = Id(q - 1), p < q
  PROVE  p < q - MAX_LOOPS
<1>1. (p - 1) % ID_RANGE = (q - 1) % ID_RANGE /\ p - 1 \in Int /\ q - 1 \in Int /\ p - 1 < q - 1
  BY DEF Id
<1>2. p - 1 <= (q - 1) - ID_RANGE
  BY <1>1, Constants, SameRemainder, Zenon
<1>. QED  BY <1>2, Constants

(* PMP_MASK_LOOP_INDEX names a structure, and no id is that of a free      *)
(* structure.                                                              *)
LEMMA IndexRange ==
  ASSUME NEW p \in Int
  PROVE  Index(p) \in Slots /\ Id(p) # UNUSED
<1>1. p % MAX_LOOPS \in 0 .. MAX_LOOPS - 1 /\ p % ID_RANGE >= 0
  BY Constants, DivMod
<1>. QED  BY <1>1, Constants DEF Index, Id, Slots, UNUSED

(* A member that is out of "between" and finds the id of its loop in its   *)
(* structure has found its loop: not one whose id is the same.             *)
LEMMA RightLoop ==
  ASSUME SlotInv, NEW t \in Threads, pc[t] # "between", Mine(t).loop_id = MyId(t)
  PROVE  Mine(t).place = at[t]
<1>. DEFINE i == slot[t]
            p == at[t]
            q == loops[i].place
<1>1. /\ p \in Loops /\ p \in Nat /\ p > 0 /\ i = Index(p - 1) /\ i \in Slots
      /\ loop_count[t] = p /\ p <= team_loop_count /\ team_loop_count \in Nat
  BY Constants DEF SlotInv, TypeInv, PlaceInv, Loops
<1>2. loops[i].loop_id = Id(p - 1) /\ loops[i].loop_id # UNUSED
  BY <1>1, IndexRange DEF Mine, MyId
<1>3. q # 0 /\ HoldsInv(i, q)
  <2>1. q \in Nat
    BY <1>1 DEF SlotInv, DataTypes, Structures
  <2>. QED  BY <1>1, <1>2, <2>1 DEF SlotInv, StructInv
<1>4. q \in Nat /\ q > 0 /\ q \in Loops /\ Index(q - 1) = i /\ loops[i].loop_id = Id(q - 1)
  BY <1>2, <1>3, Constants DEF HoldsInv, Loops
<1>5. \A u \in Threads : at[u] \in Nat
  BY Constants, SMTT(30) DEF SlotInv, TypeInv
<1>. HIDE DEF i, p, q
<1>6. ~ (p < q)
  <2>1. SUFFICES ASSUME p < q PROVE FALSE
    OBVIOUS
  <2>2. p \in 1 .. q - 1
    BY <1>1, <1>4, <2>1
  <2>3. at[t] > p
    BY <1>1, <1>3, <2>2 DEF HoldsInv
  <2>. QED  BY <2>3, <1>1 DEF p
<1>7. ~ (q < p)
  <2>1. SUFFICES ASSUME q < p PROVE FALSE
    OBVIOUS
  <2>. DEFINE m == p - MAX_LOOPS
  <2>2. q < m /\ m \in Nat /\ m < p /\ Index(m - 1) = i
    BY <1>1, <1>2, <1>4, <2>1, SameId, SameSlot, Constants
  <2>3. m \in 1 .. team_loop_count
    BY <1>1, <1>4, <2>2
  <2>. HIDE DEF m
  <2>4. CASE \E u \in Threads : pc[u] = "claim" /\ at[u] = m
    <3>1. PICK u \in Threads : pc[u] = "claim" /\ at[u] = m
      BY <2>4
    <3>2. u # t
      BY <2>2, <3>1, <1>1 DEF p
    <3>3. at[t] < at[u] \/ at[t] = at[u]
      BY <3>1, <3>2 DEF SlotInv, ClaimInv
    <3>. QED  BY <1>1, <2>2, <3>1, <3>3 DEF p
  <2>5. CASE loops[Index(m - 1)].place = m
    BY <2>2, <2>5, <1>4 DEF q
  <2>6. CASE \A u \in Threads : at[u] > m
    <3>1. PICK u \in Threads : at[u] <= q
      BY <1>3 DEF HoldsInv
    <3>. QED  BY <1>4, <1>5, <2>2, <2>6, <3>1
  <2>. QED  BY <2>3, <2>4, <2>5, <2>6 DEF SlotInv, LoopInv
<1>8. q = p
  BY <1>1, <1>4, <1>6, <1>7
<1>. QED  BY <1>8 DEF q, p, i, Mine

(* Types of the arithmetic. *)
LEMMA CDivType ==
  ASSUME NEW a \in Int, NEW b \in Int \ {0}
  PROVE  CDiv(a, b) \in Int
<1>1. Abs(a) \in Nat /\ Abs(b) \in Nat \ {0}
  BY DEF Abs
<1>2. Abs(a) \div Abs(b) \in Int
  BY <1>1, DivMod
<1>. QED  BY <1>2 DEF CDiv

(* Minima and maxima of integers, and LOOPMIN, are integers. *)
LEMMA MinMaxType ==
  ASSUME NEW a \in Int, NEW b \in Int
  PROVE  /\ Min2(a, b) \in Int /\ Max2(a, b) \in Int
         /\ \A i \in Int : LOOPMIN(i, a, b) \in Int
BY DEF Min2, Max2, LOOPMIN

(* The loops of the program, as their directives give them. *)
LEMMA ProgramTypes ==
  ASSUME NEW p \in Loops
  PROVE  /\ Program[p].lower \in Int /\ Program[p].upper \in Int /\ Program[p].inc \in Int \ {0}
         /\ Program[p].chunk \in Int /\ Program[p].ordered \in BOOLEAN
         /\ Program[p].sched \in Kinds \cup {"RUNTIME"}
<1>. DEFINE D == [sched : Kinds \cup {"RUNTIME"}, lower : Int, upper : Int,
                  inc : Int \ {0}, chunk : Int, ordered : BOOLEAN]
<1>1. Program \in Seq(D)
  BY ProgramAssumption
<1>2. Program[p] \in D
  <2>. HIDE DEF D
  <2>. QED  BY <1>1 DEF Loops
<1>. QED  BY <1>2

(* __pmp_scheduler_init keeps the bounds of a loop, and replaces run-time  *)
(* schedules.                                                              *)
LEMMA ResolvedType ==
  ASSUME NEW p \in Loops
  PROVE  /\ Resolved(Program[p]) \in LoopRecords
         /\ Resolved(Program[p]).lower = Program[p].lower
         /\ Resolved(Program[p]).upper = Program[p].upper
         /\ Resolved(Program[p]).inc = Program[p].inc
         /\ Resolved(Program[p]).ordered = Program[p].ordered
<1>. DEFINE d == Program[p]
            c == GuidedFirst(d, TeamSize, Divisor, ChunkMax)
<1>1. d.lower \in Int /\ d.upper \in Int /\ d.inc \in Int \ {0} /\ d.chunk \in Int
      /\ d.ordered \in BOOLEAN /\ d.sched \in Kinds \cup {"RUNTIME"}
  BY ProgramTypes
<1>2. MinChunk(d) \in Nat \ {0}
  BY <1>1 DEF MinChunk, Max2
<1>3. c \in Int
  <2>1. TeamSize * Divisor \in Int \ {0}
    BY ProgramAssumption, Constants
  <2>2. CDiv(d.upper - d.lower + TeamSize * Divisor, TeamSize * Divisor) \in Int
    BY <1>1, <2>1, CDivType
  <2>3. Min2(ChunkMax, CDiv(d.upper - d.lower + TeamSize * Divisor, TeamSize * Divisor)) \in Int
    BY <2>2, ProgramAssumption, MinMaxType
  <2>. QED  BY <1>2, <2>3, MinMaxType DEF GuidedFirst
<1>. HIDE DEF d, c
<1>4. RuntimeSchedule \in Kinds /\ RuntimeChunk \in Int
  BY ProgramAssumption
<1>. QED
  <2>. DEFINE sc == IF d.sched = "RUNTIME" THEN RuntimeSchedule ELSE d.sched
              ch == IF d.sched = "RUNTIME" THEN RuntimeChunk ELSE d.chunk
              cc == IF sc = "GUIDED" THEN c ELSE ch
  <2>1. sc \in Kinds /\ cc \in Int
    BY <1>1, <1>3, <1>4
  <2>2. Resolved(d) = [lower |-> d.lower, upper |-> d.upper, inc |-> d.inc, ordered |-> d.ordered,
                       sched |-> sc, min_chunk |-> MinChunk(d), chunk |-> cc]
    BY DEF Resolved, c
  <2>. HIDE DEF sc, cc
  <2>3. Resolved(d) \in LoopRecords
    BY <1>1, <1>2, <2>1, <2>2 DEF LoopRecords
  <2>4. Resolved(d).lower = d.lower /\ Resolved(d).upper = d.upper /\ Resolved(d).inc = d.inc
        /\ Resolved(d).ordered = d.ordered
    BY <2>2
  <2>. QED  BY <2>3, <2>4 DEF d

(* __pmp_loop_init makes a structure. *)
LEMMA FreeType == Free \in Structures
<1>1. Resolved(Program[1]) \in LoopRecords
  BY ResolvedType, Constants DEF Loops
<1>. QED  BY <1>1 DEF Free, Structures, UNUSED

(* The structure a member works with. *)
LEMMA MineType ==
  ASSUME TypeInv, DataTypes, NEW t \in Threads
  PROVE  /\ slot[t] \in Slots /\ Mine(t) \in Structures /\ Mine(t).loop \in LoopRecords
         /\ Mine(t).current \in Int /\ Mine(t).now_serving \in Int
         /\ Mine(t).looping_threads \in Int /\ Mine(t).loop_id \in Int /\ Mine(t).place \in Nat
         /\ Mine(t).loop.inc \in Int \ {0} /\ Mine(t).loop.lower \in Int
         /\ Mine(t).loop.upper \in Int /\ Mine(t).loop.chunk \in Int
         /\ Mine(t).loop.min_chunk \in Nat \ {0} /\ Mine(t).loop.sched \in Kinds
<1>1. slot[t] \in Slots /\ Mine(t) \in Structures
  BY DEF TypeInv, DataTypes, Mine
<1>2. Mine(t).loop \in LoopRecords
  BY <1>1 DEF Structures
<1>. QED  BY <1>1, <1>2 DEF Structures, LoopRecords

(* Types of what the schedules compute. *)
LEMMA SizeType ==
  ASSUME NEW d, d.lower \in Int, d.upper \in Int, d.inc \in Int \ {0}
  PROVE  Size(d) \in Int /\ PerThread(d, TeamSize) \in Int
<1>1. Size(d) \in Int
  BY CDivType DEF Size
<1>2. CDiv(Size(d) - 1, TeamSize) \in Int
  BY <1>1, CDivType, Constants
<1>. QED  BY <1>1, <1>2 DEF PerThread

(* The pieces of the static schedules have integer bounds. *)
LEMMA ShareTypes ==
  ASSUME NEW d \in LoopRecords, NEW t \in Threads, NEW it \in Nat, NEW fair
  PROVE  /\ StaticNext(d, TeamSize, t, it).lower \in Int
         /\ StaticNext(d, TeamSize, t, it).upper \in Int
         /\ EvenNext(d, fair, TeamSize, t).lower \in Int
         /\ EvenNext(d, fair, TeamSize, t).upper \in Int
<1>1. d.lower \in Int /\ d.upper \in Int /\ d.inc \in Int \ {0} /\ d.chunk \in Int /\ t \in Int
  BY Constants DEF LoopRecords
<1>2. Size(d) \in Int /\ PerThread(d, TeamSize) \in Int
  BY <1>1, SizeType
<1>3. \A a, b \in Int : LOOPMIN(d.inc, a, b) \in Int
  BY <1>1, MinMaxType, Zenon
<1>4. StaticNext(d, TeamSize, t, it).lower \in Int /\ StaticNext(d, TeamSize, t, it).upper \in Int
  <2>. DEFINE first == d.lower + t * PerThread(d, TeamSize)
              last == LOOPMIN(d.inc, first + PerThread(d, TeamSize) - d.inc, d.upper)
              lo == first + it * d.chunk * d.inc
  <2>1. first \in Int
    BY <1>1, <1>2
  <2>2. last \in Int
    <3>. HIDE DEF first
    <3>1. first + PerThread(d, TeamSize) - d.inc \in Int
      BY <1>1, <1>2, <2>1
    <3>. QED  BY <1>1, <1>3, <3>1, Zenon
  <2>3. lo \in Int /\ lo + (d.chunk - 1) * d.inc \in Int
    <3>1. it * d.chunk \in Int
      BY <1>1
    <3>2. (it * d.chunk) * d.inc \in Int /\ (d.chunk - 1) * d.inc \in Int
      BY <1>1, <3>1
    <3>. QED  BY <2>1, <3>2
  <2>4. /\ StaticNext(d, TeamSize, t, it).lower = lo
        /\ StaticNext(d, TeamSize, t, it).upper = LOOPMIN(d.inc, lo + (d.chunk - 1) * d.inc, last)
    BY DEF StaticNext
  <2>. QED  BY <1>3, <2>2, <2>3, <2>4
<1>5. FairIndex(Size(d), TeamSize, t) \in Int /\ FairChunk(Size(d), TeamSize, t) \in Int
  <2>. DEFINE c == CDiv(Size(d), TeamSize)
              r == Size(d) - c * TeamSize
  <2>1. c \in Int
    BY <1>2, CDivType, Constants
  <2>2. r \in Int
    BY <1>2, <2>1, Constants
  <2>3. FairIndex(Size(d), TeamSize, t) =
          Min2(t, r) * (c + 1) + (IF t > r THEN (t - r) * c ELSE 0)
    BY DEF FairIndex
  <2>4. FairChunk(Size(d), TeamSize, t) = IF t < r THEN c + 1 ELSE c
    BY DEF FairChunk
  <2>. HIDE DEF c, r
  <2>5. Min2(t, r) \in Int
    BY <1>1, <2>2, MinMaxType
  <2>. QED  BY <1>1, <2>1, <2>2, <2>3, <2>4, <2>5
<1>6. EvenNext(d, fair, TeamSize, t).lower \in Int /\ EvenNext(d, fair, TeamSize, t).upper \in Int
  <2>. DEFINE f == IF fair THEN FairIndex(Size(d), TeamSize, t) * d.inc ELSE t * PerThread(d, TeamSize)
              g == IF fair THEN (FairChunk(Size(d), TeamSize, t) - 1) * d.inc
                           ELSE PerThread(d, TeamSize) - d.inc
  <2>1. f \in Int /\ g \in Int
    BY <1>1, <1>2, <1>5
  <2>2. /\ EvenNext(d, fair, TeamSize, t).lower = d.lower + f
        /\ EvenNext(d, fair, TeamSize, t).upper = LOOPMIN(d.inc, d.lower + f + g, d.upper)
    BY DEF EvenNext
  <2>. HIDE DEF f, g
  <2>3. d.lower + f \in Int /\ d.lower + f + g \in Int
    BY <1>1, <2>1
  <2>. QED  BY <1>1, <1>3, <2>2, <2>3, Zenon
<1>. QED  BY <1>4, <1>6

(* A guided piece has at least one iteration. *)
LEMMA GuidedTypes ==
  ASSUME NEW d \in LoopRecords, NEW c \in Int, NEW u \in Int
  PROVE  /\ GuidedChunk(d, c, u) \in Nat \ {0}
         /\ GuidedRest(d, u, TeamSize, Divisor, ChunkMax) \in Int
<1>1. d.upper \in Int /\ d.min_chunk \in Nat \ {0}
  BY DEF LoopRecords
<1>2. GuidedChunk(d, c, u) \in Nat \ {0}
  BY <1>1 DEF GuidedChunk, Max2, Min2
<1>3. TeamSize * Divisor \in Int \ {0}
  BY ProgramAssumption, Constants
<1>4. CDiv(d.upper - u + TeamSize * Divisor - 1, TeamSize * Divisor) \in Int
  BY <1>1, <1>3, CDivType
<1>. QED  BY <1>1, <1>2, <1>4, ProgramAssumption, SMTT(30) DEF GuidedRest, Max2, Min2

(***************************************************************************)
(* The steps of __pmp_schedule_next and of the program's loop leave the    *)
(* team's counters, and who holds which structure, as they are.            *)
(***************************************************************************)
Work(t) ==
  \/ NextStatic(t) \/ NextEven(t) \/ NextDynamic(t)
  \/ ReadChunk(t) \/ Estimate(t) \/ NextGuided(t) \/ Rechunk(t)
  \/ Body(t) \/ Ordered(t) \/ EndOrdered(t)

Quiet(t) ==
  /\ pc[t] \in Inner \ {"free"}
  /\ \E p \in Inner : pc' = [pc EXCEPT ![t] = p]
  /\ UNCHANGED <<team_loop_count, loop_count, at, slot>>
  /\ \A i \in Slots : /\ loops'[i].place = loops[i].place
                      /\ loops'[i].loop_id = loops[i].loop_id
                      /\ loops'[i].looping_threads = loops[i].looping_threads

(* A piece, or none. *)
LEMMA TakeTypes ==
  ASSUME TypeInv, DataTypes, NEW t \in Threads, NEW lo \in Int, NEW up \in Int, NEW last,
         NEW taken \in Inner, TakeOrFree(t, lo, up, last, taken)
  PROVE  /\ \E p \in Inner : pc' = [pc EXCEPT ![t] = p]
         /\ lower' \in [Threads -> Int] /\ upper' \in [Threads -> Int]
         /\ ticket' \in [Threads -> Int] /\ iteration' \in [Threads -> Nat]
<1>0. /\ lower \in [Threads -> Int] /\ upper \in [Threads -> Int]
      /\ ticket \in [Threads -> Int] /\ iteration \in [Threads -> Nat]
  BY DEF DataTypes
<1>1. CASE Take(t, lo, up) /\ Goto(t, taken)
  <2>1. iteration[t] + 1 \in Nat
    BY <1>0
  <2>2. /\ lower' \in [Threads -> Int] /\ upper' \in [Threads -> Int]
        /\ ticket' \in [Threads -> Int] /\ iteration' \in [Threads -> Nat]
    BY <1>0, <1>1, <2>1 DEF Take, Set
  <2>3. pc' = [pc EXCEPT ![t] = taken]
    BY <1>1 DEF Goto
  <2>. QED  BY <2>2, <2>3, Zenon
<1>2. CASE NoPiece(t) /\ iteration' = Set(iteration, t, 0) /\ Goto(t, "free")
  BY <1>0, <1>2 DEF NoPiece, Goto, Set, Inner
<1>. QED  BY <1>1, <1>2 DEF TakeOrFree

(* A structure of which one field changes. *)
LEMMA SetField ==
  ASSUME TypeInv, DataTypes, NEW t \in Threads, NEW v \in Int,
         \/ loops' = [loops EXCEPT ![slot[t]].current = v]
         \/ loops' = [loops EXCEPT ![slot[t]].now_serving = v]
         \/ loops' = [loops EXCEPT ![slot[t]].loop.chunk = v]
  PROVE  /\ loops' \in [Slots -> Structures]
         /\ \A i \in Slots : /\ loops'[i].place = loops[i].place
                             /\ loops'[i].loop_id = loops[i].loop_id
                             /\ loops'[i].looping_threads = loops[i].looping_threads
<1>1. slot[t] \in Slots /\ loops \in [Slots -> Structures]
  BY DEF TypeInv, DataTypes
<1>2. CASE loops' = [loops EXCEPT ![slot[t]].current = v]
  BY <1>1, <1>2 DEF Structures
<1>3. CASE loops' = [loops EXCEPT ![slot[t]].now_serving = v]
  BY <1>1, <1>3 DEF Structures
<1>4. CASE loops' = [loops EXCEPT ![slot[t]].loop.chunk = v]
  BY <1>1, <1>4, SMTT(30) DEF Structures, LoopRecords
<1>. QED  BY <1>2, <1>3, <1>4

(* Every step of __pmp_schedule_next and of the loop is quiet, and keeps   *)
(* the types.                                                              *)
LEMMA WorkStep ==
  ASSUME TypeInv, DataTypes, NEW t \in Threads, Work(t)
  PROVE  Quiet(t) /\ DataTypes'
<1>0. /\ loops \in [Slots -> Structures]
      /\ lower \in [Threads -> Int] /\ upper \in [Threads -> Int]
      /\ ticket \in [Threads -> Int] /\ iteration \in [Threads -> Nat]
      /\ chunk \in [Threads -> Int] /\ my_chunk \in [Threads -> Int]
  BY DEF DataTypes
<1>1. CASE NextStatic(t)
  <2>. DEFINE share == StaticNext(Mine(t).loop, TeamSize, t, iteration[t])
  <2>1. share.lower \in Int /\ share.upper \in Int
    BY <1>0, MineType, ShareTypes, Zenon
  <2>2. TakeOrFree(t, share.lower, share.upper, share.upper, "body")
    BY <1>1 DEF NextStatic
  <2>. HIDE DEF share
  <2>3. /\ pc[t] = "next"
        /\ UNCHANGED <<team_loop_count, loop_count, loops, at, slot, chunk, my_chunk>>
    BY <1>1 DEF NextStatic
  <2>4. "body" \in Inner
    BY DEF Inner
  <2>. QED  BY <1>0, <2>1, <2>2, <2>3, <2>4, TakeTypes DEF Quiet, DataTypes, Inner
<1>2. CASE NextEven(t)
  <2>. DEFINE share == EvenNext(Mine(t).loop, StaticFair, TeamSize, t)
  <2>1. share.lower \in Int /\ share.upper \in Int
    BY <1>0, MineType, ShareTypes
  <2>2. \/ TakeOrFree(t, share.lower, share.upper, share.upper, "body")
        \/ NoPiece(t) /\ iteration' = Set(iteration, t, 0) /\ Goto(t, "free")
    BY <1>2 DEF NextEven
  <2>. HIDE DEF share
  <2>3. /\ pc[t] = "next"
        /\ UNCHANGED <<team_loop_count, loop_count, loops, at, slot, chunk, my_chunk>>
    BY <1>2 DEF NextEven
  <2>4. "body" \in Inner
    BY DEF Inner
  <2>5. CASE TakeOrFree(t, share.lower, share.upper, share.upper, "body")
    BY <1>0, <2>1, <2>3, <2>4, <2>5, TakeTypes DEF Quiet, DataTypes, Inner
  <2>6. CASE NoPiece(t) /\ iteration' = Set(iteration, t, 0) /\ Goto(t, "free")
    BY <1>0, <2>3, <2>6 DEF Quiet, DataTypes, Inner, NoPiece, Set, Goto
  <2>. QED  BY <2>2, <2>5, <2>6
<1>3. ASSUME NEW m \in Int, NEW taken \in Inner, TakeCurrent(t, Mine(t).loop.inc * m, taken)
      PROVE  /\ \E p \in Inner : pc' = [pc EXCEPT ![t] = p]
             /\ lower' \in [Threads -> Int] /\ upper' \in [Threads -> Int]
             /\ ticket' \in [Threads -> Int] /\ iteration' \in [Threads -> Nat]
             /\ loops' \in [Slots -> Structures]
             /\ \A i \in Slots : /\ loops'[i].place = loops[i].place
                                 /\ loops'[i].loop_id = loops[i].loop_id
                                 /\ loops'[i].looping_threads = loops[i].looping_threads
  <2>. DEFINE stride == Mine(t).loop.inc * m
              v == Mine(t).current + stride
              inc == Mine(t).loop.inc
              last == Mine(t).loop.upper
              cur == Mine(t).current
  <2>1. inc \in Int /\ stride \in Int /\ last \in Int /\ cur \in Int
    BY MineType
  <2>2. loops' = [loops EXCEPT ![slot[t]].current = v]
    BY <1>3 DEF TakeCurrent, Mine
  <2>3. TakeOrFree(t, cur, LOOPMIN(inc, last, cur + stride - inc), last, taken)
    BY <1>3 DEF TakeCurrent, OldCurrent
  <2>. HIDE DEF stride, inc, last, cur
  <2>4. cur + stride - inc \in Int
    BY <2>1
  <2>5. LOOPMIN(inc, last, cur + stride - inc) \in Int
    BY <2>1, <2>4, MinMaxType
  <2>6. v \in Int
    BY <2>1 DEF cur
  <2>7. \E p \in Inner : pc' = [pc EXCEPT ![t] = p]
    BY <2>1, <2>3, <2>5, TakeTypes
  <2>8. /\ lower' \in [Threads -> Int] /\ upper' \in [Threads -> Int]
        /\ ticket' \in [Threads -> Int] /\ iteration' \in [Threads -> Nat]
    BY <2>1, <2>3, <2>5, TakeTypes
  <2>. QED  BY <2>2, <2>6, <2>7, <2>8, SetField, Zenon
<1>4. CASE NextDynamic(t)
  <2>1. /\ pc[t] = "next" /\ TakeCurrent(t, Mine(t).loop.inc * Mine(t).loop.chunk, "body")
        /\ UNCHANGED <<team_loop_count, loop_count, at, slot, chunk, my_chunk>>
    BY <1>4 DEF NextDynamic
  <2>2. "body" \in Inner /\ "next" \in Inner \ {"free"} /\ Mine(t).loop.chunk \in Int
    BY MineType DEF Inner
  <2>. QED  BY <1>0, <1>3, <2>1, <2>2 DEF Quiet, DataTypes
<1>5. CASE NextGuided(t)
  <2>1. /\ pc[t] = "add" /\ TakeCurrent(t, Mine(t).loop.inc * my_chunk[t], "rechunk")
        /\ my_chunk' = Set(my_chunk, t, 0)
        /\ chunk' = Set(chunk, t, IF pc'[t] = "free" THEN 0 ELSE chunk[t])
        /\ UNCHANGED <<team_loop_count, loop_count, at, slot>>
    BY <1>5, Zenon DEF NextGuided
  <2>2. "rechunk" \in Inner /\ "add" \in Inner \ {"free"} /\ my_chunk[t] \in Int
    BY <1>0 DEF Inner
  <2>3. chunk' \in [Threads -> Int] /\ my_chunk' \in [Threads -> Int]
    BY <1>0, <2>1 DEF Set
  <2>. QED  BY <1>0, <1>3, <2>1, <2>2, <2>3 DEF Quiet, DataTypes
<1>6. CASE ReadChunk(t)
  <2>1. Mine(t).loop.chunk \in Int
    BY MineType
  <2>. QED  BY <1>0, <1>6, <2>1, Zenon DEF ReadChunk, Quiet, DataTypes, Inner, Set, Goto, piece
<1>7. CASE Estimate(t)
  <2>1. GuidedChunk(Mine(t).loop, chunk[t], Mine(t).current) \in Int
    BY <1>0, MineType, GuidedTypes
  <2>. QED  BY <1>0, <1>7, <2>1 DEF Estimate, Quiet, DataTypes, Inner, Set, Goto, piece
<1>8. CASE Rechunk(t)
  <2>. DEFINE v == IF Mine(t).loop.chunk = chunk[t]
                     THEN GuidedRest(Mine(t).loop, upper[t], TeamSize, Divisor, ChunkMax)
                     ELSE Mine(t).loop.chunk
  <2>1. v \in Int
    BY <1>0, MineType, GuidedTypes, Zenon
  <2>2. loops' = [loops EXCEPT ![slot[t]].loop.chunk = v]
    BY <1>8 DEF Rechunk, Mine
  <2>3. /\ pc[t] = "rechunk" /\ chunk' = Set(chunk, t, 0) /\ Goto(t, "body")
        /\ UNCHANGED <<team_loop_count, loop_count, at, slot, piece, my_chunk>>
    BY <1>8 DEF Rechunk
  <2>. HIDE DEF v
  <2>4. chunk' \in [Threads -> Int] /\ pc' = [pc EXCEPT ![t] = "body"] /\ "body" \in Inner
    BY <1>0, <2>3 DEF Set, Goto, Inner
  <2>5. pc[t] \in Inner \ {"free"} /\ UNCHANGED <<lower, upper, ticket, iteration>>
    BY <2>3 DEF Inner, piece
  <2>. QED  BY <1>0, <2>1, <2>2, <2>3, <2>4, <2>5, SetField, Zenon DEF Quiet, DataTypes
<1>9. ASSUME NEW v \in Int, Advance(t, v)
      PROVE  /\ \E p \in Inner : pc' = [pc EXCEPT ![t] = p]
             /\ lower' \in [Threads -> Int] /\ upper' \in [Threads -> Int]
             /\ ticket' \in [Threads -> Int]
  <2>1. Mine(t).loop.inc \in Int /\ lower[t] + Mine(t).loop.inc \in Int
    BY <1>0, MineType
  <2>. QED  BY <1>0, <1>9, <2>1 DEF Advance, NoPiece, Set, Goto, Inner
<1>10. CASE Body(t)
  <2>1. /\ pc[t] = "body" /\ Advance(t, ticket[t]) /\ ticket[t] \in Int
        /\ UNCHANGED <<team_loop_count, loop_count, loops, at, slot, iteration, chunk, my_chunk>>
    BY <1>0, <1>10 DEF Body
  <2>. QED  BY <1>0, <1>9, <2>1 DEF Quiet, DataTypes, Inner
<1>11. CASE Ordered(t)
  BY <1>0, <1>11 DEF Ordered, Quiet, DataTypes, Inner, Goto, local, piece
<1>12. CASE EndOrdered(t)
  <2>. DEFINE v == Mine(t).now_serving + Mine(t).loop.inc
  <2>1. v \in Int /\ NextTicket(t) \in Int
    BY <1>0, MineType DEF NextTicket
  <2>2. /\ pc[t] = "ordered" /\ Advance(t, NextTicket(t))
        /\ loops' = [loops EXCEPT ![slot[t]].now_serving = v]
        /\ UNCHANGED <<team_loop_count, loop_count, at, slot, iteration, chunk, my_chunk>>
    BY <1>12 DEF EndOrdered, Mine
  <2>. HIDE DEF v
  <2>. QED  BY <1>0, <1>9, <2>1, <2>2, SetField, Zenon DEF Quiet, DataTypes, Inner
<1>. QED
  BY <1>1, <1>2, <1>4, <1>5, <1>6, <1>7, <1>8, <1>10, <1>11, <1>12 DEF Work
-----------------------------------------------------------------------------
(* Where a member is. *)
LEMMA Place ==
  ASSUME TypeInv, PlaceInv, NEW t \in Threads
  PROVE  /\ at[t] \in Nat /\ at[t] >= 1 /\ at[t] <= Len(Program) + 1
         /\ slot[t] \in Slots /\ team_loop_count \in Nat
         /\ pc[t] # "between" =>
              /\ at[t] \in Loops /\ at[t] <= team_loop_count
              /\ slot[t] = Index(at[t] - 1) /\ loop_count[t] = at[t]
         /\ pc[t] = "between" => loop_count[t] = at[t] - 1 /\ at[t] - 1 <= team_loop_count
<1>1. at[t] \in 1 .. Len(Program) + 1 /\ slot[t] \in Slots /\ team_loop_count \in 0 .. Len(Program)
  BY DEF TypeInv
<1>2. /\ loop_count[t] = IF pc[t] = "between" THEN at[t] - 1 ELSE at[t]
      /\ loop_count[t] <= team_loop_count
      /\ pc[t] # "between" => at[t] \in Loops /\ slot[t] = Index(at[t] - 1)
  BY DEF PlaceInv
<1>. QED  BY <1>1, <1>2, Constants

(* What a structure holds stays so while nobody leaves or claims its loop. *)
LEMMA KeepHolds ==
  ASSUME TypeInv, TypeInv', NEW i \in Slots, NEW q \in Nat, HoldsInv(i, q),
         /\ loops'[i].loop_id = loops[i].loop_id
         /\ loops'[i].looping_threads = loops[i].looping_threads,
         team_loop_count' >= team_loop_count,
         \A u \in Threads : Done(u, q)' <=> Done(u, q),
         \A u \in Threads : pc'[u] = "claim" => at'[u] # q,
         \A u \in Threads : (pc'[u] = "publish" /\ at'[u] = q) <=> (pc[u] = "publish" /\ at[u] = q),
         \E u \in Threads : at'[u] <= q,
         \A u \in Threads : at'[u] >= at[u]
  PROVE  HoldsInv(i, q)'
<1>1. Looping(q)' = Looping(q)
  BY DEF Looping
<1>2. q <= team_loop_count'
  <2>1. q <= team_loop_count /\ team_loop_count \in Nat /\ team_loop_count' \in Nat
    BY Constants DEF HoldsInv, TypeInv
  <2>. QED  BY <2>1
<1>3. \A p \in 1 .. q - 1 : Index(p - 1) = i => \A t \in Threads : at'[t] > p
  <2>1. SUFFICES ASSUME NEW p \in 1 .. q - 1, Index(p - 1) = i, NEW t \in Threads
                 PROVE  at'[t] > p
    OBVIOUS
  <2>2. at[t] > p
    BY <2>1, Zenon DEF HoldsInv
  <2>3. at[t] \in 1 .. Len(Program) + 1 /\ at'[t] \in 1 .. Len(Program) + 1
    BY DEF TypeInv
  <2>. QED  BY SMTT(30), <2>2, <2>3, Constants
<1>4. \/ loops'[i].loop_id = UNUSED /\ \E t \in Threads : pc'[t] = "publish" /\ at'[t] = q
      \/ loops'[i].loop_id = Id(q - 1) /\ \A t \in Threads : ~ (pc'[t] = "publish" /\ at'[t] = q)
  BY Zenon DEF HoldsInv
<1>5. q \in Loops /\ Index(q - 1) = i /\ loops[i].looping_threads = Cardinality(Looping(q))
  BY Zenon DEF HoldsInv
<1>6. loops'[i].looping_threads = Cardinality(Looping(q)')
  BY SMTT(30), <1>1, <1>5
<1>. QED  BY <1>2, <1>3, <1>4, <1>5, <1>6, Zenon DEF HoldsInv

(* Only steps between these places of the code matter here. *)
Stays(u) ==
  \A p \in {"between", "claim", "publish", "find", "unuse"} : pc'[u] = p <=> pc[u] = p

(* SlotInv holds on while the members stay where they are and the          *)
(* structures with them.                                                   *)
LEMMA KeepSlots ==
  ASSUME SlotInv, TypeInv', DataTypes',
         UNCHANGED <<team_loop_count, loop_count, at, slot>>,
         \A u \in Threads : Stays(u),
         \A i \in Slots : /\ loops'[i].place = loops[i].place
                          /\ loops'[i].loop_id = loops[i].loop_id
                          /\ loops'[i].looping_threads = loops[i].looping_threads
  PROVE  SlotInv'
<1>0. TypeInv /\ PlaceInv /\ ClaimInv /\ StructInv /\ LoopInv /\ MemberInv
  BY DEF SlotInv
<1>1. \A u \in Threads : /\ pc'[u] = "between" <=> pc[u] = "between"
                         /\ pc'[u] = "claim" <=> pc[u] = "claim"
                         /\ pc'[u] = "publish" <=> pc[u] = "publish"
                         /\ pc'[u] = "find" <=> pc[u] = "find"
                         /\ pc'[u] = "unuse" <=> pc[u] = "unuse"
  BY SMTT(30) DEF Stays
<1>2. PlaceInv'
  BY <1>0, <1>1 DEF PlaceInv
<1>3. ClaimInv'
  BY <1>0, <1>1 DEF ClaimInv
<1>4. StructInv'
  <2>1. SUFFICES ASSUME NEW i \in Slots, NEW q \in Nat, loops'[i].place = q
                 PROVE  /\ q = 0 => loops'[i].loop_id = UNUSED
                        /\ q # 0 => HoldsInv(i, q)'
    BY DEF StructInv
  <2>2. loops[i].place = q
    BY <2>1
  <2>3. CASE q = 0
    BY <1>0, <2>2, <2>3, Zenon DEF StructInv
  <2>4. CASE q # 0
    <3>1. HoldsInv(i, q)
      BY <1>0, <2>2, <2>4 DEF StructInv
    <3>2. \A u \in Threads : Done(u, q)' <=> Done(u, q)
      BY <1>1, Zenon DEF Done
    <3>3. \A u \in Threads : pc[u] = "claim" => at[u] # q
      BY <3>1, Zenon DEF HoldsInv
    <3>4. \E u \in Threads : at[u] <= q
      BY <3>1 DEF HoldsInv
    <3>5. \A u \in Threads : at'[u] >= at[u]
      BY <1>0, Place
    <3>6. team_loop_count' >= team_loop_count
      BY <1>0 DEF TypeInv
    <3>. QED  BY <1>0, <1>1, <2>4, <3>1, <3>2, <3>3, <3>4, <3>5, <3>6, KeepHolds, Zenon
  <2>. QED  BY <2>3, <2>4
<1>5. LoopInv'
  <2>1. \A p \in 1 .. team_loop_count : Index(p - 1) \in Slots
    BY <1>0, IndexRange DEF TypeInv
  <2>. QED  BY <1>0, <1>1, <2>1 DEF LoopInv
<1>6. MemberInv'
  <2>1. \A u \in Threads : slot[u] \in Slots
    BY <1>0 DEF TypeInv
  <2>. QED  BY <1>0, <1>1, <2>1 DEF MemberInv, InLoop, Mine
<1>. QED  BY SMTT(30), <1>2, <1>3, <1>4, <1>5, <1>6 DEF SlotInv

(* Quiet steps keep SlotInv. *)
LEMMA QuietStep ==
  ASSUME SlotInv, NEW t \in Threads, Quiet(t), DataTypes'
  PROVE  SlotInv'
<1>1. PICK p \in Inner : pc' = [pc EXCEPT ![t] = p]
  BY Zenon DEF Quiet
<1>2. pc \in [Threads -> Inner \cup {"between", "claim", "publish", "find", "unuse"}] /\ TypeInv
  BY DEF SlotInv, TypeInv
<1>3. TypeInv'
  BY <1>1, <1>2 DEF TypeInv, Quiet
<1>4. \A u \in Threads : Stays(u)
  BY <1>1, <1>2 DEF Stays, Quiet, Inner
<1>. QED  BY <1>3, <1>4, KeepSlots DEF Quiet

(* The increment of the member's loop_count, and of the team's by the      *)
(* first member.                                                           *)
LEMMA LoopAllocStep ==
  ASSUME SlotInv, NEW t \in Threads, LoopAlloc(t)
  PROVE  SlotInv'
<1>0. /\ TypeInv /\ DataTypes /\ PlaceInv /\ ClaimInv /\ StructInv /\ LoopInv /\ MemberInv
  BY DEF SlotInv
<1>1. /\ pc[t] = "between" /\ at[t] \in Loops /\ UNCHANGED <<loops, at>>
      /\ loop_count' = [loop_count EXCEPT ![t] = loop_count[t] + 1]
      /\ slot' = [slot EXCEPT ![t] = Index(loop_count[t])]
      /\ DataTypes'
  BY <1>0 DEF LoopAlloc, Set, DataTypes, local, piece
<1>2. \/ /\ team_loop_count = loop_count[t] /\ team_loop_count' = loop_count[t] + 1
         /\ pc' = [pc EXCEPT ![t] = "claim"]
      \/ /\ team_loop_count # loop_count[t] /\ team_loop_count' = team_loop_count
         /\ pc' = [pc EXCEPT ![t] = "find"]
  BY DEF LoopAlloc, Goto
<1>3. /\ \A u \in Threads : at[u] \in Nat /\ at[u] >= 1 /\ loop_count[u] <= team_loop_count
      /\ team_loop_count \in Nat /\ loop_count[t] = at[t] - 1 /\ at[t] <= Len(Program)
  BY <1>0, <1>1, Place, Constants DEF PlaceInv, Loops
<1>4. TypeInv'
  <2>1. team_loop_count' \in 0 .. Len(Program)
    BY <1>0, <1>2, <1>3, Constants, SMTT(30) DEF TypeInv
  <2>2. loop_count' \in [Threads -> Nat] /\ slot' \in [Threads -> Slots]
    <3>1. Index(loop_count[t]) \in Slots /\ loop_count[t] + 1 \in Nat
      BY <1>3, IndexRange
    <3>. QED  BY <1>0, <1>1, <3>1 DEF TypeInv
  <2>3. pc' \in [Threads -> Inner \cup {"between", "claim", "publish", "find", "unuse"}]
    BY <1>0, <1>2, Zenon DEF TypeInv
  <2>. QED  BY <1>0, <1>1, <2>1, <2>2, <2>3 DEF TypeInv
<1>5. \A u \in Threads \ {t} : pc'[u] = pc[u] /\ loop_count'[u] = loop_count[u] /\ slot'[u] = slot[u]
  BY <1>0, <1>1, <1>2 DEF TypeInv
<1>6. /\ pc'[t] = (IF team_loop_count = loop_count[t] THEN "claim" ELSE "find")
      /\ loop_count'[t] = at[t] /\ slot'[t] = Index(at[t] - 1)
  <2>1. loop_count \in [Threads -> Nat] /\ DOMAIN pc = Threads /\ DOMAIN slot = Threads
    BY <1>0 DEF TypeInv
  <2>. QED  BY <1>1, <1>2, <1>3, <2>1
<1>7. team_loop_count' >= team_loop_count /\ at[t] <= team_loop_count'
      /\ team_loop_count' \in Nat
  BY <1>2, <1>3
<1>8. PlaceInv'
  <2>1. SUFFICES ASSUME NEW u \in Threads
                 PROVE  /\ loop_count'[u] = IF pc'[u] = "between" THEN at[u] - 1 ELSE at[u]
                        /\ loop_count'[u] <= team_loop_count'
                        /\ pc'[u] # "between" => at[u] \in Loops /\ slot'[u] = Index(at[u] - 1)
    BY <1>1 DEF PlaceInv
  <2>2. CASE u = t
    BY <1>1, <1>6, <1>7, <2>2
  <2>3. CASE u # t
    <3>1. loop_count[u] \in Nat
      BY <1>0 DEF TypeInv
    <3>2. loop_count'[u] <= team_loop_count'
      BY <1>3, <1>5, <1>7, <2>3, <3>1
    <3>. QED  BY <1>0, <1>5, <2>3, <3>2, Zenon DEF PlaceInv
  <2>. QED  BY <2>2, <2>3
<1>9. ClaimInv'
  <2>1. SUFFICES ASSUME NEW u \in Threads, pc'[u] \in {"claim", "publish"},
                        NEW w \in Threads \ {u}
                 PROVE  at[w] < at[u] \/ (at[w] = at[u] /\ pc'[w] \in {"between", "find"})
    BY <1>1 DEF ClaimInv
  <2>2. CASE u = t
    <3>1. team_loop_count = at[t] - 1 /\ pc'[w] = pc[w] /\ w \in Threads
      BY <1>3, <1>5, <1>6, <2>1, <2>2
    <3>2. loop_count[w] = IF pc[w] = "between" THEN at[w] - 1 ELSE at[w]
      BY <1>0, <3>1 DEF PlaceInv
    <3>. QED  BY <1>3, <2>2, <3>1, <3>2
  <2>3. CASE u # t /\ w = t
    <3>1. pc[u] \in {"claim", "publish"} /\ pc[u] # "between"
      BY <1>5, <2>1, <2>3
    <3>2. at[t] < at[u] \/ at[t] = at[u]
      BY <1>0, <2>3, <3>1 DEF ClaimInv
    <3>3. at[u] <= team_loop_count
      BY <1>0, <3>1, Place
    <3>4. at[t] = at[u] => pc'[t] = "find"
      BY <1>3, <1>6, <3>3
    <3>. QED  BY <2>3, <3>2, <3>4
  <2>4. CASE u # t /\ w # t
    BY <1>0, <1>5, <2>1, <2>4 DEF ClaimInv
  <2>. QED  BY <2>2, <2>3, <2>4
<1>10. StructInv'
  <2>1. SUFFICES ASSUME NEW i \in Slots, NEW q \in Nat, loops[i].place = q
                 PROVE  /\ q = 0 => loops[i].loop_id = UNUSED
                        /\ q # 0 => HoldsInv(i, q)'
    BY <1>1 DEF StructInv
  <2>2. CASE q = 0
    BY <1>0, <2>1, <2>2 DEF StructInv
  <2>3. CASE q # 0
    <3>1. HoldsInv(i, q)
      BY <1>0, <2>1, <2>3 DEF StructInv
    <3>2. \A u \in Threads : Done(u, q)' <=> Done(u, q)
      BY <1>1, <1>5, <1>6, Zenon DEF Done
    <3>3. \A u \in Threads : pc'[u] = "claim" => at'[u] # q
      <4>1. q <= team_loop_count /\ \A u \in Threads : pc[u] = "claim" => at[u] # q
        BY <3>1 DEF HoldsInv
      <4>2. pc'[t] = "claim" => at[t] # q
        BY <1>3, <1>6, <4>1
      <4>. QED  BY <1>1, <1>5, <4>1, <4>2
    <3>4. \E u \in Threads : at'[u] <= q
      BY <1>1, <3>1 DEF HoldsInv
    <3>5. \A u \in Threads : at'[u] >= at[u]
      BY <1>1, <1>3
    <3>6. \A u \in Threads : (pc'[u] = "publish" /\ at'[u] = q) <=> (pc[u] = "publish" /\ at[u] = q)
      BY SMTT(30), <1>1, <1>5, <1>6
    <3>. QED  BY <1>0, <1>1, <1>4, <1>7, <2>3, <3>1, <3>2, <3>3, <3>4, <3>5, <3>6, KeepHolds, Zenon
  <2>. QED  BY <2>2, <2>3
<1>11. LoopInv'
  <2>1. SUFFICES ASSUME NEW p \in 1 .. team_loop_count'
                 PROVE  \/ \E u \in Threads : pc'[u] = "claim" /\ at[u] = p
                        \/ loops[Index(p - 1)].place = p
                        \/ \A u \in Threads : at[u] > p
    BY <1>1 DEF LoopInv
  <2>2. CASE p \in 1 .. team_loop_count
    <3>1. \A u \in Threads : pc[u] = "claim" => pc'[u] = "claim"
      BY <1>1, <1>5
    <3>. QED  BY <1>0, <2>2, <3>1 DEF LoopInv
  <2>3. CASE ~ (p \in 1 .. team_loop_count)
    <3>1. team_loop_count = loop_count[t] /\ p = at[t]
      BY <1>2, <1>3, <2>1, <2>3
    <3>. QED  BY <1>6, <3>1
  <2>. QED  BY <2>2, <2>3
<1>12. MemberInv'
  <2>1. ~ InLoop(t)' /\ pc'[t] # "unuse"
    BY <1>6 DEF InLoop
  <2>2. \A u \in Threads \ {t} : InLoop(u)' <=> InLoop(u)
    BY <1>5 DEF InLoop
  <2>3. \A u \in Threads \ {t} : Mine(u)' = Mine(u)
    BY <1>1, <1>5, Zenon DEF Mine
  <2>. QED  BY <1>0, <1>1, <1>5, <2>1, <2>2, <2>3, ZenonT(30) DEF MemberInv
<1>. QED  BY <1>1, <1>4, <1>8, <1>9, <1>10, <1>11, <1>12 DEF SlotInv

(* The structure is not in use when a member claims it. *)
LEMMA EmptySlot ==
  ASSUME SlotInv, NEW t \in Threads, pc[t] = "claim",
         NEW p \in Nat, NEW i \in Slots, at[t] = p, slot[t] = i, loops[i].loop_id = UNUSED
  PROVE  loops[i].place = 0
<1>0. /\ TypeInv /\ DataTypes /\ PlaceInv /\ ClaimInv /\ StructInv
  BY DEF SlotInv
<1>. DEFINE q == loops[i].place
<1>1. q \in Nat
  BY <1>0 DEF DataTypes, Structures
<1>2. SUFFICES ASSUME q # 0 PROVE FALSE
  OBVIOUS
<1>3. HoldsInv(i, q)
  BY SMTT(30), <1>0, <1>1, <1>2 DEF StructInv
<1>4. Id(q - 1) # UNUSED
  BY <1>1, IndexRange
<1>5. PICK u \in Threads : pc[u] = "publish" /\ at[u] = q
  BY <1>3, <1>4 DEF HoldsInv
<1>6. u # t
  BY <1>5
<1>7. at[u] < p
  BY <1>0, <1>5, <1>6 DEF ClaimInv
<1>8. at[t] < at[u] \/ at[t] = at[u]
  BY <1>0, <1>5, <1>6 DEF ClaimInv
<1>. QED  BY <1>1, <1>5, <1>7, <1>8

(* The first member takes the structure of its loop, which nobody uses. *)
LEMMA ClaimStep ==
  ASSUME SlotInv, NEW t \in Threads, Claim(t)
  PROVE  SlotInv'
<1>0. /\ TypeInv /\ DataTypes /\ PlaceInv /\ ClaimInv /\ StructInv /\ LoopInv /\ MemberInv
  BY DEF SlotInv
<1>a. PICK p \in Nat, i \in Slots : at[t] = p /\ slot[t] = i
  BY <1>0, Place
<1>. DEFINE held == [loop_id |-> loops[i].loop_id, looping_threads |-> TeamSize,
                     now_serving |-> Resolved(Program[p]).lower,
                     current |-> Resolved(Program[p]).lower,
                     place |-> p, loop |-> Resolved(Program[p])]
<1>1. /\ pc[t] = "claim" /\ loops[i].loop_id = UNUSED
      /\ loops' = [loops EXCEPT ![i] = held]
      /\ pc' = [pc EXCEPT ![t] = "publish"]
      /\ UNCHANGED <<team_loop_count, loop_count, at, slot>>
      /\ UNCHANGED <<lower, upper, iteration, ticket, chunk, my_chunk>>
  BY <1>a, Zenon DEF Claim, Claimable, Mine, Goto, local, piece
<1>2. /\ p \in Loops /\ p \in Nat /\ p >= 1 /\ p <= team_loop_count /\ team_loop_count \in Nat
      /\ i \in Slots /\ i = Index(p - 1)
  BY SMTT(30), <1>0, <1>1, <1>a, Place
<1>3. \A u \in Threads : at[u] \in Nat /\ at[u] >= 1
  BY <1>0, Place
<1>4. \A u \in Threads \ {t} : at[u] < p \/ (at[u] = p /\ pc[u] \in {"between", "find"})
  BY <1>0, <1>1, <1>a DEF ClaimInv
<1>5. \A u \in Threads \ {t} : pc'[u] = pc[u]
  BY <1>0, <1>1 DEF TypeInv
<1>6. pc'[t] = "publish"
  BY <1>0, <1>1 DEF TypeInv
<1>7. held.loop_id = UNUSED /\ held.place = p /\ held.looping_threads = TeamSize
  BY <1>1
<1>8. held \in Structures
  <2>1. Resolved(Program[p]) \in LoopRecords /\ Resolved(Program[p]).lower \in Int
    BY <1>2, ResolvedType, ProgramTypes
  <2>. QED  BY SMTT(30), <1>1, <1>2, <2>1, Constants DEF Structures, UNUSED
<1>9. loops'[i] = held /\ \A j \in Slots \ {i} : loops'[j] = loops[j]
  BY <1>0, <1>1, <1>2 DEF DataTypes
<1>10. TypeInv' /\ DataTypes'
  <2>1. loops' \in [Slots -> Structures]
    <3>. HIDE DEF held
    <3>. QED  BY <1>0, <1>1, <1>2, <1>8 DEF DataTypes
  <2>2. pc' \in [Threads -> Inner \cup {"between", "claim", "publish", "find", "unuse"}]
    BY <1>0, <1>1 DEF TypeInv
  <2>. QED  BY <1>0, <1>1, <2>1, <2>2, Zenon DEF TypeInv, DataTypes
<1>. HIDE DEF held
<1>11. loops[i].place = 0
  BY SMTT(30), <1>1, <1>a, EmptySlot
<1>12. PlaceInv'
  BY SMTT(30), <1>0, <1>1, <1>5, <1>6 DEF PlaceInv
<1>13. ClaimInv'
  <2>1. SUFFICES ASSUME NEW u \in Threads, pc'[u] \in {"claim", "publish"},
                        NEW w \in Threads \ {u}
                 PROVE  at[w] < at[u] \/ (at[w] = at[u] /\ pc'[w] \in {"between", "find"})
    BY <1>1 DEF ClaimInv
  <2>2. CASE u = t
    BY <1>4, <1>5, <2>2, <1>a, Zenon
  <2>3. CASE u # t
    <3>1. at[w] < at[u] \/ (at[w] = at[u] /\ pc[w] \in {"between", "find"})
      BY <1>0, <1>5, <2>1, <2>3 DEF ClaimInv
    <3>. QED  BY SMTT(30), <1>1, <1>5, <3>1
  <2>. QED  BY <2>2, <2>3
<1>14. \A u \in Threads, q \in Nat : Done(u, q)' <=> Done(u, q)
  BY <1>1, <1>5, <1>6 DEF Done
<1>15. HoldsInv(i, p)'
  <2>1. Looping(p)' = Threads
    <3>1. \A u \in Threads : ~ Done(u, p)
      <4>1. ~ Done(t, p)
        BY <1>1, <1>2, <1>a DEF Done
      <4>2. \A u \in Threads \ {t} : ~ Done(u, p)
        BY <1>2, <1>3, <1>4 DEF Done
      <4>. QED  BY <4>1, <4>2
    <3>. QED  BY <1>2, <1>14, <3>1 DEF Looping
  <2>2. loops'[i].looping_threads = Cardinality(Looping(p)')
    BY <1>7, <1>9, <2>1, Constants
  <2>3. \A u \in Threads : pc'[u] = "claim" => at[u] # p
    BY <1>2, <1>3, <1>4, <1>5, <1>6
  <2>4. \A r \in 1 .. p - 1 : Index(r - 1) = i => \A u \in Threads : at[u] > r
    <3>1. SUFFICES ASSUME NEW r \in 1 .. p - 1, Index(r - 1) = i
                   PROVE  \A u \in Threads : at[u] > r
      OBVIOUS
    <3>2. r \in 1 .. team_loop_count /\ r < p /\ r # 0
      BY <1>2
    <3>3. ~ \E u \in Threads : pc[u] = "claim" /\ at[u] = r
      <4>1. SUFFICES ASSUME NEW u \in Threads, pc[u] = "claim", at[u] = r PROVE FALSE
        OBVIOUS
      <4>2. u # t
        BY <3>2, <4>1, <1>2, <1>a
      <4>3. at[t] < at[u] \/ at[t] = at[u]
        BY <1>0, <4>1, <4>2 DEF ClaimInv
      <4>. QED  BY <1>2, <3>2, <4>1, <4>3, <1>a
    <3>4. ~ loops[Index(r - 1)].place = r
      BY <1>11, <3>1, <3>2
    <3>. QED  BY <1>0, <3>2, <3>3, <3>4 DEF LoopInv
  <2>5. loops'[i].loop_id = UNUSED /\ pc'[t] = "publish" /\ at[t] = p
    BY <1>6, <1>7, <1>9, <1>a
  <2>6. at[t] <= p
    BY <1>2, <1>a
  <2>7. at' = at /\ team_loop_count' = team_loop_count
    BY <1>1
  <2>8. p \in Loops /\ Index(p - 1) = i /\ p <= team_loop_count'
    BY <1>2, <2>7
  <2>. QED  BY <2>2, <2>3, <2>4, <2>5, <2>6, <2>7, <2>8, Zenon DEF HoldsInv
<1>16. StructInv'
  <2>1. SUFFICES ASSUME NEW j \in Slots, NEW q \in Nat, loops'[j].place = q
                 PROVE  /\ q = 0 => loops'[j].loop_id = UNUSED
                        /\ q # 0 => HoldsInv(j, q)'
    BY DEF StructInv
  <2>2. CASE j = i
    BY SMTT(30), <1>2, <1>7, <1>9, <1>15, <2>1, <2>2
  <2>3. CASE j # i /\ q = 0
    BY <1>0, <1>9, <2>1, <2>3 DEF StructInv
  <2>4. CASE j # i /\ q # 0
    <3>1. HoldsInv(j, q) /\ loops'[j] = loops[j]
      BY SMTT(30), <1>0, <1>9, <2>1, <2>4 DEF StructInv
    <3>2. q # p /\ \A u \in Threads : pc[u] = "claim" => at[u] # q
      BY <1>2, <2>4, <3>1 DEF HoldsInv
    <3>3. \A u \in Threads : pc'[u] = "claim" => at'[u] # q
      BY <1>1, <1>5, <1>6, <3>2
    <3>4. \E u \in Threads : at'[u] <= q
      BY <1>1, <3>1 DEF HoldsInv
    <3>5. \A u \in Threads : at'[u] >= at[u]
      BY SMTT(30), <1>1, <1>3
    <3>6. \A u \in Threads : (pc'[u] = "publish" /\ at'[u] = q) <=> (pc[u] = "publish" /\ at[u] = q)
      BY <1>1, <1>5, <1>6, <1>a, <3>2
    <3>7. team_loop_count' >= team_loop_count
      BY <1>1, <1>2
    <3>. QED  BY <1>0, <1>10, <1>14, <2>4, <3>1, <3>3, <3>4, <3>5, <3>6, <3>7, KeepHolds, ZenonT(30)
  <2>. QED  BY <2>2, <2>3, <2>4
<1>17. LoopInv'
  <2>1. SUFFICES ASSUME NEW r \in 1 .. team_loop_count
                 PROVE  \/ \E u \in Threads : pc'[u] = "claim" /\ at[u] = r
                        \/ loops'[Index(r - 1)].place = r
                        \/ \A u \in Threads : at[u] > r
    BY <1>1 DEF LoopInv
  <2>2. CASE \E u \in Threads : pc[u] = "claim" /\ at[u] = r
    BY SMTT(30), <1>2, <1>5, <1>7, <1>9, <1>a, <2>2
  <2>3. CASE loops[Index(r - 1)].place = r
    <3>1. Index(r - 1) # i /\ Index(r - 1) \in Slots
      BY <1>2, <1>11, <2>1, <2>3, IndexRange
    <3>. QED  BY <1>9, <2>3, <3>1
  <2>. QED  BY <1>0, <2>2, <2>3 DEF LoopInv
<1>18. MemberInv'
  <2>1. Mine(t)'.place = at[t] /\ pc'[t] # "unuse"
    BY SMTT(30), <1>1, <1>6, <1>7, <1>9, <1>a DEF Mine
  <2>2. ASSUME NEW u \in Threads \ {t}, InLoop(u)'
        PROVE  Mine(u)'.place = at[u]
    <3>1. InLoop(u) /\ slot[u] \in Slots
      BY SMTT(30), <1>0, <1>5, <2>2 DEF InLoop, TypeInv
    <3>2. loops[slot[u]].place = at[u] /\ at[u] # 0
      BY <1>0, <1>3, <3>1 DEF MemberInv, Mine
    <3>. QED  BY <1>1, <1>9, <1>11, <3>1, <3>2 DEF Mine
  <2>. QED  BY <1>0, <1>1, <1>5, <2>1, <2>2 DEF MemberInv
<1>. QED  BY <1>10, <1>12, <1>13, <1>16, <1>17, <1>18 DEF SlotInv

(* It stores the id of the loop. *)
LEMMA PublishStep ==
  ASSUME SlotInv, NEW t \in Threads, Publish(t)
  PROVE  SlotInv'
<1>0. /\ TypeInv /\ DataTypes /\ PlaceInv /\ ClaimInv /\ StructInv /\ LoopInv /\ MemberInv
  BY SMTT(30) DEF SlotInv
<1>a. PICK p \in Nat, i \in Slots : at[t] = p /\ slot[t] = i
  BY <1>0, Place
<1>1. /\ pc[t] = "publish"
      /\ loops' = [loops EXCEPT ![i].loop_id =
                     IF loops[i].loop_id = UNUSED THEN MyId(t) ELSE loops[i].loop_id]
      /\ pc' = [pc EXCEPT ![t] = "next"]
      /\ UNCHANGED <<team_loop_count, loop_count, at, slot>>
      /\ UNCHANGED <<lower, upper, iteration, ticket, chunk, my_chunk>>
  BY <1>a DEF Publish, Goto, local, piece
<1>2. /\ p \in Loops /\ p >= 1 /\ p <= team_loop_count /\ team_loop_count \in Nat
      /\ i = Index(p - 1) /\ loop_count[t] = p
  BY SMTT(30), <1>0, <1>1, <1>a, Place
<1>3. \A u \in Threads : at[u] \in Nat /\ at[u] >= 1
  BY <1>0, Place
<1>4. \A u \in Threads \ {t} : at[u] < p \/ (at[u] = p /\ pc[u] \in {"between", "find"})
  BY <1>0, <1>1, <1>a DEF ClaimInv
<1>5. \A u \in Threads \ {t} : pc'[u] = pc[u]
  BY <1>0, <1>1 DEF TypeInv
<1>6. pc'[t] = "next"
  BY <1>0, <1>1 DEF TypeInv
<1>7. loops[i].place = p
  BY <1>0, <1>1, <1>a DEF MemberInv, InLoop, Mine
<1>8. HoldsInv(i, p) /\ loops[i].loop_id = UNUSED
  <2>1. HoldsInv(i, p)
    BY <1>0, <1>2, <1>7 DEF StructInv
  <2>. QED  BY <1>1, <1>a, <2>1 DEF HoldsInv
<1>9. Id(p - 1) \in Int
  <2>1. (p - 1) % ID_RANGE \in Int
    BY Constants, DivMod
  <2>. QED  BY <2>1 DEF Id
<1>10. loops' = [loops EXCEPT ![i].loop_id = Id(p - 1)]
  BY <1>1, <1>2, <1>8 DEF MyId
<1>11. /\ loops'[i].loop_id = Id(p - 1) /\ loops'[i].place = loops[i].place
       /\ loops'[i].looping_threads = loops[i].looping_threads
       /\ \A j \in Slots \ {i} : loops'[j] = loops[j]
  BY <1>0, <1>10 DEF DataTypes, Structures
<1>12. TypeInv' /\ DataTypes'
  <2>1. loops' \in [Slots -> Structures]
    BY <1>0, <1>9, <1>10 DEF DataTypes, Structures
  <2>2. pc' \in [Threads -> Inner \cup {"between", "claim", "publish", "find", "unuse"}]
    BY <1>0, <1>1 DEF TypeInv, Inner
  <2>. QED  BY <1>0, <1>1, <2>1, <2>2, Zenon DEF TypeInv, DataTypes
<1>13. PlaceInv'
  BY <1>0, <1>1, <1>5, <1>6 DEF PlaceInv
<1>14. ClaimInv'
  <2>1. SUFFICES ASSUME NEW u \in Threads, pc'[u] \in {"claim", "publish"},
                        NEW w \in Threads \ {u}
                 PROVE  at[w] < at[u] \/ (at[w] = at[u] /\ pc'[w] \in {"between", "find"})
    BY <1>1 DEF ClaimInv
  <2>2. u # t /\ pc[u] \in {"claim", "publish"}
    BY <1>5, <1>6, <2>1, Zenon
  <2>3. at[w] < at[u] \/ (at[w] = at[u] /\ pc[w] \in {"between", "find"})
    BY <1>0, <2>1, <2>2 DEF ClaimInv
  <2>. QED  BY <1>1, <1>5, <2>3
<1>15. \A u \in Threads, q \in Nat : Done(u, q)' <=> Done(u, q)
  BY <1>1, <1>5, <1>6 DEF Done
<1>16. HoldsInv(i, p)'
  <2>1. Looping(p)' = Looping(p)
    BY <1>15 DEF Looping
  <2>2. loops[i].looping_threads = Cardinality(Looping(p))
    BY <1>8 DEF HoldsInv
  <2>3. loops'[i].looping_threads = Cardinality(Looping(p)')
    BY <1>11, <2>1, <2>2
  <2>4. \A u \in Threads : pc'[u] = "claim" => at[u] # p
    BY <1>2, <1>3, <1>4, <1>5, <1>6
  <2>5. \A u \in Threads : ~ (pc'[u] = "publish" /\ at[u] = p)
    BY <1>2, <1>3, <1>4, <1>5, <1>6
  <2>6. at' = at /\ team_loop_count' = team_loop_count
    BY <1>1
  <2>7. loops'[i].loop_id = Id(p - 1)
    BY <1>11
  <2>. QED  BY <1>8, <2>3, <2>4, <2>5, <2>6, <2>7, Zenon DEF HoldsInv
<1>17. StructInv'
  <2>1. SUFFICES ASSUME NEW j \in Slots, NEW q \in Nat, loops'[j].place = q
                 PROVE  /\ q = 0 => loops'[j].loop_id = UNUSED
                        /\ q # 0 => HoldsInv(j, q)'
    BY DEF StructInv
  <2>2. CASE j = i
    BY SMTT(30), <1>2, <1>7, <1>11, <1>16, <2>1, <2>2
  <2>3. CASE j # i /\ q = 0
    BY SMTT(30), <1>0, <1>11, <2>1, <2>3 DEF StructInv
  <2>4. CASE j # i /\ q # 0
    <3>1. HoldsInv(j, q) /\ loops'[j] = loops[j]
      BY SMTT(30), <1>0, <1>11, <2>1, <2>4 DEF StructInv
    <3>2. q # p /\ \A u \in Threads : pc[u] = "claim" => at[u] # q
      BY <1>2, <2>4, <3>1 DEF HoldsInv
    <3>3. \A u \in Threads : pc'[u] = "claim" => at'[u] # q
      BY <1>1, <1>5, <1>6, <3>2
    <3>4. \E u \in Threads : at'[u] <= q
      BY <1>1, <3>1 DEF HoldsInv
    <3>5. \A u \in Threads : at'[u] >= at[u]
      BY <1>1, <1>3
    <3>6. \A u \in Threads : (pc'[u] = "publish" /\ at'[u] = q) <=> (pc[u] = "publish" /\ at[u] = q)
      BY <1>1, <1>5, <1>6, <1>a, <3>2
    <3>7. team_loop_count' >= team_loop_count
      BY <1>1, <1>2
    <3>. QED  BY SMTT(30), <1>0, <1>12, <1>15, <2>4, <3>1, <3>3, <3>4, <3>5, <3>6, <3>7, KeepHolds
  <2>. QED  BY <2>2, <2>3, <2>4
<1>18. \A j \in Slots : loops'[j].place = loops[j].place
  BY <1>11
<1>19. LoopInv'
  <2>1. \A r \in 1 .. team_loop_count : Index(r - 1) \in Slots
    BY <1>2, IndexRange
  <2>2. \A u \in Threads : pc[u] = "claim" => pc'[u] = "claim"
    BY <1>1, <1>5
  <2>. QED  BY <1>0, <1>1, <1>18, <2>1, <2>2 DEF LoopInv
<1>20. MemberInv'
  <2>1. \A u \in Threads : slot[u] \in Slots
    BY <1>0 DEF TypeInv
  <2>2. \A u \in Threads : Mine(u)'.place = Mine(u).place
    BY <1>1, <1>18, <2>1 DEF Mine
  <2>3. \A u \in Threads : (InLoop(u)' => InLoop(u)) /\ (pc'[u] = "unuse" => pc[u] = "unuse")
    BY <1>1, <1>5, <1>6 DEF InLoop
  <2>. QED  BY <1>0, <1>1, <2>2, <2>3 DEF MemberInv
<1>. QED  BY <1>12, <1>13, <1>14, <1>17, <1>19, <1>20 DEF SlotInv

(* A later member finds the id of its loop in the structure. *)
LEMMA FindStep ==
  ASSUME SlotInv, NEW t \in Threads, Find(t)
  PROVE  SlotInv'
<1>0. /\ TypeInv /\ DataTypes /\ PlaceInv /\ ClaimInv /\ StructInv /\ LoopInv /\ MemberInv
  BY DEF SlotInv
<1>a. PICK p \in Nat, i \in Slots : at[t] = p /\ slot[t] = i
  BY <1>0, Place
<1>1. /\ pc[t] = "find" /\ loops[i].loop_id = MyId(t)
      /\ pc' = [pc EXCEPT ![t] = "next"]
      /\ UNCHANGED <<team_loop_count, loop_count, loops, at, slot>>
      /\ UNCHANGED <<lower, upper, iteration, ticket, chunk, my_chunk>>
  BY <1>a, Zenon DEF Find, Goto, local, piece, Mine
<1>2. p \in Loops /\ p >= 1 /\ i = Index(p - 1) /\ loop_count[t] = p
  BY <1>0, <1>1, <1>a, Place, Zenon
<1>3. loops[i].place = p
  BY <1>1, <1>a, RightLoop, Zenon DEF Mine
<1>4. loops[i].loop_id # UNUSED
  BY SMTT(30), <1>1, <1>2, IndexRange DEF MyId
<1>5. HoldsInv(i, p)
  BY <1>0, <1>2, <1>3, SMTT(30) DEF StructInv
<1>6. \A u \in Threads : ~ (pc[u] \in {"claim", "publish"} /\ at[u] = p)
  BY <1>4, <1>5 DEF HoldsInv
<1>7. \A u \in Threads \ {t} : pc'[u] = pc[u]
  BY <1>0, <1>1 DEF TypeInv
<1>8. pc'[t] = "next"
  BY <1>0, <1>1 DEF TypeInv
<1>9. \A u \in Threads : at[u] \in Nat
  BY <1>0, Place
<1>10. TypeInv' /\ DataTypes'
  <2>1. pc' \in [Threads -> Inner \cup {"between", "claim", "publish", "find", "unuse"}]
    BY <1>0, <1>1 DEF TypeInv, Inner
  <2>. QED  BY <1>0, <1>1, <2>1, Zenon DEF TypeInv, DataTypes
<1>11. PlaceInv'
  BY <1>0, <1>1, <1>7, <1>8, Zenon DEF PlaceInv
<1>12. ClaimInv'
  <2>1. SUFFICES ASSUME NEW u \in Threads, pc'[u] \in {"claim", "publish"},
                        NEW w \in Threads \ {u}
                 PROVE  at[w] < at[u] \/ (at[w] = at[u] /\ pc'[w] \in {"between", "find"})
    BY <1>1 DEF ClaimInv
  <2>2. u # t /\ pc[u] \in {"claim", "publish"}
    BY <1>7, <1>8, <2>1
  <2>3. at[w] < at[u] \/ (at[w] = at[u] /\ pc[w] \in {"between", "find"})
    BY <1>0, <2>1, <2>2 DEF ClaimInv
  <2>. QED  BY <1>6, <1>7, <1>a, <2>2, <2>3, Zenon
<1>13. StructInv'
  <2>1. SUFFICES ASSUME NEW j \in Slots, NEW q \in Nat, loops[j].place = q
                 PROVE  /\ q = 0 => loops[j].loop_id = UNUSED
                        /\ q # 0 => HoldsInv(j, q)'
    BY <1>1, Zenon DEF StructInv
  <2>2. CASE q = 0
    BY <1>0, <2>1, <2>2 DEF StructInv
  <2>3. CASE q # 0
    <3>1. HoldsInv(j, q)
      BY <1>0, <2>1, <2>3 DEF StructInv
    <3>2. \A u \in Threads : Done(u, q)' <=> Done(u, q)
      BY <1>1, <1>7, <1>8 DEF Done
    <3>3. \A u \in Threads : pc'[u] = "claim" => at'[u] # q
      BY SMTT(30), <1>1, <1>7, <1>8, <3>1 DEF HoldsInv
    <3>4. \E u \in Threads : at'[u] <= q
      BY <1>1, <3>1 DEF HoldsInv
    <3>5. \A u \in Threads : at'[u] >= at[u]
      BY <1>1, <1>9
    <3>6. \A u \in Threads : (pc'[u] = "publish" /\ at'[u] = q) <=> (pc[u] = "publish" /\ at[u] = q)
      BY <1>1, <1>7, <1>8
    <3>7. team_loop_count' >= team_loop_count /\ loops' = loops
      BY <1>0, <1>1 DEF TypeInv
    <3>. QED  BY <1>0, <1>10, <2>3, <3>1, <3>2, <3>3, <3>4, <3>5, <3>6, <3>7, KeepHolds, Zenon
  <2>. QED  BY <2>2, <2>3
<1>14. LoopInv'
  <2>1. \A u \in Threads : pc[u] = "claim" => pc'[u] = "claim"
    BY <1>1, <1>7
  <2>. QED  BY <1>0, <1>1, <2>1, Zenon DEF LoopInv
<1>15. MemberInv'
  <2>1. Mine(t).place = at[t] /\ \A u \in Threads : Mine(u)' = Mine(u)
    BY <1>1, <1>3, <1>a, Zenon DEF Mine
  <2>2. \A u \in Threads \ {t} : (InLoop(u)' => InLoop(u)) /\ (pc'[u] = "unuse" => pc[u] = "unuse")
    BY <1>7, Zenon DEF InLoop
  <2>. QED  BY <1>0, <1>1, <1>8, <2>1, <2>2 DEF MemberInv
<1>. QED  BY <1>10, <1>11, <1>12, <1>13, <1>14, <1>15 DEF SlotInv

(* What leaving a loop has in common for the member that frees the         *)
(* structure and for the others.                                           *)
LEMMA FreeFacts ==
  ASSUME SlotInv, NEW t \in Threads, pc[t] \in {"free", "unuse"},
         NEW p \in Nat, NEW i \in Slots, at[t] = p, slot[t] = i
  PROVE  /\ p \in Loops /\ p >= 1 /\ p <= team_loop_count /\ team_loop_count \in Nat
         /\ i = Index(p - 1) /\ loop_count[t] = p /\ loops[i].place = p
         /\ HoldsInv(i, p)
         /\ \A u \in Threads : pc[u] \in {"claim", "publish"} => p < at[u]
         /\ \A u \in Threads : at[u] \in Nat /\ at[u] >= 1
<1>0. /\ TypeInv /\ DataTypes /\ PlaceInv /\ ClaimInv /\ StructInv /\ LoopInv /\ MemberInv
  BY DEF SlotInv
<1>1. /\ p \in Loops /\ p >= 1 /\ p <= team_loop_count /\ team_loop_count \in Nat
      /\ i = Index(p - 1) /\ loop_count[t] = p
  BY <1>0, Place
<1>2. loops[i].place = p
  BY <1>0 DEF MemberInv, InLoop, Mine
<1>3. HoldsInv(i, p)
  BY <1>0, <1>1, <1>2 DEF StructInv
<1>4. \A u \in Threads : pc[u] \in {"claim", "publish"} => p < at[u]
  <2>1. SUFFICES ASSUME NEW u \in Threads, pc[u] \in {"claim", "publish"}
                 PROVE  at[t] < at[u]
    BY Zenon
  <2>2. t \in Threads \ {u}
    BY <2>1, Zenon
  <2>. QED  BY <1>0, <2>1, <2>2, Zenon DEF ClaimInv
<1>5. \A u \in Threads : at[u] \in Nat /\ at[u] >= 1
  BY <1>0, Place
<1>. QED  BY SMTT(30), <1>1, <1>2, <1>3, <1>4, <1>5

(* A member leaves its loop; the last one is to free the structure. *)
LEMMA LoopFreeStep ==
  ASSUME SlotInv, NEW t \in Threads, LoopFree(t)
  PROVE  SlotInv'
<1>0. /\ TypeInv /\ DataTypes /\ PlaceInv /\ ClaimInv /\ StructInv /\ LoopInv /\ MemberInv
  BY DEF SlotInv
<1>a. PICK p \in Nat, i \in Slots : at[t] = p /\ slot[t] = i
  BY <1>0, Place
<1>b. PICK n \in Int : loops[i].looping_threads = n
  BY <1>0 DEF DataTypes, Structures
<1>1. /\ pc[t] = "free"
      /\ loops' = [loops EXCEPT ![i].looping_threads = n - 1]
      /\ UNCHANGED <<team_loop_count, loop_count, slot>>
      /\ UNCHANGED <<lower, upper, iteration, ticket, chunk, my_chunk>>
  BY <1>a, <1>b DEF LoopFree, local, piece
<1>2. \/ n = 1 /\ pc' = [pc EXCEPT ![t] = "unuse"] /\ at' = at
      \/ n # 1 /\ pc' = [pc EXCEPT ![t] = "between"] /\ at' = [at EXCEPT ![t] = p + 1]
  BY <1>a, <1>b DEF LoopFree, Goto, LastMember, Mine, Set
<1>3. /\ p \in Loops /\ p >= 1 /\ p <= team_loop_count /\ team_loop_count \in Nat
      /\ i = Index(p - 1) /\ loop_count[t] = p /\ loops[i].place = p
      /\ HoldsInv(i, p)
      /\ \A u \in Threads : pc[u] \in {"claim", "publish"} => p < at[u]
      /\ \A u \in Threads : at[u] \in Nat /\ at[u] >= 1
  BY <1>1, <1>a, FreeFacts
<1>4. \A u \in Threads \ {t} : pc'[u] = pc[u] /\ at'[u] = at[u]
  BY <1>0, <1>2 DEF TypeInv
<1>5. IF n = 1 THEN pc'[t] = "unuse" /\ at'[t] = p ELSE pc'[t] = "between" /\ at'[t] = p + 1
  BY <1>0, <1>2, <1>a DEF TypeInv
<1>6. /\ loops'[i].looping_threads = n - 1 /\ loops'[i].place = p
      /\ loops'[i].loop_id = loops[i].loop_id
      /\ \A j \in Slots \ {i} : loops'[j] = loops[j]
  BY <1>0, <1>1, <1>3 DEF DataTypes, Structures
<1>7. TypeInv' /\ DataTypes'
  <2>1. loops' \in [Slots -> Structures]
    BY <1>0, <1>1 DEF DataTypes, Structures
  <2>2. pc' \in [Threads -> Inner \cup {"between", "claim", "publish", "find", "unuse"}]
    BY <1>0, <1>2 DEF TypeInv
  <2>3. p + 1 \in 1 .. Len(Program) + 1
    BY <1>3, Constants DEF Loops
  <2>4. at' \in [Threads -> 1 .. Len(Program) + 1]
    BY <1>0, <1>2, <2>3 DEF TypeInv
  <2>. QED  BY <1>0, <1>1, <2>1, <2>2, <2>4, Zenon DEF TypeInv, DataTypes
<1>8. \A u \in Threads : at'[u] \in Nat /\ at'[u] >= at[u]
  BY <1>3, <1>4, <1>5, <1>a
<1>9. Looping(p)' = Looping(p) \ {t} /\ t \in Looping(p)
  <2>1. Done(t, p)' /\ ~ Done(t, p)
    BY <1>1, <1>5, <1>a DEF Done
  <2>2. \A u \in Threads \ {t} : Done(u, p)' <=> Done(u, p)
    BY <1>4 DEF Done
  <2>. QED  BY <2>1, <2>2 DEF Looping
<1>10. \A q \in Nat \ {p} : \A u \in Threads : Done(u, q)' <=> Done(u, q)
  <2>1. \A q \in Nat \ {p} : Done(t, q)' <=> Done(t, q)
    BY <1>1, <1>5, <1>a DEF Done
  <2>2. \A q \in Nat \ {p} : \A u \in Threads \ {t} : Done(u, q)' <=> Done(u, q)
    BY SMTT(30), <1>4 DEF Done
  <2>. QED  BY <2>1, <2>2
<1>11. IsFiniteSet(Looping(p)) /\ Cardinality(Looping(p)) = n
  <2>1. Looping(p) \subseteq Threads
    BY DEF Looping
  <2>2. IsFiniteSet(Looping(p))
    BY <2>1, Constants, FS_Subset
  <2>. QED  BY <1>3, <1>b, <2>2 DEF HoldsInv
<1>12. Cardinality(Looping(p)') = n - 1
  BY <1>9, <1>11, FS_RemoveElement, ZenonT(30)
<1>13. n = 1 => \A u \in Threads \ {t} : at[u] > p
  <2>1. SUFFICES ASSUME n = 1, NEW u \in Threads \ {t} PROVE at[u] > p
    OBVIOUS
  <2>2. Looping(p)' = {}
    <3>1. IsFiniteSet(Looping(p)') /\ Cardinality(Looping(p)') = 0
      BY <1>9, <1>11, <1>12, <2>1, FS_RemoveElement
    <3>. QED  BY <3>1, FS_EmptySet
  <2>3. Done(u, p)
    BY <1>9, <2>2 DEF Looping
  <2>4. pc[u] = "unuse" => at[t] > at[u]
    BY SMTT(30), <1>0 DEF MemberInv
  <2>. QED  BY <1>3, <1>a, <2>3, <2>4 DEF Done
<1>14. n # 1 => \E u \in Threads \ {t} : at[u] <= p
  <2>1. SUFFICES ASSUME n # 1 PROVE \E u \in Threads \ {t} : at[u] <= p
    OBVIOUS
  <2>2. Looping(p) # {t}
    BY <1>11, <2>1, FS_Singleton
  <2>3. PICK u \in Looping(p) : u # t
    BY SMTT(30), <1>9, <2>2
  <2>. QED  BY <1>3, <2>3, SMTT(30) DEF Looping, Done
<1>15. PlaceInv'
  <2>1. SUFFICES ASSUME NEW u \in Threads
                 PROVE  /\ loop_count[u] = IF pc'[u] = "between" THEN at'[u] - 1 ELSE at'[u]
                        /\ loop_count[u] <= team_loop_count
                        /\ pc'[u] # "between" => at'[u] \in Loops /\ slot[u] = Index(at'[u] - 1)
    BY <1>1 DEF PlaceInv
  <2>2. CASE u = t
    BY <1>3, <1>5, <1>a, <2>2
  <2>3. CASE u # t
    BY <1>0, <1>4, <2>3, Zenon DEF PlaceInv
  <2>. QED  BY <2>2, <2>3
<1>16. ClaimInv'
  <2>1. SUFFICES ASSUME NEW u \in Threads, pc'[u] \in {"claim", "publish"},
                        NEW w \in Threads \ {u}
                 PROVE  at'[w] < at'[u] \/ (at'[w] = at'[u] /\ pc'[w] \in {"between", "find"})
    BY DEF ClaimInv
  <2>2. u # t /\ pc[u] \in {"claim", "publish"} /\ at'[u] = at[u]
    BY SMTT(30), <1>4, <1>5, <2>1
  <2>3. at[w] < at[u] \/ (at[w] = at[u] /\ pc[w] \in {"between", "find"})
    BY <1>0, <2>1, <2>2 DEF ClaimInv
  <2>4. CASE w = t
    <3>1. p < at[u] /\ at[u] \in Nat
      BY SMTT(30), <1>3, <2>2
    <3>. QED  BY <1>5, <2>2, <2>4, <3>1
  <2>5. CASE w # t
    BY <1>4, <2>2, <2>3, <2>5
  <2>. QED  BY <2>4, <2>5, Zenon
<1>17. HoldsInv(i, p)'
  <2>1. loops'[i].looping_threads = Cardinality(Looping(p)')
    BY SMTT(30), <1>6, <1>12
  <2>2. \A u \in Threads : pc'[u] = "claim" => at'[u] # p
    BY <1>3, <1>4, <1>5
  <2>3. \A u \in Threads : (pc'[u] = "publish" /\ at'[u] = p) <=> (pc[u] = "publish" /\ at[u] = p)
    BY <1>1, <1>4, <1>5
  <2>4. \/ loops'[i].loop_id = UNUSED /\ \E u \in Threads : pc'[u] = "publish" /\ at'[u] = p
        \/ loops'[i].loop_id = Id(p - 1) /\ \A u \in Threads : ~ (pc'[u] = "publish" /\ at'[u] = p)
    BY <1>3, <1>6, <2>3, Zenon DEF HoldsInv
  <2>5. \E u \in Threads : at'[u] <= p
    BY SMTT(30), <1>4, <1>5, <1>14
  <2>6. \A r \in 1 .. p - 1 : Index(r - 1) = i => \A u \in Threads : at'[u] > r
    <3>1. SUFFICES ASSUME NEW r \in 1 .. p - 1, Index(r - 1) = i, NEW u \in Threads
                   PROVE  at'[u] > r
      OBVIOUS
    <3>2. at[u] > r
      BY <1>3, <3>1, Zenon DEF HoldsInv
    <3>. QED  BY <1>3, <1>8, <3>2
  <2>7. p \in Loops /\ Index(p - 1) = i /\ p <= team_loop_count'
    BY <1>1, <1>3
  <2>. QED  BY <2>1, <2>2, <2>4, <2>5, <2>6, <2>7, Zenon DEF HoldsInv
<1>18. StructInv'
  <2>1. SUFFICES ASSUME NEW j \in Slots, NEW q \in Nat, loops'[j].place = q
                 PROVE  /\ q = 0 => loops'[j].loop_id = UNUSED
                        /\ q # 0 => HoldsInv(j, q)'
    BY DEF StructInv
  <2>2. CASE j = i
    BY <1>3, <1>6, <1>17, <2>1, <2>2
  <2>3. CASE j # i /\ q = 0
    BY <1>0, <1>6, <2>1, <2>3, Zenon DEF StructInv
  <2>4. CASE j # i /\ q # 0
    <3>1. HoldsInv(j, q) /\ loops'[j] = loops[j]
      BY <1>0, <1>6, <2>1, <2>4, Zenon DEF StructInv
    <3>2. q # p /\ \A u \in Threads : pc[u] = "claim" => at[u] # q
      BY <1>3, <2>4, <3>1, Zenon DEF HoldsInv
    <3>3. \A u \in Threads : pc'[u] = "claim" => at'[u] # q
      BY SMTT(30), <1>4, <1>5, <3>2
    <3>4. \E u \in Threads : at'[u] <= q
      <4>1. PICK u \in Threads : at[u] <= q
        BY <3>1, Zenon DEF HoldsInv
      <4>. QED  BY <1>3, <1>4, <1>5, <1>a, <3>2, <4>1
    <3>6. \A u \in Threads : (pc'[u] = "publish" /\ at'[u] = q) <=> (pc[u] = "publish" /\ at[u] = q)
      BY <1>1, <1>4, <1>5
    <3>7. team_loop_count' >= team_loop_count
      BY <1>1, <1>3
    <3>8. \A u \in Threads : Done(u, q)' <=> Done(u, q)
      BY <1>10, <3>2, ZenonT(30)
    <3>. QED  BY <1>0, <1>7, <1>8, <2>4, <3>1, <3>3, <3>4, <3>6, <3>7, <3>8, KeepHolds, Zenon
  <2>. QED  BY <2>2, <2>3, <2>4
<1>19. \A j \in Slots : loops'[j].place = loops[j].place
  BY <1>3, <1>6
<1>20. LoopInv'
  <2>1. SUFFICES ASSUME NEW r \in 1 .. team_loop_count
                 PROVE  \/ \E u \in Threads : pc'[u] = "claim" /\ at'[u] = r
                        \/ loops'[Index(r - 1)].place = r
                        \/ \A u \in Threads : at'[u] > r
    BY <1>1 DEF LoopInv
  <2>2. CASE \E u \in Threads : pc[u] = "claim" /\ at[u] = r
    BY SMTT(30), <1>1, <1>4, <2>2
  <2>3. CASE loops[Index(r - 1)].place = r
    BY <1>19, <2>1, <2>3, IndexRange, SMTT(30)
  <2>4. CASE \A u \in Threads : at[u] > r
    <3>1. \A u \in Threads : at'[u] > r
      BY <1>3, <1>8, <2>4
    <3>. QED  BY <3>1
  <2>. QED  BY <1>0, <2>2, <2>3, <2>4, Zenon DEF LoopInv
<1>21. MemberInv'
  <2>1. \A u \in Threads : slot[u] \in Slots
    BY <1>0 DEF TypeInv
  <2>2. \A u \in Threads : Mine(u)'.place = Mine(u).place
    BY <1>1, <1>19, <2>1 DEF Mine
  <2>3. \A u \in Threads \ {t} : InLoop(u)' => InLoop(u)
    BY <1>4 DEF InLoop
  <2>4. InLoop(t)' => Mine(t)'.place = at'[t]
    BY <1>3, <1>5, <1>a, <2>2, Zenon DEF InLoop, Mine
  <2>5. pc'[t] = "unuse" => \A w \in Threads \ {t} : at'[w] > at'[t]
    BY SMTT(30), <1>4, <1>5, <1>13
  <2>6. \A u \in Threads \ {t} : pc'[u] = "unuse" => \A w \in Threads \ {u} : at'[w] > at'[u]
    <3>1. SUFFICES ASSUME NEW u \in Threads \ {t}, pc'[u] = "unuse", NEW w \in Threads \ {u}
                   PROVE  at'[w] > at'[u]
      OBVIOUS
    <3>2. at[w] > at[u]
      BY <1>0, <1>4, <3>1, Zenon DEF MemberInv
    <3>. QED  BY <1>3, <1>4, <1>8, <3>2, SMTT(30)
  <2>. QED  BY <1>0, <1>4, <2>2, <2>3, <2>4, <2>5, <2>6, Zenon DEF MemberInv
<1>. QED  BY <1>7, <1>15, <1>16, <1>18, <1>20, <1>21 DEF SlotInv

(* The last member frees the structure. *)
LEMMA UnuseStep ==
  ASSUME SlotInv, NEW t \in Threads, Unuse(t)
  PROVE  SlotInv'
<1>0. /\ TypeInv /\ DataTypes /\ PlaceInv /\ ClaimInv /\ StructInv /\ LoopInv /\ MemberInv
  BY DEF SlotInv
<1>a. PICK p \in Nat, i \in Slots : at[t] = p /\ slot[t] = i
  BY <1>0, Place
<1>1. /\ pc[t] = "unuse" /\ loops' = [loops EXCEPT ![i] = Free]
      /\ pc' = [pc EXCEPT ![t] = "between"] /\ at' = [at EXCEPT ![t] = p + 1]
      /\ UNCHANGED <<team_loop_count, loop_count, slot>>
      /\ UNCHANGED <<lower, upper, iteration, ticket, chunk, my_chunk>>
  BY <1>a DEF Unuse, Goto, Set, local, piece
<1>2. /\ p \in Loops /\ p >= 1 /\ p <= team_loop_count /\ team_loop_count \in Nat
      /\ i = Index(p - 1) /\ loop_count[t] = p /\ loops[i].place = p
      /\ HoldsInv(i, p)
      /\ \A u \in Threads : pc[u] \in {"claim", "publish"} => p < at[u]
      /\ \A u \in Threads : at[u] \in Nat /\ at[u] >= 1
  BY <1>1, <1>a, FreeFacts, Zenon
<1>3. \A u \in Threads \ {t} : at[u] > p
  BY <1>0, <1>1, <1>a DEF MemberInv
<1>4. \A u \in Threads \ {t} : pc'[u] = pc[u] /\ at'[u] = at[u]
  BY <1>0, <1>1 DEF TypeInv
<1>5. pc'[t] = "between" /\ at'[t] = p + 1
  BY <1>0, <1>1 DEF TypeInv
<1>6. Free \in Structures /\ Free.place = 0 /\ Free.loop_id = UNUSED
  BY FreeType DEF Free
<1>7. loops'[i] = Free /\ \A j \in Slots \ {i} : loops'[j] = loops[j]
  BY <1>0, <1>1 DEF DataTypes
<1>8. TypeInv' /\ DataTypes'
  <2>1. loops' \in [Slots -> Structures]
    BY <1>0, <1>1, <1>6 DEF DataTypes
  <2>2. pc' \in [Threads -> Inner \cup {"between", "claim", "publish", "find", "unuse"}]
    BY <1>0, <1>1 DEF TypeInv
  <2>3. p + 1 \in 1 .. Len(Program) + 1
    BY <1>2, Constants DEF Loops
  <2>4. at' \in [Threads -> 1 .. Len(Program) + 1]
    BY <1>0, <1>1, <2>3 DEF TypeInv
  <2>. QED  BY <1>0, <1>1, <2>1, <2>2, <2>4, Zenon DEF TypeInv, DataTypes
<1>9. \A u \in Threads : at'[u] \in Nat /\ at'[u] >= at[u] /\ at'[u] > p
  BY <1>2, <1>3, <1>4, <1>5, <1>a
<1>10. \A q \in Nat \ {p} : \A u \in Threads : Done(u, q)' <=> Done(u, q)
  <2>1. \A q \in Nat \ {p} : Done(t, q)' <=> Done(t, q)
    BY <1>1, <1>5, <1>a DEF Done
  <2>2. \A q \in Nat \ {p} : \A u \in Threads \ {t} : Done(u, q)' <=> Done(u, q)
    BY SMTT(30), <1>4 DEF Done
  <2>. QED  BY <2>1, <2>2
<1>11. PlaceInv'
  <2>1. SUFFICES ASSUME NEW u \in Threads
                 PROVE  /\ loop_count[u] = IF pc'[u] = "between" THEN at'[u] - 1 ELSE at'[u]
                        /\ loop_count[u] <= team_loop_count
                        /\ pc'[u] # "between" => at'[u] \in Loops /\ slot[u] = Index(at'[u] - 1)
    BY <1>1, Zenon DEF PlaceInv
  <2>2. CASE u = t
    BY <1>2, <1>5, <1>a, <2>2
  <2>3. CASE u # t
    BY <1>0, <1>4, <2>3, Zenon DEF PlaceInv
  <2>. QED  BY <2>2, <2>3
<1>12. ClaimInv'
  <2>1. SUFFICES ASSUME NEW u \in Threads, pc'[u] \in {"claim", "publish"},
                        NEW w \in Threads \ {u}
                 PROVE  at'[w] < at'[u] \/ (at'[w] = at'[u] /\ pc'[w] \in {"between", "find"})
    BY SMTT(30) DEF ClaimInv
  <2>2. u # t /\ pc[u] \in {"claim", "publish"} /\ at'[u] = at[u]
    BY <1>4, <1>5, <2>1
  <2>3. at[w] < at[u] \/ (at[w] = at[u] /\ pc[w] \in {"between", "find"})
    BY <1>0, <2>1, <2>2, Zenon DEF ClaimInv
  <2>4. CASE w = t
    <3>1. p < at[u] /\ at[u] \in Nat
      BY <1>2, <2>2
    <3>. QED  BY SMTT(30), <1>5, <2>2, <2>4, <3>1
  <2>5. CASE w # t
    BY <1>4, <2>2, <2>3, <2>5
  <2>. QED  BY <2>4, <2>5, Zenon
<1>13. StructInv'
  <2>1. SUFFICES ASSUME NEW j \in Slots, NEW q \in Nat, loops'[j].place = q
                 PROVE  /\ q = 0 => loops'[j].loop_id = UNUSED
                        /\ q # 0 => HoldsInv(j, q)'
    BY DEF StructInv
  <2>2. CASE j = i
    BY <1>6, <1>7, <2>1, <2>2
  <2>3. CASE j # i /\ q = 0
    BY <1>0, <1>7, <2>1, <2>3, Zenon DEF StructInv
  <2>4. CASE j # i /\ q # 0
    <3>1. HoldsInv(j, q) /\ loops'[j] = loops[j]
      BY <1>0, <1>7, <2>1, <2>4, Zenon DEF StructInv
    <3>2. q # p /\ \A u \in Threads : pc[u] = "claim" => at[u] # q
      BY <1>2, <2>4, <3>1, Zenon DEF HoldsInv
    <3>3. \A u \in Threads : pc'[u] = "claim" => at'[u] # q
      BY SMTT(30), <1>4, <1>5, <3>2
    <3>4. \E u \in Threads : at'[u] <= q
      <4>1. PICK u \in Threads : at[u] <= q
        BY <3>1, Zenon DEF HoldsInv
      <4>. QED  BY <1>2, <1>4, <1>5, <1>a, <3>2, <4>1
    <3>6. \A u \in Threads : (pc'[u] = "publish" /\ at'[u] = q) <=> (pc[u] = "publish" /\ at[u] = q)
      BY <1>1, <1>4, <1>5
    <3>7. team_loop_count' >= team_loop_count
      BY <1>1, <1>2
    <3>8. \A u \in Threads : Done(u, q)' <=> Done(u, q)
      BY SMTT(30), <1>10, <3>2
    <3>. QED  BY <1>0, <1>8, <1>9, <2>4, <3>1, <3>3, <3>4, <3>6, <3>7, <3>8, KeepHolds, Zenon
  <2>. QED  BY SMTT(30), <2>2, <2>3, <2>4
<1>14. LoopInv'
  <2>1. SUFFICES ASSUME NEW r \in 1 .. team_loop_count
                 PROVE  \/ \E u \in Threads : pc'[u] = "claim" /\ at'[u] = r
                        \/ loops'[Index(r - 1)].place = r
                        \/ \A u \in Threads : at'[u] > r
    BY <1>1 DEF LoopInv
  <2>2. CASE \E u \in Threads : pc[u] = "claim" /\ at[u] = r
    BY SMTT(30), <1>1, <1>4, <2>2
  <2>3. CASE loops[Index(r - 1)].place = r /\ Index(r - 1) # i
    BY SMTT(30), <1>7, <2>1, <2>3, IndexRange
  <2>4. CASE loops[Index(r - 1)].place = r /\ Index(r - 1) = i
    BY <1>2, <1>9, <2>4
  <2>5. CASE \A u \in Threads : at[u] > r
    <3>1. \A u \in Threads : at'[u] > r
      BY SMTT(30), <1>2, <1>9, <2>5
    <3>. QED  BY SMTT(30), <3>1
  <2>. QED  BY SMTT(30), <1>0, <2>2, <2>3, <2>4, <2>5 DEF LoopInv
<1>15. MemberInv'
  <2>1. ~ InLoop(t)' /\ pc'[t] # "unuse"
    BY <1>5 DEF InLoop
  <2>2. \A u \in Threads \ {t} : InLoop(u)' => InLoop(u)
    BY SMTT(30), <1>4 DEF InLoop
  <2>3. ASSUME NEW u \in Threads \ {t}, InLoop(u)
        PROVE  Mine(u)' = Mine(u)
    <3>1. slot[u] \in Slots /\ loops[slot[u]].place = at[u] /\ at[u] > p
      BY SMTT(30), <1>0, <1>3, <2>3 DEF MemberInv, Mine, TypeInv
    <3>2. slot[u] # i
      BY <1>2, <3>1, SMTT(30)
    <3>. QED  BY SMTT(30), <1>1, <1>7, <3>1, <3>2 DEF Mine
  <2>4. \A u \in Threads \ {t} : pc'[u] = "unuse" => \A w \in Threads \ {u} : at'[w] > at'[u]
    <3>1. SUFFICES ASSUME NEW u \in Threads \ {t}, pc'[u] = "unuse", NEW w \in Threads \ {u}
                   PROVE  at'[w] > at'[u]
      BY ZenonT(30)
    <3>2. at[w] > at[u]
      BY <1>0, <1>4, <3>1 DEF MemberInv
    <3>. QED  BY <1>2, <1>4, <1>9, <3>2, SMTT(30)
  <2>. QED  BY <1>0, <1>4, <2>1, <2>2, <2>3, <2>4 DEF MemberInv
<1>. QED  BY <1>8, <1>11, <1>12, <1>13, <1>14, <1>15 DEF SlotInv

(* A team starts before its first loop, with all structures free. *)
LEMMA SlotInit ==
  ASSUME Init
  PROVE  SlotInv
<1>1. Free \in Structures /\ Free.place = 0 /\ Free.loop_id = UNUSED
  BY FreeType DEF Free
<1>2. 0 \in Slots
  BY Constants DEF Slots
<1>3. TypeInv
  BY <1>2, Constants DEF Init, TypeInv
<1>4. DataTypes
  BY <1>1 DEF Init, DataTypes, Slots
<1>5. PlaceInv
  BY DEF Init, PlaceInv
<1>6. ClaimInv
  BY DEF Init, ClaimInv
<1>7. StructInv
  BY <1>1 DEF Init, StructInv, Slots
<1>8. LoopInv
  BY DEF Init, LoopInv
<1>9. MemberInv
  BY DEF Init, MemberInv, InLoop
<1>. QED  BY SMTT(30), <1>3, <1>4, <1>5, <1>6, <1>7, <1>8, <1>9 DEF SlotInv

(* A region that is forked before the first loop changes nothing here:     *)
(* loop_count is 0.                                                        *)
LEMMA NestedStep ==
  ASSUME SlotInv, NoRegionBetween, NEW t \in Threads, NestedRegion(t)
  PROVE  UNCHANGED vars
<1>1. /\ pc[t] = "between" /\ at[t] = 1 /\ loop_count' = [loop_count EXCEPT ![t] = 0]
      /\ UNCHANGED <<team_loop_count, loops, pc, at, slot, local, history>>
  BY Zenon DEF NestedRegion, NoRegionBetween, Set
<1>2. loop_count \in [Threads -> Nat] /\ loop_count[t] = 0
  <2>1. TypeInv /\ PlaceInv
    BY DEF SlotInv
  <2>. QED  BY <1>1, <2>1, Place DEF TypeInv
<1>3. loop_count' = loop_count
  BY <1>1, <1>2
<1>. QED  BY <1>1, <1>3, Zenon DEF vars

(* A step that changes no variable keeps SlotInv. *)
LEMMA SlotStutter ==
  ASSUME SlotInv, UNCHANGED vars
  PROVE  SlotInv'
<1>1. /\ UNCHANGED <<team_loop_count, loop_count, loops, pc, at, slot>>
      /\ UNCHANGED <<lower, upper, iteration, ticket, chunk, my_chunk>>
  BY DEF vars, local, piece
<1>2. TypeInv' /\ DataTypes' /\ \A u \in Threads : Stays(u)
  BY <1>1, Zenon DEF SlotInv, TypeInv, DataTypes, Stays
<1>. QED  BY <1>1, <1>2, KeepSlots

(* SlotInv is inductive. *)
LEMMA SlotStep ==
  ASSUME SlotInv, NoRegionBetween, [Next]_vars
  PROVE  SlotInv'
<1>1. CASE UNCHANGED vars
  BY <1>1, SlotStutter
<1>2. ASSUME NEW t \in Threads, Step(t) PROVE SlotInv'
  <2>1. CASE Work(t)
    <3>1. Quiet(t) /\ DataTypes'
      BY <2>1, WorkStep DEF SlotInv
    <3>. QED  BY <3>1, QuietStep
  <2>2. CASE LoopAlloc(t)
    BY <2>2, LoopAllocStep
  <2>3. CASE Claim(t)
    BY <2>3, ClaimStep
  <2>4. CASE Publish(t)
    BY <2>4, PublishStep
  <2>5. CASE Find(t)
    BY <2>5, FindStep
  <2>6. CASE LoopFree(t)
    BY <2>6, LoopFreeStep
  <2>7. CASE Unuse(t)
    BY <2>7, UnuseStep
  <2>. QED  BY <1>2, <2>1, <2>2, <2>3, <2>4, <2>5, <2>6, <2>7 DEF Step, Work
<1>3. ASSUME NEW t \in Threads, NestedRegion(t) PROVE SlotInv'
  BY <1>3, NestedStep, SlotStutter
<1>. QED  BY <1>1, <1>2, <1>3 DEF Next

(* What the invariant says of a member. *)
LEMMA SlotsAreMine ==
  ASSUME SlotInv
  PROVE  StructureIsMine
<1>0. /\ TypeInv /\ PlaceInv /\ ClaimInv /\ StructInv /\ MemberInv
  BY DEF SlotInv
<1>1. SUFFICES ASSUME NEW t \in Threads
               PROVE  /\ InLoop(t) => Mine(t).place = at[t]
                      /\ InLoop(t) /\ pc[t] # "publish" => Mine(t).loop_id = MyId(t)
                      /\ pc[t] = "publish" =>
                           Mine(t).loop_id = UNUSED
                             /\ \A u \in Threads \ {t} : InLoop(u) => slot[u] # slot[t]
                      /\ pc[t] = "claim" => Mine(t).loop_id # MyId(t)
                      /\ pc[t] = "free" => Mine(t).looping_threads >= 1
  BY Zenon DEF StructureIsMine
<1>a. PICK p \in Nat, i \in Slots : at[t] = p /\ slot[t] = i /\ p >= 1
  BY <1>0, Place, Zenon
<1>2. pc[t] # "between" => p \in Loops /\ i = Index(p - 1) /\ loop_count[t] = p
  BY <1>0, <1>a, Place
<1>3. InLoop(t) => loops[i].place = p /\ HoldsInv(i, p)
  <2>1. InLoop(t) => loops[i].place = p
    BY <1>0, <1>a DEF MemberInv, Mine
  <2>. QED  BY SMTT(30), <1>0, <1>a, <2>1 DEF StructInv
<1>4. InLoop(t) => Mine(t).place = at[t]
  BY <1>3, <1>a DEF Mine
<1>5. pc[t] = "publish" => Mine(t).loop_id = UNUSED
  BY <1>3, <1>a, Zenon DEF Mine, InLoop, HoldsInv
<1>6. ASSUME pc[t] = "publish", NEW u \in Threads \ {t}, InLoop(u), slot[u] = slot[t]
      PROVE  FALSE
  <2>1. at[u] = p
    BY <1>0, <1>3, <1>6, <1>a, Zenon DEF MemberInv, Mine, InLoop
  <2>2. pc[u] \in {"between", "find"}
    <3>1. at[u] < at[t] \/ (at[u] = at[t] /\ pc[u] \in {"between", "find"})
      BY SMTT(30), <1>0, <1>6 DEF ClaimInv
    <3>. QED  BY <1>a, <2>1, <3>1, SMTT(30)
  <2>. QED  BY <1>6, <2>2 DEF InLoop
<1>7. ASSUME InLoop(t), pc[t] # "publish" PROVE Mine(t).loop_id = MyId(t)
  <2>1. HoldsInv(i, p)
    BY <1>3, <1>7, Zenon
  <2>2. \A u \in Threads : ~ (pc[u] = "publish" /\ at[u] = p)
    <3>1. SUFFICES ASSUME NEW u \in Threads, pc[u] = "publish", at[u] = p PROVE FALSE
      BY SMTT(30)
    <3>2. t \in Threads \ {u}
      BY <1>7, <3>1
    <3>3. at[t] < at[u] \/ (at[t] = at[u] /\ pc[t] \in {"between", "find"})
      BY <1>0, <3>1, <3>2 DEF ClaimInv
    <3>. QED  BY SMTT(30), <1>7, <1>a, <3>1, <3>3 DEF InLoop
  <2>3. loops[i].loop_id = Id(p - 1)
    BY <2>1, <2>2, Zenon DEF HoldsInv
  <2>. QED  BY <1>2, <1>7, <1>a, <2>3 DEF Mine, MyId, InLoop
<1>8. ASSUME pc[t] = "claim" PROVE Mine(t).loop_id # MyId(t)
  <2>1. SUFFICES ASSUME Mine(t).loop_id = MyId(t) PROVE FALSE
    OBVIOUS
  <2>2. loops[i].place = p
    BY <1>8, <1>a, <2>1, RightLoop DEF Mine
  <2>3. HoldsInv(i, p)
    BY <1>0, <1>a, <2>2 DEF StructInv
  <2>. QED  BY <1>8, <1>a, <2>3, Zenon DEF HoldsInv
<1>9. ASSUME pc[t] = "free" PROVE Mine(t).looping_threads >= 1
  <2>1. loops[i].looping_threads = Cardinality(Looping(p))
    BY <1>3, <1>9, Zenon DEF InLoop, HoldsInv
  <2>2. t \in Looping(p)
    BY <1>9, <1>a DEF Looping, Done
  <2>3. IsFiniteSet(Looping(p))
    <3>1. Looping(p) \subseteq Threads
      BY DEF Looping
    <3>. QED  BY <3>1, Constants, FS_Subset
  <2>4. Cardinality(Looping(p)) \in Nat /\ Cardinality(Looping(p)) # 0
    BY <2>2, <2>3, FS_CardinalityType, FS_EmptySet
  <2>. QED  BY <1>a, <2>1, <2>4 DEF Mine
<1>. QED  BY <1>4, <1>5, <1>6, <1>7, <1>8, <1>9, Zenon

(***************************************************************************)
(* However far members run ahead, the structure a member works with holds  *)
(* its loop, a structure is claimed only when nobody uses it, and the      *)
(* count of its members never drops below one before the last has left:    *)
(* for every program of loops, team size, number of structures and width   *)
(* of the ids.                                                             *)
(***************************************************************************)
THEOREM StructuresAreNotShared ==
  ASSUME NoRegionBetween
  PROVE  Spec => []StructureIsMine
<1>1. Init => SlotInv
  BY SlotInit
<1>2. SlotInv /\ [Next]_vars => SlotInv'
  BY SlotStep
<1>3. SlotInv => StructureIsMine
  BY SlotsAreMine
<1>. QED  BY <1>1, <1>2, <1>3, PTL DEF Spec
-----------------------------------------------------------------------------
(***************************************************************************)
(* The pieces that the schedules hand out, as numbers of iterations.       *)
(***************************************************************************)

(* Within is an order, in the direction of the loop, and LOOPMIN its       *)
(* minimum.                                                                *)
LEMMA WithinOrder ==
  ASSUME NEW i \in Int, NEW a \in Int, NEW b \in Int, NEW c \in Int
  PROVE  /\ Within(i, a, b) /\ Within(i, b, c) => Within(i, a, c)
         /\ Within(i, a, LOOPMIN(i, b, c)) <=> Within(i, a, b) /\ Within(i, a, c)
         /\ Within(i, a, b) \/ Within(i, b, a)
         /\ LOOPMIN(i, b, c) \in Int
BY DEF Within, LOOPMIN, Min2, Max2

(* A value is within LOOPMIN when it is within both bounds. *)
LEMMA WithinMin ==
  ASSUME NEW i \in Int, NEW b \in Int, NEW c \in Int
  PROVE  /\ LOOPMIN(i, b, c) \in Int
         /\ \A a \in Int : Within(i, a, LOOPMIN(i, b, c)) <=> Within(i, a, b) /\ Within(i, a, c)
BY DEF Within, LOOPMIN, Min2, Max2

(* The values of the loop variable are ordered as their numbers. *)
LEMMA AtOrder ==
  ASSUME NEW d, IsLoop(d), NEW j \in Int, NEW k \in Int
  PROVE  /\ At(d, j) \in Int
         /\ Within(d.inc, At(d, j), At(d, k)) <=> j <= k
         /\ At(d, j) = At(d, k) => j = k
<1>. DEFINE i == d.inc
            x == j * i
            y == k * i
<1>1. i \in Int \ {0} /\ d.lower \in Int
  BY DEF IsLoop
<1>2. x \in Int /\ y \in Int
  BY <1>1
<1>3. i > 0 => (x <= y <=> j <= k) /\ (y <= x <=> k <= j)
  BY <1>1
<1>4. i < 0 => (x >= y <=> j <= k) /\ (y >= x <=> k <= j)
  BY <1>1
<1>. HIDE DEF x, y
<1>5. At(d, j) = d.lower + x /\ At(d, k) = d.lower + y
  BY DEF At, x, y
<1>6. At(d, j) = At(d, k) => j = k
  <2>1. SUFFICES ASSUME x = y PROVE j = k
    BY <1>1, <1>2, <1>5
  <2>. QED  BY <1>1, <1>2, <1>3, <1>4, <2>1
<1>. QED  BY <1>1, <1>2, <1>3, <1>4, <1>5, <1>6 DEF Within

(* Going m increments further. *)
LEMMA AtPlus ==
  ASSUME NEW d, IsLoop(d), NEW k \in Int, NEW m \in Int
  PROVE  /\ At(d, k) + m * d.inc = At(d, k + m)
         /\ At(d, k) + d.inc * m = At(d, k + m)
         /\ At(d, 0) = d.lower
BY DEF At, IsLoop

(* Comparing multiples with a quotient. *)
LEMMA MulBound ==
  ASSUME NEW i \in Nat \ {0}, NEW k \in Int, NEW q \in Int, NEW r \in Int, 0 <= r, r < i
  PROVE  k * i <= i * q + r <=> k <= q
<1>1. ASSUME k <= q PROVE k * i <= i * q + r
  <2>1. (q - k) * i >= 0
    BY <1>1
  <2>. QED  BY <2>1
<1>2. ASSUME k > q PROVE k * i > i * q + r
  <2>1. (k - q) * i >= i
    BY <1>2
  <2>. QED  BY <2>1
<1>. QED  BY <1>1, <1>2

(* A loop with iterations has Trip of them. *)
LEMMA InTrip ==
  ASSUME NEW d, IsLoop(d), NEW k \in Nat
  PROVE  /\ Trip(d) \in Nat
         /\ Within(d.inc, At(d, k), d.upper) <=> k < Trip(d)
<1>. DEFINE i == Abs(d.inc)
            a == Abs(d.upper - d.lower)
            q == a \div i
            r == a % i
<1>1. d.inc \in Int \ {0} /\ d.lower \in Int /\ d.upper \in Int
  BY DEF IsLoop
<1>2. i \in Nat \ {0} /\ a \in Nat
  BY <1>1 DEF Abs
<1>3. q \in Int /\ r \in Int /\ a = i * q + r /\ 0 <= r /\ r < i
  <2>. HIDE DEF a, i
  <2>. QED  BY <1>2, DivMod
<1>4. i = (IF d.inc < 0 THEN - d.inc ELSE d.inc) /\ a = (IF d.upper < d.lower THEN d.lower - d.upper ELSE d.upper - d.lower)
  BY <1>1 DEF Abs
<1>5. Trip(d) = IF Within(d.inc, d.lower, d.upper) THEN q + 1 ELSE 0
  BY DEF Trip
<1>. HIDE DEF i, a, q, r
<1>6. q >= 0
  BY <1>2, <1>3
<1>7. k * i <= a <=> k <= q
  BY <1>2, <1>3, MulBound
<1>8. k * i \in Nat
  BY <1>2
<1>9. CASE d.inc > 0
  <2>1. At(d, k) = d.lower + k * i
    BY SMTT(30), <1>1, <1>4, <1>9 DEF At
  <2>2. CASE d.lower <= d.upper
    BY SMTT(30), <1>1, <1>3, <1>4, <1>5, <1>6, <1>7, <1>8, <1>9, <2>1, <2>2 DEF Within
  <2>3. CASE ~ d.lower <= d.upper
    BY SMTT(30), <1>1, <1>5, <1>8, <1>9, <2>1, <2>3 DEF Within
  <2>. QED  BY <2>2, <2>3
<1>10. CASE d.inc < 0
  <2>1. At(d, k) = d.lower - k * i
    BY SMTT(30), <1>1, <1>4, <1>10 DEF At
  <2>2. CASE d.lower >= d.upper
    BY SMTT(30), <1>1, <1>3, <1>4, <1>5, <1>6, <1>7, <1>8, <1>10, <2>1, <2>2 DEF Within
  <2>3. CASE ~ d.lower >= d.upper
    BY SMTT(30), <1>1, <1>5, <1>8, <1>10, <2>1, <2>3 DEF Within
  <2>. QED  BY <2>2, <2>3
<1>. QED  BY <1>1, <1>9, <1>10

(* Size is the number of iterations, but for a loop without any. *)
LEMMA SizeIsTrip ==
  ASSUME NEW d, IsLoop(d)
  PROVE  Size(d) \in Int /\ (Trip(d) > 0 => Size(d) = Trip(d)) /\ (Trip(d) = 0 => Size(d) <= 1)
<1>. DEFINE i == d.inc
            a == d.upper - d.lower
            q == Abs(a) \div Abs(i)
<1>1. i \in Int \ {0} /\ d.lower \in Int /\ d.upper \in Int /\ a \in Int
  BY DEF IsLoop
<1>2. Abs(i) \in Nat \ {0} /\ Abs(a) \in Nat /\ (a = 0 => Abs(a) = 0)
  BY <1>1 DEF Abs
<1>3. q \in Nat /\ (Abs(a) = 0 => q = 0)
  <2>. DEFINE r == Abs(a) % Abs(i)
  <2>1. q \in Int /\ r \in Int /\ Abs(a) = Abs(i) * q + r /\ 0 <= r /\ r < Abs(i)
    <3>. HIDE DEF a, i
    <3>1. \A x \in Nat, m \in Nat \ {0} :
            /\ x \div m \in Int /\ x % m \in Int
            /\ x = m * (x \div m) + (x % m) /\ 0 <= x % m /\ x % m < m
      BY DivMod
    <3>. QED  BY <1>2, <3>1, Zenon
  <2>. HIDE DEF q, r
  <2>. QED  BY <1>2, <2>1
<1>4. Size(d) = (IF (a < 0) = (i < 0) THEN q ELSE - q) + 1
  BY DEF Size, CDiv
<1>5. Trip(d) = IF Within(i, d.lower, d.upper) THEN q + 1 ELSE 0
  BY DEF Trip
<1>6. Within(i, d.lower, d.upper) <=> (IF i >= 0 THEN a >= 0 ELSE a <= 0)
  BY <1>1 DEF Within
<1>. HIDE DEF q, a, i
<1>. QED  BY <1>1, <1>2, <1>3, <1>4, <1>5, <1>6

(* The iterations of a loop are the values at its numbers. *)
LEMMA IterationsAre ==
  ASSUME NEW d, IsLoop(d)
  PROVE  Iterations(d) = {At(d, k) : k \in Numbers(d)}
<1>1. d.inc \in Int \ {0} /\ d.lower \in Int /\ d.upper \in Int /\ Trip(d) \in Nat
  BY SMTT(30), InTrip DEF IsLoop
<1>2. ASSUME NEW k \in Numbers(d) PROVE At(d, k) \in Iterations(d)
  <2>1. k \in Nat /\ k < Trip(d)
    BY <1>1 DEF Numbers
  <2>2. /\ At(d, k) \in Int /\ Within(d.inc, At(d, k), d.upper)
        /\ Within(d.inc, At(d, 0), At(d, k)) /\ At(d, 0) = d.lower
    <3>1. k \in Int /\ 0 \in Int /\ 0 <= k
      BY <2>1
    <3>2. At(d, k) \in Int /\ (Within(d.inc, At(d, 0), At(d, k)) <=> 0 <= k)
      BY <3>1, AtOrder
    <3>3. Within(d.inc, At(d, k), d.upper)
      BY <2>1, InTrip
    <3>4. At(d, 0) = d.lower
      BY <3>1, AtPlus
    <3>. QED  BY <3>1, <3>2, <3>3, <3>4
  <2>3. At(d, k) \in Min2(d.lower, d.upper) .. Max2(d.lower, d.upper)
    BY SMTT(30), <1>1, <2>2 DEF Min2, Max2, Within
  <2>4. k <= Abs(d.upper - d.lower)
    <3>. DEFINE x == k * d.inc
    <3>1. x \in Int /\ At(d, k) = d.lower + x
      BY <1>1, <2>1 DEF At
    <3>2. (d.inc > 0 => x >= k) /\ (d.inc < 0 => - x >= k)
      BY <1>1, <2>1
    <3>. HIDE DEF x
    <3>. QED  BY <1>1, <2>1, <2>2, <3>1, <3>2 DEF Within, Abs
  <2>5. Abs(d.upper - d.lower) \in Nat
    BY <1>1 DEF Abs
  <2>6. At(d, k) = d.lower + k * d.inc /\ k \in 0 .. Abs(d.upper - d.lower)
    BY <2>1, <2>4, <2>5 DEF At
  <2>. QED  BY <2>2, <2>3, <2>6 DEF Iterations
<1>3. ASSUME NEW v \in Iterations(d) PROVE \E k \in Numbers(d) : v = At(d, k)
  <2>1. PICK k \in 0 .. Abs(d.upper - d.lower) : v = d.lower + k * d.inc
    BY SMTT(30), <1>3 DEF Iterations
  <2>2. Within(d.inc, v, d.upper)
    BY <1>3 DEF Iterations
  <2>3. k \in Nat /\ v = At(d, k)
    BY <2>1 DEF At
  <2>4. k < Trip(d)
    BY <2>2, <2>3, InTrip
  <2>. QED  BY SMTT(30), <1>1, <2>3, <2>4 DEF Numbers
<1>. QED  BY <1>2, <1>3

-----------------------------------------------------------------------------
(* The division of C, which rounds towards 0. *)
LEMMA CDivPos ==
  ASSUME NEW a \in Int, NEW n \in Nat \ {0}
  PROVE  /\ a >= 0 => CDiv(a, n) = a \div n /\ CDiv(a, n) \in Nat
         /\ a < 0 => CDiv(a, n) = - ((- a) \div n) /\ - CDiv(a, n) \in Nat
<1>1. \A x \in Nat : x \div n \in Nat
  <2>1. SUFFICES ASSUME NEW x \in Nat PROVE x \div n \in Nat
    OBVIOUS
  <2>. DEFINE q == x \div n
              r == x % n
  <2>2. q \in Int /\ r \in Int /\ x = n * q + r /\ 0 <= r /\ r < n
    BY DivMod
  <2>. HIDE DEF q, r
  <2>3. q >= 0
    BY <2>2
  <2>. QED  BY <2>2, <2>3 DEF q
<1>2. Abs(n) = n
  BY DEF Abs
<1>3. CASE a >= 0
  <2>1. Abs(a) = a /\ a \in Nat
    BY <1>3 DEF Abs
  <2>2. CDiv(a, n) = a \div n
    BY <1>2, <1>3, <2>1 DEF CDiv
  <2>. QED  BY <1>1, <1>3, <2>1, <2>2
<1>4. CASE a < 0
  <2>1. Abs(a) = - a /\ - a \in Nat
    BY <1>4 DEF Abs
  <2>2. CDiv(a, n) = - ((- a) \div n)
    BY <1>2, <1>4, <2>1 DEF CDiv
  <2>3. (- a) \div n \in Nat
    BY <1>1, <2>1
  <2>. QED  BY <1>4, <2>2, <2>3
<1>. QED  BY <1>3, <1>4

(* The shares of the fair schedule for a loop with iterations. *)
LEMMA FairForm ==
  ASSUME NEW s \in Nat
  PROVE  \E c \in Nat, r \in Nat :
           /\ s = TeamSize * c + r /\ r < TeamSize
           /\ \A t \in Threads :
                /\ FairIndex(s, TeamSize, t) = t * c + Min2(t, r)
                /\ FairChunk(s, TeamSize, t) = IF t < r THEN c + 1 ELSE c
<1>. DEFINE n == TeamSize
            c == CDiv(s, n)
            r == s - c * n
<1>1. n \in Nat \ {0} /\ Threads = 0 .. n - 1
  BY Constants
<1>2. c = s \div n /\ c \in Nat
  <2>1. s \in Int /\ s >= 0
    OBVIOUS
  <2>. HIDE DEF n
  <2>. QED  BY <1>1, <2>1, CDivPos, Zenon
<1>3. s = n * (s \div n) + (s % n) /\ 0 <= s % n /\ s % n < n /\ s % n \in Int
  BY <1>1, DivMod
<1>4. s = n * c + r /\ r \in Nat /\ r < n
  BY SMTT(30), <1>1, <1>2, <1>3
<1>5. ASSUME NEW t \in Threads
      PROVE  /\ FairIndex(s, n, t) = t * c + Min2(t, r)
             /\ FairChunk(s, n, t) = IF t < r THEN c + 1 ELSE c
  <2>0. t \in Nat
    BY <1>1
  <2>1. FairIndex(s, n, t) = Min2(t, r) * (c + 1) + (IF t > r THEN (t - r) * c ELSE 0)
    BY DEF FairIndex
  <2>2. FairChunk(s, n, t) = IF t < r THEN c + 1 ELSE c
    BY DEF FairChunk
  <2>. HIDE DEF c, r, n
  <2>3. CASE t > r
    <3>1. Min2(t, r) = r
      BY <1>4, <2>0, <2>3 DEF Min2
    <3>2. FairIndex(s, n, t) = r * (c + 1) + (t - r) * c
      BY <2>1, <2>3, <3>1
    <3>3. r * (c + 1) = r * c + r /\ (t - r) * c = t * c - r * c
      BY <1>2, <1>4, <2>0
    <3>4. r * c \in Int /\ t * c \in Int
      BY <1>2, <1>4, <2>0
    <3>. QED  BY <1>4, <2>2, <3>1, <3>2, <3>3, <3>4
  <2>4. CASE t <= r
    <3>1. Min2(t, r) = t /\ ~ t > r
      BY <1>4, <2>0, <2>4 DEF Min2
    <3>2. FairIndex(s, n, t) = t * (c + 1) + 0
      BY <2>1, <3>1
    <3>3. t * (c + 1) = t * c + t /\ t * c \in Int
      BY SMTT(30), <1>2, <2>0
    <3>. QED  BY <2>0, <2>2, <3>1, <3>2, <3>3
  <2>. QED  BY <1>4, <2>0, <2>3, <2>4
<1>. HIDE DEF c, r
<1>. QED  BY <1>2, <1>4, <1>5

(* The bounds of a block are integers; a block that has numbers starts at  *)
(* 0 or above.                                                             *)
LEMMA BlockTypes ==
  ASSUME NEW d, IsLoop(d), NEW t \in Threads
  PROVE  /\ Per(d) \in Int /\ BlockLo(d, t) \in Int /\ BlockLen(d, t) \in Int
         /\ BlockEnd(d, t) \in Int
         /\ BlockLo(d, t) < BlockEnd(d, t) => BlockLo(d, t) >= 0
<1>1. Size(d) \in Int /\ TeamSize \in Nat \ {0} /\ t \in Nat
  BY SizeIsTrip, Constants
<1>2. Per(d) \in Int
  BY <1>1, CDivType DEF Per
<1>3. CASE ~ IsFair(d)
  <2>1. BlockLo(d, t) = t * Per(d) /\ BlockLen(d, t) = Per(d)
    BY <1>3 DEF BlockLo, BlockLen
  <2>2. Per(d) > 0 => t * Per(d) >= 0
    BY <1>1, <1>2
  <2>3. t * Per(d) \in Int
    BY <1>1, <1>2
  <2>. QED  BY <1>2, <2>1, <2>2, <2>3 DEF BlockEnd
<1>4. CASE IsFair(d) /\ Size(d) >= 0
  <2>1. PICK c \in Nat, r \in Nat :
           /\ BlockLo(d, t) = t * c + Min2(t, r)
           /\ BlockLen(d, t) = IF t < r THEN c + 1 ELSE c
    <3>. DEFINE s == Size(d)
    <3>1. BlockLo(d, t) = FairIndex(s, TeamSize, t) /\ BlockLen(d, t) = FairChunk(s, TeamSize, t)
      BY <1>4 DEF BlockLo, BlockLen
    <3>2. s \in Nat
      BY <1>1, <1>4
    <3>. HIDE DEF s
    <3>. QED  BY <3>1, <3>2, FairForm, Zenon
  <2>2. t * c \in Nat /\ Min2(t, r) \in Nat
    BY <1>1 DEF Min2
  <2>. QED  BY <1>2, <2>1, <2>2 DEF BlockEnd
<1>5. CASE IsFair(d) /\ Size(d) < 0
  <2>. DEFINE n == TeamSize
              s == Size(d)
              c == CDiv(s, n)
              r == s - c * n
              a == - s
              q == a \div n
              m == a % n
  <2>1. c = - q /\ - c \in Nat
    BY <1>1, <1>5, CDivPos, Zenon
  <2>2. a \in Int
    BY <1>1
  <2>3. r <= 0 /\ r \in Int
    <3>1. a = n * q + m /\ 0 <= m /\ m \in Int /\ q \in Int
      <4>. HIDE DEF a
      <4>. QED  BY <1>1, <2>2, DivMod
    <3>2. r = - m
      <4>1. s = - a
        BY <1>1
      <4>. HIDE DEF a, q, m, c
      <4>. QED  BY <1>1, <2>1, <2>2, <3>1, <4>1
    <3>. HIDE DEF m, r
    <3>. QED  BY <3>1, <3>2
  <2>4. BlockLen(d, t) = IF t < r THEN c + 1 ELSE c
    BY <1>5 DEF BlockLen, FairChunk
  <2>5. BlockLo(d, t) = Min2(t, r) * (c + 1) + (IF t > r THEN (t - r) * c ELSE 0)
    BY <1>5 DEF BlockLo, FairIndex
  <2>. HIDE DEF c, r, n, s, a, q, m
  <2>6. BlockLo(d, t) \in Int /\ BlockLen(d, t) \in Int /\ BlockLen(d, t) <= 0
    <3>1. Min2(t, r) \in Int
      BY <1>1, <2>3 DEF Min2
    <3>2. c \in Int /\ c <= 0
      <4>1. \A x : - x \in Nat /\ x = - q => x \in Int /\ x <= 0
        OBVIOUS
      <4>. QED  BY <2>1, <4>1
    <3>. QED  BY <1>1, <2>3, <2>4, <2>5, <3>1, <3>2
  <2>. QED  BY <1>2, <2>6 DEF BlockEnd
<1>. QED  BY <1>1, <1>3, <1>4, <1>5

(* Every iteration is in the block of one member. *)
LEMMA BlocksCover ==
  ASSUME NEW d, IsLoop(d), NEW k \in Numbers(d)
  PROVE  \E t \in Threads : InBlock(d, t, k)
<1>. DEFINE n == TeamSize
            s == Size(d)
<1>1. s \in Nat /\ k \in Nat /\ k < s /\ n \in Nat \ {0} /\ Threads = 0 .. n - 1
  BY SizeIsTrip, InTrip, Constants DEF Numbers
<1>2. CASE ~ IsFair(d)
  <2>. DEFINE e == (s - 1) \div n
              m == (s - 1) % n
              w == e + 1
              t == k \div w
              x == k % w
  <2>1. s - 1 \in Int /\ s - 1 >= 0
    BY <1>1
  <2>2. Per(d) = w /\ e \in Nat
    BY <1>1, <2>1, CDivPos, Zenon DEF Per
  <2>3. m \in Int /\ s - 1 = n * e + m /\ m < n
    <3>. HIDE DEF s, n
    <3>. QED  BY <1>1, <2>1, DivMod
  <2>. HIDE DEF e, m, n, s
  <2>4. w \in Nat \ {0}
    BY <2>2
  <2>5. t \in Int /\ x \in Int /\ k = w * t + x /\ 0 <= x /\ x < w
    <3>. HIDE DEF w
    <3>. QED  BY <1>1, <2>4, DivMod
  <2>. HIDE DEF t, x
  <2>6. s <= w * n
    BY <1>1, <2>2, <2>3
  <2>. HIDE DEF w
  <2>7. t >= 0
    BY <1>1, <2>4, <2>5
  <2>8. t < n
    <3>1. SUFFICES ASSUME t >= n PROVE FALSE
      BY <1>1, <2>5
    <3>2. w * (t - n) >= 0
      BY <1>1, <2>4, <2>5, <3>1
    <3>. QED  BY <1>1, <2>4, <2>5, <2>6, <3>2
  <2>9. BlockLo(d, t) = t * w /\ BlockEnd(d, t) = t * w + w
    BY SMTT(30), <1>2, <2>2 DEF BlockLo, BlockLen, BlockEnd
  <2>10. t \in Threads /\ BlockLo(d, t) <= k /\ k < BlockEnd(d, t)
    BY SMTT(30), <1>1, <2>4, <2>5, <2>7, <2>8, <2>9
  <2>. QED  BY <2>10 DEF InBlock
<1>3. CASE IsFair(d)
  <2>1. PICK c \in Nat, r \in Nat :
           /\ s = n * c + r /\ r < n
           /\ \A t \in Threads :
                /\ FairIndex(s, n, t) = t * c + Min2(t, r)
                /\ FairChunk(s, n, t) = IF t < r THEN c + 1 ELSE c
    <3>. HIDE DEF s
    <3>. QED  BY <1>1, FairForm, Zenon
  <2>2. ASSUME NEW t \in Threads
        PROVE  /\ BlockLo(d, t) = t * c + Min2(t, r)
               /\ BlockEnd(d, t) = t * c + Min2(t, r) + (IF t < r THEN c + 1 ELSE c)
    <3>1. BlockLo(d, t) = FairIndex(s, n, t) /\ BlockLen(d, t) = FairChunk(s, n, t)
      BY <1>3 DEF BlockLo, BlockLen
    <3>. QED  BY <2>1, <3>1 DEF BlockEnd
  <2>. HIDE DEF s, n
  <2>3. CASE k < r * (c + 1)
    <3>. DEFINE w == c + 1
                t == k \div w
                x == k % w
    <3>1. w \in Nat \ {0}
      OBVIOUS
    <3>2. t \in Int /\ x \in Int /\ k = w * t + x /\ 0 <= x /\ x < w
      <4>. HIDE DEF w
      <4>. QED  BY <1>1, <3>1, DivMod
    <3>3. k < r * w
      BY <2>3
    <3>. HIDE DEF t, x, w
    <3>4. t >= 0
      BY <1>1, <3>1, <3>2
    <3>5. t < r
      <4>1. SUFFICES ASSUME t >= r PROVE FALSE
        BY <3>2
      <4>2. w * (t - r) >= 0
        BY <3>1, <3>2, <4>1
      <4>. QED  BY <1>1, <3>1, <3>2, <3>3, <4>2
    <3>6. t \in Threads
      BY SMTT(30), <1>1, <2>1, <3>2, <3>4, <3>5
    <3>7. BlockLo(d, t) = t * c + t /\ BlockEnd(d, t) = t * c + t + c + 1
      BY SMTT(30), <2>2, <3>2, <3>5, <3>6 DEF Min2
    <3>8. BlockLo(d, t) <= k /\ k < BlockEnd(d, t)
      BY <1>1, <3>2, <3>7 DEF w
    <3>. QED  BY <3>6, <3>8 DEF InBlock
  <2>4. CASE k >= r * (c + 1)
    <3>. DEFINE y == k - r * (c + 1)
                z == y \div c
                x == y % c
                t == r + z
    <3>1. y \in Nat
      BY <1>1, <2>4
    <3>2. c # 0
      BY <1>1, <2>1, <2>4
    <3>3. z \in Int /\ x \in Int /\ y = c * z + x /\ 0 <= x /\ x < c
      <4>. HIDE DEF y
      <4>. QED  BY SMTT(30), <3>1, <3>2, DivMod
    <3>4. y < c * (n - r)
      BY <1>1, <2>1
    <3>5. k = y + r * (c + 1)
      BY <1>1
    <3>. HIDE DEF z, x, y
    <3>6. z >= 0
      BY SMTT(30), <3>1, <3>2, <3>3
    <3>7. z < n - r
      <4>1. SUFFICES ASSUME z >= n - r PROVE FALSE
        BY <1>1, <2>1, <3>3
      <4>2. c * (z - (n - r)) >= 0
        BY SMTT(30), <1>1, <2>1, <3>3, <4>1
      <4>. QED  BY SMTT(30), <1>1, <2>1, <3>1, <3>3, <3>4, <4>2
    <3>8. t \in Threads /\ ~ (t < r) /\ Min2(t, r) = r
      BY SMTT(30), <1>1, <2>1, <3>3, <3>6, <3>7 DEF Min2
    <3>9. BlockLo(d, t) = t * c + r /\ BlockEnd(d, t) = t * c + r + c
      <4>. HIDE DEF t
      <4>. QED  BY <2>2, <3>8
    <3>10. BlockLo(d, t) <= k /\ k < BlockEnd(d, t)
      BY <1>1, <3>1, <3>3, <3>5, <3>9
    <3>. QED  BY <3>8, <3>10 DEF InBlock
  <2>. QED  BY <1>1, <2>3, <2>4
<1>. QED  BY <1>2, <1>3

(* No iteration is in the blocks of two members. *)
LEMMA BlocksDisjoint ==
  ASSUME NEW d, IsLoop(d), NEW k \in Numbers(d), NEW t \in Threads, NEW u \in Threads,
         InBlock(d, t, k), InBlock(d, u, k)
  PROVE  t = u
<1>. DEFINE n == TeamSize
            s == Size(d)
<1>1. /\ s \in Nat /\ k \in Nat /\ k < s /\ n \in Nat \ {0} /\ Threads = 0 .. n - 1
      /\ t \in Nat /\ u \in Nat
  BY SizeIsTrip, InTrip, Constants DEF Numbers
<1>2. CASE ~ IsFair(d)
  <2>. DEFINE w == Per(d)
  <2>1. w \in Int
    BY BlockTypes
  <2>2. t * w <= k /\ k < t * w + w /\ u * w <= k /\ k < u * w + w
    BY <1>2 DEF InBlock, BlockLo, BlockEnd, BlockLen
  <2>. HIDE DEF w
  <2>3. w > 0
    BY <1>1, <2>1, <2>2
  <2>4. ~ t < u
    <3>1. SUFFICES ASSUME t < u PROVE FALSE
      OBVIOUS
    <3>2. (u - t) * w >= w
      BY SMTT(30), <1>1, <2>1, <2>3, <3>1
    <3>. QED  BY <1>1, <2>1, <2>2, <3>2
  <2>5. ~ u < t
    <3>1. SUFFICES ASSUME u < t PROVE FALSE
      OBVIOUS
    <3>2. (t - u) * w >= w
      BY <1>1, <2>1, <2>3, <3>1
    <3>. QED  BY <1>1, <2>1, <2>2, <3>2
  <2>. QED  BY <1>1, <2>4, <2>5
<1>3. CASE IsFair(d)
  <2>1. PICK c \in Nat, r \in Nat :
           /\ s = n * c + r /\ r < n
           /\ \A x \in Threads :
                /\ FairIndex(s, n, x) = x * c + Min2(x, r)
                /\ FairChunk(s, n, x) = IF x < r THEN c + 1 ELSE c
    <3>. HIDE DEF s
    <3>. QED  BY <1>1, FairForm, Zenon
  <2>2. \A x \in Threads : BlockLo(d, x) = FairIndex(s, n, x) /\ BlockLen(d, x) = FairChunk(s, n, x)
    BY SMTT(30), <1>3 DEF BlockLo, BlockLen
  <2>4. /\ t * c + Min2(t, r) <= k
        /\ k < t * c + Min2(t, r) + (IF t < r THEN c + 1 ELSE c)
        /\ u * c + Min2(u, r) <= k
        /\ k < u * c + Min2(u, r) + (IF u < r THEN c + 1 ELSE c)
    BY SMTT(30), <2>1, <2>2 DEF InBlock, BlockEnd
  <2>. HIDE DEF s, n
  <2>5. ~ t < u
    <3>1. SUFFICES ASSUME t < u PROVE FALSE
      OBVIOUS
    <3>2. (u - t) * c >= c
      BY <1>1, <3>1
    <3>. QED  BY <1>1, <2>4, <3>1, <3>2 DEF Min2
  <2>6. ~ u < t
    <3>1. SUFFICES ASSUME u < t PROVE FALSE
      OBVIOUS
    <3>2. (t - u) * c >= c
      BY SMTT(30), <1>1, <3>1
    <3>. QED  BY <1>1, <2>4, <3>1, <3>2 DEF Min2
  <2>. QED  BY <1>1, <2>5, <2>6
<1>. QED  BY SMTT(30), <1>2, <1>3

(* The piece of __pmp_schedule_next with a chunk, in numbers. *)
LEMMA StaticShare ==
  ASSUME NEW d, IsLoop(d), d.sched = "STATIC", d.chunk \in Nat \ {0},
         NEW t \in Threads, NEW it \in Nat
  PROVE  /\ Start(d, t, it) \in Int /\ Start(d, t, it) >= BlockLo(d, t)
         /\ Start(d, t, it + 1) = Start(d, t, it) + d.chunk
         /\ StaticNext(d, TeamSize, t, it).lower = At(d, Start(d, t, it))
         /\ StaticNext(d, TeamSize, t, it).upper \in Int
         /\ \A k \in Int : Within(d.inc, At(d, k), StaticNext(d, TeamSize, t, it).upper) <=>
              k < Start(d, t, it) + d.chunk /\ k < BlockEnd(d, t) /\ Within(d.inc, At(d, k), d.upper)
<1>. DEFINE w == Per(d)
            b == t * w
            m == it * d.chunk
            st == b + m
            c == d.chunk
            first == d.lower + t * PerThread(d, TeamSize)
            last == LOOPMIN(d.inc, first + PerThread(d, TeamSize) - d.inc, d.upper)
            lo == first + it * d.chunk * d.inc
<1>1. d.inc \in Int \ {0} /\ d.lower \in Int /\ d.upper \in Int /\ t \in Nat /\ w \in Int
  BY BlockTypes, Constants DEF IsLoop
<1>2. ~ IsFair(d)
  BY DEF IsFair
<1>3. BlockLo(d, t) = b /\ BlockEnd(d, t) = b + w
  BY <1>2 DEF BlockLo, BlockEnd, BlockLen
<1>4. Start(d, t, it) = b + m /\ Start(d, t, it + 1) = b + (it + 1) * c
  BY <1>3 DEF Start
<1>5. b \in Int /\ m \in Nat
  BY <1>1
<1>6. (it + 1) * c = m + c
  <2>1. \A x \in Nat : (it + 1) * x = it * x + x
    OBVIOUS
  <2>. QED  BY <2>1, Zenon
<1>7. PerThread(d, TeamSize) = w * d.inc
  BY DEF PerThread, Per
<1>8. first = At(d, b)
  BY SMTT(30), <1>1, <1>7 DEF At
<1>9. first + PerThread(d, TeamSize) - d.inc = At(d, b + w - 1)
  <2>1. b * d.inc \in Int /\ w * d.inc \in Int
    BY <1>1, <1>5
  <2>2. (b + w - 1) * d.inc = b * d.inc + w * d.inc - d.inc
    BY <1>1, <1>5
  <2>. HIDE DEF first
  <2>. QED  BY <1>1, <1>7, <1>8, <2>1, <2>2 DEF At
<1>10. lo = At(d, st)
  <2>1. b * d.inc \in Int /\ m * d.inc \in Int
    BY <1>1, <1>5
  <2>2. (b + m) * d.inc = b * d.inc + m * d.inc
    BY <1>1, <1>5
  <2>. HIDE DEF first
  <2>3. lo = first + m * d.inc
    BY SMTT(30)
  <2>. HIDE DEF m, b, lo
  <2>. QED  BY SMTT(30), <1>1, <1>5, <1>8, <2>1, <2>2, <2>3 DEF At
<1>11. /\ StaticNext(d, TeamSize, t, it).lower = lo
       /\ StaticNext(d, TeamSize, t, it).upper = LOOPMIN(d.inc, lo + (c - 1) * d.inc, last)
  BY DEF StaticNext
<1>. HIDE DEF first, lo, m, b, w, c
<1>12. c \in Nat \ {0} /\ st \in Int
  BY <1>5 DEF c
<1>13. lo + (c - 1) * d.inc = At(d, st + c - 1)
  <2>1. c - 1 \in Int /\ st + (c - 1) = st + c - 1
    BY <1>12
  <2>. HIDE DEF st
  <2>. QED  BY <1>10, <1>12, <2>1, AtPlus, Zenon
<1>14. st + c - 1 \in Int /\ b + w - 1 \in Int
  BY <1>1, <1>5, <1>12
<1>15. /\ At(d, st + c - 1) \in Int /\ At(d, b + w - 1) \in Int
  BY <1>14, AtOrder
<1>16. last = LOOPMIN(d.inc, At(d, b + w - 1), d.upper) /\ last \in Int
  <2>1. last = LOOPMIN(d.inc, At(d, b + w - 1), d.upper)
    BY SMTT(30), <1>9
  <2>. DEFINE x == At(d, b + w - 1)
  <2>2. x \in Int /\ last = LOOPMIN(d.inc, x, d.upper)
    BY <1>15, <2>1
  <2>. HIDE DEF last, x
  <2>3. LOOPMIN(d.inc, x, d.upper) \in Int
    BY <1>1, <2>2, WithinMin, ZenonT(30)
  <2>. QED  BY SMTT(30), <2>1, <2>2, <2>3
<1>. HIDE DEF last, st
<1>23. /\ \A v \in Int : Within(d.inc, v, last) <=>
              Within(d.inc, v, At(d, b + w - 1)) /\ Within(d.inc, v, d.upper)
       /\ \A v \in Int : Within(d.inc, v, StaticNext(d, TeamSize, t, it).upper) <=>
              Within(d.inc, v, At(d, st + c - 1)) /\ Within(d.inc, v, last)
       /\ StaticNext(d, TeamSize, t, it).upper \in Int
  <2>. DEFINE x == At(d, b + w - 1)
              y == At(d, st + c - 1)
  <2>1. x \in Int /\ last = LOOPMIN(d.inc, x, d.upper)
    BY <1>15, <1>16
  <2>2. y \in Int /\ StaticNext(d, TeamSize, t, it).upper = LOOPMIN(d.inc, y, last)
    BY <1>11, <1>13, <1>15
  <2>. HIDE DEF x, y
  <2>3. \A v \in Int : Within(d.inc, v, LOOPMIN(d.inc, x, d.upper)) <=>
              Within(d.inc, v, x) /\ Within(d.inc, v, d.upper)
    BY <1>1, <2>1, WithinMin, Zenon
  <2>4. /\ LOOPMIN(d.inc, y, last) \in Int
        /\ \A v \in Int : Within(d.inc, v, LOOPMIN(d.inc, y, last)) <=>
              Within(d.inc, v, y) /\ Within(d.inc, v, last)
    <3>1. last \in Int /\ y \in Int /\ d.inc \in Int
      BY SMTT(30), <1>1, <1>16, <2>2
    <3>. QED  BY <3>1, WithinMin, Zenon
  <2>. QED  BY SMTT(30), <2>1, <2>2, <2>3, <2>4 DEF x, y
<1>17. ASSUME NEW k \in Int
       PROVE  Within(d.inc, At(d, k), StaticNext(d, TeamSize, t, it).upper) <=>
              k < st + c /\ k < b + w /\ Within(d.inc, At(d, k), d.upper)
  <2>1. At(d, k) \in Int
    BY AtOrder
  <2>2. Within(d.inc, At(d, k), At(d, st + c - 1)) <=> k <= st + c - 1
    BY <1>14, AtOrder
  <2>3. Within(d.inc, At(d, k), At(d, b + w - 1)) <=> k <= b + w - 1
    BY SMTT(30), <1>14, AtOrder
  <2>4. Within(d.inc, At(d, k), StaticNext(d, TeamSize, t, it).upper) <=>
          Within(d.inc, At(d, k), At(d, st + c - 1)) /\ Within(d.inc, At(d, k), last)
    BY SMTT(30), <1>23, <2>1
  <2>5. Within(d.inc, At(d, k), last) <=>
          Within(d.inc, At(d, k), At(d, b + w - 1)) /\ Within(d.inc, At(d, k), d.upper)
    BY <1>23, <2>1
  <2>6. (k <= st + c - 1 <=> k < st + c) /\ (k <= b + w - 1 <=> k < b + w)
    BY SMTT(30), <1>1, <1>5, <1>12
  <2>. QED  BY ZenonT(30), <2>2, <2>3, <2>4, <2>5, <2>6
<1>18. StaticNext(d, TeamSize, t, it).upper \in Int
  BY <1>23
<1>19. Start(d, t, it) = st /\ BlockEnd(d, t) = b + w
  BY <1>3, <1>4 DEF st
<1>20. st >= b
  BY <1>5 DEF st
<1>21. Start(d, t, it + 1) = st + c
  BY <1>4, <1>5, <1>6, <1>12 DEF st
<1>22. c = d.chunk
  BY SMTT(30) DEF c
<1>. QED  BY SMTT(30), <1>3, <1>10, <1>11, <1>12, <1>17, <1>18, <1>19, <1>20, <1>21, <1>22

(* The piece of __pmp_schedule_next without a chunk, in numbers. *)
LEMMA EvenShare ==
  ASSUME NEW d, IsLoop(d), d.sched = "EVEN", NEW t \in Threads
  PROVE  /\ EvenNext(d, StaticFair, TeamSize, t).lower = At(d, BlockLo(d, t))
         /\ EvenNext(d, StaticFair, TeamSize, t).upper \in Int
         /\ \A k \in Int : Within(d.inc, At(d, k), EvenNext(d, StaticFair, TeamSize, t).upper) <=>
              k < BlockEnd(d, t) /\ Within(d.inc, At(d, k), d.upper)
<1>. DEFINE b == BlockLo(d, t)
            w == BlockLen(d, t)
            f == IF StaticFair THEN FairIndex(Size(d), TeamSize, t) * d.inc
                               ELSE t * PerThread(d, TeamSize)
            g == IF StaticFair THEN (FairChunk(Size(d), TeamSize, t) - 1) * d.inc
                               ELSE PerThread(d, TeamSize) - d.inc
<1>1. d.inc \in Int \ {0} /\ d.lower \in Int /\ d.upper \in Int /\ t \in Nat /\ w \in Int /\ b \in Int
      /\ Per(d) \in Int
  BY SMTT(30), BlockTypes, Constants DEF IsLoop
<1>2. IsFair(d) <=> StaticFair
  BY ProgramAssumption DEF IsFair
<1>3. PerThread(d, TeamSize) = Per(d) * d.inc
  BY DEF PerThread, Per
<1>4. f = b * d.inc /\ g = (w - 1) * d.inc
  <2>1. CASE StaticFair
    BY <1>2, <2>1 DEF BlockLo, BlockLen
  <2>2. CASE ~ StaticFair
    <3>1. b = t * Per(d) /\ w = Per(d)
      BY <1>2, <2>2 DEF BlockLo, BlockLen
    <3>2. f = t * (Per(d) * d.inc) /\ g = Per(d) * d.inc - d.inc
      BY SMTT(30), <1>3, <2>2
    <3>. HIDE DEF f, g, b, w
    <3>. QED  BY <1>1, <3>1, <3>2
  <2>. QED  BY <2>1, <2>2
<1>5. /\ EvenNext(d, StaticFair, TeamSize, t).lower = d.lower + f
      /\ EvenNext(d, StaticFair, TeamSize, t).upper = LOOPMIN(d.inc, d.lower + f + g, d.upper)
  BY DEF EvenNext
<1>. HIDE DEF f, g, b, w
<1>6. d.lower + f = At(d, b)
  BY <1>4 DEF At
<1>7. d.lower + f + g = At(d, b + w - 1)
  <2>1. b + (w - 1) = b + w - 1 /\ w - 1 \in Int
    BY <1>1
  <2>2. At(d, b) + (w - 1) * d.inc = At(d, b + (w - 1))
    BY <1>1, <2>1, AtPlus, ZenonT(30)
  <2>. QED  BY <1>4, <1>6, <2>1, <2>2
<1>8. b + w - 1 \in Int /\ At(d, b + w - 1) \in Int
  BY <1>1, AtOrder
<1>11. /\ EvenNext(d, StaticFair, TeamSize, t).upper \in Int
       /\ \A v \in Int : Within(d.inc, v, EvenNext(d, StaticFair, TeamSize, t).upper) <=>
            Within(d.inc, v, At(d, b + w - 1)) /\ Within(d.inc, v, d.upper)
  <2>. DEFINE x == At(d, b + w - 1)
  <2>1. x \in Int /\ EvenNext(d, StaticFair, TeamSize, t).upper = LOOPMIN(d.inc, x, d.upper)
    BY <1>5, <1>7, <1>8
  <2>. HIDE DEF x
  <2>2. /\ LOOPMIN(d.inc, x, d.upper) \in Int
        /\ \A v \in Int : Within(d.inc, v, LOOPMIN(d.inc, x, d.upper)) <=>
              Within(d.inc, v, x) /\ Within(d.inc, v, d.upper)
    BY <1>1, <2>1, WithinMin, ZenonT(30)
  <2>. QED  BY <2>1, <2>2 DEF x
<1>9. ASSUME NEW k \in Int
      PROVE  Within(d.inc, At(d, k), EvenNext(d, StaticFair, TeamSize, t).upper) <=>
             k < b + w /\ Within(d.inc, At(d, k), d.upper)
  <2>1. At(d, k) \in Int
    BY AtOrder
  <2>2. Within(d.inc, At(d, k), At(d, b + w - 1)) <=> k <= b + w - 1
    BY SMTT(30), <1>8, AtOrder
  <2>3. Within(d.inc, At(d, k), EvenNext(d, StaticFair, TeamSize, t).upper) <=>
          Within(d.inc, At(d, k), At(d, b + w - 1)) /\ Within(d.inc, At(d, k), d.upper)
    BY <1>11, <2>1
  <2>4. k <= b + w - 1 <=> k < b + w
    BY <1>1
  <2>. QED  BY <2>2, <2>3, <2>4
<1>. QED  BY SMTT(30), <1>5, <1>6, <1>9, <1>11 DEF BlockEnd, b, w
=============================================================================
