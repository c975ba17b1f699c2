--------------------------- MODULE LoopTeamProofs ---------------------------
(***************************************************************************)
(* Every iteration is executed once, and ordered regions run in sequence:  *)
(* WorkInv, DataInv and OrderInv are inductive on top of SlotInv.  One lemma *)
(* per step of __pmp_schedule_next, __pmp_loop_alloc, __pmp_loop_free and the *)
(* ordered regions says what the step does to the iterations (...Data) and *)
(* to their order (...Order).                                              *)
(***************************************************************************)
EXTENDS LoopTeamSlots

-----------------------------------------------------------------------------
(* A loop of the program, once its schedule is known. *)
LEMMA LoopOfType ==
  ASSUME NEW p \in Loops
  PROVE  /\ IsLoop(LoopOf(p)) /\ LoopOf(p) \in LoopRecords /\ LoopOf(p).sched \in Kinds
         /\ LoopOf(p).inc \in Int \ {0} /\ LoopOf(p).lower \in Int /\ LoopOf(p).upper \in Int
         /\ LoopOf(p).chunk \in Int
         /\ Trip(LoopOf(p)) \in Nat
         /\ Iterations(Program[p]) = {At(LoopOf(p), k) : k \in Numbers(LoopOf(p))}
         /\ LoopOf(p).lower = Program[p].lower /\ LoopOf(p).inc = Program[p].inc
         /\ LoopOf(p).ordered = Program[p].ordered
<1>1. /\ LoopOf(p) \in LoopRecords
      /\ LoopOf(p).lower = Program[p].lower /\ LoopOf(p).upper = Program[p].upper
      /\ LoopOf(p).inc = Program[p].inc /\ LoopOf(p).ordered = Program[p].ordered
  BY ResolvedType, Zenon DEF LoopOf
<1>2. /\ IsLoop(LoopOf(p)) /\ LoopOf(p).sched \in Kinds /\ LoopOf(p).chunk \in Int
      /\ LoopOf(p).inc \in Int \ {0} /\ LoopOf(p).lower \in Int /\ LoopOf(p).upper \in Int
  BY <1>1, Zenon DEF LoopRecords, IsLoop
<1>3. Trip(LoopOf(p)) \in Nat
  BY <1>2, InTrip, Zenon
<1>4. Iterations(Program[p]) = Iterations(LoopOf(p))
  BY <1>1, Zenon DEF Iterations
<1>. QED  BY <1>1, <1>2, <1>3, <1>4, IterationsAre, Zenon

(* Nothing happens to an iteration. *)
LEMMA KeepWork ==
  ASSUME NEW p, NEW k, WorkAt(p, k),
         \A u \in Threads : Owes(u, p, k)' <=> Owes(u, p, k),
         InPool(p, k)' <=> InPool(p, k), Ran(p, k)' = Ran(p, k)
  PROVE  WorkAt(p, k)'
BY Zenon DEF WorkAt

(* An iteration is handed out. *)
LEMMA GiveWork ==
  ASSUME NEW p, NEW k, WorkAt(p, k), NEW t \in Threads,
         InPool(p, k), ~ InPool(p, k)', Owes(t, p, k)',
         \A u \in Threads \ {t} : Owes(u, p, k)' <=> Owes(u, p, k),
         Ran(p, k)' = Ran(p, k)
  PROVE  WorkAt(p, k)'
BY Zenon DEF WorkAt

(* An iteration is executed. *)
LEMMA DoneWork ==
  ASSUME NEW p, NEW k, WorkAt(p, k), NEW t \in Threads,
         Owes(t, p, k), ~ Owes(t, p, k)',
         \A u \in Threads \ {t} : Owes(u, p, k)' <=> Owes(u, p, k),
         InPool(p, k)' <=> InPool(p, k), Ran(p, k)' = Ran(p, k) + 1
  PROVE  WorkAt(p, k)'
<1>1. /\ Ran(p, k) = 0 /\ ~ InPool(p, k)
      /\ \A u \in Threads : Owes(u, p, k) => u = t
  BY Zenon DEF WorkAt
<1>2. Ran(p, k)' = 1
  BY <1>1
<1>3. \A u \in Threads : ~ Owes(u, p, k)'
  BY <1>1, Zenon
<1>. QED  BY <1>1, <1>2, <1>3 DEF WorkAt

(* What a member owes depends on the member alone. *)
LEMMA SameOwes ==
  ASSUME NEW u \in Threads, pc'[u] = pc[u], at'[u] = at[u], lower'[u] = lower[u],
         upper'[u] = upper[u], iteration'[u] = iteration[u]
  PROVE  \A p, k : Owes(u, p, k)' <=> Owes(u, p, k)
BY Zenon DEF Owes, InPiece, InRest, HasPiece

-----------------------------------------------------------------------------
(* A member in a loop, its structure, and what the invariants say of them. *)
LEMMA AtWork ==
  ASSUME SlotInv, DataInv, NEW t \in Threads, InLoop(t),
         NEW p, at[t] = p, NEW i, slot[t] = i
  PROVE  /\ p \in Loops /\ p \in Nat /\ i \in Slots /\ i = Index(p - 1) /\ loops[i].place = p
         /\ HoldsInv(i, p) /\ StructData(i, p) /\ MemberData(t, p)
<1>0. TypeInv /\ PlaceInv /\ StructInv /\ MemberInv
  BY Zenon DEF SlotInv
<1>1. pc[t] # "between"
  BY Zenon DEF InLoop
<1>2. p \in Loops /\ p \in Nat /\ p >= 1 /\ i \in Slots /\ i = Index(p - 1)
  BY <1>0, <1>1, Place, Zenon
<1>3. loops[i].place = p
  BY <1>0, Zenon DEF MemberInv, Mine
<1>4. HoldsInv(i, p)
  BY <1>0, <1>2, <1>3 DEF StructInv
<1>5. StructData(i, p) /\ MemberData(t, p)
  BY <1>2, <1>3, Zenon DEF DataInv
<1>. QED  BY <1>2, <1>3, <1>4, <1>5, Zenon

(* The structures of other loops. *)
LEMMA OtherSlot ==
  ASSUME SlotInv, NEW j \in Slots, NEW q \in Loops, loops[j].place = q
  PROVE  HoldsInv(j, q) /\ Index(q - 1) = j
<1>1. q \in Nat /\ q # 0
  BY Constants DEF Loops
<1>2. HoldsInv(j, q)
  BY <1>1, Zenon DEF SlotInv, StructInv
<1>. QED  BY <1>2, Zenon DEF HoldsInv

(* What a step of a member inside its loop leaves as it is. *)
Elsewhere(t, p, i) ==
  /\ \A u \in Threads \ {t} :
       /\ pc'[u] = pc[u] /\ lower'[u] = lower[u] /\ upper'[u] = upper[u]
       /\ ticket'[u] = ticket[u] /\ iteration'[u] = iteration[u] /\ my_chunk'[u] = my_chunk[u]
  /\ \A j \in Slots \ {i} : loops'[j].loop = loops[j].loop /\ loops'[j].current = loops[j].current
  /\ \A q \in Loops \ {p} : runs'[q] = runs[q]

(* A step of a member in its loop does nothing to iterations of other      *)
(* loops.                                                                  *)
LEMMA ElsewhereWork ==
  ASSUME SlotInv, WorkInv, DataInv, NEW t \in Threads, Quiet(t), TypeInv',
         NEW p, at[t] = p, NEW i, slot[t] = i, Elsewhere(t, p, i),
         NEW q \in Loops, q # p, NEW k \in Numbers(LoopOf(q))
  PROVE  WorkAt(q, k)'
<1>1. /\ at' = at /\ InLoop(t) /\ InLoop(t)'
      /\ \A j \in Slots : loops'[j].place = loops[j].place
      /\ pc[t] \notin {"free", "unuse"}
  BY Zenon DEF Quiet, InLoop, Inner, SlotInv, TypeInv
<1>2. p \in Loops /\ p \in Nat /\ i \in Slots /\ i = Index(p - 1) /\ loops[i].place = p
  BY <1>1, AtWork
<1>3. WorkAt(q, k)
  BY Zenon DEF WorkInv
<1>4. \A u \in Threads \ {t} : Owes(u, q, k)' <=> Owes(u, q, k)
  BY <1>1, SameOwes, Zenon DEF Elsewhere
<1>5. Owes(t, q, k)' <=> Owes(t, q, k)
  BY <1>1, Zenon DEF Owes, InPiece, InRest
<1>6. Ran(q, k)' = Ran(q, k)
  BY Zenon DEF Ran, Elsewhere
<1>7. InPool(q, k)' <=> InPool(q, k)
  <2>. DEFINE j == Index(q - 1)
  <2>1. q - 1 \in Int
    BY DEF Loops
  <2>2. j \in Slots
    BY <2>1, IndexRange, Zenon
  <2>3. \A u \in Threads : Begun(u, q)' <=> Begun(u, q)
    BY <1>1, Zenon DEF Begun, InLoop, Elsewhere
  <2>4. CASE loops[j].place = q
    <3>1. j # i
      BY <1>2, <2>4, Zenon
    <3>2. loops'[j].place = q /\ loops'[j].current = loops[j].current
      BY <1>1, <2>2, <2>4, <3>1, Zenon DEF Elsewhere
    <3>. QED  BY <2>4, <3>2, Zenon DEF InPool
  <2>5. CASE loops[j].place # q
    <3>1. loops'[j].place # q
      BY <1>1, <2>2, <2>5, Zenon
    <3>. QED  BY <2>3, <2>5, <3>1, Zenon DEF InPool
  <2>. QED  BY <2>4, <2>5, Zenon
<1>. QED  BY <1>3, <1>4, <1>5, <1>6, <1>7, KeepWork, Zenon

(* It leaves the other structures and members as they are. *)
LEMMA ElsewhereData ==
  ASSUME SlotInv, DataInv, NEW t \in Threads, Quiet(t), TypeInv',
         NEW p, at[t] = p, NEW i, slot[t] = i, Elsewhere(t, p, i),
         StructData(i, p)', MemberData(t, p)'
  PROVE  DataInv'
<1>1. /\ at' = at /\ InLoop(t) /\ slot' = slot
      /\ \A j \in Slots : loops'[j].place = loops[j].place
  BY Zenon DEF Quiet, InLoop, Inner
<1>2. p \in Loops /\ p \in Nat /\ i \in Slots /\ i = Index(p - 1) /\ loops[i].place = p
  BY <1>1, AtWork
<1>3. ASSUME NEW j \in Slots, NEW q \in Loops, loops'[j].place = q
      PROVE  StructData(j, q)'
  <2>1. loops[j].place = q
    BY <1>1, <1>3, Zenon
  <2>2. CASE j = i
    BY <1>2, <2>1, <2>2, Zenon
  <2>3. CASE j # i
    <3>1. StructData(j, q) /\ q # p
      BY <1>2, <2>1, <2>3, OtherSlot, Zenon DEF DataInv
    <3>2. loops'[j].loop = loops[j].loop /\ loops'[j].current = loops[j].current
      BY <2>3, Zenon DEF Elsewhere
    <3>3. \A u \in Threads : at[u] = q => pc'[u] = pc[u]
      BY <3>1, Zenon DEF Elsewhere
    <3>. QED  BY <1>1, <3>1, <3>2, <3>3, Zenon DEF StructData
  <2>. QED  BY <2>2, <2>3, Zenon
<1>4. ASSUME NEW u \in Threads, NEW q \in Nat, at'[u] = q
      PROVE  MemberData(u, q)'
  <2>1. CASE u = t
    BY <1>1, <1>4, <2>1, Zenon
  <2>2. CASE u # t
    <3>1. MemberData(u, q) /\ at[u] = q
      BY <1>1, <1>4, Zenon DEF DataInv
    <3>2. /\ pc'[u] = pc[u] /\ lower'[u] = lower[u] /\ upper'[u] = upper[u]
          /\ ticket'[u] = ticket[u] /\ iteration'[u] = iteration[u] /\ my_chunk'[u] = my_chunk[u]
      BY <2>2, Zenon DEF Elsewhere
    <3>3. \A k : InRest(u, q, k)' <=> InRest(u, q, k)
      BY <1>1, <3>2, Zenon DEF InRest
    <3>4. PieceOk(u, q)' <=> PieceOk(u, q)
      BY <3>2, <3>3, Zenon DEF PieceOk
    <3>. QED  BY <3>1, <3>2, <3>4, Zenon DEF MemberData, HasPiece
  <2>. QED  BY <2>1, <2>2, Zenon
<1>. QED  BY <1>3, <1>4, Zenon DEF DataInv

(* The structure and the loop of the member remain to be looked at. *)
LEMMA WorkFrame ==
  ASSUME SlotInv, WorkInv, DataInv, NEW t \in Threads, Quiet(t), TypeInv',
         NEW p, at[t] = p, NEW i, slot[t] = i, Elsewhere(t, p, i), RunsType',
         StructData(i, p)', MemberData(t, p)',
         \A k \in Numbers(LoopOf(p)) : WorkAt(p, k)'
  PROVE  WorkInv' /\ DataInv'
<1>1. DataInv'
  BY ElsewhereData, Zenon
<1>2. \A q \in Loops : \A k \in Numbers(LoopOf(q)) : WorkAt(q, k)'
  BY ElsewhereWork, Zenon
<1>. QED  BY <1>1, <1>2, Zenon DEF WorkInv

(* Iterations of a loop that a member is in. *)
LEMMA PoolAt ==
  ASSUME NEW p, NEW i, i = Index(p - 1), loops[i].place = p, loops'[i].place = p, NEW k
  PROVE  /\ InPool(p, k) <=> ~ IsStatic(p) /\ Within(LoopOf(p).inc, loops[i].current, At(LoopOf(p), k))
         /\ InPool(p, k)' <=> ~ IsStatic(p) /\ Within(LoopOf(p).inc, loops'[i].current, At(LoopOf(p), k))
BY Zenon DEF InPool
-----------------------------------------------------------------------------
(* What a member does inside its loop keeps it there. *)
LEMMA WorkQuiet ==
  ASSUME SlotInv, NEW t \in Threads, Work(t)
  PROVE  Quiet(t) /\ SlotInv' /\ TypeInv' /\ DataTypes' /\ InLoop(t) /\ InLoop(t)'
<1>1. Quiet(t) /\ DataTypes'
  BY WorkStep, Zenon DEF SlotInv
<1>2. SlotInv'
  BY <1>1, QuietStep, Zenon
<1>3. InLoop(t) /\ InLoop(t)'
  BY <1>1, Zenon DEF Quiet, InLoop, Inner, SlotInv, TypeInv
<1>. QED  BY <1>1, <1>2, <1>3, Zenon DEF SlotInv

(* A member takes a piece, or leaves. *)
LEMMA TakeValues ==
  ASSUME SlotInv, NEW t \in Threads, NEW lo, NEW up, NEW last, NEW taken, NEW inc,
         Mine(t).loop.inc = inc, TakeOrFree(t, lo, up, last, taken)
  PROVE  /\ \A u \in Threads \ {t} :
              /\ pc'[u] = pc[u] /\ lower'[u] = lower[u] /\ upper'[u] = upper[u]
              /\ ticket'[u] = ticket[u] /\ iteration'[u] = iteration[u]
         /\ Within(inc, lo, last) =>
              /\ pc'[t] = taken /\ lower'[t] = lo /\ upper'[t] = up /\ ticket'[t] = lo
              /\ iteration'[t] = iteration[t] + 1
         /\ ~ Within(inc, lo, last) => pc'[t] = "free" /\ iteration'[t] = 0
<1>1. /\ DOMAIN pc = Threads /\ DOMAIN lower = Threads /\ DOMAIN upper = Threads
      /\ DOMAIN ticket = Threads /\ DOMAIN iteration = Threads
  BY Zenon DEF SlotInv, TypeInv, DataTypes
<1>2. CASE Within(inc, lo, last)
  BY <1>1, <1>2, Zenon DEF TakeOrFree, Take, Goto, Set
<1>3. CASE ~ Within(inc, lo, last)
  BY <1>1, <1>3, Zenon DEF TakeOrFree, NoPiece, Goto, Set
<1>. QED  BY <1>2, <1>3, Zenon

(* A piece of the block of a static schedule: from number s, as far as     *)
(* number e and the end of the block; what is left starts at e.            *)
LEMMA StaticTaken ==
  ASSUME SlotInv, WorkInv, DataInv, NEW t \in Threads, Work(t), pc[t] = "next",
         NEW p, at[t] = p, NEW i, slot[t] = i, IsStatic(p),
         loops' = loops, UNCHANGED <<my_chunk, runs>>,
         NEW s \in Int, NEW e \in Int, NEW up \in Int, s < e,
         s >= BlockLo(LoopOf(p), t), Start(LoopOf(p), t, iteration[t]) = s,
         Start(LoopOf(p), t, iteration[t] + 1) \in Int,
         Start(LoopOf(p), t, iteration[t] + 1) = e \/ (e >= BlockEnd(LoopOf(p), t) /\ Start(LoopOf(p), t, iteration[t] + 1) >= BlockEnd(LoopOf(p), t)),
         \A k \in Int : Within(LoopOf(p).inc, At(LoopOf(p), k), up) <=>
            k < e /\ k < BlockEnd(LoopOf(p), t) /\ Within(LoopOf(p).inc, At(LoopOf(p), k), LoopOf(p).upper),
         TakeOrFree(t, At(LoopOf(p), s), up, up, "body")
  PROVE  WorkInv' /\ DataInv'
<1>. DEFINE d == LoopOf(p)
            end == BlockEnd(d, t)
<1>1. Quiet(t) /\ TypeInv' /\ InLoop(t) /\ InLoop(t)' /\ at' = at /\ slot' = slot
  BY WorkQuiet, Zenon DEF Quiet
<1>2. /\ p \in Loops /\ p \in Nat /\ i \in Slots /\ i = Index(p - 1) /\ loops[i].place = p
      /\ StructData(i, p) /\ MemberData(t, p)
  BY <1>1, AtWork
<1>3. IsLoop(d) /\ Trip(d) \in Nat /\ Mine(t).loop.inc = d.inc
  BY <1>2, LoopOfType, Zenon DEF StructData, Mine
<1>4. BlockLo(d, t) \in Int /\ end \in Int /\ (BlockLo(d, t) < end => BlockLo(d, t) >= 0)
  BY <1>3, BlockTypes, Zenon
<1>5. /\ \A u \in Threads \ {t} :
            /\ pc'[u] = pc[u] /\ lower'[u] = lower[u] /\ upper'[u] = upper[u]
            /\ ticket'[u] = ticket[u] /\ iteration'[u] = iteration[u]
      /\ Within(d.inc, At(d, s), up) =>
            /\ pc'[t] = "body" /\ lower'[t] = At(d, s) /\ upper'[t] = up /\ ticket'[t] = At(d, s)
            /\ iteration'[t] = iteration[t] + 1
      /\ ~ Within(d.inc, At(d, s), up) => pc'[t] = "free" /\ iteration'[t] = 0
  BY <1>3, TakeValues
<1>6. Elsewhere(t, p, i)
  BY <1>5, Zenon DEF Elsewhere
<1>7. RunsType'
  BY Zenon DEF RunsType, WorkInv
<1>8. StructData(i, p)'
  BY <1>2, Zenon DEF StructData
<1>9. \A k \in Nat : Within(d.inc, At(d, k), d.upper) <=> k < Trip(d)
  BY <1>3, InTrip, Zenon
<1>10. s < end => s \in Nat
  BY <1>4
<1>11. \A k \in Int : Within(d.inc, At(d, s), At(d, k)) <=> s <= k
  BY <1>3, AtOrder, Zenon
<1>12. \A k \in Int : Within(d.inc, At(d, k), up) <=>
          k < e /\ k < end /\ Within(d.inc, At(d, k), d.upper)
  BY Zenon
<1>13. \A k : Owes(t, p, k) <=> s <= k /\ k < end
  BY <1>1, Zenon DEF Owes, InPiece, InRest, HasPiece
<1>14. ~ d.ordered => d.ordered = FALSE
  OBVIOUS
<1>. HIDE DEF d, end
<1>15. CASE Within(d.inc, At(d, s), up)
  <2>1. s < end /\ s \in Nat /\ s < Trip(d)
    BY <1>9, <1>10, <1>12, <1>15, Zenon
  <2>2. \A k \in Int : InRest(t, p, k)' <=> Start(d, t, iteration[t] + 1) <= k /\ k < end
    BY <1>1, <1>5, <1>15, Zenon DEF InRest, d, end
  <2>3. \A k \in Int : k < e => ~ InRest(t, p, k)'
    <3>1. Start(d, t, iteration[t] + 1) \in Int /\ (Start(d, t, iteration[t] + 1) = e \/ (e >= end /\ Start(d, t, iteration[t] + 1) >= end))
      BY Zenon DEF d, end
    <3>. HIDE DEF d
    <3>. QED  BY <1>4, <2>2, <3>1
  <2>4. PieceOk(t, p)'
    <3>1. s \in Numbers(d)
      BY <2>1, <1>3 DEF Numbers
    <3>2. \A k \in Nat : Within(d.inc, At(d, k), up) => k < Trip(d) /\ ~ InRest(t, p, k)'
      BY <1>9, <1>12, <2>3
    <3>. QED  BY <1>5, <1>15, <3>1, <3>2, Zenon DEF PieceOk, d
  <2>5. MemberData(t, p)'
    BY <1>5, <1>15, <2>4, Zenon DEF MemberData, Inner
  <2>6. ASSUME NEW k \in Numbers(d) PROVE WorkAt(p, k)'
    <3>1. k \in Nat /\ k < Trip(d)
      BY <1>3 DEF Numbers
    <3>2. InPiece(t, p, k)' <=> s <= k /\ k < e /\ k < end
      <4>1. InPiece(t, p, k)' <=> Within(d.inc, At(d, s), At(d, k)) /\ Within(d.inc, At(d, k), up)
        BY <1>1, <1>5, <1>15, Zenon DEF InPiece, HasPiece, d
      <4>. QED  BY <1>9, <1>11, <1>12, <3>1, <4>1
    <3>3. Owes(t, p, k)' <=> Owes(t, p, k)
      <4>1. Start(d, t, iteration[t] + 1) \in Int /\ (Start(d, t, iteration[t] + 1) = e \/ (e >= end /\ Start(d, t, iteration[t] + 1) >= end))
        BY Zenon DEF d, end
      <4>2. Owes(t, p, k)' <=> (s <= k /\ k < e /\ k < end) \/ (Start(d, t, iteration[t] + 1) <= k /\ k < end)
        BY <2>2, <3>1, <3>2 DEF Owes
      <4>3. Owes(t, p, k) <=> s <= k /\ k < end
        BY <1>13, Zenon
      <4>. QED  BY <1>4, <3>1, <4>1, <4>2, <4>3
    <3>4. \A u \in Threads : Owes(u, p, k)' <=> Owes(u, p, k)
      BY <1>1, <1>5, <3>3, SameOwes, Zenon
    <3>5. (InPool(p, k)' <=> InPool(p, k)) /\ Ran(p, k)' = Ran(p, k)
      BY Zenon DEF InPool, Ran
    <3>6. WorkAt(p, k)
      BY <1>2, Zenon DEF WorkInv, d
    <3>. QED  BY <3>4, <3>5, <3>6, KeepWork, Zenon
  <2>. QED  BY <1>1, <1>6, <1>7, <1>8, <2>5, <2>6, WorkFrame, Zenon DEF d
<1>16. CASE ~ Within(d.inc, At(d, s), up)
  <2>1. MemberData(t, p)'
    BY <1>5, <1>16, Zenon DEF MemberData, HasPiece
  <2>2. ASSUME NEW k \in Numbers(d) PROVE WorkAt(p, k)'
    <3>1. k \in Nat /\ k < Trip(d)
      BY <1>3 DEF Numbers
    <3>2. ~ (s <= k /\ k < end)
      <4>1. SUFFICES ASSUME s <= k, k < end PROVE FALSE
        BY Zenon
      <4>2. s < end /\ s \in Nat /\ s < Trip(d)
        BY <1>3, <1>4, <1>10, <3>1, <4>1
      <4>. QED  BY <1>9, <1>12, <1>16, <4>2, Zenon
    <3>3. ~ Owes(t, p, k)' /\ ~ Owes(t, p, k)
      <4>1. ~ Owes(t, p, k)
        BY <1>13, <3>2, Zenon
      <4>2. at'[t] = p /\ pc'[t] = "free"
        BY <1>1, <1>5, <1>16, Zenon
      <4>3. ~ InPiece(t, p, k)' /\ ~ InRest(t, p, k)'
        BY <1>2, <4>2 DEF InPiece, InRest, HasPiece
      <4>. QED  BY <4>1, <4>3, Zenon DEF Owes
    <3>4. \A u \in Threads : Owes(u, p, k)' <=> Owes(u, p, k)
      BY <1>1, <1>5, <3>3, SameOwes, Zenon
    <3>5. (InPool(p, k)' <=> InPool(p, k)) /\ Ran(p, k)' = Ran(p, k)
      BY Zenon DEF InPool, Ran
    <3>6. WorkAt(p, k)
      BY <1>2, Zenon DEF WorkInv, d
    <3>. QED  BY <3>4, <3>5, <3>6, KeepWork, Zenon
  <2>. QED  BY <1>1, <1>6, <1>7, <1>8, <2>1, <2>2, WorkFrame, Zenon DEF d
<1>. QED  BY <1>15, <1>16, Zenon

(* The next chunk of a member's block, PMP_SCHED_STATIC. *)
LEMMA NextStaticData ==
  ASSUME SlotInv, WorkInv, DataInv, PositiveChunks, NEW t \in Threads, NextStatic(t)
  PROVE  WorkInv' /\ DataInv'
<1>1. PICK p, i : at[t] = p /\ slot[t] = i
  BY Zenon
<1>2. Work(t) /\ pc[t] = "next" /\ loops' = loops /\ UNCHANGED <<my_chunk, runs>>
  BY Zenon DEF Work, NextStatic, history
<1>3. p \in Loops /\ StructData(i, p)
  BY <1>1, <1>2, WorkQuiet, AtWork, Zenon
<1>. DEFINE d == LoopOf(p)
            share == StaticNext(d, TeamSize, t, iteration[t])
            s == Start(d, t, iteration[t])
            e == s + d.chunk
<1>4. d.sched = "STATIC" /\ Mine(t).loop = d
  BY <1>1, <1>3, Zenon DEF NextStatic, StructData, Mine
<1>5. IsLoop(d) /\ d.chunk \in Nat \ {0} /\ IsStatic(p)
  BY <1>3, <1>4, LoopOfType DEF PositiveChunks, IsStatic
<1>6. iteration[t] \in Nat
  BY Zenon DEF SlotInv, DataTypes
<1>7. /\ s \in Int /\ s >= BlockLo(d, t) /\ Start(d, t, iteration[t] + 1) = e
      /\ share.lower = At(d, s) /\ share.upper \in Int
      /\ \A k \in Int : Within(d.inc, At(d, k), share.upper) <=>
           k < e /\ k < BlockEnd(d, t) /\ Within(d.inc, At(d, k), d.upper)
  BY <1>4, <1>5, <1>6, StaticShare, Zenon
<1>8. TakeOrFree(t, At(d, s), share.upper, share.upper, "body")
  BY <1>4, <1>7, Zenon DEF NextStatic
<1>9. e \in Int /\ s < e
  <2>. HIDE DEF s
  <2>. QED  BY <1>5, <1>7
<1>. HIDE DEF share, s, e
<1>10. Start(d, t, iteration[t]) = s /\ Start(d, t, iteration[t] + 1) \in Int
  BY <1>7, <1>9, Zenon DEF s
<1>. QED  BY <1>1, <1>2, <1>5, <1>7, <1>8, <1>9, <1>10, StaticTaken

(* The whole block of a member at once, PMP_SCHED_STATIC_EVEN. *)
LEMMA NextEvenData ==
  ASSUME SlotInv, WorkInv, DataInv, NEW t \in Threads, NextEven(t)
  PROVE  WorkInv' /\ DataInv'
<1>1. PICK p, i : at[t] = p /\ slot[t] = i
  BY Zenon
<1>2. Work(t) /\ pc[t] = "next" /\ loops' = loops /\ UNCHANGED <<my_chunk, runs>>
  BY Zenon DEF Work, NextEven, history
<1>3. /\ Quiet(t) /\ TypeInv' /\ at' = at /\ p \in Loops /\ p \in Nat
      /\ StructData(i, p)
  BY <1>1, <1>2, WorkQuiet, AtWork, Zenon DEF Quiet
<1>. DEFINE d == LoopOf(p)
            share == EvenNext(d, StaticFair, TeamSize, t)
            s == BlockLo(d, t)
            end == BlockEnd(d, t)
            e == IF s < end THEN end ELSE s + 1
<1>4. d.sched = "EVEN" /\ Mine(t).loop = d
  BY <1>1, <1>3, Zenon DEF NextEven, StructData, Mine
<1>5. IsLoop(d) /\ IsStatic(p)
  BY <1>3, <1>4, LoopOfType, Zenon DEF IsStatic
<1>6. iteration[t] \in Nat
  BY Zenon DEF SlotInv, DataTypes
<1>7. s \in Int /\ end \in Int
  BY <1>5, BlockTypes, Zenon
<1>8. /\ share.lower = At(d, s) /\ share.upper \in Int
      /\ \A k \in Int : Within(d.inc, At(d, k), share.upper) <=>
           k < end /\ Within(d.inc, At(d, k), d.upper)
  BY <1>4, <1>5, EvenShare, Zenon
<1>9. CASE iteration[t] = 0
  <2>1. TakeOrFree(t, At(d, s), share.upper, share.upper, "body")
    BY <1>4, <1>8, <1>9, Zenon DEF NextEven
  <2>2. Start(d, t, iteration[t]) = s /\ Start(d, t, iteration[t] + 1) = end
    BY <1>4, <1>9 DEF Start
  <2>. HIDE DEF share, s, end, d
  <2>3. e \in Int /\ s < e /\ s >= s /\ e >= end
    BY <1>7
  <2>4. \A k \in Int : Within(d.inc, At(d, k), share.upper) <=>
           k < e /\ k < end /\ Within(d.inc, At(d, k), d.upper)
    BY <1>7, <1>8
  <2>5. end >= end
    BY <1>7
  <2>. HIDE DEF e
  <2>. QED  BY SMTT(30), <1>1, <1>2, <1>5, <1>7, <1>8, <2>1, <2>2, <2>3, <2>4, <2>5, StaticTaken DEF d, s, end
<1>10. CASE iteration[t] # 0
  <2>1. NoPiece(t) /\ iteration' = [iteration EXCEPT ![t] = 0] /\ pc' = [pc EXCEPT ![t] = "free"]
    BY <1>10, Zenon DEF NextEven, Set, Goto
  <2>2. /\ \A u \in Threads \ {t} :
             /\ pc'[u] = pc[u] /\ lower'[u] = lower[u] /\ upper'[u] = upper[u]
             /\ ticket'[u] = ticket[u] /\ iteration'[u] = iteration[u]
        /\ pc'[t] = "free" /\ iteration'[t] = 0
    BY <2>1, Zenon DEF NoPiece, SlotInv, TypeInv, DataTypes
  <2>3. Elsewhere(t, p, i)
    BY <1>2, <2>2, Zenon DEF Elsewhere
  <2>4. RunsType' /\ StructData(i, p)'
    BY <1>2, <1>3, <1>5, Zenon DEF RunsType, WorkInv, StructData
  <2>5. MemberData(t, p)'
    BY <2>2, Zenon DEF MemberData, HasPiece
  <2>6. ASSUME NEW k \in Numbers(d) PROVE WorkAt(p, k)'
    <3>1. Start(d, t, iteration[t]) = end /\ k \in Int
      BY <1>4, <1>10 DEF Start, Numbers
    <3>. HIDE DEF end, d
    <3>2. InRest(t, p, k) => end <= k /\ k < end
      BY <1>1, <3>1, Zenon DEF InRest, d, end
    <3>3. ~ Owes(t, p, k)
      BY <1>2, <1>7, <3>1, <3>2 DEF Owes, InPiece, HasPiece
    <3>4. ~ Owes(t, p, k)'
      BY <1>1, <1>3, <2>2 DEF Owes, InPiece, InRest, HasPiece
    <3>5. \A u \in Threads : Owes(u, p, k)' <=> Owes(u, p, k)
      BY <1>3, <2>2, <3>3, <3>4, SameOwes, Zenon
    <3>6. (InPool(p, k)' <=> InPool(p, k)) /\ Ran(p, k)' = Ran(p, k)
      BY <1>2, <1>5, Zenon DEF InPool, Ran
    <3>7. WorkAt(p, k)
      BY <1>3, Zenon DEF WorkInv, d
    <3>. QED  BY <3>5, <3>6, <3>7, KeepWork, Zenon
  <2>. QED  BY <1>1, <1>3, <2>3, <2>4, <2>5, <2>6, WorkFrame, Zenon
<1>. QED  BY <1>9, <1>10, Zenon

(* A piece of m iterations that the addition to loop->current hands out. *)
LEMMA PoolTaken ==
  ASSUME SlotInv, WorkInv, DataInv, NEW t \in Threads, Work(t), pc[t] \in {"next", "add"},
         NEW p, at[t] = p, NEW i, slot[t] = i, ~ IsStatic(p),
         NEW taken \in {"body", "rechunk"}, taken = "rechunk" => LoopOf(p).sched = "GUIDED",
         NEW m \in Nat \ {0}, TakeCurrent(t, LoopOf(p).inc * m, taken), runs' = runs,
         \A u \in Threads \ {t} : my_chunk'[u] = my_chunk[u]
  PROVE  WorkInv' /\ DataInv'
<1>. DEFINE d == LoopOf(p)
<1>1. Quiet(t) /\ TypeInv' /\ InLoop(t) /\ InLoop(t)' /\ at' = at /\ slot' = slot /\ TypeInv /\ DataTypes
  BY WorkQuiet, Zenon DEF Quiet, SlotInv
<1>2. /\ p \in Loops /\ p \in Nat /\ i \in Slots /\ i = Index(p - 1) /\ loops[i].place = p
      /\ StructData(i, p) /\ MemberData(t, p)
  BY <1>1, AtWork
<1>3. /\ IsLoop(d) /\ Trip(d) \in Nat /\ Mine(t).loop.inc = d.inc /\ Mine(t).loop.upper = d.upper
      /\ d.inc \in Int /\ d.upper \in Int
  BY <1>2, LoopOfType, Zenon DEF StructData, Mine
<1>4. PICK c \in Nat : loops[i].current = At(d, c)
  BY <1>2, Zenon DEF StructData
<1>a. PICK b \in Int : b = c + m - 1
  OBVIOUS
<1>. DEFINE last == At(d, b)
            up == LOOPMIN(d.inc, d.upper, last)
<1>. HIDE DEF d
<1>5. At(d, c) + d.inc * m = At(d, c + m) /\ At(d, c + m) - d.inc = last
  <2>0. IsLoop(d) /\ c \in Int /\ m \in Int /\ 1 \in Int
    BY <1>3
  <2>1. At(d, c) + d.inc * m = At(d, c + m)
    BY <2>0, AtPlus, Zenon
  <2>2. b + 1 = c + m
    BY <1>a
  <2>3. At(d, b) + 1 * d.inc = At(d, b + 1)
    BY <2>0, AtPlus, ZenonT(30)
  <2>4. last \in Int
    BY <1>3, AtOrder, Zenon
  <2>5. last + 1 * d.inc = At(d, c + m)
    BY <2>2, <2>3, Zenon
  <2>. HIDE DEF last
  <2>6. At(d, c + m) - d.inc = last
    BY <1>3, <2>4, <2>5
  <2>. QED  BY <2>1, <2>6, Zenon
<1>b. /\ loops' = [loops EXCEPT ![i].current = loops[i].current + d.inc * m]
      /\ TakeOrFree(t, loops[i].current,
                     LOOPMIN(Mine(t).loop.inc, Mine(t).loop.upper,
                             loops[i].current + d.inc * m - Mine(t).loop.inc),
                     Mine(t).loop.upper, taken)
  BY Zenon DEF TakeCurrent, OldCurrent, Mine, d
<1>6. loops' = [loops EXCEPT ![i].current = At(d, c + m)]
  BY <1>b, <1>4, <1>5, Zenon
<1>7. TakeOrFree(t, At(d, c), up, d.upper, taken)
  <2>1. loops[i].current + d.inc * m - Mine(t).loop.inc = last
    <3>. DEFINE y == d.inc * m
                x == At(d, c)
    <3>1. x \in Int /\ y \in Int
      BY <1>3, AtOrder
    <3>2. x + y = At(d, c + m) /\ At(d, c + m) - d.inc = last
      BY <1>5, Zenon
    <3>. HIDE DEF last, x, y
    <3>3. x + y - d.inc = last
      BY <1>3, <3>1, <3>2
    <3>. QED  BY <1>3, <1>4, <3>3, Zenon DEF x, y
  <2>2. LOOPMIN(Mine(t).loop.inc, Mine(t).loop.upper,
                loops[i].current + d.inc * m - Mine(t).loop.inc) = up
    BY <1>3, <2>1, Zenon
  <2>. QED  BY <1>b, <1>3, <1>4, <2>2, Zenon
<1>8. /\ loops'[i].current = At(d, c + m) /\ loops'[i].loop = loops[i].loop
      /\ loops'[i].place = p /\ \A j \in Slots \ {i} : loops'[j] = loops[j]
  <2>1. loops \in [Slots -> Structures]
    BY <1>1, Zenon DEF DataTypes
  <2>. QED  BY <1>2, <1>6, <2>1, Zenon DEF Structures
<1>9. \A k \in Nat : Within(d.inc, At(d, k), d.upper) <=> k < Trip(d)
  BY <1>3, InTrip, Zenon
<1>10. \A j \in Int, k \in Int : Within(d.inc, At(d, j), At(d, k)) <=> j <= k
  BY <1>3, AtOrder, Zenon
<1>11. up \in Int /\ \A k \in Nat : Within(d.inc, At(d, k), up) <=> k < Trip(d) /\ k <= b
  <2>1. last \in Int /\ \A k \in Nat : At(d, k) \in Int
    BY <1>3, AtOrder
  <2>2. \A k \in Nat : Within(d.inc, At(d, k), last) <=> k <= b
    BY <1>10
  <2>. HIDE DEF last
  <2>3. up \in Int /\ \A x \in Int : Within(d.inc, x, up) <=> Within(d.inc, x, d.upper) /\ Within(d.inc, x, last)
    <3>1. d.inc \in Int /\ d.upper \in Int /\ last \in Int
      BY <1>3, <2>1, Zenon
    <3>. QED  BY <3>1, WithinMin, Zenon
  <2>. QED  BY <1>9, <2>1, <2>2, <2>3, Zenon
<1>12. Within(d.inc, At(d, c), d.upper) <=> c < Trip(d)
  BY <1>9, Zenon
<1>. HIDE DEF up, last
<1>13. /\ \A u \in Threads \ {t} :
             /\ pc'[u] = pc[u] /\ lower'[u] = lower[u] /\ upper'[u] = upper[u]
             /\ ticket'[u] = ticket[u] /\ iteration'[u] = iteration[u]
       /\ c < Trip(d) =>
             /\ pc'[t] = taken /\ lower'[t] = At(d, c) /\ upper'[t] = up /\ ticket'[t] = At(d, c)
             /\ iteration'[t] = iteration[t] + 1
       /\ ~ c < Trip(d) => pc'[t] = "free" /\ iteration'[t] = 0
  BY <1>3, <1>7, <1>12, TakeValues, Zenon
<1>14. Elsewhere(t, p, i)
  BY <1>8, <1>13, Zenon DEF Elsewhere
<1>15. RunsType'
  BY Zenon DEF RunsType, WorkInv
<1>16. StructData(i, p)'
  <2>1. c + m \in Nat
    OBVIOUS
  <2>2. ASSUME NEW u \in Threads, at'[u] > p \/ (at'[u] = p /\ pc'[u] \in {"free", "unuse"})
        PROVE  ~ Within(d.inc, At(d, c + m), d.upper)
    <3>1. ~ c < Trip(d)
      <4>1. CASE u = t
        <5>1. pc'[t] \in {"free", "unuse"}
          BY <1>1, <1>2, <2>2, <4>1
        <5>. QED  BY <1>13, <5>1, Zenon
      <4>2. CASE u # t
        <5>1. at[u] > p \/ (at[u] = p /\ pc[u] \in {"free", "unuse"})
          BY <1>1, <1>13, <2>2, <4>2, Zenon
        <5>2. ~ Within(d.inc, At(d, c), d.upper)
          BY <1>2, <1>4, <5>1, Zenon DEF StructData, d
        <5>. QED  BY <1>12, <5>2, Zenon
      <4>. QED  BY <4>1, <4>2, Zenon
    <3>. QED  BY <1>3, <1>9, <2>1, <3>1
  <2>3. /\ loops[i].loop.lower = d.lower /\ loops[i].loop.upper = d.upper /\ loops[i].loop.inc = d.inc
        /\ loops[i].loop.ordered = d.ordered /\ loops[i].loop.sched = d.sched
        /\ d.sched # "GUIDED" => loops[i].loop = d
    BY <1>2, Zenon DEF StructData, d
  <2>. QED  BY <1>8, <2>1, <2>2, <2>3, Zenon DEF StructData, d
<1>17. MemberData(t, p)'
  <2>1. CASE c < Trip(d)
    <3>1. c \in Numbers(d)
      BY <1>3, <2>1 DEF Numbers
    <3>2. \A k \in Nat : Within(d.inc, At(d, k), up) => k < Trip(d) /\ ~ InRest(t, p, k)'
      BY <1>11, Zenon DEF InRest
    <3>3. PieceOk(t, p)'
      <4>1. Within(d.inc, At(d, c), up)
        BY <1>a, <1>11, <2>1
      <4>. QED  BY <1>13, <2>1, <3>1, <3>2, <4>1, Zenon DEF PieceOk, d
    <3>. QED  BY <1>13, <2>1, <3>3, Zenon DEF MemberData, Inner
  <2>2. CASE ~ c < Trip(d)
    BY <1>13, <2>2, Zenon DEF MemberData, HasPiece
  <2>. QED  BY <2>1, <2>2, Zenon
<1>18. ASSUME NEW k \in Numbers(d) PROVE WorkAt(p, k)'
  <2>1. k \in Nat /\ k < Trip(d)
    BY <1>3 DEF Numbers
  <2>2. (InPool(p, k) <=> c <= k) /\ (InPool(p, k)' <=> c + m <= k)
    <3>1. /\ InPool(p, k) <=> Within(d.inc, At(d, c), At(d, k))
          /\ InPool(p, k)' <=> Within(d.inc, At(d, c + m), At(d, k))
      <4>1. i = Index(p - 1) /\ loops[i].place = p /\ loops'[i].place = p /\ ~ IsStatic(p)
        BY <1>2, <1>8
      <4>2. loops[i].current = At(d, c) /\ loops'[i].current = At(d, c + m)
        BY <1>4, <1>8
      <4>. QED  BY <4>1, <4>2, PoolAt, Zenon DEF d
    <3>. QED  BY <1>10, <2>1, <3>1
  <2>3. Ran(p, k)' = Ran(p, k) /\ WorkAt(p, k)
    BY <1>2, Zenon DEF Ran, WorkInv, d
  <2>4. ~ Owes(t, p, k)
    BY Zenon DEF Owes, InPiece, InRest, HasPiece
  <2>5. \A u \in Threads \ {t} : Owes(u, p, k)' <=> Owes(u, p, k)
    BY <1>1, <1>13, SameOwes, Zenon
  <2>6. CASE c < Trip(d)
    <3>1. Owes(t, p, k)' <=> c <= k /\ k <= b
      <4>1. Owes(t, p, k)' <=> Within(d.inc, At(d, c), At(d, k)) /\ Within(d.inc, At(d, k), up)
        BY <1>1, <1>13, <2>6, Zenon DEF Owes, InPiece, InRest, HasPiece, d
      <4>. QED  BY <1>10, <1>11, <2>1, <4>1
    <3>2. CASE c <= k /\ k <= b
      <4>1. InPool(p, k) /\ ~ InPool(p, k)' /\ Owes(t, p, k)'
        BY <1>a, <2>1, <2>2, <3>1, <3>2
      <4>. QED  BY <2>3, <2>5, <4>1, GiveWork, Zenon
    <3>3. CASE ~ (c <= k /\ k <= b)
      <4>1. InPool(p, k)' <=> InPool(p, k)
        BY <1>a, <2>1, <2>2, <3>3
      <4>2. \A u \in Threads : Owes(u, p, k)' <=> Owes(u, p, k)
        BY <2>4, <2>5, <3>1, <3>3, Zenon
      <4>. QED  BY <2>3, <4>1, <4>2, KeepWork, Zenon
    <3>. QED  BY <3>2, <3>3, Zenon
  <2>7. CASE ~ c < Trip(d)
    <3>1. InPool(p, k)' <=> InPool(p, k)
      BY <1>3, <2>1, <2>2, <2>7
    <3>2. ~ Owes(t, p, k)'
      BY <1>1, <1>13, <2>7, Zenon DEF Owes, InPiece, InRest, HasPiece
    <3>. QED  BY <2>3, <2>4, <2>5, <3>1, <3>2, KeepWork, Zenon
  <2>. QED  BY <2>6, <2>7, Zenon
<1>. QED  BY <1>1, <1>14, <1>15, <1>16, <1>17, <1>18, WorkFrame, Zenon DEF d

(* A chunk from the pool, PMP_SCHED_DYNAMIC. *)
LEMMA NextDynamicData ==
  ASSUME SlotInv, WorkInv, DataInv, PositiveChunks, NEW t \in Threads, NextDynamic(t)
  PROVE  WorkInv' /\ DataInv'
<1>1. PICK p, i : at[t] = p /\ slot[t] = i
  BY Zenon
<1>2. Work(t) /\ pc[t] = "next" /\ UNCHANGED <<my_chunk, runs>>
  BY Zenon DEF Work, NextDynamic, history
<1>3. p \in Loops /\ StructData(i, p)
  BY <1>1, <1>2, WorkQuiet, AtWork, Zenon
<1>4. LoopOf(p).sched = "DYNAMIC" /\ Mine(t).loop = LoopOf(p)
  BY <1>1, <1>3, Zenon DEF NextDynamic, StructData, Mine
<1>5. LoopOf(p).chunk \in Nat \ {0} /\ ~ IsStatic(p)
  BY <1>3, <1>4, LoopOfType DEF PositiveChunks, IsStatic
<1>6. TakeCurrent(t, LoopOf(p).inc * LoopOf(p).chunk, "body")
  BY <1>4, Zenon DEF NextDynamic
<1>. QED  BY <1>1, <1>2, <1>5, <1>6, PoolTaken, Zenon

(* A piece from the pool of the size the member has estimated,             *)
(* PMP_SCHED_GUIDED.                                                       *)
LEMMA NextGuidedData ==
  ASSUME SlotInv, WorkInv, DataInv, NEW t \in Threads, NextGuided(t)
  PROVE  WorkInv' /\ DataInv'
<1>1. PICK p, i : at[t] = p /\ slot[t] = i
  BY Zenon
<1>2. Work(t) /\ pc[t] = "add" /\ runs' = runs
  BY Zenon DEF Work, NextGuided, history
<1>3. p \in Loops /\ StructData(i, p) /\ MemberData(t, p)
  BY <1>1, <1>2, WorkQuiet, AtWork, Zenon
<1>4. LoopOf(p).sched = "GUIDED" /\ Mine(t).loop.inc = LoopOf(p).inc /\ ~ IsStatic(p)
      /\ my_chunk[t] \in Nat \ {0}
  BY <1>1, <1>2, <1>3, Zenon DEF StructData, MemberData, Mine, IsStatic
<1>5. TakeCurrent(t, LoopOf(p).inc * my_chunk[t], "rechunk")
  BY <1>4, Zenon DEF NextGuided
<1>6. \A u \in Threads \ {t} : my_chunk'[u] = my_chunk[u]
  BY Zenon DEF NextGuided, Set, SlotInv, DataTypes
<1>7. PICK m \in Nat \ {0} : my_chunk[t] = m
  BY <1>4, Zenon
<1>. QED  BY <1>1, <1>2, <1>4, <1>5, <1>6, <1>7, PoolTaken, Zenon

(* Steps that neither take nor execute anything. *)
LEMMA StillOwes ==
  ASSUME SlotInv, WorkInv, DataInv, NEW t \in Threads, Work(t),
         NEW p, at[t] = p, NEW i, slot[t] = i,
         UNCHANGED <<lower, upper, ticket, iteration, runs>>,
         \A u \in Threads \ {t} : pc'[u] = pc[u] /\ my_chunk'[u] = my_chunk[u],
         HasPiece(t)' <=> HasPiece(t), pc'[t] \in Inner \ {"free"},
         \A j \in Slots \ {i} : loops'[j] = loops[j],
         loops'[i].current = loops[i].current,
         /\ loops'[i].loop.lower = loops[i].loop.lower /\ loops'[i].loop.upper = loops[i].loop.upper
         /\ loops'[i].loop.inc = loops[i].loop.inc /\ loops'[i].loop.ordered = loops[i].loop.ordered
         /\ loops'[i].loop.sched = loops[i].loop.sched,
         LoopOf(p).sched # "GUIDED" => loops'[i].loop = loops[i].loop,
         pc'[t] = "add" => my_chunk'[t] \in Nat \ {0},
         pc'[t] \in {"estimate", "add", "rechunk"} => LoopOf(p).sched = "GUIDED"
  PROVE  WorkInv' /\ DataInv'
<1>1. Quiet(t) /\ TypeInv' /\ InLoop(t) /\ InLoop(t)' /\ at' = at /\ slot' = slot
  BY WorkQuiet, Zenon DEF Quiet
<1>2. /\ p \in Loops /\ p \in Nat /\ i \in Slots /\ i = Index(p - 1) /\ loops[i].place = p
      /\ StructData(i, p) /\ MemberData(t, p) /\ loops'[i].place = p
  BY <1>1, AtWork DEF Quiet
<1>3. Elsewhere(t, p, i)
  BY Zenon DEF Elsewhere
<1>4. RunsType'
  BY Zenon DEF RunsType, WorkInv
<1>5. pc[t] \in Inner \ {"free"}
  BY <1>1, Zenon DEF Quiet
<1>6. \A k : InRest(t, p, k)' <=> InRest(t, p, k)
  BY <1>1, <1>5, Zenon DEF InRest, Inner
<1>7. MemberData(t, p)'
  <2>1. PieceOk(t, p)' <=> PieceOk(t, p)
    BY <1>6, Zenon DEF PieceOk
  <2>. QED  BY <1>2, <2>1, Zenon DEF MemberData
<1>8. StructData(i, p)'
  <2>1. \A u \in Threads : at'[u] > p \/ (at'[u] = p /\ pc'[u] \in {"free", "unuse"}) =>
                           at[u] > p \/ (at[u] = p /\ pc[u] \in {"free", "unuse"})
    BY <1>1, Zenon DEF Inner
  <2>. QED  BY <1>2, <2>1, Zenon DEF StructData
<1>9. ASSUME NEW k \in Numbers(LoopOf(p)) PROVE WorkAt(p, k)'
  <2>1. Owes(t, p, k)' <=> Owes(t, p, k)
    BY <1>1, <1>6, Zenon DEF Owes, InPiece
  <2>2. \A u \in Threads : Owes(u, p, k)' <=> Owes(u, p, k)
    BY <1>1, <2>1, SameOwes, Zenon
  <2>3. InPool(p, k)' <=> InPool(p, k)
    BY <1>2, PoolAt, Zenon
  <2>4. Ran(p, k)' = Ran(p, k) /\ WorkAt(p, k)
    BY <1>2, Zenon DEF Ran, WorkInv
  <2>. QED  BY <2>2, <2>3, <2>4, KeepWork, Zenon
<1>. QED  BY <1>1, <1>3, <1>4, <1>7, <1>8, <1>9, WorkFrame, Zenon

(* Reading loop->chunk and estimating from it take nothing. *)
LEMMA GuidedReads ==
  ASSUME SlotInv, WorkInv, DataInv, NEW t \in Threads, ReadChunk(t) \/ Estimate(t)
  PROVE  WorkInv' /\ DataInv'
<1>1. PICK p, i : at[t] = p /\ slot[t] = i
  BY Zenon
<1>2. /\ Work(t) /\ pc[t] \in {"next", "estimate"} /\ loops' = loops
      /\ UNCHANGED <<lower, upper, ticket, iteration, runs>>
  BY Zenon DEF Work, ReadChunk, Estimate, history, piece
<1>3. p \in Loops /\ StructData(i, p) /\ MemberData(t, p)
  BY <1>1, <1>2, WorkQuiet, AtWork, Zenon
<1>4. LoopOf(p).sched = "GUIDED"
  BY <1>1, <1>3, Zenon DEF ReadChunk, Estimate, StructData, MemberData, Mine
<1>5. /\ \A u \in Threads \ {t} : pc'[u] = pc[u] /\ my_chunk'[u] = my_chunk[u]
      /\ \/ pc'[t] = "estimate"
         \/ pc'[t] = "add" /\ my_chunk'[t] = GuidedChunk(Mine(t).loop, chunk[t], Mine(t).current)
  BY Zenon DEF ReadChunk, Estimate, Goto, Set, SlotInv, TypeInv, DataTypes
<1>6. GuidedChunk(Mine(t).loop, chunk[t], Mine(t).current) \in Nat \ {0}
  <2>1. TypeInv /\ DataTypes /\ chunk[t] \in Int
    BY Zenon DEF SlotInv, DataTypes
  <2>. QED  BY <2>1, MineType, GuidedTypes, Zenon
<1>7. pc'[t] = "add" => my_chunk'[t] \in Nat \ {0}
  BY <1>5, <1>6, Zenon
<1>8. ~ HasPiece(t)' /\ ~ HasPiece(t) /\ pc'[t] \in Inner \ {"free"}
  BY <1>2, <1>5, Zenon DEF HasPiece, Inner
<1>. QED  BY <1>1, <1>2, <1>4, <1>5, <1>7, <1>8, StillOwes, Zenon

(* Storing the next estimate to loop->chunk takes nothing. *)
LEMMA RechunkData ==
  ASSUME SlotInv, WorkInv, DataInv, NEW t \in Threads, Rechunk(t)
  PROVE  WorkInv' /\ DataInv'
<1>1. PICK p, i : at[t] = p /\ slot[t] = i
  BY Zenon
<1>2. /\ Work(t) /\ pc[t] = "rechunk" /\ pc' = [pc EXCEPT ![t] = "body"]
      /\ UNCHANGED <<lower, upper, ticket, iteration, runs, my_chunk>>
  BY Zenon DEF Work, Rechunk, history, piece, Goto
<1>3. p \in Loops /\ i \in Slots /\ StructData(i, p) /\ MemberData(t, p)
  BY <1>1, <1>2, WorkQuiet, AtWork, Zenon
<1>4. LoopOf(p).sched = "GUIDED"
  BY <1>2, <1>3, Zenon DEF MemberData
<1>5. (\A u \in Threads \ {t} : pc'[u] = pc[u]) /\ pc'[t] = "body"
  BY <1>2, Zenon DEF SlotInv, TypeInv
<1>. DEFINE v == IF loops[i].loop.chunk = chunk[t]
                   THEN GuidedRest(Mine(t).loop, upper[t], TeamSize, Divisor, ChunkMax)
                   ELSE loops[i].loop.chunk
<1>6. loops' = [loops EXCEPT ![i].loop.chunk = v]
  BY <1>1, Zenon DEF Rechunk
<1>. HIDE DEF v
<1>7. /\ \A j \in Slots \ {i} : loops'[j] = loops[j]
      /\ loops'[i].current = loops[i].current
      /\ loops'[i].loop.lower = loops[i].loop.lower /\ loops'[i].loop.upper = loops[i].loop.upper
      /\ loops'[i].loop.inc = loops[i].loop.inc /\ loops'[i].loop.ordered = loops[i].loop.ordered
      /\ loops'[i].loop.sched = loops[i].loop.sched
  BY <1>3, <1>6 DEF SlotInv, DataTypes, Structures, LoopRecords
<1>8. HasPiece(t)' /\ HasPiece(t) /\ pc'[t] \in Inner \ {"free"}
  BY <1>2, <1>5, Zenon DEF HasPiece, Inner
<1>. QED  BY <1>1, <1>2, <1>4, <1>5, <1>7, <1>8, StillOwes, Zenon

(* Entering an ordered region executes nothing. *)
LEMMA OrderedData ==
  ASSUME SlotInv, WorkInv, DataInv, NEW t \in Threads, Ordered(t)
  PROVE  WorkInv' /\ DataInv'
<1>1. PICK p, i : at[t] = p /\ slot[t] = i
  BY Zenon
<1>2. /\ Work(t) /\ pc[t] = "body" /\ pc' = [pc EXCEPT ![t] = "ordered"] /\ loops' = loops
      /\ UNCHANGED <<lower, upper, ticket, iteration, runs, my_chunk>>
  BY Zenon DEF Work, Ordered, local, piece, Goto
<1>3. (\A u \in Threads \ {t} : pc'[u] = pc[u]) /\ pc'[t] = "ordered"
  BY <1>2, Zenon DEF SlotInv, TypeInv
<1>4. HasPiece(t)' /\ HasPiece(t) /\ pc'[t] \in Inner \ {"free"}
  BY <1>2, <1>3, Zenon DEF HasPiece, Inner
<1>. QED  BY <1>1, <1>2, <1>3, <1>4, StillOwes, Zenon

(* The end of an iteration. *)
LEMMA AdvanceData ==
  ASSUME SlotInv, WorkInv, DataInv, NEW t \in Threads, Work(t), pc[t] \in {"body", "ordered"},
         NEW p, at[t] = p, NEW i, slot[t] = i, NEW next, Advance(t, next),
         LoopOf(p).ordered => next = lower[t] + LoopOf(p).inc,
         UNCHANGED <<iteration, my_chunk>>,
         \A j \in Slots : loops'[j].loop = loops[j].loop /\ loops'[j].current = loops[j].current
  PROVE  WorkInv' /\ DataInv'
<1>. DEFINE d == LoopOf(p)
<1>1. Quiet(t) /\ TypeInv' /\ InLoop(t) /\ InLoop(t)' /\ at' = at /\ slot' = slot
  BY WorkQuiet, Zenon DEF Quiet
<1>2. /\ p \in Loops /\ p \in Nat /\ i \in Slots /\ i = Index(p - 1) /\ loops[i].place = p
      /\ StructData(i, p) /\ MemberData(t, p) /\ loops'[i].place = p
  BY <1>1, AtWork DEF Quiet
<1>3. /\ IsLoop(d) /\ Trip(d) \in Nat /\ d.inc \in Int /\ Mine(t).loop.inc = d.inc
      /\ Iterations(Program[p]) = {At(d, k) : k \in Numbers(d)}
  BY <1>2, LoopOfType, Zenon DEF StructData, Mine
<1>4. HasPiece(t) /\ PieceOk(t, p)
  BY <1>2, Zenon DEF MemberData, HasPiece
<1>. HIDE DEF d
<1>5. PICK a \in Numbers(d) : lower[t] = At(d, a)
  BY <1>4, Zenon DEF PieceOk, d
<1>6. /\ Within(d.inc, lower[t], upper[t])
      /\ \A k \in Nat : Within(d.inc, At(d, k), upper[t]) => k < Trip(d) /\ ~ InRest(t, p, k)
  BY <1>4, Zenon DEF PieceOk, d
<1>7. a \in Nat /\ a + 1 \in Nat /\ a < Trip(d)
  BY <1>3 DEF Numbers
<1>8. lower[t] + d.inc = At(d, a + 1)
  <2>1. At(d, a) + 1 * d.inc = At(d, a + 1) /\ At(d, a) \in Int
    <3>1. IsLoop(d) /\ a \in Int /\ 1 \in Int
      BY <1>3, <1>7
    <3>. QED  BY <3>1, AtPlus, AtOrder, Zenon
  <2>. QED  BY <1>3, <1>5, <2>1
<1>9. \A j \in Nat, k \in Nat :
        /\ At(d, j) \in Int
        /\ Within(d.inc, At(d, j), At(d, k)) <=> j <= k
        /\ At(d, j) = At(d, k) => j = k
  BY <1>3, AtOrder
<1>10. upper[t] \in Int
  BY Zenon DEF SlotInv, DataTypes
<1>11. runs' = [runs EXCEPT ![p][At(d, a)] = @ + 1]
  BY <1>5, Zenon DEF Advance
<1>12. RunsType' /\ \A q \in Loops \ {p} : runs'[q] = runs[q]
  <2>1. RunsType
    BY Zenon DEF WorkInv
  <2>. QED  BY <1>2, <1>11, <2>1, Zenon DEF RunsType
<1>13. /\ Ran(p, a)' = Ran(p, a) + 1
       /\ \A k \in Numbers(d) : k # a => Ran(p, k)' = Ran(p, k)
  <2>1. p \in DOMAIN runs /\ DOMAIN runs[p] = {At(d, k) : k \in Numbers(d)}
    BY <1>2, <1>3, Zenon DEF WorkInv, RunsType
  <2>2. \A k \in Numbers(d) : At(d, k) \in DOMAIN runs[p] /\ (At(d, k) = At(d, a) => k = a)
    BY <1>3, <1>9, <2>1 DEF Numbers
  <2>3. runs'[p] = [runs[p] EXCEPT ![At(d, a)] = runs[p][At(d, a)] + 1]
    BY <1>11, <2>1, Zenon
  <2>4. runs'[p][At(d, a)] = runs[p][At(d, a)] + 1
    BY <1>5, <2>2, <2>3, Zenon
  <2>5. \A k \in Numbers(d) : k # a => runs'[p][At(d, k)] = runs[p][At(d, k)]
    BY <2>2, <2>3, Zenon
  <2>. QED  BY <2>4, <2>5, Zenon DEF Ran, d
<1>14. /\ \A u \in Threads \ {t} : /\ pc'[u] = pc[u] /\ lower'[u] = lower[u]
                                   /\ upper'[u] = upper[u] /\ ticket'[u] = ticket[u]
       /\ Within(d.inc, At(d, a + 1), upper[t]) =>
            /\ pc'[t] = "body" /\ lower'[t] = At(d, a + 1) /\ upper'[t] = upper[t]
            /\ ticket'[t] = next
       /\ ~ Within(d.inc, At(d, a + 1), upper[t]) => pc'[t] = "next"
  <2>1. /\ DOMAIN pc = Threads /\ DOMAIN lower = Threads /\ DOMAIN upper = Threads
        /\ DOMAIN ticket = Threads
    BY Zenon DEF SlotInv, TypeInv, DataTypes
  <2>2. CASE Within(d.inc, At(d, a + 1), upper[t])
    BY <1>3, <1>8, <2>1, <2>2, Zenon DEF Advance, Goto, Set
  <2>3. CASE ~ Within(d.inc, At(d, a + 1), upper[t])
    BY <1>3, <1>8, <2>1, <2>3, Zenon DEF Advance, Goto, NoPiece
  <2>. QED  BY <2>2, <2>3, Zenon
<1>15. Elsewhere(t, p, i)
  BY <1>12, <1>14, Zenon DEF Elsewhere
<1>16. pc'[t] \in {"body", "next"}
  BY <1>14, Zenon
<1>17. \A k : InRest(t, p, k)' <=> InRest(t, p, k)
  BY <1>1, <1>16, Zenon DEF InRest
<1>18. StructData(i, p)'
  <2>1. \A u \in Threads : at'[u] > p \/ (at'[u] = p /\ pc'[u] \in {"free", "unuse"}) =>
                           at[u] > p \/ (at[u] = p /\ pc[u] \in {"free", "unuse"})
    BY <1>1, <1>14, <1>16, Zenon
  <2>2. loops'[i].loop = loops[i].loop /\ loops'[i].current = loops[i].current
    BY <1>2, Zenon
  <2>. QED  BY <1>2, <2>1, <2>2, Zenon DEF StructData
<1>19. MemberData(t, p)'
  <2>1. CASE Within(d.inc, At(d, a + 1), upper[t])
    <3>1. a + 1 \in Numbers(d)
      BY <1>3, <1>6, <1>7, <2>1 DEF Numbers
    <3>2. d.ordered => ticket'[t] = lower'[t]
      BY <1>8, <1>14, <2>1, Zenon DEF d
    <3>3. PieceOk(t, p)'
      BY <1>6, <1>14, <1>17, <2>1, <3>1, <3>2, Zenon DEF PieceOk, d
    <3>. QED  BY <1>14, <2>1, <3>3, Zenon DEF MemberData, Inner
  <2>2. CASE ~ Within(d.inc, At(d, a + 1), upper[t])
    BY <1>14, <2>2, Zenon DEF MemberData, HasPiece, Inner
  <2>. QED  BY <2>1, <2>2, Zenon
<1>20. ASSUME NEW k \in Numbers(d) PROVE WorkAt(p, k)'
  <2>1. k \in Nat /\ k < Trip(d)
    BY <1>3 DEF Numbers
  <2>2. \A u \in Threads \ {t} : Owes(u, p, k)' <=> Owes(u, p, k)
    BY <1>1, <1>14, SameOwes, Zenon
  <2>3. InPool(p, k)' <=> InPool(p, k)
    BY <1>2, PoolAt, Zenon
  <2>4. WorkAt(p, k)
    BY <1>2, Zenon DEF WorkInv, d
  <2>5. InPiece(t, p, k) <=> a <= k /\ Within(d.inc, At(d, k), upper[t])
    <3>1. InPiece(t, p, k) <=> Within(d.inc, At(d, a), At(d, k)) /\ Within(d.inc, At(d, k), upper[t])
      BY <1>4, <1>5, Zenon DEF InPiece, d
    <3>. QED  BY <1>7, <1>9, <2>1, <3>1, Zenon
  <2>6. InPiece(t, p, k)' <=> a + 1 <= k /\ Within(d.inc, At(d, k), upper[t])
    <3>1. CASE Within(d.inc, At(d, a + 1), upper[t])
      <4>1. InPiece(t, p, k)' <=> Within(d.inc, At(d, a + 1), At(d, k)) /\ Within(d.inc, At(d, k), upper[t])
        BY <1>1, <1>14, <3>1, Zenon DEF InPiece, HasPiece, d
      <4>. QED  BY <1>7, <1>9, <2>1, <4>1, Zenon
    <3>2. CASE ~ Within(d.inc, At(d, a + 1), upper[t])
      <4>1. ~ InPiece(t, p, k)'
        BY <1>14, <3>2, Zenon DEF InPiece, HasPiece
      <4>2. ASSUME a + 1 <= k, Within(d.inc, At(d, k), upper[t]) PROVE FALSE
        <5>1. /\ Within(d.inc, At(d, a + 1), At(d, k)) /\ At(d, a + 1) \in Int /\ At(d, k) \in Int
          BY <1>7, <1>9, <2>1, <4>2, Zenon
        <5>2. d.inc \in Int
          BY <1>3, Zenon
        <5>. QED  BY <1>10, <3>2, <4>2, <5>1, <5>2, WithinOrder, Zenon
      <4>. QED  BY <4>1, <4>2, Zenon
    <3>. QED  BY <3>1, <3>2, Zenon
  <2>7. CASE k = a
    <3>1. Owes(t, p, k) /\ ~ Owes(t, p, k)'
      <4>1. Within(d.inc, At(d, k), upper[t]) /\ ~ InRest(t, p, k)
        BY <1>5, <1>6, <2>1, <2>7, Zenon
      <4>. QED  BY SMTT(30), <1>17, <2>1, <2>5, <2>6, <2>7, <4>1 DEF Owes
    <3>2. Ran(p, k)' = Ran(p, k) + 1
      BY <1>13, <2>7, Zenon
    <3>. QED  BY <2>2, <2>3, <2>4, <3>1, <3>2, DoneWork, Zenon
  <2>8. CASE k # a
    <3>1. Owes(t, p, k)' <=> Owes(t, p, k)
      BY <1>7, <1>17, <2>1, <2>5, <2>6, <2>8 DEF Owes
    <3>2. Ran(p, k)' = Ran(p, k)
      BY <1>13, <2>8, Zenon
    <3>. QED  BY <2>2, <2>3, <2>4, <3>1, <3>2, KeepWork, Zenon
  <2>. QED  BY <2>7, <2>8, Zenon
<1>. QED  BY <1>1, <1>12, <1>15, <1>18, <1>19, <1>20, WorkFrame, Zenon DEF d

(* An iteration of the body outside of ordered regions. *)
LEMMA BodyData ==
  ASSUME SlotInv, WorkInv, DataInv, NEW t \in Threads, Body(t)
  PROVE  WorkInv' /\ DataInv'
<1>1. PICK p, i : at[t] = p /\ slot[t] = i
  BY Zenon
<1>2. /\ Work(t) /\ pc[t] = "body" /\ loops' = loops /\ Advance(t, ticket[t])
      /\ UNCHANGED <<iteration, my_chunk>> /\ ~ Mine(t).loop.ordered
  BY Zenon DEF Work, Body
<1>3. StructData(i, p)
  BY <1>1, <1>2, WorkQuiet, AtWork, Zenon
<1>4. ~ LoopOf(p).ordered
  BY <1>1, <1>2, <1>3, Zenon DEF StructData, Mine
<1>. QED  BY <1>1, <1>2, <1>4, AdvanceData, Zenon

(* An iteration that ends with its ordered region. *)
LEMMA EndOrderedData ==
  ASSUME SlotInv, WorkInv, DataInv, NEW t \in Threads, EndOrdered(t)
  PROVE  WorkInv' /\ DataInv'
<1>1. PICK p, i : at[t] = p /\ slot[t] = i
  BY Zenon
<1>2. /\ Work(t) /\ pc[t] = "ordered" /\ Advance(t, ticket[t] + Mine(t).loop.inc)
      /\ UNCHANGED <<iteration, my_chunk>>
  BY Zenon DEF Work, EndOrdered, NextTicket
<1>3. i \in Slots /\ StructData(i, p) /\ MemberData(t, p)
  BY <1>1, <1>2, WorkQuiet, AtWork, Zenon
<1>4. LoopOf(p).ordered => ticket[t] + Mine(t).loop.inc = lower[t] + LoopOf(p).inc
  BY <1>1, <1>2, <1>3, Zenon DEF StructData, Mine, MemberData, HasPiece, PieceOk
<1>. DEFINE v == loops[i].now_serving + Mine(t).loop.inc
<1>5. loops' = [loops EXCEPT ![i].now_serving = v]
  BY <1>1, Zenon DEF EndOrdered, Mine
<1>. HIDE DEF v
<1>6. \A j \in Slots : loops'[j].loop = loops[j].loop /\ loops'[j].current = loops[j].current
  BY <1>3, <1>5, Zenon DEF SlotInv, DataTypes, Structures
<1>. QED  BY <1>1, <1>2, <1>4, <1>6, AdvanceData, Zenon
-----------------------------------------------------------------------------
(* The member has run out of iterations of loop q. *)
Gone(u, q) == at[u] > q \/ (at[u] = q /\ pc[u] \in {"free", "unuse"})

(* The steps of __pmp_loop_alloc and __pmp_loop_free. *)
Outer(t) ==
  /\ \A u \in Threads \ {t} : pc'[u] = pc[u] /\ at'[u] = at[u]
  /\ \/ /\ at'[t] = at[t] /\ pc[t] \in {"between", "claim", "publish", "find"}
        /\ pc'[t] \in {"claim", "find", "publish", "next"}
     \/ at'[t] = at[t] /\ pc[t] = "free" /\ pc'[t] = "unuse"
     \/ at'[t] = at[t] + 1 /\ pc[t] \in {"free", "unuse"} /\ pc'[t] = "between"
  /\ UNCHANGED <<lower, upper, ticket, iteration, my_chunk, runs>>

(* Entering and leaving loops changes nobody's debts. *)
LEMMA OuterOwes ==
  ASSUME SlotInv, DataInv, NEW t \in Threads, Outer(t), NEW q \in Nat, NEW k
  PROVE  \A u \in Threads : (Owes(u, q, k)' <=> Owes(u, q, k)) /\ (Gone(u, q)' <=> Gone(u, q))
<1>1. \A u \in Threads \ {t} : (Owes(u, q, k)' <=> Owes(u, q, k)) /\ (Gone(u, q)' <=> Gone(u, q))
  BY SameOwes, Zenon DEF Outer, Gone
<1>2. PICK p \in Nat : at[t] = p
  BY Place, Zenon DEF SlotInv
<1>3. iteration'[t] = 0 /\ iteration[t] = 0
  <2>1. MemberData(t, p)
    BY <1>2, Zenon DEF DataInv
  <2>. QED  BY <2>1, Zenon DEF MemberData, Outer, Inner
<1>4. ~ InPiece(t, q, k)' /\ ~ InPiece(t, q, k)
  BY Zenon DEF InPiece, HasPiece, Outer
<1>5. CASE at'[t] = p
  <2>1. pc'[t] \in {"free", "unuse"} <=> pc[t] \in {"free", "unuse"}
    BY <1>2, <1>5 DEF Outer
  <2>. QED  BY <1>1, <1>2, <1>3, <1>4, <1>5, <2>1, Zenon DEF Owes, InRest, Gone
<1>6. CASE at'[t] = p + 1 /\ pc[t] \in {"free", "unuse"} /\ pc'[t] = "between"
  <2>1. InRest(t, q, k)' <=> IsStatic(q) /\ p < q /\ Start(LoopOf(q), t, 0) <= k /\ k < BlockEnd(LoopOf(q), t)
    BY <1>3, <1>6 DEF InRest
  <2>2. InRest(t, q, k) <=> IsStatic(q) /\ p < q /\ Start(LoopOf(q), t, 0) <= k /\ k < BlockEnd(LoopOf(q), t)
    BY <1>2, <1>3, <1>6, Zenon DEF InRest
  <2>3. Gone(t, q)' <=> Gone(t, q)
    BY <1>2, <1>6 DEF Gone
  <2>. QED  BY <1>1, <1>4, <2>1, <2>2, <2>3, Zenon DEF Owes
<1>. QED  BY <1>2, <1>5, <1>6, Zenon DEF Outer

(* The structures, and what they have to hand out, remain. *)
LEMMA OuterFrame ==
  ASSUME SlotInv, WorkInv, DataInv, NEW t \in Threads, Outer(t),
         \A j \in Slots : \A q \in Loops : loops'[j].place = q => StructData(j, q)',
         \A q \in Loops : \A k \in Numbers(LoopOf(q)) : InPool(q, k)' <=> InPool(q, k)
  PROVE  WorkInv' /\ DataInv'
<1>1. ASSUME NEW q \in Loops, NEW k \in Numbers(LoopOf(q)) PROVE WorkAt(q, k)'
  <2>1. \A u \in Threads : Owes(u, q, k)' <=> Owes(u, q, k)
    BY OuterOwes DEF Loops
  <2>2. Ran(q, k)' = Ran(q, k) /\ WorkAt(q, k)
    BY Zenon DEF Ran, WorkInv, Outer
  <2>. QED  BY <2>1, <2>2, KeepWork, Zenon
<1>2. RunsType'
  BY Zenon DEF WorkInv, RunsType, Outer
<1>3. ASSUME NEW u \in Threads, NEW q \in Nat, at'[u] = q PROVE MemberData(u, q)'
  <2>1. CASE u = t
    <3>1. PICK p \in Nat : at[t] = p
      BY Place, Zenon DEF SlotInv
    <3>2. MemberData(t, p)
      BY <3>1, Zenon DEF DataInv
    <3>3. iteration'[t] = 0 /\ pc'[t] \in {"claim", "find", "publish", "next", "unuse", "between"}
      BY <3>2, Zenon DEF MemberData, Outer, Inner
    <3>. QED  BY <2>1, <3>3, Zenon DEF MemberData, HasPiece
  <2>2. CASE u # t
    <3>1. MemberData(u, q) /\ at[u] = q /\ at'[u] = at[u]
      BY <1>3, <2>2, Zenon DEF DataInv, Outer
    <3>2. /\ pc'[u] = pc[u] /\ lower'[u] = lower[u] /\ upper'[u] = upper[u]
          /\ ticket'[u] = ticket[u] /\ iteration'[u] = iteration[u] /\ my_chunk'[u] = my_chunk[u]
      BY <2>2, Zenon DEF Outer
    <3>3. \A k : InRest(u, q, k)' <=> InRest(u, q, k)
      BY <3>1, <3>2, Zenon DEF InRest
    <3>4. PieceOk(u, q)' <=> PieceOk(u, q)
      BY <3>2, <3>3, Zenon DEF PieceOk
    <3>. QED  BY <3>1, <3>2, <3>4, Zenon DEF MemberData, HasPiece
  <2>. QED  BY <2>1, <2>2, Zenon
<1>. QED  BY <1>1, <1>2, <1>3, Zenon DEF WorkInv, DataInv

(* A structure that is not written to still describes its loop. *)
LEMMA SameStruct ==
  ASSUME SlotInv, DataInv, NEW t \in Threads, Outer(t), NEW j \in Slots, NEW q \in Loops,
         loops[j].place = q, loops'[j].loop = loops[j].loop, loops'[j].current = loops[j].current
  PROVE  StructData(j, q)'
<1>1. StructData(j, q)
  BY Zenon DEF DataInv
<1>2. \A u \in Threads : Gone(u, q)' <=> Gone(u, q)
  <2>1. q \in Nat
    BY DEF Loops
  <2>2. \A u \in Threads : (Owes(u, q, 0)' <=> Owes(u, q, 0)) /\ (Gone(u, q)' <=> Gone(u, q))
    BY <2>1, OuterOwes, Zenon
  <2>. QED  BY <2>2, Zenon
<1>. QED  BY <1>1, <1>2, Zenon DEF StructData, Gone

(* What is to be handed out is the same while the structure and the        *)
(* members stay.                                                           *)
LEMMA SamePool ==
  ASSUME NEW q \in Loops, NEW k,
         \A j \in Slots : j = Index(q - 1) =>
           \/ loops[j].place = q /\ loops'[j].place = q /\ loops'[j].current = loops[j].current
           \/ /\ loops[j].place # q /\ loops'[j].place # q
              /\ \A u \in Threads : Begun(u, q)' <=> Begun(u, q)
  PROVE  InPool(q, k)' <=> InPool(q, k)
<1>1. Index(q - 1) \in Slots
  BY IndexRange DEF Loops
<1>2. CASE loops[Index(q - 1)].place = q
  BY <1>1, <1>2, Zenon DEF InPool
<1>3. CASE loops[Index(q - 1)].place # q
  BY <1>1, <1>3, Zenon DEF InPool
<1>. QED  BY <1>2, <1>3, Zenon

(* The counters and the id hand out nothing. *)
LEMMA LoopAllocData ==
  ASSUME SlotInv, WorkInv, DataInv, NEW t \in Threads, LoopAlloc(t) \/ Publish(t)
  PROVE  WorkInv' /\ DataInv'
<1>1. /\ \/ pc[t] = "between" /\ pc'[t] \in {"claim", "find"}
         \/ pc[t] = "publish" /\ pc'[t] = "next"
      /\ at' = at /\ \A u \in Threads \ {t} : pc'[u] = pc[u]
  BY Zenon DEF LoopAlloc, Publish, Goto, SlotInv, TypeInv
<1>2. UNCHANGED <<lower, upper, ticket, iteration, my_chunk, runs>>
  BY Zenon DEF LoopAlloc, Publish, local, piece, history
<1>3. \A j \in Slots : /\ loops'[j].place = loops[j].place /\ loops'[j].loop = loops[j].loop
                       /\ loops'[j].current = loops[j].current
  <2>1. CASE LoopAlloc(t)
    BY <2>1, Zenon DEF LoopAlloc
  <2>2. CASE Publish(t)
    <3>. DEFINE v == IF loops[slot[t]].loop_id = UNUSED THEN MyId(t) ELSE loops[slot[t]].loop_id
    <3>1. loops' = [loops EXCEPT ![slot[t]].loop_id = v]
      BY <2>2, Zenon DEF Publish
    <3>2. loops \in [Slots -> Structures]
      BY Zenon DEF SlotInv, DataTypes
    <3>. HIDE DEF v
    <3>. QED  BY <3>1, <3>2, Zenon DEF Structures
  <2>. QED  BY <2>1, <2>2, Zenon
<1>4. Outer(t)
  BY <1>1, <1>2, Zenon DEF Outer
<1>5. \A u \in Threads, q \in Loops : Begun(u, q)' <=> Begun(u, q)
  BY <1>1, Zenon DEF Begun, InLoop
<1>6. \A q \in Loops : \A k \in Numbers(LoopOf(q)) : InPool(q, k)' <=> InPool(q, k)
  BY <1>3, <1>5, SamePool, Zenon
<1>7. \A j \in Slots : \A q \in Loops : loops'[j].place = q => StructData(j, q)'
  BY <1>3, <1>4, SameStruct, Zenon
<1>. QED  BY <1>4, <1>6, <1>7, OuterFrame, Zenon

(* A later member joins its loop. *)
LEMMA FindData ==
  ASSUME SlotInv, WorkInv, DataInv, NEW t \in Threads, Find(t)
  PROVE  WorkInv' /\ DataInv'
<1>1. /\ pc[t] = "find" /\ pc'[t] = "next" /\ at' = at /\ loops' = loops
      /\ \A u \in Threads \ {t} : pc'[u] = pc[u]
      /\ Mine(t).loop_id = MyId(t)
  BY Zenon DEF Find, Goto, SlotInv, TypeInv
<1>2. UNCHANGED <<lower, upper, ticket, iteration, my_chunk, runs>>
  BY Zenon DEF Find, local, piece, history
<1>3. Outer(t)
  BY <1>1, <1>2, Zenon DEF Outer
<1>4. loops[Index(at[t] - 1)].place = at[t]
  <2>1. Mine(t).place = at[t]
    BY <1>1, RightLoop, Zenon
  <2>2. slot[t] = Index(at[t] - 1)
    BY <1>1, Place, Zenon DEF SlotInv
  <2>. QED  BY <2>1, <2>2, Zenon DEF Mine
<1>5. ASSUME NEW q \in Loops, NEW k \in Numbers(LoopOf(q))
      PROVE  InPool(q, k)' <=> InPool(q, k)
  <2>1. CASE q = at[t]
    BY <1>1, <1>4, <2>1, SamePool, Zenon
  <2>2. CASE q # at[t]
    <3>1. \A u \in Threads : Begun(u, q)' <=> Begun(u, q)
      BY <1>1, <2>2, Zenon DEF Begun, InLoop
    <3>. QED  BY <1>1, <3>1, SamePool, Zenon
  <2>. QED  BY <2>1, <2>2, Zenon
<1>6. \A j \in Slots : \A q \in Loops : loops'[j].place = q => StructData(j, q)'
  BY <1>1, <1>3, SameStruct, Zenon
<1>. QED  BY <1>3, <1>5, <1>6, OuterFrame, Zenon

(* A structure starts its loop with all iterations to be handed out. *)
LEMMA ClaimData ==
  ASSUME SlotInv, WorkInv, DataInv, NEW t \in Threads, Claim(t)
  PROVE  WorkInv' /\ DataInv'
<1>0. TypeInv /\ DataTypes /\ PlaceInv /\ ClaimInv
  BY Zenon DEF SlotInv
<1>1. PICK p \in Nat, i \in Slots : at[t] = p /\ slot[t] = i
  BY <1>0, Place, Zenon
<1>. DEFINE d == LoopOf(p)
            held == [loop_id |-> loops[i].loop_id, looping_threads |-> TeamSize,
                     now_serving |-> d.lower, current |-> d.lower, place |-> p, loop |-> d]
<1>2. /\ pc[t] = "claim" /\ loops[i].loop_id = UNUSED /\ loops' = [loops EXCEPT ![i] = held]
      /\ pc' = [pc EXCEPT ![t] = "publish"] /\ at' = at
      /\ UNCHANGED <<lower, upper, ticket, iteration, my_chunk, runs>>
  BY <1>1, Zenon DEF Claim, Claimable, Mine, Goto, local, piece, history, LoopOf
<1>3. p \in Loops /\ i = Index(p - 1)
  BY <1>0, <1>1, <1>2, Place, Zenon
<1>4. loops[i].place = 0
  BY <1>1, <1>2, EmptySlot, Zenon
<1>5. held.current = d.lower /\ held.place = p /\ held.loop = d
  BY Zenon
<1>. HIDE DEF held
<1>6. loops'[i] = held /\ \A j \in Slots \ {i} : loops'[j] = loops[j]
  BY <1>0, <1>2, Zenon DEF DataTypes
<1>7. (\A u \in Threads \ {t} : pc'[u] = pc[u]) /\ pc'[t] = "publish"
  BY <1>0, <1>2, Zenon DEF TypeInv
<1>8. Outer(t)
  BY <1>2, <1>7, Zenon DEF Outer
<1>9. \A u \in Threads \ {t} : at[u] < p \/ (at[u] = p /\ pc[u] \in {"between", "find"})
  BY <1>0, <1>1, <1>2, Zenon DEF ClaimInv
<1>10. \A u \in Threads : at[u] \in Nat
  BY <1>0, Place, Zenon
<1>11. \A u \in Threads : ~ Gone(u, p)' /\ ~ Begun(u, p)
  BY <1>1, <1>2, <1>7, <1>9, <1>10 DEF Gone, Begun, InLoop
<1>12. IsLoop(d) /\ At(d, 0) = d.lower
  <2>1. IsLoop(d) /\ 0 \in Int
    BY <1>3, LoopOfType
  <2>. QED  BY <2>1, AtPlus, Zenon
<1>13. StructData(i, p)'
  <2>1. loops'[i].loop = d /\ loops'[i].current = At(d, 0) /\ 0 \in Nat
    BY <1>5, <1>6, <1>12, Zenon
  <2>. QED  BY <1>11, <2>1, Zenon DEF StructData, Gone
<1>14. ASSUME NEW j \in Slots, NEW q \in Loops, loops'[j].place = q
       PROVE  StructData(j, q)'
  <2>1. CASE j = i
    BY <1>5, <1>6, <1>13, <1>14, <2>1, Zenon
  <2>2. CASE j # i
    BY <1>6, <1>8, <1>14, <2>2, SameStruct, Zenon
  <2>. QED  BY <2>1, <2>2, Zenon
<1>15. ASSUME NEW q \in Loops, NEW k \in Numbers(LoopOf(q))
       PROVE  InPool(q, k)' <=> InPool(q, k)
  <2>1. CASE q = p
    <3>1. InPool(p, k) <=> ~ IsStatic(p)
      <4>1. loops[Index(p - 1)].place # p
        BY <1>3, <1>4 DEF Loops
      <4>. QED  BY <1>11, <4>1, Zenon DEF InPool
    <3>2. InPool(p, k)' <=> ~ IsStatic(p)
      <4>1. loops'[Index(p - 1)].place = p /\ loops'[Index(p - 1)].current = At(d, 0)
        BY <1>3, <1>5, <1>6, <1>12, Zenon
      <4>2. k \in Int /\ 0 <= k /\ 0 \in Int
        BY <1>3, <2>1, LoopOfType DEF Numbers
      <4>3. Within(d.inc, At(d, 0), At(d, k))
        BY <1>12, <4>2, AtOrder, Zenon
      <4>. QED  BY <4>1, <4>3, Zenon DEF InPool
    <3>. QED  BY <2>1, <3>1, <3>2, Zenon
  <2>2. CASE q # p
    <3>1. \A u \in Threads : Begun(u, q)' <=> Begun(u, q)
      BY <1>1, <1>2, <1>7, <2>2, Zenon DEF Begun, InLoop
    <3>2. CASE Index(q - 1) = i
      BY SMTT(30), <1>4, <1>5, <1>6, <2>2, <3>1, <3>2, SamePool DEF Loops
    <3>3. CASE Index(q - 1) # i
      BY <1>6, <3>1, <3>3, SamePool, Zenon
    <3>. QED  BY <3>2, <3>3, Zenon
  <2>. QED  BY <2>1, <2>2, Zenon
<1>. QED  BY <1>8, <1>14, <1>15, OuterFrame, Zenon

(* A member leaves when nothing is left for it. *)
LEMMA LoopFreeData ==
  ASSUME SlotInv, WorkInv, DataInv, NEW t \in Threads, LoopFree(t)
  PROVE  WorkInv' /\ DataInv'
<1>0. TypeInv /\ DataTypes /\ PlaceInv
  BY Zenon DEF SlotInv
<1>1. PICK p \in Nat, i \in Slots : at[t] = p /\ slot[t] = i
  BY <1>0, Place, Zenon
<1>2. /\ pc[t] = "free" /\ loops' = [loops EXCEPT ![i].looping_threads = loops[i].looping_threads - 1]
      /\ UNCHANGED <<lower, upper, ticket, iteration, my_chunk, runs>>
  BY <1>1, Zenon DEF LoopFree, local, piece, history
<1>3. \A j \in Slots : /\ loops'[j].place = loops[j].place /\ loops'[j].loop = loops[j].loop
                       /\ loops'[j].current = loops[j].current
  <2>. DEFINE v == loops[i].looping_threads - 1
  <2>1. loops' = [loops EXCEPT ![i].looping_threads = v]
    BY <1>2, Zenon
  <2>. HIDE DEF v
  <2>. QED  BY <1>0, <2>1, Zenon DEF DataTypes, Structures
<1>4. /\ \A u \in Threads \ {t} : pc'[u] = pc[u] /\ at'[u] = at[u]
      /\ (pc'[t] = "unuse" /\ at'[t] = p) \/ (pc'[t] = "between" /\ at'[t] = p + 1)
  BY <1>0, <1>1, Zenon DEF LoopFree, Goto, Set, TypeInv
<1>5. Outer(t)
  BY <1>1, <1>2, <1>4, Zenon DEF Outer
<1>6. \A u \in Threads, q \in Loops : Begun(u, q)' <=> Begun(u, q)
  BY <1>1, <1>2, <1>4 DEF Begun, InLoop, Loops
<1>7. \A q \in Loops : \A k \in Numbers(LoopOf(q)) : InPool(q, k)' <=> InPool(q, k)
  BY <1>3, <1>6, SamePool, Zenon
<1>8. \A j \in Slots : \A q \in Loops : loops'[j].place = q => StructData(j, q)'
  BY <1>3, <1>5, SameStruct, Zenon
<1>. QED  BY <1>5, <1>7, <1>8, OuterFrame, Zenon

(* The structure is freed when nothing is left in it. *)
LEMMA UnuseData ==
  ASSUME SlotInv, WorkInv, DataInv, NEW t \in Threads, Unuse(t)
  PROVE  WorkInv' /\ DataInv'
<1>0. TypeInv /\ DataTypes /\ PlaceInv
  BY Zenon DEF SlotInv
<1>1. PICK p \in Nat, i \in Slots : at[t] = p /\ slot[t] = i
  BY <1>0, Place, Zenon
<1>2. /\ pc[t] = "unuse" /\ loops' = [loops EXCEPT ![i] = Free]
      /\ UNCHANGED <<lower, upper, ticket, iteration, my_chunk, runs>>
  BY <1>1, Zenon DEF Unuse, local, piece, history
<1>3. /\ \A u \in Threads \ {t} : pc'[u] = pc[u] /\ at'[u] = at[u]
      /\ pc'[t] = "between" /\ at'[t] = p + 1
  BY <1>0, <1>1, Zenon DEF Unuse, Goto, Set, TypeInv
<1>4. loops'[i].place = 0 /\ \A j \in Slots \ {i} : loops'[j] = loops[j]
  BY <1>0, <1>2, Zenon DEF DataTypes, Free
<1>5. p \in Loops /\ i = Index(p - 1) /\ loops[i].place = p /\ StructData(i, p)
  BY <1>1, <1>2, AtWork, Zenon DEF InLoop
<1>6. Outer(t)
  BY <1>1, <1>2, <1>3, Zenon DEF Outer
<1>7. ASSUME NEW j \in Slots, NEW q \in Loops, loops'[j].place = q
      PROVE  StructData(j, q)'
  <2>1. j # i
    BY <1>4, <1>7 DEF Loops
  <2>. QED  BY <1>4, <1>6, <1>7, <2>1, SameStruct, Zenon
<1>8. ASSUME NEW q \in Loops, NEW k \in Numbers(LoopOf(q))
      PROVE  InPool(q, k)' <=> InPool(q, k)
  <2>1. CASE q = p
    <3>. DEFINE d == LoopOf(p)
    <3>1. ~ InPool(p, k)'
      <4>1. Begun(t, p)' /\ loops'[Index(p - 1)].place # p
        BY <1>3, <1>4, <1>5 DEF Begun, Loops
      <4>. QED  BY <4>1, Zenon DEF InPool
    <3>2. ASSUME InPool(p, k) PROVE FALSE
      <4>1. ~ IsStatic(p) /\ Within(d.inc, loops[i].current, At(d, k))
        BY <1>5, <3>2, Zenon DEF InPool
      <4>2. ~ Within(d.inc, loops[i].current, d.upper)
        BY <1>1, <1>2, <1>5, <4>1, Zenon DEF StructData
      <4>3. IsLoop(d) /\ d.inc \in Int /\ d.upper \in Int /\ loops[i].current \in Int
        BY <1>0, <1>5, LoopOfType, Zenon DEF DataTypes, Structures
      <4>4. k \in Nat /\ k < Trip(d) /\ k \in Int
        BY <1>5, <2>1, LoopOfType DEF Numbers
      <4>5. At(d, k) \in Int /\ Within(d.inc, At(d, k), d.upper)
        BY <4>3, <4>4, InTrip, AtOrder, Zenon
      <4>. HIDE DEF d
      <4>. QED  BY <4>1, <4>2, <4>3, <4>5, WithinOrder, Zenon
    <3>. QED  BY <2>1, <3>1, <3>2, Zenon
  <2>2. CASE q # p
    <3>1. \A u \in Threads : Begun(u, q)' <=> Begun(u, q)
      BY SMTT(30), <1>1, <1>2, <1>3, <2>2 DEF Begun, InLoop, Loops
    <3>2. CASE Index(q - 1) = i
      BY SMTT(30), <1>4, <1>5, <2>2, <3>1, <3>2, SamePool DEF Loops
    <3>3. CASE Index(q - 1) # i
      BY <1>4, <3>1, <3>3, SamePool, Zenon
    <3>. QED  BY <3>2, <3>3, Zenon
  <2>. QED  BY <2>1, <2>2, Zenon
<1>. QED  BY <1>6, <1>7, <1>8, OuterFrame, Zenon

(* At first nothing has been handed out or executed. *)
LEMMA DataInit ==
  ASSUME Init
  PROVE  WorkInv /\ DataInv
<1>1. /\ at = [t \in Threads |-> 1] /\ pc = [t \in Threads |-> "between"]
      /\ iteration = [t \in Threads |-> 0]
      /\ \A i \in Slots : loops[i].place = 0
      /\ runs = [p \in Loops |-> [v \in Iterations(Program[p]) |-> 0]]
  BY Zenon DEF Init, Slots, Free
<1>2. RunsType
  BY <1>1, Zenon DEF RunsType
<1>3. DataInv
  BY <1>1 DEF DataInv, MemberData, HasPiece, Loops
<1>4. ASSUME NEW p \in Loops, NEW k \in Numbers(LoopOf(p)) PROVE WorkAt(p, k)
  <2>. DEFINE d == LoopOf(p)
  <2>1. IsLoop(d) /\ d.chunk \in Int /\ d.sched \in Kinds /\ Iterations(Program[p]) = {At(d, j) : j \in Numbers(d)}
    BY LoopOfType, Zenon
  <2>2. Ran(p, k) = 0
    BY <1>1, <2>1, Zenon DEF Ran
  <2>3. p >= 1 /\ Index(p - 1) \in Slots
    BY IndexRange DEF Loops
  <2>4. InPool(p, k) <=> ~ IsStatic(p)
    <3>1. loops[Index(p - 1)].place # p /\ \A t \in Threads : ~ Begun(t, p)
      BY <1>1, <2>3 DEF Begun, InLoop, Loops
    <3>. QED  BY <3>1, Zenon DEF InPool
  <2>5. \A t \in Threads : Owes(t, p, k) <=> IsStatic(p) /\ InBlock(d, t, k)
    <3>1. SUFFICES ASSUME NEW t \in Threads
                   PROVE  Owes(t, p, k) <=> IsStatic(p) /\ InBlock(d, t, k)
      BY Zenon
    <3>2. BlockLo(d, t) \in Int
      BY <2>1, BlockTypes, Zenon
    <3>3. Start(d, t, 0) = BlockLo(d, t)
      BY <2>1, <3>2 DEF Start
    <3>4. ~ InPiece(t, p, k)
      BY <1>1, Zenon DEF InPiece, HasPiece
    <3>5. at[t] = 1 /\ pc[t] = "between" /\ iteration[t] = 0 /\ (1 < p \/ 1 = p)
      BY <1>1, <2>3 DEF Loops
    <3>6. InRest(t, p, k) <=> IsStatic(p) /\ Start(d, t, 0) <= k /\ k < BlockEnd(d, t)
      BY <3>5, Zenon DEF InRest
    <3>. QED  BY <3>3, <3>4, <3>6, Zenon DEF Owes, InBlock
  <2>6. \A t, u \in Threads : Owes(t, p, k) /\ Owes(u, p, k) => t = u
    BY <2>1, <2>5, BlocksDisjoint, Zenon
  <2>7. IsStatic(p) => \E t \in Threads : Owes(t, p, k)
    BY <2>1, <2>5, BlocksCover, Zenon
  <2>. QED  BY <2>2, <2>4, <2>5, <2>6, <2>7, Zenon DEF WorkAt
<1>. QED  BY <1>2, <1>3, <1>4, Zenon DEF WorkInv

(* WorkInv and DataInv are inductive, given SlotInv. *)
LEMMA DataStep ==
  ASSUME SlotInv, WorkInv, DataInv, NoRegionBetween, PositiveChunks, [Next]_vars
  PROVE  WorkInv' /\ DataInv'
<1>1. ASSUME UNCHANGED vars PROVE WorkInv' /\ DataInv'
  <2>1. /\ UNCHANGED <<loops, pc, at, lower, upper, iteration, ticket, my_chunk, runs>>
    BY <1>1, Zenon DEF vars, local, piece, history
  <2>2. \A t \in Threads : \A p, k : Owes(t, p, k)' <=> Owes(t, p, k)
    BY <2>1, SameOwes, Zenon
  <2>3. \A p, k : (InPool(p, k)' <=> InPool(p, k)) /\ Ran(p, k)' = Ran(p, k)
    BY <2>1, Zenon DEF InPool, Begun, InLoop, Ran
  <2>4. \A t, p, k : InRest(t, p, k)' <=> InRest(t, p, k)
    BY <2>1, Zenon DEF InRest
  <2>5. \A t, p : PieceOk(t, p)' <=> PieceOk(t, p)
    BY <2>1, <2>4, Zenon DEF PieceOk
  <2>6. DataInv'
    BY <2>1, <2>5, Zenon DEF DataInv, StructData, MemberData, HasPiece
  <2>7. \A p \in Loops : \A k \in Numbers(LoopOf(p)) : WorkAt(p, k)'
    BY <2>2, <2>3, KeepWork, Zenon DEF WorkInv
  <2>8. RunsType'
    BY <2>1, Zenon DEF WorkInv, RunsType
  <2>. QED  BY <2>6, <2>7, <2>8, Zenon DEF WorkInv
<1>2. ASSUME NEW t \in Threads, Step(t) PROVE WorkInv' /\ DataInv'
  <2>1. CASE LoopAlloc(t) \/ Publish(t)
    BY <2>1, LoopAllocData, Zenon
  <2>2. CASE Claim(t)
    BY <2>2, ClaimData, Zenon
  <2>3. CASE Find(t)
    BY <2>3, FindData, Zenon
  <2>4. CASE NextStatic(t)
    BY <2>4, NextStaticData, Zenon
  <2>5. CASE NextEven(t)
    BY <2>5, NextEvenData, Zenon
  <2>6. CASE NextDynamic(t)
    BY <2>6, NextDynamicData, Zenon
  <2>7. CASE ReadChunk(t) \/ Estimate(t)
    BY <2>7, GuidedReads, Zenon
  <2>8. CASE NextGuided(t)
    BY <2>8, NextGuidedData, Zenon
  <2>9. CASE Rechunk(t)
    BY <2>9, RechunkData, Zenon
  <2>10. CASE Body(t)
    BY <2>10, BodyData, Zenon
  <2>11. CASE Ordered(t)
    BY <2>11, OrderedData, Zenon
  <2>12. CASE EndOrdered(t)
    BY <2>12, EndOrderedData, Zenon
  <2>13. CASE LoopFree(t)
    BY <2>13, LoopFreeData, Zenon
  <2>14. CASE Unuse(t)
    BY <2>14, UnuseData, Zenon
  <2>. QED  BY Zenon, <1>2, <2>1, <2>2, <2>3, <2>4, <2>5, <2>6, <2>7, <2>8, <2>9, <2>10, <2>11,
               <2>12, <2>13, <2>14 DEF Step
<1>3. ASSUME NEW t \in Threads, NestedRegion(t) PROVE WorkInv' /\ DataInv'
  <2>1. UNCHANGED vars
    BY <1>3, NestedStep, Zenon
  <2>. QED  BY <1>1, <2>1, Zenon
<1>. QED  BY <1>1, <1>2, <1>3, Zenon DEF Next

(* An iteration that everybody is past is neither in the pool nor owed: it *)
(* has been executed.                                                      *)
LEMMA OnceEach ==
  ASSUME SlotInv, WorkInv
  PROVE  EachIterationOnce
<1>1. SUFFICES ASSUME NEW p \in Loops, NEW v \in DOMAIN runs[p]
               PROVE  /\ runs[p][v] <= 1
                      /\ (\A t \in Threads : at[t] > p) => runs[p][v] = 1
  BY Zenon DEF EachIterationOnce
<1>2. PICK k \in Numbers(LoopOf(p)) : v = At(LoopOf(p), k)
  <2>1. v \in Iterations(Program[p])
    BY <1>1, Zenon DEF WorkInv, RunsType
  <2>2. Iterations(Program[p]) = {At(LoopOf(p), k) : k \in Numbers(LoopOf(p))}
    BY LoopOfType, Zenon
  <2>. QED  BY <2>1, <2>2
<1>3. WorkAt(p, k) /\ Ran(p, k) = runs[p][v]
  BY <1>2, Zenon DEF WorkInv, Ran
<1>4. runs[p][v] \in {0, 1}
  BY <1>3, Zenon DEF WorkAt
<1>5. ASSUME \A t \in Threads : at[t] > p, runs[p][v] = 0 PROVE FALSE
  <2>1. p \in Nat /\ 0 \in Threads /\ \A t \in Threads : at[t] \in Nat
    BY Place, Constants DEF Loops, SlotInv
  <2>2. \A t \in Threads : ~ Owes(t, p, k)
    BY <1>5, <2>1 DEF Owes, InPiece, InRest
  <2>3. InPool(p, k)
    BY <1>3, <1>5, <2>2, Zenon DEF WorkAt
  <2>4. loops[Index(p - 1)].place # p
    <3>1. SUFFICES ASSUME loops[Index(p - 1)].place = p PROVE FALSE
      BY Zenon
    <3>2. Index(p - 1) \in Slots
      BY <2>1, IndexRange
    <3>3. HoldsInv(Index(p - 1), p)
      BY <3>1, <3>2, OtherSlot, Zenon
    <3>. QED  BY <1>5, <2>1, <3>3 DEF HoldsInv
  <2>5. ~ Begun(0, p)
    BY <2>1, <2>3, <2>4, Zenon DEF InPool
  <2>. QED  BY <1>5, <2>1, <2>5, Zenon DEF Begun
<1>. QED  BY <1>4, <1>5

(***************************************************************************)
(* No iteration of a loop is executed twice, and when all members have     *)
(* left a loop each of its iterations has been executed: for every program *)
(* of loops with any bounds and increments, every schedule that            *)
(* __pmp_schedule_next knows, every team size and number of structures,    *)
(* and every interleaving of the members, who need not be in the same loop. *)
(* The hypotheses are that no member forks a region between two loops, and *)
(* that chunks are positive.                                               *)
(***************************************************************************)
THEOREM IterationsAreExecutedOnce ==
  ASSUME NoRegionBetween, PositiveChunks
  PROVE  Spec => []EachIterationOnce
<1>1. Init => SlotInv /\ WorkInv /\ DataInv
  BY SlotInit, DataInit, Zenon
<1>2. (SlotInv /\ WorkInv /\ DataInv) /\ [Next]_vars => (SlotInv /\ WorkInv /\ DataInv)'
  BY SlotStep, DataStep, Zenon
<1>3. SlotInv /\ WorkInv /\ DataInv => EachIterationOnce
  BY OnceEach, Zenon
<1>. QED  BY <1>1, <1>2, <1>3, PTL DEF Spec
-----------------------------------------------------------------------------
(* A member with a piece owes the iteration it is at. *)
LEMMA OwesLower ==
  ASSUME SlotInv, WorkInv, DataInv, NEW t \in Threads, HasPiece(t), NEW p, at[t] = p
  PROVE  \E a \in Numbers(LoopOf(p)) : lower[t] = At(LoopOf(p), a) /\ Owes(t, p, a)
<1>. DEFINE d == LoopOf(p)
<1>1. p \in Loops /\ MemberData(t, p)
  <2>1. InLoop(t)
    BY Zenon DEF InLoop, HasPiece
  <2>2. PICK i : slot[t] = i
    BY Zenon
  <2>. QED  BY <2>1, <2>2, AtWork, Zenon
<1>2. PICK a \in Numbers(d) : lower[t] = At(d, a)
  BY <1>1, Zenon DEF MemberData, PieceOk
<1>3. Within(d.inc, At(d, a), upper[t])
  BY <1>1, <1>2, Zenon DEF MemberData, PieceOk
<1>4. IsLoop(d) /\ a \in Int
  BY <1>1, LoopOfType DEF Numbers
<1>5. Within(d.inc, At(d, a), At(d, a))
  <2>1. a <= a
    BY <1>4
  <2>. QED  BY <1>4, <2>1, AtOrder, Zenon
<1>. QED  BY <1>2, <1>3, <1>5, Zenon DEF Owes, InPiece

(* Two members with pieces of one loop are at different iterations. *)
LEMMA OneAtEach ==
  ASSUME SlotInv, WorkInv, DataInv, NEW t \in Threads, NEW u \in Threads,
         HasPiece(t), HasPiece(u), at[t] = at[u], lower[t] = lower[u]
  PROVE  t = u
<1>1. PICK p : at[t] = p
  BY Zenon
<1>2. PICK a \in Numbers(LoopOf(p)) : lower[t] = At(LoopOf(p), a) /\ Owes(t, p, a)
  BY <1>1, OwesLower, Zenon
<1>3. PICK b \in Numbers(LoopOf(p)) : lower[u] = At(LoopOf(p), b) /\ Owes(u, p, b)
  BY <1>1, OwesLower, Zenon
<1>4. p \in Loops
  BY <1>1, Place, Zenon DEF HasPiece, SlotInv
<1>5. a = b
  <2>1. IsLoop(LoopOf(p)) /\ a \in Int /\ b \in Int
    BY <1>4, LoopOfType DEF Numbers
  <2>. QED  BY <1>2, <1>3, <2>1, AtOrder, Zenon
<1>6. WorkAt(p, a)
  BY <1>4, Zenon DEF WorkInv
<1>. QED  BY <1>2, <1>3, <1>5, <1>6, Zenon DEF WorkAt

(* Steps outside of ordered regions. *)
LEMMA KeepOrder ==
  ASSUME OrderInv, order' = order,
         \A u \in Threads, p \in Loops : Begun(u, p) => Begun(u, p)',
         \A u \in Threads, p \in Loops : InRegion(u, p)' <=> InRegion(u, p),
         \A u \in Threads : pc[u] = "ordered" => lower'[u] = lower[u] /\ slot'[u] = slot[u],
         \A j \in Slots : loops'[j].now_serving = loops[j].now_serving \/
                          \A u \in Threads : pc[u] = "ordered" => slot[u] # j,
         \A j \in Slots : \A p \in Loops : loops'[j].place = p =>
           (loops[j].place = p /\ loops'[j].now_serving = loops[j].now_serving) \/ Serving(j, p)'
  PROVE  OrderInv'
<1>1. \A p \in Loops : OrderAt(p)'
  <2>1. SUFFICES ASSUME NEW p \in Loops PROVE OrderAt(p)'
    BY Zenon
  <2>2. OrderAt(p)
    BY Zenon DEF OrderInv
  <2>. QED  BY <2>2, Zenon DEF OrderAt
<1>2. ASSUME NEW j \in Slots, NEW p \in Loops, loops'[j].place = p PROVE Serving(j, p)'
  <2>1. CASE loops[j].place = p /\ loops'[j].now_serving = loops[j].now_serving
    <3>1. Serving(j, p)
      BY <2>1, Zenon DEF OrderInv
    <3>. QED  BY <2>1, <3>1, Zenon DEF Serving
  <2>. QED  BY <1>2, <2>1, Zenon
<1>3. ASSUME NEW u \in Threads, NEW p \in Loops, NEW j \in Slots, InRegion(u, p)', slot'[u] = j
      PROVE  LoopOf(p).ordered /\ loops'[j].now_serving = lower'[u]
  <2>2. pc[u] = "ordered"
    BY <1>3, Zenon DEF InRegion
  <2>1. InRegion(u, p) /\ slot[u] = j
    BY <1>3, <2>2, Zenon
  <2>3. loops'[j].now_serving = loops[j].now_serving /\ lower'[u] = lower[u]
    BY <2>1, <2>2, Zenon
  <2>. QED  BY <2>1, <2>3, Zenon DEF OrderInv
<1>4. DOMAIN order' = Loops
  BY Zenon DEF OrderInv
<1>. QED  BY <1>1, <1>2, <1>3, <1>4, Zenon DEF OrderInv

(* The other steps of __pmp_schedule_next and of the loop. *)
LEMMA WorkOrder ==
  ASSUME SlotInv, OrderInv, NEW t \in Threads, Work(t), ~ Ordered(t), ~ EndOrdered(t)
  PROVE  OrderInv'
<1>0. TypeInv /\ DataTypes
  BY Zenon DEF SlotInv
<1>1. Quiet(t) /\ InLoop(t) /\ InLoop(t)' /\ at' = at /\ slot' = slot
      /\ \A j \in Slots : loops'[j].place = loops[j].place
  BY WorkQuiet, Zenon DEF Quiet
<1>2. \A u \in Threads \ {t} : pc'[u] = pc[u]
  BY <1>0, <1>1, Zenon DEF Quiet, TypeInv
<1>3. /\ pc[t] # "ordered" /\ order' = order
      /\ \A j \in Slots : loops'[j].now_serving = loops[j].now_serving
      /\ pc'[t] # "ordered" /\ \A u \in Threads \ {t} : lower'[u] = lower[u]
  <2>0. /\ DOMAIN pc = Threads /\ DOMAIN lower = Threads /\ slot[t] \in Slots
        /\ loops \in [Slots -> Structures]
    BY <1>0, Zenon DEF TypeInv, DataTypes
  <2>1. ASSUME NEW lo, NEW up, NEW last, NEW taken \in {"body", "rechunk"},
               TakeOrFree(t, lo, up, last, taken)
        PROVE  pc'[t] # "ordered" /\ \A u \in Threads \ {t} : lower'[u] = lower[u]
    BY <2>0, <2>1, Zenon DEF TakeOrFree, Take, NoPiece, Goto, Set
  <2>2. ASSUME NEW stride, NEW taken \in {"body", "rechunk"}, TakeCurrent(t, stride, taken)
        PROVE  /\ pc'[t] # "ordered" /\ \A u \in Threads \ {t} : lower'[u] = lower[u]
               /\ \A j \in Slots : loops'[j].now_serving = loops[j].now_serving
    <3>1. pc'[t] # "ordered" /\ \A u \in Threads \ {t} : lower'[u] = lower[u]
      BY <2>1, <2>2, Zenon DEF TakeCurrent
    <3>. DEFINE v == loops[slot[t]].current + stride
    <3>2. loops' = [loops EXCEPT ![slot[t]].current = v]
      BY <2>2, Zenon DEF TakeCurrent
    <3>. HIDE DEF v
    <3>3. \A j \in Slots : loops'[j].now_serving = loops[j].now_serving
      BY <2>0, <3>2, Zenon DEF Structures
    <3>. QED  BY <3>1, <3>3, Zenon
  <2>3. CASE NextStatic(t)
    <3>1. pc[t] = "next" /\ UNCHANGED <<loops, order>>
      BY <2>3, Zenon DEF NextStatic, history
    <3>2. PICK lo, up, last : TakeOrFree(t, lo, up, last, "body")
      BY <2>3, Zenon DEF NextStatic
    <3>. QED  BY <2>1, <3>1, <3>2, Zenon
  <2>4. CASE NextEven(t)
    <3>1. pc[t] = "next" /\ UNCHANGED <<loops, order>>
      BY <2>4, Zenon DEF NextEven, history
    <3>2. \/ \E lo, up, last : TakeOrFree(t, lo, up, last, "body")
          \/ NoPiece(t) /\ Goto(t, "free")
      BY <2>4, Zenon DEF NextEven
    <3>3. CASE NoPiece(t) /\ Goto(t, "free")
      BY <2>0, <3>1, <3>3, Zenon DEF NoPiece, Goto
    <3>. QED  BY <2>1, <3>1, <3>2, <3>3, Zenon
  <2>5. CASE NextDynamic(t)
    <3>1. pc[t] = "next" /\ UNCHANGED order
      BY <2>5, Zenon DEF NextDynamic, history
    <3>2. PICK stride : TakeCurrent(t, stride, "body")
      BY <2>5, Zenon DEF NextDynamic
    <3>. QED  BY <2>2, <3>1, <3>2, Zenon
  <2>6. CASE NextGuided(t)
    <3>1. pc[t] = "add" /\ UNCHANGED order
      BY <2>6, Zenon DEF NextGuided, history
    <3>2. PICK stride : TakeCurrent(t, stride, "rechunk")
      BY <2>6, Zenon DEF NextGuided
    <3>. QED  BY <2>2, <3>1, <3>2, Zenon
  <2>7. CASE ReadChunk(t) \/ Estimate(t)
    BY <2>0, <2>7, Zenon DEF ReadChunk, Estimate, Goto, piece, history
  <2>8. CASE Rechunk(t)
    <3>. DEFINE v == IF loops[slot[t]].loop.chunk = chunk[t]
                       THEN GuidedRest(Mine(t).loop, upper[t], TeamSize, Divisor, ChunkMax)
                       ELSE loops[slot[t]].loop.chunk
    <3>1. loops' = [loops EXCEPT ![slot[t]].loop.chunk = v]
      BY <2>8, Zenon DEF Rechunk
    <3>. HIDE DEF v
    <3>2. \A j \in Slots : loops'[j].now_serving = loops[j].now_serving
      BY <2>0, <3>1, Zenon DEF Structures
    <3>. QED  BY <2>0, <2>8, <3>2, Zenon DEF Rechunk, Goto, piece, history
  <2>9. CASE Body(t)
    <3>1. pc[t] = "body" /\ UNCHANGED <<loops, order>> /\ Advance(t, ticket[t])
      BY <2>9, Zenon DEF Body
    <3>2. pc'[t] # "ordered" /\ \A u \in Threads \ {t} : lower'[u] = lower[u]
      BY <2>0, <3>1, Zenon DEF Advance, NoPiece, Goto, Set
    <3>. QED  BY <3>1, <3>2, Zenon
  <2>. QED  BY <2>3, <2>4, <2>5, <2>6, <2>7, <2>8, <2>9, Zenon DEF Work
<1>4. \A u \in Threads, p \in Loops : Begun(u, p) => Begun(u, p)'
  BY <1>1, <1>2, Zenon DEF Begun, InLoop
<1>5. \A u \in Threads, p \in Loops : InRegion(u, p)' <=> InRegion(u, p)
  BY <1>1, <1>2, <1>3, Zenon DEF InRegion
<1>6. \A u \in Threads : pc[u] = "ordered" => lower'[u] = lower[u] /\ slot'[u] = slot[u]
  BY <1>1, <1>3, Zenon
<1>. QED  BY <1>1, <1>3, <1>4, <1>5, <1>6, KeepOrder, Zenon

(* A member enters its ordered region when it is served. *)
LEMMA OrderedOrder ==
  ASSUME SlotInv, WorkInv, DataInv, OrderInv, NEW t \in Threads, Ordered(t)
  PROVE  OrderInv'
<1>0. TypeInv /\ DataTypes
  BY Zenon DEF SlotInv
<1>1. PICK p, i : at[t] = p /\ slot[t] = i
  BY Zenon
<1>. DEFINE d == LoopOf(p)
            n == Len(order[p])
<1>2. /\ Work(t) /\ pc[t] = "body" /\ pc' = [pc EXCEPT ![t] = "ordered"]
      /\ UNCHANGED <<loops, at, slot, lower>>
      /\ Mine(t).loop.ordered /\ Mine(t).now_serving = ticket[t]
      /\ order' = [order EXCEPT ![p] = Append(order[p], lower[t])]
  BY <1>1, Zenon DEF Work, Ordered, Served, Goto, local, piece
<1>3. /\ p \in Loops /\ i \in Slots /\ loops[i].place = p /\ StructData(i, p) /\ MemberData(t, p)
      /\ InLoop(t)
  BY <1>1, <1>2, WorkQuiet, AtWork, Zenon
<1>4. /\ d.ordered /\ HasPiece(t) /\ PieceOk(t, p) /\ IsLoop(d)
      /\ DOMAIN order = Loops /\ OrderAt(p) /\ Serving(i, p)
  BY <1>1, <1>2, <1>3, LoopOfType, Zenon DEF StructData, Mine, MemberData, HasPiece, OrderInv
<1>5. PICK a \in Numbers(d) : lower[t] = At(d, a)
  BY <1>4, Zenon DEF PieceOk
<1>6. loops[i].now_serving = lower[t]
  BY <1>1, <1>2, <1>4, Zenon DEF PieceOk, Mine
<1>7. (\A u \in Threads \ {t} : pc'[u] = pc[u]) /\ pc'[t] = "ordered"
  BY <1>0, <1>2, Zenon DEF TypeInv
<1>8. \A u \in Threads : ~ InRegion(u, p)
  <2>1. SUFFICES ASSUME NEW u \in Threads, InRegion(u, p) PROVE FALSE
    BY Zenon
  <2>2. HasPiece(u) /\ at[u] = p /\ pc[u] # "between"
    BY <2>1, Zenon DEF InRegion, HasPiece
  <2>3. slot[u] = i
    <3>1. slot[u] = Index(p - 1) /\ slot[t] = Index(p - 1)
      BY <1>1, <1>2, <2>2, Place, Zenon DEF SlotInv
    <3>. QED  BY <1>1, <3>1, Zenon
  <2>4. loops[i].now_serving = lower[u]
    BY <1>3, <2>1, <2>3, Zenon DEF OrderInv
  <2>5. u = t
    BY <1>1, <1>4, <1>6, <2>2, <2>4, OneAtEach, Zenon
  <2>. QED  BY <1>2, <2>1, <2>5, Zenon DEF InRegion
<1>9. n \in Nat /\ order[p] \in Seq(Int) /\ \A m \in 1 .. n : order[p][m] = At(d, m - 1)
  BY <1>4 DEF OrderAt
<1>10. lower[t] = At(d, n)
  BY <1>4, <1>6, <1>8, Zenon DEF Serving
<1>11. lower[t] \in Int
  BY <1>0, Zenon DEF DataTypes
<1>12. order'[p] = Append(order[p], lower[t]) /\ \A q \in Loops \ {p} : order'[q] = order[q]
  BY <1>2, <1>3, <1>4, Zenon
<1>13. /\ order'[p] \in Seq(Int) /\ Len(order'[p]) = n + 1
       /\ order'[p][n + 1] = lower[t] /\ \A m \in 1 .. n : order'[p][m] = order[p][m]
  BY <1>9, <1>11, <1>12
<1>. HIDE DEF d
<1>14. \A m \in 1 .. n + 1 : order'[p][m] = At(d, m - 1)
  <2>1. SUFFICES ASSUME NEW m \in 1 .. n + 1 PROVE order'[p][m] = At(d, m - 1)
    BY Zenon
  <2>2. CASE m = n + 1
    <3>1. m - 1 = n
      BY <1>9, <2>2
    <3>. QED  BY <1>10, <1>13, <2>2, <3>1, Zenon
  <2>3. CASE m # n + 1
    <3>1. m \in 1 .. n
      BY <1>9, <2>3
    <3>. QED  BY <1>9, <1>13, <3>1, Zenon
  <2>. QED  BY <2>2, <2>3, Zenon
<1>15. OrderAt(p)'
  <2>1. Begun(t, p)'
    BY <1>1, <1>2, <1>7, Zenon DEF Begun, InLoop
  <2>. QED  BY <1>13, <1>14, <2>1, Zenon DEF OrderAt, d
<1>16. ASSUME NEW q \in Loops \ {p} PROVE OrderAt(q)'
  <2>1. OrderAt(q) /\ order'[q] = order[q]
    BY <1>12, Zenon DEF OrderInv
  <2>2. \A u \in Threads : Begun(u, q)' <=> Begun(u, q)
    BY <1>1, <1>2, <1>7, Zenon DEF Begun, InLoop
  <2>. QED  BY <2>1, <2>2, Zenon DEF OrderAt
<1>17. InRegion(t, p)' /\ \A u \in Threads, q \in Loops : u # t \/ q # p => (InRegion(u, q)' <=> InRegion(u, q))
  BY <1>1, <1>2, <1>7, Zenon DEF InRegion
<1>18. Serving(i, p)'
  <2>1. Len(order'[p]) > 0 /\ loops'[i].now_serving = At(d, Len(order'[p]) - 1)
    <3>1. n + 1 > 0 /\ (n + 1) - 1 = n
      BY <1>9
    <3>. QED  BY <1>2, <1>6, <1>10, <1>13, <3>1, Zenon
  <2>. QED  BY <1>17, <2>1, Zenon DEF Serving, d
<1>19. ASSUME NEW j \in Slots, NEW q \in Loops, loops'[j].place = q PROVE Serving(j, q)'
  <2>1. CASE q = p
    <3>1. j = i
      BY <1>2, <1>3, <1>19, <2>1, OtherSlot, Zenon
    <3>. QED  BY <1>18, <2>1, <3>1, Zenon
  <2>2. CASE q # p
    <3>1. Serving(j, q) /\ order'[q] = order[q]
      BY <1>2, <1>12, <1>19, <2>2, Zenon DEF OrderInv
    <3>2. \A u \in Threads : InRegion(u, q)' <=> InRegion(u, q)
      BY <1>17, <2>2, Zenon
    <3>. QED  BY <1>2, <3>1, <3>2, Zenon DEF Serving
  <2>. QED  BY <2>1, <2>2, Zenon
<1>20. ASSUME NEW u \in Threads, NEW q \in Loops, NEW j \in Slots, InRegion(u, q)', slot'[u] = j
       PROVE  LoopOf(q).ordered /\ loops'[j].now_serving = lower'[u]
  <2>1. CASE u = t
    <3>1. q = p /\ j = i
      BY <1>1, <1>2, <1>20, <2>1, Zenon DEF InRegion
    <3>. QED  BY <1>2, <1>4, <1>6, <2>1, <3>1, Zenon DEF d
  <2>2. CASE u # t
    BY <1>2, <1>17, <1>20, <2>2, Zenon DEF OrderInv
  <2>. QED  BY <2>1, <2>2, Zenon
<1>21. DOMAIN order' = Loops
  BY <1>2, <1>4, Zenon
<1>. QED  BY <1>15, <1>16, <1>19, <1>20, <1>21, Zenon DEF OrderInv

(* It leaves the region, and the next iteration is served. *)
LEMMA EndOrderedOrder ==
  ASSUME SlotInv, WorkInv, DataInv, OrderInv, NEW t \in Threads, EndOrdered(t)
  PROVE  OrderInv'
<1>0. TypeInv /\ DataTypes
  BY Zenon DEF SlotInv
<1>1. PICK p, i : at[t] = p /\ slot[t] = i
  BY Zenon
<1>. DEFINE d == LoopOf(p)
            n == Len(order[p])
<1>2. /\ Work(t) /\ pc[t] = "ordered" /\ order' = order
      /\ loops' = [loops EXCEPT ![i].now_serving = loops[i].now_serving + loops[i].loop.inc]
      /\ Advance(t, NextTicket(t))
  BY <1>1, Zenon DEF Work, EndOrdered, Mine
<1>3. /\ p \in Loops /\ i \in Slots /\ loops[i].place = p /\ StructData(i, p) /\ InLoop(t) /\ InLoop(t)'
      /\ Quiet(t) /\ at' = at /\ slot' = slot
      /\ \A j \in Slots : loops'[j].place = loops[j].place
  BY <1>1, <1>2, WorkQuiet, AtWork DEF Quiet
<1>4. InRegion(t, p) /\ OrderAt(p) /\ Serving(i, p) /\ IsLoop(d) /\ loops[i].loop.inc = d.inc
  BY <1>1, <1>2, <1>3, LoopOfType, Zenon DEF InRegion, OrderInv, StructData
<1>5. n \in Nat /\ n > 0 /\ loops[i].now_serving = At(d, n - 1)
  BY <1>4 DEF Serving, OrderAt
<1>6. loops[i].now_serving + d.inc = At(d, n)
  <2>. HIDE DEF d, n
  <2>1. PICK b \in Int : b = n - 1
    BY <1>5
  <2>2. IsLoop(d) /\ 1 \in Int /\ b + 1 = n
    BY <1>4, <1>5, <2>1
  <2>3. At(d, b) + 1 * d.inc = At(d, b + 1) /\ At(d, b) \in Int
    BY <2>2, AtPlus, AtOrder, Zenon
  <2>4. d.inc \in Int
    BY <1>4, Zenon DEF IsLoop
  <2>5. At(d, b) + d.inc = At(d, n)
    BY <2>2, <2>3, <2>4
  <2>. QED  BY <1>5, <2>1, <2>5, Zenon
<1>7. /\ loops'[i].now_serving = At(d, n)
      /\ \A j \in Slots \ {i} : loops'[j].now_serving = loops[j].now_serving
  <2>1. loops \in [Slots -> Structures]
    BY <1>0, Zenon DEF DataTypes
  <2>2. loops' = [loops EXCEPT ![i].now_serving = At(d, n)]
    BY <1>2, <1>4, <1>6, Zenon
  <2>. HIDE DEF d, n
  <2>. QED  BY <1>3, <2>1, <2>2, Zenon DEF Structures
<1>8. (\A u \in Threads \ {t} : pc'[u] = pc[u] /\ lower'[u] = lower[u]) /\ pc'[t] # "ordered"
  <2>1. DOMAIN pc = Threads /\ DOMAIN lower = Threads
    BY <1>0, Zenon DEF TypeInv, DataTypes
  <2>. QED  BY <1>2, <2>1, Zenon DEF Advance, NoPiece, Goto, Set
<1>9. \A u \in Threads : InRegion(u, p) => u = t
  <2>1. SUFFICES ASSUME NEW u \in Threads, InRegion(u, p) PROVE u = t
    BY Zenon
  <2>2. HasPiece(u) /\ HasPiece(t) /\ at[u] = p /\ pc[u] # "between" /\ pc[t] # "between"
    BY <1>2, <2>1, Zenon DEF InRegion, HasPiece
  <2>3. slot[u] = i
    <3>1. slot[u] = Index(p - 1) /\ slot[t] = Index(p - 1)
      BY <1>1, <2>2, Place, Zenon DEF SlotInv
    <3>. QED  BY <1>1, <3>1, Zenon
  <2>4. loops[i].now_serving = lower[u] /\ loops[i].now_serving = lower[t]
    BY <1>1, <1>3, <1>4, <2>1, <2>3, Zenon DEF OrderInv
  <2>. QED  BY <1>1, <2>2, <2>4, OneAtEach, Zenon
<1>10. \A u \in Threads : ~ InRegion(u, p)'
  BY <1>3, <1>8, <1>9, Zenon DEF InRegion
<1>11. \A u \in Threads, q \in Loops : q # p => (InRegion(u, q)' <=> InRegion(u, q))
  BY <1>1, <1>3, <1>8, Zenon DEF InRegion
<1>12. \A q \in Loops : OrderAt(q)'
  <2>1. SUFFICES ASSUME NEW q \in Loops PROVE OrderAt(q)'
    BY Zenon
  <2>2. OrderAt(q)
    BY Zenon DEF OrderInv
  <2>3. \A u \in Threads : Begun(u, q)' <=> Begun(u, q)
    BY <1>3, <1>8, Zenon DEF Begun, InLoop
  <2>. QED  BY <1>2, <2>2, <2>3, Zenon DEF OrderAt
<1>13. ASSUME NEW j \in Slots, NEW q \in Loops, loops'[j].place = q PROVE Serving(j, q)'
  <2>1. loops[j].place = q
    BY <1>3, <1>13, Zenon
  <2>2. CASE q = p
    <3>1. j = i
      BY <1>3, <2>1, <2>2, OtherSlot, Zenon
    <3>. QED  BY <1>2, <1>7, <1>10, <2>2, <3>1, Zenon DEF Serving
  <2>3. CASE q # p
    <3>1. Serving(j, q) /\ j # i
      BY <1>3, <2>1, <2>3, Zenon DEF OrderInv
    <3>. QED  BY <1>2, <1>7, <1>11, <2>3, <3>1, Zenon DEF Serving
  <2>. QED  BY <2>2, <2>3, Zenon
<1>14. ASSUME NEW u \in Threads, NEW q \in Loops, NEW j \in Slots, InRegion(u, q)', slot'[u] = j
       PROVE  LoopOf(q).ordered /\ loops'[j].now_serving = lower'[u]
  <2>1. q # p /\ u # t
    BY <1>8, <1>10, <1>14, Zenon DEF InRegion
  <2>2. InRegion(u, q) /\ slot[u] = j
    BY <1>3, <1>11, <1>14, <2>1, Zenon
  <2>3. j # i
    <3>1. InLoop(u) /\ at[u] = q
      BY <2>2, Zenon DEF InRegion, InLoop
    <3>2. loops[j].place = q
      BY <2>2, <3>1, AtWork, Zenon
    <3>. QED  BY <1>3, <2>1, <3>2, Zenon
  <2>. QED  BY <1>7, <1>8, <2>1, <2>2, <2>3, Zenon DEF OrderInv
<1>15. DOMAIN order' = Loops
  BY <1>2, Zenon DEF OrderInv
<1>. QED  BY <1>12, <1>13, <1>14, <1>15, Zenon DEF OrderInv

(* The steps of __pmp_loop_alloc and __pmp_loop_free. *)
LEMMA OuterOrder ==
  ASSUME SlotInv, OrderInv, NEW t \in Threads,
         LoopAlloc(t) \/ Publish(t) \/ Find(t) \/ LoopFree(t)
  PROVE  OrderInv'
<1>0. TypeInv /\ DataTypes
  BY Zenon DEF SlotInv
<1>1. PICK p \in Nat, i \in Slots : at[t] = p /\ slot[t] = i
  BY <1>0, Place, Zenon DEF SlotInv
<1>2. DOMAIN pc = Threads /\ DOMAIN at = Threads /\ DOMAIN slot = Threads /\ loops \in [Slots -> Structures]
  BY <1>0, Zenon DEF TypeInv, DataTypes
<1>3. order' = order /\ lower' = lower
  BY Zenon DEF LoopAlloc, Publish, Find, LoopFree, local, piece, history
<1>4. /\ \A u \in Threads \ {t} : pc'[u] = pc[u] /\ at'[u] = at[u] /\ slot'[u] = slot[u]
      /\ pc[t] # "ordered" /\ pc'[t] # "ordered"
      /\ \/ ~ InLoop(t) /\ at'[t] = p
         \/ InLoop(t) /\ InLoop(t)' /\ at'[t] = p
         \/ InLoop(t) /\ at'[t] = p + 1
  <2>1. CASE LoopAlloc(t)
    BY <1>1, <1>2, <2>1, Zenon DEF LoopAlloc, Goto, Set, InLoop
  <2>2. CASE Publish(t)
    BY <1>1, <1>2, <2>2, Zenon DEF Publish, Goto, InLoop
  <2>3. CASE Find(t)
    BY <1>1, <1>2, <2>3, Zenon DEF Find, Goto, InLoop
  <2>4. CASE LoopFree(t)
    BY <1>1, <1>2, <2>4, Zenon DEF LoopFree, Goto, Set, InLoop
  <2>. QED  BY <2>1, <2>2, <2>3, <2>4, Zenon
<1>5. \A j \in Slots : loops'[j].place = loops[j].place /\ loops'[j].now_serving = loops[j].now_serving
  <2>1. CASE LoopAlloc(t) \/ Find(t)
    BY <2>1, Zenon DEF LoopAlloc, Find
  <2>2. CASE Publish(t)
    <3>. DEFINE v == IF loops[i].loop_id = UNUSED THEN MyId(t) ELSE loops[i].loop_id
    <3>1. loops' = [loops EXCEPT ![i].loop_id = v]
      BY <1>1, <2>2, Zenon DEF Publish
    <3>. HIDE DEF v
    <3>. QED  BY <1>2, <3>1, Zenon DEF Structures
  <2>3. CASE LoopFree(t)
    <3>. DEFINE v == loops[i].looping_threads - 1
    <3>1. loops' = [loops EXCEPT ![i].looping_threads = v]
      BY <1>1, <2>3, Zenon DEF LoopFree
    <3>. HIDE DEF v
    <3>. QED  BY <1>2, <3>1, Zenon DEF Structures
  <2>. QED  BY <2>1, <2>2, <2>3, Zenon
<1>6. \A u \in Threads, q \in Loops : Begun(u, q) => Begun(u, q)'
  <2>1. \A u \in Threads \ {t}, q \in Loops : Begun(u, q) => Begun(u, q)'
    BY <1>4, Zenon DEF Begun, InLoop
  <2>2. \A q \in Loops : Begun(t, q) => Begun(t, q)'
    BY <1>1, <1>4 DEF Begun, Loops
  <2>. QED  BY <2>1, <2>2, Zenon
<1>7. \A u \in Threads, q \in Loops : InRegion(u, q)' <=> InRegion(u, q)
  BY <1>4, Zenon DEF InRegion
<1>8. \A u \in Threads : pc[u] = "ordered" => lower'[u] = lower[u] /\ slot'[u] = slot[u]
  BY <1>3, <1>4, Zenon
<1>. QED  BY <1>3, <1>5, <1>6, <1>7, <1>8, KeepOrder, Zenon

(* A structure serves the first iteration of its loop first. *)
LEMMA ClaimOrder ==
  ASSUME SlotInv, DataInv, OrderInv, NEW t \in Threads, Claim(t)
  PROVE  OrderInv'
<1>0. TypeInv /\ DataTypes /\ PlaceInv /\ ClaimInv
  BY Zenon DEF SlotInv
<1>1. PICK p \in Nat, i \in Slots : at[t] = p /\ slot[t] = i
  BY <1>0, Place, Zenon
<1>. DEFINE d == LoopOf(p)
            held == [loop_id |-> loops[i].loop_id, looping_threads |-> TeamSize,
                     now_serving |-> d.lower, current |-> d.lower, place |-> p, loop |-> d]
<1>2. /\ pc[t] = "claim" /\ loops[i].loop_id = UNUSED /\ loops' = [loops EXCEPT ![i] = held]
      /\ pc' = [pc EXCEPT ![t] = "publish"] /\ at' = at /\ slot' = slot
      /\ UNCHANGED <<lower, order>>
  BY <1>1, Zenon DEF Claim, Claimable, Mine, Goto, local, piece, history, LoopOf
<1>3. p \in Loops /\ i = Index(p - 1)
  BY <1>0, <1>1, <1>2, Place, Zenon
<1>4. loops[i].place = 0
  BY <1>1, <1>2, EmptySlot, Zenon
<1>5. held.now_serving = d.lower /\ held.place = p
  BY Zenon
<1>. HIDE DEF held
<1>6. loops'[i] = held /\ \A j \in Slots \ {i} : loops'[j] = loops[j]
  BY <1>0, <1>2, Zenon DEF DataTypes
<1>7. (\A u \in Threads \ {t} : pc'[u] = pc[u]) /\ pc'[t] = "publish"
  BY <1>0, <1>2, Zenon DEF TypeInv
<1>8. \A u \in Threads \ {t} : at[u] < p \/ (at[u] = p /\ pc[u] \in {"between", "find"})
  BY <1>0, <1>1, <1>2, Zenon DEF ClaimInv
<1>9. \A u \in Threads : at[u] \in Nat
  BY <1>0, Place, Zenon
<1>10. \A u \in Threads : ~ Begun(u, p) /\ ~ InRegion(u, p)'
  BY <1>1, <1>2, <1>7, <1>8, <1>9 DEF InRegion, Begun, InLoop
<1>11. order[p] = <<>>
  BY <1>3, <1>10, Zenon DEF OrderInv, OrderAt
<1>12. At(d, 0) = d.lower
  <2>1. IsLoop(d) /\ 0 \in Int
    BY <1>3, LoopOfType
  <2>. QED  BY <2>1, AtPlus, Zenon
<1>13. Serving(i, p)'
  <2>1. loops'[i].now_serving = At(d, Len(order'[p]))
    BY <1>2, <1>5, <1>6, <1>11, <1>12, Zenon
  <2>. QED  BY <1>10, <2>1, Zenon DEF Serving
<1>14. \A u \in Threads, q \in Loops : Begun(u, q) => Begun(u, q)'
  BY <1>2, <1>7, Zenon DEF Begun, InLoop
<1>15. \A u \in Threads, q \in Loops : InRegion(u, q)' <=> InRegion(u, q)
  BY <1>2, <1>7, Zenon DEF InRegion
<1>16. \A u \in Threads : pc[u] = "ordered" => slot[u] # i
  <2>1. SUFFICES ASSUME NEW u \in Threads, pc[u] = "ordered" PROVE slot[u] # i
    BY Zenon
  <2>2. InLoop(u)
    BY <2>1, Zenon DEF InLoop
  <2>3. loops[slot[u]].place = at[u] /\ at[u] \in Loops
    BY <2>2, AtWork, Zenon
  <2>. QED  BY <1>4, <2>3 DEF Loops
<1>17. \A u \in Threads : pc[u] = "ordered" => lower'[u] = lower[u] /\ slot'[u] = slot[u]
  BY <1>2, Zenon
<1>18. \A j \in Slots : loops'[j].now_serving = loops[j].now_serving \/
                        \A u \in Threads : pc[u] = "ordered" => slot[u] # j
  BY <1>6, <1>16, Zenon
<1>19. \A j \in Slots : \A q \in Loops : loops'[j].place = q =>
         (loops[j].place = q /\ loops'[j].now_serving = loops[j].now_serving) \/ Serving(j, q)'
  BY <1>5, <1>6, <1>13, Zenon
<1>. QED  BY <1>2, <1>14, <1>15, <1>17, <1>18, <1>19, KeepOrder, Zenon

(* Freeing a structure lets nobody into a region. *)
LEMMA UnuseOrder ==
  ASSUME SlotInv, DataInv, OrderInv, NEW t \in Threads, Unuse(t)
  PROVE  OrderInv'
<1>0. TypeInv /\ DataTypes /\ PlaceInv /\ MemberInv
  BY Zenon DEF SlotInv
<1>1. PICK p \in Nat, i \in Slots : at[t] = p /\ slot[t] = i
  BY <1>0, Place, Zenon
<1>2. /\ pc[t] = "unuse" /\ loops' = [loops EXCEPT ![i] = Free] /\ slot' = slot
      /\ UNCHANGED <<lower, order>>
  BY <1>1, Zenon DEF Unuse, local, piece, history
<1>3. /\ \A u \in Threads \ {t} : pc'[u] = pc[u] /\ at'[u] = at[u]
      /\ pc'[t] = "between" /\ at'[t] = p + 1
  BY <1>0, <1>1, Zenon DEF Unuse, Goto, Set, TypeInv
<1>4. loops'[i].place = 0 /\ \A j \in Slots \ {i} : loops'[j] = loops[j]
  BY <1>0, <1>2, Zenon DEF DataTypes, Free
<1>5. loops[i].place = p
  BY <1>1, <1>2, AtWork, Zenon DEF InLoop
<1>6. \A u \in Threads, q \in Loops : Begun(u, q) => Begun(u, q)'
  <2>1. \A u \in Threads \ {t}, q \in Loops : Begun(u, q) => Begun(u, q)'
    BY <1>3, Zenon DEF Begun, InLoop
  <2>2. \A q \in Loops : Begun(t, q) => Begun(t, q)'
    BY <1>1, <1>3 DEF Begun, Loops
  <2>. QED  BY <2>1, <2>2, Zenon
<1>7. \A u \in Threads, q \in Loops : InRegion(u, q)' <=> InRegion(u, q)
  BY <1>2, <1>3, Zenon DEF InRegion
<1>8. \A u \in Threads : pc[u] = "ordered" => slot[u] # i
  <2>1. SUFFICES ASSUME NEW u \in Threads, pc[u] = "ordered" PROVE slot[u] # i
    BY Zenon
  <2>2. InLoop(u) /\ u # t
    BY <1>2, <2>1, Zenon DEF InLoop
  <2>3. loops[slot[u]].place = at[u]
    BY <2>2, AtWork, Zenon
  <2>4. at[u] > p /\ at[u] \in Nat
    BY <1>0, <1>1, <1>2, <2>2, Place, Zenon DEF MemberInv
  <2>. QED  BY <1>5, <2>3, <2>4
<1>9. \A j \in Slots : loops'[j].now_serving = loops[j].now_serving \/
                       \A u \in Threads : pc[u] = "ordered" => slot[u] # j
  BY <1>4, <1>8, Zenon
<1>10. \A j \in Slots : \A q \in Loops : loops'[j].place = q =>
         (loops[j].place = q /\ loops'[j].now_serving = loops[j].now_serving) \/ Serving(j, q)'
  BY <1>4 DEF Loops
<1>11. \A u \in Threads : pc[u] = "ordered" => lower'[u] = lower[u] /\ slot'[u] = slot[u]
  BY <1>2, Zenon
<1>. QED  BY <1>2, <1>6, <1>7, <1>9, <1>10, <1>11, KeepOrder, Zenon

(* At first no ordered region has been entered. *)
LEMMA OrderInit ==
  ASSUME Init
  PROVE  OrderInv
<1>1. /\ pc = [t \in Threads |-> "between"] /\ \A i \in Slots : loops[i].place = 0
      /\ order = [p \in Loops |-> <<>>]
  BY Zenon DEF Init, Slots, Free
<1>2. \A p \in Loops : OrderAt(p)
  BY <1>1 DEF OrderAt
<1>3. \A t \in Threads, p \in Loops : ~ InRegion(t, p)
  BY <1>1, Zenon DEF InRegion
<1>4. \A i \in Slots, p \in Loops : loops[i].place # p
  BY <1>1 DEF Loops
<1>. QED  BY <1>1, <1>2, <1>3, <1>4, Zenon DEF OrderInv

(* OrderInv is inductive, given the other invariants. *)
LEMMA OrderStep ==
  ASSUME SlotInv, WorkInv, DataInv, OrderInv, NoRegionBetween, [Next]_vars
  PROVE  OrderInv'
<1>1. ASSUME UNCHANGED vars PROVE OrderInv'
  <2>1. UNCHANGED <<loops, pc, at, slot, lower, order>>
    BY <1>1, Zenon DEF vars, local, piece, history
  <2>2. \A u \in Threads, p \in Loops : (Begun(u, p) => Begun(u, p)') /\ (InRegion(u, p)' <=> InRegion(u, p))
    BY <2>1, Zenon DEF Begun, InLoop, InRegion
  <2>. QED  BY <2>1, <2>2, KeepOrder, Zenon
<1>2. ASSUME NEW t \in Threads, Step(t) PROVE OrderInv'
  <2>1. CASE Work(t)
    BY <2>1, WorkOrder, OrderedOrder, EndOrderedOrder, Zenon
  <2>2. CASE Claim(t)
    BY <2>2, ClaimOrder, Zenon
  <2>3. CASE Unuse(t)
    BY <2>3, UnuseOrder, Zenon
  <2>4. CASE LoopAlloc(t) \/ Publish(t) \/ Find(t) \/ LoopFree(t)
    BY <2>4, OuterOrder, Zenon
  <2>. QED  BY <1>2, <2>1, <2>2, <2>3, <2>4, Zenon DEF Step, Work
<1>3. ASSUME NEW t \in Threads, NestedRegion(t) PROVE OrderInv'
  <2>1. UNCHANGED vars
    BY <1>3, NestedStep, Zenon
  <2>. QED  BY <1>1, <2>1, Zenon
<1>. QED  BY <1>1, <1>2, <1>3, Zenon DEF Next

(* What has been let in is the loop's iterations from the first one on. *)
LEMMA InSequence ==
  ASSUME SlotInv, WorkInv, DataInv, OrderInv
  PROVE  OrderedInSequence
<1>1. ASSUME NEW p \in Loops, NEW n \in DOMAIN order[p]
      PROVE  order[p][n] = Program[p].lower + (n - 1) * Program[p].inc
  <2>1. OrderAt(p)
    BY Zenon DEF OrderInv
  <2>2. n \in 1 .. Len(order[p])
    BY <1>1, <2>1 DEF OrderAt
  <2>3. order[p][n] = At(LoopOf(p), n - 1)
    BY <2>1, <2>2, Zenon DEF OrderAt
  <2>4. LoopOf(p).lower = Program[p].lower /\ LoopOf(p).inc = Program[p].inc
    BY LoopOfType, Zenon
  <2>. QED  BY <2>3, <2>4, Zenon DEF At
<1>2. ASSUME NEW t \in Threads, pc[t] = "ordered", NEW p, at[t] = p, NEW i, slot[t] = i
      PROVE  /\ p \in Loops /\ i \in Slots /\ i = Index(p - 1) /\ HasPiece(t)
             /\ loops[i].now_serving = lower[t] /\ loops[i].now_serving = ticket[t]
  <2>1. InLoop(t) /\ HasPiece(t) /\ InRegion(t, p)
    BY <1>2, Zenon DEF InLoop, HasPiece, InRegion
  <2>2. p \in Loops /\ i \in Slots /\ i = Index(p - 1) /\ MemberData(t, p)
    BY <1>2, <2>1, AtWork, Zenon
  <2>3. LoopOf(p).ordered /\ loops[i].now_serving = lower[t]
    BY <1>2, <2>1, <2>2, Zenon DEF OrderInv
  <2>4. ticket[t] = lower[t]
    BY <2>1, <2>2, <2>3, Zenon DEF MemberData, PieceOk
  <2>. QED  BY <2>1, <2>2, <2>3, <2>4, Zenon
<1>3. \A t \in Threads : pc[t] = "ordered" => Mine(t).now_serving = ticket[t]
  BY <1>2, Zenon DEF Mine
<1>4. ASSUME NEW t \in Threads, NEW u \in Threads, pc[t] = "ordered", pc[u] = "ordered", at[t] = at[u]
      PROVE  t = u
  <2>1. /\ slot[t] = Index(at[t] - 1) /\ HasPiece(t) /\ loops[slot[t]].now_serving = lower[t]
    BY <1>2, <1>4, Zenon
  <2>2. /\ slot[u] = Index(at[u] - 1) /\ HasPiece(u) /\ loops[slot[u]].now_serving = lower[u]
    BY <1>2, <1>4, Zenon
  <2>3. lower[t] = lower[u]
    BY <1>4, <2>1, <2>2, Zenon
  <2>. QED  BY <1>4, <2>1, <2>2, <2>3, OneAtEach, Zenon
<1>. QED  BY <1>1, <1>3, <1>4, Zenon DEF OrderedInSequence

(***************************************************************************)
(* The ordered regions of a loop run one at a time and in the order of the *)
(* iterations, whatever pieces the members hold: __ompc_ordered waits until *)
(* now_serving is the member's ticket, and __ompc_end_ordered passes it on *)
(* to the next iteration.  The hypotheses are those of                     *)
(* IterationsAreExecutedOnce.                                              *)
(***************************************************************************)
THEOREM OrderedRegionsRunInSequence ==
  ASSUME NoRegionBetween, PositiveChunks
  PROVE  Spec => []OrderedInSequence
<1>1. Init => SlotInv /\ WorkInv /\ DataInv /\ OrderInv
  BY SlotInit, DataInit, OrderInit, Zenon
<1>2. (SlotInv /\ WorkInv /\ DataInv /\ OrderInv) /\ [Next]_vars
        => (SlotInv /\ WorkInv /\ DataInv /\ OrderInv)'
  BY SlotStep, DataStep, OrderStep, Zenon
<1>3. SlotInv /\ WorkInv /\ DataInv /\ OrderInv => OrderedInSequence
  BY InSequence, Zenon
<1>. QED  BY <1>1, <1>2, <1>3, PTL DEF Spec
=============================================================================
