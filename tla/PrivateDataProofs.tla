------------------------- MODULE PrivateDataProofs --------------------------
(***************************************************************************)
(* Every step keeps the invariant of PrivateDataInv: first where the       *)
(* members are (their places, the barriers they have passed, the types,    *)
(* the counters and who runs a block), then the winner of a copyprivate,   *)
(* the source pointer, the table and the data in the copies.  The          *)
(* properties of PrivateData follow.                                       *)
(***************************************************************************)
EXTENDS PrivateDataInv, FiniteSetTheorems, TLAPS

-----------------------------------------------------------------------------
(* The program of single constructs. *)
LEMMA ProgramFacts ==
  /\ Len(Program) \in Nat
  /\ Constructs = 1..Len(Program)
  /\ \A k \in Constructs : Program[k] \in {"nowait", "wait", "copyprivate"}
BY PrivateAssumption DEF Constructs

(* The program has finitely many barriers.                                 *)
LEMMA BarriersFinite ==
  /\ IsFiniteSet(Barriers)
  /\ \A t : IsFiniteSet(Passed(t)) /\ Cardinality(Passed(t)) \in Nat
<1>1. IsFiniteSet(0..Len(Program)) /\ IsFiniteSet(1..3)
  <2>1. 0 \in Int /\ 1 \in Int /\ 3 \in Int /\ Len(Program) \in Int
    BY ProgramFacts
  <2>. QED  BY <2>1, FS_Interval, Zenon
<1>2. IsFiniteSet((0..Len(Program)) \X (1..3))
  BY <1>1, FS_Product
<1>3. IsFiniteSet(Barriers)
  BY <1>2, FS_Subset DEF Barriers
<1>4. ASSUME NEW t PROVE IsFiniteSet(Passed(t)) /\ Cardinality(Passed(t)) \in Nat
  BY <1>3, FS_Subset, FS_CardinalityType DEF Passed
<1>. QED  BY <1>3, <1>4

(* How far a member has come is a construct and a stage in it.             *)
LEMMA PositionType ==
  ASSUME TypeOK, NEW t \in Threads
  PROVE  Base(t) \in Nat /\ Stage(t) \in 1..3
BY DEF TypeOK, Base, Stage

(* A member that stands at a barrier stands at one of the region's. *)
LEMMA NextBarrier ==
  ASSUME TypeOK, PlaceInv, NEW t \in Threads, pc[t] \in BarrierPoints
  PROVE  /\ <<Base(t), Stage(t)>> \in Barriers
         /\ ~ HasPassed(t, <<Base(t), Stage(t)>>)
<1>1. CASE pc[t] = "copied"
  <2>1. Base(t) = 0 /\ Stage(t) = 1 /\ serial
    BY <1>1 DEF PlaceInv, Base, Stage, Before
  <2>. QED  BY <2>1, ProgramFacts DEF Barriers, HasPassed
<1>2. CASE pc[t] \in {"ended", "offered", "taken"}
  <2>1. /\ at[t] \in Constructs /\ Base(t) = at[t] /\ Stage(t) \in 1..3
        /\ pc[t] = "ended" => Stage(t) = 1
        /\ IF pc[t] = "ended" THEN Program[at[t]] # "nowait" ELSE Program[at[t]] = "copyprivate"
    BY <1>2 DEF PlaceInv, Base, Stage, Before, Getting, Inside
  <2>2. Program[at[t]] = "copyprivate" \/ (Program[at[t]] = "wait" /\ Stage(t) = 1)
    BY <2>1, <1>2, ProgramFacts
  <2>. QED  BY <2>1, <2>2, ProgramFacts DEF Barriers, HasPassed
<1>. QED  BY <1>1, <1>2 DEF BarrierPoints

(* What a barrier promises, for the barriers by name. *)
LEMMA EverybodyArrives ==
  ASSUME TypeOK, PlaceInv, BarrierInv
  PROVE  Arrival
<1>. SUFFICES ASSUME NEW t \in Threads, NEW u \in Threads, NEW b \in Barriers,
                     HasPassed(u, b), ~ HasPassed(t, b)
              PROVE  StandsAt(t, b)
  BY DEF Arrival
<1>0. b \in (0..Len(Program)) \X (1..3)
  BY DEF Barriers
<1>1. /\ Base(t) \in Nat /\ Stage(t) \in Nat /\ Base(u) \in Nat /\ Stage(u) \in Nat
      /\ left \in [Threads -> Nat] /\ entered \in [Threads -> Nat]
  <2>1. Stage(t) \in 1..3 /\ Stage(u) \in 1..3 /\ Base(t) \in Nat /\ Base(u) \in Nat
    BY PositionType
  <2>. QED  BY <2>1 DEF TypeOK
<1>2. Passed(t) \subseteq Passed(u)
  <2>. SUFFICES ASSUME NEW c \in Barriers, HasPassed(t, c) PROVE HasPassed(u, c)
    BY DEF Passed
  <2>1. c \in (0..Len(Program)) \X (1..3)
    BY DEF Barriers
  <2>. QED  BY <2>1, <1>0, <1>1, ProgramFacts DEF HasPassed
<1>3. left[t] < left[u]
  <2>1. Passed(t) # Passed(u)
    BY DEF Passed
  <2>2. Cardinality(Passed(t)) < Cardinality(Passed(u))
    BY <2>1, <1>2, BarriersFinite, FS_Subset
  <2>. QED  BY <2>2 DEF BarrierInv
<1>4. entered[t] = left[t] + 1 /\ left[u] = left[t] + 1 /\ pc[t] \in BarrierPoints
  BY <1>1, <1>3 DEF BarrierInv
<1>. DEFINE c == <<Base(t), Stage(t)>>
<1>5. c \in Barriers /\ c \notin Passed(t)
  BY <1>4, NextBarrier DEF Passed
<1>6. c \in Passed(u)
  BY <1>0, <1>1, <1>5, ProgramFacts DEF HasPassed, Passed
<1>7. Cardinality(Passed(t) \cup {c}) = Cardinality(Passed(t)) + 1
  BY <1>5, BarriersFinite, FS_AddElement, Zenon
<1>8. Passed(t) \cup {c} = Passed(u)
  <2>1. Cardinality(Passed(t) \cup {c}) = Cardinality(Passed(u))
    BY <1>4, <1>7 DEF BarrierInv
  <2>2. Passed(t) \cup {c} \subseteq Passed(u)
    BY <1>2, <1>6
  <2>. QED  BY <2>1, <2>2, BarriersFinite, FS_Subset
<1>9. b = c
  BY <1>8 DEF Passed
<1>. QED  BY <1>4, <1>9 DEF StandsAt

-----------------------------------------------------------------------------
(* A member inside the region goes from construct to construct. *)
LEMMA PlaceInRegion ==
  ASSUME TypeOK, PlaceInv, NEW t \in Threads, at[t] # 0, serial' = serial,
         NEW p \in Inside \cup {"single"}, NEW a \in Nat,
         pc' = [pc EXCEPT ![t] = p], at' = [at EXCEPT ![t] = a],
         IF p = "single" THEN a \in 1..(Len(Program) + 1) ELSE a \in Constructs,
         p = "ended" => Program[a] # "nowait",
         p \in {"offer", "offered", "copy", "taken"} => Program[a] = "copyprivate"
  PROVE  PlaceInv'
<1>1. a # 0 /\ 0 \in Threads
  BY PrivateAssumption, ProgramFacts
<1>2. pc'[t] = p /\ at'[t] = a /\ \A u \in Threads \ {t} : pc'[u] = pc[u] /\ at'[u] = at[u]
  BY DEF TypeOK
<1>3. \A u \in Threads : (at'[u] = 0 <=> at[u] = 0)
  BY <1>1, <1>2
<1>. QED  BY <1>1, <1>2, <1>3 DEF PlaceInv, Getting, Inside

(* Going on from a block keeps the place of the member right.              *)
LEMMA AfterBlockPlace ==
  ASSUME TypeOK, PlaceInv, NEW t \in Threads, at[t] \in Constructs, serial' = serial,
         AfterBlock(t)
  PROVE  PlaceInv'
<1>1. at[t] \in Nat /\ at[t] + 1 \in Nat /\ at[t] # 0 /\ at = [at EXCEPT ![t] = at[t]]
  BY SMTT(30), ProgramFacts DEF TypeOK
<1>2. CASE Program[at[t]] = "nowait"
  <2>1. pc' = [pc EXCEPT ![t] = "single"] /\ at' = [at EXCEPT ![t] = at[t] + 1]
    BY <1>2 DEF AfterBlock, Goto
  <2>2. at[t] + 1 \in 1..(Len(Program) + 1)
    BY ProgramFacts
  <2>. QED  BY <1>1, <2>1, <2>2, PlaceInRegion, Zenon
<1>3. CASE Program[at[t]] # "nowait"
  <2>1. pc' = [pc EXCEPT ![t] = "ended"] /\ at' = [at EXCEPT ![t] = at[t]]
    BY <1>1, <1>3 DEF AfterBlock, Goto
  <2>. QED  BY <1>1, <1>3, <2>1, PlaceInRegion, ProgramFacts, Zenon DEF Inside
<1>. QED  BY <1>2, <1>3

(* Every step keeps the places of the members right.                       *)
LEMMA PlaceStep ==
  ASSUME TypeOK, PlaceInv, NEW t \in Threads, Step(t)
  PROVE  PlaceInv'
<1>. USE PrivateAssumption, ProgramFacts DEF Goto
<1>1. CASE ReadTable(t)
  BY SMTT(30), <1>1 DEF Step, TypeOK, PlaceInv, ReadTable, Getting, Inside
<1>2. CASE Calloc(t)
  BY SMTT(30), <1>2 DEF Step, TypeOK, PlaceInv, Calloc, Getting, Inside
<1>3. CASE Install(t)
  BY SMTT(30), <1>3 DEF Step, TypeOK, PlaceInv, Install, Getting, Inside
<1>4. CASE Fill(t)
  BY SMTT(30), <1>4 DEF Step, TypeOK, PlaceInv, Fill, Getting, Inside
<1>5. CASE Copyin(t)
  BY SMTT(30), <1>5 DEF Step, TypeOK, PlaceInv, Copyin, Getting, Inside
<1>6. CASE Single(t)
  <2>1. at[t] # 0 /\ serial' = serial /\ at[t] \in Nat /\ at = [at EXCEPT ![t] = at[t]]
    BY <1>6 DEF Step, Single, TypeOK
  <2>2. CASE team_single_count = single_count[t]
    BY <1>6, <2>1, <2>2, PlaceInRegion DEF Single, Inside
  <2>3. CASE team_single_count # single_count[t]
    BY <1>6, <2>1, <2>3, AfterBlockPlace DEF Single
  <2>. QED  BY <2>2, <2>3
<1>7. CASE Block(t)
  <2>1. at[t] \in Constructs /\ serial' = serial
    BY <1>7 DEF Step, Block, TypeOK, PlaceInv, Inside
  <2>. QED  BY <1>7, <2>1, AfterBlockPlace DEF Block
<1>8. CASE Offer(t)
  BY SMTT(30), <1>8 DEF Step, TypeOK, PlaceInv, Offer, Getting, Inside
<1>9. CASE CopyPrivate(t)
  BY SMTT(30), <1>9 DEF Step, TypeOK, PlaceInv, CopyPrivate, Getting, Inside
<1>10. CASE EnterBarrier(t)
  BY <1>10 DEF Step, TypeOK, PlaceInv, EnterBarrier
<1>11. CASE LeaveBarrier(t)
  <2>1. /\ at[t] \in Nat /\ at[t] + 1 \in Nat /\ at[t] # 0 /\ serial' = serial
        /\ at = [at EXCEPT ![t] = at[t]]
    <3>1. pc[t] \in {"copied", "ended", "offered", "taken"}
      BY <1>11 DEF LeaveBarrier
    <3>2. at[t] # 0
      BY <3>1 DEF PlaceInv, Getting
    <3>3. serial' = serial
      BY DEF Step
    <3>4. at[t] \in Nat /\ at = [at EXCEPT ![t] = at[t]]
      BY DEF TypeOK
    <3>. QED  BY <3>2, <3>3, <3>4
  <2>2. CASE pc[t] = "copied"
    <3>1. /\ pc' = [pc EXCEPT ![t] = "single"] /\ at' = [at EXCEPT ![t] = at[t]]
          /\ at[t] \in 1..(Len(Program) + 1)
      BY <1>11, <2>1, <2>2 DEF LeaveBarrier, PlaceInv
    <3>. QED  BY <2>1, <3>1, PlaceInRegion, Zenon
  <2>3. CASE pc[t] = "offered"
    <3>1. /\ pc' = [pc EXCEPT ![t] = "copy"] /\ at' = [at EXCEPT ![t] = at[t]]
          /\ at[t] \in Constructs /\ Program[at[t]] = "copyprivate"
      BY <1>11, <2>1, <2>3 DEF LeaveBarrier, PlaceInv, Inside
    <3>. QED  BY <2>1, <3>1, PlaceInRegion, Zenon DEF Inside
  <2>4. CASE pc[t] = "ended" /\ Program[at[t]] = "copyprivate"
    <3>1. /\ pc' = [pc EXCEPT ![t] = "offer"] /\ at' = [at EXCEPT ![t] = at[t]]
          /\ at[t] \in Constructs
      BY <1>11, <2>1, <2>4 DEF LeaveBarrier, PlaceInv, Inside
    <3>. QED  BY <2>1, <2>4, <3>1, PlaceInRegion, Zenon DEF Inside
  <2>5. CASE pc[t] = "taken" \/ (pc[t] = "ended" /\ Program[at[t]] = "wait")
    <3>1. /\ pc' = [pc EXCEPT ![t] = "single"] /\ at' = [at EXCEPT ![t] = at[t] + 1]
          /\ at[t] + 1 \in 1..(Len(Program) + 1)
      BY <1>11, <2>1, <2>5 DEF LeaveBarrier, PlaceInv, Inside
    <3>. QED  BY <2>1, <3>1, PlaceInRegion, Zenon
  <2>. QED  BY <1>11, <2>2, <2>3, <2>4, <2>5 DEF LeaveBarrier
<1>12. CASE t = 0 /\ SerialCode
  BY <1>12 DEF Step, TypeOK, PlaceInv, SerialCode, Getting, Inside
<1>. QED
  BY <1>1, <1>2, <1>3, <1>4, <1>5, <1>6, <1>7, <1>8, <1>9, <1>10, <1>11, <1>12 DEF Step

-----------------------------------------------------------------------------
(* Nothing is passed by a move to the next construct over one that has no  *)
(* barrier.                                                                *)
LEMMA PassedOver ==
  ASSUME NEW x, Base(x) \in Nat, Barriers' = Barriers, Stage(x) = 1, Stage(x)' = 1,
         Base(x)' = Base(x) + 1, \A b \in Barriers : b[1] # Base(x)
  PROVE  Passed(x)' = Passed(x)
<1>1. ASSUME NEW b \in Barriers PROVE HasPassed(x, b)' <=> HasPassed(x, b)
  <2>1. b[1] \in Nat /\ b[2] \in 1..3 /\ b[1] # Base(x)
    BY ProgramFacts DEF Barriers
  <2>. QED  BY <2>1 DEF HasPassed
<1>. QED  BY <1>1 DEF Passed

(* Nor by one that stays where it is. *)
LEMMA PassedStays ==
  ASSUME NEW x, Barriers' = Barriers, Stage(x)' = Stage(x), Base(x)' = Base(x)
  PROVE  Passed(x)' = Passed(x)
BY DEF Passed, HasPassed

(* A step changes nothing of the region's barriers.                        *)
LEMMA SameBarriers ==
  ASSUME NEW t, Step(t)
  PROVE  Barriers' = Barriers
BY DEF Step, Barriers

(* Where the others stay, and the member after a block. *)
LEMMA AfterBlockPassed ==
  ASSUME TypeOK, PlaceInv, NEW t \in Threads, at[t] \in Constructs, Barriers' = Barriers,
         pc[t] \in {"single", "block"}, AfterBlock(t)
  PROVE  \A x \in Threads : Passed(x)' = Passed(x)
<1>. SUFFICES ASSUME NEW x \in Threads PROVE Passed(x)' = Passed(x)
  OBVIOUS
<1>0. at[t] \in Nat /\ at[t] + 1 \in Nat
  BY DEF TypeOK
<1>1. CASE x # t
  <2>1. pc'[x] = pc[x] /\ at'[x] = at[x]
    BY <1>1 DEF AfterBlock, Goto, TypeOK
  <2>. QED  BY <2>1, PassedStays DEF Base, Stage
<1>2. CASE x = t /\ Program[at[t]] = "nowait"
  <2>1. pc'[t] = "single" /\ at'[t] = at[t] + 1
    BY <1>2 DEF AfterBlock, Goto, TypeOK
  <2>2. Base(t) = at[t] /\ Stage(t) = 1 /\ Base(t)' = at[t] + 1 /\ Stage(t)' = 1
    BY <2>1 DEF Base, Stage, Before, Getting
  <2>3. \A b \in Barriers : b[1] # at[t]
    BY <1>2, ProgramFacts DEF Barriers
  <2>. QED  BY <1>0, <1>2, <2>2, <2>3, PassedOver
<1>3. CASE x = t /\ Program[at[t]] # "nowait"
  <2>1. pc'[t] = "ended" /\ at'[t] = at[t]
    BY <1>3 DEF AfterBlock, Goto, TypeOK
  <2>2. Base(t) = at[t] /\ Stage(t) = 1 /\ Base(t)' = at[t] /\ Stage(t)' = 1
    BY <2>1 DEF Base, Stage, Before, Getting
  <2>. QED  BY <1>3, <2>2, PassedStays
<1>. QED  BY <1>1, <1>2, <1>3

(* Barriers are only passed by leaving them. *)
LEMMA PassedSame ==
  ASSUME TypeOK, PlaceInv, NEW t \in Threads, Step(t), ~ LeaveBarrier(t),
         NEW x \in Threads
  PROVE  Passed(x)' = Passed(x)
<1>0. Barriers' = Barriers
  BY SameBarriers
<1>1. CASE ReadTable(t) \/ Calloc(t) \/ Install(t) \/ Copyin(t) \/ EnterBarrier(t)
           \/ Offer(t) \/ CopyPrivate(t)
  <2>1. at' = at
    BY <1>1 DEF ReadTable, Calloc, Install, Copyin, EnterBarrier, Offer, CopyPrivate
  <2>2. Base(x)' = Base(x) /\ Stage(x)' = Stage(x)
    BY <1>1, <2>1 DEF ReadTable, Calloc, Install, Copyin, EnterBarrier, Offer, CopyPrivate,
       Goto, TypeOK, Base, Stage, Before, Getting, Inside
  <2>. QED  BY <1>0, <2>2, PassedStays
<1>2. CASE Fill(t) /\ (x # t \/ serial)
  <2>1. at' = at /\ (x # t => pc'[x] = pc[x])
    BY <1>2 DEF Fill, Goto, TypeOK
  <2>2. x = t => pc'[x] \in {"serial", "copyin"} /\ pc[x] = "fill"
    BY <1>2 DEF Fill, Goto, TypeOK
  <2>3. Base(x)' = Base(x) /\ Stage(x)' = Stage(x)
    BY <2>1, <2>2 DEF Base, Stage, Before, Getting
  <2>. QED  BY <1>0, <2>3, PassedStays
<1>3. CASE Fill(t) /\ x = t /\ ~ serial
  <2>1. pc[t] = "fill" /\ at[t] = 1 /\ at'[t] = 1 /\ pc'[t] = "single"
    BY <1>3 DEF Fill, Goto, TypeOK, PlaceInv, Getting
  <2>2. Base(t) = 0 /\ Stage(t) = 1 /\ Base(t)' = 1 /\ Stage(t)' = 1
    BY <2>1 DEF Base, Stage, Before, Getting
  <2>3. \A b \in Barriers : b[1] # 0
    BY <1>3 DEF Barriers
  <2>. QED  BY <1>0, <1>3, <2>2, <2>3, PassedOver
<1>4. CASE Single(t)
  <2>1. CASE team_single_count = single_count[t]
    <3>1. Base(x)' = Base(x) /\ Stage(x)' = Stage(x)
      BY <1>4, <2>1 DEF Single, Goto, TypeOK, Base, Stage, Before, Getting, Inside
    <3>. QED  BY <1>0, <3>1, PassedStays
  <2>2. CASE team_single_count # single_count[t]
    <3>1. AfterBlock(t) /\ at[t] \in Constructs /\ pc[t] = "single"
      BY <1>4, <2>2 DEF Single
    <3>. QED  BY <1>0, <3>1, AfterBlockPassed
  <2>. QED  BY <2>1, <2>2
<1>5. CASE Block(t)
  <2>1. AfterBlock(t) /\ at[t] \in Constructs /\ pc[t] = "block"
    BY <1>5 DEF Block, PlaceInv, Inside
  <2>. QED  BY <1>0, <2>1, AfterBlockPassed
<1>6. CASE t = 0 /\ SerialCode
  <2>1. at[0] = 0 /\ pc'[x] = "get"
    BY <1>6, PrivateAssumption DEF SerialCode, PlaceInv
  <2>2. pc[x] \in Before
    <3>1. at[x] = 0
      BY <2>1, PrivateAssumption DEF PlaceInv
    <3>. QED  BY <3>1 DEF PlaceInv, Before
  <2>3. Base(x)' = Base(x) /\ Stage(x)' = Stage(x)
    BY <2>1, <2>2 DEF Base, Stage, Before, Getting
  <2>. QED  BY <1>0, <2>3, PassedStays
<1>. QED  BY <1>1, <1>2, <1>3, <1>4, <1>5, <1>6 DEF Step

(* Leaving a barrier passes that one: the next position is the first       *)
(* behind it.                                                              *)
LEMMA PassedOne ==
  ASSUME NEW t, Base(t) \in Nat, Stage(t) \in 1..3, Barriers' = Barriers,
         <<Base(t), Stage(t)>> \in Barriers,
         \/ Base(t)' = Base(t) /\ Stage(t)' = Stage(t) + 1
         \/ /\ Base(t)' = Base(t) + 1 /\ Stage(t)' = 1
            /\ \A b \in Barriers : b[1] = Base(t) => b[2] <= Stage(t)
  PROVE  Passed(t)' = Passed(t) \cup {<<Base(t), Stage(t)>>}
<1>1. ASSUME NEW b \in Barriers
      PROVE  HasPassed(t, b)' <=> HasPassed(t, b) \/ b = <<Base(t), Stage(t)>>
  <2>1. b[1] \in Nat /\ b[2] \in 1..3 /\ b = <<b[1], b[2]>>
    BY ProgramFacts DEF Barriers
  <2>2. b = <<Base(t), Stage(t)>> <=> b[1] = Base(t) /\ b[2] = Stage(t)
    BY <2>1
  <2>. QED  BY <2>1, <2>2 DEF HasPassed
<1>. QED  BY <1>1 DEF Passed

(* Leaving a barrier adds that barrier to those passed.                    *)
LEMMA PassedLeft ==
  ASSUME TypeOK, PlaceInv, NEW t \in Threads, Step(t), LeaveBarrier(t)
  PROVE  /\ Passed(t)' = Passed(t) \cup {<<Base(t), Stage(t)>>}
         /\ \A x \in Threads \ {t} : Passed(x)' = Passed(x)
<1>0. Barriers' = Barriers
  BY SameBarriers
<1>1. ASSUME NEW x \in Threads \ {t} PROVE Passed(x)' = Passed(x)
  <2>1. pc'[x] = pc[x] /\ at'[x] = at[x]
    BY DEF LeaveBarrier, Goto, TypeOK
  <2>. QED  BY <1>0, <2>1, PassedStays DEF Base, Stage
<1>2. pc[t] \in BarrierPoints
  BY DEF LeaveBarrier, BarrierPoints
<1>3. <<Base(t), Stage(t)>> \in Barriers /\ Base(t) \in Nat /\ Stage(t) \in 1..3
  BY <1>2, NextBarrier, PositionType
<1>4. at[t] \in Nat
  BY DEF TypeOK
<1>5. CASE pc[t] = "copied"
  <2>1. pc'[t] = "single" /\ at'[t] = 1
    BY <1>5 DEF LeaveBarrier, Goto, TypeOK, PlaceInv
  <2>2. Base(t) = 0 /\ Stage(t) = 1 /\ Base(t)' = 1 /\ Stage(t)' = 1
    BY <1>5, <2>1 DEF Base, Stage, Before, Getting
  <2>3. \A b \in Barriers : b[1] = 0 => b[2] <= 1
    BY DEF Barriers
  <2>. QED  BY <1>0, <1>1, <1>3, <2>2, <2>3, PassedOne
<1>6. CASE pc[t] = "offered" \/ (pc[t] = "ended" /\ Program[at[t]] = "copyprivate")
  <2>1. pc'[t] = (IF pc[t] = "offered" THEN "copy" ELSE "offer") /\ at'[t] = at[t]
    BY <1>6 DEF LeaveBarrier, Goto, TypeOK
  <2>2. Base(t)' = Base(t) /\ Stage(t)' = Stage(t) + 1
    BY <1>6, <2>1 DEF Base, Stage, Before, Getting
  <2>. QED  BY <1>0, <1>1, <1>3, <2>2, PassedOne
<1>7. CASE pc[t] = "taken" \/ (pc[t] = "ended" /\ Program[at[t]] = "wait")
  <2>1. pc'[t] = "single" /\ at'[t] = at[t] + 1 /\ at[t] \in Constructs
    BY <1>7 DEF LeaveBarrier, Goto, TypeOK, PlaceInv, Inside
  <2>2. /\ Base(t) = at[t] /\ Stage(t) = IF pc[t] = "taken" THEN 3 ELSE 1
        /\ Base(t)' = Base(t) + 1 /\ Stage(t)' = 1
    BY <1>7, <2>1 DEF Base, Stage, Before, Getting
  <2>3. \A b \in Barriers : b[1] = at[t] => b[2] <= Stage(t)
    BY <1>7, <2>1, <2>2, ProgramFacts DEF Barriers
  <2>. QED  BY <1>0, <1>1, <1>3, <2>2, <2>3, PassedOne
<1>. QED  BY <1>5, <1>6, <1>7 DEF LeaveBarrier

(* The counts of the abstract barrier follow. *)
LEMMA BarrierStep ==
  ASSUME TypeOK, PlaceInv, BarrierInv, NEW t \in Threads, Step(t)
  PROVE  BarrierInv'
<1>0. left \in [Threads -> Nat] /\ entered \in [Threads -> Nat]
  BY DEF TypeOK
<1>1. CASE LeaveBarrier(t)
  <2>1. /\ left[t] < entered[t] /\ \A u \in Threads : entered[u] >= entered[t]
        /\ left' = [left EXCEPT ![t] = @ + 1] /\ entered' = entered
    BY <1>1 DEF LeaveBarrier, Barrier!Leave
  <2>2. \A x \in Threads : left'[x] = Cardinality(Passed(x)')
    <3>1. pc[t] \in BarrierPoints
      BY <1>1 DEF LeaveBarrier, BarrierPoints
    <3>2. <<Base(t), Stage(t)>> \notin Passed(t)
      BY <3>1, NextBarrier DEF Passed
    <3>3. Cardinality(Passed(t)') = Cardinality(Passed(t)) + 1
      BY <1>1, <3>2, PassedLeft, BarriersFinite, FS_AddElement
    <3>4. \A x \in Threads \ {t} : Cardinality(Passed(x)') = Cardinality(Passed(x))
      BY <1>1, PassedLeft
    <3>. QED  BY <1>0, <2>1, <3>3, <3>4 DEF BarrierInv
  <2>3. \A x \in Threads \ {t} : pc'[x] = pc[x]
    BY <1>1 DEF LeaveBarrier, Goto, TypeOK
  <2>4. \A x \in Threads : /\ left'[x] <= entered'[x] /\ entered'[x] <= left'[x] + 1
                           /\ entered'[x] # left'[x] => pc'[x] \in BarrierPoints
                           /\ \A u \in Threads : left'[u] <= entered'[x]
    BY SMTT(30), <1>0, <2>1, <2>3 DEF BarrierInv
  <2>. QED  BY <2>2, <2>4 DEF BarrierInv
<1>2. CASE EnterBarrier(t)
  <2>1. /\ left[t] = entered[t] /\ pc[t] \in BarrierPoints
        /\ entered' = [entered EXCEPT ![t] = @ + 1] /\ left' = left /\ pc' = pc
    BY <1>2 DEF EnterBarrier, Barrier!Enter
  <2>2. \A x \in Threads : left'[x] = Cardinality(Passed(x)')
    <3>1. ~ LeaveBarrier(t)
      BY <1>0, <2>1 DEF LeaveBarrier, Barrier!Leave
    <3>. QED  BY <2>1, <3>1, PassedSame DEF BarrierInv
  <2>3. \A x \in Threads : /\ left'[x] <= entered'[x] /\ entered'[x] <= left'[x] + 1
                           /\ entered'[x] # left'[x] => pc'[x] \in BarrierPoints
                           /\ \A u \in Threads : left'[u] <= entered'[x]
    BY <1>0, <2>1 DEF BarrierInv
  <2>. QED  BY <2>2, <2>3 DEF BarrierInv
<1>3. CASE ~ LeaveBarrier(t) /\ ~ EnterBarrier(t)
  <2>1. left' = left /\ entered' = entered
    BY <1>3 DEF Step, ReadTable, Calloc, Install, Fill, Copyin, Single, Block, Offer,
       CopyPrivate, SerialCode, barrierVars
  <2>2. \A x \in Threads : left'[x] = Cardinality(Passed(x)')
    BY <1>3, <2>1, PassedSame DEF BarrierInv
  <2>3. \A x \in Threads : pc[x] \in BarrierPoints => pc'[x] = pc[x]
    <3>1. CASE t = 0 /\ SerialCode
      <4>1. \A x \in Threads : at[x] = 0
        BY SMTT(30), <3>1, PrivateAssumption DEF SerialCode, PlaceInv
      <4>. QED  BY <4>1 DEF PlaceInv, Getting, BarrierPoints
    <3>2. CASE ~ SerialCode \/ t # 0
      BY SMTT(30), <1>3, <3>2 DEF Step, ReadTable, Calloc, Install, Fill, Copyin, Single, Block, Offer,
         CopyPrivate, AfterBlock, Goto, TypeOK, BarrierPoints
    <3>. QED  BY <3>1, <3>2
  <2>. QED  BY <2>1, <2>2, <2>3 DEF BarrierInv
<1>. QED  BY <1>1, <1>2, <1>3

-----------------------------------------------------------------------------
(* The member's place after a block. *)
LEMMA AfterBlockFacts ==
  ASSUME TypeOK, NEW t \in Threads, AfterBlock(t)
  PROVE  /\ pc' \in [Threads -> Points]
         /\ at' \in [Threads -> Nat]
         /\ IF Program[at[t]] = "nowait" THEN pc'[t] = "single" /\ at'[t] = at[t] + 1
                                         ELSE pc'[t] = "ended" /\ at'[t] = at[t]
         /\ \A x \in Threads \ {t} : pc'[x] = pc[x] /\ at'[x] = at[x]
<1>1. "single" \in Points /\ "ended" \in Points /\ at[t] + 1 \in Nat
  BY DEF Points, Inside, TypeOK
<1>2. CASE Program[at[t]] = "nowait"
  BY <1>1, <1>2, Zenon DEF AfterBlock, Goto, TypeOK
<1>3. CASE Program[at[t]] # "nowait"
  BY <1>1, <1>3 DEF AfterBlock, Goto, TypeOK
<1>. QED  BY <1>2, <1>3

(* At the fork the others are idle and the main thread is before the       *)
(* region.                                                                 *)
LEMMA ForkFacts ==
  ASSUME PlaceInv, SerialCode
  PROVE  \A x \in Threads : /\ at[x] = 0 /\ pc[x] \in {"idle", "serial"} \cup Getting
                            /\ at'[x] = 1 /\ pc'[x] = "get"
<1>1. at[0] = 0 /\ 0 \in Threads
  BY PrivateAssumption DEF SerialCode, PlaceInv
<1>2. \A x \in Threads : at[x] = 0
  BY <1>1 DEF PlaceInv
<1>. QED  BY <1>2 DEF PlaceInv, SerialCode

(* Any other step moves one member. *)
LEMMA OthersStay ==
  ASSUME TypeOK, NEW t \in Threads, Step(t), ~ SerialCode, NEW x \in Threads, x # t
  PROVE  /\ pc'[x] = pc[x] /\ at'[x] = at[x]
         /\ single_count'[x] = single_count[x] /\ lock'[x] = lock[x]
<1>1. pc'[x] = pc[x] /\ at'[x] = at[x]
  BY DEF Step, ReadTable, Calloc, Install, Fill, Copyin, Single, Block, Offer, CopyPrivate,
     EnterBarrier, LeaveBarrier, AfterBlock, Goto, TypeOK
<1>2. CASE ~ Single(t)
  BY <1>1, <1>2 DEF Step, ReadTable, Calloc, Install, Fill, Copyin, Block, Offer,
     CopyPrivate, EnterBarrier, LeaveBarrier, singleVars
<1>3. CASE Single(t)
  BY SMTT(30), <1>1, <1>3 DEF Single, TypeOK
<1>. QED  BY SMTT(30), <1>2, <1>3

(* What a step that is no single does to the members' counts: nothing. *)
LEMMA CountsStay ==
  ASSUME NEW t, Step(t), ~ Single(t)
  PROVE  /\ single_count' = single_count /\ team_single_count' = team_single_count
         /\ lock' = lock
BY DEF Step, ReadTable, Calloc, Install, Fill, Copyin, Block, Offer, CopyPrivate,
   EnterBarrier, LeaveBarrier, SerialCode, singleVars

(* Where a step takes a member: on to the next point of the same construct *)
(* or to the next construct.                                               *)
Moves(t) ==
  \/ /\ at'[t] = at[t]
     /\ \/ pc[t] = "get" /\ pc'[t] \in {"calloc", "fill"}
        \/ pc[t] = "calloc" /\ pc'[t] = "install"
        \/ pc[t] = "install" /\ pc'[t] = "fill"
        \/ pc[t] = "fill" /\ pc'[t] \in {"serial", "copyin"}
        \/ pc[t] = "fill" /\ pc'[t] = "single" /\ ~ serial /\ at[t] = 1
        \/ pc[t] = "copyin" /\ pc'[t] = "copied"
        \/ pc[t] = "copied" /\ pc'[t] = "single" /\ at[t] = 1
        \/ pc[t] = "single" /\ pc'[t] \in {"block", "ended"}
        \/ pc[t] = "block" /\ pc'[t] = "ended"
        \/ pc[t] = "ended" /\ pc'[t] = "offer"
        \/ pc[t] = "offer" /\ pc'[t] = "offered"
        \/ pc[t] = "offered" /\ pc'[t] = "copy"
        \/ pc[t] = "copy" /\ pc'[t] = "taken"
        \/ pc[t] \in BarrierPoints /\ pc'[t] = pc[t]
  \/ /\ pc[t] \in {"single", "block", "ended", "taken"} /\ pc'[t] = "single"
     /\ at[t] \in Constructs /\ at'[t] = at[t] + 1
     /\ Program[at[t]] = "copyprivate" => pc[t] = "taken"

(* Every step of a member in a region is one of these moves.               *)
LEMMA Moving ==
  ASSUME TypeOK, PlaceInv, NEW t \in Threads, Step(t), ~ SerialCode
  PROVE  Moves(t) /\ (pc[t] = "single" => Single(t)) /\ (pc[t] = "block" => Block(t))
<1>. USE DEF Goto
<1>0. pc \in [Threads -> Points] /\ at \in [Threads -> Nat]
  BY DEF TypeOK
<1>1. CASE ReadTable(t) \/ Calloc(t) \/ Install(t)
  BY SMTT(30), <1>0, <1>1 DEF ReadTable, Calloc, Install, Moves
<1>2. CASE Fill(t)
  <2>1. pc[t] = "fill" /\ at'[t] = at[t] /\ at[t] \in {0, 1}
    BY <1>2 DEF Fill, PlaceInv, Getting
  <2>2. pc'[t] \in {"serial", "copyin"} \/ (pc'[t] = "single" /\ ~ serial /\ at[t] = 1)
    BY <1>0, <1>2, <2>1 DEF Fill
  <2>. QED  BY <2>1, <2>2 DEF Moves
<1>3. CASE Copyin(t) \/ Offer(t) \/ CopyPrivate(t)
  BY SMTT(30), <1>0, <1>3 DEF Copyin, Offer, CopyPrivate, Moves
<1>4. CASE Single(t)
  <2>1. pc[t] = "single" /\ at[t] \in Constructs
    BY <1>4 DEF Single
  <2>2. CASE team_single_count = single_count[t]
    <3>1. pc' = [pc EXCEPT ![t] = "block"] /\ at' = at
      BY <1>4, <2>2 DEF Single
    <3>. QED  BY <1>0, <1>4, <2>1, <3>1 DEF Moves
  <2>3. CASE team_single_count # single_count[t]
    <3>1. AfterBlock(t)
      BY <1>4, <2>3 DEF Single
    <3>. QED  BY <1>4, <2>1, <3>1, AfterBlockFacts DEF Moves
  <2>. QED  BY ZenonT(30), <2>2, <2>3
<1>5. CASE Block(t)
  <2>1. pc[t] = "block" /\ at[t] \in Constructs /\ AfterBlock(t)
    BY <1>5 DEF Block, PlaceInv, Inside
  <2>. QED  BY <1>5, <2>1, AfterBlockFacts DEF Moves
<1>6. CASE EnterBarrier(t)
  BY <1>6 DEF EnterBarrier, Moves, BarrierPoints
<1>7. CASE LeaveBarrier(t)
  <2>1. pc[t] = "copied" => at[t] = 1
    BY DEF PlaceInv
  <2>2. pc[t] \in {"ended", "taken"} => at[t] \in Constructs
    BY DEF PlaceInv, Inside
  <2>. QED  BY <1>0, <1>7, <2>1, <2>2 DEF LeaveBarrier, Moves
<1>. QED  BY <1>1, <1>2, <1>3, <1>4, <1>5, <1>6, <1>7 DEF Step

-----------------------------------------------------------------------------
(* A member that copies has the winner of its construct as its source, and *)
(* the winner is still there.                                              *)
LEMMA SourceFacts ==
  ASSUME PrivateInv, NEW t \in Threads, pc[t] = "copy"
  PROVE  /\ copyprivate_src \in Threads /\ lock[copyprivate_src]
         /\ at[copyprivate_src] = at[t]
         /\ pc[copyprivate_src] \in {"offered", "copy", "taken"}
<1>. DEFINE k == at[t]
<1>0. TypeOK /\ PlaceInv /\ Arrival
  BY EverybodyArrives DEF PrivateInv
<1>1. k \in Constructs /\ Program[k] = "copyprivate" /\ k \in Nat /\ k # 0
  BY <1>0, ProgramFacts DEF PlaceInv, Inside
<1>2. <<k, 2>> \in Barriers /\ <<k, 3>> \in Barriers
  BY <1>1, ProgramFacts DEF Barriers
<1>3. Base(t) = k /\ Stage(t) = 3
  BY DEF Base, Stage, Before, Getting
<1>4. ~ \E u \in Threads : HasPassed(u, <<k, 3>>)
  BY <1>0, <1>1, <1>2, <1>3 DEF Arrival, HasPassed, StandsAt, BarrierPoints
<1>5. k <= team_single_count
  BY <1>0, <1>1 DEF PrivateInv, CountInv, Before, Getting
<1>6. PICK w \in Threads : Won(w, k)
  BY <1>1, <1>4, <1>5 DEF PrivateInv, WinnerInv
<1>7. HasPassed(w, <<k, 2>>) \/ StandsAt(w, <<k, 2>>)
  BY <1>0, <1>1, <1>2, <1>3 DEF Arrival, HasPassed
<1>8. pc[w] \in {"offered", "copy", "taken"}
  <2>1. Base(w) = k
    BY <1>6 DEF Won, Base, Inside, Before, Getting
  <2>2. Stage(w) = 3 \/ (Stage(w) = 2 /\ pc[w] \in BarrierPoints)
    BY <1>1, <1>7, <2>1 DEF HasPassed, StandsAt, Stage
  <2>. QED  BY <2>2 DEF Stage, BarrierPoints
<1>9. copyprivate_src = w
  BY <1>6, <1>8 DEF PrivateInv, SourceInv, Won
<1>. QED  BY <1>6, <1>8, <1>9 DEF Won

(* While a member has its copyin to do, the main thread has not gone on.   *)
LEMMA CopyinFacts ==
  ASSUME PrivateInv, NEW t \in Threads, pc[t] = "copyin"
  PROVE  thdprv # NULL /\ Copy(0) = Changed
<1>0. TypeOK /\ PlaceInv /\ Arrival /\ 0 \in Threads
  BY EverybodyArrives, PrivateAssumption DEF PrivateInv
<1>1. serial /\ at[0] # 0
  BY <1>0 DEF PlaceInv
<1>2. <<0, 1>> \in Barriers
  BY <1>1, ProgramFacts DEF Barriers
<1>3. Base(t) = 0 /\ Stage(t) = 1
  BY DEF Base, Stage, Before
<1>4. ~ HasPassed(0, <<0, 1>>)
  BY <1>0, <1>2, <1>3 DEF Arrival, HasPassed, StandsAt, BarrierPoints
<1>5. pc[0] \in Before
  BY <1>0, <1>1, <1>4 DEF HasPassed, Base, TypeOK
<1>. QED  BY <1>1, <1>5 DEF PrivateInv, DataInv

(* A store to a copy. *)
LEMMA StoreFacts ==
  ASSUME TypeOK, NEW w \in Threads, NEW t \in Threads, NEW v \in Nat \cup {NULL},
         table' = [table EXCEPT ![w][t] = v]
  PROVE  /\ table' \in [Threads -> [Threads -> Nat \cup {NULL}]]
         /\ \A x, y \in Threads :
              table'[x][y] = IF x = w /\ y = t THEN v ELSE table[x][y]
<1>. DEFINE Row == [Threads -> Nat \cup {NULL}]
<1>1. table \in [Threads -> Row] /\ table[w] \in Row
  BY DEF TypeOK
<1>2. [table[w] EXCEPT ![t] = v] \in Row
  BY <1>1
<1>3. table' = [table EXCEPT ![w] = [table[w] EXCEPT ![t] = v]]
  OBVIOUS
<1>4. table' \in [Threads -> Row]
  BY <1>1, <1>2, <1>3
<1>. QED  BY <1>1, <1>2, <1>3, <1>4

(* Every step keeps the types.                                             *)
LEMMA TypeStep ==
  ASSUME PrivateInv, NEW t \in Threads, Step(t)
  PROVE  TypeOK'
<1>. USE DEF Goto
<1>0. TypeOK /\ PlaceInv /\ TableInv
  BY DEF PrivateInv
<1>1. CASE ReadTable(t)
  BY <1>0, <1>1 DEF Step, TypeOK, ReadTable, Points, Before, Getting, singleVars, barrierVars
<1>2. CASE Calloc(t)
  BY <1>0, <1>2 DEF Step, TypeOK, Calloc, Points, Before, Getting, singleVars, barrierVars
<1>3. CASE Install(t)
  BY <1>0, <1>3 DEF Step, TypeOK, Install, InstalledTable,
           Points, Before, Getting, singleVars, barrierVars
<1>4. CASE Fill(t)
  <2>1. table' \in [Threads -> [Threads -> Nat \cup {NULL}]]
    <3>1. t_local[t] \in Threads /\ Static \in Nat \cup {NULL}
      BY <1>0, <1>4 DEF Fill, TypeOK, TableInv, Static
    <3>. QED  BY <1>0, <1>4, <3>1, StoreFacts, Zenon DEF Fill, TypeOK
  <2>. QED  BY <1>0, <1>4, <2>1, Zenon DEF Step, TypeOK, Fill,
           Points, Before, Getting, singleVars, barrierVars
<1>5. CASE Copyin(t)
  <2>1. table' \in [Threads -> [Threads -> Nat \cup {NULL}]]
    <3>1. Copy(0) \in Nat \cup {NULL} /\ thdprv \in Threads
      BY <1>0, <1>5, CopyinFacts DEF Copyin, Changed, TypeOK
    <3>. QED  BY <1>0, <1>5, <3>1, StoreFacts, Zenon DEF Copyin, Store
  <2>. QED  BY <1>0, <1>5, <2>1, Zenon DEF Step, TypeOK, Copyin,
           Points, Before, Getting, singleVars, barrierVars
<1>6. CASE Single(t)
  <2>1. /\ pc' \in [Threads -> Points]
        /\ at' \in [Threads -> Nat]
    <3>1. CASE team_single_count = single_count[t]
      <4>1. "block" \in Points
        BY DEF Points, Inside
      <4>2. pc' = [pc EXCEPT ![t] = "block"] /\ at' = at
        BY <1>6, <3>1 DEF Single
      <4>. QED  BY <1>0, <4>1, <4>2 DEF TypeOK
    <3>2. CASE team_single_count # single_count[t]
      BY <1>0, <1>6, <3>2, AfterBlockFacts DEF Single
    <3>. QED  BY <3>1, <3>2
  <2>2. /\ single_count' \in [Threads -> Nat] /\ team_single_count' \in Nat
        /\ lock' \in [Threads -> BOOLEAN]
    <3>1. single_count[t] + 1 \in Nat
      BY <1>0 DEF TypeOK
    <3>2. single_count' \in [Threads -> Nat] /\ team_single_count' \in Nat
      BY <1>0, <1>6, <3>1 DEF Single, NextCount, TypeOK
    <3>3. PICK w \in BOOLEAN : lock' = [lock EXCEPT ![t] = w]
      BY <1>6, Zenon DEF Single
    <3>4. lock' \in [Threads -> BOOLEAN]
      BY <1>0, <3>3 DEF TypeOK
    <3>. QED  BY <3>2, <3>4
  <2>. QED  BY <1>0, <1>6, <2>1, <2>2 DEF Step, TypeOK, Single, getVars, barrierVars
<1>7. CASE Block(t)
  <2>1. /\ pc' \in [Threads -> Points]
        /\ at' \in [Threads -> Nat]
    BY <1>0, <1>7, AfterBlockFacts DEF Block
  <2>2. table' \in [Threads -> [Threads -> Nat \cup {NULL}]]
    <3>1. Written(at[t]) \in Nat \cup {NULL} /\ thdprv \in Threads
      <4>1. thdprv # NULL /\ at[t] + 1 \in Nat
        BY <1>0, <1>7 DEF Block, TableInv, TypeOK
      <4>. QED  BY <1>0, <4>1 DEF Written, TypeOK
    <3>. QED  BY <1>0, <1>7, <3>1, StoreFacts, Zenon DEF Block, Store
  <2>3. runs' \in [Constructs -> Nat]
    <3>1. at[t] \in Constructs
      BY <1>0, <1>7 DEF Block, PlaceInv, Inside
    <3>. QED  BY <1>0, <1>7, <3>1 DEF Block, TypeOK
  <2>. QED  BY SMTT(30), <1>0, <1>7, <2>1, <2>2, <2>3 DEF Step, TypeOK, Block, singleVars, barrierVars
<1>8. CASE Offer(t)
  BY <1>0, <1>8 DEF Step, TypeOK, Offer, Points, Inside, getVars, barrierVars
<1>9. CASE CopyPrivate(t)
  <2>1. table' \in [Threads -> [Threads -> Nat \cup {NULL}]]
    <3>1. copyprivate_src \in Threads /\ thdprv \in Threads
      BY <1>0, <1>9, SourceFacts DEF CopyPrivate, TypeOK, TableInv
    <3>2. Copy(copyprivate_src) \in Nat \cup {NULL}
      BY <1>0, <3>1 DEF Copy, TypeOK
    <3>. QED  BY <1>0, <1>9, <3>1, <3>2, StoreFacts, Zenon DEF CopyPrivate, Store, TypeOK
  <2>. QED  BY <1>0, <1>9, <2>1, Zenon DEF Step, TypeOK, CopyPrivate,
           Points, Inside, singleVars, barrierVars
<1>10. CASE EnterBarrier(t)
  <2>1. entered' \in [Threads -> Nat] /\ left' = left
    BY SMTT(30), <1>0, <1>10 DEF EnterBarrier, Barrier!Enter, TypeOK
  <2>. QED  BY <1>0, <1>10, <2>1 DEF Step, TypeOK, EnterBarrier, getVars, singleVars
<1>11. CASE LeaveBarrier(t)
  <2>1. /\ pc' \in [Threads -> Points]
        /\ at' \in [Threads -> Nat]
    <3>1. PICK p \in {"single", "copy", "offer"}, a \in {at[t], at[t] + 1} :
            pc' = [pc EXCEPT ![t] = p] /\ (at' = at \/ at' = [at EXCEPT ![t] = a])
      BY <1>11 DEF LeaveBarrier
    <3>2. p \in Points /\ a \in Nat
      BY <1>0, <3>1 DEF Points, Inside, Before, TypeOK
    <3>. QED  BY <1>0, <3>1, <3>2, Zenon DEF TypeOK
  <2>2. left' \in [Threads -> Nat] /\ entered' = entered
    BY <1>0, <1>11 DEF LeaveBarrier, Barrier!Leave, TypeOK
  <2>. QED  BY <1>0, <1>11, <2>1, <2>2 DEF Step, TypeOK, LeaveBarrier, getVars, singleVars
<1>12. CASE t = 0 /\ SerialCode
  <2>1. table' \in [Threads -> [Threads -> Nat \cup {NULL}]]
    <3>1. Changed \in Nat \cup {NULL} /\ thdprv \in Threads
      BY <1>0, <1>12 DEF SerialCode, Changed, TypeOK, TableInv
    <3>. QED  BY <1>0, <1>12, <3>1, StoreFacts, Zenon DEF SerialCode, Store
  <2>. QED  BY <1>0, <1>12, <2>1 DEF Step, TypeOK, SerialCode,
           Points, Before, Getting, singleVars, barrierVars
<1>. QED
  BY <1>1, <1>2, <1>3, <1>4, <1>5, <1>6, <1>7, <1>8, <1>9, <1>10, <1>11, <1>12 DEF Step

-----------------------------------------------------------------------------
(* What a single does. *)
LEMMA SingleFacts ==
  ASSUME TypeOK, PlaceInv, CountInv, NEW t \in Threads, Single(t)
  PROVE  /\ at[t] \in Constructs /\ pc[t] = "single"
         /\ single_count[t] = at[t] - 1 /\ single_count'[t] = at[t]
         /\ at[t] - 1 <= team_single_count
         /\ IF team_single_count = at[t] - 1
              THEN /\ team_single_count' = at[t] /\ lock'[t]
                   /\ pc'[t] = "block" /\ at'[t] = at[t]
              ELSE /\ team_single_count' = team_single_count /\ ~ lock'[t]
                   /\ IF Program[at[t]] = "nowait"
                        THEN pc'[t] = "single" /\ at'[t] = at[t] + 1
                        ELSE pc'[t] = "ended" /\ at'[t] = at[t]
<1>1. at[t] \in Constructs /\ pc[t] = "single" /\ at[t] \in Nat
  BY SMTT(30) DEF Single, TypeOK
<1>2. single_count[t] = at[t] - 1 /\ single_count[t] <= team_single_count
  BY ZenonT(30), <1>1 DEF CountInv, Before, Getting
<1>3. single_count'[t] = single_count[t] + 1
  BY SMTT(30) DEF Single, TypeOK
<1>4. CASE team_single_count = single_count[t]
  <2>1. pc'[t] = "block" /\ at'[t] = at[t] /\ team_single_count' = single_count[t] + 1
    BY <1>4 DEF Single, NextCount, Goto, TypeOK
  <2>2. lock'[t]
    BY <1>4, Zenon DEF Single, TypeOK
  <2>3. team_single_count = at[t] - 1 /\ single_count[t] + 1 = at[t]
    BY <1>1, <1>2, <1>4
  <2>. QED  BY <1>1, <1>2, <1>3, <2>1, <2>2, <2>3
<1>5. CASE team_single_count # single_count[t]
  <2>1. AfterBlock(t) /\ team_single_count' = team_single_count
    BY <1>5 DEF Single
  <2>2. ~ lock'[t]
    BY <1>5, Zenon DEF Single, TypeOK
  <2>3. team_single_count # at[t] - 1 /\ single_count[t] + 1 = at[t]
    BY <1>1, <1>2, <1>5
  <2>. QED  BY SMTT(30), <1>1, <1>2, <1>3, <2>1, <2>2, <2>3, AfterBlockFacts
<1>. QED  BY <1>4, <1>5, Zenon

(* Every step keeps the singles counted by place.                          *)
LEMMA CountStep ==
  ASSUME TypeOK, PlaceInv, CountInv, NEW t \in Threads, Step(t)
  PROVE  CountInv'
<1>0. at \in [Threads -> Nat] /\ single_count \in [Threads -> Nat] /\ team_single_count \in Nat
  BY DEF TypeOK
<1>1. CASE Single(t)
  <2>1. team_single_count <= team_single_count' /\ team_single_count' \in Nat
    BY SMTT(30), <1>0, <1>1, SingleFacts
  <2>2. ASSUME NEW x \in Threads, x # t
        PROVE  /\ single_count'[x] = single_count[x] /\ pc'[x] = pc[x] /\ at'[x] = at[x]
    <3>1. ~ SerialCode
      BY <1>1, ForkFacts DEF Single, Getting
    <3>. QED  BY SMTT(30), <2>2, <3>1, OthersStay
  <2>3. /\ single_count'[t] <= team_single_count'
        /\ single_count'[t] = IF pc'[t] \in Before THEN 0
                              ELSE IF pc'[t] = "single" THEN at'[t] - 1 ELSE at'[t]
    BY SMTT(30), <1>0, <1>1, SingleFacts DEF Before, Getting
  <2>. QED  BY SMTT(30), <1>0, <2>1, <2>2, <2>3 DEF CountInv
<1>2. CASE ~ Single(t) /\ ~ SerialCode
  <2>1. /\ \A x \in Threads : x # t => pc'[x] = pc[x] /\ at'[x] = at[x]
        /\ single_count' = single_count /\ team_single_count' = team_single_count
    BY <1>2, OthersStay, CountsStay
  <2>2. Moves(t) /\ pc[t] # "single"
    BY SMTT(30), <1>2, Moving
  <2>3. /\ pc[t] \in Before /\ pc'[t] \in Before => single_count[t] = 0
        /\ pc[t] \in Before /\ pc'[t] \notin Before => pc'[t] = "single" /\ at'[t] = 1
        /\ pc[t] \notin Before => /\ pc'[t] \notin Before
                                  /\ at'[t] = IF pc'[t] = "single" THEN at[t] + 1 ELSE at[t]
    BY SMTT(30), <2>2 DEF Moves, CountInv, Before, Getting, BarrierPoints
  <2>4. single_count[t] = IF pc'[t] \in Before THEN 0
                          ELSE IF pc'[t] = "single" THEN at'[t] - 1 ELSE at'[t]
    BY SMTT(30), <1>0, <2>2, <2>3 DEF CountInv
  <2>. QED  BY <2>1, <2>4 DEF CountInv
<1>3. CASE SerialCode
  <2>1. \A x \in Threads : pc[x] \in Before /\ pc'[x] \in Before /\ pc[x] # "single"
    BY <1>3, ForkFacts DEF Before, Getting
  <2>2. single_count' = single_count /\ team_single_count' = team_single_count
    BY <2>1, CountsStay DEF Single
  <2>. QED  BY <2>1, <2>2 DEF CountInv
<1>. QED  BY <1>1, <1>2, <1>3

(* Who is in a block changes only with a single and with the block. *)
LEMMA BlockStays ==
  ASSUME TypeOK, PlaceInv, NEW t \in Threads, Step(t), ~ Single(t), ~ Block(t)
  PROVE  /\ runs' = runs
         /\ \A x \in Threads : /\ pc'[x] = "block" <=> pc[x] = "block"
                               /\ pc[x] = "block" => at'[x] = at[x]
<1>1. runs' = runs
  BY DEF Step, ReadTable, Calloc, Install, Fill, Copyin, Offer, CopyPrivate,
     EnterBarrier, LeaveBarrier, SerialCode
<1>2. CASE SerialCode
  BY <1>1, <1>2, ForkFacts DEF Getting
<1>3. CASE ~ SerialCode
  <2>1. pc[t] # "block" /\ pc'[t] # "block"
    BY <1>3, Moving DEF Moves, BarrierPoints
  <2>. QED  BY SMTT(30), <1>1, <1>3, <2>1, OthersStay
<1>. QED  BY SMTT(30), <1>2, <1>3

(* Every step keeps each block run once by one member.                     *)
LEMMA RunsStep ==
  ASSUME TypeOK, PlaceInv, CountInv, RunsInv, NEW t \in Threads, Step(t)
  PROVE  RunsInv'
<1>0. /\ at \in [Threads -> Nat] /\ single_count \in [Threads -> Nat]
      /\ team_single_count \in Nat /\ runs \in [Constructs -> Nat]
  BY DEF TypeOK
<1>1. CASE Single(t)
  <2>0. ~ SerialCode
    BY <1>1, ForkFacts, Zenon DEF Single, Getting
  <2>1. \A x \in Threads : x # t => pc'[x] = pc[x] /\ at'[x] = at[x]
    BY <2>0, OthersStay, Zenon
  <2>2. runs' = runs
    BY <1>1, Zenon DEF Single
  <2>3. CASE team_single_count = at[t] - 1
    <3>1. /\ at[t] \in Constructs /\ pc[t] = "single" /\ team_single_count' = at[t]
          /\ pc'[t] = "block" /\ at'[t] = at[t]
      BY <1>1, <2>3, SingleFacts, ZenonT(30)
    <3>2. runs[at[t]] = 0
      BY <1>0, <2>3, <3>1 DEF RunsInv
    <3>3. \A u \in Threads : pc[u] = "block" => at[u] < at[t]
      BY <1>0, <2>3 DEF CountInv, Before, Getting
    <3>4. ASSUME NEW k \in Constructs
          PROVE  IF k > team_single_count' THEN runs[k] = 0
                 ELSE \/ runs[k] = 1
                      \/ runs[k] = 0 /\ \E u \in Threads : pc'[u] = "block" /\ at'[u] = k
      <4>1. CASE k = at[t]
        BY <1>0, <3>1, <3>2, <4>1
      <4>2. CASE k # at[t]
        <5>1. k > team_single_count' <=> k > team_single_count
          BY <1>0, <2>3, <3>1, <4>2, ProgramFacts
        <5>. QED  BY <2>1, <3>1, <5>1 DEF RunsInv
      <4>. QED  BY <4>1, <4>2
    <3>5. \A x \in Threads : pc'[x] = "block" => runs[at'[x]] = 0
      BY <2>1, <3>1, <3>2 DEF RunsInv
    <3>6. \A x, u \in Threads : pc'[x] = "block" /\ pc'[u] = "block" /\ at'[x] = at'[u] => x = u
      BY SMTT(30), <1>0, <2>1, <3>1, <3>3 DEF RunsInv
    <3>. QED  BY <2>2, <3>4, <3>5, <3>6, Zenon DEF RunsInv
  <2>4. CASE team_single_count # at[t] - 1
    <3>1. pc[t] = "single" /\ pc'[t] # "block" /\ team_single_count' = team_single_count
      BY <1>1, <2>4, SingleFacts
    <3>. QED  BY <2>1, <2>2, <3>1 DEF RunsInv
  <2>. QED  BY <2>3, <2>4
<1>2. CASE Block(t)
  <2>0. ~ SerialCode /\ ~ Single(t)
    BY SMTT(30), <1>2, ForkFacts DEF Single, Block, Getting
  <2>1. /\ \A x \in Threads : x # t => pc'[x] = pc[x] /\ at'[x] = at[x]
        /\ team_single_count' = team_single_count
    BY SMTT(30), <2>0, OthersStay, CountsStay
  <2>2. pc[t] = "block" /\ pc'[t] # "block" /\ at[t] \in Constructs
    <3>1. pc[t] = "block" /\ AfterBlock(t)
      BY SMTT(30), <1>2 DEF Block
    <3>. QED  BY <3>1, AfterBlockFacts DEF PlaceInv, Inside
  <2>3. runs'[at[t]] = 1 /\ \A k \in Constructs : k # at[t] => runs'[k] = runs[k]
    BY SMTT(30), <1>0, <1>2, <2>2 DEF Block, RunsInv
  <2>4. at[t] <= team_single_count
    BY <1>0, <2>2 DEF CountInv, Before, Getting
  <2>5. \A x \in Threads : pc'[x] = "block" => x # t /\ at[x] # at[t] /\ at[x] \in Constructs
    BY <2>1, <2>2 DEF RunsInv, PlaceInv, Inside
  <2>6. ASSUME NEW k \in Constructs
        PROVE  IF k > team_single_count THEN runs'[k] = 0
               ELSE \/ runs'[k] = 1
                    \/ runs'[k] = 0 /\ \E u \in Threads : pc'[u] = "block" /\ at'[u] = k
    <3>1. CASE k = at[t]
      BY <1>0, <2>3, <2>4, <3>1
    <3>2. CASE k # at[t]
      BY SMTT(30), <2>1, <2>2, <2>3, <3>2 DEF RunsInv
    <3>. QED  BY <3>1, <3>2
  <2>7. \A x \in Threads : pc'[x] = "block" => runs'[at'[x]] = 0
    BY SMTT(30), <2>1, <2>3, <2>5 DEF RunsInv
  <2>8. \A x, u \in Threads : pc'[x] = "block" /\ pc'[u] = "block" /\ at'[x] = at'[u] => x = u
    BY SMTT(30), <2>1, <2>5 DEF RunsInv
  <2>. QED  BY SMTT(30), <2>1, <2>6, <2>7, <2>8 DEF RunsInv
<1>3. CASE ~ Single(t) /\ ~ Block(t)
  <2>1. team_single_count' = team_single_count
    BY <1>3, CountsStay
  <2>. QED  BY <1>3, <2>1, BlockStays DEF RunsInv
<1>. QED  BY <1>1, <1>2, <1>3
-----------------------------------------------------------------------------
(* No step undoes the passing of a barrier. *)
LEMMA PassedForGood ==
  ASSUME TypeOK, PlaceInv, NEW t \in Threads, Step(t), NEW u \in Threads,
         NEW b \in Barriers, HasPassed(u, b)
  PROVE  HasPassed(u, b)'
<1>1. b \in Passed(u)
  BY DEF Passed
<1>2. Passed(u) \subseteq Passed(u)'
  <2>1. CASE LeaveBarrier(t)
    BY <2>1, PassedLeft
  <2>2. CASE ~ LeaveBarrier(t)
    BY <2>2, PassedSame
  <2>. QED  BY <2>1, <2>2
<1>. QED  BY <1>1, <1>2 DEF Passed

(* Nobody becomes a winner but by a single. *)
LEMMA WonBefore ==
  ASSUME TypeOK, PlaceInv, NEW t \in Threads, Step(t), ~ Single(t), NEW x \in Threads, NEW k,
         Won(x, k)'
  PROVE  Won(x, k)
<1>1. lock' = lock
  BY CountsStay
<1>2. CASE SerialCode
  BY <1>2, ForkFacts DEF Won, Inside
<1>3. CASE ~ SerialCode /\ x # t
  BY <1>1, <1>3, OthersStay DEF Won
<1>4. CASE ~ SerialCode /\ x = t
  <2>1. Moves(t) /\ pc[t] # "single"
    BY SMTT(30), <1>4, Moving
  <2>2. pc[t] \in Inside /\ at'[t] = at[t]
    BY <1>4, <2>1 DEF Moves, Won, Inside, BarrierPoints
  <2>. QED  BY <1>1, <1>4, <2>2 DEF Won
<1>. QED  BY <1>2, <1>3, <1>4

(* The winner of a copyprivate stays in it until it leaves the last        *)
(* barrier.                                                                *)
LEMMA WinnerStays ==
  ASSUME TypeOK, PlaceInv, NEW t \in Threads, Step(t), NEW w \in Threads, NEW k \in Constructs,
         Program[k] = "copyprivate", Won(w, k)
  PROVE  Won(w, k)' \/ HasPassed(w, <<k, 3>>)'
<1>0. ~ SerialCode
  BY ForkFacts DEF Won, Inside, Getting
<1>1. CASE w # t
  BY SMTT(30), <1>0, <1>1, OthersStay DEF Won
<1>2. CASE w = t
  <2>0. ~ Single(t) /\ lock' = lock
    BY SMTT(30), <1>2, CountsStay DEF Won, Single, Inside
  <2>1. \/ pc'[t] \in Inside /\ at'[t] = k
        \/ pc'[t] = "single" /\ at'[t] = k + 1
    BY SMTT(30), <1>0, <1>2, Moving DEF Moves, Won, Inside, BarrierPoints
  <2>2. CASE pc'[t] \in Inside /\ at'[t] = k
    BY SMTT(30), <1>2, <2>0, <2>2 DEF Won
  <2>3. CASE pc'[t] = "single" /\ at'[t] = k + 1
    BY <1>2, <2>3, ProgramFacts DEF HasPassed, Base, Before, Getting
  <2>. QED  BY SMTT(30), <2>1, <2>2, <2>3
<1>. QED  BY <1>1, <1>2

(* Every step keeps the one winner of a copyprivate.                       *)
LEMMA WinnerStep ==
  ASSUME TypeOK, PlaceInv, CountInv, WinnerInv, NEW t \in Threads, Step(t)
  PROVE  WinnerInv'
<1>0. /\ at \in [Threads -> Nat] /\ team_single_count \in Nat
      /\ Constructs \subseteq Nat
  BY SMTT(30), ProgramFacts DEF TypeOK
<1>1. ASSUME NEW k \in Constructs, Program[k] = "copyprivate", k <= team_single_count
      PROVE  \/ \E w \in Threads : Won(w, k)'
             \/ \E u \in Threads : HasPassed(u, <<k, 3>>)'
  <2>1. CASE \E w \in Threads : Won(w, k)
    BY <1>1, <2>1, WinnerStays
  <2>2. CASE \E u \in Threads : HasPassed(u, <<k, 3>>)
    <3>1. <<k, 3>> \in Barriers
      BY <1>1, ProgramFacts DEF Barriers
    <3>. QED  BY <2>2, <3>1, PassedForGood
  <2>. QED  BY <1>1, <2>1, <2>2 DEF WinnerInv
<1>2. CASE Single(t)
  <2>0. ~ SerialCode
    BY <1>2, ForkFacts DEF Single, Getting
  <2>1. \A x \in Threads : x # t => pc'[x] = pc[x] /\ at'[x] = at[x] /\ lock'[x] = lock[x]
    BY SMTT(30), <2>0, OthersStay
  <2>2. CASE team_single_count = at[t] - 1
    <3>1. /\ at[t] \in Constructs /\ pc[t] = "single" /\ team_single_count' = at[t]
          /\ pc'[t] = "block" /\ at'[t] = at[t] /\ lock'[t]
      BY <1>2, <2>2, SingleFacts, Zenon
    <3>2. \A u \in Threads : ~ Won(u, at[t])
      BY SMTT(30), <1>0, <2>2 DEF CountInv, Won, Inside, Before, Getting
    <3>3. \A x \in Threads : pc'[x] = "block" => lock'[x]
      BY SMTT(30), <2>1, <3>1 DEF WinnerInv
    <3>4. \A x, u \in Threads : \A k \in Constructs : Won(x, k)' /\ Won(u, k)' => x = u
      BY <2>1, <3>1, <3>2 DEF WinnerInv, Won
    <3>5. \A k \in Constructs : k = at[t] => Won(t, k)'
      BY <3>1 DEF Won, Inside
    <3>6. \A k \in Constructs : k <= team_single_count' => k <= team_single_count \/ k = at[t]
      BY SMTT(30), <1>0, <2>2, <3>1
    <3>. QED  BY <1>1, <3>3, <3>4, <3>5, <3>6 DEF WinnerInv
  <2>3. CASE team_single_count # at[t] - 1
    <3>1. team_single_count' = team_single_count /\ ~ lock'[t] /\ pc'[t] # "block"
      BY SMTT(30), <1>2, <2>3, SingleFacts
    <3>2. \A x \in Threads : pc'[x] = "block" => lock'[x]
      BY SMTT(30), <2>1, <3>1 DEF WinnerInv
    <3>3. \A x, u \in Threads : \A k \in Constructs : Won(x, k)' /\ Won(u, k)' => x = u
      BY SMTT(30), <2>1, <3>1 DEF WinnerInv, Won
    <3>. QED  BY SMTT(30), <1>1, <3>1, <3>2, <3>3 DEF WinnerInv
  <2>. QED  BY <2>2, <2>3
<1>3. CASE ~ Single(t)
  <2>1. team_single_count' = team_single_count /\ lock' = lock
    BY <1>3, CountsStay
  <2>2. \A x \in Threads : pc'[x] = "block" => pc[x] = "block"
    <3>1. CASE Block(t)
      <4>1. pc[t] = "block"
        BY <3>1 DEF Block
      <4>2. ~ SerialCode
        BY <4>1, ForkFacts DEF Getting
      <4>. QED  BY <4>1, <4>2, OthersStay
    <3>2. CASE ~ Block(t)
      BY SMTT(30), <1>3, <3>2, BlockStays
    <3>. QED  BY <3>1, <3>2
  <2>3. \A x, u \in Threads : \A k \in Constructs : Won(x, k)' /\ Won(u, k)' => x = u
    BY <1>3, WonBefore DEF WinnerInv
  <2>. QED  BY <1>1, <2>1, <2>2, <2>3 DEF WinnerInv
<1>. QED  BY <1>2, <1>3

(* The pointer stays that of the winner until all have copied: nobody else *)
(* offers, as it would have to be the same construct.                      *)
LEMMA SourceStep ==
  ASSUME PrivateInv, NEW t \in Threads, Step(t)
  PROVE  SourceInv'
<1>0. TypeOK /\ PlaceInv /\ Arrival /\ WinnerInv /\ SourceInv /\ CountInv
  BY EverybodyArrives DEF PrivateInv
<1>. DEFINE Offered == {"offered", "copy", "taken"}
<1>1. CASE Offer(t)
  <2>0. ~ SerialCode /\ ~ Single(t)
    BY SMTT(30), <1>0, <1>1, ForkFacts DEF Offer, Single, Getting
  <2>1. /\ \A x \in Threads : x # t => pc'[x] = pc[x]
        /\ lock' = lock /\ pc[t] = "offer"
    BY ZenonT(30), <1>0, <1>1, <2>0, OthersStay, CountsStay DEF Offer
  <2>2. CASE ~ lock[t]
    BY <1>0, <1>1, <2>1, <2>2 DEF Offer, SourceInv
  <2>3. CASE lock[t]
    <3>1. copyprivate_src' = t
      BY <1>1, <2>3 DEF Offer
    <3>2. ASSUME NEW x \in Threads, x # t, lock[x], pc[x] \in Offered
          PROVE  FALSE
      <4>. DEFINE j == at[t]
                  k == at[x]
      <4>1. /\ j \in Constructs /\ Program[j] = "copyprivate" /\ Won(t, j)
            /\ k \in Constructs /\ Program[k] = "copyprivate" /\ Won(x, k)
        BY SMTT(30), <1>0, <2>1, <2>3, <3>2 DEF PlaceInv, Won, Inside
      <4>2. j # k
        BY <1>0, <3>2, <4>1 DEF WinnerInv
      <4>3. j \in Nat /\ k \in Nat /\ j # 0
        BY <4>1, ProgramFacts
      <4>4. /\ Base(t) = j /\ Stage(t) = 2
            /\ Base(x) = k /\ Stage(x) \in {2, 3}
        BY <2>1, <3>2 DEF Base, Stage, Before, Getting
      <4>5. <<j, 1>> \in Barriers /\ <<j, 3>> \in Barriers
        BY SMTT(30), <4>1, <4>3, ProgramFacts DEF Barriers
      <4>6. CASE j < k
        <5>1. HasPassed(x, <<j, 3>>)
          BY <4>3, <4>4, <4>6 DEF HasPassed
        <5>2. HasPassed(t, <<j, 3>>) \/ StandsAt(t, <<j, 3>>)
          BY <1>0, <4>5, <5>1 DEF Arrival
        <5>. QED  BY <4>3, <4>4, <5>2 DEF HasPassed, StandsAt
      <4>7. CASE k < j
        <5>1. HasPassed(t, <<j, 1>>)
          BY <4>3, <4>4 DEF HasPassed
        <5>2. HasPassed(x, <<j, 1>>) \/ StandsAt(x, <<j, 1>>)
          BY <1>0, <4>5, <5>1 DEF Arrival
        <5>. QED  BY <4>3, <4>4, <4>7, <5>2 DEF HasPassed, StandsAt
      <4>. QED  BY SMTT(30), <4>2, <4>3, <4>6, <4>7
    <3>. QED  BY <2>1, <3>1, <3>2 DEF SourceInv
  <2>. QED  BY SMTT(30), <2>2, <2>3
<1>2. CASE ~ Offer(t)
  <2>1. copyprivate_src' = copyprivate_src
    BY SMTT(30), <1>2 DEF Step, ReadTable, Calloc, Install, Fill, Copyin, Single, Block, CopyPrivate,
       EnterBarrier, LeaveBarrier, SerialCode, singleVars
  <2>2. ASSUME NEW x \in Threads, lock'[x], pc'[x] \in Offered
        PROVE  lock[x] /\ pc[x] \in Offered
    <3>1. CASE SerialCode
      BY <1>0, <2>2, <3>1, ForkFacts
    <3>2. CASE Single(t) /\ ~ SerialCode
      BY <1>0, <2>2, <3>2, SingleFacts, OthersStay, Zenon
    <3>3. CASE ~ Single(t) /\ ~ SerialCode /\ x # t
      BY SMTT(30), <1>0, <2>2, <3>3, OthersStay
    <3>4. CASE ~ Single(t) /\ ~ SerialCode /\ x = t
      <4>1. lock[t]
        BY SMTT(30), <2>2, <3>4, CountsStay
      <4>2. pc[t] # "offer"
        BY SMTT(30), <1>0, <1>2, <3>4 DEF Step, ReadTable, Calloc, Install, Fill, Copyin, Block,
           CopyPrivate, EnterBarrier, LeaveBarrier, BarrierPoints
      <4>. QED  BY ZenonT(30), <1>0, <2>2, <3>4, <4>1, <4>2, Moving DEF Moves, BarrierPoints
    <3>. QED  BY <3>1, <3>2, <3>3, <3>4
  <2>. QED  BY SMTT(30), <1>0, <2>1, <2>2 DEF SourceInv
<1>. QED  BY <1>1, <1>2

-----------------------------------------------------------------------------
(* The table in use stays, once there is one, and a member changes its own *)
(* copy only, where it is made, copied in, written or copied.              *)
LEMMA CopyStep ==
  ASSUME PrivateInv, NEW t \in Threads, Step(t), thdprv # NULL
  PROVE  /\ thdprv' = thdprv
         /\ \A x \in Threads : x # t => Copy(x)' = Copy(x)
         /\ Copy(t)' = IF pc[t] = "fill" /\ Copy(t) = NULL THEN Static
                       ELSE IF pc[t] \in {"copyin", "serial"} THEN Changed
                       ELSE IF pc[t] \in {"block", "copy"} THEN Written(at[t])
                       ELSE Copy(t)
<1>0. TypeOK /\ PlaceInv /\ TableInv /\ DataInv /\ thdprv \in Threads
  BY DEF PrivateInv, TypeOK
<1>1. ASSUME NEW v \in Nat \cup {NULL}, thdprv' = thdprv,
             table' = [table EXCEPT ![thdprv][t] = v]
      PROVE  Copy(t)' = v /\ \A x \in Threads : x # t => Copy(x)' = Copy(x)
  BY <1>0, <1>1, StoreFacts, ZenonT(30) DEF Copy
<1>2. CASE ReadTable(t) \/ Calloc(t) \/ Install(t) \/ Single(t) \/ Offer(t)
           \/ EnterBarrier(t) \/ LeaveBarrier(t)
  <2>1. thdprv' = thdprv /\ table' = table
    BY SMTT(30), <1>2 DEF ReadTable, Calloc, Install, Single, Offer, EnterBarrier, LeaveBarrier, getVars
  <2>2. pc[t] \notin {"fill", "copyin", "serial", "block", "copy"}
    BY SMTT(30), <1>2 DEF ReadTable, Calloc, Install, Single, Offer, EnterBarrier, LeaveBarrier,
       BarrierPoints
  <2>. QED  BY <2>1, <2>2, Zenon DEF Copy
<1>3. CASE Fill(t)
  <2>1. pc[t] = "fill" /\ t_local[t] = thdprv /\ thdprv' = thdprv
    BY <1>0, <1>3 DEF Fill, TableInv
  <2>2. CASE Copy(t) = NULL
    <3>1. table' = [table EXCEPT ![thdprv][t] = Static] /\ Static \in Nat \cup {NULL}
      BY <1>3, <2>1, <2>2 DEF Fill, NoCopyYet, Copy, Static
    <3>. QED  BY <1>1, <2>1, <2>2, <3>1, Zenon
  <2>3. CASE Copy(t) # NULL
    <3>1. table' = table
      BY <1>3, <2>1, <2>3 DEF Fill, NoCopyYet, Copy
    <3>. QED  BY <2>1, <2>3, <3>1 DEF Copy
  <2>. QED  BY ZenonT(30), <2>2, <2>3
<1>4. CASE Copyin(t)
  <2>1. pc[t] = "copyin" /\ thdprv' = thdprv /\ table' = [table EXCEPT ![thdprv][t] = Copy(0)]
    BY <1>4 DEF Copyin, Store
  <2>2. Copy(0) = Changed /\ Changed \in Nat \cup {NULL}
    BY <2>1, CopyinFacts DEF Changed
  <2>. QED  BY <1>1, <2>1, <2>2, Zenon
<1>5. CASE t = 0 /\ SerialCode
  <2>1. pc[t] = "serial" /\ thdprv' = thdprv /\ table' = [table EXCEPT ![thdprv][t] = Changed]
    BY <1>5 DEF SerialCode, Store
  <2>2. Changed \in Nat \cup {NULL}
    BY DEF Changed
  <2>. QED  BY <1>1, <2>1, <2>2, Zenon
<1>6. CASE Block(t)
  <2>1. /\ pc[t] = "block" /\ thdprv' = thdprv
        /\ table' = [table EXCEPT ![thdprv][t] = Written(at[t])]
    BY <1>6 DEF Block, Store
  <2>2. Written(at[t]) \in Nat \cup {NULL}
    BY <1>0 DEF Written, TypeOK
  <2>. QED  BY <1>1, <2>1, <2>2, Zenon
<1>7. CASE CopyPrivate(t) /\ lock[t]
  <2>1. pc[t] = "copy" /\ thdprv' = thdprv /\ table' = table
    BY <1>7 DEF CopyPrivate
  <2>2. Copy(t) = Written(at[t])
    BY <1>0, <1>7, <2>1 DEF DataInv, Inside
  <2>. QED  BY <2>1, <2>2 DEF Copy
<1>8. CASE CopyPrivate(t) /\ ~ lock[t]
  <2>1. /\ pc[t] = "copy" /\ thdprv' = thdprv
        /\ table' = [table EXCEPT ![thdprv][t] = Copy(copyprivate_src)]
    BY <1>8 DEF CopyPrivate, Store
  <2>2. Copy(copyprivate_src) = Written(at[t])
    BY <1>0, <2>1, SourceFacts DEF DataInv, Inside
  <2>3. Written(at[t]) \in Nat \cup {NULL}
    BY <1>0 DEF Written, TypeOK
  <2>. QED  BY <1>1, <2>1, <2>2, <2>3, Zenon
<1>. QED  BY SMTT(30), <1>2, <1>3, <1>4, <1>5, <1>6, <1>7, <1>8 DEF Step

(* A member that is past getting its copy was so before, or has just got   *)
(* it.                                                                     *)
LEMMA GotBefore ==
  ASSUME TypeOK, PlaceInv, NEW t \in Threads, Step(t), NEW x \in Threads,
         pc'[x] \notin Getting \cup {"idle"}
  PROVE  pc[x] \notin Getting \cup {"idle"} \/ (x = t /\ pc[t] = "fill")
<1>1. ~ SerialCode
  BY ForkFacts DEF Getting
<1>2. CASE x # t
  BY SMTT(30), <1>1, <1>2, OthersStay
<1>3. CASE x = t
  BY <1>1, <1>3, Moving DEF Moves, Getting, BarrierPoints
<1>. QED  BY SMTT(30), <1>2, <1>3

(* Every step keeps one table, with a copy for all that have got one.      *)
LEMMA TableStep ==
  ASSUME PrivateInv, NEW t \in Threads, Step(t)
  PROVE  TableInv'
<1>0. TypeOK /\ PlaceInv /\ TableInv /\ NULL \notin Threads
  BY PrivateAssumption, ZenonT(30) DEF PrivateInv
<1>. DEFINE Tables ==
       /\ thdprv # NULL => heap[thdprv] = "live"
       /\ \A x \in Threads :
            /\ heap[x] = "live" => thdprv = x \/ pc[x] = "install"
            /\ pc[x] \in {"calloc", "install"} => thdprv # x
            /\ pc[x] = "install" => heap[x] = "live"
            /\ pc[x] = "fill" => t_local[x] = thdprv
            /\ pc[x] \notin {"idle", "get", "calloc", "install"} => thdprv # NULL
<1>1. Tables'
  <2>0. Tables
    BY <1>0 DEF TableInv
  <2>1. CASE ReadTable(t)
    BY <1>0, <2>0, <2>1 DEF ReadTable, Goto, TypeOK
  <2>2. CASE Calloc(t)
    BY SMTT(30), <1>0, <2>0, <2>2 DEF Calloc, Goto, TypeOK
  <2>3. CASE Install(t)
    BY SMTT(30), <1>0, <2>0, <2>3 DEF Install, InstalledTable, Goto, TypeOK
  <2>4. CASE Fill(t)
    BY <1>0, <2>0, <2>4 DEF Fill, Goto, TypeOK
  <2>5. CASE t = 0 /\ SerialCode
    <3>1. \A x \in Threads : pc'[x] = "get" /\ pc[x] # "install"
      <4>1. \A x \in Threads : at[x] = 0
        BY <1>0, <2>5, ForkFacts
      <4>. QED  BY <1>0, <2>5, <4>1 DEF SerialCode, PlaceInv
    <3>. QED  BY <2>0, <2>5, <3>1 DEF SerialCode
  <2>6. CASE Copyin(t) \/ Single(t) \/ Block(t) \/ Offer(t) \/ CopyPrivate(t)
             \/ EnterBarrier(t) \/ LeaveBarrier(t)
    <3>1. thdprv' = thdprv /\ heap' = heap /\ t_local' = t_local
      BY SMTT(30), <2>6 DEF Copyin, Single, Block, Offer, CopyPrivate, EnterBarrier, LeaveBarrier, getVars
    <3>2. pc[t] \notin Getting \cup {"idle", "serial"}
      BY <2>6 DEF Copyin, Single, Block, Offer, CopyPrivate, EnterBarrier, LeaveBarrier,
         BarrierPoints, Getting
    <3>3. ~ SerialCode
      BY SMTT(30), <1>0, <3>2, ForkFacts
    <3>4. pc'[t] \notin Getting \cup {"idle"} /\ \A x \in Threads : x # t => pc'[x] = pc[x]
      BY ZenonT(30), <1>0, <3>2, <3>3, Moving, OthersStay DEF Moves, Getting, BarrierPoints
    <3>. QED  BY <2>0, <3>1, <3>2, <3>4, ZenonT(30) DEF Getting
  <2>. QED  BY SMTT(30), <2>1, <2>2, <2>3, <2>4, <2>5, <2>6 DEF Step
<1>2. ASSUME NEW x \in Threads, pc'[x] \notin Getting \cup {"idle"}
      PROVE  Copy(x)' # NULL
  <2>1. pc[x] \notin Getting \cup {"idle"} \/ (x = t /\ pc[t] = "fill")
    BY SMTT(30), <1>0, <1>2, GotBefore
  <2>2. thdprv # NULL
    BY <1>0, <2>1 DEF TableInv, Getting
  <2>3. at[t] \in Nat /\ Static # NULL /\ Changed # NULL /\ Written(at[t]) # NULL
    <3>1. NULL \notin Nat
      BY PrivateAssumption
    <3>2. at[t] \in Nat
      BY SMTT(30), <1>0 DEF TypeOK
    <3>. QED  BY <3>1, <3>2 DEF Static, Changed, Written
  <2>4. Copy(x) # NULL \/ (x = t /\ pc[t] = "fill")
    BY <1>0, <2>1 DEF TableInv
  <2>. QED  BY <2>2, <2>3, <2>4, CopyStep, ZenonT(30)
<1>. QED  BY <1>1, <1>2, Zenon DEF TableInv

(* Nobody comes back to before the region. *)
LEMMA BeforeStep ==
  ASSUME TypeOK, PlaceInv, NEW t \in Threads, Step(t), ~ SerialCode, NEW x \in Threads,
         pc'[x] \in Before
  PROVE  pc[x] \in Before /\ at'[x] = at[x]
<1>1. CASE x # t
  BY SMTT(30), <1>1, OthersStay
<1>2. CASE x = t
  BY SMTT(30), <1>2, Moving DEF Moves, Before, Getting, BarrierPoints
<1>. QED  BY <1>1, <1>2

(* How a member comes to a single. *)
LEMMA SingleBefore ==
  ASSUME TypeOK, PlaceInv, NEW t \in Threads, Step(t), pc'[t] = "single"
  PROVE  \/ pc[t] = "fill" /\ ~ serial /\ at'[t] = 1
         \/ pc[t] = "copied" /\ at'[t] = 1
         \/ /\ at[t] \in Constructs /\ at'[t] = at[t] + 1
            /\ Program[at[t]] = "copyprivate" => pc[t] = "taken"
<1>1. ~ SerialCode
  BY ForkFacts
<1>. QED  BY <1>1, Moving DEF Moves, BarrierPoints

(* What the winner of a construct has done. *)
LEMMA WinnerBefore ==
  ASSUME TypeOK, PlaceInv, CountInv, NEW t \in Threads, Step(t), NEW x \in Threads,
         pc'[x] \in Inside \ {"block"}, lock'[x]
  PROVE  /\ pc[x] \in Inside /\ lock[x] /\ at'[x] = at[x]
         /\ pc[x] = "block" => x = t
<1>0. ~ SerialCode
  BY ForkFacts DEF Inside
<1>1. CASE x # t
  BY <1>0, <1>1, OthersStay
<1>2. CASE x = t
  <2>1. ~ Single(t)
    BY SMTT(30), <1>2, SingleFacts DEF Inside
  <2>2. Moves(t) /\ pc[t] # "single" /\ lock[t]
    BY SMTT(30), <1>0, <1>2, <2>1, Moving, CountsStay
  <2>3. pc[t] \in Inside /\ at'[t] = at[t]
    BY SMTT(30), <1>2, <2>2 DEF Moves, Inside, BarrierPoints
  <2>. QED  BY SMTT(30), <1>2, <2>2, <2>3
<1>. QED  BY <1>1, <1>2

(* Every step keeps the values in the copies.                              *)
LEMMA DataStep ==
  ASSUME PrivateInv, NEW t \in Threads, Step(t)
  PROVE  DataInv'
<1>0. /\ TypeOK /\ PlaceInv /\ CountInv /\ TableInv /\ DataInv /\ serial' = serial
      /\ 0 \in Threads /\ Changed # NULL
  <2>1. 1 # NULL /\ 0 \in Threads
    BY PrivateAssumption
  <2>. QED  BY <2>1 DEF PrivateInv, Step, Changed
<1>1. ASSUME serial, at'[0] # 0, pc'[0] \in Before
      PROVE  thdprv' # NULL /\ Copy(0)' = Changed
  <2>1. CASE SerialCode
    <3>1. pc[0] = "serial"
      BY <2>1 DEF SerialCode
    <3>2. thdprv # NULL
      BY SMTT(30), <1>0, <3>1 DEF TableInv
    <3>3. t = 0
      <4>1. pc'[t] = "get" /\ at[t] = 0 /\ at'[t] = 1
        BY SMTT(30), <1>0, <2>1, ForkFacts
      <4>2. t # 0 => pc[t] = "idle"
        BY <1>0, <4>1 DEF PlaceInv
      <4>. QED  BY SMTT(30), <4>1, <4>2 DEF Step, ReadTable, Calloc, Install, Fill, Copyin, Single, Block,
             Offer, CopyPrivate, EnterBarrier, LeaveBarrier, BarrierPoints
    <3>. QED  BY <3>1, <3>2, <3>3, CopyStep
  <2>2. CASE ~ SerialCode
    <3>1. pc[0] \in Before /\ at[0] # 0
      BY <1>0, <1>1, <2>2, BeforeStep
    <3>2. thdprv # NULL /\ Copy(0) = Changed
      BY <1>0, <1>1, <3>1 DEF DataInv
    <3>3. pc[0] \notin {"block", "copy"}
      BY <3>1 DEF Before, Getting
    <3>. QED  BY SMTT(30), <1>0, <3>2, <3>3, CopyStep
  <2>. QED  BY <2>1, <2>2
<1>2. ASSUME NEW x \in Threads, pc'[x] = "copied"
      PROVE  Copy(x)' = Changed
  <2>1. ~ SerialCode
    BY <1>0, <1>2, ForkFacts
  <2>2. pc[x] = "copied" \/ (x = t /\ pc[t] = "copyin")
    <3>1. CASE x # t
      BY SMTT(30), <1>0, <1>2, <2>1, <3>1, OthersStay
    <3>2. CASE x = t
      BY <1>0, <1>2, <2>1, <3>2, Moving DEF Moves
    <3>. QED  BY SMTT(30), <3>1, <3>2
  <2>3. thdprv # NULL
    BY SMTT(30), <1>0, <2>2 DEF TableInv
  <2>. QED  BY <1>0, <2>2, <2>3, CopyStep DEF DataInv
<1>3. ASSUME NEW x \in Threads, serial, pc'[x] = "single", at'[x] = 1
      PROVE  Copy(x)' = Changed
  <2>0. ~ SerialCode
    BY <1>0, <1>3, ForkFacts
  <2>1. pc[x] = "copied" \/ (x # t /\ pc[x] = "single" /\ at[x] = 1)
    <3>1. CASE x # t
      BY SMTT(30), <1>0, <1>3, <2>0, <3>1, OthersStay
    <3>2. CASE x = t
      BY SMTT(30), <1>0, <1>3, <3>2, SingleBefore, ProgramFacts
    <3>. QED  BY <3>1, <3>2
  <2>2. thdprv # NULL /\ Copy(x) = Changed
    BY SMTT(30), <1>0, <1>3, <2>1 DEF TableInv, DataInv
  <2>. QED  BY <2>1, <2>2, CopyStep
<1>4. ASSUME NEW x \in Threads, pc'[x] \in Inside \ {"block"}, lock'[x]
      PROVE  Copy(x)' = Written(at[x]) /\ at'[x] = at[x]
  <2>1. pc[x] \in Inside /\ lock[x] /\ at'[x] = at[x] /\ (pc[x] = "block" => x = t)
    BY <1>0, <1>4, WinnerBefore, Zenon
  <2>2. thdprv # NULL /\ (pc[x] # "block" => Copy(x) = Written(at[x]))
    BY <1>0, <2>1 DEF TableInv, DataInv, Inside
  <2>3. pc[x] \notin {"fill", "copyin", "serial"}
    BY SMTT(30), <2>1 DEF Inside
  <2>. QED  BY <2>1, <2>2, <2>3, CopyStep
<1>5. ASSUME NEW x \in Threads, pc'[x] = "taken"
      PROVE  Copy(x)' = Written(at[x]) /\ at'[x] = at[x]
  <2>0. ~ SerialCode
    BY SMTT(30), <1>0, <1>5, ForkFacts
  <2>1. (pc[x] = "taken" \/ (x = t /\ pc[t] = "copy")) /\ at'[x] = at[x]
    <3>1. CASE x # t
      BY SMTT(30), <1>0, <1>5, <2>0, <3>1, OthersStay
    <3>2. CASE x = t
      BY SMTT(30), <1>0, <1>5, <2>0, <3>2, Moving DEF Moves
    <3>. QED  BY <3>1, <3>2
  <2>2. thdprv # NULL /\ (pc[x] = "taken" => Copy(x) = Written(at[x]))
    BY <1>0, <2>1 DEF TableInv, DataInv
  <2>. QED  BY <2>1, <2>2, CopyStep
<1>6. ASSUME NEW x \in Threads, pc'[x] = "single", at'[x] > 1,
             Program[at'[x] - 1] = "copyprivate"
      PROVE  Copy(x)' = Written(at'[x] - 1)
  <2>0. ~ SerialCode
    BY SMTT(30), <1>0, <1>6, ForkFacts
  <2>1. CASE x # t
    <3>1. pc[x] = "single" /\ at'[x] = at[x]
      BY <1>0, <1>6, <2>0, <2>1, OthersStay, ZenonT(30)
    <3>2. thdprv # NULL /\ Copy(x) = Written(at[x] - 1)
      BY SMTT(30), <1>0, <1>6, <3>1 DEF TableInv, DataInv
    <3>. QED  BY <2>1, <3>1, <3>2, CopyStep
  <2>2. CASE x = t
    <3>1. at[t] \in Constructs /\ at'[t] = at[t] + 1
      BY <1>0, <1>6, <2>2, SingleBefore
    <3>2. at'[t] - 1 = at[t]
      BY <3>1, ProgramFacts
    <3>3. pc[t] = "taken"
      BY SMTT(30), <1>0, <1>6, <2>2, <3>1, <3>2, SingleBefore
    <3>4. thdprv # NULL /\ Copy(t) = Written(at[t])
      BY <1>0, <3>3 DEF TableInv, DataInv
    <3>. QED  BY <2>2, <3>2, <3>3, <3>4, CopyStep
  <2>. QED  BY <2>1, <2>2
<1>7. ASSUME NEW x \in Threads, Copy(x)' = Written(at[x]), at'[x] = at[x]
      PROVE  Copy(x)' = Written(at[x])'
  BY <1>7 DEF Written
<1>. QED  BY SMTT(30), <1>0, <1>1, <1>2, <1>3, <1>4, <1>5, <1>6, <1>7 DEF DataInv, Written, Changed

-----------------------------------------------------------------------------
(* The invariant holds before the first region.                            *)
LEMMA InitInv == Init => PrivateInv
<1>. SUFFICES ASSUME Init PROVE PrivateInv
  OBVIOUS
<1>. USE DEF Init, Barrier!Init
<1>1. 0 \in Threads /\ \A x \in Threads : pc[x] \in {"get", "idle"} /\ at[x] \in {0, 1}
  BY PrivateAssumption
<1>2. TypeOK
  BY SMTT(30), <1>1 DEF TypeOK, Points, Before, Getting
<1>3. PlaceInv
  BY <1>1 DEF PlaceInv, Getting, Inside
<1>4. BarrierInv
  <2>1. ASSUME NEW x \in Threads PROVE Passed(x) = {}
    <3>1. Base(x) = 0 /\ Stage(x) = 1
      BY <1>1 DEF Base, Stage, Before, Getting
    <3>2. ASSUME NEW b \in Barriers PROVE b[1] \in Nat /\ b[2] \in 1..3
      BY ProgramFacts DEF Barriers
    <3>. QED  BY <3>1, <3>2 DEF Passed, HasPassed
  <2>2. Cardinality({}) = 0
    BY FS_EmptySet
  <2>. QED  BY <2>1, <2>2 DEF BarrierInv
<1>5. CountInv /\ RunsInv /\ WinnerInv /\ SourceInv
  BY SMTT(30), <1>1, ProgramFacts DEF CountInv, RunsInv, WinnerInv, SourceInv, Before, Getting
<1>6. TableInv
  BY <1>1 DEF TableInv, Getting
<1>7. DataInv
  BY <1>1 DEF DataInv, Inside
<1>. QED  BY <1>2, <1>3, <1>4, <1>5, <1>6, <1>7 DEF PrivateInv

(* The invariant is inductive.                                             *)
LEMMA StepInv == PrivateInv /\ [Next]_vars => PrivateInv'
<1>1. ASSUME PrivateInv, NEW t \in Threads, Step(t) PROVE PrivateInv'
  BY SMTT(30), <1>1, TypeStep, PlaceStep, BarrierStep, CountStep, RunsStep, WinnerStep, SourceStep,
     TableStep, DataStep DEF PrivateInv
<1>2. ASSUME PrivateInv, UNCHANGED vars PROVE PrivateInv'
  <2>0. /\ TypeOK /\ PlaceInv /\ BarrierInv /\ CountInv /\ RunsInv
        /\ WinnerInv /\ SourceInv /\ TableInv /\ DataInv
    BY <1>2 DEF PrivateInv
  <2>1. /\ UNCHANGED <<serial, pc, at, runs, entered, left>>
        /\ UNCHANGED <<thdprv, heap, table, t_local>>
        /\ UNCHANGED <<single_count, team_single_count, lock, copyprivate_src>>
    BY <1>2 DEF vars, getVars, singleVars, barrierVars
  <2>2. TypeOK'
    BY <2>0, <2>1, Zenon DEF TypeOK
  <2>3. PlaceInv'
    BY <2>0, <2>1, Zenon DEF PlaceInv
  <2>4. CountInv'
    BY <2>0, <2>1, Zenon DEF CountInv
  <2>5. RunsInv'
    BY <2>0, <2>1, Zenon DEF RunsInv
  <2>6. SourceInv'
    BY <2>0, <2>1, Zenon DEF SourceInv
  <2>7. \A x : Base(x)' = Base(x) /\ Stage(x)' = Stage(x)
    BY <2>1, Zenon DEF Base, Stage
  <2>8. BarrierInv'
    <3>1. Barriers' = Barriers
      BY <2>1 DEF Barriers
    <3>. QED  BY <2>0, <2>1, <2>7, <3>1, PassedStays, ZenonT(30) DEF BarrierInv
  <2>9. WinnerInv'
    BY <2>0, <2>1, <2>7, Zenon DEF WinnerInv, Won, HasPassed
  <2>10. TableInv' /\ DataInv'
    BY <2>0, <2>1, Zenon DEF TableInv, DataInv, Copy
  <2>. QED  BY <2>2, <2>3, <2>4, <2>5, <2>6, <2>8, <2>9, <2>10 DEF PrivateInv
<1>. QED  BY <1>1, <1>2 DEF Next

(* A block that all have left behind has been run, by one member. *)
LEMMA InvGivesOnce == PrivateInv => EachSingleOnce
<1>. SUFFICES ASSUME PrivateInv, NEW k \in Constructs
              PROVE  runs[k] <= 1 /\ ((\A t \in Threads : at[t] > k) => runs[k] = 1)
  BY DEF EachSingleOnce
<1>0. /\ 0 \in Threads /\ k \in Nat /\ k # 0 /\ team_single_count \in Nat
      /\ at[0] \in Nat /\ single_count[0] \in Nat
  BY PrivateAssumption, ProgramFacts DEF PrivateInv, TypeOK
<1>1. runs[k] \in {0, 1}
  BY DEF PrivateInv, RunsInv
<1>2. ASSUME \A t \in Threads : at[t] > k PROVE runs[k] = 1
  <2>1. at[0] > 1 /\ at[0] > k
    BY SMTT(30), <1>0, <1>2
  <2>2. pc[0] \notin Before
    BY <1>0, <2>1 DEF PrivateInv, PlaceInv, Before
  <2>3. single_count[0] >= k /\ single_count[0] <= team_single_count
    BY <1>0, <2>1, <2>2 DEF PrivateInv, CountInv
  <2>4. ~ \E t \in Threads : at[t] = k
    BY SMTT(30), <1>0, <1>2
  <2>. QED  BY <1>0, <2>3, <2>4 DEF PrivateInv, RunsInv
<1>. QED  BY <1>1, <1>2

(* What the data invariant says is what the constructs promise.            *)
LEMMA InvGivesCopies == PrivateInv => CopiesDelivered
<1>. SUFFICES ASSUME PrivateInv, NEW t \in Threads
              PROVE  /\ serial /\ at[t] = 1 /\ pc[t] = "single" => Copy(t) = Changed
                     /\ pc[t] = "single" /\ at[t] > 1 =>
                          (Program[at[t] - 1] = "copyprivate" => Copy(t) = Written(at[t] - 1))
                     /\ pc[t] = "copy" =>
                          /\ at[copyprivate_src] = at[t] /\ lock[copyprivate_src]
                          /\ pc[copyprivate_src] \in {"offered", "copy", "taken"}
  BY DEF CopiesDelivered
<1>. QED  BY SMTT(30), SourceFacts DEF PrivateInv, DataInv

(***************************************************************************)
(* The block of a single is executed by one member, for any team and any   *)
(* program of constructs (__pmp_thread_single).                            *)
(***************************************************************************)
THEOREM SinglesRunOnce == Spec => []EachSingleOnce
BY InitInv, StepInv, InvGivesOnce, PTL DEF Spec

(***************************************************************************)
(* There is one table of threadprivate copies, the losers of the race give *)
(* theirs back, and who is past __ompc_get_thdprv has its copy in it.      *)
(***************************************************************************)
THEOREM TableIsOne == Spec => []OneTable
<1>1. PrivateInv => OneTable
  BY DEF PrivateInv, TableInv, OneTable, Getting
<1>. QED  BY <1>1, InitInv, StepInv, PTL DEF Spec

(***************************************************************************)
(* Copyin and copyprivate deliver what the main thread and the winner had, *)
(* and the winner is in the construct while others read its data           *)
(* (__ompc_copyin_thdprv, __ompc_copyprivate and their barriers).          *)
(***************************************************************************)
THEOREM CopiesAreDelivered == Spec => []CopiesDelivered
BY InitInv, StepInv, InvGivesCopies, PTL DEF Spec

(***************************************************************************)
(* A threadprivate copy is made from the static data once; no later step   *)
(* brings the initial value back (__ompc_get_thdprv).                      *)
(***************************************************************************)
THEOREM CopiesAreMadeOnce == Spec => InitializedOnce
<1>1. PrivateInv /\ [Next]_vars =>
        [\A t \in Threads :
           thdprv # NULL /\ Copy(t) # NULL =>
             Copy(t)' # NULL /\ (Copy(t)' = Static => Copy(t) = Static)]_vars
  <2>1. ASSUME PrivateInv, NEW t \in Threads, Step(t), NEW x \in Threads,
               thdprv # NULL, Copy(x) # NULL
        PROVE  Copy(x)' # NULL /\ (Copy(x)' = Static => Copy(x) = Static)
    <3>1. NULL \notin Nat
      BY SMTT(30), PrivateAssumption
    <3>2. at[t] \in Nat /\ (pc[t] \in {"block", "copy"} => at[t] # 0)
      BY SMTT(30), <2>1, ProgramFacts DEF PrivateInv, TypeOK, PlaceInv, Inside
    <3>3. /\ Changed # NULL /\ Changed # Static
          /\ Written(at[t]) # NULL /\ Written(at[t]) # Static
      BY <3>1, <3>2 DEF Changed, Static, Written
    <3>. QED  BY <2>1, <3>3, CopyStep
  <2>. QED  BY SMTT(30), <2>1 DEF Next
<1>. QED  BY <1>1, InitInv, StepInv, PTL DEF Spec, InitializedOnce
=============================================================================
