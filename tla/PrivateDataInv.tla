------------------------- MODULE PrivateDataInv -----------------------------
(***************************************************************************)
(* The inductive invariant of PrivateData, for any team and any program of *)
(* single constructs: where the members are and which barriers they have   *)
(* passed, who runs a block, who is the winner of a copyprivate, and what  *)
(* is in the table and in the copies.                                      *)
(***************************************************************************)
EXTENDS PrivateData

Getting == {"get", "calloc", "install", "fill"}
Before == Getting \cup {"idle", "serial", "copyin", "copied"}
Inside == {"block", "ended", "offer", "offered", "copy", "taken"}
Points == Before \cup {"single"} \cup Inside

TypeOK ==
  /\ serial \in BOOLEAN
  /\ thdprv \in Threads \cup {NULL}
  /\ heap \in [Threads -> {"none", "live", "freed"}]
  /\ table \in [Threads -> [Threads -> Nat \cup {NULL}]]
  /\ t_local \in [Threads -> Threads \cup {NULL}]
  /\ single_count \in [Threads -> Nat] /\ team_single_count \in Nat
  /\ lock \in [Threads -> BOOLEAN]
  /\ copyprivate_src \in Threads \cup {NULL}
  /\ pc \in [Threads -> Points]
  /\ at \in [Threads -> Nat]
  /\ entered \in [Threads -> Nat] /\ left \in [Threads -> Nat]
  /\ runs \in [Constructs -> Nat]

(* Where a member can be in its program.  Before the region, place 0, only *)
(* the main thread is at work.                                             *)
PlaceInv ==
  \A t \in Threads :
    /\ at[t] = 0 <=> at[0] = 0
    /\ at[t] = 0 => serial /\ (IF t = 0 THEN pc[t] \in Getting \cup {"serial"}
                                        ELSE pc[t] = "idle")
    /\ pc[t] \in {"idle", "serial"} => at[t] = 0
    /\ pc[t] \in Getting => at[t] \in {0, 1}
    /\ pc[t] \in {"copyin", "copied"} => serial /\ at[t] = 1
    /\ pc[t] = "single" => at[t] \in 1..(Len(Program) + 1)
    /\ pc[t] \in Inside => at[t] \in Constructs
    /\ pc[t] = "ended" => Program[at[t]] # "nowait"
    /\ pc[t] \in {"offer", "offered", "copy", "taken"} => Program[at[t]] = "copyprivate"

-----------------------------------------------------------------------------
(* The barriers of the region by name: <<0, 1>> follows copyin, <<k, 1>>   *)
(* the k-th single, <<k, 2>> and <<k, 3>> are those of __ompc_copyprivate. *)
Barriers ==
  {b \in (0..Len(Program)) \X (1..3) :
     IF b[1] = 0 THEN serial /\ b[2] = 1
     ELSE Program[b[1]] = "copyprivate" \/ (Program[b[1]] = "wait" /\ b[2] = 1)}

(* The first barrier that a member may not have passed. *)
Base(t) == IF pc[t] \in Before THEN 0 ELSE at[t]
Stage(t) ==
  IF pc[t] \in {"offer", "offered"} THEN 2 ELSE IF pc[t] \in {"copy", "taken"} THEN 3 ELSE 1

HasPassed(t, b) == b[1] < Base(t) \/ (b[1] = Base(t) /\ b[2] < Stage(t))
Passed(t) == {b \in Barriers : HasPassed(t, b)}
StandsAt(t, b) == pc[t] \in BarrierPoints /\ b[1] = Base(t) /\ b[2] = Stage(t)

(* The counts of the abstract barrier are those of the barriers by name. *)
BarrierInv ==
  \A t \in Threads :
    /\ left[t] = Cardinality(Passed(t))
    /\ left[t] <= entered[t] /\ entered[t] <= left[t] + 1
    /\ entered[t] # left[t] => pc[t] \in BarrierPoints
    /\ \A u \in Threads : left[u] <= entered[t]

(* What follows: a barrier that somebody has passed everybody has reached. *)
Arrival ==
  \A t, u \in Threads : \A b \in Barriers :
    HasPassed(u, b) => HasPassed(t, b) \/ StandsAt(t, b)

-----------------------------------------------------------------------------
(* The constructs that were taken are those up to team->single_count, and  *)
(* each of them has one member that runs its block or has run it.          *)
CountInv ==
  \A t \in Threads :
    /\ single_count[t] = IF pc[t] \in Before THEN 0
                         ELSE IF pc[t] = "single" THEN at[t] - 1 ELSE at[t]
    /\ single_count[t] <= team_single_count

RunsInv ==
  /\ \A k \in Constructs :
       IF k > team_single_count THEN runs[k] = 0
       ELSE runs[k] = 1 \/ (runs[k] = 0 /\ \E t \in Threads : pc[t] = "block" /\ at[t] = k)
  /\ \A t \in Threads : pc[t] = "block" => runs[at[t]] = 0
  /\ \A t, u \in Threads : pc[t] = "block" /\ pc[u] = "block" /\ at[t] = at[u] => t = u

(* The winner of a construct, while it is in it. *)
Won(t, k) == pc[t] \in Inside /\ at[t] = k /\ lock[t]

WinnerInv ==
  /\ \A t \in Threads : pc[t] = "block" => lock[t]
  /\ \A t, u \in Threads : \A k \in Constructs : Won(t, k) /\ Won(u, k) => t = u
  /\ \A k \in Constructs : Program[k] = "copyprivate" /\ k <= team_single_count =>
       \/ \E w \in Threads : Won(w, k)
       \/ \E u \in Threads : HasPassed(u, <<k, 3>>)

SourceInv ==
  \A t \in Threads :
    lock[t] /\ pc[t] \in {"offered", "copy", "taken"} => copyprivate_src = t

(* One table: a thread that allocates one has not installed one. *)
TableInv ==
  /\ thdprv # NULL => heap[thdprv] = "live"
  /\ \A t \in Threads :
       /\ heap[t] = "live" => thdprv = t \/ pc[t] = "install"
       /\ pc[t] \in {"calloc", "install"} => thdprv # t
       /\ pc[t] = "install" => heap[t] = "live"
       /\ pc[t] = "fill" => t_local[t] = thdprv
       /\ pc[t] \notin {"idle", "get", "calloc", "install"} => thdprv # NULL
       /\ pc[t] \notin Getting \cup {"idle"} => Copy(t) # NULL

(* The values of the copies at the points where they are told. *)
DataInv ==
  /\ serial /\ at[0] # 0 /\ pc[0] \in Before => thdprv # NULL /\ Copy(0) = Changed
  /\ \A t \in Threads :
       /\ pc[t] = "copied" => Copy(t) = Changed
       /\ serial /\ pc[t] = "single" /\ at[t] = 1 => Copy(t) = Changed
       /\ pc[t] \in Inside \ {"block"} /\ lock[t] => Copy(t) = Written(at[t])
       /\ pc[t] = "taken" => Copy(t) = Written(at[t])
       /\ pc[t] = "single" /\ at[t] > 1 =>
            (Program[at[t] - 1] = "copyprivate" => Copy(t) = Written(at[t] - 1))

PrivateInv ==
  /\ TypeOK /\ PlaceInv /\ BarrierInv /\ CountInv /\ RunsInv
  /\ WinnerInv /\ SourceInv /\ TableInv /\ DataInv

=============================================================================
