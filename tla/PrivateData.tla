---------------------------- MODULE PrivateData ----------------------------
(***************************************************************************)
(* How the members of a team come by their private data (libopenmp/        *)
(* thread.c): the table of threadprivate copies, installed by the first    *)
(* thread to need it; copyin from the main thread; single constructs, won  *)
(* by an exchange on team->single_count; copyprivate, which hands the      *)
(* winner's data to the others between two barriers.  The barrier is the   *)
(* abstract one that TeamBarrier implements.                               *)
(*                                                                         *)
(* One threadprivate variable and one region, with a program of single     *)
(* constructs in which the winner changes its copy.  Thread 0 is the main  *)
(* thread.  When the serial code has used the variable before, the region  *)
(* has a copyin clause; otherwise all members get the variable at once.    *)
(***************************************************************************)
EXTENDS Naturals, Sequences, FiniteSets

CONSTANTS Threads,              \* global ids, the members of the team
          Program,              \* kinds of the single constructs
          NULL

ASSUME PrivateAssumption ==
  /\ 0 \in Threads /\ Threads \subseteq Nat /\ NULL \notin Nat
  /\ Program \in Seq({"nowait", "wait", "copyprivate"})

VARIABLES serial,               \* the serial code has used the variable
          thdprv,               \* *thdprv: whose table is installed
          heap,                 \* the table a thread has allocated
          table,                \* its entries
          t_local,              \* the local pointer t
          single_count, team_single_count,
          lock,                 \* the member has won the construct
          copyprivate_src,      \* team->copyprivate_src
          pc, at,               \* at: the member's place in Program
          entered, left,        \* the barrier
          runs                  \* history: members that ran a single's block

getVars == <<thdprv, heap, table, t_local>>
singleVars == <<single_count, team_single_count, lock, copyprivate_src>>
barrierVars == <<entered, left>>
vars == <<serial, getVars, singleVars, pc, at, barrierVars, runs>>

Barrier == INSTANCE BarrierSpec WITH Rounds <- 2 + 3 * Len(Program)

Constructs == 1 .. Len(Program)
Static == 0                     \* the initial value, in the static data
Changed == 1                    \* what the serial code stores
Written(k) == k + 1             \* what the winner of construct k stores
Copy(t) == table[thdprv][t]     \* (*thdprv)[global_id], as the program reads it

Init ==
  /\ serial \in BOOLEAN
  /\ thdprv = NULL
  /\ heap = [t \in Threads |-> "none"]
  /\ table = [t \in Threads |-> [u \in Threads |-> NULL]]
  /\ t_local = [t \in Threads |-> NULL]
  /\ single_count = [t \in Threads |-> 0]
  /\ team_single_count = 0
  /\ lock = [t \in Threads |-> FALSE]
  /\ copyprivate_src = NULL
  /\ pc = [t \in Threads |-> IF ~serial \/ t = 0 THEN "get" ELSE "idle"]
  /\ at = [t \in Threads |-> IF serial THEN 0 ELSE 1]
  /\ Barrier!Init
  /\ runs = [k \in Constructs |-> 0]

Goto(t, p) == pc' = [pc EXCEPT ![t] = p]
Store(t, v) == table' = [table EXCEPT ![thdprv][t] = v]
-----------------------------------------------------------------------------
(***************************************************************************)
(* __ompc_get_thdprv.                                                      *)
(***************************************************************************)
ReadTable(t) ==
  /\ pc[t] = "get"
  /\ t_local' = [t_local EXCEPT ![t] = thdprv]
  /\ Goto(t, IF thdprv = NULL THEN "calloc" ELSE "fill")
  /\ UNCHANGED <<thdprv, heap, table, singleVars, at, barrierVars, runs>>

Calloc(t) ==
  /\ pc[t] = "calloc"
  /\ heap' = [heap EXCEPT ![t] = "live"]
  /\ t_local' = [t_local EXCEPT ![t] = t]
  /\ Goto(t, "install")
  /\ UNCHANGED <<thdprv, table, singleVars, at, barrierVars, runs>>

(* Fault: the loser of the race goes on with its own table.                *)
OwnTable(t) == t
InstalledTable(t) == IF thdprv = NULL THEN t ELSE thdprv

(* The exchange installs the table, or the loser frees it.                 *)
Install(t) ==
  /\ pc[t] = "install"
  /\ IF thdprv = NULL
       THEN thdprv' = t /\ UNCHANGED heap
       ELSE heap' = [heap EXCEPT ![t] = "freed"] /\ UNCHANGED thdprv
  /\ t_local' = [t_local EXCEPT ![t] = InstalledTable(t)]
  /\ Goto(t, "fill")
  /\ UNCHANGED <<table, singleVars, at, barrierVars, runs>>

(* Fault: the copy is made again on every call.                            *)
Always(t) == TRUE
NoCopyYet(t) == table[t_local[t]][t] = NULL

(* The member's copy is made from the static data, once.                   *)
Fill(t) ==
  /\ pc[t] = "fill"
  /\ IF NoCopyYet(t) THEN table' = [table EXCEPT ![t_local[t]][t] = Static]
                     ELSE UNCHANGED table
  /\ Goto(t, IF at[t] = 0 THEN "serial" ELSE IF serial THEN "copyin" ELSE "single")
  /\ UNCHANGED <<thdprv, heap, t_local, singleVars, at, barrierVars, runs>>

(* The serial code changes the main thread's copy and forks the region.    *)
SerialCode ==
  /\ pc[0] = "serial"
  /\ Store(0, Changed)
  /\ pc' = [t \in Threads |-> "get"]
  /\ at' = [t \in Threads |-> 1]
  /\ UNCHANGED <<thdprv, heap, t_local, singleVars, barrierVars, runs>>

(* __ompc_copyin_thdprv; the compiler has a barrier follow it.             *)
Copyin(t) ==
  /\ pc[t] = "copyin"
  /\ Store(t, Copy(0))
  /\ Goto(t, "copied")
  /\ UNCHANGED <<thdprv, heap, t_local, singleVars, at, barrierVars, runs>>
-----------------------------------------------------------------------------
(***************************************************************************)
(* The constructs.  After a single (and __ompc_end_single, which does      *)
(* nothing) the compiler puts a barrier, unless the construct says nowait, *)
(* and then the call of __ompc_copyprivate, if any (be/com/wn_mp.cxx,      *)
(* Gen_MP_SingleProcess_Block).                                            *)
(***************************************************************************)
AfterBlock(t) ==
  IF Program[at[t]] = "nowait"
    THEN Goto(t, "single") /\ at' = [at EXCEPT ![t] = @ + 1]
    ELSE Goto(t, "ended") /\ UNCHANGED at

(* Fault: the winner's exchange leaves the count as it is.                 *)
SameCount(t) == single_count[t]
NextCount(t) == single_count[t] + 1

Single(t) ==
  LET wins == team_single_count = single_count[t] IN
  /\ pc[t] = "single"
  /\ at[t] \in Constructs
  /\ team_single_count' = IF wins THEN NextCount(t) ELSE team_single_count
  /\ single_count' = [single_count EXCEPT ![t] = @ + 1]
  /\ lock' = [lock EXCEPT ![t] = wins]
  /\ IF wins THEN Goto(t, "block") /\ UNCHANGED at ELSE AfterBlock(t)
  /\ UNCHANGED <<getVars, copyprivate_src, barrierVars, runs>>

Block(t) ==
  /\ pc[t] = "block"
  /\ Store(t, Written(at[t]))
  /\ runs' = [runs EXCEPT ![at[t]] = @ + 1]
  /\ AfterBlock(t)
  /\ UNCHANGED <<thdprv, heap, t_local, singleVars, barrierVars>>

(* __ompc_copyprivate: the winner offers its data, the others copy them.   *)
Offer(t) ==
  /\ pc[t] = "offer"
  /\ copyprivate_src' = IF lock[t] THEN t ELSE copyprivate_src
  /\ Goto(t, "offered")
  /\ UNCHANGED <<getVars, single_count, team_single_count, lock, at, barrierVars, runs>>

(* Faults: no second barrier, for everybody or for those who have copied.  *)
CopyAndGo(t) ==
  /\ pc[t] = "copy"
  /\ IF lock[t] THEN UNCHANGED table ELSE Store(t, Copy(copyprivate_src))
  /\ Goto(t, "single")
  /\ at' = [at EXCEPT ![t] = @ + 1]
  /\ UNCHANGED <<thdprv, heap, t_local, singleVars, barrierVars, runs>>

CopyLosersGo(t) ==
  /\ pc[t] = "copy"
  /\ IF lock[t] THEN Goto(t, "taken") /\ UNCHANGED <<table, at>>
       ELSE /\ Store(t, Copy(copyprivate_src))
            /\ Goto(t, "single")
            /\ at' = [at EXCEPT ![t] = @ + 1]
  /\ UNCHANGED <<thdprv, heap, t_local, singleVars, barrierVars, runs>>

CopyPrivate(t) ==
  /\ pc[t] = "copy"
  /\ IF lock[t] THEN UNCHANGED table ELSE Store(t, Copy(copyprivate_src))
  /\ Goto(t, "taken")
  /\ UNCHANGED <<thdprv, heap, t_local, singleVars, at, barrierVars, runs>>

(***************************************************************************)
(* __ompc_barrier, at the end of copyin and of a single, and the two calls *)
(* in __ompc_copyprivate.                                                  *)
(***************************************************************************)
BarrierPoints == {"copied", "ended", "offered", "taken"}

EnterBarrier(t) ==
  /\ pc[t] \in BarrierPoints
  /\ Barrier!Enter(t)
  /\ UNCHANGED <<getVars, singleVars, pc, at, runs>>

LeaveBarrier(t) ==
  /\ Barrier!Leave(t)
  /\ \/ pc[t] = "copied" /\ Goto(t, "single") /\ UNCHANGED at
     \/ pc[t] = "offered" /\ Goto(t, "copy") /\ UNCHANGED at
     \/ pc[t] = "ended" /\ Program[at[t]] = "copyprivate" /\ Goto(t, "offer") /\ UNCHANGED at
     \/ /\ pc[t] = "taken" \/ (pc[t] = "ended" /\ Program[at[t]] = "wait")
        /\ Goto(t, "single")
        /\ at' = [at EXCEPT ![t] = @ + 1]
  /\ UNCHANGED <<getVars, singleVars, runs>>

Step(t) ==
  /\ \/ ReadTable(t) \/ Calloc(t) \/ Install(t) \/ Fill(t) \/ Copyin(t)
     \/ Single(t) \/ Block(t) \/ Offer(t) \/ CopyPrivate(t)
     \/ EnterBarrier(t) \/ LeaveBarrier(t) \/ (t = 0 /\ SerialCode)
  /\ UNCHANGED serial

Next == \E t \in Threads : Step(t)

Spec == Init /\ [][Next]_vars

(* The kernel schedules every member.                                      *)
FairSpec == Spec /\ \A t \in Threads : WF_vars(Step(t))
-----------------------------------------------------------------------------
(***************************************************************************)
(* The block of a single is executed by one member, also when others are   *)
(* several constructs behind.                                              *)
(***************************************************************************)
EachSingleOnce ==
  \A k \in Constructs :
    /\ runs[k] <= 1
    /\ (\A t \in Threads : at[t] > k) => runs[k] = 1

(***************************************************************************)
(* "This thread lost the race ... back out this allocation and use         *)
(* *thdprv": there is one table in use, it is never the freed one, and     *)
(* every other has been given back.                                        *)
(***************************************************************************)
OneTable ==
  /\ \A t \in Threads :
       /\ heap[t] = "live" => thdprv = t \/ pc[t] = "install"
       /\ pc[t] = "fill" => t_local[t] = thdprv
       /\ pc[t] \notin {"idle", "get", "calloc", "install", "fill"} => Copy(t) # NULL
  /\ thdprv # NULL => heap[thdprv] = "live"

(***************************************************************************)
(* "Each copy of a threadprivate object is initialized once": a copy that  *)
(* the thread has changed is never made again from the static data.        *)
(***************************************************************************)
InitializedOnce ==
  [][\A t \in Threads :
       thdprv # NULL /\ Copy(t) # NULL =>
          Copy(t)' # NULL /\ (Copy(t)' = Static => Copy(t) = Static)]_vars

(***************************************************************************)
(* After copyin every member starts with the value the main thread had at  *)
(* the fork, and after copyprivate it has the value of the winner, who is  *)
(* still in the construct (its data are on its stack).                     *)
(***************************************************************************)
CopiesDelivered ==
  \A t \in Threads :
    /\ serial /\ at[t] = 1 /\ pc[t] = "single" => Copy(t) = Changed
    /\ pc[t] = "single" /\ at[t] > 1 =>
         (Program[at[t] - 1] = "copyprivate" => Copy(t) = Written(at[t] - 1))
    /\ pc[t] = "copy" =>
         /\ at[copyprivate_src] = at[t] /\ lock[copyprivate_src]
         /\ pc[copyprivate_src] \in {"offered", "copy", "taken"}

(***************************************************************************)
(* Every member gets to the end of the region: winners and losers take the *)
(* same barriers.                                                          *)
(***************************************************************************)
EveryMemberEnds == <>(\A t \in Threads : at[t] = Len(Program) + 1)
=============================================================================
