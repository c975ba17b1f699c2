------------------------------ MODULE PoolSpec ------------------------------
(***************************************************************************)
(* What a set of memory pools promises.  A pool is a stack of allocation   *)
(* levels and a level holds memory cells.  Memory is handed out to, and    *)
(* taken back from, the level on top; a pop gives up the cells of the top  *)
(* level, all of them and no others.                                       *)
(***************************************************************************)
EXTENDS Naturals, Sequences

CONSTANTS Pools,  \* the memory pools
          Cells   \* the memory

VARIABLE held     \* held[p][l]: the cells at level l of pool p

Initialized(p) == held[p] # <<>>
HeldAt(p, l, c) == l \in DOMAIN held[p] /\ c \in held[p][l]

Init == held = [p \in Pools |-> <<>>]

Initialize(p) ==
  /\ ~ Initialized(p)
  /\ held' = [held EXCEPT ![p] = <<{}>>]

Push(p) ==
  /\ Initialized(p)
  /\ held' = [held EXCEPT ![p] = Append(@, {})]

(* The last level is emptied and stays. *)
Pop(p) ==
  /\ Initialized(p)
  /\ held' = [held EXCEPT ![p] =
                IF Len(@) = 1 THEN <<{}>> ELSE SubSeq(@, 1, Len(@) - 1)]

Delete(p) ==
  /\ Initialized(p)
  /\ held' = [held EXCEPT ![p] = <<>>]

(* The top level comes to hold top: cells that were nobody's are new in it *)
(* and cells of its own may be gone.                                       *)
Use(p, top) ==
  /\ Initialized(p)
  /\ held' = [held EXCEPT ![p][Len(held[p])] = top]
  /\ \A c \in top \ held[p][Len(held[p])] :
       c \in Cells /\ \A q \in Pools : \A l \in DOMAIN held[q] : ~ HeldAt(q, l, c)

Next ==
  \E p \in Pools :
    \/ Initialize(p) \/ Push(p) \/ Pop(p) \/ Delete(p)
    \/ /\ Initialized(p) /\ Len(held'[p]) = Len(held[p])
       /\ Use(p, held'[p][Len(held[p])])

Spec == Init /\ [][Next]_held

-----------------------------------------------------------------------------
TypeOK == held \in [Pools -> Seq(SUBSET Cells)]

(* No cell is held twice, by two pools or at two levels of one pool. *)
Exclusive ==
  \A p, q \in Pools : \A l \in DOMAIN held[p], m \in DOMAIN held[q] :
    held[p][l] \cap held[q][m] # {} => p = q /\ l = m
=============================================================================
