----------------------------- MODULE LoopTeamMC -----------------------------
(***************************************************************************)
(* Programs of loops for LoopTeam.                                         *)
(***************************************************************************)
EXTENDS LoopTeam

Loop(s, lo, up, i, c, o) ==
  [sched |-> s, lower |-> lo, upper |-> up, inc |-> i, chunk |-> c, ordered |-> o]

(* More loops than structures: each is reused while other members lag; and *)
(* with ID_RANGE = 4 the id of the last loop is that of the first.  Two of *)
(* the loops have ordered regions, one upwards and one downwards.          *)
TeamProgram ==
  <<Loop("DYNAMIC", 1, 3, 1, 2, FALSE), Loop("STATIC", 4, 0, -2, 1, FALSE),
    Loop("GUIDED", 6, 1, -1, 1, TRUE), Loop("RUNTIME", 1, 2, 1, 1, FALSE),
    Loop("DYNAMIC", 3, 12, 3, 2, TRUE)>>
=============================================================================
