---------------------------- MODULE StaticLoopMC ----------------------------
(***************************************************************************)
(* Instance of StaticLoop: loops from 1 up or down, with steps that do and *)
(* do not divide the range, and with no iterations at all: of size 0 (from *)
(* 1 up to 0) and of a negative size (from 1 up to -8).                    *)
(***************************************************************************)
EXTENDS StaticLoop

MCUppers == {-8, -7, -3, 0, 1, 2, 5, 8, 9}
MCIncs == {-3, -1, 1, 2}
=============================================================================
