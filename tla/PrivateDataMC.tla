--------------------------- MODULE PrivateDataMC ---------------------------
(***************************************************************************)
(* A program for PrivateData: members run ahead over the nowait constructs, *)
(* and two copyprivate follow each other.                                  *)
(***************************************************************************)
EXTENDS PrivateData

Singles == <<"nowait", "copyprivate", "copyprivate", "nowait", "nowait", "wait">>
=============================================================================
