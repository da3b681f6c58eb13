----------------------------- MODULE MCVarDiff -----------------------------
(***************************************************************************)
(* VarDiff for TLC.                                                        *)
(***************************************************************************)
EXTENDS VarDiff
=============================================================================
