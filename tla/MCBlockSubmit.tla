--------------------------- MODULE MCBlockSubmit ---------------------------
(***************************************************************************)
(* BlockSubmit for TLC.  No symmetry: the run checks a liveness property.  *)
(***************************************************************************)
EXTENDS BlockSubmit
=============================================================================
