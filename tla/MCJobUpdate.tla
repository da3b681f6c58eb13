---------------------------- MODULE MCJobUpdate ----------------------------
(***************************************************************************)
(* JobUpdate for TLC.  No symmetry: the run checks liveness properties.    *)
(***************************************************************************)
EXTENDS JobUpdate
=============================================================================
