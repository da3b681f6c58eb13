--------------------------- MODULE MCJobPipeline ---------------------------
(***************************************************************************)
(* JobPipeline for TLC: clients and branches are interchangeable.          *)
(***************************************************************************)
EXTENDS JobPipeline, TLC

Symmetry == Permutations(Clients) \cup Permutations(Branches)
=============================================================================
