------------------------- MODULE MCStratumSessions -------------------------
(***************************************************************************)
(* StratumSessions for TLC.                                                *)
(***************************************************************************)
EXTENDS StratumSessions
=============================================================================
