-------------------------- MODULE MCStallConflict --------------------------
(***************************************************************************)
(* StallConflict for TLC.  The cores are numbers, compared to break ties,  *)
(* so they are not interchangeable.                                        *)
(***************************************************************************)
EXTENDS StallConflict
=============================================================================
