---------------------------- MODULE MCLazyCommit ----------------------------
(* TLC instance of LazyCommit: the constants come from the configurations. *)
EXTENDS LazyCommit
=============================================================================
