---------------------------- MODULE MCAccountPool -----------------------------
(* AccountPool for TLC; every domain of it is finite, so nothing is bounded. *)
EXTENDS AccountPool

=============================================================================
