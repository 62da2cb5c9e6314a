-------------------------- MODULE MCLeaderElection --------------------------
(* LeaderElection for TLC: the configurations give every constant a value.  *)
EXTENDS LeaderElection

=============================================================================
