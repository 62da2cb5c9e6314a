--------------------------- MODULE MCTurnstilePool ---------------------------
(* TurnstilePool for TLC. *)
EXTENDS TurnstilePool

MCTask == {"t1", "t2"}
MCBrowser == {"b1", "b2", "b3", "b4"}

=============================================================================
