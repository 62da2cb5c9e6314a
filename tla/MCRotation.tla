----------------------------- MODULE MCRotation -----------------------------
(* Rotation for TLC: an account in rotation and one that is disabled.  The   *)
(* workers are interchangeable.                                              *)
EXTENDS Rotation, TLC

MCAccount == {"a1", "a2"}
MCModel == {"m1"}

MCInit == Init /\ row["a1"] = Fresh /\ row["a2"] \notin {NoRow, Fresh}

MCSpec == MCInit /\ [][Next]_vars

Symmetry == Permutations(Worker)

=============================================================================
