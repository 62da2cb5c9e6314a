----------------------------- MODULE MCAffinity -----------------------------
(* Affinity for TLC: the turns of each process in a slot of their own.       *)
EXTENDS Affinity, TLC

CONSTANTS p1, p2, t1, t2

OneSlotEach == (t1 :> p1) @@ (t2 :> p2)
TurnsEach == (t1 :> 3) @@ (t2 :> 1)

=============================================================================
