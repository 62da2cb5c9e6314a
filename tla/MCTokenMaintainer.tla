------------------------- MODULE MCTokenMaintainer -------------------------
(* TokenMaintainer for TLC, from two deployments: two cycles with faults,   *)
(* and a cycle beside a selected renewal of an account under a former id.   *)
EXTENDS TokenMaintainer

CONSTANTS main, former, c1, c2, m

\* Every account is stored under its user's id, except a former import.
MCCanonical == [a \in Account |-> IF a = former THEN main ELSE a]

Has(R) == [r \in Runner |-> IF r \in R THEN "idle" ELSE "absent"]

MCInit ==
    /\ Init
    /\ \/ phase = Has({c1, c2}) /\ faults = 0 /\ Stored(main)
       \/ phase = Has({c1, m}) /\ faults = MaxFaults

MCSpec == MCInit /\ [][Next]_vars
MCFairSpec == MCSpec /\ Fairness

=============================================================================
