----------------------------- MODULE MCImports -----------------------------
(* Imports for TLC.  Cookies differ by their users only, so the first is of  *)
(* the user who logs in, and the second of the same user or of another; a    *)
(* table is replaced by two users' accounts.                                 *)
EXTENDS Imports

MCCookie == {"k1", "k2"}
MCUser == {"u1", "u2"}

MCInit ==
    /\ ImportsInit
    /\ of["k1"] = Login
    /\ replace => of["k2"] # Login

MCSpec == MCInit /\ [][ImportsNext]_importsVars /\ Fairness

=============================================================================
