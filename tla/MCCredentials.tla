---------------------------- MODULE MCCredentials ----------------------------
(* Credentials for TLC. *)
EXTENDS Credentials, TLC

CONSTANTS a1, a2

MCCaller == {"c1"}
MCImported == {[rt |-> "live", sso |-> FALSE, old |-> TRUE],
               [rt |-> "none", sso |-> TRUE, old |-> FALSE]}

\* Bound: tokens come to their end between batches.  A request meets one that had before
\* in the middle of a batch all the same.
MCNext == CredentialsNext /\ \A a \in Account : Ages(a) => pc = "idle"
MCSpec == CredentialsInit /\ [][MCNext]_credentialsVars

Symmetry == Permutations(Account)

=============================================================================
