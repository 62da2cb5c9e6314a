---------------------------- MODULE MCReplenish ----------------------------
(* Replenish and MailKeys for TLC.  When a batch is started and with which  *)
(* key are questions apart, and so is how many loops there are: a behaviour *)
(* is of one of them.                                                       *)
EXTENDS Replenish, MailKeys

CONSTANTS mk, ck

VARIABLE part

\* Keys of moemail are recognised by their prefix; cfmail takes any.
MCTakes == [p \in Named |-> CASE p = "moemail" -> {mk}
                              [] p = "cfmail" -> {mk, ck}
                              [] p = "tempmail" -> {ck}]

NoEnvKeys == [p \in Provider |-> "empty"]
EnvKeysOfMoemail == [p \in Provider |-> IF p = "moemail" THEN mk ELSE "empty"]

Part == {"loop", "starts", "keys"}

MCInit ==
    /\ ReplenishInit /\ MailInit
    /\ part \in Part /\ (part = "keys" => ~enabled)

\* One start at a time; two, while the pool is full and nothing is registered; the keys.
MCNext ==
    /\ part' = part
    /\ \/ part = "loop" /\ ReplenishNext /\ starting'["s2"] = "none" /\ UNCHANGED mailVars
       \/ part = "starts" /\ ReplenishNext /\ ~low' /\ running' = 0 /\ UNCHANGED mailVars
       \/ part = "keys" /\ MailNext /\ UNCHANGED replenishVars

\* Only the loop has something that must happen.
MCSpec == MCInit /\ [][MCNext]_<<replenishVars, mailVars, part>> /\ ReplenishFairness

=============================================================================
