-------------------------- MODULE TokenMaintainer --------------------------
(***************************************************************************)
(* Token renewal: maintenance cycles and selected renewals over one pool.  *)
(*                                                                         *)
(* Source: src/internal/maintainer/service.go, AcquireMaintenanceLock of   *)
(* store/redis/locks.go, upstream/oidc/refresh.go, and the account writes  *)
(* of store/postgres/accounts.go that they call.                           *)
(*                                                                         *)
(* A cycle (RunOnce: the leader's loop, or an admin's POST in any process) *)
(* takes the maintenance lock, lists the accounts once and refreshes each  *)
(* of them in parallel from that list.  A selected renewal (RunForIDs)     *)
(* takes no lock and reads each account just before refreshing it.  The    *)
(* identity provider is external: it honours a refresh token until it is   *)
(* revoked or, when it chooses to rotate, exchanged.                       *)
(*                                                                         *)
(* Left out: rows without a refresh token (never refreshed), the batch and *)
(* fetch limits (the account set is smaller), the cooldown columns (module *)
(* of the pool), task logs and results.                                    *)
(***************************************************************************)
EXTENDS Naturals, FiniteSets

CONSTANTS
    Account,    \* account ids
    Canonical,  \* the id AccountStorageID computes for an account's user
    Cycle,      \* runners of RunOnce
    Manual,     \* runners of RunForIDs
    Nobody,     \* value of an absent lock key
    NoRow,      \* an account that is not stored
    Selections, \* bound: the sets of ids a selected renewal is asked for
    MaxToken,   \* bound: refresh tokens the provider issues
    MaxFails,   \* bound: value at which renew_fail_count saturates
    MaxFaults   \* bound: failed calls, cancellations and crashes

Token == 1 .. MaxToken
Runner == Cycle \cup Manual
Row == [rt : Token, sso : BOOLEAN, invalid : BOOLEAN, due : BOOLEAN]

ASSUME CanonicalAssumption ==
    /\ Canonical \in [Account -> Account]
    /\ \A a \in Account : Canonical[Canonical[a]] = Canonical[a]
ASSUME RunnerAssumption ==
    /\ Cycle \cap Manual = {} /\ Nobody \notin Runner /\ NoRow \notin Row
    /\ Selections \subseteq (SUBSET Account) \ {{}}
ASSUME BoundAssumption ==
    MaxToken \in Nat \ {0} /\ MaxFails \in Nat \ {0} /\ MaxFaults \in Nat

VARIABLES
    row,        \* accounts table: refresh_token, SSO cookie present,
                \* refresh_invalid, access token near expiry
    fails,      \* renew_fail_count of the account's account_pool row
    token,      \* what the provider thinks of each refresh token
    lock,       \* holder of g2a:lock:maintenance:token_maintainer
    locked,     \* cycles whose renew loop keeps that key alive
    phase,      \* progress of each runner; absent if no process has it
    ended,      \* runners whose context is done
    job,        \* refresh of one account by one runner
    disturbed,  \* history: users (canonical ids) with a refresh that lost a
                \* write or a reply or that overlapped an unserialized writer
    faults      \* faults so far

store == <<row, fails>>
slot == <<lock, locked>>
vars == <<row, fails, token, lock, locked, phase, ended, job, disturbed, faults>>

\* The stages of a refresh, in the order of the code.
Unread == {"unread", "unreadForce"}
Rejected == {"rejected", "marked", "deleting"}
Accepted == {"accepted", "merged", "renaming", "saving"}
NoJob == [pc |-> "none", rt |-> 0, new |-> 0, sso |-> FALSE]

\* One stored account, freshly issued, without SSO; some of the runners exist
\* and some of the faults that are allowed for are over.
Init ==
    /\ \E a \in Account :
           row = [b \in Account |-> IF b = a THEN [rt |-> 1, sso |-> FALSE, invalid |-> FALSE,
                                                   due |-> FALSE] ELSE NoRow]
    /\ fails = [a \in Account |-> 0]
    /\ token = [t \in Token |-> IF t = 1 THEN "live" ELSE "unissued"]
    /\ lock = Nobody /\ locked = {}
    /\ phase \in [Runner -> {"absent", "idle"}]
    /\ ended = {}
    /\ job = [r \in Runner |-> [a \in Account |-> NoJob]]
    /\ disturbed = {} /\ faults \in 0 .. MaxFaults

-----------------------------------------------------------------------------
\* Helpers.

Stored(a) == row[a] # NoRow
Running(r) == phase[r] \notin {"absent", "idle"}
Active(r, a) == job[r][a].pc # "none"
SameUser(a) == {b \in Account : Canonical[b] = Canonical[a]}
SetJob(r, a, j) == job' = [job EXCEPT ![r][a] = j]
Goto(r, a, label) == SetJob(r, a, [job[r][a] EXCEPT !.pc = label])
Finish(r, a) == SetJob(r, a, NoJob)

Fault == faults < MaxFaults /\ faults' = faults + 1
NoFault == UNCHANGED faults

\* A call under the runner's context succeeds, or fails with no effect.
Works(r) == r \notin ended /\ NoFault
Breaks(r) == IF r \in ended THEN NoFault ELSE Fault

Disturb(a) == disturbed' = disturbed \cup {Canonical[a]}

\* The provider's next unused refresh token.
Fresh(t) == token[t] = "unissued" /\ \A u \in Token : u < t => token[u] # "unissued"

\* A rotation whose result is not stored yet.
Unsaved(r, a) == job[r][a].pc \in {"accepted", "merged", "renaming"} /\ job[r][a].new # job[r][a].rt

-----------------------------------------------------------------------------
\* RunOnce: the maintenance lock, best effort.

StartCycle(c) ==
    /\ phase[c] = "idle"
    /\ phase' = [phase EXCEPT ![c] = "locking"]
    /\ UNCHANGED <<row, fails, token, lock, locked, ended, job, disturbed, faults>>

\* Defect: SET without NX.
AcquireAnyway(c) ==
    /\ phase[c] = "locking"
    /\ Works(c)
    /\ lock' = c /\ locked' = locked \cup {c}
    /\ phase' = [phase EXCEPT ![c] = "listing"]
    /\ UNCHANGED <<row, fails, token, ended, job, disturbed>>

Acquire(c) ==
    /\ phase[c] = "locking" /\ lock = Nobody
    /\ Works(c)
    /\ lock' = c /\ locked' = locked \cup {c}
    /\ phase' = [phase EXCEPT ![c] = "listing"]
    /\ UNCHANGED <<row, fails, token, ended, job, disturbed>>

\* An error of SET NX, or of the wait for it: the cycle goes on without the lock.
AcquireFails(c) ==
    /\ phase[c] = "locking"
    /\ Breaks(c)
    /\ \/ UNCHANGED lock
       \/ lock = Nobody /\ lock' = c
    /\ phase' = [phase EXCEPT ![c] = "listing"]
    /\ UNCHANGED <<row, fails, token, locked, ended, job, disturbed>>

\* The slot stayed busy until the deadline: the cycle is skipped.
Defer(c) ==
    /\ phase[c] = "locking" /\ lock # Nobody
    /\ phase' = [phase EXCEPT ![c] = "idle"]
    /\ ended' = ended \ {c}
    /\ UNCHANGED <<row, fails, token, lock, locked, job, disturbed, faults>>

\* ListRefreshableAccounts and the filter of the candidates.
Candidate(a, force) == Stored(a) /\ ~row[a].invalid /\ (force \/ row[a].due)
Queued(a) == [pc |-> "queued", rt |-> row[a].rt, new |-> 0, sso |-> row[a].sso]

\* Another refresh of the same user is under way, not serialized by the lock.
Overlaps(r, a) ==
    \E q \in Runner, b \in SameUser(a) :
        q # r /\ job[q][b].pc \notin {"none"} \cup Unread /\ ~({q, r} \subseteq locked)

List(c) ==
    /\ phase[c] = "listing"
    /\ phase' = [phase EXCEPT ![c] = "working"]
    /\ \/ /\ Works(c)
          /\ \E force \in BOOLEAN :
                 LET C == {a \in Account : Candidate(a, force)}
                 IN  /\ job' = [job EXCEPT ![c] = [a \in Account |-> IF a \in C THEN Queued(a) ELSE NoJob]]
                     /\ disturbed' = disturbed \cup
                            {Canonical[a] : a \in {b \in C : Overlaps(c, b) \/ (C \cap SameUser(b)) # {b}}}
       \/ Breaks(c) /\ UNCHANGED <<job, disturbed>>
    /\ UNCHANGED <<row, fails, token, lock, locked, ended>>

\* The end of a run.  release() uses a context of its own and compares the token.
EndCycle(c) ==
    /\ phase[c] = "working" /\ \A a \in Account : ~Active(c, a)
    /\ \/ NoFault /\ lock' = IF c \in locked /\ lock = c THEN Nobody ELSE lock
       \/ c \in locked /\ Fault /\ UNCHANGED lock
    /\ locked' = locked \ {c}
    /\ phase' = [phase EXCEPT ![c] = "idle"]
    /\ ended' = ended \ {c}
    /\ UNCHANGED <<row, fails, token, job, disturbed>>

\* The key expires: nobody renews it, or the holder's renewals keep failing.
Expire ==
    /\ lock # Nobody
    /\ IF lock \in locked THEN Fault ELSE NoFault
    /\ locked' = locked \ {lock}
    /\ lock' = Nobody
    /\ UNCHANGED <<row, fails, token, phase, ended, job, disturbed>>

-----------------------------------------------------------------------------
\* RunForIDs: no lock, one read per account.

StartManual(m) ==
    /\ phase[m] = "idle"
    /\ phase' = [phase EXCEPT ![m] = "working"]
    /\ \E ids \in Selections, label \in Unread :
           job' = [job EXCEPT ![m] = [a \in Account |->
                       IF a \in ids THEN [NoJob EXCEPT !.pc = label] ELSE NoJob]]
    /\ UNCHANGED <<row, fails, token, lock, locked, ended, disturbed, faults>>

\* GetAccountRefreshRow and the early returns on what it found.
Load(m, a) ==
    /\ job[m][a].pc \in Unread
    /\ \/ /\ Works(m) /\ Candidate(a, job[m][a].pc = "unreadForce")
          /\ SetJob(m, a, Queued(a))
          /\ IF \E r \in Runner, b \in SameUser(a) : <<r, b>> # <<m, a>>
                                   /\ job[r][b].pc \notin {"none"} \cup Unread
             THEN Disturb(a) ELSE UNCHANGED disturbed
       \/ /\ \/ Works(m) /\ ~Candidate(a, job[m][a].pc = "unreadForce")
             \/ Breaks(m)
          /\ Finish(m, a) /\ UNCHANGED disturbed
    /\ UNCHANGED <<row, fails, token, lock, locked, phase, ended>>

EndManual(m) ==
    /\ phase[m] = "working" /\ \A a \in Account : ~Active(m, a)
    /\ phase' = [phase EXCEPT ![m] = "idle"]
    /\ ended' = ended \ {m}
    /\ UNCHANGED <<row, fails, token, lock, locked, job, disturbed, faults>>

-----------------------------------------------------------------------------
\* RefreshAccessToken.

RefreshFrame == UNCHANGED <<row, fails, lock, locked, phase, ended>>

\* 200: the provider rotates the token, or leaves it and the entry keeps it.
AskAccepted(r, a) ==
    LET j == job[r][a]
    IN  /\ j.pc = "queued" /\ Works(r) /\ token[j.rt] = "live"
        /\ \/ \E t \in Token :
                  /\ Fresh(t)
                  /\ token' = [token EXCEPT ![j.rt] = "rotated", ![t] = "live"]
                  /\ SetJob(r, a, [j EXCEPT !.pc = "accepted", !.new = t])
           \/ UNCHANGED token /\ SetJob(r, a, [j EXCEPT !.pc = "accepted", !.new = j.rt])
        /\ RefreshFrame /\ UNCHANGED disturbed

\* 400 or 401 with invalid_grant or the like: a permanent failure.
AskRejected(r, a) ==
    /\ job[r][a].pc = "queued" /\ Works(r) /\ token[job[r][a].rt] # "live"
    /\ Goto(r, a, "rejected")
    /\ RefreshFrame /\ UNCHANGED <<token, disturbed>>

\* Timeout, 5xx, unreadable body: a plain failure, whatever the provider did.
AskFails(r, a) ==
    LET j == job[r][a]
    IN  /\ j.pc = "queued" /\ r \notin ended /\ Fault
        /\ \/ UNCHANGED <<token, disturbed>>
           \/ /\ token[j.rt] = "live"
              /\ \E t \in Token : Fresh(t) /\ token' = [token EXCEPT ![j.rt] = "rotated", ![t] = "live"]
              /\ Disturb(a)
        /\ Goto(r, a, "failed")
        /\ RefreshFrame

\* A done context: the account is not attempted.
AskSkipped(r, a) ==
    /\ job[r][a].pc = "queued" /\ r \in ended
    /\ Finish(r, a)
    /\ RefreshFrame /\ UNCHANGED <<token, disturbed, faults>>

-----------------------------------------------------------------------------
\* What RunOnce and RunForIDs write.  Every error of these calls is dropped.

WriteFrame == UNCHANGED <<token, lock, locked, phase, ended>>

\* Defect: the permanent failure is not recorded.
MarkNothing(r, a) ==
    /\ job[r][a].pc = "rejected" /\ Works(r)
    /\ Goto(r, a, "marked")
    /\ WriteFrame /\ UNCHANGED <<row, fails, disturbed>>

MarkRefreshInvalid(r, a) ==
    /\ job[r][a].pc = "rejected"
    /\ \/ Works(r) /\ row' = IF Stored(a) THEN [row EXCEPT ![a].invalid = TRUE] ELSE row
       \/ Breaks(r) /\ UNCHANGED row
    /\ Goto(r, a, "marked")
    /\ WriteFrame /\ UNCHANGED <<fails, disturbed>>

\* SaveRenewStatus(false, ...): it creates the pool row when there is none.
SaveFailure(r, a) ==
    /\ job[r][a].pc \in {"marked", "failed"}
    /\ \/ Works(r) /\ fails' = [fails EXCEPT ![a] = IF @ < MaxFails THEN @ + 1 ELSE @]
       \/ Breaks(r) /\ UNCHANGED fails
    /\ IF job[r][a].pc = "marked" /\ ~job[r][a].sso THEN Goto(r, a, "deleting") ELSE Finish(r, a)
    /\ WriteFrame /\ UNCHANGED <<row, disturbed>>

Remove(a) == row' = [row EXCEPT ![a] = NoRow] /\ fails' = [fails EXCEPT ![a] = 0]

\* DeleteAccount, for an account whose snapshot had no SSO.
DeleteRejected(r, a) ==
    /\ job[r][a].pc = "deleting"
    /\ \/ Works(r) /\ Remove(a)
       \/ Breaks(r) /\ UNCHANGED store
    /\ Finish(r, a)
    /\ WriteFrame /\ UNCHANGED disturbed

\* UpsertAccount, its read: keep the SSO that the row has by now.
UpsertRead(r, a) ==
    /\ job[r][a].pc = "accepted"
    /\ \E sso \in BOOLEAN :
           /\ \/ Works(r) /\ sso = (job[r][a].sso \/ (Stored(Canonical[a]) /\ row[Canonical[a]].sso))
              \/ Breaks(r) /\ sso = job[r][a].sso
           /\ SetJob(r, a, [job[r][a] EXCEPT !.pc = "merged", !.sso = sso])
    /\ WriteFrame /\ UNCHANGED <<row, fails, disturbed>>

\* UpsertAccount, its write: the whole payload, whatever the row has become.
UpsertWrite(r, a) ==
    /\ job[r][a].pc = "merged"
    /\ \/ /\ Works(r)
          /\ row' = [row EXCEPT ![Canonical[a]] =
                        [rt |-> job[r][a].new, sso |-> job[r][a].sso, invalid |-> FALSE, due |-> FALSE]]
          /\ UNCHANGED disturbed
       \/ /\ Breaks(r) /\ UNCHANGED row
          /\ IF Unsaved(r, a) THEN Disturb(a) ELSE UNCHANGED disturbed
    /\ Goto(r, a, IF Canonical[a] = a THEN "saving" ELSE "renaming")
    /\ WriteFrame /\ UNCHANGED fails

\* DeleteAccount of the former id.
DropFormer(r, a) ==
    /\ job[r][a].pc = "renaming"
    /\ \/ Works(r) /\ Remove(a) /\ UNCHANGED disturbed
       \/ Breaks(r) /\ UNCHANGED store /\ Disturb(a)
    /\ Goto(r, a, "saving")
    /\ WriteFrame

\* SaveRenewStatus(true, ...).
SaveSuccess(r, a) ==
    /\ job[r][a].pc = "saving"
    /\ \/ Works(r) /\ fails' = [fails EXCEPT ![Canonical[a]] = 0]
       \/ Breaks(r) /\ UNCHANGED fails
    /\ Finish(r, a)
    /\ WriteFrame /\ UNCHANGED <<row, disturbed>>

-----------------------------------------------------------------------------
\* The surroundings.

\* The three minutes are over, or the admin's request is gone.
Cancel(r) ==
    /\ Running(r) /\ r \notin ended /\ Fault
    /\ ended' = ended \cup {r}
    /\ UNCHANGED <<row, fails, token, lock, locked, phase, job, disturbed>>

\* The process dies: its lock key stays until it expires.
Crash(r) ==
    /\ Running(r) /\ Fault
    /\ phase' = [phase EXCEPT ![r] = "idle"]
    /\ job' = [job EXCEPT ![r] = [a \in Account |-> NoJob]]
    /\ ended' = ended \ {r} /\ locked' = locked \ {r}
    /\ disturbed' = disturbed \cup {Canonical[a] : a \in {b \in Account : Unsaved(r, b) \/ job[r][b].pc = "renaming"}}
    /\ UNCHANGED <<row, fails, token, lock>>

\* An access token comes near its expiry.
Age(a) ==
    /\ Stored(a) /\ ~row[a].due
    /\ row' = [row EXCEPT ![a].due = TRUE]
    /\ UNCHANGED <<fails, token, lock, locked, phase, ended, job, disturbed, faults>>

\* The provider revokes a session.
Revoke(t) ==
    /\ token[t] = "live"
    /\ token' = [token EXCEPT ![t] = "revoked"]
    /\ UNCHANGED <<row, fails, lock, locked, phase, ended, job, disturbed, faults>>

\* ImportNormalizedAccounts of one account that logged in anew, in one
\* transaction: the user's other rows go, their SSO is kept.
Import(a) ==
    /\ Canonical[a] = a
    /\ \E t \in Token, sso \in BOOLEAN :
           /\ Fresh(t) /\ token' = [token EXCEPT ![t] = "live"]
           /\ row' = [b \in Account |->
                  IF b = a THEN [rt |-> t, invalid |-> FALSE, due |-> FALSE,
                                 sso |-> sso \/ \E d \in SameUser(a) : Stored(d) /\ row[d].sso]
                  ELSE IF b \in SameUser(a) THEN NoRow ELSE row[b]]
    /\ fails' = [b \in Account |-> IF b \in SameUser(a) \ {a} THEN 0 ELSE fails[b]]
    /\ IF \E r \in Runner, b \in SameUser(a) : job[r][b].pc \notin {"none"} \cup Unread
       THEN Disturb(a) ELSE UNCHANGED disturbed
    /\ UNCHANGED <<lock, locked, phase, ended, job, faults>>

\* An admin deletes the account.
AdminDelete(a) ==
    /\ Stored(a) /\ Remove(a)
    /\ UNCHANGED <<token, lock, locked, phase, ended, job, disturbed, faults>>

-----------------------------------------------------------------------------
Refresh(r, a) ==
    \/ AskAccepted(r, a) \/ AskRejected(r, a) \/ AskSkipped(r, a)
    \/ MarkRefreshInvalid(r, a) \/ SaveFailure(r, a) \/ DeleteRejected(r, a)
    \/ UpsertRead(r, a) \/ UpsertWrite(r, a) \/ DropFormer(r, a) \/ SaveSuccess(r, a)
RunCycle(c) == Acquire(c) \/ List(c) \/ EndCycle(c)
RunManual(m) == EndManual(m) \/ \E a \in Account : Load(m, a)

Next ==
    \/ \E c \in Cycle : StartCycle(c) \/ RunCycle(c) \/ AcquireFails(c) \/ Defer(c)
    \/ \E m \in Manual : StartManual(m) \/ RunManual(m)
    \/ \E r \in Runner : Cancel(r) \/ Crash(r) \/ \E a \in Account : Refresh(r, a) \/ AskFails(r, a)
    \/ Expire
    \/ \E a \in Account : Age(a) \/ Import(a) \/ AdminDelete(a)
    \/ \E t \in Token : Revoke(t)

\* Some process leads, so its loop starts cycles; a runner's goroutines are
\* scheduled; keys expire.
Work(r) ==
    \/ r \in Cycle /\ RunCycle(r)
    \/ r \in Manual /\ RunManual(r)
    \/ \E a \in Account : Refresh(r, a)

Fairness ==
    /\ WF_vars(\E c \in Cycle : StartCycle(c))
    /\ \A r \in Runner : WF_vars(Work(r))
    /\ \A c \in Cycle : WF_vars(c \in ended /\ AcquireFails(c))
    /\ WF_vars(Expire)

Spec == Init /\ [][Next]_vars
FairSpec == Spec /\ Fairness

-----------------------------------------------------------------------------
(* Properties. *)

\* Where nothing was lost and only the maintenance lock separates the refreshes
\* of a user, no credential is forgotten or condemned by mistake: a stored token
\* that was exchanged has its successor in a refresh still to be saved, and
\* refresh_invalid, or a verdict that leads to deletion, is about a revoked one.
LoginKept ==
    \A a \in Account : Canonical[a] \notin disturbed =>
        /\ Stored(a) =>
               /\ token[row[a].rt] = "rotated" =>
                      \E r \in Runner, b \in SameUser(a) : Unsaved(r, b) /\ job[r][b].rt = row[a].rt
               /\ row[a].invalid => token[row[a].rt] = "revoked"
        /\ \A r \in Runner : job[r][a].pc \in Rejected =>
               /\ token[job[r][a].rt] = "revoked"
               /\ Stored(a) => row[a].rt = job[r][a].rt

\* A stored token near expiry does not stay so: it is refreshed, found invalid,
\* or its account leaves.
DueTokenSettled ==
    \A a \in Account : []<>(Stored(a) /\ row[a].due => row[a].invalid)

=============================================================================
