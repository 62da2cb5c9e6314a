----------------------------- MODULE AccountPool ------------------------------
(***************************************************************************)
(* The pool row of one account: whether it is in rotation, and why not.    *)
(*                                                                         *)
(* Source: src/internal/store/postgres/pool.go, status.go and accounts.go, *)
(* with the callers in the chat path, the model-health sweep, the quota    *)
(* service, the token maintainer and the admin API.                        *)
(*                                                                         *)
(* account_pool keeps the reason an account is out of rotation twice: in   *)
(* the columns enabled, disabled_for_quota, cooldown_until and             *)
(* blocked_models, and in the tag pool_status.  Some twenty statements     *)
(* write both, each recomputing the tag from the columns in its own CASE.  *)
(* None takes a lock or compares a version, and reports are sent from      *)
(* goroutines that nothing orders: every writer may run after any other.   *)
(*                                                                         *)
(* A call that issues several statements drops their errors, or can stop   *)
(* after any of them, and other writers run in between.  So each statement *)
(* is a step of its own: it may be the only one that takes effect, and     *)
(* nothing but KickFromPool carries a value from one statement to another. *)
(*                                                                         *)
(* A writer is an operator from rows to rows.  Times are what is left of   *)
(* them: positive while it runs, 0 once elapsed, NoTime when not set.      *)
(* blocked_models is one model's entry.  The wording that                  *)
(* RepairFreeUsageModelBlocks searches (last_error, last_probe, ...) is a  *)
(* choice.  Counters and reasons are left out.                             *)
(*                                                                         *)
(* An account may still be stored under a former id.  Whoever stores it    *)
(* under its own id leaves the row of the former id behind: UpsertAccount  *)
(* inserts a new row, DeleteAccount deletes the old one.  row is the row   *)
(* of the id the account is stored under; its deletion ends the behaviour  *)
(* and is left out.                                                        *)
(***************************************************************************)
EXTENDS Integers

CONSTANTS
    Cap,    \* the longest cooldown of a report or a kick (6 h)
    Long    \* the longest cooldown an administrator sets

ASSUME BoundAssumption == Cap \in Nat \ {0} /\ Long \in Nat /\ Cap < Long

VARIABLES
    row,        \* account_pool
    expired,    \* accounts.expires_at <= now()
    former,     \* the account is stored under a former id
    kick,       \* a KickFromPool between its SELECT and its write
    dismissed,  \* history: an administrator disabled the account, not for its quota
    moved       \* history: what has replaced the row since an administrator last set it

vars == <<row, expired, former, kick, dismissed, moved>>

NoTime == -1            \* NULL, or no entry in blocked_models
Forever == Long + 1     \* an entry with blocked: true, whatever its until
Time == NoTime .. Forever
Until == NoTime .. Long

Status == {"normal", "cooldown", "model_blocked", "disabled", "quota_disabled", "expired"}

Row == [enabled : BOOLEAN,
        quota : BOOLEAN,                \* disabled_for_quota
        status : Status,                \* pool_status
        until : Until,                  \* cooldown_until
        block : Time,                   \* blocked_models
        code : {"", "quota", "other"},  \* cooldown_code: none, free-usage or billing, another
        quotaCool : BOOLEAN,            \* extra.quota_cool_source is set
        note : BOOLEAN]                 \* disabled_reason mentions the quota

FreshRow == [enabled |-> TRUE, quota |-> FALSE, status |-> "normal", until |-> NoTime,
             block |-> NoTime, code |-> "", quotaCool |-> FALSE, note |-> FALSE]

NoKick == [pc |-> "idle", prev |-> NoTime, sec |-> 1, free |-> FALSE]
Kick == [pc : {"idle", "write"}, prev : Until, sec : 1 .. Cap, free : BOOLEAN]

TypeOK ==
    /\ row \in Row
    /\ expired \in BOOLEAN
    /\ former \in BOOLEAN
    /\ kick \in Kick
    /\ dismissed \in BOOLEAN
    /\ moved \in {"no", "renewal", "normalization", "import"}

Init ==
    /\ row = FreshRow
    /\ expired = FALSE
    /\ former \in BOOLEAN
    /\ kick = NoKick
    /\ dismissed = FALSE
    /\ moved = "no"

-----------------------------------------------------------------------------
(* Readers.                                                                *)

Out(r) == ~r.enabled \/ r.quota

\* activeModelBlockSQL
ActiveBlock(r) == r.block > 0

-----------------------------------------------------------------------------
(* Writers, each a statement or the statements of one call.                *)

\* The tag of a row whose cooldown has just been cleared.
TagReleased(r) ==
    IF Out(r) THEN "disabled" ELSE IF r.block # NoTime THEN "model_blocked" ELSE "normal"

\* Mutant of Cleared: the tag is left as it was.
ClearedUntagged(r) == [r EXCEPT !.until = NoTime, !.code = ""]

\* ReportPoolSuccess and ClearAccountCooldown write the same columns.
Cleared(r) ==
    [r EXCEPT !.until = NoTime, !.code = "", !.status = TagReleased(r)]

\* UnblockPoolModel, of the model or of all.
Unblocked(r) ==
    [r EXCEPT !.block = NoTime,
              !.status = IF Out(r) THEN "disabled"
                         ELSE IF r.until > 0 THEN "cooldown" ELSE "normal"]

\* What ClassifyUpstreamFailure decides: a cooldown, a model block, or neither.
Decision ==
    {[cool |-> n, code |-> "quota", block |-> 0, free |-> TRUE] : n \in 1 .. Cap}
        \cup {[cool |-> Cap, code |-> "quota", block |-> b, free |-> FALSE] : b \in {0, Cap}}
        \cup {[cool |-> 1, code |-> "other", block |-> b, free |-> FALSE] : b \in {0, 1}}
        \cup {[cool |-> 0, code |-> "other", block |-> 1, free |-> FALSE],
              [cool |-> 0, code |-> "", block |-> 0, free |-> FALSE]}

FailedBlock(r, d) ==
    IF d.free THEN NoTime ELSE IF d.block > 0 THEN d.block ELSE r.block
FailedUntil(r, d) == IF d.cool > 0 THEN d.cool ELSE r.until
\* Mutant of Failed: the tag follows this report's cooldown, not the row's.
FailedAlone(r, d) ==
    [r EXCEPT !.until = FailedUntil(r, d),
              !.code = IF d.code # "" THEN d.code ELSE r.code,
              !.block = FailedBlock(r, d),
              !.status = IF Out(r) THEN "disabled"
                         ELSE IF ~d.free /\ FailedBlock(r, d) # NoTime THEN "model_blocked"
                         ELSE IF d.cool > 0 THEN "cooldown" ELSE "normal"]

\* ReportPoolFailure
Failed(r, d) ==
    [r EXCEPT !.until = FailedUntil(r, d),
              !.code = IF d.code # "" THEN d.code ELSE r.code,
              !.block = FailedBlock(r, d),
              !.status = IF Out(r) THEN "disabled"
                         ELSE IF ~d.free /\ FailedBlock(r, d) # NoTime THEN "model_blocked"
                         ELSE IF FailedUntil(r, d) > 0 THEN "cooldown" ELSE "normal"]

\* BlockPoolModel
Blocked(r, n) ==
    [r EXCEPT !.block = n,
              !.status = IF Out(r) THEN "disabled" ELSE "model_blocked"]

\* SetAccountEnabled
Enabled(r) ==
    [r EXCEPT !.enabled = TRUE, !.quota = FALSE, !.note = FALSE, !.block = NoTime,
              !.status = "normal", !.until = NoTime, !.code = ""]
Disabled(r) == [r EXCEPT !.enabled = FALSE, !.status = "disabled"]

Shorter(m, n) == IF m < n THEN m ELSE n
Longer(m, n) == IF m < n THEN n ELSE m

\* The write of KickFromPool, with the cooldown_until its SELECT returned.
Kicked(r, k) ==
    [r EXCEPT !.status = "cooldown",
              !.until = Shorter(Longer(k.prev, 0) + k.sec, Cap),
              !.block = IF k.free THEN NoTime ELSE r.block]

\* SetAccountPoolStatus, by the status asked for.
SetLive(r) == Enabled(r)
SetCooldown(r, n) ==
    [r EXCEPT !.enabled = TRUE, !.quota = FALSE, !.note = FALSE, !.block = NoTime,
              !.status = "cooldown", !.until = n, !.code = "other"]
SetModelBlocked(r) ==
    [r EXCEPT !.enabled = TRUE, !.quota = FALSE, !.note = FALSE, !.block = Forever,
              !.status = "model_blocked", !.until = NoTime, !.code = ""]
SetQuotaDisabled(r, mentions) ==
    [r EXCEPT !.enabled = FALSE, !.quota = TRUE, !.note = mentions, !.block = NoTime,
              !.status = "quota_disabled", !.until = NoTime, !.code = ""]
SetDisabled(r, mentions) ==
    [r EXCEPT !.enabled = FALSE, !.quota = FALSE, !.note = mentions, !.block = NoTime,
              !.status = "disabled", !.until = NoTime, !.code = ""]
SetExpired(r) ==
    [r EXCEPT !.enabled = TRUE, !.quota = FALSE, !.block = NoTime,
              !.status = "expired", !.until = NoTime, !.code = ""]

\* SaveRenewStatus
RenewSaved(r) ==
    [r EXCEPT !.status = IF r.quota THEN "quota_disabled"
                         ELSE IF ~r.enabled THEN "disabled"
                         ELSE IF r.until > 0 THEN "cooldown"
                         ELSE IF r.status = "expired" THEN "normal" ELSE r.status]
RenewRefused(r) ==
    [r EXCEPT !.status = IF r.quota THEN "quota_disabled"
                         ELSE IF ~r.enabled THEN "disabled" ELSE "expired"]

\* ExpireDueCooldowns, whose WHERE selects elapsed cooldowns only.
DueExpired(r) == IF r.until = 0 THEN Cleared(r) ELSE r

\* PruneModelBlocks
Pruned(r) == [r EXCEPT !.block = NoTime]

\* SaveQuotaSnapshot of an exhausted account: a free window or a paid limit.
QuotaExhausted(r, free) ==
    [r EXCEPT !.enabled = r.enabled \/ r.quota,
              !.note = r.note /\ ~r.quota,
              !.quota = FALSE,
              !.status = "cooldown",
              !.until = Longer(r.until, IF free THEN 1 ELSE Cap),
              !.block = IF free THEN NoTime ELSE r.block,
              !.code = "quota",
              !.quotaCool = TRUE]

\* SaveQuotaSnapshot of a healthy one: which cooldowns and disables it lifts.
LiftsCool(r) == r.code = "quota" \/ r.quotaCool
\* Mutant of LiftsDisable: any disabled account comes back.
LiftsAnyDisable(r) == r.quota \/ ~r.enabled
LiftsDisable(r) == r.quota \/ (~r.enabled /\ r.note)
QuotaHealthy(r) ==
    [r EXCEPT !.enabled = r.enabled \/ LiftsDisable(r),
              !.note = r.note /\ ~LiftsDisable(r),
              !.quota = FALSE,
              !.until = IF LiftsCool(r) \/ r.until <= 0 THEN NoTime ELSE r.until,
              !.code = IF LiftsCool(r) THEN "" ELSE r.code,
              !.quotaCool = FALSE,
              !.status = IF r.until > 0 /\ ~LiftsCool(r) THEN "cooldown"
                         ELSE IF LiftsCool(r) \/ r.quota THEN "normal"
                         ELSE IF r.status \in {"disabled", "expired", "model_blocked"}
                         THEN r.status ELSE "normal"]

\* The statements of RepairFreeUsageModelBlocks.
Recooled(r) ==
    [r EXCEPT !.block = NoTime,
              !.until = IF r.until > 0 THEN r.until ELSE 1,
              !.code = IF r.code = "" THEN "quota" ELSE r.code,
              !.status = IF Out(r) THEN "disabled" ELSE "cooldown"]
Mistagged(r) == r.block # NoTime \/ r.status = "model_blocked"
RepairMistagged(r) == IF Mistagged(r) THEN Recooled(r) ELSE r
Uncooled(r) ==
    ~Out(r) /\ r.status \notin {"expired", "disabled", "quota_disabled"} /\ r.until <= 0
RepairUncooled(r) == IF Uncooled(r) THEN Recooled(r) ELSE r
RepairLimited(r) ==
    IF Uncooled(r) /\ r.status # "cooldown"
    THEN [r EXCEPT !.until = 1, !.status = "cooldown",
                   !.code = IF r.code = "" THEN "other" ELSE r.code]
    ELSE r
RepairStale(r) ==
    IF r.status = "model_blocked" /\ ~ActiveBlock(r) /\ r.until <= 0
    THEN [r EXCEPT !.block = NoTime, !.status = IF Out(r) THEN "disabled" ELSE "normal"]
    ELSE r

-----------------------------------------------------------------------------
(* The chat path: reports of attempts, each from a goroutine of its own.   *)

Write(r) == row' = r /\ UNCHANGED <<expired, former, kick, dismissed, moved>>

ReportPoolSuccess == Write(Cleared(row))
ReportPoolFailure == \E d \in Decision : Write(Failed(row, d))

-----------------------------------------------------------------------------
(* The model-health sweep and the probe of the admin page.                 *)

\* A success clears the cooldown, then unblocks the model; a sweep's free-usage
\* kick unblocks all models after it.
ProbeSucceeds == Write(Cleared(row)) \/ Write(Unblocked(row))
ProbeUnauthorized == Write(Disabled(row))
ProbeBlocks == \E n \in 1 .. Cap : Write(Blocked(row, n))

\* KickFromPool reads the row, then writes from what it read.
KickReads ==
    /\ kick.pc = "idle"
    /\ \E n \in 1 .. Cap, free \in BOOLEAN :
           kick' = [pc |-> "write", prev |-> row.until, sec |-> n, free |-> free]
    /\ UNCHANGED <<row, expired, former, dismissed, moved>>

KickWrites ==
    /\ kick.pc = "write"
    /\ row' = Kicked(row, kick)
    /\ kick' = NoKick
    /\ UNCHANGED <<expired, former, dismissed, moved>>

\* Which statements find the row depends on the wording it has kept.
Repair ==
    \/ Write(RepairMistagged(row))
    \/ Write(RepairUncooled(row))
    \/ Write(RepairLimited(row))
    \/ Write(RepairStale(row))

-----------------------------------------------------------------------------
(* The quota service and the token maintainer.                             *)

SaveQuotaExhausted == \E free \in BOOLEAN : Write(QuotaExhausted(row, free))
SaveQuotaHealthy == Write(QuotaHealthy(row))

ExpireDueCooldowns == row.until = 0 /\ Write(DueExpired(row))

\* UpsertAccount under the account's own id, whose INSERT finds no row there, then
\* DeleteAccount of the former id: what is still under way for that finds nothing.
Moves(by) ==
    /\ former
    /\ former' = FALSE
    /\ row' = FreshRow
    /\ kick' = NoKick
    /\ moved' = by
    /\ UNCHANGED dismissed

\* UpsertAccount under the id the account has: the INSERT finds its row.
Stays == UNCHANGED <<row, former, kick, dismissed, moved>>

\* UpsertAccount, ClearAccountCooldown, SaveRenewStatus.
Renews ==
    \/ expired' = FALSE /\ (Moves("renewal") \/ (~former /\ Stays))
    \/ Write(Cleared(row))
    \/ Write(RenewSaved(row))

RenewFails == Write(RenewRefused(row))

-----------------------------------------------------------------------------
(* Administrators.                                                         *)

AdminEnables ==
    /\ row' = Enabled(row)
    /\ dismissed' = FALSE
    /\ moved' = "no"
    /\ UNCHANGED <<expired, former, kick>>

AdminDisables ==
    /\ row' = Disabled(row)
    /\ dismissed' = ((dismissed /\ moved = "no") \/ ~(row.quota \/ row.note))
    /\ moved' = "no"
    /\ UNCHANGED <<expired, former, kick>>

AdminClears == Write(Cleared(row))
AdminPrunes == row.block # NoTime /\ Write(Pruned(row))

\* The second statement, on accounts.expires_at, may fail.
AdminSetsLive ==
    /\ row' = SetLive(row)
    /\ expired' \in {expired, FALSE}
    /\ dismissed' = FALSE
    /\ moved' = "no"
    /\ UNCHANGED <<former, kick>>

AdminSetsExpired ==
    /\ row' = SetExpired(row)
    /\ expired' \in {expired, TRUE}
    /\ dismissed' = FALSE
    /\ moved' = "no"
    /\ UNCHANGED <<former, kick>>

AdminSetsCooldown ==
    /\ \E n \in 1 .. Long : row' = SetCooldown(row, n)
    /\ dismissed' = FALSE
    /\ moved' = "no"
    /\ UNCHANGED <<expired, former, kick>>

AdminSetsBlocked ==
    /\ row' = SetModelBlocked(row)
    /\ dismissed' = FALSE
    /\ moved' = "no"
    /\ UNCHANGED <<expired, former, kick>>

AdminSetsQuota ==
    /\ \E mentions \in BOOLEAN : row' = SetQuotaDisabled(row, mentions)
    /\ dismissed' = FALSE
    /\ moved' = "no"
    /\ UNCHANGED <<expired, former, kick>>

AdminSetsDisabled ==
    /\ \E mentions \in BOOLEAN :
           /\ row' = SetDisabled(row, mentions)
           /\ dismissed' = ~mentions
    /\ moved' = "no"
    /\ UNCHANGED <<expired, former, kick>>

\* NormalizeAccountKeys.  Its own INSERT of the former row comes after UpsertAccount's
\* and finds that one.
Normalizes == Moves("normalization") /\ UNCHANGED expired

\* ImportNormalizedAccounts: a replacement deletes every row first, a merge the rows
\* of the user's other ids.
AdminReplaces ==
    /\ row' = FreshRow
    /\ expired' \in BOOLEAN
    /\ former' = FALSE
    /\ kick' = IF former THEN NoKick ELSE kick
    /\ moved' = "import"
    /\ UNCHANGED dismissed

AdminMerges ==
    /\ expired' \in BOOLEAN
    /\ Moves("import") \/ (~former /\ Stays)

-----------------------------------------------------------------------------
(* Time.                                                                   *)

Passed(t) == IF t \in 1 .. Long THEN t - 1 ELSE t

Tick ==
    /\ row' = [row EXCEPT !.until = Passed(row.until), !.block = Passed(row.block)]
    /\ kick' = [kick EXCEPT !.prev = Passed(kick.prev)]
    /\ row' # row
    /\ UNCHANGED <<expired, former, dismissed, moved>>

TokenExpires ==
    /\ ~expired
    /\ expired' = TRUE
    /\ UNCHANGED <<row, former, kick, dismissed, moved>>

Report == ReportPoolSuccess \/ ReportPoolFailure
Probe == ProbeSucceeds \/ ProbeUnauthorized \/ ProbeBlocks \/ KickReads \/ KickWrites \/ Repair
Service == SaveQuotaExhausted \/ SaveQuotaHealthy \/ ExpireDueCooldowns \/ Renews \/ RenewFails
Admin ==
    \/ AdminEnables \/ AdminDisables \/ AdminClears \/ AdminPrunes \/ AdminSetsLive
    \/ AdminSetsExpired \/ AdminSetsCooldown \/ AdminSetsBlocked \/ AdminSetsQuota
    \/ AdminSetsDisabled \/ Normalizes \/ AdminReplaces \/ AdminMerges

Next == Report \/ Probe \/ Service \/ Admin \/ Tick \/ TokenExpires

Spec == Init /\ [][Next]_vars

-----------------------------------------------------------------------------
(* Properties.                                                             *)

\* Whatever order the reports, probes, quota snapshots and administrators of an
\* account come in, a row tagged as cooling has a cooldown_until: without one
\* ExpireDueCooldowns would never select it.
CooldownHasEnd == row.status = "cooldown" => row.until # NoTime

\* A running cooldown is never hidden: unless the account is disabled, its tag
\* says so, or gives a stronger reason (a model block, an expired token).
CoolingShown ==
    row.until > 0 /\ ~Out(row) => row.status \in {"cooldown", "model_blocked", "expired"}

\* An account that an administrator disabled, for a reason that does not mention
\* its quota, stays disabled until an administrator enables it: no late report,
\* probe, kick, renewal or quota snapshot brings it back.  The exception is a row
\* left behind: a renewal or a normalization of an account stored under a former id,
\* and an import, give the account a new row, which is enabled.
DismissalStands == dismissed /\ moved = "no" => ~row.enabled

=============================================================================
