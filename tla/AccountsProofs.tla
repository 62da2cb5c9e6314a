--------------------------- MODULE AccountsProofs ---------------------------
(***************************************************************************)
(* Proofs about the accounts table as three components write it: the rows  *)
(* of AccountPool, the batch refresh of Credentials and the imports of     *)
(* Imports, each for any values of its constants.                          *)
(*                                                                         *)
(* AccountPool: its invariants are inductive together once                 *)
(* DismissalStands is strengthened: a dismissed account whose row has not  *)
(* been replaced is not disabled for its quota either, and its reason does *)
(* not mention it.  A writer is a function of the row, so the argument is  *)
(* one lemma per writer, which says that it maps a sound row to a sound    *)
(* row, and a step that finds the writer of each action.                   *)
(*                                                                         *)
(* Credentials: how often an account has been overtaken is bounded by a    *)
(* potential, who else has had a turn since its own (OwnTurn).             *)
(*                                                                         *)
(* Imports: while the accounts are stored, each that was gained has a      *)
(* row, had a failed one, or is still to be stored (StoringInv).           *)
(***************************************************************************)
EXTENDS AccountPool, Credentials, Imports, FiniteSetTheorems, TLAPS

\* The two invariants of the row, as predicates of a row.
Sound(r) ==
    /\ r.status = "cooldown" => r.until # NoTime
    /\ r.until > 0 /\ ~Out(r) => r.status \in {"cooldown", "model_blocked", "expired"}

\* Disabled, and nothing a quota snapshot would take for its own doing.
Off(r) == ~r.enabled /\ ~r.quota /\ ~r.note

\* What an automatic writer does to a row.
Good(s, r) ==
    /\ s \in Row
    /\ Sound(s)
    /\ Off(r) => Off(s)

IInv ==
    /\ TypeOK
    /\ Sound(row)
    /\ dismissed /\ moved = "no" => Off(row)

LEMMA Bounds ==
    /\ NoTime \in Int /\ NoTime < 0
    /\ Cap \in Int /\ Long \in Int /\ 0 < Cap /\ Cap < Long
    /\ \A n \in Until : n \in Int /\ NoTime <= n /\ n <= Long
<1>1. Cap \in Int /\ Long \in Int /\ 0 < Cap /\ Cap < Long
  BY BoundAssumption
<1>2. NoTime \in Int /\ NoTime < 0
  BY DEF NoTime
<1>3. \A n \in Until : n \in Int /\ NoTime <= n /\ n <= Long
  BY <1>1, <1>2 DEF Until
<1> QED
  BY <1>1, <1>2, <1>3

LEMMA Times ==
    /\ NoTime \in Until /\ 1 \in Until
    /\ NoTime \in Time /\ 1 \in Time /\ Forever \in Time
BY BoundAssumption DEF NoTime, Until, Time, Forever

\* A cooldown that runs is set; one that a report or a kick sets runs.
LEMMA Running ==
    /\ ~(NoTime > 0) /\ 1 > 0 /\ 1 # NoTime
    /\ \A u \in Until : u > 0 => u # NoTime
    /\ \A u \in 1 .. Cap : u \in Until /\ u \in Time /\ u > 0 /\ u # NoTime
BY BoundAssumption DEF NoTime, Until, Time, Forever

LEMMA RowFields ==
    ASSUME NEW r \in Row
    PROVE  /\ r.enabled \in BOOLEAN /\ r.quota \in BOOLEAN /\ r.note \in BOOLEAN
           /\ r.quotaCool \in BOOLEAN /\ r.code \in {"", "quota", "other"}
           /\ r.status \in Status /\ r.until \in Until /\ r.block \in Time
           /\ r.until > 0 => r.until # NoTime
<1>1. /\ r.enabled \in BOOLEAN /\ r.quota \in BOOLEAN /\ r.note \in BOOLEAN
      /\ r.quotaCool \in BOOLEAN /\ r.code \in {"", "quota", "other"}
      /\ r.status \in Status /\ r.until \in Until /\ r.block \in Time
  BY DEF Row
<1> QED
  BY <1>1, Running

-----------------------------------------------------------------------------
(* The writers.                                                            *)

LEMMA ClearedGood ==
    ASSUME NEW r \in Row
    PROVE  Good(Cleared(r), r)
<1>1. Cleared(r) \in Row
  BY Times DEF Cleared, TagReleased, Row, Status
<1>2. Sound(Cleared(r))
  BY Running DEF Sound, Cleared, TagReleased, Out, Row
<1>3. Off(r) => Off(Cleared(r))
  BY DEF Off, Cleared, Row
<1> QED
  BY <1>1, <1>2, <1>3 DEF Good

LEMMA UnblockedGood ==
    ASSUME NEW r \in Row
    PROVE  Good(Unblocked(r), r)
<1>1. Unblocked(r) \in Row
  BY Times DEF Unblocked, Row, Status
<1>2. Sound(Unblocked(r))
  <2>1. r.until > 0 => r.until # NoTime
    BY RowFields
  <2> QED
    BY <2>1 DEF Sound, Unblocked, Out, Row
<1>3. Off(r) => Off(Unblocked(r))
  BY DEF Off, Unblocked, Row
<1> QED
  BY <1>1, <1>2, <1>3 DEF Good

LEMMA Decisions ==
    ASSUME NEW d \in Decision
    PROVE  /\ d.cool = 0 \/ d.cool \in 1 .. Cap
           /\ d.block = 0 \/ d.block \in 1 .. Cap
           /\ d.code \in {"", "quota", "other"}
           /\ d.free \in BOOLEAN
<1>1. Cap \in 1 .. Cap /\ 1 \in 1 .. Cap
  BY BoundAssumption
<1>2. CASE \E n \in 1 .. Cap :
               d = [cool |-> n, code |-> "quota", block |-> 0, free |-> TRUE]
  BY <1>2
<1>3. CASE \E b \in {0, Cap} :
               d = [cool |-> Cap, code |-> "quota", block |-> b, free |-> FALSE]
  BY <1>1, <1>3
<1>4. CASE \E b \in {0, 1} :
               d = [cool |-> 1, code |-> "other", block |-> b, free |-> FALSE]
  BY <1>1, <1>4
<1>5. CASE d = [cool |-> 0, code |-> "other", block |-> 1, free |-> FALSE]
  BY <1>1, <1>5
<1>6. CASE d = [cool |-> 0, code |-> "", block |-> 0, free |-> FALSE]
  BY <1>6
<1>7. \/ \E n \in 1 .. Cap :
             d = [cool |-> n, code |-> "quota", block |-> 0, free |-> TRUE]
      \/ \E b \in {0, Cap} :
             d = [cool |-> Cap, code |-> "quota", block |-> b, free |-> FALSE]
      \/ \E b \in {0, 1} :
             d = [cool |-> 1, code |-> "other", block |-> b, free |-> FALSE]
      \/ d = [cool |-> 0, code |-> "other", block |-> 1, free |-> FALSE]
      \/ d = [cool |-> 0, code |-> "", block |-> 0, free |-> FALSE]
  BY Zenon DEF Decision
<1> QED
  BY <1>2, <1>3, <1>4, <1>5, <1>6, <1>7

LEMMA FailedGood ==
    ASSUME NEW r \in Row, NEW d \in Decision
    PROVE  Good(Failed(r, d), r)
<1> DEFINE u == FailedUntil(r, d)
           b == FailedBlock(r, d)
<1>1. u \in Until /\ (u > 0 => u # NoTime)
  <2>1. u = r.until \/ u \in 1 .. Cap
    <3>1. d.cool = 0 \/ d.cool \in 1 .. Cap
      BY Decisions
    <3> QED
      BY <3>1 DEF FailedUntil
  <2> QED
    BY <2>1, RowFields, Running
<1>2. b \in Time
  <2>1. b = r.block \/ b \in 1 .. Cap \/ b = NoTime
    <3>1. d.block = 0 \/ d.block \in 1 .. Cap
      BY Decisions
    <3> QED
      BY <3>1 DEF FailedBlock
  <2> QED
    BY <2>1, RowFields, Running, Times
<1> HIDE DEF u, b
<1>3. Failed(r, d) =
          [r EXCEPT !.until = u, !.code = IF d.code # "" THEN d.code ELSE r.code, !.block = b,
                    !.status = IF Out(r) THEN "disabled"
                               ELSE IF ~d.free /\ b # NoTime THEN "model_blocked"
                               ELSE IF u > 0 THEN "cooldown" ELSE "normal"]
  BY DEF Failed, u, b
<1>4. Failed(r, d) \in Row
  <2>1. d.code \in {"", "quota", "other"}
    BY Decisions
  <2> QED
    BY <1>1, <1>2, <1>3, <2>1 DEF Row, Status
<1>5. Sound(Failed(r, d))
  BY <1>1, <1>3 DEF Sound, Out, Row
<1>6. Off(r) => Off(Failed(r, d))
  BY <1>3 DEF Off, Row
<1> QED
  BY <1>4, <1>5, <1>6 DEF Good

LEMMA BlockedGood ==
    ASSUME NEW r \in Row, NEW n \in 1 .. Cap
    PROVE  Good(Blocked(r, n), r)
<1>1. n \in Time
  BY BoundAssumption DEF Time, NoTime, Forever
<1>2. Blocked(r, n) \in Row
  BY <1>1 DEF Blocked, Row, Status
<1>3. Sound(Blocked(r, n))
  BY DEF Sound, Blocked, Out, Row
<1>4. Off(r) => Off(Blocked(r, n))
  BY DEF Off, Blocked, Row
<1> QED
  BY <1>2, <1>3, <1>4 DEF Good

LEMMA DisabledGood ==
    ASSUME NEW r \in Row
    PROVE  Good(Disabled(r), r)
<1>1. Disabled(r) \in Row
  BY DEF Disabled, Row, Status
<1>2. Sound(Disabled(r)) /\ (Off(r) => Off(Disabled(r)))
  BY DEF Sound, Off, Disabled, Out, Row
<1> QED
  BY <1>1, <1>2 DEF Good

LEMMA KickedGood ==
    ASSUME NEW r \in Row, NEW k \in Kick
    PROVE  Good(Kicked(r, k), r)
<1> DEFINE u == Shorter(Longer(k.prev, 0) + k.sec, Cap)
<1>1. u \in 1 .. Cap
  <2>1. k.prev \in Until /\ k.sec \in 1 .. Cap
    BY DEF Kick
  <2>2. k.prev \in Int /\ k.sec \in Int /\ 1 <= k.sec
    BY <2>1, Bounds
  <2> QED
    BY <2>2, Bounds DEF Shorter, Longer
<1>2. u \in Until /\ u # NoTime
  BY <1>1, Running
<1> HIDE DEF u
<1>3. Kicked(r, k) = [r EXCEPT !.status = "cooldown", !.until = u,
                               !.block = IF k.free THEN NoTime ELSE r.block]
  BY DEF Kicked, u
<1>4. Kicked(r, k) \in Row
  BY <1>2, <1>3, Times DEF Row, Status
<1>5. Sound(Kicked(r, k)) /\ (Off(r) => Off(Kicked(r, k)))
  BY <1>2, <1>3 DEF Sound, Off, Out, Row
<1> QED
  BY <1>4, <1>5 DEF Good

LEMMA QuotaExhaustedGood ==
    ASSUME NEW r \in Row, NEW free \in BOOLEAN
    PROVE  Good(QuotaExhausted(r, free), r)
<1> DEFINE u == Longer(r.until, IF free THEN 1 ELSE Cap)
<1>1. u \in Until /\ u # NoTime
  <2>1. r.until \in Until
    BY RowFields
  <2>2. r.until \in Int /\ NoTime <= r.until /\ r.until <= Long
    BY <2>1, Bounds
  <2>3. CASE free
    <3>1. u = (IF r.until < 1 THEN 1 ELSE r.until)
      BY <2>3 DEF Longer
    <3> QED
      BY <2>2, <3>1, BoundAssumption DEF Until, NoTime
  <2>4. CASE ~free
    <3>1. u = (IF r.until < Cap THEN Cap ELSE r.until)
      BY <2>4 DEF Longer
    <3> QED
      BY <2>2, <3>1, BoundAssumption DEF Until, NoTime
  <2> QED
    BY <2>3, <2>4
<1> HIDE DEF u
<1>2. QuotaExhausted(r, free) =
          [r EXCEPT !.enabled = r.enabled \/ r.quota, !.note = r.note /\ ~r.quota,
                    !.quota = FALSE, !.status = "cooldown", !.until = u,
                    !.block = IF free THEN NoTime ELSE r.block,
                    !.code = "quota", !.quotaCool = TRUE]
  BY DEF QuotaExhausted, u
<1>3. QuotaExhausted(r, free) \in Row
  BY <1>1, <1>2, Times DEF Row, Status
<1>4. Sound(QuotaExhausted(r, free)) /\ (Off(r) => Off(QuotaExhausted(r, free)))
  BY <1>1, <1>2 DEF Sound, Off, Out, Row
<1> QED
  BY <1>3, <1>4 DEF Good

LEMMA QuotaHealthyGood ==
    ASSUME NEW r \in Row
    PROVE  Good(QuotaHealthy(r), r)
<1>1. /\ LiftsCool(r) \in BOOLEAN /\ LiftsDisable(r) \in BOOLEAN
      /\ r.until > 0 => r.until # NoTime
      /\ r.until <= 0 => ~(r.until > 0)
  <2>1. r.until \in Int
    BY RowFields, Bounds
  <2>2. r.until <= 0 => ~(r.until > 0)
    BY <2>1
  <2>3. LiftsCool(r) \in BOOLEAN /\ LiftsDisable(r) \in BOOLEAN
    BY DEF LiftsCool, LiftsDisable, Row
  <2> QED
    BY <2>2, <2>3, RowFields
<1>2. QuotaHealthy(r) \in Row
  BY <1>1, Times DEF QuotaHealthy, Row, Status
<1>3. Sound(QuotaHealthy(r))
  BY <1>1, Running DEF Sound, QuotaHealthy, Out, Row
<1>4. Off(r) => Off(QuotaHealthy(r))
  BY DEF Off, QuotaHealthy, LiftsDisable, Row
<1> QED
  BY <1>2, <1>3, <1>4 DEF Good

LEMMA RenewSavedGood ==
    ASSUME NEW r \in Row, Sound(r)
    PROVE  Good(RenewSaved(r), r)
<1>1. r.until > 0 => r.until # NoTime
  BY RowFields
<1>2. RenewSaved(r) \in Row
  BY DEF RenewSaved, Row, Status
<1>3. Sound(RenewSaved(r)) /\ (Off(r) => Off(RenewSaved(r)))
  BY <1>1 DEF Sound, Off, RenewSaved, Out, Row
<1> QED
  BY <1>2, <1>3 DEF Good

LEMMA RenewRefusedGood ==
    ASSUME NEW r \in Row
    PROVE  Good(RenewRefused(r), r)
<1>1. RenewRefused(r) \in Row
  BY DEF RenewRefused, Row, Status
<1>2. Sound(RenewRefused(r)) /\ (Off(r) => Off(RenewRefused(r)))
  BY DEF Sound, Off, RenewRefused, Out, Row
<1> QED
  BY <1>1, <1>2 DEF Good

LEMMA PrunedGood ==
    ASSUME NEW r \in Row, Sound(r)
    PROVE  Good(Pruned(r), r)
BY Times DEF Good, Sound, Off, Pruned, Out, Row

LEMMA RecooledGood ==
    ASSUME NEW r \in Row
    PROVE  Good(Recooled(r), r)
<1>1. r.until > 0 => r.until # NoTime
  BY RowFields
<1>2. Recooled(r) \in Row
  BY Times DEF Recooled, Row, Status
<1>3. Sound(Recooled(r)) /\ (Off(r) => Off(Recooled(r)))
  BY <1>1, Running DEF Sound, Off, Recooled, Out, Row
<1> QED
  BY <1>2, <1>3 DEF Good

\* The statements of a repair, one by one.
LEMMA RepairsGood ==
    ASSUME NEW r \in Row, Sound(r)
    PROVE  /\ Good(RepairMistagged(r), r)
           /\ Good(RepairUncooled(r), r)
           /\ Good(RepairLimited(r), r)
           /\ Good(RepairStale(r), r)
<1>1. Good(r, r)
  BY DEF Good
<1>2. Good(RepairMistagged(r), r) /\ Good(RepairUncooled(r), r)
  BY <1>1, RecooledGood DEF RepairMistagged, RepairUncooled
<1>3. Good(RepairLimited(r), r)
  <2>1. CASE Uncooled(r) /\ r.status # "cooldown"
    <3>1. RepairLimited(r) = [r EXCEPT !.until = 1, !.status = "cooldown",
                                       !.code = IF r.code = "" THEN "other" ELSE r.code]
      BY <2>1 DEF RepairLimited
    <3>2. RepairLimited(r) \in Row
      BY <3>1, Times DEF Row, Status
    <3>3. Sound(RepairLimited(r)) /\ (Off(r) => Off(RepairLimited(r)))
      BY <3>1, Running DEF Sound, Off, Out, Row
    <3> QED
      BY <3>2, <3>3 DEF Good
  <2> QED
    BY <1>1, <2>1 DEF RepairLimited
<1>4. Good(RepairStale(r), r)
  <2>1. CASE r.status = "model_blocked" /\ ~ActiveBlock(r) /\ r.until <= 0
    <3>1. ~(r.until > 0)
      <4>1. r.until \in Int
        BY RowFields, Bounds
      <4> QED
        BY <2>1, <4>1
    <3>2. RepairStale(r) = [r EXCEPT !.block = NoTime,
                                     !.status = IF Out(r) THEN "disabled" ELSE "normal"]
      BY <2>1 DEF RepairStale
    <3>3. RepairStale(r) \in Row
      BY <3>2, Times DEF Row, Status
    <3>4. Sound(RepairStale(r)) /\ (Off(r) => Off(RepairStale(r)))
      BY <3>1, <3>2 DEF Sound, Off, Out, Row
    <3> QED
      BY <3>3, <3>4 DEF Good
  <2> QED
    BY <1>1, <2>1 DEF RepairStale
<1> QED
  BY <1>2, <1>3, <1>4

-----------------------------------------------------------------------------
(* The administrators' writers and time, which may enable or disable.      *)

LEMMA FreshGood == FreshRow \in Row /\ Sound(FreshRow)
BY Times, Running DEF FreshRow, Sound, Out, Row, Status

LEMMA EnabledSound ==
    ASSUME NEW r \in Row
    PROVE  Enabled(r) \in Row /\ Sound(Enabled(r))
BY Times, Running DEF Enabled, Sound, Out, Row, Status

LEMMA SetSound ==
    ASSUME NEW r \in Row, NEW mentions \in BOOLEAN
    PROVE  /\ SetModelBlocked(r) \in Row /\ Sound(SetModelBlocked(r))
           /\ SetQuotaDisabled(r, mentions) \in Row /\ Sound(SetQuotaDisabled(r, mentions))
           /\ SetDisabled(r, mentions) \in Row /\ Sound(SetDisabled(r, mentions))
           /\ SetExpired(r) \in Row /\ Sound(SetExpired(r))
<1>1. SetModelBlocked(r) \in Row /\ Sound(SetModelBlocked(r))
  BY Times, Running DEF SetModelBlocked, Sound, Out, Row, Status
<1>2. SetQuotaDisabled(r, mentions) \in Row /\ Sound(SetQuotaDisabled(r, mentions))
  BY Times, Running DEF SetQuotaDisabled, Sound, Out, Row, Status
<1>3. SetDisabled(r, mentions) \in Row /\ Sound(SetDisabled(r, mentions))
  BY Times, Running DEF SetDisabled, Sound, Out, Row, Status
<1>4. SetExpired(r) \in Row /\ Sound(SetExpired(r))
  BY Times, Running DEF SetExpired, Sound, Out, Row, Status
<1> QED
  BY <1>1, <1>2, <1>3, <1>4

LEMMA SetCooldownSound ==
    ASSUME NEW r \in Row, NEW n \in 1 .. Long
    PROVE  SetCooldown(r, n) \in Row /\ Sound(SetCooldown(r, n))
<1>1. n \in Until /\ n # NoTime
  BY BoundAssumption DEF Until, NoTime
<1> QED
  BY <1>1, Times DEF SetCooldown, Sound, Out, Row, Status

LEMMA PassedTimes ==
    /\ \A u \in Until : /\ Passed(u) \in Until
                        /\ Passed(u) > 0 => u > 0
                        /\ Passed(u) = NoTime => u = NoTime
    /\ \A b \in Time : Passed(b) \in Time
BY BoundAssumption DEF Passed, Until, Time, NoTime, Forever

LEMMA TickGood ==
    ASSUME NEW r \in Row, Sound(r)
    PROVE  Good([r EXCEPT !.until = Passed(r.until), !.block = Passed(r.block)], r)
<1> DEFINE u == Passed(r.until)
           b == Passed(r.block)
<1>1. u \in Until /\ (u > 0 => r.until > 0) /\ (u = NoTime => r.until = NoTime)
  BY RowFields, PassedTimes
<1>2. b \in Time
  BY RowFields, PassedTimes
<1> HIDE DEF u, b
<1>3. [r EXCEPT !.until = u, !.block = b] \in Row
  BY <1>1, <1>2 DEF Row
<1>4. Sound([r EXCEPT !.until = u, !.block = b])
  BY <1>1 DEF Sound, Out, Row
<1>5. Off(r) => Off([r EXCEPT !.until = u, !.block = b])
  BY DEF Off, Row
<1> QED
  BY <1>3, <1>4, <1>5 DEF Good, u, b

-----------------------------------------------------------------------------
(* The steps.                                                              *)

LEMMA WriteStep ==
    ASSUME IInv, NEW s, Write(s), Good(s, row)
    PROVE  IInv'
BY DEF IInv, Write, Good, TypeOK

\* A step of an administrator that does not dismiss the account.
LEMMA AdminStep ==
    ASSUME IInv, NEW s \in Row, Sound(s), row' = s, expired' \in BOOLEAN,
           UNCHANGED <<former, kick>>, dismissed' = FALSE, moved' = "no"
    PROVE  IInv'
BY DEF IInv, TypeOK

LEMMA NoKickTyped == NoKick \in Kick
BY BoundAssumption DEF NoKick, Kick, Until, NoTime

\* An account that gets a new row.
LEMMA MovesStep ==
    ASSUME IInv, NEW by \in {"renewal", "normalization", "import"}, Moves(by),
           expired' \in BOOLEAN
    PROVE  IInv'
<1>1. moved' \in {"no", "renewal", "normalization", "import"} /\ moved' # "no"
  BY DEF Moves
<1> QED
  BY <1>1, FreshGood, NoKickTyped DEF IInv, TypeOK, Moves

LEMMA StaysStep ==
    ASSUME IInv, Stays, expired' \in BOOLEAN
    PROVE  IInv'
BY DEF IInv, TypeOK, Stays

LEMMA ReportStep == IInv /\ Report => IInv'
<1> SUFFICES ASSUME IInv, Report PROVE IInv'
  OBVIOUS
<1>1. row \in Row /\ Sound(row)
  BY DEF IInv, TypeOK
<1>2. CASE ReportPoolSuccess
  BY <1>1, <1>2, ClearedGood, WriteStep DEF ReportPoolSuccess
<1>3. CASE ReportPoolFailure
  BY <1>1, <1>3, FailedGood, WriteStep DEF ReportPoolFailure
<1> QED
  BY <1>2, <1>3 DEF Report

LEMMA RepairStep == IInv /\ Repair => IInv'
<1> SUFFICES ASSUME IInv, Repair PROVE IInv'
  OBVIOUS
<1>1. row \in Row /\ Sound(row)
  BY DEF IInv, TypeOK
<1> QED
  BY <1>1, RepairsGood, WriteStep DEF Repair

LEMMA ProbeStep == IInv /\ Probe => IInv'
<1> SUFFICES ASSUME IInv, Probe PROVE IInv'
  OBVIOUS
<1>1. row \in Row /\ Sound(row) /\ kick \in Kick
  BY DEF IInv, TypeOK
<1>2. CASE ProbeSucceeds
  BY <1>1, <1>2, ClearedGood, UnblockedGood, WriteStep DEF ProbeSucceeds
<1>3. CASE ProbeUnauthorized
  BY <1>1, <1>3, DisabledGood, WriteStep DEF ProbeUnauthorized
<1>4. CASE ProbeBlocks
  BY <1>1, <1>4, BlockedGood, WriteStep DEF ProbeBlocks
<1>5. CASE KickReads
  <2>1. PICK n \in 1 .. Cap, free \in BOOLEAN :
            kick' = [pc |-> "write", prev |-> row.until, sec |-> n, free |-> free]
    BY <1>5 DEF KickReads
  <2>2. row.until \in Until
    BY <1>1, RowFields
  <2>3. kick' \in Kick
    BY <2>1, <2>2 DEF Kick
  <2> QED
    BY <1>5, <2>3 DEF KickReads, IInv, TypeOK, Sound, Off, Out
<1>6. CASE KickWrites
  <2>1. Good(row', row)
    BY <1>1, <1>6, KickedGood DEF KickWrites
  <2> QED
    BY <1>6, <2>1, NoKickTyped DEF KickWrites, IInv, TypeOK, Good, Sound, Off, Out
<1>7. CASE Repair
  BY <1>7, RepairStep
<1> QED
  BY <1>2, <1>3, <1>4, <1>5, <1>6, <1>7 DEF Probe

LEMMA ServiceStep == IInv /\ Service => IInv'
<1> SUFFICES ASSUME IInv, Service PROVE IInv'
  OBVIOUS
<1>1. row \in Row /\ Sound(row)
  BY DEF IInv, TypeOK
<1>2. CASE SaveQuotaExhausted
  BY <1>1, <1>2, QuotaExhaustedGood, WriteStep DEF SaveQuotaExhausted
<1>3. CASE SaveQuotaHealthy
  BY <1>1, <1>3, QuotaHealthyGood, WriteStep DEF SaveQuotaHealthy
<1>4. CASE ExpireDueCooldowns
  <2>1. Write(Cleared(row))
    BY <1>4 DEF ExpireDueCooldowns, DueExpired
  <2> QED
    BY <1>1, <2>1, ClearedGood, WriteStep
<1>5. CASE Renews
  <2>1. CASE expired' = FALSE /\ (Moves("renewal") \/ Stays)
    BY <2>1, MovesStep, StaysStep
  <2>2. CASE Write(Cleared(row)) \/ Write(RenewSaved(row))
    BY <1>1, <2>2, ClearedGood, RenewSavedGood, WriteStep
  <2> QED
    BY <1>5, <2>1, <2>2 DEF Renews
<1>6. CASE RenewFails
  BY <1>1, <1>6, RenewRefusedGood, WriteStep DEF RenewFails
<1> QED
  BY <1>2, <1>3, <1>4, <1>5, <1>6 DEF Service

LEMMA AdminKeeps == IInv /\ Admin => IInv'
<1> SUFFICES ASSUME IInv, Admin PROVE IInv'
  OBVIOUS
<1>1. row \in Row /\ Sound(row) /\ expired \in BOOLEAN
  BY DEF IInv, TypeOK
<1>2. CASE AdminEnables
  BY <1>1, <1>2, EnabledSound, AdminStep DEF AdminEnables
<1>3. CASE AdminDisables
  <2>1. Disabled(row) \in Row /\ Sound(Disabled(row))
    BY <1>1, DisabledGood DEF Good
  <2>2. ~(row.quota \/ row.note) => Off(Disabled(row))
    BY <1>1 DEF Off, Disabled, Row
  <2>3. dismissed /\ moved = "no" => Off(Disabled(row))
    BY <1>1, DisabledGood DEF IInv, Good
  <2>4. dismissed' \in BOOLEAN /\ (dismissed' => Off(row'))
    BY <1>3, <2>2, <2>3 DEF AdminDisables
  <2> QED
    BY <1>1, <1>3, <2>1, <2>4 DEF AdminDisables, IInv, TypeOK, Sound, Off, Out
<1>4. CASE AdminClears
  BY <1>1, <1>4, ClearedGood, WriteStep DEF AdminClears
<1>5. CASE AdminPrunes
  BY <1>1, <1>5, PrunedGood, WriteStep DEF AdminPrunes
<1>6. CASE AdminSetsLive
  BY <1>1, <1>6, EnabledSound, AdminStep DEF AdminSetsLive, SetLive
<1>7. CASE AdminSetsExpired
  BY <1>1, <1>7, SetSound, AdminStep DEF AdminSetsExpired
<1>8. CASE AdminSetsCooldown
  BY <1>1, <1>8, SetCooldownSound, AdminStep DEF AdminSetsCooldown
<1>9. CASE AdminSetsBlocked
  BY <1>1, <1>9, SetSound, AdminStep DEF AdminSetsBlocked
<1>10. CASE AdminSetsQuota
  BY <1>1, <1>10, SetSound, AdminStep DEF AdminSetsQuota
<1>11. CASE AdminSetsDisabled
  <2>1. PICK mentions \in BOOLEAN : row' = SetDisabled(row, mentions) /\ dismissed' = ~mentions
    BY <1>11 DEF AdminSetsDisabled
  <2>2. row' \in Row /\ Sound(row')
    BY <1>1, <2>1, SetSound
  <2>3. ~mentions => Off(SetDisabled(row, mentions))
    BY <1>1 DEF Off, SetDisabled, Row
  <2>4. dismissed' \in BOOLEAN /\ (dismissed' => Off(row'))
    BY <2>1, <2>3
  <2> QED
    BY <1>11, <2>2, <2>4 DEF AdminSetsDisabled, IInv, TypeOK, Sound, Off, Out
<1>12. CASE Normalizes
  BY <1>1, <1>12, MovesStep DEF Normalizes
<1>13. CASE AdminReplaces
  BY <1>13, FreshGood, NoKickTyped DEF AdminReplaces, IInv, TypeOK
<1>14. CASE AdminMerges
  BY <1>14, MovesStep, StaysStep DEF AdminMerges
<1> QED
  BY <1>2, <1>3, <1>4, <1>5, <1>6, <1>7, <1>8, <1>9, <1>10, <1>11, <1>12, <1>13, <1>14
  DEF Admin

LEMMA TickStep == IInv /\ Tick => IInv'
<1> SUFFICES ASSUME IInv, Tick PROVE IInv'
  OBVIOUS
<1>1. row \in Row /\ Sound(row) /\ kick \in Kick
  BY DEF IInv, TypeOK
<1>2. Good(row', row)
  BY <1>1, TickGood DEF Tick
<1>3. kick' \in Kick
  <2>1. kick.prev \in Until
    BY <1>1 DEF Kick
  <2>2. Passed(kick.prev) \in Until
    BY <2>1, PassedTimes
  <2> QED
    BY <1>1, <2>2 DEF Tick, Kick
<1> QED
  BY <1>2, <1>3 DEF Tick, IInv, TypeOK, Good, Sound, Off, Out

LEMMA Inductive == IInv /\ [Next]_vars => IInv'
<1> SUFFICES ASSUME IInv, [Next]_vars PROVE IInv'
  OBVIOUS
<1>1. CASE TokenExpires
  BY <1>1 DEF TokenExpires, IInv, TypeOK, Sound, Off, Out
<1>2. CASE UNCHANGED vars
  BY <1>2 DEF vars, IInv, TypeOK, Sound, Off, Out
<1> QED
  BY <1>1, <1>2, ReportStep, ProbeStep, ServiceStep, AdminKeeps, TickStep DEF Next

LEMMA Initially == Init => IInv
BY NoKickTyped, FreshGood DEF Init, IInv, TypeOK

LEMMA Invariance == Spec => []IInv
BY Initially, Inductive, PTL DEF Spec

-----------------------------------------------------------------------------
(* The theorems.                                                           *)

\* Every writer of the pool row keeps its columns in their domains; a kick in
\* particular never exceeds its cap, whatever cooldown it read.
THEOREM TypeCorrect == Spec => []TypeOK
<1>1. IInv => TypeOK
  BY DEF IInv
<1> QED
  BY <1>1, Invariance, PTL

\* A row tagged as cooling can be selected by ExpireDueCooldowns: it has a
\* cooldown_until, whichever of the writers ran last.
THEOREM CooldownsEnd == Spec => []CooldownHasEnd
<1>1. IInv => CooldownHasEnd
  BY DEF IInv, Sound, CooldownHasEnd
<1> QED
  BY <1>1, Invariance, PTL

\* No writer's recomputation of pool_status hides a running cooldown.
THEOREM CooldownsShown == Spec => []CoolingShown
<1>1. IInv => CoolingShown
  BY DEF IInv, Sound, CoolingShown
<1> QED
  BY <1>1, Invariance, PTL

\* No automatic writer brings back an account that an administrator dismissed, as
\* long as its row is not left behind with a former id.
THEOREM DismissalsStand == Spec => []DismissalStands
<1>1. IInv => DismissalStands
  BY DEF IInv, Off, DismissalStands
<1> QED
  BY <1>1, Invariance, PTL

-----------------------------------------------------------------------------
(***************************************************************************)
(* Credentials: renewals, their backoff and the turns of the sweep.        *)
(***************************************************************************)

\* Whose renewal is under way was read; whoever renews has an account and its entry;
\* between batches nothing of a batch is left.
CredentialsInv ==
    /\ CredentialsTypeOK
    /\ faults \in Nat /\ acts \in Nat
    /\ \A a \in Account : at[a] # "off" => snap[a] # None
    /\ \A c \in Caller : doing[c] \in {"renew", "again", "store"} =>
                         on[c] \in Account /\ hand[c] \in Entry
    /\ pc = "idle" => snap = Empty

\* What a step does to the cookies of accounts that stay.
CookiesStay == \A a \in Account : CookieStays(a) \/ Crossed(a)

\* A writer between reading and writing keeps every cookie that it has read; what a
\* writer has yet to compare with the rows is a whole map.
WriteFits(w) ==
    \A a \in Written(w) :
       acct[a] # None /\ acct[a].sso /\ view[w][a] # None => a \in stale[w] \/ view[w][a].sso

Waiting(w) == IF w \in Account THEN at[w] = "deleting" ELSE doing[w] = "rewrite"

WritersFit ==
    \A w \in Writer : /\ Writing(w) => WriteFits(w)
                      /\ Waiting(w) => view[w] \in Map

\* A step that is none of the sweep's.
SweepUntouched == UNCHANGED <<covered, missed, faults>> /\ Tried' = Tried

\* Two maps with the same accounts, and the same cookies.
SameCookies(m, n) ==
    \A a \in Account : /\ m[a] = None <=> n[a] = None
                       /\ m[a] # None => n[a].sso = m[a].sso

\* Two writes of the same rows, and the same cookies.
SameWrites(m, n) ==
    \A a \in Account : /\ m[a] = None <=> n[a] = None
                       /\ m[a] = Same <=> n[a] = Same
                       /\ m[a] \notin {None, Same} => n[a].sso = m[a].sso

-----------------------------------------------------------------------------
(* The operators of the store and of the provider *)

\* A spent token leaves an entry what it is.
LEMMA SpentEntry ==
    ASSUME NEW e \in Entry \cup {None, Same}
    PROVE  /\ e \in {None, Same} => Spent(e) = e
           /\ e \notin {None, Same} => Spent(e) \in Entry /\ Spent(e).sso = e.sso
<1>1. CASE e \notin {None, Same} /\ e.rt = "live"
    <2> e \in Entry
        BY <1>1
    <2>1. [e EXCEPT !.rt = "dead"] \in Entry /\ [e EXCEPT !.rt = "dead"].sso = e.sso
        BY DEF Entry
    <2> QED BY <1>1, <2>1 DEF Spent
<1>2. CASE ~(e \notin {None, Same} /\ e.rt = "live")
    BY <1>2 DEF Spent
<1> QED BY <1>1, <1>2

LEMMA NoEntry == None \notin Entry /\ Same \notin Entry /\ Same # None
BY CredentialsAssumption

LEMMA SpentMap ==
    ASSUME NEW m \in Map, NEW a \in Account
    PROVE  SpentIn(m, a) \in Map /\ SameCookies(m, SpentIn(m, a))
<1>1. m[a] \in Entry \cup {None}
    BY DEF Map
<1>2. /\ Spent(m[a]) \in Entry \cup {None} /\ (Spent(m[a]) = None <=> m[a] = None)
      /\ m[a] # None => Spent(m[a]).sso = m[a].sso
    BY <1>1, SpentEntry, NoEntry
<1> HIDE DEF Entry
<1> QED BY <1>2 DEF SpentIn, Map, SameCookies

LEMMA SpentWrites ==
    ASSUME NEW m \in Writes, NEW a \in Account
    PROVE  SpentIn(m, a) \in Writes /\ SameWrites(m, SpentIn(m, a))
<1>1. m[a] \in Entry \cup {None, Same}
    BY DEF Writes
<1>2. /\ Spent(m[a]) \in Entry \cup {None, Same}
      /\ (Spent(m[a]) = None <=> m[a] = None) /\ (Spent(m[a]) = Same <=> m[a] = Same)
      /\ m[a] \notin {None, Same} => Spent(m[a]).sso = m[a].sso
    BY <1>1, SpentEntry, NoEntry
<1> HIDE DEF Entry
<1> QED BY <1>2 DEF SpentIn, Writes, SameWrites

\* A row keeps its cookie, whatever entry replaces it.
LEMMA StoredEntry ==
    ASSUME NEW old \in Entry \cup {None}, NEW new \in Entry
    PROVE  /\ Stored(old, new) \in Entry
           /\ old # None /\ old.sso => Stored(old, new).sso
<1>1. CASE old = None
    BY <1>1 DEF Stored
<1>2. CASE old # None
    <2> old \in Entry
        BY <1>2
    <2>1. Durable(old, new) \in Entry /\ (old.sso => Durable(old, new).sso)
        BY DEF Durable, Entry
    <2> QED BY <1>2, <2>1 DEF Stored
<1> QED BY <1>1, <1>2

LEMMA RenewedEntry ==
    /\ Renewed \in Entry
    /\ \A e \in Entry : Relogged(e) \in Entry
BY DEF Renewed, Relogged, Durable, Entry

LEMMA EmptyMap == Empty \in Map /\ \A m \in Map : m \in Writes
BY DEF Empty, Map, Writes

LEMMA WithoutMap ==
    ASSUME NEW m \in Map, NEW gone
    PROVE  Without(m, gone) \in Map
BY DEF Without, Map

\* The whole map is written back, over whatever the table has by now: each row as it is
\* read keeps its cookie.
LEMMA ReplacedMap ==
    ASSUME acct \in Map, NEW m \in Map
    PROVE  /\ Replaced(m) \in Writes
           /\ \A a \in Account : /\ Replaced(m)[a] \notin {None, Same}
                                 /\ acct[a] # None /\ acct[a].sso
                                 => Replaced(m)[a].sso
<1>1. ASSUME NEW a \in Account, m[a] # None
      PROVE  /\ Stored(acct[a], m[a]) \in Entry
             /\ acct[a] # None /\ acct[a].sso => Stored(acct[a], m[a]).sso
    BY <1>1, StoredEntry DEF Map
<1> QED BY <1>1 DEF Replaced, Map, Writes

LEMMA UpsertedMap ==
    ASSUME acct \in Map, NEW b \in Account, NEW e \in Entry
    PROVE  /\ Upserted(b, e) \in Writes
           /\ \A a \in Account : /\ Upserted(b, e)[a] \notin {None, Same}
                                 /\ acct[a] # None /\ acct[a].sso
                                 => Upserted(b, e)[a].sso
<1>1. /\ Stored(acct[b], e) \in Entry
      /\ acct[b] # None /\ acct[b].sso => Stored(acct[b], e).sso
    BY StoredEntry DEF Map
<1> QED BY <1>1 DEF Upserted, Map, Writes

\* Whether the provider takes a token back or not, entries stay where they are: those
\* of a writer, and the others.
LEMMA TakesView ==
    ASSUME CredentialsTypeOK, NEW a \in Account, NEW back \in BOOLEAN, Takes(a, back),
           NEW w \in Writer
    PROVE  /\ SameWrites(view[w], view'[w]) /\ view'[w] \in Writes
           /\ view[w] \in Map => view'[w] \in Map
<1> view[w] \in Writes
    BY DEF CredentialsTypeOK
<1>1. CASE back
    <2>1. view'[w] = SpentIn(view[w], a)
        BY <1>1 DEF Takes
    <2> QED BY <2>1, SpentWrites, SpentMap
<1>2. CASE ~back
    BY <1>2 DEF Takes, SameWrites
<1> QED BY <1>1, <1>2

LEMMA TakesKeeps ==
    ASSUME CredentialsTypeOK, NEW a \in Account, NEW back \in BOOLEAN, Takes(a, back)
    PROVE  /\ acct' \in Map /\ snap' \in Map /\ view' \in [Writer -> Writes]
           /\ SameCookies(acct, acct') /\ SameCookies(snap, snap')
<1> acct \in Map /\ snap \in Map /\ view \in [Writer -> Writes]
    BY DEF CredentialsTypeOK
<1>1. CASE back
    <2>1. view' = [w \in Writer |-> SpentIn(view[w], a)]
        BY <1>1 DEF Takes
    <2>2. view' \in [Writer -> Writes]
        BY <2>1, SpentWrites
    <2>3. acct' = SpentIn(acct, a) /\ snap' = SpentIn(snap, a)
        BY <1>1 DEF Takes
    <2> QED BY <2>2, <2>3, SpentMap
<1>2. CASE ~back
    BY <1>2 DEF Takes, SameCookies
<1> QED BY <1>1, <1>2

LEMMA InHandKeeps ==
    ASSUME hand \in [Caller -> Entry \cup {None}], NEW a, NEW back \in BOOLEAN
    PROVE  /\ InHand(a, back, hand) \in [Caller -> Entry \cup {None}]
           /\ \A c \in Caller : hand[c] \in Entry => InHand(a, back, hand)[c] \in Entry
<1>1. ASSUME NEW c \in Caller
      PROVE  /\ InHand(a, back, hand)[c] \in Entry \cup {None}
             /\ hand[c] \in Entry => InHand(a, back, hand)[c] \in Entry
    <2> hand[c] \in Entry \cup {None} /\ None \notin Entry /\ Same \notin Entry
        BY NoEntry
    <2>1. Spent(hand[c]) \in Entry \cup {None} /\ (hand[c] \in Entry => Spent(hand[c]) \in Entry)
        BY SpentEntry
    <2> QED BY <2>1 DEF InHand
<1> QED BY <1>1 DEF InHand

LEMMA InBatchKeeps ==
    ASSUME ups \in Map, NEW a \in Account, NEW back \in BOOLEAN
    PROVE  InBatch(a, back) \in Map
BY SpentMap DEF InBatch

LEMMA SameTried ==
    ASSUME SameCookies(snap, snap')
    PROVE  Tried' = Tried
BY DEF SameCookies, Tried

-----------------------------------------------------------------------------
(* The batch *)

\* Fewer renewals are under way once one has ended.
LEMMA FewerDue ==
    ASSUME CredentialsTypeOK, NEW a \in Account, NEW to, at[a] # "off",
           at' = [at EXCEPT ![a] = to]
    PROVE  Cardinality({b \in Account : at'[b] # "off"}) <= Batch
<1> DEFINE due == {b \in Account : at[b] # "off"}
           next == {b \in Account : at'[b] # "off"}
<1>1. next \subseteq due
    BY DEF CredentialsTypeOK
<1>2. IsFiniteSet(due)
    BY CredentialsAssumption, FS_Subset
<1>3. Cardinality(next) <= Cardinality(due) /\ Cardinality(next) \in Nat /\ Cardinality(due) \in Nat
    BY <1>1, <1>2, FS_Subset, FS_CardinalityType
<1>4. Cardinality(due) <= Batch
    BY DEF CredentialsTypeOK
<1> HIDE DEF due, next
<1>5. Cardinality(next) <= Batch
    BY <1>3, <1>4, CredentialsAssumption
<1> QED BY <1>5 DEF next

\* A step of one renewal: what it does to the maps are its own affair.
LEMMA StageKeeps ==
    ASSUME CredentialsInv, NEW a \in Account, NEW from, NEW to, from # "off",
           to \in {"off", "sso", "delete", "deleting", "writing"}, Stage(a, from, to),
           acct' \in Map, snap' \in Map, ups' \in Map, view' \in [Writer -> Writes],
           stale' \in [Writer -> SUBSET Account], SameCookies(acct, acct') \/ CookiesStay, SameCookies(snap, snap'),
           \/ UNCHANGED hand
           \/ \E back \in BOOLEAN : hand' = InHand(a, back, hand)
    PROVE  CredentialsInv' /\ CookiesStay /\ SweepUntouched
<1>1. Cardinality({b \in Account : at'[b] # "off"}) <= Batch
    BY FewerDue DEF CredentialsInv, Stage
<1>2. /\ hand' \in [Caller -> Entry \cup {None}]
      /\ \A c \in Caller : hand[c] \in Entry => hand'[c] \in Entry
    BY InHandKeeps DEF CredentialsInv, CredentialsTypeOK
<1>3. at' \in [Account -> {"off", "due", "sso", "delete", "deleting", "writing"}]
    BY DEF CredentialsInv, CredentialsTypeOK, Stage
<1>4. CredentialsTypeOK'
    <2> HIDE DEF Map, Entry, Writes
    <2> QED BY <1>1, <1>2, <1>3 DEF CredentialsInv, CredentialsTypeOK, Stage
<1>5. \A b \in Account : at'[b] # "off" => snap'[b] # None
    BY DEF CredentialsInv, CredentialsTypeOK, Stage, SameCookies
<1>6. CookiesStay
    BY DEF SameCookies, CookiesStay, CookieStays
<1>7. SweepUntouched
    BY SameTried DEF SweepUntouched, Stage
<1> HIDE DEF Map, Entry, Writes
<1> QED BY <1>2, <1>4, <1>5, <1>6, <1>7 DEF CredentialsInv, Stage

LEMMA RenewStep ==
    ASSUME CredentialsInv, NEW a \in Account, Renew(a)
    PROVE  CredentialsInv' /\ CookiesStay /\ SweepUntouched
<1>1. /\ acct' \in Map /\ snap' \in Map /\ view' \in [Writer -> Writes]
      /\ SameCookies(acct, acct') /\ SameCookies(snap, snap')
    BY TakesKeeps DEF CredentialsInv, Renew
<1>2. ups' \in Map
    BY RenewedEntry DEF CredentialsInv, CredentialsTypeOK, Renew, Map
<1> QED BY <1>1, <1>2, StageKeeps DEF Renew, CredentialsInv, CredentialsTypeOK

LEMMA RenewalFailsStep ==
    ASSUME CredentialsInv, NEW a \in Account, RenewalFails(a)
    PROVE  CredentialsInv' /\ CookiesStay /\ SweepUntouched
<1>1. PICK permanent \in BOOLEAN, back \in BOOLEAN :
         /\ \E to \in After(a, permanent) : Stage(a, "due", to)
         /\ Takes(a, back) /\ hand' = InHand(a, back, hand) /\ ups' = InBatch(a, back)
    BY DEF RenewalFails
<1>2. PICK to \in {"off", "sso", "delete"} : Stage(a, "due", to)
    BY <1>1 DEF After
<1>3. /\ acct' \in Map /\ snap' \in Map /\ view' \in [Writer -> Writes]
      /\ SameCookies(acct, acct') /\ SameCookies(snap, snap')
    BY <1>1, TakesKeeps DEF CredentialsInv
<1>4. ups' \in Map /\ stale' \in [Writer -> SUBSET Account]
    BY <1>1, InBatchKeeps DEF RenewalFails, CredentialsInv, CredentialsTypeOK
<1> QED BY <1>1, <1>2, <1>3, <1>4, StageKeeps

LEMMA ReauthStep ==
    ASSUME CredentialsInv, NEW a \in Account, Reauth(a)
    PROVE  CredentialsInv' /\ CookiesStay /\ SweepUntouched
<1>1. snap[a] \in Entry
    BY DEF CredentialsInv, CredentialsTypeOK, Reauth, Stage, Map
<1>2. Relogged(snap[a]) \in Entry
    BY <1>1, RenewedEntry
<1>3. ups' \in Map
    BY <1>2 DEF CredentialsInv, CredentialsTypeOK, Reauth, Map
<1>4. SameCookies(acct, acct') /\ SameCookies(snap, snap')
    BY DEF Reauth, SameCookies
<1> QED BY <1>3, <1>4, StageKeeps DEF Reauth, CredentialsInv, CredentialsTypeOK

LEMMA ReadToDeleteStep ==
    ASSUME CredentialsInv, NEW a \in Account, ReadToDelete(a)
    PROVE  CredentialsInv' /\ CookiesStay /\ SweepUntouched
<1>1. SameCookies(acct, acct') /\ SameCookies(snap, snap')
    BY DEF ReadToDelete, SameCookies
<1>2. view' \in [Writer -> Writes]
    <2>1. Without(acct, {a}) \in Writes
        BY WithoutMap, EmptyMap DEF CredentialsInv, CredentialsTypeOK
    <2> QED BY <2>1 DEF ReadToDelete, CredentialsInv, CredentialsTypeOK
<1>3. Stage(a, "delete", "off") \/ Stage(a, "delete", "deleting")
    BY DEF ReadToDelete
<1> QED BY <1>1, <1>2, <1>3, StageKeeps DEF ReadToDelete, CredentialsInv, CredentialsTypeOK

LEMMA DeleteStep ==
    ASSUME CredentialsInv, WritersFit, NEW a \in Account, Delete(a)
    PROVE  CredentialsInv' /\ CookiesStay /\ SweepUntouched
<1>1. SameCookies(acct, acct') /\ SameCookies(snap, snap')
    BY DEF Delete, SameCookies
<1>2. view[a] \in Map
    BY DEF WritersFit, Waiting, Writer, Delete, Stage
<1>3. Replaced(view[a]) \in Writes
    BY <1>2, ReplacedMap DEF CredentialsInv, CredentialsTypeOK
<1>4. view' \in [Writer -> Writes]
    BY <1>3 DEF Delete, CredentialsInv, CredentialsTypeOK, Writer
<1> QED BY <1>1, <1>4, StageKeeps DEF Delete, CredentialsInv, CredentialsTypeOK

\* Who writes loses the cookies only of rows that another has written meanwhile.
LEMMA CommitsKeeps ==
    ASSUME CredentialsInv, WritersFit, NEW w \in Writer, Commits(w)
    PROVE  /\ CookiesStay /\ acct' \in Map
           /\ view' \in [Writer -> Writes] /\ stale' \in [Writer -> SUBSET Account]
<1> acct \in Map /\ view \in [Writer -> Writes] /\ stale \in [Writer -> SUBSET Account]
    BY DEF CredentialsInv, CredentialsTypeOK
<1>1. \A a \in Account : acct'[a] = IF view[w][a] = Same THEN acct[a] ELSE view[w][a]
    BY DEF Commits
<1>2. acct' \in Map
    BY DEF Commits, Map, Writes
<1>3. view' \in [Writer -> Writes]
    BY EmptyMap DEF Commits
<1>4. stale' \in [Writer -> SUBSET Account] /\ stale'[w] = {}
    BY DEF Commits, Outdated, Written
<1>5. ASSUME NEW a \in Account PROVE CookieStays(a) \/ Crossed(a)
    <2>1. CASE view[w][a] = Same
        BY <1>1, <2>1 DEF CookieStays
    <2>2. CASE a \in Written(w) /\ a \in stale[w]
        BY <1>4, <2>2 DEF Crossed, Commits
    <2>3. CASE a \in Written(w) /\ a \notin stale[w]
        BY <1>1, <2>3 DEF CookieStays, WritersFit, WriteFits, Commits, Written
    <2> QED BY <2>1, <2>2, <2>3 DEF Written
<1> QED BY <1>2, <1>3, <1>4, <1>5 DEF CookiesStay

LEMMA DeletedStep ==
    ASSUME CredentialsInv, WritersFit, NEW a \in Account, Deleted(a)
    PROVE  CredentialsInv' /\ CookiesStay /\ SweepUntouched
<1> a \in Writer
    BY DEF Writer
<1>1. /\ CookiesStay /\ acct' \in Map
      /\ view' \in [Writer -> Writes] /\ stale' \in [Writer -> SUBSET Account]
    BY CommitsKeeps DEF Deleted
<1>2. SameCookies(snap, snap')
    BY DEF Deleted, SameCookies
<1> QED BY <1>1, <1>2, StageKeeps DEF Deleted, CredentialsInv, CredentialsTypeOK

\* A batch is taken from the candidates and no larger than it may be; where it cannot
\* take them all, it takes at least one, and none that this generation has tried.
LEMMA PicksSome ==
    ASSUME NEW cands \in SUBSET Account, NEW s \in Picks(cands)
    PROVE  /\ s \subseteq cands /\ Cardinality(s) <= Batch
           /\ Cardinality(cands) > Batch => s # {} /\ s \cap Sweep(cands) = {}
<1> Batch \in Nat \ {0}
    BY CredentialsAssumption
<1>1. IsFiniteSet(cands) /\ Cardinality(cands) \in Nat
    BY CredentialsAssumption, FS_Subset, FS_CardinalityType
<1>2. CASE Cardinality(cands) <= Batch
    BY <1>1, <1>2 DEF Picks
<1>3. CASE ~(Cardinality(cands) <= Batch)
    <2> DEFINE left == cands \ Sweep(cands)
    <2>1. /\ s \subseteq left
          /\ Cardinality(s) = Batch \/ (Cardinality(s) < Batch /\ s = left)
        BY <1>3 DEF Picks, Portions
    <2>2. cands # {}
        BY <1>1, <1>3, FS_EmptySet
    <2>3. left # {}
        BY <2>2 DEF Sweep
    <2>4. s # {}
        BY <2>1, <2>3, FS_EmptySet
    <2>5. IsFiniteSet(s) /\ Cardinality(s) \in Nat
        BY <1>1, <2>1, FS_Subset, FS_CardinalityType
    <2> QED BY <2>1, <2>4, <2>5
<1> QED BY <1>2, <1>3

LEMMA SelectStep ==
    ASSUME CredentialsInv, Select
    PROVE  CredentialsInv' /\ CookiesStay
<1> USE DEF CredentialsInv
<1>1. PICK force \in BOOLEAN :
         /\ covered' = IF Cardinality(Candidates(force)) > Batch
                       THEN Sweep(Candidates(force)) ELSE covered
         /\ \E s \in Picks(Candidates(force)) :
               /\ at' = [a \in Account |-> IF a \in s THEN "due" ELSE "off"]
               /\ snap' = Without(acct, Account \ s)
               /\ missed' = [a \in Account |->
                                IF a \in Candidates(force) \ s THEN missed[a] + 1 ELSE 0]
    BY DEF Select
<1> DEFINE cands == Candidates(force)
<1>2. PICK s \in Picks(cands) :
         /\ at' = [a \in Account |-> IF a \in s THEN "due" ELSE "off"]
         /\ snap' = Without(acct, Account \ s)
         /\ missed' = [a \in Account |-> IF a \in cands \ s THEN missed[a] + 1 ELSE 0]
    BY <1>1
<1>3. cands \subseteq Account /\ \A a \in cands : acct[a] # None
    BY DEF Candidates
<1>4. s \subseteq cands /\ Cardinality(s) <= Batch
    BY <1>3, PicksSome
<1>5. {a \in Account : at'[a] # "off"} = s
    BY <1>2, <1>3, <1>4
<1>6. snap' \in Map /\ \A a \in s : snap'[a] # None
    BY <1>2, <1>3, <1>4, WithoutMap DEF CredentialsTypeOK, Without
<1>7. covered' \subseteq Account
    BY <1>1 DEF Sweep, CredentialsTypeOK
<1>8. missed' \in [Account -> Nat]
    BY <1>2 DEF CredentialsTypeOK
<1>9. at' \in [Account -> {"off", "due", "sso", "delete", "deleting", "writing"}]
    BY <1>2
<1>10. /\ pc' = "renew"
       /\ UNCHANGED <<acct, ups, held, stale, view, doing, on, hand, faults, acts>>
    BY DEF Select, Keeps, caller
<1> HIDE DEF Map, Entry, Writes, cands
<1>11. CredentialsTypeOK'
    BY <1>4, <1>5, <1>6, <1>7, <1>8, <1>9, <1>10 DEF CredentialsTypeOK
<1>12. \A a \in Account : at'[a] # "off" => snap'[a] # None
    BY <1>5, <1>6
<1>13. CookiesStay
    BY <1>10 DEF CookiesStay, CookieStays
<1> QED BY <1>10, <1>11, <1>12, <1>13

LEMMA LockRowsStep ==
    ASSUME CredentialsInv, LockRows
    PROVE  CredentialsInv' /\ CookiesStay /\ SweepUntouched
<1>1. /\ pc' = "write" /\ held' \subseteq Account /\ \A a \in Account : at[a] = "off"
      /\ UNCHANGED <<acct, covered, snap, at, ups, missed, stale, view, caller, faults, acts>>
    BY DEF LockRows, BatchDone, Keeps
<1> HIDE DEF Map, Entry, Writes
<1>2. CredentialsTypeOK'
    BY <1>1 DEF CredentialsInv, CredentialsTypeOK, caller
<1>3. CookiesStay /\ SweepUntouched
    BY <1>1 DEF CookiesStay, CookieStays, SweepUntouched, Tried
<1> QED BY <1>1, <1>2, <1>3 DEF CredentialsInv, caller

\* What the end of a batch leaves.
LEMMA BatchEndsKeeps ==
    ASSUME CredentialsInv, BatchEnds, pc = "write" \/ BatchDone, UNCHANGED <<view, caller>>,
           acct' \in Map, covered' \subseteq Account, stale' \in [Writer -> SUBSET Account],
           faults' \in Nat, acts' \in Nat, faults' + acts' \in 0 .. MaxEvents
    PROVE  CredentialsInv'
<1>1. /\ pc' = "idle" /\ snap' = Empty /\ ups' = Empty /\ held' = {}
      /\ UNCHANGED <<at, missed, view, doing, on, hand>>
      /\ \A a \in Account : at[a] = "off"
    BY DEF BatchEnds, BatchDone, caller, CredentialsInv, CredentialsTypeOK
<1> HIDE DEF Map, Entry, Writes
<1>2. CredentialsTypeOK'
    BY <1>1, EmptyMap DEF CredentialsInv, CredentialsTypeOK
<1> QED BY <1>1, <1>2 DEF CredentialsInv

\* The rows that the batch has locked are as it has read them.
LEMMA WriteBatchStep ==
    ASSUME CredentialsInv, WriteBatch
    PROVE  CredentialsInv' /\ CookiesStay
<1> DEFINE new == {a \in Account : acct[a] # None /\ a \notin held}
           renewed == {a \in Account : ups[a] # None}
<1>1. PICK late \in SUBSET new :
         /\ acct' = [a \in Account |->
                       IF a \in renewed
                       THEN IF a \in late THEN ups[a] ELSE Stored(acct[a], ups[a])
                       ELSE IF a \in new \ late THEN None ELSE acct[a]]
         /\ stale' = Outdated(held \cup renewed \cup (new \ late), NoOne)
    BY DEF WriteBatch
<1>2. /\ pc = "write" /\ BatchEnds /\ covered' = covered \cup Tried
      /\ UNCHANGED <<view, caller, faults, acts>>
    BY DEF WriteBatch, Keeps
<1>3. ASSUME NEW a \in renewed
      PROVE  /\ ups[a] \in Entry /\ Stored(acct[a], ups[a]) \in Entry
             /\ acct[a] # None /\ acct[a].sso => Stored(acct[a], ups[a]).sso
    BY StoredEntry DEF CredentialsInv, CredentialsTypeOK, Map
<1>4. acct' \in Map
    BY <1>1, <1>3 DEF CredentialsInv, CredentialsTypeOK, Map
<1>5. CookiesStay
    <2> SUFFICES ASSUME NEW a \in Account, acct[a] # None, acct'[a] # None, acct[a].sso
                 PROVE  acct'[a].sso \/ Crossed(a)
        BY DEF CookiesStay, CookieStays
    <2>1. CASE a \notin held
        BY <1>2, <2>1 DEF Crossed
    <2>2. CASE a \in held
        BY <1>1, <1>3, <2>2
    <2> QED BY <2>1, <2>2
<1>6. covered' \subseteq Account /\ stale' \in [Writer -> SUBSET Account]
    BY <1>1, <1>2 DEF Tried, Outdated, Written, CredentialsInv, CredentialsTypeOK
<1> HIDE DEF Map
<1>7. faults' \in Nat /\ acts' \in Nat /\ faults' + acts' \in 0 .. MaxEvents
    BY <1>2 DEF CredentialsInv, CredentialsTypeOK
<1> QED BY <1>2, <1>4, <1>5, <1>6, <1>7, BatchEndsKeeps

LEMMA NothingToWriteStep ==
    ASSUME CredentialsInv, NothingToWrite
    PROVE  CredentialsInv' /\ CookiesStay
<1>1. /\ BatchDone /\ BatchEnds /\ covered' = covered \cup Tried
      /\ UNCHANGED <<acct, stale, view, caller, faults, acts>>
    BY DEF NothingToWrite, Keeps
<1>2. covered' \subseteq Account
    BY <1>1 DEF Tried, CredentialsInv, CredentialsTypeOK
<1> HIDE DEF Map
<1>3. CredentialsInv'
    BY <1>1, <1>2, BatchEndsKeeps DEF CredentialsInv, CredentialsTypeOK
<1> QED BY <1>1, <1>3 DEF CookiesStay, CookieStays

\* One fault more, where there may be one.
LEMMA OneMore ==
    ASSUME NEW f \in Nat, NEW g \in Nat, f + g < MaxEvents
    PROVE  f + 1 \in Nat /\ (f + 1) + g \in 0 .. MaxEvents /\ f + (g + 1) \in 0 .. MaxEvents
BY CredentialsAssumption

LEMMA WriteFailsStep ==
    ASSUME CredentialsInv, WriteFails
    PROVE  CredentialsInv' /\ CookiesStay
<1>1. /\ pc = "write" /\ BatchEnds /\ UNCHANGED <<acct, covered, view, stale, caller, acts>>
    BY DEF WriteFails
<1>2. faults' \in Nat /\ faults' + acts \in 0 .. MaxEvents
    BY OneMore DEF WriteFails, CredentialsInv
<1> HIDE DEF Map
<1>3. CredentialsInv'
    BY <1>1, <1>2, BatchEndsKeeps DEF CredentialsInv, CredentialsTypeOK
<1> QED BY <1>1, <1>3 DEF CookiesStay, CookieStays

LEMMA CrashStep ==
    ASSUME CredentialsInv, Crash
    PROVE  CredentialsInv' /\ CookiesStay
<1> USE DEF CredentialsInv
<1>1. /\ pc' = "idle" /\ snap' = Empty /\ ups' = Empty /\ held' = {}
      /\ at' = [a \in Account |-> "off"]
      /\ UNCHANGED <<acct, doing, on, hand, missed, acts>>
    BY DEF Crash, caller
<1>2. faults' \in Nat /\ faults' + acts \in 0 .. MaxEvents
    BY OneMore DEF Crash
<1>3. view' \in [Writer -> Writes] /\ stale' \in [Writer -> SUBSET Account]
    BY EmptyMap DEF Crash, CredentialsTypeOK
<1>4. covered' \subseteq Account
    BY DEF Crash, CredentialsTypeOK
<1>5. Cardinality({a \in Account : at'[a] # "off"}) <= Batch
    <2>1. {a \in Account : at'[a] # "off"} = {}
        BY <1>1
    <2> QED BY <2>1, FS_EmptySet, CredentialsAssumption
<1> HIDE DEF Map, Entry, Writes
<1>6. CredentialsTypeOK'
    BY <1>1, <1>2, <1>3, <1>4, <1>5, EmptyMap DEF CredentialsTypeOK
<1> QED BY <1>1, <1>2, <1>6 DEF CookiesStay, CookieStays

-----------------------------------------------------------------------------
(* Requests, administrators, imports, time *)

\* What is asked of a step beside the batch.
Beside ==
    /\ UNCHANGED <<covered, pc, at, held, missed, faults>>
    /\ SameCookies(snap, snap') /\ CookiesStay
    /\ acct' \in Map /\ snap' \in Map /\ ups' \in Map
    /\ view' \in [Writer -> Writes] /\ stale' \in [Writer -> SUBSET Account]
    /\ pc = "idle" => snap' = Empty /\ ups' = Empty
    /\ acts' \in Nat /\ faults + acts' \in 0 .. MaxEvents

\* The callers' own part of the invariant.
CallersFit ==
    /\ doing \in [Caller -> {"idle", "renew", "again", "condemn", "store", "rewrite", "write"}]
    /\ on \in [Caller -> Account \cup {NoOne}] /\ hand \in [Caller -> Entry \cup {None}]
    /\ \A c \in Caller : doing[c] \in {"renew", "again", "store"} =>
                         on[c] \in Account /\ hand[c] \in Entry

LEMMA BesideKeeps ==
    ASSUME CredentialsInv, Beside, CallersFit'
    PROVE  CredentialsInv' /\ CookiesStay /\ SweepUntouched
<1> HIDE DEF Map, Entry, Writes
<1>1. CredentialsTypeOK'
    BY DEF CredentialsInv, CredentialsTypeOK, Beside, CallersFit
<1>2. \A a \in Account : at'[a] # "off" => snap'[a] # None
    BY DEF CredentialsInv, Beside, SameCookies
<1>3. SweepUntouched
    BY SameTried DEF Beside, SweepUntouched
<1> QED BY <1>1, <1>2, <1>3 DEF CredentialsInv, Beside, CallersFit

LEMMA Unbounded ==
    ASSUME CredentialsInv, Acts \/ UNCHANGED acts
    PROVE  acts' \in Nat /\ faults + acts' \in 0 .. MaxEvents
BY OneMore DEF CredentialsInv, CredentialsTypeOK, Acts

\* What a caller does without the provider.
LEMMA QuietBeside ==
    ASSUME CredentialsInv, UNCHANGED runner, UNCHANGED faults, acct' \in Map, CookiesStay,
           view' \in [Writer -> Writes], stale' \in [Writer -> SUBSET Account],
           Acts \/ UNCHANGED acts
    PROVE  Beside
<1>1. SameCookies(snap, snap')
    BY DEF runner, SameCookies
<1>2. acts' \in Nat /\ faults + acts' \in 0 .. MaxEvents
    BY Unbounded
<1> HIDE DEF Map, Writes
<1> QED BY <1>1, <1>2 DEF Beside, runner, CredentialsInv, CredentialsTypeOK

\* A caller takes a map along: one to be written back, or what is to be written.
LEMMA CarriesStep ==
    ASSUME CredentialsInv, NEW c \in Caller, NEW m \in Writes, NEW to \in {"rewrite", "write"},
           Goes(c, to, NoOne), view' = [view EXCEPT ![c] = m],
           hand' \in {hand, [hand EXCEPT ![c] = None]},
           UNCHANGED <<acct, runner, stale, faults>>, Acts \/ UNCHANGED acts
    PROVE  CredentialsInv' /\ CookiesStay /\ SweepUntouched
<1>1. acct' \in Map /\ stale' \in [Writer -> SUBSET Account] /\ view' \in [Writer -> Writes]
    <2> HIDE DEF Writes
    <2> QED BY DEF CredentialsInv, CredentialsTypeOK
<1>2. CookiesStay
    BY DEF CookiesStay, CookieStays
<1>3. Beside
    BY <1>1, <1>2, QuietBeside
<1>4. CallersFit'
    <2> HIDE DEF Map, Entry, Writes
    <2> QED BY DEF Goes, CallersFit, CredentialsInv, CredentialsTypeOK
<1> QED BY <1>3, <1>4, BesideKeeps

LEMMA BackfilledMap ==
    ASSUME acct \in Map, NEW a \in Account, acct[a] # None
    PROVE  [acct EXCEPT ![a].sso = TRUE] \in Map
<1>1. acct[a] \in Entry
    BY DEF Map
<1>2. [acct[a] EXCEPT !.sso = TRUE] \in Entry
    BY <1>1 DEF Entry
<1> HIDE DEF Entry
<1> QED BY <1>2 DEF Map

\* The maps that are written back later.
LEMMA Rewritten ==
    ASSUME CredentialsInv, NEW c \in Caller,
           \/ Normalise(c) \/ Purge(c) \/ Condemn(c)
           \/ \E a \in Account : AskToDelete(c, a) \/ Backfill(c, a)
    PROVE  \E m \in Map : Rewrites(c, m) /\ (Acts \/ UNCHANGED acts)
<1> acct \in Map
    BY DEF CredentialsInv, CredentialsTypeOK
<1> HIDE DEF Map
<1>1. CASE Normalise(c)
    BY <1>1 DEF Normalise
<1>2. CASE Purge(c)
    BY <1>2, WithoutMap DEF Purge
<1>3. CASE Condemn(c)
    BY <1>3, WithoutMap DEF Condemn
<1>4. ASSUME NEW a \in Account, AskToDelete(c, a)
      PROVE  \E m \in Map : Rewrites(c, m) /\ (Acts \/ UNCHANGED acts)
    BY <1>4, WithoutMap DEF AskToDelete
<1>5. ASSUME NEW a \in Account, Backfill(c, a)
      PROVE  \E m \in Map : Rewrites(c, m) /\ (Acts \/ UNCHANGED acts)
    BY <1>5, BackfilledMap DEF Backfill
<1> QED BY <1>1, <1>2, <1>3, <1>4, <1>5

LEMMA RewriteSteps ==
    ASSUME CredentialsInv, NEW c \in Caller,
           \/ Normalise(c) \/ Purge(c) \/ Condemn(c)
           \/ \E a \in Account : AskToDelete(c, a) \/ Backfill(c, a)
    PROVE  CredentialsInv' /\ CookiesStay /\ SweepUntouched
<1>1. PICK m \in Map : Rewrites(c, m) /\ (Acts \/ UNCHANGED acts)
    BY Rewritten
<1>2. m \in Writes
    BY EmptyMap
<1> QED BY <1>1, <1>2, CarriesStep DEF Rewrites

LEMMA UseStep ==
    ASSUME CredentialsInv, NEW c \in Caller, NEW a \in Account, Use(c, a)
    PROVE  CredentialsInv' /\ CookiesStay /\ SweepUntouched
<1>1. acct \in Map /\ acct[a] \in Entry
    BY DEF CredentialsInv, CredentialsTypeOK, Use, Map
<1>2. PICK to \in {"condemn", "renew"} :
         /\ Goes(c, to, a) /\ UNCHANGED <<acct, runner, view, stale, faults, acts>>
         /\ hand' = [hand EXCEPT ![c] = IF acct[a].rt = "none" THEN None ELSE acct[a]]
         /\ to = "renew" => acct[a].rt # "none"
    BY DEF Use
<1> HIDE DEF Map, Entry, Writes
<1>3. CallersFit'
    BY <1>1, <1>2 DEF Goes, CallersFit, CredentialsInv, CredentialsTypeOK
<1>4. /\ acct' \in Map /\ view' \in [Writer -> Writes] /\ stale' \in [Writer -> SUBSET Account]
      /\ CookiesStay
    BY <1>2 DEF CredentialsInv, CredentialsTypeOK, CookiesStay, CookieStays
<1>5. Beside
    BY <1>2, <1>4, QuietBeside
<1> QED BY <1>3, <1>5, BesideKeeps

\* The provider takes a token back, or keeps it, while the batch goes on.
LEMMA TakesBeside ==
    ASSUME CredentialsInv, NEW a \in Account, NEW back \in BOOLEAN, Takes(a, back),
           ups' = InBatch(a, back), UNCHANGED <<covered, pc, at, held, stale, missed, faults>>,
           Acts \/ UNCHANGED acts
    PROVE  Beside
<1>1. /\ acct' \in Map /\ snap' \in Map /\ view' \in [Writer -> Writes]
      /\ SameCookies(acct, acct') /\ SameCookies(snap, snap')
    BY TakesKeeps DEF CredentialsInv
<1>2. ups' \in Map /\ stale' \in [Writer -> SUBSET Account]
    BY InBatchKeeps DEF CredentialsInv, CredentialsTypeOK
<1>3. SpentIn(Empty, a) = Empty
    BY DEF SpentIn, Empty, Spent
<1>4. pc = "idle" => snap' = Empty /\ ups' = Empty
    BY <1>3 DEF CredentialsInv, CredentialsTypeOK, Takes, InBatch
<1>5. acts' \in Nat /\ faults + acts' \in 0 .. MaxEvents
    BY Unbounded
<1>6. CookiesStay
    BY <1>1 DEF CookiesStay, CookieStays, SameCookies
<1> HIDE DEF Map, Writes
<1> QED BY <1>1, <1>2, <1>4, <1>5, <1>6 DEF Beside

LEMMA LatestEntry ==
    ASSUME CredentialsInv, NEW c \in Caller, Renewing(c)
    PROVE  Latest(c) \subseteq Entry /\ on[c] \in Account /\ hand[c] \in Entry
BY DEF CredentialsInv, CredentialsTypeOK, Renewing, Latest, Map

LEMMA UseRenewsStep ==
    ASSUME CredentialsInv, NEW c \in Caller, UseRenews(c)
    PROVE  CredentialsInv' /\ CookiesStay /\ SweepUntouched
<1> DEFINE a == on[c]
<1>1. /\ Goes(c, "store", a) /\ a \in Account
      /\ hand' = [InHand(a, TRUE, hand) EXCEPT ![c] = Renewed]
    BY LatestEntry DEF UseRenews
<1>2. Beside
    BY <1>1, TakesBeside DEF UseRenews
<1>3. /\ InHand(a, TRUE, hand) \in [Caller -> Entry \cup {None}]
      /\ \A d \in Caller : hand[d] \in Entry => InHand(a, TRUE, hand)[d] \in Entry
    BY InHandKeeps DEF CredentialsInv, CredentialsTypeOK
<1>4. CallersFit'
    <2> Renewed \in Entry
        BY RenewedEntry
    <2> HIDE DEF Map, Entry, Writes
    <2> QED BY <1>1, <1>3 DEF Goes, CallersFit, CredentialsInv, CredentialsTypeOK
<1> QED BY <1>2, <1>4, BesideKeeps

LEMMA UseFailsStep ==
    ASSUME CredentialsInv, NEW c \in Caller, UseFails(c)
    PROVE  CredentialsInv' /\ CookiesStay /\ SweepUntouched
<1> DEFINE a == on[c]
<1>1. PICK back \in BOOLEAN :
         /\ Takes(a, back) /\ ups' = InBatch(a, back)
         /\ \/ /\ Goes(c, "idle", NoOne) \/ Goes(c, "condemn", a)
               /\ hand' = [InHand(a, back, hand) EXCEPT ![c] = None]
            \/ Goes(c, "again", a) /\ hand' = InHand(a, back, hand)
    BY DEF UseFails, Ends
<1>2. a \in Account /\ hand[c] \in Entry
    BY LatestEntry DEF UseFails
<1>3. Beside
    BY <1>1, <1>2, TakesBeside DEF UseFails
<1>4. /\ InHand(a, back, hand) \in [Caller -> Entry \cup {None}]
      /\ \A d \in Caller : hand[d] \in Entry => InHand(a, back, hand)[d] \in Entry
    BY InHandKeeps DEF CredentialsInv, CredentialsTypeOK
<1>5. CallersFit'
    <2> HIDE DEF Map, Entry, Writes
    <2>1. CASE /\ Goes(c, "idle", NoOne) \/ Goes(c, "condemn", a)
               /\ hand' = [InHand(a, back, hand) EXCEPT ![c] = None]
        BY <1>2, <1>4, <2>1 DEF Goes, CallersFit, CredentialsInv, CredentialsTypeOK
    <2>2. CASE Goes(c, "again", a) /\ hand' = InHand(a, back, hand)
        BY <1>2, <1>4, <2>2 DEF Goes, CallersFit, CredentialsInv, CredentialsTypeOK
    <2> QED BY <1>1, <2>1, <2>2
<1> QED BY <1>3, <1>5, BesideKeeps

\* What callers write: the row or the map, with what the rows keep.
LEMMA StoredWrites ==
    ASSUME CredentialsInv, WritersFit, NEW c \in Caller,
           \/ UseStores(c) \/ WriteView(c)
           \/ \E a \in Account, e \in Imported : Import(c, a, e)
    PROVE  \E m \in Writes :
              /\ Stores(c, m) /\ (Acts \/ UNCHANGED acts)
              /\ hand' \in {hand, [hand EXCEPT ![c] = None]}
              /\ \A a \in Account : /\ m[a] \notin {None, Same} /\ acct[a] # None /\ acct[a].sso
                                    => m[a].sso
<1> acct \in Map
    BY DEF CredentialsInv, CredentialsTypeOK
<1> HIDE DEF Map, Entry, Writes
<1>1. CASE UseStores(c)
    <2>1. on[c] \in Account /\ hand[c] \in Entry
        BY <1>1 DEF CredentialsInv, UseStores
    <2> QED BY <1>1, <2>1, UpsertedMap DEF UseStores
<1>2. CASE WriteView(c)
    <2>1. view[c] \in Map
        BY <1>2, CredentialsAssumption DEF WritersFit, Waiting, Writer, WriteView
    <2> QED BY <1>2, <2>1, ReplacedMap DEF WriteView
<1>3. ASSUME NEW a \in Account, NEW e \in Imported, Import(c, a, e)
      PROVE  \E m \in Writes :
                /\ Stores(c, m) /\ (Acts \/ UNCHANGED acts)
                /\ hand' \in {hand, [hand EXCEPT ![c] = None]}
                /\ \A x \in Account : /\ m[x] \notin {None, Same} /\ acct[x] # None /\ acct[x].sso
                                      => m[x].sso
    <2>1. e \in Entry
        BY CredentialsAssumption
    <2> QED BY <1>3, <2>1, UpsertedMap DEF Import
<1> QED BY <1>1, <1>2, <1>3

LEMMA StoresStep ==
    ASSUME CredentialsInv, WritersFit, NEW c \in Caller,
           \/ UseStores(c) \/ WriteView(c)
           \/ \E a \in Account, e \in Imported : Import(c, a, e)
    PROVE  CredentialsInv' /\ CookiesStay /\ SweepUntouched
<1>1. PICK m \in Writes : /\ Stores(c, m) /\ (Acts \/ UNCHANGED acts)
                          /\ hand' \in {hand, [hand EXCEPT ![c] = None]}
    BY StoredWrites
<1> QED BY <1>1, CarriesStep DEF Stores

LEMMA CommitStep ==
    ASSUME CredentialsInv, WritersFit, NEW c \in Caller, Commit(c)
    PROVE  CredentialsInv' /\ CookiesStay /\ SweepUntouched
<1> c \in Writer
    BY DEF Writer
<1>1. /\ CookiesStay /\ acct' \in Map
      /\ view' \in [Writer -> Writes] /\ stale' \in [Writer -> SUBSET Account]
    BY CommitsKeeps DEF Commit
<1>2. Beside
    BY <1>1, QuietBeside DEF Commit
<1>3. CallersFit'
    <2> HIDE DEF Map, Entry, Writes
    <2> QED BY DEF Commit, Ends, Goes, CallersFit, CredentialsInv, CredentialsTypeOK
<1> QED BY <1>2, <1>3, BesideKeeps

LEMMA SameCallers ==
    ASSUME CredentialsInv, UNCHANGED caller
    PROVE  CallersFit'
BY DEF caller, CallersFit, CredentialsInv, CredentialsTypeOK

LEMMA AgedMap ==
    ASSUME acct \in Map, NEW a \in Account, Ages(a)
    PROVE  acct' \in Map /\ SameCookies(acct, acct')
<1>1. acct[a] \in Entry
    BY DEF Ages, Map
<1>2. [acct[a] EXCEPT !.old = TRUE] \in Entry /\ [acct[a] EXCEPT !.old = TRUE].sso = acct[a].sso
    BY <1>1 DEF Entry
<1> HIDE DEF Entry
<1> QED BY <1>1, <1>2, NoEntry DEF Ages, Map, SameCookies

LEMMA AgesStep ==
    ASSUME CredentialsInv, NEW a \in Account, Ages(a)
    PROVE  CredentialsInv' /\ CookiesStay /\ SweepUntouched
<1>1. acct' \in Map /\ SameCookies(acct, acct')
    BY AgedMap DEF CredentialsInv, CredentialsTypeOK
<1>2. CookiesStay
    BY <1>1 DEF CookiesStay, CookieStays, SameCookies
<1> HIDE DEF Map, Writes
<1>3. Beside
    BY <1>1, <1>2, QuietBeside DEF Ages, CredentialsInv, CredentialsTypeOK
<1> QED BY <1>3, SameCallers, BesideKeeps DEF Ages

LEMMA RevokedStep ==
    ASSUME CredentialsInv, NEW a \in Account, Revoked(a)
    PROVE  CredentialsInv' /\ CookiesStay /\ SweepUntouched
<1>1. Beside
    BY TakesBeside DEF Revoked
<1>2. /\ InHand(a, TRUE, hand) \in [Caller -> Entry \cup {None}]
      /\ \A d \in Caller : hand[d] \in Entry => InHand(a, TRUE, hand)[d] \in Entry
    BY InHandKeeps DEF CredentialsInv, CredentialsTypeOK
<1>3. CallersFit'
    <2> HIDE DEF Map, Entry, Writes
    <2> QED BY <1>2 DEF Revoked, CallersFit, CredentialsInv, CredentialsTypeOK
<1> QED BY <1>1, <1>3, BesideKeeps

-----------------------------------------------------------------------------
(* The writers: what one has read against what the others write *)

\* Rows keep their cookies, or have none more, and so do the writers.
LEMMA QuietWriters ==
    ASSUME WritersFit,
           \A a \in Account : acct'[a] # None /\ acct'[a].sso => acct[a] # None /\ acct[a].sso,
           \A w \in Writer :
              /\ Writing(w)' => Writing(w) /\ SameWrites(view[w], view'[w]) /\ stale'[w] = stale[w]
              /\ Waiting(w)' => view'[w] \in Map
    PROVE  WritersFit'
<1> SUFFICES ASSUME NEW w \in Writer, Writing(w)'
             PROVE  WriteFits(w)'
    BY DEF WritersFit
<1>1. WriteFits(w) /\ SameWrites(view[w], view'[w]) /\ stale'[w] = stale[w]
    BY DEF WritersFit
<1> SUFFICES ASSUME NEW a \in Account, view'[w][a] # Same, acct'[a] # None, acct'[a].sso,
                    view'[w][a] # None
             PROVE  a \in stale'[w] \/ view'[w][a].sso
    BY DEF WriteFits, Written
<1>2. view[w][a] \notin {Same, None} /\ view'[w][a].sso = view[w][a].sso
    BY <1>1 DEF SameWrites
<1> QED BY <1>1, <1>2 DEF WriteFits, Written

\* Steps of the batch and of callers that neither write nor begin to.
LEMMA SameWriters ==
    ASSUME CredentialsInv, WritersFit, UNCHANGED <<acct, view, stale>>,
           \A w \in Writer : (Writing(w)' => Writing(w)) /\ (Waiting(w)' => Waiting(w))
    PROVE  WritersFit'
<1>1. \A w \in Writer : SameWrites(view[w], view'[w])
    BY DEF SameWrites
<1> QED BY <1>1, QuietWriters DEF WritersFit

LEMMA TakesWriters ==
    ASSUME CredentialsInv, WritersFit, NEW a \in Account, NEW back \in BOOLEAN, Takes(a, back),
           UNCHANGED stale,
           \A w \in Writer : (Writing(w)' => Writing(w)) /\ (Waiting(w)' => Waiting(w))
    PROVE  WritersFit'
<1>1. /\ SameCookies(acct, acct')
      /\ \A w \in Writer : /\ SameWrites(view[w], view'[w])
                           /\ view[w] \in Map => view'[w] \in Map
    <2>1. CredentialsTypeOK
        BY DEF CredentialsInv
    <2>2. SameCookies(acct, acct')
        BY <2>1, TakesKeeps
    <2>3. ASSUME NEW w \in Writer
          PROVE  SameWrites(view[w], view'[w]) /\ (view[w] \in Map => view'[w] \in Map)
        BY <2>1, TakesView
    <2> QED BY <2>2, <2>3
<1>2. \A b \in Account : acct'[b] # None /\ acct'[b].sso => acct[b] # None /\ acct[b].sso
    BY <1>1 DEF SameCookies
<1> HIDE DEF Map
<1>3. \A w \in Writer :
         /\ Writing(w)' => Writing(w) /\ SameWrites(view[w], view'[w]) /\ stale'[w] = stale[w]
         /\ Waiting(w)' => view'[w] \in Map
    BY <1>1 DEF WritersFit
<1> QED BY <1>2, <1>3, QuietWriters

\* One writer reads: the map it will change, or the rows it will write over.
LEMMA ReadsWriters ==
    ASSUME CredentialsInv, WritersFit, NEW x \in Writer, NEW m \in Writes,
           view' = [view EXCEPT ![x] = m], UNCHANGED <<acct, stale>>,
           \A w \in Writer \ {x} : (Writing(w)' => Writing(w)) /\ (Waiting(w)' => Waiting(w)),
           Waiting(x)' => m \in Map,
           Writing(x)' => \A a \in Account : /\ m[a] \notin {None, Same}
                                             /\ acct[a] # None /\ acct[a].sso
                                             => m[a].sso
    PROVE  WritersFit'
<1>1. view' \in [Writer -> Writes] /\ view'[x] = m /\ \A w \in Writer \ {x} : view'[w] = view[w]
    BY DEF CredentialsInv, CredentialsTypeOK
<1>2. ASSUME NEW w \in Writer, w # x
      PROVE  (Writing(w)' => WriteFits(w)') /\ (Waiting(w)' => view'[w] \in Map)
    BY <1>1, <1>2 DEF WritersFit, WriteFits, Written
<1>3. (Writing(x)' => WriteFits(x)') /\ (Waiting(x)' => view'[x] \in Map)
    BY <1>1 DEF WriteFits, Written
<1> QED BY <1>2, <1>3 DEF WritersFit

\* A writer writes: the others have not read its rows as they are.
LEMMA WrittenWriters ==
    ASSUME CredentialsInv, WritersFit, NEW rows \in SUBSET Account, NEW x,
           stale' = Outdated(rows, x),
           \A a \in Account \ rows : acct'[a] = acct[a],
           \A w \in Writer : /\ w # x => view'[w] = view[w]
                             /\ Writing(w)' => Writing(w) /\ w # x
                             /\ Waiting(w)' => Waiting(w) /\ w # x
    PROVE  WritersFit'
<1> SUFFICES ASSUME NEW w \in Writer, w # x
             PROVE  (Writing(w)' => WriteFits(w)') /\ (Waiting(w)' => view'[w] \in Map)
    BY DEF WritersFit
<1>1. Waiting(w)' => view'[w] \in Map
    BY DEF WritersFit
<1>2. ASSUME Writing(w)' PROVE WriteFits(w)'
    <2>1. Writing(w) /\ view'[w] = view[w] /\ WriteFits(w)
        BY <1>2 DEF WritersFit
    <2>2. stale'[w] = stale[w] \cup (rows \cap Written(w))
        BY <2>1 DEF Outdated
    <2> SUFFICES ASSUME NEW a \in Account, view[w][a] # Same, acct'[a] # None, acct'[a].sso,
                        view[w][a] # None
                 PROVE  a \in stale'[w] \/ view[w][a].sso
        BY <2>1 DEF WriteFits, Written
    <2> QED BY <2>1, <2>2 DEF WriteFits, Written
<1> QED BY <1>1, <1>2

LEMMA CommitsWriters ==
    ASSUME CredentialsInv, WritersFit, NEW x \in Writer, Commits(x),
           \A w \in Writer : /\ Writing(w)' => Writing(w) /\ w # x
                             /\ Waiting(w)' => Waiting(w) /\ w # x
    PROVE  WritersFit'
<1>1. stale' = Outdated(Written(x), x) /\ Written(x) \in SUBSET Account
    BY DEF Commits, Written
<1>2. \A a \in Account \ Written(x) : acct'[a] = acct[a]
    BY DEF Commits, Written
<1>3. \A w \in Writer : w # x => view'[w] = view[w]
    BY DEF Commits, CredentialsInv, CredentialsTypeOK
<1> QED BY <1>1, <1>2, <1>3, WrittenWriters

LEMMA WriteBatchWriters ==
    ASSUME CredentialsInv, WritersFit, WriteBatch
    PROVE  WritersFit'
<1> DEFINE new == {a \in Account : acct[a] # None /\ a \notin held}
           renewed == {a \in Account : ups[a] # None}
<1>1. PICK late \in SUBSET new :
         /\ acct' = [a \in Account |->
                       IF a \in renewed
                       THEN IF a \in late THEN ups[a] ELSE Stored(acct[a], ups[a])
                       ELSE IF a \in new \ late THEN None ELSE acct[a]]
         /\ stale' = Outdated(held \cup renewed \cup (new \ late), NoOne)
    BY DEF WriteBatch
<1> DEFINE rows == held \cup renewed \cup (new \ late)
<1>2. rows \in SUBSET Account /\ \A a \in Account \ rows : acct'[a] = acct[a]
    BY <1>1 DEF CredentialsInv, CredentialsTypeOK
<1>3. UNCHANGED <<view, at, doing>>
    BY DEF WriteBatch, BatchEnds, Keeps, caller
<1>4. \A w \in Writer : /\ Writing(w)' => Writing(w) /\ at' = at
                        /\ Waiting(w)' => Waiting(w)
    BY <1>3 DEF Writing, Waiting
<1>5. \A w \in Writer : (Writing(w) \/ Waiting(w)) => w # NoOne
    <2> SUFFICES ASSUME NEW w \in Writer, w = NoOne PROVE ~Writing(w) /\ ~Waiting(w)
        OBVIOUS
    <2> QED BY CredentialsAssumption DEF Writing, Waiting, Writer
<1> HIDE DEF rows
<1>6. stale' = Outdated(rows, NoOne)
    BY <1>1 DEF rows
<1> QED BY <1>2, <1>3, <1>4, <1>5, <1>6, WrittenWriters

-----------------------------------------------------------------------------
(* The sweep: how often an account can be overtaken *)

\* The other accounts, how many there are; who has had a turn in this generation, or is
\* having it.
Others == Cardinality(Account) - 1
Turned == covered \cup Tried

\* How often an account has been overtaken since its own turn: by whoever had a turn
\* since in the same generation, or, where the generation is a later one, by each of the
\* others in the one before and by whoever has had a turn in this.
OwnTurn(a) ==
    IF a \in Turned THEN Cardinality(Turned \ {a}) ELSE Others + Cardinality(Turned)

Overtaken == \A a \in Account : missed[a] <= OwnTurn(a) + faults * Others

LEMMA AccountsCounted ==
    /\ Cardinality(Account) \in Nat /\ IsFiniteSet(Account)
    /\ \A a \in Account : Others \in Nat
    /\ \A s \in SUBSET Account : IsFiniteSet(s) /\ Cardinality(s) \in Nat
    /\ \A s \in SUBSET Account, a \in Account : a \notin s => Cardinality(s) <= Others
<1>1. IsFiniteSet(Account) /\ Cardinality(Account) \in Nat
    BY CredentialsAssumption, FS_CardinalityType
<1>2. \A s \in SUBSET Account : IsFiniteSet(s) /\ Cardinality(s) \in Nat
    BY <1>1, FS_Subset, FS_CardinalityType
<1>3. ASSUME NEW s \in SUBSET Account, NEW a \in Account, a \notin s
      PROVE  Cardinality(s) <= Others /\ Others \in Nat
    <2>1. Cardinality(Account \ {a}) = Others
        BY <1>1, FS_RemoveElement DEF Others
    <2>2. s \subseteq Account \ {a} /\ IsFiniteSet(Account \ {a})
        BY <1>2, <1>3
    <2>3. Cardinality(s) <= Cardinality(Account \ {a}) /\ Cardinality(Account \ {a}) \in Nat
        BY <1>2, <2>2, FS_Subset
    <2> QED BY <2>1, <2>3
<1>4. \A a \in Account : Others \in Nat
    <2> TAKE a \in Account
    <2>1. {} \in SUBSET Account /\ a \notin {}
        OBVIOUS
    <2> QED BY <1>3, <2>1
<1> QED BY <1>1, <1>2, <1>3, <1>4

\* A set that some element is new to is larger by it.
LEMMA LargerBySome ==
    ASSUME NEW s \in SUBSET Account, NEW t \in SUBSET Account, t # {}, s \cap t = {}
    PROVE  Cardinality(s \cup t) >= Cardinality(s) + 1
<1> PICK x \in t : TRUE
    OBVIOUS
<1>1. IsFiniteSet(s) /\ Cardinality(s) \in Nat
    BY AccountsCounted
<1>2. Cardinality(s \cup {x}) = Cardinality(s) + 1
    BY <1>1, FS_AddElement
<1>3. s \cup {x} \subseteq s \cup t /\ IsFiniteSet(s \cup t)
    BY AccountsCounted
<1>4. Cardinality(s \cup {x}) <= Cardinality(s \cup t) /\ Cardinality(s \cup t) \in Nat
    BY <1>3, FS_Subset, AccountsCounted
<1> QED BY <1>1, <1>2, <1>4

\* What is lost with a batch, or with all that is known of the sweep, is one generation.
LEMMA OneGeneration ==
    ASSUME NEW f \in Nat, NEW k \in Nat
    PROVE  /\ (f + 1) * k = f * k + k /\ (2 + f) * k = k + k + f * k
           /\ f * k \in Nat
OBVIOUS

LEMMA SelectOvertakes ==
    ASSUME CredentialsInv, Overtaken, Select
    PROVE  Overtaken'
<1>1. PICK force \in BOOLEAN :
         /\ covered' = IF Cardinality(Candidates(force)) > Batch
                       THEN Sweep(Candidates(force)) ELSE covered
         /\ \E s \in Picks(Candidates(force)) :
               /\ at' = [a \in Account |-> IF a \in s THEN "due" ELSE "off"]
               /\ snap' = Without(acct, Account \ s)
               /\ missed' = [a \in Account |->
                                IF a \in Candidates(force) \ s THEN missed[a] + 1 ELSE 0]
    BY DEF Select
<1> DEFINE cands == Candidates(force)
<1>2. PICK s \in Picks(cands) :
         /\ snap' = Without(acct, Account \ s)
         /\ missed' = [a \in Account |-> IF a \in cands \ s THEN missed[a] + 1 ELSE 0]
    BY <1>1
<1>3. cands \subseteq Account /\ \A a \in cands : acct[a] # None
    BY DEF Candidates
<1>4. s \subseteq cands /\ (Cardinality(cands) > Batch => s # {} /\ s \cap Sweep(cands) = {})
    BY <1>3, PicksSome
<1>5. Tried = {} /\ Tried' = s /\ covered \subseteq Account
    <2>1. snap = Empty
        BY DEF CredentialsInv, Select
    <2> QED BY <1>2, <1>3, <1>4, <2>1 DEF Tried, Without, Empty, CredentialsInv, CredentialsTypeOK
<1>6. Turned = covered /\ Turned' = covered' \cup s
    BY <1>5 DEF Turned
<1>7. UNCHANGED faults /\ faults \in Nat
    BY DEF Select, Keeps, CredentialsInv
<1> HIDE DEF cands
<1> SUFFICES ASSUME NEW a \in Account
             PROVE  missed'[a] <= OwnTurn(a)' + faults * Others
    BY <1>7 DEF Overtaken, Others
<1>8. Others \in Nat /\ faults * Others \in Nat
    BY <1>7, AccountsCounted, OneGeneration
<1>9. Turned' \subseteq Account /\ Cardinality(Turned') \in Nat /\ Cardinality(Turned' \ {a}) \in Nat
    <2>1. Turned' \subseteq Account
        BY <1>1, <1>3, <1>4, <1>5, <1>6 DEF Sweep, cands
    <2> QED BY <2>1, AccountsCounted
<1>10. OwnTurn(a)' = IF a \in Turned' THEN Cardinality(Turned' \ {a})
                     ELSE Others + Cardinality(Turned')
    BY DEF OwnTurn, Others
<1>11. CASE a \notin cands \ s
    BY <1>2, <1>8, <1>9, <1>10, <1>11
<1>12. CASE a \in cands \ s
    <2>1. missed'[a] = missed[a] + 1 /\ missed[a] \in Nat
        BY <1>2, <1>12 DEF CredentialsInv, CredentialsTypeOK
    <2>2. missed[a] <= OwnTurn(a) + faults * Others
        BY DEF Overtaken
    <2>3. Cardinality(cands) > Batch
        <3>1. Cardinality(cands) \in Nat
            BY <1>3, AccountsCounted
        <3>2. CASE Cardinality(cands) <= Batch
            BY <1>12, <3>2 DEF Picks
        <3> QED BY <3>1, <3>2, CredentialsAssumption
    <2>4. s # {} /\ s \cap Sweep(cands) = {} /\ covered' = Sweep(cands)
        BY <1>1, <1>4, <2>3 DEF cands
    <2>5. CASE cands \subseteq covered
        <3>1. a \in Turned /\ Turned' = s /\ a \notin s
            BY <1>6, <1>12, <2>4, <2>5 DEF Sweep
        <3>2. OwnTurn(a) <= Others /\ OwnTurn(a) \in Nat
            <4>1. covered \ {a} \in SUBSET Account /\ a \notin covered \ {a}
                BY <1>5
            <4>2. OwnTurn(a) = Cardinality(covered \ {a})
                BY <1>6, <3>1 DEF OwnTurn
            <4> QED BY <4>1, <4>2, AccountsCounted
        <3>3. Cardinality(s) >= 1
            <4>1. {} \in SUBSET Account /\ s \in SUBSET Account /\ {} \cap s = {}
                BY <1>3, <1>4
            <4>2. Cardinality({} \cup s) >= Cardinality({}) + 1
                BY <2>4, <4>1, LargerBySome
            <4>3. {} \cup s = s /\ Cardinality({}) = 0
                BY FS_EmptySet
            <4> QED BY <4>2, <4>3
        <3>4. OwnTurn(a)' = Others + Cardinality(s) /\ Cardinality(s) \in Nat
            BY <1>9, <1>10, <3>1
        <3> QED BY <1>8, <2>1, <2>2, <3>2, <3>3, <3>4
    <2>6. CASE ~(cands \subseteq covered)
        <3>1. Turned' = covered \cup s /\ covered \cap s = {} /\ a \notin s
            BY <1>6, <1>12, <2>4, <2>6 DEF Sweep
        <3>2. CASE a \in covered
            <4>1. Turned' \ {a} = (covered \ {a}) \cup s
                BY <3>1
            <4>2. covered \ {a} \in SUBSET Account /\ s \in SUBSET Account /\ (covered \ {a}) \cap s = {}
                BY <1>3, <1>4, <1>5, <3>1
            <4>3. Cardinality(Turned' \ {a}) >= Cardinality(covered \ {a}) + 1
                BY <2>4, <4>1, <4>2, LargerBySome
            <4>4. OwnTurn(a) = Cardinality(covered \ {a}) /\ OwnTurn(a)' = Cardinality(Turned' \ {a})
                BY <1>6, <1>10, <3>1, <3>2 DEF OwnTurn
            <4>5. Cardinality(covered \ {a}) \in Nat
                BY <4>2, AccountsCounted
            <4> QED BY <1>8, <1>9, <2>1, <2>2, <4>3, <4>4, <4>5
        <3>3. CASE a \notin covered
            <4>1. s \in SUBSET Account /\ covered \in SUBSET Account /\ Cardinality(covered) \in Nat
                BY <1>3, <1>4, <1>5, AccountsCounted
            <4>2. Cardinality(Turned') >= Cardinality(covered) + 1
                BY <2>4, <3>1, <4>1, LargerBySome
            <4>3. /\ OwnTurn(a) = Others + Cardinality(covered)
                  /\ OwnTurn(a)' = Others + Cardinality(Turned')
                BY <1>6, <1>10, <3>1, <3>3 DEF OwnTurn
            <4> QED BY <1>8, <1>9, <2>1, <2>2, <4>1, <4>2, <4>3
        <3> QED BY <3>2, <3>3
    <2> QED BY <2>5, <2>6
<1> QED BY <1>11, <1>12

\* A batch that was written, or had nothing to write, has had its turn.
LEMMA WrittenOvertakes ==
    ASSUME CredentialsInv, Overtaken, WriteBatch \/ NothingToWrite
    PROVE  Overtaken'
<1>1. Tried' = {}
    BY DEF WriteBatch, NothingToWrite, BatchEnds, Tried, Empty
<1>2. Turned' = Turned /\ UNCHANGED <<missed, faults>>
    BY <1>1 DEF Turned, WriteBatch, NothingToWrite, BatchEnds, Keeps
<1> QED BY <1>2 DEF Overtaken, OwnTurn, Others

\* A batch that was lost, and the generation with it, costs everyone one generation.
LEMMA LostOvertakes ==
    ASSUME CredentialsInv, Overtaken, covered' \in {covered, {}}, snap' = Empty,
           faults' = faults + 1, UNCHANGED missed
    PROVE  Overtaken'
<1>1. Tried' = {} /\ Turned' = covered' /\ covered' \subseteq Account
    BY DEF Tried, Empty, Turned, CredentialsInv, CredentialsTypeOK
<1>2. faults \in Nat /\ Turned \subseteq Account
    BY DEF CredentialsInv, CredentialsTypeOK, Turned, Tried
<1> SUFFICES ASSUME NEW a \in Account
             PROVE  missed[a] <= OwnTurn(a)' + (faults + 1) * Others
    BY DEF Overtaken, Others
<1>3. Others \in Nat /\ faults * Others \in Nat /\ (faults + 1) * Others = faults * Others + Others
    BY <1>2, AccountsCounted, OneGeneration
<1>4. missed[a] <= OwnTurn(a) + faults * Others /\ missed[a] \in Nat
    BY DEF Overtaken, CredentialsInv, CredentialsTypeOK
<1>5. OwnTurn(a)' = IF a \in Turned' THEN Cardinality(Turned' \ {a})
                    ELSE Others + Cardinality(Turned')
    BY DEF OwnTurn, Others
<1>6. Cardinality(Turned') \in Nat /\ Cardinality(Turned' \ {a}) \in Nat
    BY <1>1, AccountsCounted
<1>7. CASE a \in Turned
    <2>1. OwnTurn(a) <= Others /\ OwnTurn(a) \in Nat
        <3>1. Turned \ {a} \in SUBSET Account /\ a \notin Turned \ {a}
            BY <1>2
        <3>2. OwnTurn(a) = Cardinality(Turned \ {a})
            BY <1>7 DEF OwnTurn
        <3> QED BY <3>1, <3>2, AccountsCounted
    <2> QED BY <1>3, <1>4, <1>5, <1>6, <2>1
<1>8. CASE a \notin Turned
    <2>1. OwnTurn(a) = Others + Cardinality(Turned) /\ Cardinality(Turned) \in Nat
          /\ Cardinality(Turned) <= Others
        BY <1>2, <1>8, AccountsCounted DEF OwnTurn
    <2>2. a \notin Turned'
        BY <1>1, <1>8 DEF Turned
    <2> QED BY <1>3, <1>4, <1>5, <1>6, <2>1, <2>2
<1> QED BY <1>7, <1>8

LEMMA UntouchedOvertakes ==
    ASSUME Overtaken, SweepUntouched
    PROVE  Overtaken'
<1>1. Turned' = Turned /\ UNCHANGED <<missed, faults>>
    BY DEF SweepUntouched, Turned
<1> QED BY <1>1 DEF Overtaken, OwnTurn, Others

-----------------------------------------------------------------------------
(* All steps *)

\* The steps of a batch and its ends, and what they do to the writers.
LEMMA BatchWriters ==
    ASSUME CredentialsInv, WritersFit, Select \/ LockRows \/ NothingToWrite \/ WriteFails
    PROVE  WritersFit'
<1>1. UNCHANGED <<acct, view, stale, doing>>
    BY DEF Select, LockRows, NothingToWrite, WriteFails, Keeps, caller
<1>2. \A a \in Account : at'[a] \in {"off", "due"} \/ at'[a] = at[a]
    BY DEF Select, LockRows, NothingToWrite, WriteFails, BatchEnds
<1>3. \A w \in Writer : (Writing(w)' => Writing(w)) /\ (Waiting(w)' => Waiting(w))
    BY <1>1, <1>2 DEF Writing, Waiting
<1> QED BY <1>1, <1>3, SameWriters

\* Of the batch's writers none is left.
LEMMA CrashWriters ==
    ASSUME CredentialsInv, WritersFit, Crash
    PROVE  WritersFit'
<1>1. /\ at' = [a \in Account |-> "off"] /\ UNCHANGED <<acct, doing>>
      /\ view' = [w \in Writer |-> IF w \in Account THEN Empty ELSE view[w]]
      /\ stale' = [w \in Writer |-> IF w \in Account THEN {} ELSE stale[w]]
    BY DEF Crash, caller
<1>2. ASSUME NEW w \in Writer, Writing(w)' \/ Waiting(w)'
      PROVE  /\ w \notin Account /\ view'[w] = view[w] /\ stale'[w] = stale[w]
             /\ (Writing(w)' => Writing(w)) /\ (Waiting(w)' => Waiting(w))
    BY <1>1, <1>2 DEF Writing, Waiting
<1> HIDE DEF Map
<1>3. \A w \in Writer :
         /\ Writing(w)' => Writing(w) /\ SameWrites(view[w], view'[w]) /\ stale'[w] = stale[w]
         /\ Waiting(w)' => view'[w] \in Map
    BY <1>2 DEF SameWrites, WritersFit
<1> QED BY <1>1, <1>3, QuietWriters

\* Where a renewal of the batch goes, and no other.
LEMMA StageWriters ==
    ASSUME CredentialsInv, NEW a \in Account, NEW from, NEW to, Stage(a, from, to)
    PROVE  /\ \A w \in Writer \ {a} : (Writing(w)' <=> Writing(w)) /\ (Waiting(w)' <=> Waiting(w))
           /\ a \in Writer
           /\ (Writing(a)' <=> to = "writing") /\ (Waiting(a)' <=> to = "deleting")
BY DEF CredentialsInv, CredentialsTypeOK, Stage, Writing, Waiting, Writer

LEMMA RenewalWriters ==
    ASSUME CredentialsInv, WritersFit, NEW a \in Account,
           Renew(a) \/ RenewalFails(a) \/ Reauth(a)
    PROVE  WritersFit'
<1>1. PICK to \in {"off", "sso", "delete"}, from \in {"due", "sso"} : Stage(a, from, to)
    BY DEF Renew, RenewalFails, Reauth, After
<1>2. \A w \in Writer : (Writing(w)' => Writing(w)) /\ (Waiting(w)' => Waiting(w))
    BY <1>1, StageWriters
<1>3. UNCHANGED stale
    BY DEF Renew, RenewalFails, Reauth
<1>4. CASE Renew(a) \/ RenewalFails(a)
    <2>1. PICK back \in BOOLEAN : Takes(a, back)
        BY <1>4 DEF Renew, RenewalFails
    <2> QED BY <1>2, <1>3, <2>1, TakesWriters
<1>5. CASE Reauth(a)
    BY <1>2, <1>5, SameWriters DEF Reauth
<1> QED BY <1>4, <1>5

LEMMA DeletionWriters ==
    ASSUME CredentialsInv, WritersFit, NEW a \in Account,
           ReadToDelete(a) \/ Delete(a) \/ Deleted(a)
    PROVE  WritersFit'
<1> a \in Writer /\ acct \in Map
    BY DEF Writer, CredentialsInv, CredentialsTypeOK
<1>1. CASE ReadToDelete(a) /\ acct[a] = None
    <2>1. Stage(a, "delete", "off") /\ UNCHANGED <<acct, view, stale>>
        BY <1>1 DEF ReadToDelete
    <2>2. /\ \A w \in Writer \ {a} : (Writing(w)' <=> Writing(w)) /\ (Waiting(w)' <=> Waiting(w))
          /\ ~Writing(a)' /\ ~Waiting(a)'
        BY <2>1, StageWriters
    <2>3. \A w \in Writer : (Writing(w)' => Writing(w)) /\ (Waiting(w)' => Waiting(w))
        BY <2>2
    <2> QED BY <2>1, <2>3, SameWriters
<1>2. CASE ReadToDelete(a) /\ acct[a] # None
    <2>1. /\ Stage(a, "delete", "deleting") /\ view' = [view EXCEPT ![a] = Without(acct, {a})]
          /\ UNCHANGED <<acct, stale>>
        BY <1>2 DEF ReadToDelete
    <2>2. Without(acct, {a}) \in Map /\ Without(acct, {a}) \in Writes
        BY WithoutMap, EmptyMap
    <2> HIDE DEF Map, Writes
    <2>3. ~Writing(a)'
        BY <2>1, StageWriters
    <2>4. \A w \in Writer \ {a} : (Writing(w)' => Writing(w)) /\ (Waiting(w)' => Waiting(w))
        BY <2>1, StageWriters
    <2> QED BY <2>1, <2>2, <2>3, <2>4, ReadsWriters
<1>3. CASE Delete(a)
    <2>1. /\ Stage(a, "deleting", "writing") /\ UNCHANGED <<acct, stale>>
          /\ view' = [view EXCEPT ![a] = Replaced(view[a])]
        BY <1>3 DEF Delete
    <2>2. Waiting(a)
        BY <2>1 DEF Stage, Waiting
    <2>3. view[a] \in Map
        BY <2>2 DEF WritersFit
    <2>4. /\ Replaced(view[a]) \in Writes
          /\ \A x \in Account : /\ Replaced(view[a])[x] \notin {None, Same}
                                /\ acct[x] # None /\ acct[x].sso
                                => Replaced(view[a])[x].sso
        BY <2>3, ReplacedMap
    <2> HIDE DEF Map, Writes
    <2>5. ~Waiting(a)'
        BY <2>1, StageWriters
    <2>6. \A w \in Writer \ {a} : (Writing(w)' => Writing(w)) /\ (Waiting(w)' => Waiting(w))
        BY <2>1, StageWriters
    <2> QED BY <2>1, <2>4, <2>5, <2>6, ReadsWriters
<1>4. CASE Deleted(a)
    <2>1. Stage(a, "writing", "off") /\ Commits(a)
        BY <1>4 DEF Deleted
    <2>2. /\ \A w \in Writer \ {a} : (Writing(w)' <=> Writing(w)) /\ (Waiting(w)' <=> Waiting(w))
          /\ ~Writing(a)' /\ ~Waiting(a)'
        BY <2>1, StageWriters
    <2>3. \A w \in Writer : /\ Writing(w)' => Writing(w) /\ w # a
                            /\ Waiting(w)' => Waiting(w) /\ w # a
        BY <2>2
    <2> QED BY <2>1, <2>3, CommitsWriters
<1> QED BY <1>1, <1>2, <1>3, <1>4

\* Where a caller goes, and no other.
LEMMA GoesWriters ==
    ASSUME CredentialsInv, NEW c \in Caller, NEW to, NEW a, Goes(c, to, a), UNCHANGED at
    PROVE  /\ \A w \in Writer \ {c} : (Writing(w)' <=> Writing(w)) /\ (Waiting(w)' <=> Waiting(w))
           /\ c \in Writer
           /\ (Writing(c)' <=> to = "write") /\ (Waiting(c)' <=> to = "rewrite")
<1> c \notin Account
    BY CredentialsAssumption
<1> QED BY DEF CredentialsInv, CredentialsTypeOK, Goes, Writing, Waiting, Writer

LEMMA UseWriters ==
    ASSUME CredentialsInv, WritersFit, NEW c \in Caller,
           UseRenews(c) \/ UseFails(c) \/ \E a \in Account : Use(c, a)
    PROVE  WritersFit'
<1>1. /\ UNCHANGED <<at, stale>>
      /\ \E to \in {"idle", "again", "condemn", "renew", "store"}, a \in Account \cup {NoOne} :
            Goes(c, to, a)
    <2>1. CASE UseRenews(c) \/ UseFails(c)
        <3>1. on[c] \in Account
            BY <2>1, LatestEntry DEF UseRenews, UseFails
        <3> QED BY <2>1, <3>1 DEF UseRenews, UseFails, Ends
    <2>2. CASE \E a \in Account : Use(c, a)
        BY <2>2 DEF Use, runner
    <2> QED BY <2>1, <2>2
<1>2. PICK to \in {"idle", "again", "condemn", "renew", "store"}, a \in Account \cup {NoOne} :
         Goes(c, to, a)
    BY <1>1
<1>3. \A w \in Writer : (Writing(w)' => Writing(w)) /\ (Waiting(w)' => Waiting(w))
    BY <1>1, <1>2, GoesWriters
<1>4. CASE UseRenews(c) \/ UseFails(c)
    <2>1. on[c] \in Account
        BY <1>4, LatestEntry DEF UseRenews, UseFails
    <2>2. PICK back \in BOOLEAN : Takes(on[c], back)
        BY <1>4 DEF UseRenews, UseFails
    <2> QED BY <1>1, <1>3, <2>1, <2>2, TakesWriters
<1>5. CASE \E b \in Account : Use(c, b)
    BY <1>3, <1>5, SameWriters DEF Use
<1> QED BY <1>4, <1>5

LEMMA RewriteWriters ==
    ASSUME CredentialsInv, WritersFit, NEW c \in Caller,
           \/ Normalise(c) \/ Purge(c) \/ Condemn(c)
           \/ \E a \in Account : AskToDelete(c, a) \/ Backfill(c, a)
    PROVE  WritersFit'
<1>1. PICK m \in Map : Rewrites(c, m)
    BY Rewritten
<1>2. /\ Goes(c, "rewrite", NoOne) /\ view' = [view EXCEPT ![c] = m]
      /\ UNCHANGED <<acct, at, stale>>
    BY <1>1 DEF Rewrites, runner
<1>3. m \in Writes
    BY EmptyMap
<1> HIDE DEF Map, Writes
<1>4. c \in Writer /\ ~Writing(c)'
    BY <1>2, GoesWriters
<1>5. \A w \in Writer \ {c} : (Writing(w)' => Writing(w)) /\ (Waiting(w)' => Waiting(w))
    BY <1>2, GoesWriters
<1> QED BY <1>2, <1>3, <1>4, <1>5, ReadsWriters

LEMMA StoreWriters ==
    ASSUME CredentialsInv, WritersFit, NEW c \in Caller,
           \/ UseStores(c) \/ WriteView(c)
           \/ \E a \in Account, e \in Imported : Import(c, a, e)
    PROVE  WritersFit'
<1>1. PICK m \in Writes :
         /\ Stores(c, m)
         /\ \A a \in Account : /\ m[a] \notin {None, Same} /\ acct[a] # None /\ acct[a].sso
                               => m[a].sso
    BY StoredWrites
<1>2. /\ Goes(c, "write", NoOne) /\ view' = [view EXCEPT ![c] = m]
      /\ UNCHANGED <<acct, at, stale>>
    BY <1>1 DEF Stores, runner
<1> HIDE DEF Map, Writes
<1>3. c \in Writer /\ ~Waiting(c)'
    BY <1>2, GoesWriters
<1>4. \A w \in Writer \ {c} : (Writing(w)' => Writing(w)) /\ (Waiting(w)' => Waiting(w))
    BY <1>2, GoesWriters
<1> QED BY <1>1, <1>2, <1>3, <1>4, ReadsWriters

LEMMA CommitWriters ==
    ASSUME CredentialsInv, WritersFit, NEW c \in Caller, Commit(c)
    PROVE  WritersFit'
<1>1. Goes(c, "idle", NoOne) /\ Commits(c) /\ UNCHANGED at
    BY DEF Commit, Ends, runner
<1>2. c \in Writer
    BY DEF Writer
<1>3. /\ \A w \in Writer \ {c} : (Writing(w)' <=> Writing(w)) /\ (Waiting(w)' <=> Waiting(w))
      /\ ~Writing(c)' /\ ~Waiting(c)'
    BY <1>1, GoesWriters
<1>4. \A w \in Writer : /\ Writing(w)' => Writing(w) /\ w # c
                        /\ Waiting(w)' => Waiting(w) /\ w # c
    BY <1>3
<1> QED BY <1>1, <1>2, <1>4, CommitsWriters

LEMMA TimeWriters ==
    ASSUME CredentialsInv, WritersFit, NEW a \in Account, Ages(a) \/ Revoked(a)
    PROVE  WritersFit'
<1>1. UNCHANGED <<at, doing, stale>>
    BY DEF Ages, Revoked, runner, caller
<1>2. \A w \in Writer : (Writing(w)' => Writing(w)) /\ (Waiting(w)' => Waiting(w))
    BY <1>1 DEF Writing, Waiting
<1>3. CASE Revoked(a)
    BY <1>1, <1>2, <1>3, TakesWriters DEF Revoked
<1>4. CASE Ages(a)
    <2>1. SameCookies(acct, acct') /\ UNCHANGED view
        BY <1>4, AgedMap DEF Ages, CredentialsInv, CredentialsTypeOK
    <2>2. \A b \in Account : acct'[b] # None /\ acct'[b].sso => acct[b] # None /\ acct[b].sso
        BY <2>1 DEF SameCookies
    <2> HIDE DEF Map
    <2>3. \A w \in Writer :
             /\ Writing(w)' => Writing(w) /\ SameWrites(view[w], view'[w]) /\ stale'[w] = stale[w]
             /\ Waiting(w)' => view'[w] \in Map
        BY <1>1, <1>2, <2>1 DEF SameWrites, WritersFit
    <2> QED BY <2>2, <2>3, QuietWriters
<1> QED BY <1>3, <1>4

CredentialsIInv == CredentialsInv /\ WritersFit /\ Overtaken

LEMMA CredentialsStep ==
    ASSUME CredentialsIInv, [CredentialsNext]_credentialsVars
    PROVE  CredentialsIInv' /\ [CookiesStay]_credentialsVars
<1> CredentialsInv /\ WritersFit /\ Overtaken
    BY DEF CredentialsIInv
<1> SUFFICES /\ CredentialsInv' /\ WritersFit' /\ Overtaken'
             /\ CookiesStay \/ UNCHANGED credentialsVars
    BY DEF CredentialsIInv
<1>1. CASE Select
    BY <1>1, SelectStep, BatchWriters, SelectOvertakes
<1>2. CASE LockRows
    BY <1>2, LockRowsStep, BatchWriters, UntouchedOvertakes
<1>3. CASE WriteBatch
    BY <1>3, WriteBatchStep, WriteBatchWriters, WrittenOvertakes
<1>4. CASE NothingToWrite
    BY <1>4, NothingToWriteStep, BatchWriters, WrittenOvertakes
<1>5. CASE WriteFails
    <2>1. covered' = covered /\ snap' = Empty /\ faults' = faults + 1 /\ UNCHANGED missed
        BY <1>5 DEF WriteFails, BatchEnds
    <2> QED BY <1>5, <2>1, WriteFailsStep, BatchWriters, LostOvertakes
<1>6. CASE Crash
    <2>1. covered' \in {covered, {}} /\ snap' = Empty /\ faults' = faults + 1 /\ UNCHANGED missed
        BY <1>6 DEF Crash
    <2> QED BY <1>6, <2>1, CrashStep, CrashWriters, LostOvertakes
<1>7. ASSUME NEW a \in Account, Renew(a) \/ RenewalFails(a) \/ Reauth(a)
      PROVE  CredentialsInv' /\ CookiesStay /\ WritersFit' /\ Overtaken'
    BY <1>7, RenewStep, RenewalFailsStep, ReauthStep, RenewalWriters, UntouchedOvertakes
<1>8. ASSUME NEW a \in Account, ReadToDelete(a) \/ Delete(a) \/ Deleted(a)
      PROVE  CredentialsInv' /\ CookiesStay /\ WritersFit' /\ Overtaken'
    BY <1>8, ReadToDeleteStep, DeleteStep, DeletedStep, DeletionWriters, UntouchedOvertakes
<1>9. ASSUME NEW c \in Caller,
             UseRenews(c) \/ UseFails(c) \/ \E a \in Account : Use(c, a)
      PROVE  CredentialsInv' /\ CookiesStay /\ WritersFit' /\ Overtaken'
    BY <1>9, UseRenewsStep, UseFailsStep, UseStep, UseWriters, UntouchedOvertakes
<1>10. ASSUME NEW c \in Caller,
              \/ Normalise(c) \/ Purge(c) \/ Condemn(c)
              \/ \E a \in Account : AskToDelete(c, a) \/ Backfill(c, a)
       PROVE  CredentialsInv' /\ CookiesStay /\ WritersFit' /\ Overtaken'
    BY <1>10, RewriteSteps, RewriteWriters, UntouchedOvertakes
<1>11. ASSUME NEW c \in Caller,
              \/ UseStores(c) \/ WriteView(c)
              \/ \E a \in Account, e \in Imported : Import(c, a, e)
       PROVE  CredentialsInv' /\ CookiesStay /\ WritersFit' /\ Overtaken'
    BY <1>11, StoresStep, StoreWriters, UntouchedOvertakes
<1>12. ASSUME NEW c \in Caller, Commit(c)
       PROVE  CredentialsInv' /\ CookiesStay /\ WritersFit' /\ Overtaken'
    BY <1>12, CommitStep, CommitWriters, UntouchedOvertakes
<1>13. ASSUME NEW a \in Account, Ages(a) \/ Revoked(a)
       PROVE  CredentialsInv' /\ CookiesStay /\ WritersFit' /\ Overtaken'
    BY <1>13, AgesStep, RevokedStep, TimeWriters, UntouchedOvertakes
<1>14. CASE UNCHANGED credentialsVars
    <2> USE <1>14 DEF credentialsVars, runner, caller
    <2>1. CredentialsInv'
        BY DEF CredentialsInv, CredentialsTypeOK
    <2>2. WritersFit'
        BY DEF WritersFit, WriteFits, Written, Writing, Waiting
    <2>3. SweepUntouched
        BY DEF SweepUntouched, Tried
    <2> QED BY <2>1, <2>2, <2>3, UntouchedOvertakes
<1> QED BY <1>1, <1>2, <1>3, <1>4, <1>5, <1>6, <1>7, <1>8, <1>9, <1>10, <1>11, <1>12, <1>13, <1>14
        DEF CredentialsNext, Maintains

LEMMA CredentialsInitially ==
    CredentialsInit => CredentialsIInv
<1> SUFFICES ASSUME CredentialsInit PROVE CredentialsIInv
    OBVIOUS
<1> USE DEF CredentialsInit
<1>1. {a \in Account : at[a] # "off"} = {}
    OBVIOUS
<1>2. Cardinality({a \in Account : at[a] # "off"}) <= Batch /\ faults + acts \in 0 .. MaxEvents
    BY <1>1, FS_EmptySet, CredentialsAssumption
<1>3. acct \in Map
    BY CredentialsAssumption DEF Map
<1>4. view \in [Writer -> Writes] /\ stale \in [Writer -> SUBSET Account]
    BY EmptyMap
<1>5. WritersFit
    BY DEF WritersFit, Writing, Waiting, Writer
<1> HIDE DEF Map, Entry, Writes
<1>6. CredentialsTypeOK
    BY <1>2, <1>3, <1>4, EmptyMap DEF CredentialsTypeOK
<1>7. CredentialsInv
    BY <1>6 DEF CredentialsInv
<1>8. Turned \subseteq Account
    BY <1>6 DEF Turned, Tried, CredentialsTypeOK
<1>9. ASSUME NEW a \in Account
      PROVE  missed[a] <= OwnTurn(a) + faults * Others
    <2>1. Others \in Nat /\ Cardinality(Turned) \in Nat /\ Cardinality(Turned \ {a}) \in Nat
        BY <1>8, AccountsCounted
    <2>2. OwnTurn(a) \in Nat
        BY <2>1 DEF OwnTurn
    <2>3. missed[a] = 0 /\ faults * Others = 0
        BY <2>1
    <2> QED BY <2>2, <2>3
<1> QED BY <1>5, <1>7, <1>9 DEF Overtaken, CredentialsIInv

\* The entries, the batch and what its callers hold are of their types, and the batch
\* never has more renewals under way than one cycle may take (oidc_auth.py:1324).
THEOREM CredentialsTyped == CredentialsSpec => []CredentialsTypeOK
<1>1. CredentialsIInv => CredentialsTypeOK
    BY DEF CredentialsInv, CredentialsIInv
<1> QED BY <1>1, CredentialsInitially, CredentialsStep, PTL DEF CredentialsSpec

\* No one is overtaken for longer than two generations of the sweep, and one for each
\* batch that was lost, in however long a run: accounts that fail for good never starve
\* the others (oidc_auth.py:1226).
THEOREM NobodyStarves == CredentialsSpec => []BoundedOvertaking
<1>1. ASSUME CredentialsIInv PROVE BoundedOvertaking
    <2> SUFFICES ASSUME NEW a \in Account
                 PROVE  missed[a] <= (2 + faults) * Others
        BY DEF BoundedOvertaking, Others
    <2>1. Turned \subseteq Account /\ faults \in Nat
        BY <1>1 DEF Turned, Tried, CredentialsIInv, CredentialsInv, CredentialsTypeOK
    <2>2. Others \in Nat /\ faults * Others \in Nat
          /\ (2 + faults) * Others = Others + Others + faults * Others
        BY <2>1, AccountsCounted, OneGeneration
    <2>3. OwnTurn(a) \in Nat /\ OwnTurn(a) <= Others + Others
        <3>1. Turned \ {a} \in SUBSET Account /\ a \notin Turned \ {a}
            BY <2>1
        <3> QED BY <2>1, <2>2, <3>1, AccountsCounted DEF OwnTurn
    <2>4. missed[a] <= OwnTurn(a) + faults * Others /\ missed[a] \in Nat
        BY <1>1 DEF Overtaken, CredentialsIInv, CredentialsInv, CredentialsTypeOK
    <2> QED BY <2>2, <2>3, <2>4
<1> QED BY <1>1, CredentialsInitially, CredentialsStep, PTL DEF CredentialsSpec

\* A write drops the SSO cookie of an account that stays only where another has written
\* the row since this one read it (accounts.py:101, accounts_pg.py:650): no renewed
\* entry, no map however old, no batch and no login does so otherwise.
THEOREM CookiesKept == CredentialsSpec => SSOKept
<1>1. ASSUME CredentialsIInv, [CredentialsNext]_credentialsVars
      PROVE  [\A a \in Account : CookieStays(a) \/ Crossed(a)]_credentialsVars
    BY <1>1, CredentialsStep DEF CookiesStay
<1> QED BY <1>1, CredentialsInitially, CredentialsStep, PTL DEF CredentialsSpec, SSOKept

-----------------------------------------------------------------------------
(***************************************************************************)
(* Imports: the job and the login.                                         *)
(***************************************************************************)

\* The cookies the job has collected that became accounts.
Gained == SeenAs(seen, "converted")

\* A user whose row has a cookie; of a user's own, as SavedOwn says.
HasRow(u) == saved[u] \in Cookie

\* What is collected has ended, and the last cookie of each user is among those to store.
CollectedInv ==
    /\ \A c \in Range(seen) : place[c] \in {"converted", "failed"}
    /\ \A c \in Gained : \E d \in Normalized : of[d] = of[c]

SavedOwn == \A u \in User : HasRow(u) => of[saved[u]] = u

\* While it stores: whose account was gained has a row, had a failed one, or is still to
\* be stored; a table that is to be replaced still has all of them to store, or none.
StoringInv ==
    job = "storing" =>
        \A c \in Gained :
            /\ of[c] \in failed \/ HasRow(of[c]) \/ \E d \in todo : of[d] = of[c]
            /\ replace /\ todo # {} => \E d \in todo : of[d] = of[c]

\* Once it is done: what it reports has a row or had a failed one, and not all failed.
DoneInv ==
    job = "done" /\ local.ok # {} =>
        /\ \A c \in local.ok : of[c] \in failed \/ HasRow(of[c])
        /\ \E c \in local.ok : of[c] \notin failed

\* A login that is about to be reported, or was, has its row.
LoginInv ==
    ~replace /\ (poller = "mark" \/ "success" \in {here, mirror}) => saved[Login] # "absent"

ImportsTyped ==
    /\ ImportsTypeOK
    /\ of \in [Cookie -> User] /\ replace \in BOOLEAN /\ seen \in Seq(Cookie)

ImportsInv ==
    ImportsTyped /\ CollectedInv /\ SavedOwn /\ StoringInv /\ DoneInv /\ LoginInv

-----------------------------------------------------------------------------
(* Operators *)

LEMMA RangeOf == ASSUME NEW s \in Seq(Cookie)
                 PROVE  Range(s) = {s[i] : i \in 1 .. Len(s)} /\ DOMAIN s = 1 .. Len(s)
BY DEF Range

\* One cookie more is collected.
LEMMA RangeAppend ==
    ASSUME NEW s \in Seq(Cookie), NEW c \in Cookie
    PROVE  /\ Append(s, c) \in Seq(Cookie) /\ Range(Append(s, c)) = Range(s) \cup {c}
           /\ c \notin Range(s) /\ IsInjective(s) => IsInjective(Append(s, c))
<1> DEFINE t == Append(s, c)
<1>1. /\ t \in Seq(Cookie) /\ Len(t) = Len(s) + 1 /\ Len(s) \in Nat
      /\ t[Len(s) + 1] = c /\ \A i \in 1 .. Len(s) : t[i] = s[i]
    OBVIOUS
<1>2. Range(s) = {s[i] : i \in 1 .. Len(s)} /\ Range(t) = {t[i] : i \in 1 .. Len(t)}
      /\ DOMAIN s = 1 .. Len(s) /\ DOMAIN t = 1 .. Len(t)
    BY <1>1, RangeOf
<1> HIDE DEF t
<1>3. Range(t) = Range(s) \cup {c}
    <2>1. 1 .. Len(t) = (1 .. Len(s)) \cup {Len(s) + 1}
        BY <1>1
    <2> QED BY <1>1, <1>2, <2>1
<1>4. c \notin Range(s) /\ IsInjective(s) => IsInjective(t)
    BY <1>1, <1>2 DEF IsInjective
<1> QED BY <1>1, <1>3, <1>4 DEF t

LEMMA TallyType ==
    ASSUME NEW s \in Seq(Cookie), NEW status \in {"queued", "converting", "importing", "done", "error"},
           Range(s) \subseteq Cookie
    PROVE  Tally(s, status) \in Record
BY DEF Tally, SeenAs, Record

LEMMA FaultyType ==
    ASSUME mishaps \in 0 .. MaxFaults, NEW b \in BOOLEAN, Faulty(b)
    PROVE  mishaps' \in 0 .. MaxFaults
BY ImportsAssumption DEF Faulty

LEMMA PutType ==
    ASSUME ImportsTypeOK, NEW r \in Record, NEW lost \in BOOLEAN, Put(r, lost)
    PROVE  local' = r /\ local' \in Record /\ redis' \in Record /\ mishaps' \in 0 .. MaxFaults
BY FaultyType DEF Put, ImportsTypeOK

-----------------------------------------------------------------------------
(* A cookie in the device flow *)

Places == {"queued", "code", "allow", "poll", "converted", "failed"}

LEMMA WorkingCounted ==
    ASSUME ImportsTypeOK
    PROVE  /\ IsFiniteSet(Working) /\ Cardinality(Working) \in Nat
           /\ Cardinality(Working) <= Workers
<1>1. Working \subseteq Cookie
    BY DEF Working
<1> QED BY <1>1, ImportsAssumption, FS_Subset, FS_CardinalityType DEF ImportsTypeOK, Working

\* The pool is no larger after a thread went on.
LEMMA StillAtWork ==
    ASSUME ImportsTypeOK, NEW c \in Cookie, NEW to \in Places, place' = [place EXCEPT ![c] = to],
           c \in Working \/ to \notin {"code", "allow", "poll"} \/ Cardinality(Working) < Workers
    PROVE  Cardinality({d \in Cookie : place'[d] \notin {"queued", "converted", "failed"}}) <= Workers
<1> DEFINE next == {d \in Cookie : place'[d] \notin {"queued", "converted", "failed"}}
<1> USE WorkingCounted, ImportsAssumption
<1>1. next \subseteq Working \cup {c}
    BY DEF Working, ImportsTypeOK
<1>2. CASE c \in Working \/ to \notin {"code", "allow", "poll"}
    <2>1. next \subseteq Working
        BY <1>2 DEF Working, ImportsTypeOK, Places
    <2> HIDE DEF next
    <2>2. Cardinality(next) <= Cardinality(Working) /\ Cardinality(next) \in Nat
        BY <2>1, FS_Subset, FS_CardinalityType
    <2>3. Cardinality(next) <= Workers
        BY <2>2
    <2> QED BY <2>3 DEF next
<1>3. CASE c \notin Working /\ Cardinality(Working) < Workers
    <2>1. Cardinality(Working \cup {c}) = Cardinality(Working) + 1 /\ IsFiniteSet(Working \cup {c})
        BY <1>3, FS_AddElement
    <2> HIDE DEF next
    <2>2. Cardinality(next) <= Cardinality(Working \cup {c}) /\ Cardinality(next) \in Nat
        BY <1>1, <2>1, FS_Subset, FS_CardinalityType
    <2>3. Cardinality(next) <= Workers
        BY <1>3, <2>1, <2>2
    <2> QED BY <2>3 DEF next
<1> QED BY <1>2, <1>3

\* What the job has collected is no matter of a cookie that is still on its way.
LEMMA OnItsWay ==
    ASSUME ImportsInv, NEW c \in Cookie, NEW to \in Places, job = "converting",
           place[c] \in {"queued", "code", "allow", "poll"}, place' = [place EXCEPT ![c] = to],
           asked' \in [Cookie -> 0 .. Tries], tried' \in [Cookie -> 0 .. Tries],
           c \in Working \/ to \notin {"code", "allow", "poll"} \/ Cardinality(Working) < Workers,
           UNCHANGED <<of, replace, saved, work, session, mishaps>>
    PROVE  ImportsInv'
<1> USE DEF ImportsInv, ImportsTyped
<1>1. ImportsTypeOK'
    <2>1. place' \in [Cookie -> {"queued", "code", "allow", "poll", "converted", "failed"}]
        BY DEF ImportsTypeOK, Places
    <2>2. Cardinality({d \in Cookie : place'[d] \notin {"queued", "converted", "failed"}}) <= Workers
        BY StillAtWork
    <2> HIDE DEF Record
    <2> QED BY <2>1, <2>2 DEF ImportsTypeOK, work, session
<1>2. ImportsTyped'
    BY <1>1 DEF work
<1>3. c \notin Range(seen) /\ \A d \in Range(seen) : place'[d] = place[d]
    BY DEF CollectedInv, ImportsTypeOK
<1>4. \A i \in DOMAIN seen : place'[seen[i]] = place[seen[i]]
    BY <1>3 DEF Range
<1>5. Gained' = Gained
    BY <1>3 DEF Gained, SeenAs, work
<1>6. Normalized' = Normalized
    BY <1>4, <1>5 DEF Normalized, Gained, work
<1>7. CollectedInv'
    BY <1>3, <1>5, <1>6 DEF CollectedInv, work
<1>8. (SavedOwn /\ StoringInv /\ DoneInv /\ LoginInv)'
    BY <1>5 DEF SavedOwn, HasRow, StoringInv, DoneInv, LoginInv, work, session
<1> QED BY <1>2, <1>7, <1>8

\* Where the flow starts over, or the thread returns.
LEMMA AgainPlaces ==
    ASSUME ImportsTypeOK, NEW c \in Cookie, Again(c)
    PROVE  /\ \E to \in {"code", "failed"} : place' = [place EXCEPT ![c] = to]
           /\ asked' \in [Cookie -> 0 .. Tries] /\ tried' \in [Cookie -> 0 .. Tries]
BY ImportsAssumption DEF Again, Goto, Leaves, ImportsTypeOK

LEMMA LeavesPlaces ==
    ASSUME ImportsTypeOK, NEW c \in Cookie, NEW to, Leaves(c, to)
    PROVE  /\ place' = [place EXCEPT ![c] = to]
           /\ asked' \in [Cookie -> 0 .. Tries] /\ tried' \in [Cookie -> 0 .. Tries]
BY ImportsAssumption DEF Leaves, Goto, ImportsTypeOK

LEMMA ThreadStep ==
    ASSUME ImportsInv, NEW c \in Cookie, Thread(c)
    PROVE  ImportsInv'
<1> ImportsTypeOK
    BY DEF ImportsInv, ImportsTyped
<1> USE DEF Places
<1>1. ASSUME NEW good \in BOOLEAN, Take(c, good) PROVE ImportsInv'
    <2>1. CASE good
        <3>1. place' = [place EXCEPT ![c] = "code"] /\ tried' = [tried EXCEPT ![c] = 1] /\ asked' = asked
            BY <1>1, <2>1 DEF Take, Goto
        <3>2. asked' \in [Cookie -> 0 .. Tries] /\ tried' \in [Cookie -> 0 .. Tries]
            BY <3>1, ImportsAssumption DEF ImportsTypeOK
        <3> QED BY <1>1, <3>1, <3>2, OnItsWay DEF Take, Runs
    <2>2. CASE ~good
        BY <1>1, <2>2, LeavesPlaces, OnItsWay DEF Take, Runs
    <2> QED BY <2>1, <2>2
<1>2. ASSUME NEW a \in Answer, AskCode(c, a) PROVE ImportsInv'
    <2>1. place[c] = "code" /\ c \in Working
        BY <1>2 DEF AskCode, Runs, Working
    <2>2. \E to \in {"code", "allow", "failed"} :
             /\ place' = [place EXCEPT ![c] = to]
             /\ asked' \in [Cookie -> 0 .. Tries] /\ tried' \in [Cookie -> 0 .. Tries]
        <3>1. CASE a = "ok"
            BY <1>2, <3>1, ImportsAssumption DEF AskCode, Goto, ImportsTypeOK
        <3>2. CASE a = "limited" /\ asked[c] + 1 < Tries
            BY <1>2, <2>1, <3>2, ImportsAssumption DEF AskCode, Goto, ImportsTypeOK
        <3>3. CASE ~(a = "ok") /\ ~(a = "limited" /\ asked[c] + 1 < Tries)
            BY <1>2, <3>3, AgainPlaces DEF AskCode
        <3> QED BY <3>1, <3>2, <3>3
    <2> QED BY <1>2, <2>1, <2>2, OnItsWay DEF AskCode, Runs
<1>3. ASSUME NEW a \in Answer, Allow(c, a) PROVE ImportsInv'
    <2>1. place[c] = "allow" /\ c \in Working
        BY <1>3 DEF Allow, Runs, Working
    <2>2. \E to \in {"code", "poll", "failed"} :
             /\ place' = [place EXCEPT ![c] = to]
             /\ asked' \in [Cookie -> 0 .. Tries] /\ tried' \in [Cookie -> 0 .. Tries]
        <3>1. CASE a = "ok"
            BY <1>3, <3>1 DEF Allow, Goto, ImportsTypeOK
        <3>2. CASE a = "limited"
            BY <1>3, <3>2, AgainPlaces DEF Allow
        <3>3. CASE ~(a = "ok") /\ ~(a = "limited")
            BY <1>3, <3>3, LeavesPlaces DEF Allow
        <3> QED BY <3>1, <3>2, <3>3
    <2> QED BY <1>3, <2>1, <2>2, OnItsWay DEF Allow, Runs
<1>4. ASSUME NEW a \in Answer, PollToken(c, a) PROVE ImportsInv'
    <2>1. place[c] = "poll" /\ c \in Working
        BY <1>4 DEF PollToken, Runs, Working
    <2>2. \E to \in {"code", "converted", "failed"} :
             /\ place' = [place EXCEPT ![c] = to]
             /\ asked' \in [Cookie -> 0 .. Tries] /\ tried' \in [Cookie -> 0 .. Tries]
        <3>1. CASE a = "ok"
            BY <1>4, <3>1, LeavesPlaces DEF PollToken
        <3>2. CASE a = "limited"
            BY <1>4, <3>2, AgainPlaces DEF PollToken
        <3>3. CASE ~(a = "ok") /\ ~(a = "limited")
            BY <1>4, <3>3, LeavesPlaces DEF PollToken
        <3> QED BY <3>1, <3>2, <3>3
    <2> QED BY <1>4, <2>1, <2>2, OnItsWay DEF PollToken, Runs
<1> QED BY <1>1, <1>2, <1>3, <1>4 DEF Thread

-----------------------------------------------------------------------------
(* The thread of the job *)

\* Steps of the job that collect nothing leave what is known of the cookies as it is.
LEMMA SameCollected ==
    ASSUME CollectedInv, UNCHANGED <<of, place, seen>>
    PROVE  CollectedInv' /\ Gained' = Gained /\ Normalized' = Normalized
<1>1. Normalized' = Normalized
    BY DEF Normalized, SeenAs
<1> QED BY <1>1 DEF CollectedInv, Gained, SeenAs

LEMMA StartSteps ==
    ASSUME ImportsInv, StartJob \/ \E lost \in BOOLEAN : Begin(lost)
    PROVE  ImportsInv'
<1> USE DEF ImportsInv, ImportsTyped
<1>1. /\ UNCHANGED <<of, replace, saved, flow, seen, todo, failed, session>>
      /\ job' \in {"queued", "converting"} /\ job \in {"idle", "queued"}
    BY DEF StartJob, Begin
<1>2. local' \in Record /\ redis' \in Record /\ mishaps' \in 0 .. MaxFaults
    <2>1. CASE StartJob
        BY <2>1 DEF StartJob, ImportsTypeOK
    <2>2. ASSUME NEW lost \in BOOLEAN, Begin(lost)
          PROVE  local' \in Record /\ redis' \in Record /\ mishaps' \in 0 .. MaxFaults
        <3>1. [NewJob EXCEPT !.status = "converting"] \in Record
            BY DEF NewJob, Record
        <3> QED BY <2>2, <3>1, PutType DEF Begin
    <2> QED BY <2>1, <2>2
<1> HIDE DEF Record
<1>3. ImportsTypeOK'
    BY <1>1, <1>2 DEF ImportsTypeOK, flow, session
<1>4. CollectedInv'
    BY <1>1, SameCollected DEF flow
<1> QED BY <1>1, <1>3, <1>4 DEF SavedOwn, HasRow, StoringInv, DoneInv, LoginInv, flow, session

LEMMA CollectStep ==
    ASSUME ImportsInv, NEW c \in Cookie, NEW publish \in BOOLEAN, NEW lost \in BOOLEAN,
           Collect(c, publish, lost)
    PROVE  ImportsInv'
<1> USE DEF ImportsInv, ImportsTyped
<1>1. /\ UNCHANGED <<of, replace, saved, flow, job, todo, failed, session>>
      /\ seen' = Append(seen, c) /\ job = "converting" /\ c \notin Range(seen)
      /\ place[c] \in {"converted", "failed"}
    BY DEF Collect
<1>2. /\ seen' \in Seq(Cookie) /\ Range(seen') = Range(seen) \cup {c} /\ IsInjective(seen')
    BY <1>1, RangeAppend DEF ImportsTypeOK
<1>3. local' \in Record /\ redis' \in Record /\ mishaps' \in 0 .. MaxFaults
    <2>1. CASE publish
        <3>1. Tally(seen', "converting") \in Record
            <4>1. Range(seen') \subseteq Cookie
                BY <1>2 DEF ImportsTypeOK
            <4> QED BY <1>2, <4>1, TallyType
        <3> QED BY <2>1, <3>1, PutType DEF Collect
    <2>2. CASE ~publish
        BY <2>2 DEF Collect, ImportsTypeOK
    <2> QED BY <2>1, <2>2
<1>4. ImportsTypeOK'
    <2> HIDE DEF Record
    <2> QED BY <1>1, <1>2, <1>3 DEF ImportsTypeOK, flow, session
<1>5. Gained' = Gained \cup (IF place[c] = "converted" THEN {c} ELSE {})
    BY <1>1, <1>2 DEF Gained, SeenAs, flow
<1>6. ASSUME NEW e \in Gained'
      PROVE  \E d \in Normalized' : of[d] = of[e]
    <2>1. /\ seen \in Seq(Cookie) /\ Len(seen) \in Nat /\ Len(seen') = Len(seen) + 1
          /\ seen'[Len(seen) + 1] = c /\ \A i \in 1 .. Len(seen) : seen'[i] = seen[i]
          /\ DOMAIN seen' = 1 .. Len(seen) + 1 /\ DOMAIN seen = 1 .. Len(seen)
        BY <1>1
    <2>2. \A i \in 1 .. Len(seen) : seen[i] # c
        BY <1>1, <2>1 DEF Range
    <2>3. Normalized' = {d \in Gained' : \A i, j \in 1 .. Len(seen) + 1 :
                            seen'[i] = d /\ j > i /\ place[seen'[j]] = "converted"
                            => of[seen'[j]] # of[d]}
        BY <1>1, <2>1 DEF Normalized, Gained, flow
    <2>4. CASE place[c] = "converted" /\ of[e] = of[c]
        <3>1. c \in Gained'
            BY <1>5, <2>4
        <3>2. ASSUME NEW i \in 1 .. Len(seen) + 1, NEW j \in 1 .. Len(seen) + 1,
                     seen'[i] = c, j > i
              PROVE  FALSE
            <4>1. i \in 1 .. Len(seen)
                BY <2>1, <3>2
            <4>2. seen[i] = c
                BY <2>1, <3>2, <4>1
            <4> QED BY <2>2, <4>1, <4>2
        <3>3. c \in Normalized'
            BY <2>3, <3>1, <3>2
        <3> QED BY <2>4, <3>3
    <2>5. CASE ~(place[c] = "converted" /\ of[e] = of[c])
        <3>1. e \in Gained
            BY <1>5, <2>5
        <3>2. PICK d \in Normalized : of[d] = of[e]
            BY <3>1 DEF CollectedInv
        <3>3. d \in Gained /\ d \in Gained'
            BY <1>5 DEF Normalized, Gained
        <3>4. ASSUME NEW i \in 1 .. Len(seen) + 1, NEW j \in 1 .. Len(seen) + 1,
                     seen'[i] = d, j > i, place[seen'[j]] = "converted"
              PROVE  of[seen'[j]] # of[d]
            <4>1. i \in 1 .. Len(seen) /\ seen[i] = d
                BY <2>1, <3>4
            <4>2. CASE j = Len(seen) + 1
                BY <2>1, <2>5, <3>2, <3>4, <4>2
            <4>3. CASE j \in 1 .. Len(seen)
                BY <2>1, <3>4, <4>1, <4>3 DEF Normalized
            <4> QED BY <2>1, <4>2, <4>3
        <3> QED BY <2>3, <3>2, <3>3, <3>4
    <2> QED BY <2>4, <2>5
<1>7. CollectedInv'
    BY <1>1, <1>2, <1>6 DEF CollectedInv, flow
<1>8. (SavedOwn /\ StoringInv /\ DoneInv /\ LoginInv)'
    BY <1>1 DEF SavedOwn, HasRow, StoringInv, DoneInv, LoginInv, flow, session
<1> QED BY <1>1, <1>2, <1>4, <1>7, <1>8

LEMMA StartStoringStep ==
    ASSUME ImportsInv, NEW lost \in BOOLEAN, StartStoring(lost)
    PROVE  ImportsInv'
<1> USE DEF ImportsInv, ImportsTyped
<1>1. /\ UNCHANGED <<of, replace, saved, flow, seen, failed, session>>
      /\ job' = "storing" /\ todo' = Normalized
    BY DEF StartStoring
<1>2. Tally(seen, "importing") \in Record
    BY TallyType DEF ImportsTypeOK
<1>3. local' \in Record /\ redis' \in Record /\ mishaps' \in 0 .. MaxFaults
    BY <1>2, PutType DEF StartStoring
<1>4. Normalized \subseteq Cookie
    BY DEF Normalized, SeenAs, ImportsTypeOK
<1> HIDE DEF Record
<1>5. ImportsTypeOK'
    BY <1>1, <1>3, <1>4 DEF ImportsTypeOK, flow, session
<1>6. CollectedInv' /\ Gained' = Gained
    BY <1>1, SameCollected DEF flow
<1>7. StoringInv'
    BY <1>1, <1>6 DEF StoringInv, CollectedInv
<1> QED BY <1>1, <1>5, <1>6, <1>7 DEF SavedOwn, HasRow, DoneInv, LoginInv, flow, session

LEMMA GainedOf == ASSUME ImportsTyped PROVE \A c \in Gained : c \in Cookie /\ of[c] \in User
BY DEF Gained, SeenAs, ImportsTyped, ImportsTypeOK

LEMMA StoreOneStep ==
    ASSUME ImportsInv, NEW c \in Cookie, NEW fails \in BOOLEAN, StoreOne(c, fails)
    PROVE  ImportsInv'
<1> USE DEF ImportsInv, ImportsTyped
<1>1. /\ UNCHANGED <<of, replace, flow, job, seen, local, redis, session>>
      /\ job = "storing" /\ ~replace /\ c \in todo /\ todo' = todo \ {c} /\ of[c] \in User
    BY DEF StoreOne
<1>2. /\ failed' \in {failed, failed \cup {of[c]}}
      /\ saved' \in {saved, [saved EXCEPT ![of[c]] = c]}
      /\ of[c] \in failed' \/ saved'[of[c]] = c
    BY <1>1 DEF StoreOne, ImportsTypeOK
<1>3. mishaps' \in 0 .. MaxFaults
    BY FaultyType DEF StoreOne, ImportsTypeOK
<1>4. /\ saved' \in [User -> Cookie \cup {"absent", "bare"}]
      /\ \A u \in User : saved'[u] = saved[u] \/ (u = of[c] /\ saved'[u] = c)
    <2>1. c \in Cookie /\ c \in Cookie \cup {"absent", "bare"}
        OBVIOUS
    <2> QED BY <1>1, <1>2, <2>1 DEF ImportsTypeOK
<1> HIDE DEF Record
<1>5. ImportsTypeOK'
    BY <1>1, <1>2, <1>3, <1>4 DEF ImportsTypeOK, flow, session
<1>6. CollectedInv' /\ Gained' = Gained
    BY <1>1, SameCollected DEF flow
<1>7. SavedOwn'
    BY <1>1, <1>4 DEF SavedOwn, HasRow
<1>8. StoringInv'
    <2> SUFFICES ASSUME NEW d \in Gained
                 PROVE  of[d] \in failed' \/ saved'[of[d]] \in Cookie \/ \E e \in todo' : of[e] = of[d]
        BY <1>1, <1>6 DEF StoringInv, HasRow
    <2>1. of[d] \in User
        BY GainedOf
    <2>2. of[d] \in failed \/ saved[of[d]] \in Cookie \/ \E e \in todo : of[e] = of[d]
        BY <1>1 DEF StoringInv, HasRow
    <2>3. CASE of[d] = of[c]
        BY <1>2, <2>3
    <2>4. CASE of[d] # of[c]
        BY <1>1, <1>2, <1>4, <2>1, <2>2, <2>4
    <2> QED BY <2>3, <2>4
<1>9. LoginInv'
    <2>1. saved[Login] # "absent" => saved'[Login] # "absent"
        BY <1>4, ImportsAssumption
    <2> QED BY <1>1, <2>1 DEF LoginInv, session
<1> QED BY <1>1, <1>5, <1>6, <1>7, <1>8, <1>9 DEF DoneInv

LEMMA StoreAllStep ==
    ASSUME ImportsInv, StoreAll
    PROVE  ImportsInv'
<1> USE DEF ImportsInv, ImportsTyped
<1>1. /\ UNCHANGED <<of, replace, flow, job, seen, failed, local, redis, session, mishaps>>
      /\ job = "storing" /\ replace /\ todo # {} /\ todo' = {}
    BY DEF StoreAll
<1>2. ASSUME NEW u \in User
      PROVE  LET mine == {c \in todo : of[c] = u}
             IN  /\ mine = {} => saved'[u] = "absent"
                 /\ mine # {} => saved'[u] \in mine
    BY DEF StoreAll
<1>3. saved' \in [User -> Cookie \cup {"absent", "bare"}]
    <2>1. todo \subseteq Cookie /\ saved' = [u \in User |-> saved'[u]]
        BY DEF StoreAll, ImportsTypeOK
    <2>2. \A u \in User : saved'[u] \in Cookie \cup {"absent", "bare"}
        BY <1>2, <2>1
    <2> QED BY <2>1, <2>2
<1> HIDE DEF Record
<1>4. ImportsTypeOK'
    BY <1>1, <1>3 DEF ImportsTypeOK, flow, session
<1>5. CollectedInv' /\ Gained' = Gained
    BY <1>1, SameCollected DEF flow
<1>6. SavedOwn'
    BY <1>1, <1>2, ImportsAssumption DEF SavedOwn, HasRow
<1>7. StoringInv'
    <2> SUFFICES ASSUME NEW d \in Gained PROVE saved'[of[d]] \in Cookie
        BY <1>1, <1>5 DEF StoringInv, HasRow
    <2>1. of[d] \in User /\ todo \subseteq Cookie
        BY GainedOf DEF ImportsTypeOK
    <2>2. \E e \in todo : of[e] = of[d]
        BY <1>1 DEF StoringInv
    <2> QED BY <1>2, <2>1, <2>2
<1> QED BY <1>1, <1>4, <1>5, <1>6, <1>7 DEF DoneInv, LoginInv, session

\* The job ends without having stored what it was to store, or dies.
LEMMA BrokenOff ==
    ASSUME ImportsInv, UNCHANGED <<of, replace, saved, flow, seen, failed>>,
           job' \in {"idle", "error", "gone"} \/ (job' = job /\ job = "done" /\ local'.ok = {}),
           todo' = {}, local' \in Record, redis' \in Record, mishaps' \in 0 .. MaxFaults,
           \/ UNCHANGED session
           \/ poller' = "none" /\ here' = "none" /\ UNCHANGED <<mirror, grant>>
    PROVE  ImportsInv'
<1> USE DEF ImportsInv, ImportsTyped
<1> HIDE DEF Record
<1>1. ImportsTypeOK'
    BY DEF ImportsTypeOK, flow, session, Session
<1>2. CollectedInv'
    BY SameCollected DEF flow
<1>3. LoginInv'
    BY DEF LoginInv, session
<1> QED BY <1>1, <1>2, <1>3 DEF SavedOwn, HasRow, StoringInv, DoneInv

LEMMA BreakSteps ==
    ASSUME ImportsInv, StoreBreaks \/ SidecarDies
    PROVE  ImportsInv'
<1> ImportsTypeOK
    BY DEF ImportsInv, ImportsTyped
<1>1. CASE StoreBreaks
    <2>1. mishaps' \in 0 .. MaxFaults
        BY <1>1, FaultyType DEF StoreBreaks, ImportsTypeOK
    <2>2. local' \in Record /\ redis' \in Record
        BY <1>1 DEF StoreBreaks, ImportsTypeOK, Record
    <2> QED BY <1>1, <2>1, <2>2, BrokenOff DEF StoreBreaks
<1>2. CASE SidecarDies
    <2>1. mishaps' \in 0 .. MaxFaults
        BY <1>2, FaultyType DEF SidecarDies, ImportsTypeOK
    <2>2. local' \in Record /\ redis' \in Record /\ local'.ok = {}
        BY <1>2 DEF SidecarDies, ImportsTypeOK, Record, NewJob
    <2>3. job' \in {"idle", "error", "gone"} \/ (job' = job /\ job = "done" /\ local'.ok = {})
        BY <1>2, <2>2 DEF SidecarDies, ImportsTypeOK
    <2> QED BY <1>2, <2>1, <2>2, <2>3, BrokenOff DEF SidecarDies
<1> QED BY <1>1, <1>2

LEMMA FinishStep ==
    ASSUME ImportsInv, NEW lost \in BOOLEAN, Finish(lost)
    PROVE  ImportsInv'
<1> USE DEF ImportsInv, ImportsTyped
<1> DEFINE ok == IF BulkOk THEN Gained ELSE {}
<1>1. /\ UNCHANGED <<of, replace, saved, flow, seen, todo, failed, session>>
      /\ job' = "done" /\ todo = {}
      /\ \/ job = "converting" /\ Normalized = {}
         \/ job = "storing"
      /\ Put([status |-> "done", ok |-> ok, bad |-> Cookie \ ok], lost)
    <2>1. job = "converting" => todo = {}
        BY DEF ImportsTypeOK
    <2> QED BY <2>1 DEF Finish, Gained
<1>2. ok \subseteq Cookie
    BY DEF Gained, SeenAs, ImportsTypeOK
<1>3. [status |-> "done", ok |-> ok, bad |-> Cookie \ ok] \in Record
    BY <1>2 DEF Record
<1>4. /\ local' = [status |-> "done", ok |-> ok, bad |-> Cookie \ ok]
      /\ local' \in Record /\ redis' \in Record /\ mishaps' \in 0 .. MaxFaults
    BY <1>1, <1>3, PutType
<1> HIDE DEF Record
<1>5. ImportsTypeOK'
    BY <1>1, <1>4 DEF ImportsTypeOK, flow, session
<1>6. CollectedInv' /\ Gained' = Gained
    BY <1>1, SameCollected DEF flow
<1>7. DoneInv'
    <2> SUFFICES ASSUME ok # {}
                 PROVE  /\ \A c \in ok : of[c] \in failed \/ HasRow(of[c])
                        /\ \E c \in ok : of[c] \notin failed
        BY <1>1, <1>4 DEF DoneInv, HasRow
    <2>1. ok = Gained /\ ~Unstored
        BY DEF BulkOk
    <2>2. \E c \in Gained : of[c] \notin failed
        BY <2>1 DEF Unstored, Keyed, Gained
    <2>3. job = "storing"
        BY <1>1, <2>2 DEF CollectedInv
    <2> QED BY <1>1, <2>1, <2>2, <2>3 DEF StoringInv
<1> QED BY <1>1, <1>5, <1>6, <1>7 DEF SavedOwn, HasRow, StoringInv, LoginInv, flow, session

LEMMA JobStep ==
    ASSUME ImportsInv, StartJob \/ JobThread
    PROVE  ImportsInv'
BY StartSteps, CollectStep, StartStoringStep, StoreOneStep, StoreAllStep, BreakSteps, FinishStep
   DEF JobThread, Bulk

-----------------------------------------------------------------------------
(* The login *)

\* A step of the login stores a row where there was none, or none at all.
LEMMA LoginKeeps ==
    ASSUME ImportsInv, UNCHANGED <<of, replace, flow, work>>,
           saved' \in {saved, [saved EXCEPT ![Login] = "bare"]},
           saved' # saved => saved[Login] = "absent",
           {here', mirror'} \subseteq Session, poller' \in {"none", "poll", "save", "mark"},
           mishaps' \in 0 .. MaxFaults, LoginInv'
    PROVE  ImportsInv'
<1> USE DEF ImportsInv, ImportsTyped
<1> USE ImportsAssumption
<1>1. \A u \in User : saved'[u] = saved[u] \/ (u = Login /\ saved[u] \notin Cookie /\ saved'[u] \notin Cookie)
    BY DEF ImportsTypeOK
<1>2. \A u \in User : HasRow(u)' <=> HasRow(u)
    BY <1>1 DEF HasRow
<1> HIDE DEF Record
<1>3. ImportsTypeOK'
    BY DEF ImportsTypeOK, flow, work
<1>4. CollectedInv' /\ Gained' = Gained
    BY SameCollected DEF flow, work
<1>5. SavedOwn'
    BY <1>1 DEF SavedOwn, HasRow
<1>6. StoringInv'
    BY <1>2, <1>4, GainedOf DEF StoringInv, work
<1>7. DoneInv'
    <2>1. local.ok \subseteq Cookie /\ \A c \in local.ok : of[c] \in User
        BY DEF ImportsTypeOK, Record
    <2> QED BY <1>2, <2>1 DEF DoneInv, work
<1> QED BY <1>3, <1>4, <1>5, <1>6, <1>7 DEF work

LEMMA MarkKeeps ==
    ASSUME ImportsInv, NEW s \in Session, NEW lost \in BOOLEAN, Mark(s, lost),
           UNCHANGED <<of, replace, saved, flow, work>>, poller' \in {"none", "poll"},
           s = "success" => poller = "mark"
    PROVE  ImportsInv'
<1>1. {here', mirror'} \subseteq Session /\ mishaps' \in 0 .. MaxFaults
    BY FaultyType DEF Mark, ImportsInv, ImportsTyped, ImportsTypeOK
<1>2. LoginInv'
    BY DEF Mark, LoginInv, ImportsInv
<1> QED BY <1>1, <1>2, LoginKeeps

LEMMA SaveLoginStep ==
    ASSUME ImportsInv, NEW fails \in BOOLEAN, NEW lost \in BOOLEAN, SaveLogin(fails, lost)
    PROVE  ImportsInv'
<1> USE DEF ImportsInv, ImportsTyped
<1>1. UNCHANGED <<of, replace, flow, work>>
    BY DEF SaveLogin
<1>2. CASE fails
    <2>1. /\ here' = "error" /\ mirror' \in {mirror, "error"} /\ poller' = "none" /\ saved' = saved
          /\ mishaps' \in {mishaps + 1, mishaps + 2} /\ mishaps' <= MaxFaults
        BY <1>2 DEF SaveLogin, Stops
    <2>2. mishaps' \in 0 .. MaxFaults
        BY <2>1, ImportsAssumption DEF ImportsTypeOK
    <2>3. LoginInv'
        BY <1>1, <2>1 DEF LoginInv
    <2>4. {here', mirror'} \subseteq Session
        BY <2>1 DEF ImportsTypeOK, Session, Finished
    <2> QED BY <1>1, <2>1, <2>2, <2>3, <2>4, LoginKeeps
<1>3. CASE ~fails
    <2>1. /\ poller' = "mark" /\ UNCHANGED <<here, mirror, mishaps>>
          /\ saved' = IF saved[Login] = "absent" THEN [saved EXCEPT ![Login] = "bare"] ELSE saved
        BY <1>3 DEF SaveLogin
    <2>2. saved'[Login] # "absent"
        BY <2>1, ImportsAssumption DEF ImportsTypeOK
    <2>3. LoginInv'
        BY <2>2 DEF LoginInv
    <2> QED BY <1>1, <2>1, <2>3, LoginKeeps DEF ImportsTypeOK
<1> QED BY <1>2, <1>3

LEMMA LoginStep ==
    ASSUME ImportsInv,
           \/ Poller \/ Decides \/ Look \/ DropSession \/ MirrorEnds
           \/ \E lost \in BOOLEAN : StartLogin(lost) \/ LocalExpiry(lost)
    PROVE  ImportsInv'
<1> USE DEF Session, Finished
<1> ImportsTypeOK /\ LoginInv
    BY DEF ImportsInv, ImportsTyped
<1>1. CASE PollAgain \/ Decides \/ Look \/ DropSession \/ MirrorEnds
    <2>1. /\ UNCHANGED <<of, replace, saved, flow, work, poller, mishaps>>
          /\ {here', mirror'} \subseteq {here, mirror, "none"}
        BY <1>1 DEF PollAgain, Decides, Look, DropSession, MirrorEnds
    <2>2. LoginInv'
        BY <2>1 DEF LoginInv
    <2> QED BY <2>1, <2>2, LoginKeeps DEF ImportsTypeOK
<1>2. ASSUME NEW lost \in BOOLEAN, StartLogin(lost) PROVE ImportsInv'
    BY <1>2, MarkKeeps DEF StartLogin
<1>3. ASSUME NEW lost \in BOOLEAN, LocalExpiry(lost) PROVE ImportsInv'
    BY <1>3, MarkKeeps DEF LocalExpiry, Stops
<1>4. ASSUME NEW lost \in BOOLEAN, Polled(lost) PROVE ImportsInv'
    <2>1. CASE grant = "approved"
        <3>1. /\ UNCHANGED <<of, replace, saved, flow, work, here, mirror, mishaps>>
              /\ poller = "poll" /\ poller' = "save"
            BY <1>4, <2>1 DEF Polled
        <3>2. LoginInv'
            BY <3>1 DEF LoginInv
        <3> QED BY <3>1, <3>2, LoginKeeps DEF ImportsTypeOK
    <2>2. CASE grant # "approved"
        <3>1. PICK s \in {"expired", "error"} : Mark(s, lost)
            BY <1>4, <2>2 DEF Polled
        <3>2. UNCHANGED <<of, replace, saved, flow, work>> /\ poller' = "none"
            BY <1>4, <2>2 DEF Polled, Stops
        <3> QED BY <3>1, <3>2, MarkKeeps
    <2> QED BY <2>1, <2>2
<1>5. ASSUME NEW lost \in BOOLEAN, MarkSuccess(lost) PROVE ImportsInv'
    BY <1>5, MarkKeeps DEF MarkSuccess, Stops
<1>6. ASSUME NEW fails \in BOOLEAN, NEW lost \in BOOLEAN, SaveLogin(fails, lost) PROVE ImportsInv'
    BY <1>6, SaveLoginStep
<1> QED BY <1>1, <1>2, <1>3, <1>4, <1>5, <1>6 DEF Poller

-----------------------------------------------------------------------------
(* All steps *)

LEMMA ImportsInitially == ImportsInit => ImportsInv
<1> SUFFICES ASSUME ImportsInit PROVE ImportsInv
    OBVIOUS
<1> USE DEF ImportsInit
<1> USE ImportsAssumption
<1>1. Range(seen) = {} /\ IsInjective(seen) /\ seen \in Seq(Cookie)
    BY DEF Range, IsInjective
<1>2. Cardinality({c \in Cookie : place[c] \notin {"queued", "converted", "failed"}}) <= Workers
    <2>1. {c \in Cookie : place[c] \notin {"queued", "converted", "failed"}} = {}
        OBVIOUS
    <2>2. Cardinality({c \in Cookie : place[c] \notin {"queued", "converted", "failed"}}) = 0
        BY <2>1, FS_EmptySet
    <2> QED BY <2>2
<1>3. NewJob \in Record
    BY DEF NewJob, Record
<1> HIDE DEF Record
<1>4. ImportsTypeOK
    BY <1>1, <1>2, <1>3 DEF ImportsTypeOK, Session
<1>5. CollectedInv
    BY <1>1 DEF CollectedInv, Gained, SeenAs
<1> QED BY <1>1, <1>4, <1>5
        DEF ImportsInv, ImportsTyped, SavedOwn, HasRow, StoringInv, DoneInv, LoginInv

LEMMA ImportsStep ==
    ASSUME ImportsInv, [ImportsNext]_importsVars
    PROVE  ImportsInv'
<1>1. CASE GapEnds
    <2>1. UNCHANGED <<of, replace, saved, place, asked, tried, work, session, mishaps>>
        BY <1>1 DEF GapEnds
    <2>2. CollectedInv' /\ Gained' = Gained
        BY <2>1, SameCollected DEF work, ImportsInv
    <2> QED BY <2>1, <2>2 DEF ImportsInv, ImportsTyped, ImportsTypeOK, SavedOwn, HasRow, StoringInv,
                              DoneInv, LoginInv, work, session
<1>2. CASE UNCHANGED importsVars
    <2>1. UNCHANGED <<of, replace, saved, flow, work, session, mishaps>>
        BY <1>2 DEF importsVars
    <2>2. CollectedInv' /\ Gained' = Gained
        BY <2>1, SameCollected DEF flow, work, ImportsInv
    <2> QED BY <2>1, <2>2 DEF ImportsInv, ImportsTyped, ImportsTypeOK, SavedOwn, HasRow, StoringInv,
                              DoneInv, LoginInv, flow, work, session
<1> QED BY <1>1, <1>2, ThreadStep, JobStep, LoginStep, BreakSteps DEF ImportsNext

\* A job runs no more threads than its pool has, collects a cookie once, and has nothing
\* to store but while it stores (sso_import.py:472).
THEOREM ImportsTypeCorrect == ImportsSpec => []ImportsTypeOK
<1>1. ImportsInv => ImportsTypeOK
    BY DEF ImportsInv, ImportsTyped
<1> QED BY <1>1, ImportsInitially, ImportsStep, PTL DEF ImportsSpec

\* What a finished import reports as stored has its row, unless the row of some account
\* could not be stored, and then some account has: for any list of cookies, whichever users
\* they share, in whatever order they end, beside a login (accounts.py:1205).
THEOREM ReportsStored == ImportsSpec => []OkStored
<1>1. ASSUME ImportsInv PROVE OkStored
    <2> USE <1>1 DEF ImportsInv, ImportsTyped
    <2> SUFFICES ASSUME job = "done", local.ok # {}
                 PROVE  LET stored == {c \in local.ok : /\ saved[of[c]] \in Cookie
                                                        /\ of[saved[of[c]]] = of[c]}
                        IN  stored # {} /\ (failed = {} => stored = local.ok)
        BY DEF OkStored
    <2>1. \A c \in local.ok : of[c] \in User
        BY DEF ImportsTypeOK, Record
    <2>2. \A c \in local.ok : of[c] \notin failed => /\ saved[of[c]] \in Cookie
                                                     /\ of[saved[of[c]]] = of[c]
        BY <2>1 DEF DoneInv, SavedOwn, HasRow
    <2>3. \E c \in local.ok : of[c] \notin failed
        BY DEF DoneInv
    <2> QED BY <2>2, <2>3
<1> QED BY <1>1, ImportsInitially, ImportsStep, PTL DEF ImportsSpec

\* A login that anyone sees to have succeeded has its row, whoever reads which copy of its
\* session and however many writes of one were lost (oidc_auth.py:1022).
THEOREM LoginsStored == ImportsSpec => []SuccessStored
<1>1. ImportsInv => SuccessStored
    BY DEF ImportsInv, LoginInv, SuccessStored
<1> QED BY <1>1, ImportsInitially, ImportsStep, PTL DEF ImportsSpec

=============================================================================
