------------------------------ MODULE Rotation ------------------------------
(***************************************************************************)
(* The rotation status of accounts in the Python service: who writes a row *)
(* of account_pool, in which order, and what takes an account out of the   *)
(* cooldown pool.                                                          *)
(*                                                                         *)
(* Source: src/grok2api/pool/{account_pool,model_health,quota}.py,         *)
(* admin/settings_store.py, store/{settings_pg,pool_redis}.py, and the end *)
(* of a registration in upstream/grok_build_adapter.py.                    *)
(*                                                                         *)
(* A handler is the list of the database calls it makes; each call is a    *)
(* transaction of its own, and everyone's calls interleave.  A value read  *)
(* by one call and written back by a later one is in the worker's "seen".  *)
(* Counters that only rank candidates and all texts are left out, as is    *)
(* disabled_for_quota, which no reachable code sets any more.              *)
(***************************************************************************)
EXTENDS Integers, Sequences, FiniteSets

CONSTANTS
    Account, Model,
    Worker,     \* threads that serve a request, probe a model, remove or register an account
    NoRow,      \* what an account without a row has
    KickAt,     \* PROBE_FAIL_KICK_STREAK
    MaxJobs,    \* bound: requests, probes, removals and registrations
    MaxEvents   \* bound: renewals, expiries and acts of the administrator

None == "none"

VARIABLES
    row,    \* account_pool, a row or NoRow per account
    busy,   \* in-flight counters
    on,     \* each worker: the account it works on
    about,  \* each worker: the model of its request or probe
    todo,   \* each worker: the calls it has still to make
    seen,   \* each worker: the row it has read
    cache,  \* each worker: the pool state of its process, read in full
    holds,  \* each worker: its request counts as in flight
    jobs,   \* requests, probes, removals and registrations so far
    events, \* renewals and expiries so far
    acts    \* acts of the administrator so far

job == <<on, about, todo>>
vars == <<row, busy, on, about, todo, seen, cache, holds, jobs, events, acts>>

\* counted: cooldown_count or status_stack; held: cooldown_until, a year ahead;
\* failing: token_expired_at with a failed renewal; expired: pool_status says so.
Row == [enabled : BOOLEAN, counted : BOOLEAN, held : BOOLEAN, failing : BOOLEAN,
        expired : BOOLEAN, blocked : SUBSET Model, streak : 0 .. KickAt]

Fresh == [enabled |-> TRUE, counted |-> FALSE, held |-> FALSE, failing |-> FALSE,
          expired |-> FALSE, blocked |-> {}, streak |-> 0]

\* A read of an absent row gives the defaults.
Meta(r) == IF r = NoRow THEN Fresh ELSE r

\* No request takes a cooling account.
Cooling(r) == r.counted \/ r.held

Calls == {"answer", "verdict", "release", "read", "block", "free", "cool", "hold", "fail",
          "streak", "touch", "settle", "unblock", "heal", "clear", "note", "snapshot",
          "drop", "rewrite", "welcome", "reenable"}

ASSUME RotationAssumption ==
    /\ KickAt \in Nat \ {0} /\ MaxJobs \in Nat /\ MaxEvents \in Nat
    /\ NoRow \notin Row /\ None \notin Account /\ None \notin Model
    /\ IsFiniteSet(Worker)

TypeOK ==
    /\ row \in [Account -> Row \cup {NoRow}]
    /\ busy \in [Account -> 0 .. MaxJobs]
    /\ on \in [Worker -> Account \cup {None}] /\ about \in [Worker -> Model \cup {None}]
    /\ todo \in [Worker -> Seq(Calls)]
    /\ \A w \in Worker : todo[w] # <<>> => on[w] # None /\ about[w] # None
    /\ seen \in [Worker -> Row]
    /\ cache \in [Worker -> [Account -> Row \cup {NoRow}]]
    /\ holds \in [Worker -> BOOLEAN]
    /\ jobs \in 0 .. MaxJobs /\ events \in 0 .. MaxEvents /\ acts \in 0 .. MaxEvents

\* An account has no row yet, is as it was imported, or the administrator has
\* disabled it.
Init ==
    /\ row \in [Account -> {NoRow, Fresh, [Fresh EXCEPT !.enabled = FALSE]}]
    /\ busy = [a \in Account |-> 0]
    /\ on = [w \in Worker |-> None] /\ about = [w \in Worker |-> None]
    /\ todo = [w \in Worker |-> <<>>] /\ seen = [w \in Worker |-> Fresh]
    /\ cache = [w \in Worker |-> [a \in Account |-> NoRow]]
    /\ holds = [w \in Worker |-> FALSE]
    /\ jobs = 0 /\ events = 0 /\ acts = 0

-----------------------------------------------------------------------------
(* Writing a row: patch_pool_meta, save_account_pool_state *)

\* A patch that names pool_status replaces it, but a failed renewal shows through.
Tagged(r, expired) == [r EXCEPT !.expired = expired \/ r.failing]

\* Mutant of Preserved: a row of the snapshot replaces what is stored.
Overwritten(stored, old) == Tagged(old, old.expired)

\* A row of the snapshot replaces what is stored, its cooldown excepted.
Preserved(stored, old) ==
    Tagged([old EXCEPT !.counted = @ \/ Meta(stored).counted,
                       !.held = @ \/ Meta(stored).held],
           old.expired)

\* The whole table from a snapshot without one account.
Rewritten(old, a) ==
    [b \in Account |-> IF b = a \/ old[b] = NoRow THEN NoRow
                       ELSE Preserved(row[b], old[b])]

-----------------------------------------------------------------------------
(* The calls of each handler *)

\* apply_free_usage_cooldown
FreeUsage == <<"read", "block", "release", "free">>

\* kick_from_pool with a cooldown, and the statistics it touches
SoftKick == <<"cool", "hold">>

\* remove_account; the pool state comes from the cache of the process or is read
Removal(warm) == IF warm THEN <<"snapshot", "drop", "rewrite">>
                         ELSE <<"drop", "snapshot", "rewrite">>

\* handle_upstream_error_for_model
Upstream(class, warm) ==
    CASE class = "usage" -> FreeUsage
      [] class = "model" -> <<"read", "block">> \o SoftKick
      [] class = "account" -> SoftKick \o Removal(warm)
      [] OTHER -> <<>>

\* report_failure
LiveFailure(class, warm) ==
    <<"release">>
    \o (IF class = "quota" THEN Removal(warm) ELSE <<>>)
    \o Upstream(class, warm)
    \o (IF class = "usage" THEN FreeUsage ELSE <<"cool">>)
    \o <<"hold">>

\* report_success
LiveSuccess == <<"release", "read", "touch", "settle", "read", "unblock">>

\* _apply_fail_status of probe_model_for_creds, record_model_probe_outcome
ProbeFailure(class, warm) ==
    Upstream(class, warm)
    \o (IF class = "usage" THEN FreeUsage \o <<"streak">> ELSE <<"read", "fail">>)
    \o <<"note">>

\* _apply_success_status of probe_model_for_creds
ProbeSuccess == <<"read", "heal", "read", "unblock", "clear", "note">>

-----------------------------------------------------------------------------
(* Jobs *)

Begin(w, a, m, calls) ==
    /\ todo[w] = <<>> /\ jobs < MaxJobs /\ jobs' = jobs + 1
    /\ on' = [on EXCEPT ![w] = a] /\ about' = [about EXCEPT ![w] = m]
    /\ todo' = [todo EXCEPT ![w] = calls]

\* An account is tried; when it was chosen first it was counted as in flight.  A
\* choice from a stale state is a choice made earlier, and the tag "expired" keeps
\* an account out of one of the paths only.
Pick(w, a, m, counted) ==
    /\ ~Cooling(Meta(row[a]))
    /\ Begin(w, a, m, <<"answer">>)
    /\ busy' = IF counted THEN [busy EXCEPT ![a] = @ + 1] ELSE busy
    /\ holds' = [holds EXCEPT ![w] = counted]
    /\ UNCHANGED <<row, seen, cache, events, acts>>

Acquire(w, a, m) == Pick(w, a, m, TRUE)

\* The short way of try_acquire_sequence to the account of a conversation does
\* not count it.
PickSticky(w, a, m) ==
    LET r == Meta(row[a])
    IN  r.enabled /\ ~r.expired /\ m \notin r.blocked /\ Pick(w, a, m, FALSE)

\* The chain it builds otherwise: only the head is counted.
PickOfChain(w, a, m) == \E head \in BOOLEAN : Pick(w, a, m, head)

Serve(w, a, m) == Acquire(w, a, m) \/ PickSticky(w, a, m) \/ PickOfChain(w, a, m)

Probe(w, a, m) ==
    /\ row[a] # NoRow
    /\ Begin(w, a, m, <<"verdict">>)
    /\ UNCHANGED <<row, busy, seen, cache, holds, events, acts>>

\* An exhausted quota, a purge, two failed renewals, the administrator.
Remove(w, a) ==
    /\ \E warm \in BOOLEAN, m \in Model : Begin(w, a, m, Removal(warm))
    /\ row[a] # NoRow
    /\ UNCHANGED <<row, busy, seen, cache, holds, events, acts>>

\* _run_registration, for an account it has imported and probed, whatever the
\* probe said.
Welcome(w, a, m) ==
    /\ Begin(w, a, m, <<"welcome", "read", "reenable">>)
    /\ UNCHANGED <<row, busy, seen, cache, holds, events, acts>>

-----------------------------------------------------------------------------
(* One call of a handler *)

\* Who has made its last call is on nothing any more.
Left(w, rest) ==
    /\ todo' = [todo EXCEPT ![w] = rest]
    /\ IF rest = <<>> THEN /\ on' = [on EXCEPT ![w] = None]
                           /\ about' = [about EXCEPT ![w] = None]
       ELSE UNCHANGED <<on, about>>

Does(w, c) ==
    /\ todo[w] # <<>> /\ Head(todo[w]) = c
    /\ Left(w, Tail(todo[w]))

Keeps == UNCHANGED <<busy, seen, cache, holds, jobs, events, acts>>

\* What the upstream says, and with it the rest of the handler.
Answers(w, at, handlers) ==
    /\ todo[w] = <<at>>
    /\ \E h \in handlers : Left(w, h)
    /\ UNCHANGED row /\ Keeps

Classes == {"usage", "model", "account", "quota", "other"}

Answer(w) ==
    Answers(w, "answer", {LiveSuccess} \cup {LiveFailure(c, b) : c \in Classes, b \in BOOLEAN})

\* A failure with auto_disable off, as after a registration, is only noted.
Verdict(w) ==
    Answers(w, "verdict", {ProbeSuccess, <<"note">>} \cup
            {ProbeFailure(c, b) : c \in Classes \ {"quota"}, b \in BOOLEAN})

\* Mutant of Release: nothing is given back once the account is gone.
ReleaseUnlessGone(w) ==
    LET a == on[w]
    IN  /\ Does(w, "release")
        /\ busy' = [busy EXCEPT ![a] = IF @ = 0 \/ row[a] = NoRow THEN @ ELSE @ - 1]
        /\ holds' = [holds EXCEPT ![w] = FALSE]
        /\ UNCHANGED <<row, seen, cache, jobs, events, acts>>

\* Mutant of Release: the counter is not stopped at zero.
ReleaseBelowZero(w) ==
    LET a == on[w]
    IN  /\ Does(w, "release")
        /\ busy' = [busy EXCEPT ![a] = @ - 1]
        /\ holds' = [holds EXCEPT ![w] = FALSE]
        /\ UNCHANGED <<row, seen, cache, jobs, events, acts>>

\* release_account_pick: down to zero, whoever counted
Release(w) ==
    LET a == on[w]
    IN  /\ Does(w, "release")
        /\ busy' = [busy EXCEPT ![a] = IF @ = 0 THEN 0 ELSE @ - 1]
        /\ holds' = [holds EXCEPT ![w] = FALSE]
        /\ UNCHANGED <<row, seen, cache, jobs, events, acts>>

\* get_account_pool_meta
Read(w) ==
    /\ Does(w, "read")
    /\ seen' = [seen EXCEPT ![w] = Meta(row[on[w]])]
    /\ UNCHANGED <<row, busy, cache, holds, jobs, events, acts>>

\* patch_pool_meta: a patch of the locked row, which is inserted when it is gone.
Patches(w, c, r) ==
    /\ Does(w, c)
    /\ row' = [row EXCEPT ![on[w]] = r]
    /\ Keeps

Mine(w) == Meta(row[on[w]])

Cooled(r) == Tagged([r EXCEPT !.counted = TRUE, !.held = TRUE], FALSE)
Healed(r) == Tagged([r EXCEPT !.counted = FALSE, !.held = FALSE, !.streak = 0], FALSE)

\* block_model puts back the set of blocks it has read.
Block(w) == Patches(w, "block", [Mine(w) EXCEPT !.blocked = seen[w].blocked \cup {about[w]}])

\* The hard kick also puts a disabled account back among the enabled ones.
Free(w) == Patches(w, "free", [Cooled(Mine(w)) EXCEPT !.enabled = TRUE])

Cool(w) == Patches(w, "cool", Cooled(Mine(w)))

\* touch_account_stats after a failure writes cooldown_until once more.
Hold(w) == Patches(w, "hold", Tagged([Mine(w) EXCEPT !.held = TRUE], FALSE))

\* touch_account_stats after a success: the status comes from what was read.
Touch(w) ==
    LET s == seen[w]
    IN  Patches(w, "touch", Tagged(Mine(w), s.expired /\ s.enabled /\ ~Cooling(s)))

\* While the account was cooling when read, nothing else is written.
Settle(w) ==
    IF Cooling(seen[w])
    THEN /\ todo[w] # <<>> /\ Head(todo[w]) = "settle"
         /\ Left(w, <<>>) /\ UNCHANGED row /\ Keeps
    ELSE Patches(w, "settle", [Mine(w) EXCEPT !.streak = 0])

Unblock(w) ==
    IF about[w] \in seen[w].blocked
    THEN Patches(w, "unblock", [Mine(w) EXCEPT !.blocked = seen[w].blocked \ {about[w]}])
    ELSE Does(w, "unblock") /\ UNCHANGED row /\ Keeps

Streak(w) == IF seen[w].streak < KickAt THEN seen[w].streak + 1 ELSE KickAt

\* A failed probe that is no matter of usage cools from the second in a row on.
Fail(w) ==
    LET r == [Mine(w) EXCEPT !.streak = Streak(w)]
    IN  Patches(w, "fail", IF Streak(w) >= KickAt THEN Cooled(r) ELSE r)

CountFail(w) == Patches(w, "streak", [Mine(w) EXCEPT !.streak = Streak(w)])

\* The outcome of a successful probe, then the explicit clear.
Heal(w) ==
    LET m == about[w] IN
    Patches(w, "heal", [Healed(Mine(w)) EXCEPT
                            !.blocked = IF m \in seen[w].blocked THEN seen[w].blocked \ {m} ELSE @])

Clear(w) == Patches(w, "clear", Healed(Mine(w)))

\* The end of a registration: clear_account_cooldown, then a patch if the account
\* was disabled when read.  The patch resets cooldown_count and not status_stack,
\* which a cooldown since may have set or not.
Unheld(w) == Patches(w, "welcome", Healed(Mine(w)))

Reenable(w) ==
    IF seen[w].enabled THEN Does(w, "reenable") /\ UNCHANGED row /\ Keeps
    ELSE \E stacked \in BOOLEAN :
             Patches(w, "reenable",
                     Tagged([Mine(w) EXCEPT !.enabled = TRUE, !.held = FALSE,
                                            !.counted = @ /\ stacked], FALSE))

\* _save_last_probe: a patch without status, of a row that may be gone.
Note(w) == Patches(w, "note", Mine(w))

Snapshot(w) ==
    /\ Does(w, "snapshot")
    /\ cache' = [cache EXCEPT ![w] = row]
    /\ UNCHANGED <<row, busy, seen, holds, jobs, events, acts>>

Drop(w) ==
    /\ Does(w, "drop")
    /\ row' = [row EXCEPT ![on[w]] = NoRow]
    /\ Keeps

\* _cleanup_account_side_state: only when the state it has shows the account.
Rewrite(w) ==
    LET a == on[w]
    IN  /\ Does(w, "rewrite")
        /\ row' = IF cache[w][a] = NoRow THEN row ELSE Rewritten(cache[w], a)
        /\ cache' = [cache EXCEPT ![w] = [b \in Account |-> NoRow]]
        /\ UNCHANGED <<busy, seen, holds, jobs, events, acts>>

Work(w) ==
    \/ Answer(w) \/ Verdict(w) \/ Release(w) \/ Read(w) \/ Block(w) \/ Free(w) \/ Cool(w)
    \/ Hold(w) \/ Touch(w) \/ Settle(w) \/ Unblock(w) \/ Fail(w) \/ CountFail(w)
    \/ Heal(w) \/ Clear(w) \/ Unheld(w) \/ Reenable(w) \/ Note(w) \/ Snapshot(w) \/ Drop(w)
    \/ Rewrite(w)

-----------------------------------------------------------------------------
(* Renewals, the administrator, time *)

Happens(a, r) ==
    /\ events + acts < MaxEvents
    /\ row' = [row EXCEPT ![a] = r]
    /\ UNCHANGED <<busy, job, seen, cache, holds, jobs>>

Event(a, r) == Happens(a, r) /\ events' = events + 1 /\ UNCHANGED acts
Act(a, r) == Happens(a, r) /\ acts' = acts + 1 /\ UNCHANGED events

\* An access token runs out; a renewal fails; a renewal succeeds.
MarkExpired(a) == Event(a, [Meta(row[a]) EXCEPT !.expired = TRUE])
RenewalFails(a) == Event(a, [Meta(row[a]) EXCEPT !.expired = TRUE, !.failing = TRUE])

Renewed(a) == Event(a, [Meta(row[a]) EXCEPT !.expired = FALSE, !.failing = FALSE, !.enabled = TRUE])

\* Enabling clears the end of the cooldown and the blocks, not its count.
Enable(a) ==
    Act(a, Tagged([Meta(row[a]) EXCEPT !.enabled = TRUE, !.held = FALSE, !.blocked = {}], FALSE))
Disable(a) == Act(a, Tagged([Meta(row[a]) EXCEPT !.enabled = FALSE], FALSE))
ClearCooldown(a) == Act(a, Healed(Meta(row[a])))

\* reenable_for_quota
Reenabled(r) == Tagged([r EXCEPT !.enabled = TRUE], FALSE)

\* A healthy billing answer enables an account that shows no other source.
BillingHealthy(a) == ~Meta(row[a]).enabled /\ Event(a, Reenabled(Meta(row[a])))

\* Stored again: a row of defaults unless there is one.
Import(a) == row[a] = NoRow /\ Event(a, Fresh)

\* Blocks are temporary, and an in-flight counter lives ninety seconds.
BlockEnds(a, m) ==
    /\ row[a] # NoRow /\ m \in row[a].blocked
    /\ Event(a, [row[a] EXCEPT !.blocked = @ \ {m}])

CounterEnds(a) ==
    /\ busy[a] > 0 /\ busy' = [busy EXCEPT ![a] = 0]
    /\ UNCHANGED <<row, job, seen, cache, holds, jobs, events, acts>>

Next ==
    \/ \E w \in Worker : Work(w) \/ \E a \in Account : Remove(w, a)
    \/ \E w \in Worker, a \in Account, m \in Model : Serve(w, a, m) \/ Probe(w, a, m)
                                                      \/ Welcome(w, a, m)
    \/ \E a \in Account : \/ MarkExpired(a) \/ RenewalFails(a) \/ Renewed(a) \/ Enable(a)
                          \/ Disable(a) \/ ClearCooldown(a) \/ BillingHealthy(a) \/ Import(a)
                          \/ CounterEnds(a) \/ \E m \in Model : BlockEnds(a, m)

Spec == Init /\ [][Next]_vars

-----------------------------------------------------------------------------
(* Properties *)

Recovers(a) ==
    \/ \E w \in Worker : on[w] = a /\ (Heal(w) \/ Clear(w))
    \/ ClearCooldown(a) \/ Enable(a)

Registers(a) == \E w \in Worker : on[w] = a /\ (Unheld(w) \/ Reenable(w))

\* Its row goes: with the account, or with the removal of another account whose
\* snapshot of the table is older than the row.
Vanishes(a) ==
    \E w \in Worker :
        \/ on[w] = a /\ (Drop(w) \/ Rewrite(w))
        \/ cache[w][a] = NoRow /\ Rewrite(w)

EndsCooldown(a) == Recovers(a) \/ Registers(a) \/ Vanishes(a)

ComesBack(a) == Cooling(Meta(row[a])) /\ ~Cooling(Meta(row'[a]))

\* A cooldown ends with a successful probe, an act of the administrator, the end of
\* the account's registration or the loss of its row, and with nothing else that
\* writes the row: no success of a request, no renewal, no billing answer, and no
\* removal of another account that rewrites a row it had read before.
StaysCooling == [][\A a \in Account : ComesBack(a) => EndsCooldown(a)]_vars

\* An account never looks busier than it is: every request that counted itself
\* has given back its slot when it is over, so no account is avoided for ever.
NeverOvercounted ==
    \A a \in Account : busy[a] <= Cardinality({w \in Worker : on[w] = a /\ holds[w]})

=============================================================================
