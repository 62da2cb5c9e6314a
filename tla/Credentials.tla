---------------------------- MODULE Credentials ----------------------------
(***************************************************************************)
(* The accounts table of the Python service and everyone who writes it:    *)
(* the token maintainer with its batch of renewals, requests that renew    *)
(* the account they are about to use, imports, the SSO backfill and the    *)
(* deletions, most of which read the whole map, and write the whole map    *)
(* back later.                                                             *)
(*                                                                         *)
(* Source: src/grok2api/upstream/oidc_auth.py, pool/{accounts,auth,        *)
(* auth_store,token_maintainer}.py, store/accounts_pg.py,                  *)
(* admin/sso_import.py.                                                    *)
(*                                                                         *)
(* A write reads the rows first, to keep what is in them for good, and     *)
(* overwrites them in the same transaction; only the batch of the          *)
(* maintainer locks them.  So it is two steps here, and what others have   *)
(* committed in between is overwritten.                                    *)
(*                                                                         *)
(* A refresh token is good for one renewal: the provider then issues       *)
(* another, and every copy of the spent one is dead.  Accounts are keyed   *)
(* by their user.  The actors are taken to be of different processes, so   *)
(* the lock per account, which is one of a process, stops none of them.    *)
(* What the same handlers do to the pool_status is in Rotation.            *)
(***************************************************************************)
EXTENDS Integers, FiniteSets

CONSTANTS
    Account,
    Caller,     \* requests, administrators and imports at a time
    None, Same, \* no entry; a row that a write leaves alone
    Batch,      \* max_accounts of a cycle
    Imported,   \* the entries an import or a login may store
    MaxEvents   \* bound: crashes, failed writes, imports, backfills, revocations,
                \* deletions asked for

\* old: the access token is over, or within the skew of its end
Entry == [rt : {"none", "live", "dead"}, sso : BOOLEAN, old : BOOLEAN]
Map == [Account -> Entry \cup {None}]
Writes == [Account -> Entry \cup {None, Same}]
Empty == [a \in Account |-> None]
NoOne == "nobody"

ASSUME CredentialsAssumption ==
    /\ None \notin Entry /\ Same \notin Entry \cup {None} /\ Imported \subseteq Entry /\ Imported # {}
    /\ Batch \in Nat \ {0} /\ MaxEvents \in Nat
    /\ IsFiniteSet(Account) /\ NoOne \notin Account \cup Caller /\ Account \cap Caller = {}

VARIABLES
    acct,    \* table accounts
    covered, \* accounts tried in this generation of the sweep
    pc,      \* where refresh_all_accounts is
    snap,    \* the entries of the batch as they were read
    at,      \* where the renewal of each account of the batch is
    ups,     \* entries the batch is going to write
    held,    \* rows the batch has locked
    view,    \* the map each deletion of the batch, and each caller, will write
    stale,   \* history: rows another has written since a writer read them
    doing,   \* what each caller does
    on,      \* to which account
    hand,    \* the entry each caller has
    missed,  \* batches in a row that left out an account that needed one
    faults,  \* crashes and failed writes so far
    acts     \* the other bounded events so far

runner == <<covered, pc, snap, at, ups, held, missed>>
caller == <<doing, on, hand>>
credentialsVars == <<acct, runner, view, stale, caller, faults, acts>>

Writer == Account \cup Caller
Writing(w) == IF w \in Account THEN at[w] = "writing" ELSE doing[w] = "write"

\* Between cycles nothing of a batch is left, and a batch is no larger than it may be.
CredentialsTypeOK ==
    /\ acct \in Map /\ snap \in Map /\ ups \in Map
    /\ covered \subseteq Account
    /\ pc \in {"idle", "renew", "write"} /\ held \subseteq Account
    /\ at \in [Account -> {"off", "due", "sso", "delete", "deleting", "writing"}]
    /\ pc # "renew" => \A a \in Account : at[a] = "off"
    /\ pc = "idle" => ups = Empty /\ held = {}
    /\ Cardinality({a \in Account : at[a] # "off"}) <= Batch
    /\ view \in [Writer -> Writes] /\ stale \in [Writer -> SUBSET Account]
    /\ doing \in [Caller -> {"idle", "renew", "again", "condemn", "store", "rewrite", "write"}]
    /\ on \in [Caller -> Account \cup {NoOne}] /\ hand \in [Caller -> Entry \cup {None}]
    /\ missed \in [Account -> Nat] /\ faults + acts \in 0 .. MaxEvents

CredentialsInit ==
    /\ acct \in [Account -> Imported] /\ covered = {} /\ pc = "idle" /\ snap = Empty
    /\ at = [a \in Account |-> "off"] /\ ups = Empty /\ held = {}
    /\ view = [w \in Writer |-> Empty] /\ stale = [w \in Writer |-> {}]
    /\ doing = [c \in Caller |-> "idle"] /\ on = [c \in Caller |-> NoOne]
    /\ hand = [c \in Caller |-> None]
    /\ missed = [a \in Account |-> 0] /\ faults = 0 /\ acts = 0

-----------------------------------------------------------------------------
(* The store *)

\* merge_durable_account_fields: what the account keeps for good survives an
\* entry without it.
Durable(old, new) == [new EXCEPT !.sso = @ \/ old.sso]

\* Mutant of Stored: the entry replaces the row as it is given.
StoredAsGiven(old, new) == new

\* _upsert_one: what is written over the row as it is read.
Stored(old, new) == IF old = None THEN new ELSE Durable(old, new)

\* upsert_account_merged
Upserted(a, e) == [x \in Account |-> IF x = a THEN Stored(acct[a], e) ELSE Same]

\* write_auth_map: every entry of the map, and the rows there are beside go.
Replaced(m) ==
    [a \in Account |-> IF m[a] # None THEN Stored(acct[a], m[a])
                      ELSE IF acct[a] # None THEN None ELSE Same]

Written(w) == {a \in Account : view[w][a] # Same}

\* Who stands between reading and writing one of these rows has not read them as they are.
Outdated(rows, but) ==
    [w \in Writer |-> IF w = but THEN {}
                     ELSE IF Writing(w) THEN stale[w] \cup (rows \cap Written(w)) ELSE stale[w]]

\* The rows are overwritten and the transaction ends.  It has waited for the locks of the
\* batch.
Commits(w) ==
    /\ Writing(w) /\ Written(w) \cap held = {}
    /\ acct' = [a \in Account |-> IF view[w][a] = Same THEN acct[a] ELSE view[w][a]]
    /\ view' = [view EXCEPT ![w] = Empty] /\ stale' = Outdated(Written(w), w)

Without(m, gone) == [a \in Account |-> IF a \in gone THEN None ELSE m[a]]

-----------------------------------------------------------------------------
(* The provider *)

\* entry_from_token_response: an entry without the cookie and the password.
Renewed == [rt |-> "live", sso |-> FALSE, old |-> FALSE]

\* merge_durable_account_fields after a login of its own
Relogged(e) == Durable(e, Renewed)

\* A renewal fails for good when the provider knows the token as spent, and for
\* now when the call or its answer is lost: the token may be spent all the same.
Fails(e, permanent, back) ==
    (permanent <=> e.rt = "dead") /\ (back => e.rt = "live")

Spent(e) == IF e \notin {None, Same} /\ e.rt = "live" THEN [e EXCEPT !.rt = "dead"] ELSE e
SpentIn(m, a) == [m EXCEPT ![a] = Spent(@)]

\* The provider takes the refresh token of an account back, or keeps it: every
\* copy there is.
Takes(a, back) ==
    IF back
    THEN /\ acct' = SpentIn(acct, a) /\ snap' = SpentIn(snap, a)
         /\ view' = [w \in Writer |-> SpentIn(view[w], a)]
    ELSE UNCHANGED <<acct, snap, view>>

InHand(a, back, h) == [c \in Caller |-> IF back /\ on[c] = a THEN Spent(h[c]) ELSE h[c]]
InBatch(a, back) == IF back THEN SpentIn(ups, a) ELSE ups

-----------------------------------------------------------------------------
(* The batch of the maintainer: refresh_all_accounts *)

Keeps == UNCHANGED <<view, caller, faults, acts>>

Candidates(force) ==
    {a \in Account : acct[a] # None /\ (acct[a].old \/ (force /\ acct[a].rt # "none"))}

\* A generation ends when all have been tried: _refresh_sweep_start_new.
Sweep(cands) == IF cands \subseteq covered THEN {} ELSE covered

\* The next n of those not yet tried in this generation.  They are taken by the
\* age of their tokens: any may be next.
Portions(cands, n) ==
    LET left == cands \ Sweep(cands)
    IN  {s \in SUBSET left : Cardinality(s) = n \/ (Cardinality(s) < n /\ s = left)}

\* Mutant of Picks: one more than the batch.
PicksOneMore(cands) ==
    IF Cardinality(cands) <= Batch + 1 THEN {cands} ELSE Portions(cands, Batch + 1)

Picks(cands) == IF Cardinality(cands) <= Batch THEN {cands} ELSE Portions(cands, Batch)

Select ==
    /\ pc = "idle" /\ pc' = "renew"
    /\ \E force \in BOOLEAN : LET cands == Candidates(force) IN
          /\ covered' = IF Cardinality(cands) > Batch THEN Sweep(cands) ELSE covered
          /\ \E s \in Picks(cands) :
                /\ at' = [a \in Account |-> IF a \in s THEN "due" ELSE "off"]
                /\ snap' = Without(acct, Account \ s)
                /\ missed' = [a \in Account |-> IF a \in cands \ s THEN missed[a] + 1 ELSE 0]
    /\ UNCHANGED <<acct, ups, held, stale>> /\ Keeps

-----------------------------------------------------------------------------
(* The renewal of one account of the batch: _refresh_one *)

Stage(a, from, to) ==
    /\ pc = "renew" /\ at[a] = from /\ at' = [at EXCEPT ![a] = to]
    /\ UNCHANGED <<covered, pc, held, doing, on, missed, faults, acts>>

\* The new entry waits for the batch write; the store still has the spent token.
Renew(a) ==
    /\ Stage(a, "due", "off") /\ snap[a].rt = "live"
    /\ Takes(a, TRUE) /\ hand' = InHand(a, TRUE, hand)
    /\ ups' = [ups EXCEPT ![a] = Renewed] /\ UNCHANGED stale

\* _handle_refresh_failure: a first failure that may pass waits for the next
\* cycle, and so does an account whose last login failed within the hour.  Both
\* are in the pool row, which others write as well: it may say either.  Where
\* the row cannot be written the cookie is not looked for.
After(a, permanent) ==
    {"delete"} \cup (IF permanent THEN {} ELSE {"off"})
    \cup (IF snap[a].sso THEN {"sso", "off"} ELSE {})

RenewalFails(a) ==
    /\ at[a] = "due"
    /\ \E permanent \in BOOLEAN, back \in BOOLEAN :
          /\ Fails(snap[a], permanent, back)
          /\ \E to \in After(a, permanent) : Stage(a, "due", to)
          /\ Takes(a, back) /\ hand' = InHand(a, back, hand) /\ ups' = InBatch(a, back)
    /\ UNCHANGED stale

\* _try_sso_reauth: a login of its own
Reauth(a) ==
    /\ Stage(a, "sso", "off")
    /\ ups' = [ups EXCEPT ![a] = Relogged(snap[a])] \/ UNCHANGED ups
    /\ UNCHANGED <<acct, snap, view, stale, hand>>

\* remove_account, of an account that may be gone by now
ReadToDelete(a) ==
    /\ IF acct[a] = None THEN Stage(a, "delete", "off") /\ UNCHANGED view
       ELSE /\ Stage(a, "delete", "deleting")
            /\ view' = [view EXCEPT ![a] = Without(acct, {a})]
    /\ UNCHANGED <<acct, snap, ups, stale, hand>>

Delete(a) ==
    /\ Stage(a, "deleting", "writing") /\ view' = [view EXCEPT ![a] = Replaced(@)]
    /\ UNCHANGED <<acct, snap, ups, stale, hand>>

Deleted(a) ==
    /\ Stage(a, "writing", "off") /\ Commits(a)
    /\ UNCHANGED <<snap, ups, hand>>

BatchDone == pc = "renew" /\ \A a \in Account : at[a] = "off"

\* Mutant of Tried: only who was renewed has had its turn.
RenewedOnes == {a \in Account : ups[a] # None}

\* _refresh_sweep_mark: whoever was in the batch, renewed or not
Tried == {a \in Account : snap[a] # None}

\* mutate_auth_map: SELECT ... FOR UPDATE
LockRows ==
    /\ BatchDone /\ ups # Empty /\ pc' = "write"
    /\ held' = {a \in Account : acct[a] # None}
    /\ UNCHANGED <<acct, covered, snap, at, ups, missed, stale>> /\ Keeps

BatchEnds == pc' = "idle" /\ snap' = Empty /\ ups' = Empty /\ held' = {} /\ UNCHANGED <<at, missed>>

\* One transaction for all renewals.  It brings back who was deleted meanwhile.  A row
\* that has come since the rows were locked is deleted as none of the map, or overwritten
\* unread, unless it is there in time or comes later.
WriteBatch ==
    LET new == {a \in Account : acct[a] # None /\ a \notin held}
        renewed == {a \in Account : ups[a] # None}
    IN  /\ pc = "write" /\ BatchEnds
        /\ \E late \in SUBSET new :
              /\ acct' = [a \in Account |->
                            IF a \in renewed
                            THEN IF a \in late THEN ups[a] ELSE Stored(acct[a], ups[a])
                            ELSE IF a \in new \ late THEN None ELSE acct[a]]
              /\ stale' = Outdated(held \cup renewed \cup (new \ late), NoOne)
        /\ covered' = covered \cup Tried /\ Keeps

NothingToWrite ==
    /\ BatchDone /\ ups = Empty /\ BatchEnds
    /\ covered' = covered \cup Tried /\ UNCHANGED <<acct, stale>> /\ Keeps

\* The new tokens are lost, and no one counts as tried.
WriteFails ==
    /\ pc = "write" /\ faults + acts < MaxEvents /\ faults' = faults + 1
    /\ BatchEnds /\ UNCHANGED <<acct, covered, view, stale, caller, acts>>

Maintains ==
    \/ Select \/ LockRows \/ WriteBatch \/ NothingToWrite
    \/ \E a \in Account : \/ Renew(a) \/ RenewalFails(a) \/ Reauth(a)
                          \/ ReadToDelete(a) \/ Delete(a) \/ Deleted(a)

\* Without Redis the sweep goes with the process.
Crash ==
    /\ pc # "idle" /\ faults + acts < MaxEvents /\ faults' = faults + 1
    /\ pc' = "idle" /\ snap' = Empty /\ ups' = Empty /\ held' = {}
    /\ at' = [a \in Account |-> "off"]
    /\ view' = [w \in Writer |-> IF w \in Account THEN Empty ELSE view[w]]
    /\ stale' = [w \in Writer |-> IF w \in Account THEN {} ELSE stale[w]]
    /\ covered' \in {covered, {}}
    /\ UNCHANGED <<acct, caller, missed, acts>>

-----------------------------------------------------------------------------
(* Requests, administrators, imports *)

\* The bounded ones.
Acts == faults + acts < MaxEvents /\ acts' = acts + 1

Goes(c, to, a) == doing' = [doing EXCEPT ![c] = to] /\ on' = [on EXCEPT ![c] = a]
Ends(c) == Goes(c, "idle", NoOne)

\* The map is read now, and its changed copy written back later.
Rewrites(c, m) ==
    /\ Goes(c, "rewrite", NoOne) /\ view' = [view EXCEPT ![c] = m]
    /\ UNCHANGED <<acct, runner, stale, hand, faults>>

\* normalize_auth_file_keys, at the start of every cycle and after an import: where one
\* was stored under another key than its user's.
Normalise(c) == doing[c] = "idle" /\ Rewrites(c, acct) /\ Acts

\* purge_refresh_invalid_accounts, in every cycle before the batch
Hopeless == {a \in Account : acct[a] # None /\ acct[a].rt = "none" /\ acct[a].old}

Purge(c) ==
    /\ doing[c] = "idle" /\ Hopeless # {}
    /\ Rewrites(c, Without(acct, Hopeless)) /\ UNCHANGED acts

AskToDelete(c, a) ==
    /\ doing[c] = "idle" /\ acct[a] # None
    /\ Rewrites(c, Without(acct, {a})) /\ Acts

\* The SSO cookies of the backup files, where the map it has read shows none.
Backfill(c, a) ==
    /\ doing[c] = "idle" /\ acct[a] # None /\ ~acct[a].sso
    /\ Rewrites(c, [acct EXCEPT ![a].sso = TRUE]) /\ Acts

\* load_credentials_by_id of an account whose access token is over
Use(c, a) ==
    /\ doing[c] = "idle" /\ acct[a] # None /\ acct[a].old
    /\ Goes(c, IF acct[a].rt = "none" THEN "condemn" ELSE "renew", a)
    /\ hand' = [hand EXCEPT ![c] = IF acct[a].rt = "none" THEN None ELSE acct[a]]
    /\ UNCHANGED <<acct, runner, view, stale, faults, acts>>

\* refresh_and_persist reads once more what may be in a cache of its process.
Latest(c) == {hand[c]} \cup ({acct[on[c]]} \ {None})

Renewing(c) == doing[c] \in {"renew", "again"}

UseRenews(c) ==
    LET a == on[c] IN
    /\ Renewing(c) /\ Goes(c, "store", a)
    /\ Takes(a, TRUE) /\ ups' = InBatch(a, TRUE)
    /\ \E e \in Latest(c) : e.rt = "live"
    /\ hand' = [InHand(a, TRUE, hand) EXCEPT ![c] = Renewed]
    /\ UNCHANGED <<covered, pc, at, held, stale, missed, faults, acts>>

\* A request leaves the account where it is, unless its token is just about to end: what
\* may pass is then tried again, and what fails for good there is deleted.
UseFails(c) ==
    LET a == on[c] IN
    /\ Renewing(c)
    /\ \E e \in Latest(c), permanent \in BOOLEAN, back \in BOOLEAN :
          /\ Fails(e, permanent, back)
          /\ Takes(a, back) /\ ups' = InBatch(a, back)
          /\ \/ /\ ~(permanent /\ doing[c] = "again") /\ Ends(c)
                /\ hand' = [InHand(a, back, hand) EXCEPT ![c] = None]
             \/ /\ ~permanent /\ doing[c] = "renew" /\ Goes(c, "again", a)
                /\ hand' = InHand(a, back, hand)
             \/ /\ permanent /\ doing[c] = "again" /\ Goes(c, "condemn", a)
                /\ hand' = [InHand(a, back, hand) EXCEPT ![c] = None]
    /\ UNCHANGED <<covered, pc, at, held, stale, missed, faults, acts>>

\* mark_refresh_invalid: remove_account
Condemn(c) ==
    doing[c] = "condemn" /\ Rewrites(c, Without(acct, {on[c]})) /\ UNCHANGED acts

Stores(c, m) ==
    /\ Goes(c, "write", NoOne) /\ view' = [view EXCEPT ![c] = m]
    /\ UNCHANGED <<acct, runner, stale, faults>>

UseStores(c) ==
    /\ doing[c] = "store" /\ Stores(c, Upserted(on[c], hand[c]))
    /\ hand' = [hand EXCEPT ![c] = None] /\ UNCHANGED acts

WriteView(c) ==
    /\ doing[c] = "rewrite" /\ Stores(c, Replaced(view[c])) /\ UNCHANGED <<hand, acts>>

\* merge_normalized_accounts, a login, a registration: one row
Import(c, a, e) ==
    /\ doing[c] = "idle" /\ Stores(c, Upserted(a, e)) /\ UNCHANGED hand /\ Acts

Commit(c) ==
    /\ Commits(c) /\ Ends(c)
    /\ UNCHANGED <<runner, hand, faults, acts>>

-----------------------------------------------------------------------------
(* Time and the provider *)

Ages(a) ==
    /\ acct[a] # None /\ acct' = [acct EXCEPT ![a].old = TRUE]
    /\ UNCHANGED <<runner, view, stale, caller, faults, acts>>

Revoked(a) ==
    /\ Takes(a, TRUE) /\ hand' = InHand(a, TRUE, hand) /\ ups' = InBatch(a, TRUE) /\ Acts
    /\ UNCHANGED <<covered, pc, at, held, stale, doing, on, missed, faults>>

CredentialsNext ==
    \/ Maintains \/ WriteFails \/ Crash
    \/ \E c \in Caller : \/ UseRenews(c) \/ UseFails(c) \/ Condemn(c) \/ UseStores(c)
                         \/ Normalise(c) \/ Purge(c) \/ WriteView(c) \/ Commit(c)
                         \/ \E a \in Account : \/ Use(c, a) \/ AskToDelete(c, a) \/ Backfill(c, a)
                                               \/ \E e \in Imported : Import(c, a, e)
    \/ \E a \in Account : Ages(a) \/ Revoked(a)

CredentialsSpec == CredentialsInit /\ [][CredentialsNext]_credentialsVars

-----------------------------------------------------------------------------
(* Properties *)

CookieStays(a) == acct[a] # None /\ acct'[a] # None /\ acct[a].sso => acct'[a].sso

\* Another has written the row since the one that writes it now has read it.
Crossed(a) ==
    \/ pc = "write" /\ a \notin held
    \/ \E w \in Writer : Writing(w) /\ a \in stale[w] /\ stale'[w] = {}

\* accounts.py:101: a renewal or an import does not lose the SSO cookie or the
\* password an account was registered with.  They are nowhere else, a renewed entry
\* comes without them, and a map that was read before they were saved is written back
\* after.  Only who reads the row before and writes it after another has written loses
\* them.
SSOKept == [][\A a \in Account : CookieStays(a) \/ Crossed(a)]_credentialsVars

\* oidc_auth.py:1226: accounts whose renewal fails for good do not starve the
\* others.  An account in need of a renewal is overtaken by each other account
\* at most once per generation of the sweep, the one that goes on and the next,
\* and once more for each batch that was lost: whoever fails, is deleted or
\* imported meanwhile.
BoundedOvertaking ==
    \A a \in Account : missed[a] <= (2 + faults) * (Cardinality(Account) - 1)

=============================================================================
