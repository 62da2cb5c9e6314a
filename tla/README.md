# grokcli-2api: specifications, model checking and proofs

grokcli-2api serves OpenAI- and Anthropic-style requests from a pool of upstream accounts.
A gateway in Go (`src/cmd`, `src/internal`) answers requests; a sidecar in Python
(`src/scripts/registration_service.py` over `src/grok2api`) registers and imports accounts and
refills the pool; a captcha solver (`src/turnstile-solver`) keeps browsers for it.  Several
processes share a PostgreSQL database (accounts, pool rows, settings) and a Redis (leader key,
locks, sticky pins, in-flight counters, mirrors of jobs).  The hard part is not the
translation of payloads but the shared state: who renews tokens, which account a conversation
stays on, why an account is out of rotation, and what a registration leaves behind when it is
stopped, retried, or its process dies.  That is what is specified here, in TLA+, checked by TLC
on small instances and proved by TLAPS where induction over behaviours suffices.

## 1. Inventory

| Component | Source | State | Operations | What makes it hard |
|---|---|---|---|---|
| Leader election | `internal/store/redis/leader.go`, `client.go`, `locks.go` | one Redis key with a TTL; `isLeader`, a ticker per process | start, watch tick, renew, yield, contend, release | expiry against ticks, lost replies, non-atomic fallbacks, process death |
| Token maintainer | `internal/maintainer/service.go`, `upstream/oidc/refresh.go`, `store/postgres/accounts.go` | account rows, maintenance lock, a snapshot per run | cycle, selected renewal, import, delete | refresh tokens that work once; stale snapshots; dropped errors; cancelled contexts |
| Sticky pins | `internal/store/redis/affinity*.go`, `proxy/chat.go` | Redis key, local cache, pending write and flush goroutine per process | lookup, bind, clear, flush | local-first writes coalesced behind the reader's back |
| Account pool rows | `internal/store/postgres/pool.go`, `status.go`, `accounts.go` | `account_pool`: columns and the tag `pool_status` | some twenty `UPDATE`s from five subsystems | redundant state, unordered writers |
| Registration batches | `grok2api/upstream/grok_build_adapter.py`, first and last third | sessions, batches, Redis mirror, runner lock, permits, threads | start, stop, reclaim, resume, watchdog | threads that outlive their bookkeeping, restarts, two resumes at once |
| Registration of one account | same file, `_run_registration` | stage, captcha slot and token, mail code, session | captcha, code, `create_account`, cookie, import, probe | every call may fail, a stop at every checkpoint, lost answers |
| Solver's browser pool | `turnstile-solver/api_solver.py` | queue, owned browsers, lock, `_in_flight` | warm, take, return, reap, reclaim | interleaving at awaits, resets under running tasks |
| Rotation status (Python) | `grok2api/pool/account_pool.py`, `model_health.py`, `quota.py`, `store/settings_pg.py`, `pool_redis.py` | pool rows, in-flight counters | outcomes, probes, quota, administrator, deletion | handlers of up to ten transactions, whole-table writes |
| Credentials and batch refresh | `grok2api/upstream/oidc_auth.py`, `pool/accounts.py`, `auth_store.py`, `store/accounts_pg.py` | accounts, a batch's snapshot and its new entries, the sweep | batch, renewal by a request, purge, backfill, deletion | whole-map writes from old reads, tokens that work once |
| SSO import, device login | `grok2api/admin/sso_import.py`, `scripts/sso_to_auth_json.py`, `oidc_auth.py` | job record, threads, rate-limit gap, poller, mirror in Redis | start, convert, store, poll, purge | rate limits, lost mirrors, partial stores |
| Replenisher | `grok2api/pool/account_replenisher.py`, `scripts/registration_service.py` | loop thread, cooldown | loop, run by hand, start, stop | check then act without a lock, thread handover |
| Registration configuration | `internal/server/server.go`, `grok2api/admin/settings_store.py`, `upstream/grok_build_adapter.py` | row `registration_config` | save, start with the form, start by the replenisher | read-modify-write without a lock, two normalisers of one row, fallbacks to the environment |
| Candidate window, picker, chat failover, health sweep, quota, ownership, response map, translators, HTTP, console, migrations, mail and proxy clients | see `PROJECT.json` | - | - | not modelled, section 6 |

How they interact.  The leader flag decides whose maintainer and sweep run; both, the chat
path, the quota service and administrators write the same pool rows; the chat path reads
candidates from those rows, orders them by the sticky pin and reports each attempt back from a
goroutine of its own.  The replenisher counts the pool and starts a registration batch; a
batch's runner feeds worker threads; each worker takes a slot and a browser of the solver,
creates an account and stores it in the same table that maintainers renew and imports and
deletions rewrite.

In this commit only `registration_service.py` runs Python.  The parts of `grok2api` that the
gateway replaced (the health sweep, `token_maintainer`, `refresh_all_accounts`, the picker)
have no caller left in `src/` but each other; `Rotation` and `Credentials` model them as the
modules they are, with every caller that their code knows, because the sidecar shares their
functions and their tables.

What makes each of them correct: one confirmed leader at most, and one in the end; no rotated
refresh token forgotten and no live one condemned; a conversation's pin settles on the
account last bound; a pool row's tag and columns tell the same story and a cooldown ends only
where it may; a batch uses the key its administrator entered, starts no more registrations than were ordered and shows no success the
pool lacks; slots, permits and browsers come back; an account that xAI made is never just an
error; a stale map or a renewed entry drops no SSO cookie; jobs, logins, tasks and runners end.
`PROJECT.json` lists the hazards behind these at the line where each bites.

## 2. Modules

| Module | Models | Configuration | Proofs |
|---|---|---|---|
| `LeaderElection` | the key, every worker's ticks and shutdown, time | `MCLeaderElection` | `LeaderElectionProofs` |
| `TokenMaintainer` | cycles, selected renewals, maintenance lock, provider, imports | `MCTokenMaintainer` | `TokenMaintainerProofs` |
| `Affinity` | one fingerprint: pins, flush goroutines, turns | `MCAffinity` | `AffinityProofs` |
| `AccountPool` | one pool row and the Go code that writes it | `MCAccountPool` | `AccountsProofs` |
| `Registration` | one batch: runner, jobs, stops, resumes, watchdog, restart | `MCRegistration` | `RegistrationProofs` |
| `RegSession` | abstract: what a session promises | through `MCEnrolment` | - |
| `Enrolment` | the worker of one registration; implements `RegSession` | `MCEnrolment` | `EnrolmentProofs` |
| `TurnstilePool` | browsers, tasks, reaper, reclaim | `MCTurnstilePool` | `TurnstilePoolProofs` |
| `Rotation` | pool rows and in-flight counters of the Python service | `MCRotation` | `RotationReplenishProofs` |
| `Credentials` | accounts table, batch refresh, whole-map writers | `MCCredentials` | `AccountsProofs` |
| `Imports` | SSO import job, device login | `MCImports` | `AccountsProofs` |
| `Replenish` | loop of the replenisher | `MCReplenish` | `RotationReplenishProofs` |
| `MailKeys` | the mail providers' keys in both services | `MCReplenish`, `Tempmail` | `RotationReplenishProofs` |

Two proof modules are about several components each: `AccountsProofs` about the writers of the
accounts tables, `RotationReplenishProofs` about the rotation, the replenisher and its keys.  EXTENDS puts all
names into one namespace, so `Credentials`, `Imports`, `Replenish` and `MailKeys` name their `Init`, `Next`,
`Spec`, `TypeOK` and `vars` after themselves.  Nothing of one component depends on another there.

### LeaderElection
One action per Redis command, because another worker can act between any two.  `pc[w]` is
the command that the watch goroutine of `w` issues next; `rel[w]` is the same for the goroutine
that shuts the process down beside it.  Time is counted down: `ttl` (the key), `timer[w]` (the
ticker), `op[w]` (the two-second context of a tick).  `Elapse` cannot pass over a due tick: the
model is of punctual tickers, and `degraded[w]` marks the workers for which something else
than time went wrong since they last proved that they own the key.  A failed command may have
taken effect.  An identity is `pid@host`, so a restart in place finds its own former key.  The
effect of a command and its reply are one step: within a tick the context bounds the delay; at
start-up only the client's command timeout does, and that margin is not modelled.

### TokenMaintainer
`row[a]` keeps what a refresh can lose: which refresh token is stored, whether an SSO cookie
is, `refresh_invalid`, whether the access token is near expiry.  The provider is external:
`token[t]` is live until it is rotated or revoked.  `job[r][a]` walks one account through one
run, one action per call: ask, mark invalid, save status, delete, or: read for the merge,
write, drop the former id, save status.  It keeps the snapshot (`rt`, `sso`) the code keeps.
Errors of these calls are dropped by the code, so the action that fails goes on.  `Cycle`
runners take the maintenance lock, `Manual` ones do not.  `disturbed` records the users for
whom a write or reply was lost, or whose refresh overlapped a writer the lock does not
separate: two ids of one user in one selected renewal always do.

### Affinity
`local`, `pending`, `flushing` and `writer` are the maps of `affinity_cache.go` for one key in
each process; `redis` is the key.  A turn looks the pin up, tries accounts, clears a pin that
failed for good and binds the winner, in the order of `CompleteWithResult` (path `whole`) or of
the lost first-byte race of `OpenStreamWithResult` (path `stream`, which binds before it
clears).  A bind is two steps, a clear three, a flush three, each as atomic as the mutex or
Redis command behind it.  `pin` is history, the pin a process last queued or read; `missed` are
the processes that lost a write, or cleared a pin while a write of it was under way.

### AccountPool
Each SQL statement is an operator from rows to rows, with the `CASE` by which it recomputes
`pool_status`; each caller's use of it is an action.  Only `KickFromPool` carries a value from
one statement to the next.  A call of several statements has one disjunct for each: their
errors are dropped, so any of them may be the only one that takes effect.  `dismissed` records
that an administrator disabled the account for a reason other than its quota.  `former`: the
account is stored under a former id.  A renewal, `NormalizeAccountKeys` or a merging import then
stores it under its own id first, which inserts a fresh pool row, and deletes the other
(`Moves`); `moved` records by whom.  A token renewal is `Stays` otherwise.

### Registration
`sess[s]` is a session as the others react to it (status, `cancel_requested`), `job[s]` the
stage of its thread, `runner` the counters of `_run_batch`, `batch` and `rbatch` the record in
memory and its throttled copy in Redis, `claim` and `key` the two halves of the runner lock,
`call` a start or resume between its unlocked steps, with the batch as it read it first.  A stop is
four: mark the batch, look at each session without the lock, mark it under the lock, and mark the
batch again, which a resume may have reopened.  `Restart` keeps the pool and Redis,
where the throttle leaves a session behind by a status (`Lagging`).
`overlap` is history: a runner was spawned for a remaining count that was no longer true.

### Enrolment and RegSession
`Enrolment` follows the worker of one account through `_run_registration`: `at[w]` is the
stage, `use` what the captcha is for, `n` the alternative page, attempt or sign-in round.
Every checkpoint is `Checked`: a stop aborts, else the step is made; the places that swallow a
stop (refresh captcha, another code, pushes) do so here as well.  xAI is external: it may take
the account and its answer may be lost (`silent`).  `RegSession` promises that a session is
open until it ends once, that `imported` comes after the pool has the account and `cancelled`
after a stop was asked for, and that it ends.  `Session == INSTANCE RegSession WITH ...` maps
status, pool row and stop flag, and `MCEnrolment` checks `Session!Spec`, fairness included.
`Registration` abstracts the same worker to the statuses others see.

### TurnstilePool
The solver is one event loop, so a step is what happens between two awaits.  `keeper` holds
`_pool_lock` and is closing or launching; `queue` is `browser_pool`, `owned` is
`_owned_browsers`, `live` the processes, `inflight` the counter that a shutdown resets.
`lapsed` records that a reset hit a task in progress.

### Rotation
A handler is the sequence of database calls it makes (`todo[w]`), each a transaction; what one
reads and a later one writes back is `seen[w]`, and the whole table a deletion has read is
`cache[w]`.  `Welcome` is the end of a registration,
which clears the cooldown whatever the probe said.  Actions that do not go through a handler (renewals, administrator, import) are
single transactions.  `counted` and `held` are the two things that make an account cooling:
a count or stack, and an end a year ahead.

### Credentials
`acct` is the table; `snap`, `at`, `ups` the batch of `refresh_all_accounts`: what it read, where
each renewal is, what it will write in one transaction; `covered` is the memory of the sweep.
Every write is two steps, because `_upsert_one` reads the row without a lock: `view[w]` is first
a map that was read and will be written back whole (purge, normalisation, backfill, deletion),
then the rows as they will be overwritten, merged with what was read.  `stale[w]` are the rows
another has written since.  Only the batch locks rows (`held`), and only those there are.  A refresh token is live once: `Takes` makes every copy of it dead.

### Imports
`place[c]`, `asked`, `tried` and `spaced` take a cookie through the device flow and its rate limit;
`job`, `seen`, `todo`, `local` and `redis` are the thread that collects, stores and publishes.
`poller`, `here`, `mirror` and `grant` are the device login.  `failed` are the users whose row
could not be stored.

### Replenish
`pc[c]` is where a caller of `run_once` is, between its count, its look for running batches and
its start.  `StartChecks`, `StartAssigns` and `StartRuns` are the three steps of
`start_background`, which has no lock and is called from the lifespan and from a pool of threads:
`starting[s]` is how far a starter is, and `doubled` are the threads that starts which met have
left running.  `Stop` and `Joined` are the two halves of `stop_background`; `left` are the
threads that it let go.

### MailKeys
`settings` is the row `registration_config`: provider, active key and one slot per provider, where
a field may be absent.  `saving[s]` is a request to the gateway between its read of the row and its
write: `Save` is the form, `StartForm` a start, whose key is put together from the form, the row
and the environment (`Loaded`, `Merged`), saved (`ForPersist`, `Patched`) and then sent to the
sidecar (`KeyFor`).  `ReplenishBatch` is the sidecar's own reading of the row (`Normalized`), and
`Received` the adapter's fallback.  `typed` is history, the key last saved for each provider;
`spoiled`, that two saves overlapped or one could not read the row.

## 3. Runs

| Run | Instance and distinct states | What it shows |
|---|---|---|
| `MCLeaderElection` | 2 workers, TTL 4, period 2, tick 1, 2 faults, 3 boots; 256 029 | `LeaderHoldsLock`, `LeaseInv`; `LeaderEmerges`: after an orphaned key expires somebody leads for good |
| `MCTokenMaintainer` | 2 ids of a user, 2 tokens; two cycles with 2 faults, or a cycle and a selected renewal without; 471 085 | `LoginKept`, `DueTokenSettled` |
| `MCAffinity` | 2 processes, 1 slot each, 2 accounts, 3 turns and 1, 1 loss; 898 377 | `SettledPin`, `OneWriter` |
| `MCAccountPool` | cooldowns up to 2, an administrator's up to 3, a former id or none; 161 492 | `CooldownHasEnd`, `CoolingShown`, `DismissalStands` |
| `MCRegistration` | 2 accounts, 2 threads, 1 permit, 1 restart, 1 request; 914 615 | `PermitsConserved`, `CountersAgree`, `NoPhantomSuccess`, `OrderNotExceeded`, `OneSpawner`, `RunnerEnds` |
| `MCEnrolment` | 2 workers, 1 slot, 2 attempts, 1 alternative page, 1 sign-in round; 432 288 | `SlotsConserved`, `NewTokenEachAttempt`, `AccountAccounted`, the refinement `Implements` |
| `MCTurnstilePool` | 2 tasks, 2 threads, 1 fault, 1 reclaim; 354 116 | `OneHolder`, `InFlightPaired`, `ReaperSpares`, `TaskAnswered` |
| `MCRotation` | 2 accounts, one of them possibly disabled, 2 handlers at a time (symmetric), 1 event; 1 001 131 | `NeverOvercounted`, `StaysCooling` |
| `MCCredentials` | 2 accounts, batches of 1, 1 caller, 1 event; 1 822 129 | `BoundedOvertaking`, `SSOKept` |
| `MCImports` | 2 cookies, 2 threads, 2 tries, 1 login, 1 fault; 257 587 | `OkStored`, `SuccessStored`, `JobEnds`, `LoginEnds` |
| `MCReplenish` | 2 threads, 2 starters, 2 stops let go, 1 fault, 2 batches; or moemail, cfmail and tempmail, 2 keys, one in the environment, 1 request at a time, 3 saves; 530 581 | `NoPileUp`, `LoopsBounded`, `PoolRefilled`; `KeyAsSaved` |
| `Tempmail` | the same providers, 2 saves | `MirrorsSelected` is violated (section 5) |

Why the bounds are enough.  *LeaderElection*: a takeover between two commands of a tick takes two
workers; TTL 4, period 2 and tick 1 are the tightest values the assumption admits, and the proofs
hold for all.  *TokenMaintainer*: a login is lost by two runners and two generations of a token.
`MCInit` starts in either of two deployments, because their product is out of reach: two cycles
with faults, where the lock and the dropped errors meet, and a cycle beside the unlocked
runner, where the account sits under a former id.  *Affinity*: a stale tail takes two accounts
and two binds, and a third turn clears over a write under way; a second process, of which one
turn is enough, is what separates Redis from the local cache.  *AccountPool*:
every domain is finite; a second move of a row is the first again.  *Registration*: two threads on one permit wait for each other; the
restart leaves a runner lock, orphaned sessions and a stale copy; one resume beside the
watchdog's is a race of two.  That one request both stops a batch and resumes it under its workers
takes a second request, which is out of reach beside all this; `OrderKept` proves it for any.  *Enrolment*: two attempts hold every retry path, one slot makes the
workers wait.  *TurnstilePool*: two tasks share one browser or none.  *Rotation*: one handler's
stale read against one other handler, with one event between; one account starts in rotation,
the other disabled, which is what a healthy billing answer lifts.  *Credentials*: a batch of one of
two accounts starves the other or does not; one caller's stale map is one too many, and
its write beside the batch's is what loses a cookie; `MCNext` lets tokens come to their end
between batches only.  *Imports*:
two cookies contend for the gap; the first is of the user who logs in, the second of the same
user or, always when the table is replaced, of another.  *Replenish*
and *MailKeys* share a run, but no behaviour: `part` says which of three questions one is of.
`loop`: one starter, and two threads that outlive their stops.  `starts`: two starters that meet,
while the pool is full and nothing is registered, which is another matter.  `keys`: one provider
whose key is in the environment, one that mirrors and borrows, one without a slot in Python;
three saves are a key, a switch away and a switch back.  Its requests are one at a time: saves
that overlap are exempt, and a start that overlaps a save is in `KeysKept`, for any number.

Deadlock is checked in `MCAccountPool` and `MCCredentials`, which never stop.  The others may:
boots, turns, jobs, faults and restarts are bounded.

### Fairness
`LeaderElection`: time passes (`Elapse`), and the goroutines of a live process run; a process
need not start, live on or shut down.  `TokenMaintainer`: the leader's loop starts cycles (what
`LeaderEmerges` provides), the goroutines of each runner advance, a cycle whose context is done
stops waiting for the lock, the key expires; none on imports, aging or deletions.
`Registration`: some thread that can go on does, because each call of a worker has a timeout.
`Enrolment`: each worker's thread goes on, for the same reason; no mail has to arrive and no
stop to come.  `TurnstilePool`: the event loop serves the keeper, and each task's waits have
timeouts; strong for tasks, because `asyncio.Lock` and `Queue` are fair to those that wait.
`Imports`: requests and the rate-limit gap end, the code runs out; nobody has to start or
answer a login.  `Replenish`: the loop's threads run and cooldowns end; no batch has to.
`Affinity`, `AccountPool`, `Rotation` and `Credentials` have no liveness property: no one is
obliged to begin anything.

## 4. Proofs

Each `...Proofs` module EXTENDS its component or components and adds only definitions for the proof.  The
shape is the same everywhere: `Init => IInv`, one lemma per action (or per kind of action) that
shows `IInv /\ action => IInv'`, and a temporal step by PTL.  Where an action has many callers
(a SQL statement, a checkpoint, a transition of a batch's record) what it does is stated once as
a lemma, and the callers cite it.

| Module | Theorems | Argument |
|---|---|---|
| `LeaderElectionProofs` | `TypeCorrect`, `LeasesKept`, `ConfirmedLeaderHoldsLock`, `OneConfirmedLeader` | `LeaderHoldsLock` is not inductive: nothing in it says that the key outlives the next tick. `LeaseInv` does, by the remaining time of ticker and tick at each command; it is inductive under `TimingAssumption` (the bounds `config.go` accepts) |
| `TokenMaintainerProofs` | `TypeCorrect`, `LoginsKept` | `LoginKept` does not say whose the tokens are, nor that a refresh asks with the token that the row still has. `Separate`: no two users share a token, because a step hands tokens on within a user or takes a new one. `Serial`: one refresh at most is under way for an undisturbed user, since one cycle at most keeps the lock. `JobKept`: what rows and provider hold at each stage of it, from which the rows follow (`JobTells`). Most steps only end things (`Quiet`) |
| `AffinityProofs` | `TypeCorrect`, `WritesCoalesced`, `PinsSettle` | `OneWriter` together with where the one goroutine is: the flag is set exactly while it runs, and it ends only where the pending write was seen empty under the mutex. `SettleInv` adds what a turn may still do to its own pin (`Own`) and which pending or running write backs a pin that is not in the caches yet (`Backs`) |
| `AccountsProofs`: AccountPool | `TypeCorrect`, `CooldownsEnd`, `CooldownsShown`, `DismissalsStand` | `Sound(row)` joins tag, cooldown and dismissal; each statement is shown to keep it (`Good`), then each caller as a choice of statements. `DismissalStands` is of an account whose row was not left behind with a former id: a move gives it a fresh row, enabled (section 5) |
| `AccountsProofs`: Credentials | `CredentialsTyped`, `NobodyStarves`, `CookiesKept` | `BoundedOvertaking` counts overtakings but not who may still overtake. `Overtaken` does, with a potential: an account is overtaken by those who had a turn since its own (`OwnTurn`), in its generation of the sweep or, once the generation has turned, by each other in the one before and by those `Turned` in this. A batch loses its turns only with the count of `faults`. `CookiesKept` needs what a writer between its read and its write knows: a row that no other has written since (not in `stale`) still has the cookie it had, and so has what will be written over it; the batch's locked rows are written by nobody else |
| `AccountsProofs`: Imports | `ImportsTypeCorrect`, `ReportsStored`, `LoginsStored` | What is reported is not what is stored, so `OkStored` needs where each account gained is on its way: `CollectedInv` (the last cookie of each user is among those to store), `StoringInv` (its user has a row, or had a failed one, or is still to be stored), `DoneInv` (and not all failed). A row has a cookie of its own user (`SavedOwn`), which no login overwrites. `LoginInv` adds the poller that has saved and not yet told |
| `RegistrationProofs` | `TypeCorrect`, `PermitsComeBack`, `OneSpawnerAtATime`, `SuccessesAreInPool`, `CountsAgree`, `OrderKept` | `IInv` in layers, each kept given the ones before: permits as a count of jobs by stage; `Backed` (a success in a tally, or still to be noted, has an account); `Limited` (finished, in flight and left to do are no more than ordered); `Drained` and `Remembered` (no job is forgotten between two runners) |
| `EnrolmentProofs` | `SlotsComeBack`, `FreshTokens`, `AccountsAccounted`, `KeepsPromises` | `Kept(w)` ties where a worker is to its session, row and token. Every step is of one worker and is `Good`: it keeps `Kept`, and is a step of `RegSession` or none (`Told`). `KeepsPromises` is the refinement without its fairness |
| `TurnstilePoolProofs` | `BrowsersUnshared`, `CountPaired`, `ReaperSparesTasks` | `Base` says which tasks hold a browser (`Holding`: those that solve) and which task holds the lock (`Keeping`), since a launch moves the task that holds it; the count follows each task in and out of `InProgress`, and `lapsed` records the one step, a reset, that breaks it |
| `RotationReplenishProofs`: Rotation | `TypeCorrect`, `CooldownsStand`, `CountersFall` | `TypeOK` and `busy[a] <= jobs`, so that releases cannot drive a counter below zero; each writer's rows are compared one by one for `StaysCooling`, with the ways out that the code has: probe, administrator, end of a registration, loss of the row. For `NeverOvercounted`, `Owed`: a worker that holds a slot waits for its answer or has the release as its next call, so its slot is counted for it until the first of its releases |
| `RotationReplenishProofs`: Replenish | `NothingPilesUp`, `LoopsCounted` | `LoopInv`: of the callers in `run_once` one at most is past its look for running batches and it is still right (`OneAsks`); a thread that loops and was neither let go nor left by two starts is the current one (`OneLoop`), none loops past a starter that has found the loop dead (`NoLoop`), and starters that meet know it (`Beside`) |
| `RotationReplenishProofs`: MailKeys | `KeysKept` | `KeyInv`. While nothing is spoiled: each slot has what was typed last (`SlotKept`), one request saves at a time (`OneSaves`), what it will write has its own entries and for the others what is there or nothing (`PatchFits`), the row it has read is still the row, and a batch, sent or not, has the key due to it (`JobFits`). Normalising and sanitising leave a full slot as it is. tempmail is in the model; the property is of the providers that both services know |

The theorems hold for every value of the constants under these assumptions, all named where the
constants are declared: `TimingAssumption` (LeaderElection), `BoundAssumption` (bounds in range), `CanonicalAssumption` (a user's id is its own) and `RunnerAssumption` (TokenMaintainer),
`BatchAssumption` (`NoBatch` is no record), `WorkerAssumption` (finitely
many workers), `PoolAssumption` (finitely many tasks and browsers), `RotationAssumption` (among others, finitely
many workers), `CredentialsAssumption` (finitely many accounts, none of them a caller),
`ImportsAssumption` (finitely many cookies, a thread and a try at least), `ReplenishAssumption`
(bounds), `MailKeysAssumption` (keys are not the words the code has for no key, the default provider
has a slot and borrows from none) and the caps of
AccountPool.  TLC evaluates them in every run.

Only model-checked: the liveness properties (`LeaderEmerges`, `DueTokenSettled`, `RunnerEnds`,
`TaskAnswered`, `JobEnds`, `LoginEnds`, `PoolRefilled`), and `Implements` with its fairness
(fairness and ENABLED are out of the prover's reach); every safety and action property of the
passing runs has a theorem.  What a recursion over data computes for every input cannot be proved
either (the induction theorems take an operator as a parameter); no theorem here needs it.

The proofs also corrected the models where a run could not tell.  What a loop of
`Replenish` does next was written as cases that overlap, of which TLC takes the first; they are
ordered now, as the code is.  The types of `Imports` said nothing of the
accounts to store, because an implication had swallowed that conjunct.

## 5. Where code and documents disagree

*Checked*, by a run that TLC ends with a counterexample.

- `Tempmail`: "Active key always mirrors the selected provider" (`settings_store.py:2334`).  The
  table of key fields (2013-2019) has no entry for tempmail, so the lines below fall back to
  MoeMail's: a batch of the replenisher for tempmail is given the key saved for MoeMail.

The rest follows from the definitions; the properties above are stated around it.

*Mail keys.* "删除不恢复旧值" (`src/README.md:606`), "allow explicit empty key to clear paid key"
(`server.go:5232`): deleting the key of tempmail leaves the active key, which
`sanitizeRegistrationMailSecrets` promotes into the empty slot (5408), so the deleted key is back.
"Never fall through to MoeMail with a leftover mk_* key" (`server.go:5693`):
`_make_email_receiver` takes the environment's MoeMail key for any provider without one
(`grok_build_adapter.py:1340`).  "empty secrets keep previous" (`server.go:5223`): where the row
cannot be read (5217), the patch replaces it.

*Former ids.* "move pool row best-effort" (`accounts.go:2037`): `UpsertAccount` has just inserted
a fresh row under the new id, so the move meets a conflict and does nothing, always, and an
account that an administrator dismissed is enabled.  A renewal (`service.go:333`) does the same.

*Gateway.* (1) `watchLoop` keeps the leader flag while GET fails (`leader.go:211` against
`leader.go:10`).  (2) An account without SSO is deleted on its first permanent refresh failure
(`service.go:316`, 602; the README says two) and (3) whether it has SSO is read from the
cycle's snapshot.  (4) The tail of a flush overwrites a newer local pin (`affinity.go:70`).
(5) A stream turn binds its winner (`chat.go:566`) before it clears the dead pin (390), and can
clear the winner's.  (6) A clear drops the queued write "so a stale rebind cannot resurrect a
just-cleared pin" (`affinity_cache.go:253`), but not the one its goroutine is making: the failed
account is pinned again when that write follows the DEL.  (7) `ListPoolCandidates` ignores `pool_status`, so "live == rotatable"
(`status.go:113`) fails.

*Registration.* Slots of reclaimed sessions "should be retried" (4252) but count as done
(4366).  A resume counts what is left before it owns the runner lock.  A code that xAI called
invalid can be read again from the mailbox (3300, 3319).  `account_created` is also set after
attempts that broke off (3428).  The solver never deletes finished results, and a launch that
fails half-way leaves its browsers behind.

*Rotation.* "仅测活成功 / 手动解除才回池" (`src/README.md:73`, `account_pool.py:834`): the end of a
registration clears the cooldown whatever its probe said (`grok_build_adapter.py:3957`).  "Never
blindly overwrite a still-active durable cooldown with a stale snapshot" (`settings_pg.py:489`):
rows that the snapshot does not know are deleted (506).  Enabling an account leaves its count and stack (2016).  A patch after a hard delete
inserts a ghost row.  A probe, renewal, billing answer or usage cooldown enables an account that
an administrator disabled.  A failed request releases its slot two or three times, and the fast
path to a conversation's account counts none: counters fall short, never exceed.

*Credentials.* "Preserve durable SSO / register password if a later write omits them"
(`accounts_pg.py:647`): the SELECT under it (650) takes no lock, so a cookie committed before the
overwrite is lost.  The batch renews from its snapshot; a request that renewed meanwhile has spent
the token, and an account without SSO is then deleted.  The batch write brings back deleted
accounts, a failed one loses the new tokens, and whole-map removals undo each other.

*Imports.* "Keep status as converting until bulk import finishes" (`sso_import.py:498`): with some
rows stored, all cookies are reported as ok (565).  A job stays "running" in Redis
after a crash.  A process that cached a login's session keeps showing it, and the mirror lives
15 minutes where a code lives 30.

*Replenisher.* Two
callers of `run_once` can both find nothing running.  A stop gives its thread two seconds: a
start after them makes two loops, a start during them none.  Two requests that start it at once leave two
loops as well (`account_replenisher.py:405`), of which `_thread` knows one.

## 6. Not modelled

Payload translation, HTTP, SQL beyond the columns named, task logs, metrics, the console, mail,
proxy and push clients: conversion or I/O without a protocol of their own.  The candidate window
and the picker (an ordering), chat failover beyond its effect on pins, the progress record of the
Go sweep, the ownership epoch (no package imports it in this commit), the response map (the
same coalescing as pins, without a clear), Python's own leader election and conversation
affinity (replaced by the gateway's), the deferred flush of `settings_store` (it writes the
whole sticky map over newer keys, and its refresh overlays older values).  In the modelled
parts: counters that only rank, wording and reasons (a choice where the code branches on them),
batch limits, the second fingerprint of a turn, the modes of the leader that never use Redis,
the channels of the Go maintainer's `Start` and `Stop`, the expiry of registration records after
72 hours, the lock per account of one Python process (`Credentials` takes its actors to be of
different ones), domains, hosts and cloudmail in `MailKeys`, keys entered for the wrong provider,
a sign-in answer without an access token (`Imports` takes it for a failure), an exception of
`record_renew_failure` other than a lost write (`Credentials`), the pool rows of former ids
beside the one that moves (`AccountPool` has one account).  What properties exempt is said with
each: overlapping cycles (`LoginKept`), a clear over a write under way (`SettledPin`), a resume
that counted beside a runner and restarts (`OrderNotExceeded`), a cancel between xAI's answer and
`grok_build_adapter.py:3431` (`AccountAccounted`), two callers (`NoPileUp`), two starts at once
(`LoopsBounded`), overlapping saves (`KeyAsSaved`).

## 7. Next

A candidate-window module composed with `AccountPool`; the chain of a chat request with its
in-flight slots in Go; a composition of `Registration` and `Enrolment` through `RegSession`.
