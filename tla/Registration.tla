---------------------------- MODULE Registration ----------------------------
(***************************************************************************)
(* A registration batch of the Python sidecar: the runner that feeds jobs  *)
(* to a thread pool, the workers, the stop and resume calls, the reclaim   *)
(* of abandoned sessions and the watchdog, over memory and Redis, with a   *)
(* process that restarts.                                                  *)
(*                                                                         *)
(* Source: src/grok2api/upstream/grok_build_adapter.py, reached through    *)
(* src/scripts/registration_service.py; one sidecar process.               *)
(*                                                                         *)
(* A worker is followed here through the statuses the others react to;     *)
(* module Enrolment has the whole of it.  A session is one variable here   *)
(* that outlives the process: its copy in Redis lacks but a status that    *)
(* does not end it.  The copy of the batch, which is throttled as well, is *)
(* a variable of its own.  Left out: jobs without a batch, the wording of  *)
(* messages, task logs, the expiry of records after 72 hours.              *)
(***************************************************************************)
EXTENDS Naturals, FiniteSets

CONSTANTS
    MaxJob,      \* bound: jobs ever submitted, over all runners of the batch
    Count,       \* accounts the batch asks for
    Workers,     \* threads of the pool
    MaxInflight, \* max_inflight: futures submitted and not collected
    Permits,     \* _GLOBAL_REG_INFLIGHT_MAX
    Admin, Dog,  \* callers of resume: a request thread, the watchdog
    NoBatch,     \* an absent batch record
    MaxRestarts, \* bound: restarts of the process
    MaxCalls     \* bound: stop and resume requests

ASSUME BoundAssumption ==
    /\ Count \in Nat \ {0} /\ Workers \in Nat \ {0} /\ Permits \in Nat \ {0}
    /\ MaxInflight \in Nat \ {0} /\ MaxRestarts \in Nat /\ MaxCalls \in Nat
    /\ MaxJob \in Nat
ASSUME CallerAssumption == Admin # Dog

\* A job of the pool; it creates at most one session, which bears its name.
Job == 1 .. MaxJob
TheBatch == 0

VARIABLES
    sess,     \* session of each job: status, cancel_requested
    quiet,    \* sessions whose updated_at is older than their reclaim age
    job,      \* stage of each job's thread
    batch,    \* _batches entry of this process
    rbatch,   \* its copy in Redis
    recent,   \* the copy was written within the throttle interval
    claim,    \* _active_batch_runners
    key,      \* Redis runner lock: free, of this process, of a former one
    runner,   \* the spawner thread and its counters
    call,     \* progress of each resume (or start) call
    sweep,    \* what a stop has still to signal: sessions, and the batch once more
    marking,  \* sessions a stop found running and is about to mark
    permits,  \* value of _global_reg_inflight
    dog,      \* the watchdog thread was started in this process
    enrolled, \* accounts stored in the pool
    overlap,  \* history: a runner was spawned for a count that was no longer true
    restarts, calls

sessions == <<sess, quiet>>
batches == <<batch, rbatch, recent>>
spawner == <<claim, key, runner, call, dog>>
stops == <<sweep, marking>>
history == <<enrolled, overlap, restarts, calls>>
vars == <<sess, quiet, job, batch, rbatch, recent, claim, key, runner,
          call, sweep, marking, permits, dog, enrolled, overlap, restarts, calls>>

TerminalBatch == {"done", "partial", "error", "cancelled"}
StopStatus == {"stopping", "cancelled"}
\* The statuses of a session as the others tell them apart: "open" stands for
\* those _nonterminal_session_statuses lists (queued to probing), "unlisted"
\* for those it does not (registering, creating_account, pushing_...).
Terminal == {"imported", "error", "cancelled"}
Listed == {"open", "stopping"}
Work == {"started", "registering", "importing", "stored", "probing"}
Holding == {"started", "registering", "importing", "stored"}
Busy == {"submitted", "mailing", "prepared", "admission", "closing"} \cup Work

BatchRecord == [st : TerminalBatch \cup {"running", "stopping"},
                cancel : BOOLEAN, fin : Nat, ok : Nat, fail : Nat, ids : SUBSET Job]

ASSUME BatchAssumption == NoBatch \notin BatchRecord

TypeOK ==
    /\ sess \in [Job -> [st : {"none", "unlisted"} \cup Listed \cup Terminal,
                         cancel : BOOLEAN]]
    /\ quiet \subseteq Job
    /\ job \in [Job -> {"none", "succeeded", "failed", "collected", "dead"} \cup Busy]
    /\ {batch, rbatch} \subseteq BatchRecord \cup {NoBatch}
    /\ recent \in BOOLEAN /\ claim \in BOOLEAN /\ dog \in BOOLEAN
    /\ key \in {"free", "own", "former"}
    /\ runner \in [pc : {"none", "feeding", "releasing"}, todo : 0 .. Count,
                   fin : Nat, ok : Nat, fail : Nat]
    /\ call \in [{Admin, Dog} -> [pc : {"idle", "plan", "claim", "solver"},
                                  left : 0 .. Count, seen : BatchRecord \cup {NoBatch}]]
    /\ sweep \subseteq Job \cup {TheBatch} /\ marking \subseteq Job
    /\ permits \in 0 .. Permits /\ enrolled \in 0 .. MaxJob
    /\ overlap \in BOOLEAN /\ restarts \in 0 .. MaxRestarts /\ calls \in 0 .. MaxCalls

NoRunner == [pc |-> "none", todo |-> 0, fin |-> 0, ok |-> 0, fail |-> 0]
\* left: jobs a resume is going to submit; seen: the batch as it was when it began
AtStage(stage, n, b) == [pc |-> stage, left |-> n, seen |-> b]
IdleCall == AtStage("idle", 0, NoBatch)

Init ==
    /\ sess = [s \in Job |-> [st |-> "none", cancel |-> FALSE]]
    /\ quiet = {} /\ sweep = {} /\ marking = {} /\ enrolled = 0
    /\ job = [s \in Job |-> "none"]
    /\ batch = NoBatch /\ rbatch = NoBatch /\ recent = FALSE
    /\ claim = FALSE /\ key = "free" /\ dog = FALSE
    /\ runner = NoRunner /\ call = [c \in {Admin, Dog} |-> IdleCall]
    /\ permits = Permits /\ overlap = FALSE /\ restarts = 0 /\ calls = 0

-----------------------------------------------------------------------------
(* Records *)

\* _mirror_reg_batch: a batch that is not terminal is copied once per interval.
SetBatch(b) ==
    /\ batch' = b
    /\ IF b.st \notin TerminalBatch /\ recent
       THEN UNCHANGED <<rbatch, recent>>
       ELSE rbatch' = b /\ recent' = (b.st \notin TerminalBatch)

IntervalPasses ==
    /\ recent
    /\ recent' = FALSE
    /\ UNCHANGED <<batch, rbatch, sessions, job, spawner, stops, permits, history>>

\* _load_reg_batch: after a restart memory is filled from Redis.
Known == IF batch # NoBatch THEN batch ELSE rbatch

Stopped(b) == b # NoBatch /\ (b.cancel \/ b.st \in StopStatus)

\* _batch_cancel_requested and _refresh_cancel_from_redis: Redis counts too.
StopSeen == Stopped(batch) \/ Stopped(rbatch)

\* What the memory copy is after that check.
Heeded ==
    IF Stopped(batch) \/ ~Stopped(rbatch) THEN batch
    ELSE [batch EXCEPT !.cancel = TRUE,
                       !.st = IF @ \in TerminalBatch THEN @ ELSE rbatch.st]

\* _session_cancel_requested, with the stop of the batch.
Cancelled(s) == sess[s].cancel \/ sess[s].st \in StopStatus \/ StopSeen

\* A write of the session by its worker.
Write(s, st, cancel) ==
    /\ sess' = [sess EXCEPT ![s] = [st |-> st, cancel |-> cancel]]
    /\ quiet' = quiet \ {s}

Goto(s, pc) == job' = [job EXCEPT ![s] = pc]

Return(s, ok) == Goto(s, IF ok THEN "succeeded" ELSE "failed")

InFlight == {s \in Job : job[s] \in Busy \cup {"succeeded", "failed"}}
Threads == {s \in Job : job[s] \in Busy \ {"submitted"}}

-----------------------------------------------------------------------------
(* The runner thread: _run_batch *)

\* Mutant of CanFeed: one job too many.
CanFeedOneMore ==
    runner.todo >= 0 /\ Cardinality(InFlight) < MaxInflight /\ ~StopSeen

CanFeed == runner.todo > 0 /\ Cardinality(InFlight) < MaxInflight /\ ~StopSeen

Feed(s) ==
    /\ runner.pc = "feeding" /\ CanFeed
    /\ job[s] = "none" /\ \A t \in 1 .. s - 1 : job[t] # "none"
    /\ Goto(s, "submitted")
    /\ runner' = [runner EXCEPT !.todo = @ - 1]
    /\ SetBatch([batch EXCEPT !.st = "running"])
    /\ UNCHANGED <<sessions, claim, key, call, dog, stops, permits, history>>

\* _note_result
Collect(s) ==
    /\ runner.pc = "feeding" /\ job[s] \in {"succeeded", "failed"}
    /\ Goto(s, "collected")
    /\ LET good == job[s] = "succeeded"
           r == [runner EXCEPT !.fin = @ + 1,
                               !.ok = IF good THEN @ + 1 ELSE @,
                               !.fail = IF good THEN @ ELSE @ + 1]
       IN  /\ runner' = r
           /\ SetBatch([batch EXCEPT !.st = IF batch.cancel THEN @ ELSE "running",
                                     !.fin = r.fin, !.ok = r.ok, !.fail = r.fail])
    /\ UNCHANGED <<sessions, claim, key, call, dog, stops, permits, history>>

\* _renew_loop
Renew ==
    /\ runner.pc = "feeding"
    /\ SetBatch([batch EXCEPT !.cancel = @ \/ StopSeen,
                              !.st = IF StopSeen /\ @ \notin TerminalBatch
                                     THEN "stopping" ELSE @])
    /\ UNCHANGED <<sessions, job, spawner, stops, permits, history>>

\* The finally block of _run_batch, under _lock.
FinishBatch ==
    /\ runner.pc = "feeding" /\ InFlight = {}
    /\ runner.todo = 0 \/ StopSeen
    /\ LET b == Heeded
       IN  SetBatch([b EXCEPT
               !.fin = runner.fin, !.ok = runner.ok, !.fail = runner.fail,
               !.st = IF Stopped(b) /\ runner.fin < Count THEN "cancelled"
                      ELSE IF runner.fail > 0 /\ runner.ok = 0 THEN "error"
                      ELSE IF runner.fail > 0 THEN "partial" ELSE "done"])
    /\ runner' = [runner EXCEPT !.pc = "releasing"]
    /\ UNCHANGED <<sessions, job, claim, key, call, dog, stops, permits, history>>

\* _release_batch_runner
ReleaseRunner ==
    /\ runner.pc = "releasing"
    /\ runner' = NoRunner /\ claim' = FALSE
    /\ key' = IF key = "own" THEN "free" ELSE key
    /\ UNCHANGED <<sessions, job, batches, call, dog, stops, permits, history>>

-----------------------------------------------------------------------------
(* A job: _job, then _run_registration *)

Begin(s) ==
    /\ job[s] = "submitted" /\ \A t \in 1 .. s - 1 : job[t] # "submitted"
    /\ Cardinality(Threads) < Workers
    /\ IF StopSeen THEN Return(s, FALSE) ELSE Goto(s, "mailing")
    /\ batch' = Heeded
    /\ UNCHANGED <<rbatch, recent, sessions, spawner, stops, permits, history>>

NoMailbox(s) ==
    /\ job[s] = "mailing"
    /\ Return(s, FALSE)
    /\ UNCHANGED <<sessions, batches, spawner, stops, permits, history>>

\* _prepare_registration_session
Prepare(s) ==
    /\ job[s] = "mailing"
    /\ Goto(s, "prepared")
    /\ Write(s, "open", FALSE)
    /\ SetBatch([batch EXCEPT !.ids = @ \cup {s}])
    /\ UNCHANGED <<spawner, stops, permits, history>>

\* The check under _lock after it; this one looks at memory only.
Launch(s) ==
    /\ job[s] = "prepared"
    /\ IF Stopped(batch) \/ sess[s].cancel
       THEN Write(s, "cancelled", TRUE) /\ Return(s, FALSE)
       ELSE Write(s, "open", FALSE) /\ Goto(s, "admission")
    /\ UNCHANGED <<batches, spawner, stops, permits, history>>

\* _wait_reg_admission
Admit(s) ==
    /\ job[s] = "admission" /\ ~sess[s].cancel /\ ~batch.cancel /\ permits > 0
    /\ permits' = permits - 1
    /\ Goto(s, "started")
    /\ UNCHANGED <<sessions, batches, spawner, stops, history>>

RefuseAdmission(s) ==
    /\ job[s] = "admission"
    /\ sess[s].cancel \/ batch.cancel
    /\ Write(s, "cancelled", sess[s].cancel)
    /\ Return(s, FALSE)
    /\ UNCHANGED <<batches, spawner, stops, permits, history>>

\* update(status): refuses to overwrite a stop.
Advance(s, from, to, st) ==
    /\ job[s] = from /\ ~Cancelled(s)
    /\ Goto(s, to)
    /\ Write(s, st, FALSE)
    /\ UNCHANGED <<batches, spawner, stops, permits, history>>

\* import_auth_payload
StoreAccount(s) ==
    /\ job[s] = "importing"
    /\ Goto(s, "stored")
    /\ enrolled' = enrolled + 1
    /\ UNCHANGED <<sessions, batches, spawner, stops, permits, overlap, restarts, calls>>

\* The slot is given back before the settle delay and the probe.
Settle(s) ==
    /\ job[s] = "stored" /\ ~Cancelled(s)
    /\ permits' = permits + 1
    /\ Goto(s, "probing")
    /\ Write(s, "open", FALSE)
    /\ UNCHANGED <<batches, spawner, stops, history>>

\* Mutants of Released: the slot is given back again; an admitted worker that
\* has not begun keeps it; none is given back.
ReleasedTwice(s) == permits + 1
ReleasedOnceBegun(s) == IF job[s] \in Holding \ {"started"} THEN permits + 1 ELSE permits
ReleasedNever(s) == permits

\* _release_reg_admission_once: nothing for a worker that settled.
Released(s) == IF job[s] \in Holding THEN permits + 1 ELSE permits

\* _run_registration ends with a status; _job's finally then gives the slot
\* back unless it was released already.
Leave(s, st, cancel) ==
    /\ Goto(s, "closing")
    /\ Write(s, st, cancel)
    /\ permits' = Released(s)
    /\ batch' = Heeded
    /\ UNCHANGED <<rbatch, recent, spawner, stops, history>>

\* update("imported") is let through a stop.
Complete(s) == job[s] = "probing" /\ Leave(s, "imported", Cancelled(s))
Fail(s) == job[s] \in Work /\ Leave(s, "error", Cancelled(s))
Abort(s) == job[s] \in Work /\ Cancelled(s) /\ Leave(s, "cancelled", TRUE)

\* Mutant of Close: what is neither an error nor cancelled went well.
CloseLenient(s) ==
    /\ job[s] = "closing"
    /\ Return(s, sess[s].st \notin {"error", "cancelled"})
    /\ UNCHANGED <<sessions, batches, spawner, stops, permits, history>>

\* _job reads the session's status after the worker is gone.
Close(s) ==
    /\ job[s] = "closing"
    /\ Return(s, sess[s].st = "imported")
    /\ UNCHANGED <<sessions, batches, spawner, stops, permits, history>>

-----------------------------------------------------------------------------
(* Stopping *)

Request == calls < MaxCalls /\ calls' = calls + 1

Stopping(b) == [b EXCEPT !.cancel = TRUE,
                         !.st = IF @ \in TerminalBatch THEN @ ELSE "stopping"]

\* stop_registration_batch marks the batch, signals its sessions ...
StopBatch ==
    /\ Known # NoBatch /\ sweep = {}
    /\ Request
    /\ SetBatch(Stopping(Known))
    /\ sweep' = Known.ids \cup {TheBatch}
    /\ UNCHANGED <<sessions, job, spawner, marking, permits, enrolled, overlap, restarts>>

\* ... and marks it again, whatever has resumed it meanwhile.
StopAgain ==
    /\ sweep = {TheBatch} /\ marking = {}
    /\ SetBatch(Stopping(batch))
    /\ sweep' = {}
    /\ UNCHANGED <<sessions, job, spawner, marking, permits, history>>

\* stop_all_active_registrations signals every session that is not over, and
\* only then stops the batches, which is StopBatch again; the console also
\* stops a single session.
StopSessions(some) ==
    /\ sweep = {} /\ some # {}
    /\ Request
    /\ sweep' = some
    /\ UNCHANGED <<sessions, job, batches, spawner, marking, permits, enrolled, overlap, restarts>>

StopAll == StopSessions({s \in Job : sess[s].st \notin Terminal \cup {"none"}})
StopOne(s) == sess[s].st # "none" /\ StopSessions({s})

\* stop_registration_session looks at the status without the lock ...
StopLook(s) ==
    /\ s \in sweep
    /\ sweep' = sweep \ {s}
    /\ marking' = IF sess[s].st \in Terminal THEN marking ELSE marking \cup {s}
    /\ UNCHANGED <<sessions, job, batches, spawner, permits, history>>

\* ... and marks the session under it, whatever it has become.
StopMark(s) ==
    /\ s \in marking
    /\ marking' = marking \ {s}
    /\ Write(s, "stopping", TRUE)
    /\ UNCHANGED <<job, batches, spawner, sweep, permits, history>>

-----------------------------------------------------------------------------
(* Reclaim, resume, start, watchdog *)

\* Mutant of HasRunner: only the lock of another process is respected.
HasRunnerAbroad == key = "former"

HasRunner == claim \/ key # "free"
Stale == {s \in quiet : sess[s].st \in Listed}

\* Nothing has been heard of a session for as long as its status allows; that
\* of a live worker seldom happens and is bounded with the requests.
GrowQuiet(s) ==
    /\ s \notin quiet /\ sess[s].st \in Listed
    /\ quiet' = quiet \cup {s}
    /\ IF job[s] \in Busy THEN Request ELSE UNCHANGED calls
    /\ UNCHANGED <<sess, job, batches, spawner, stops, permits, enrolled, overlap, restarts>>

\* reclaim_orphaned_registration_sessions, with the runner lock it sees.
Reclaim(live) ==
    /\ sess' = [s \in Job |-> IF s \in Stale
                              THEN [st |-> "error", cancel |-> live] ELSE sess[s]]
    /\ quiet' = quiet \ Stale

\* resume_registration_batch: a forced resume drops the lock of a process that
\* is gone, then the sessions are reclaimed.
OpenResume(c, force) ==
    LET dropped == force /\ ~claim /\ key # "free"
        live == claim \/ (key # "free" /\ ~dropped)
    IN  /\ call[c].pc = "idle" /\ Known # NoBatch
        /\ force \/ (Known.st \notin {"done", "cancelled"} /\ ~Known.cancel)
        /\ key' = IF dropped THEN "free" ELSE key
        /\ Reclaim(live)
        /\ IF Stale = {}
           THEN batch' = Known /\ UNCHANGED <<rbatch, recent>>
           ELSE SetBatch(Known)
        /\ call' = [call EXCEPT ![c] = AtStage("plan", 0, Known)]

ResumeBatch(force) ==
    /\ Request
    /\ OpenResume(Admin, force)
    /\ UNCHANGED <<job, claim, runner, dog, stops, permits, enrolled, overlap, restarts>>

\* Mutant of Remaining: only sessions count.
RemainingSessions(b) ==
    LET ended == Cardinality({s \in b.ids : sess[s].st \in Terminal})
    IN  IF ended > Count THEN 0 ELSE Count - ended

\* What is left of a batch as a resume has read it: sessions that ended by now count as
\* done, and so does every job finished then, the larger number of the two.
Remaining(b) ==
    LET ended == Cardinality({s \in b.ids : sess[s].st \in Terminal})
        past == IF b.fin > ended THEN b.fin ELSE ended
    IN  IF past > Count THEN 0 ELSE Count - past

PlanResume(c) ==
    /\ call[c].pc = "plan"
    /\ IF Remaining(call[c].seen) = 0
       THEN /\ SetBatch([batch EXCEPT !.st = IF batch.fail = 0 THEN "done" ELSE "partial"])
            /\ call' = [call EXCEPT ![c] = IdleCall]
            /\ UNCHANGED dog
       ELSE /\ SetBatch([batch EXCEPT !.cancel = FALSE,
                                      !.st = IF @ \in StopStatus \cup {"error"}
                                             THEN "running" ELSE @])
            /\ call' = [call EXCEPT ![c] = AtStage("claim", Remaining(call[c].seen), NoBatch)]
            /\ dog' = TRUE
    /\ UNCHANGED <<sessions, job, claim, key, runner, stops, permits, history>>

\* _try_acquire_batch_runner
Claim(c) ==
    /\ call[c].pc = "claim"
    /\ IF HasRunner
       THEN call' = [call EXCEPT ![c] = IdleCall] /\ UNCHANGED <<claim, key>>
       ELSE call' = [call EXCEPT ![c].pc = "solver"] /\ claim' = TRUE /\ key' = "own"
    /\ UNCHANGED <<sessions, job, batches, runner, dog, stops, permits, history>>

\* wait_for_local_solver gave up: the claim is returned, the batch is not.
NoSolver(c) ==
    /\ call[c].pc = "solver"
    /\ call' = [call EXCEPT ![c] = IdleCall]
    /\ claim' = FALSE
    /\ key' = IF key = "own" THEN "free" ELSE key
    /\ UNCHANGED <<sessions, job, batches, runner, dog, stops, permits, history>>

\* Bound: the jobs of the model last for n more submissions.
JobsLast(n) == n <= Cardinality({s \in Job : job[s] = "none"})

\* The rest of the spawn: counters go on from where they were.
Spawn(c) ==
    /\ call[c].pc = "solver" /\ JobsLast(call[c].left)
    /\ call' = [call EXCEPT ![c] = IdleCall]
    /\ SetBatch([batch EXCEPT !.st = "running", !.cancel = FALSE])
    /\ runner' = [pc |-> "feeding", todo |-> call[c].left,
                  fin |-> batch.fin, ok |-> batch.ok, fail |-> batch.fail]
    /\ dog' = TRUE
    /\ overlap' = (overlap \/ call[c].left > Remaining(batch))
    /\ UNCHANGED <<sessions, job, claim, key, stops, permits,
                   enrolled, restarts, calls>>

\* The batch branch of start_registration, up to the spawn.
StartBatch ==
    /\ Known = NoBatch /\ call[Admin].pc = "idle"
    /\ SetBatch([st |-> "running", cancel |-> FALSE,
                 fin |-> 0, ok |-> 0, fail |-> 0, ids |-> {}])
    /\ call' = [call EXCEPT ![Admin] = AtStage("claim", Count, NoBatch)]
    /\ UNCHANGED <<sessions, job, claim, key, runner, dog, stops, permits, history>>

\* A tick of the watchdog: reclaim_orphaned_registration_batches.
Resumable(b) ==
    /\ b.st \in {"running", "stopping", "partial"} \/ (b.st = "error" /\ b.fin < Count)
    /\ ~(b.cancel /\ b.st \in StopStatus)
    /\ ~HasRunner /\ b.fin < Count

WatchdogResumes ==
    /\ dog /\ rbatch # NoBatch /\ Resumable(rbatch)
    /\ OpenResume(Dog, TRUE)
    /\ UNCHANGED <<job, claim, runner, dog, stops, permits, history>>

WatchdogReclaims ==
    /\ dog /\ rbatch # NoBatch /\ ~Resumable(rbatch) /\ Stale # {}
    /\ Reclaim(HasRunner)
    /\ SetBatch(Known)
    /\ UNCHANGED <<job, spawner, stops, permits, history>>

\* The lock of a process that is gone is left to its 90 seconds.
LockExpires ==
    /\ key = "former"
    /\ key' = "free"
    /\ UNCHANGED <<sessions, job, batches, claim, runner, call, dog, stops,
                   permits, history>>

\* _mirror_reg_sess: the copy of a session may be behind by a status that came within
\* the throttle interval; ends and stops are copied at once.
Lagging ==
    {s \in Job : \/ sess[s].st = "unlisted"
                 \/ sess[s].st = "open" /\ job[s] \in {"importing", "stored", "probing"}}

\* The process dies and is started again: Redis and the pool are what is left.
\* Bound: no more often than the jobs of the model last.
Restart ==
    /\ restarts < MaxRestarts
    /\ rbatch # NoBatch => JobsLast(Remaining(rbatch))
    /\ restarts' = restarts + 1
    /\ \E behind \in SUBSET Lagging :
          sess' = [s \in Job |->
                     IF s \in behind
                     THEN [sess[s] EXCEPT !.st = IF @ = "open" THEN "unlisted" ELSE "open"]
                     ELSE sess[s]]
    /\ job' = [s \in Job |-> IF job[s] = "none" THEN "none" ELSE "dead"]
    /\ batch' = NoBatch /\ recent' = FALSE /\ claim' = FALSE /\ dog' = FALSE
    /\ key' = IF key = "own" THEN "former" ELSE key
    /\ runner' = NoRunner /\ call' = [c \in {Admin, Dog} |-> IdleCall]
    /\ sweep' = {} /\ marking' = {} /\ permits' = Permits
    /\ UNCHANGED <<quiet, rbatch, enrolled, overlap, calls>>

-----------------------------------------------------------------------------
Worker(s) ==
    \/ Begin(s) \/ NoMailbox(s) \/ Prepare(s) \/ Launch(s)
    \/ Admit(s) \/ RefuseAdmission(s)
    \/ Advance(s, "started", "registering", "unlisted")
    \/ Advance(s, "registering", "importing", "open")
    \/ StoreAccount(s) \/ Settle(s) \/ Complete(s) \/ Fail(s) \/ Abort(s) \/ Close(s)

Runner == (\E s \in Job : Feed(s) \/ Collect(s)) \/ FinishBatch \/ ReleaseRunner
SpawnRunner(c) == Claim(c) \/ NoSolver(c) \/ Spawn(c)
Caller(c) == PlanResume(c) \/ SpawnRunner(c)
Watchdog == WatchdogResumes \/ WatchdogReclaims

Next ==
    \/ \E s \in Job : Worker(s) \/ StopOne(s) \/ StopLook(s) \/ StopMark(s) \/ GrowQuiet(s)
    \/ Runner \/ Renew \/ IntervalPasses
    \/ \E c \in {Admin, Dog} : Caller(c)
    \/ StopBatch \/ StopAgain \/ StopAll \/ ResumeBatch(TRUE) \/ ResumeBatch(FALSE) \/ StartBatch
    \/ Watchdog \/ LockExpires \/ Restart

Spec == Init /\ [][Next]_vars

\* Every call a worker or the runner makes ends by itself or times out, and
\* some thread that can go on does.
Fairness == WF_vars(Runner \/ \E s \in Job : Worker(s))

FairSpec == Spec /\ Fairness

-----------------------------------------------------------------------------
(* Properties *)

\* The slots of _global_reg_inflight: every job that was admitted and has not
\* settled holds one, whichever way it leaves, and nobody gives one back twice.
PermitsConserved ==
    permits + Cardinality({s \in Job : job[s] \in Holding}) = Permits

\* A runner never has more on its hands than the batch still lacks, and both
\* copies of the batch tell a sum that agrees.
CountersAgree ==
    /\ runner.pc = "feeding" /\ ~overlap =>
         runner.fin + Cardinality(InFlight) + runner.todo <= Count
    /\ \A b \in {batch, rbatch} \ {NoBatch} : b.fin = b.ok + b.fail

\* A success the batch shows is an account that is in the pool, through
\* stops, resumes and restarts.
NoPhantomSuccess ==
    \A b \in {batch, rbatch} \ {NoBatch} : b.ok <= enrolled

\* grok_build_adapter.py:4296: however often a batch is stopped and resumed, one
\* process never submits more registrations than were asked for.  A resume that has
\* counted what is left while another runner was at work does (Spawn's overlap), and so
\* does a process that has lost count of its predecessor's jobs.
OrderNotExceeded ==
    restarts = 0 /\ ~overlap => Cardinality({s \in Job : job[s] # "none"}) <= Count

\* One spawner at a time: whoever is past _try_acquire_batch_runner holds the
\* claim, and two calls never are.
OneSpawner ==
    Cardinality({c \in {Admin, Dog} : call[c].pc = "solver"}
                \cup {r \in {"runner"} : runner.pc # "none"}) = (IF claim THEN 1 ELSE 0)

\* Every runner comes to its end, whatever its workers run into: a batch that
\* is stopped drains, and none waits for ever for a slot.
RunnerEnds == []<>(runner.pc = "none")

=============================================================================
