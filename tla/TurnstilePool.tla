---------------------------- MODULE TurnstilePool ----------------------------
(***************************************************************************)
(* The browsers of the local captcha solver: warmed on demand under a      *)
(* lock, handed to tasks through a queue, closed when idle or by request.  *)
(*                                                                         *)
(* Source: src/turnstile-solver/api_solver.py.  All of it runs on one      *)
(* event loop, so a step is what happens between two awaits.               *)
(*                                                                         *)
(* A browser is external: it starts or fails to, and may disconnect at any *)
(* time.  What a task does inside its page (injection, clicks, rounds) is  *)
(* one step that ends with a token or without.                             *)
(***************************************************************************)
EXTENDS Naturals, Sequences, FiniteSets

CONSTANTS
    Task,       \* tasks that may be in progress at once
    Browser,    \* browser processes that may exist at once
    Threads,    \* thread_count
    MaxFaults,  \* bound: browsers that die or fail to start
    MaxReclaims \* bound: calls of /reclaim

Nobody == "nobody"
Reaper == "reaper"
Admin == "admin"
None == "none"

ASSUME PoolAssumption ==
    /\ Threads \in Nat \ {0} /\ MaxFaults \in Nat /\ MaxReclaims \in Nat
    /\ IsFiniteSet(Browser) /\ IsFiniteSet(Task)
    /\ Nobody \notin Task /\ Reaper \notin Task /\ Admin \notin Task /\ None \notin Browser

VARIABLES
    queue,    \* browser_pool
    owned,    \* _owned_browsers
    live,     \* browser processes that are connected
    ready,    \* _pool_ready
    driver,   \* _playwright or _camoufox is there
    inflight, \* _in_flight
    quiet,    \* age of _last_used: recent, past idle_sec, past twice that
    keeper,   \* who holds _pool_lock, and how far it is
    task,     \* each task: where it is and the browser it holds
    result,   \* results_db
    lapsed,   \* history: a reset of _in_flight hit a task in progress
    faults, reclaims

pool == <<queue, owned, live, ready, driver>>
bounds == <<faults, reclaims>>
vars == <<queue, owned, live, ready, driver, inflight, quiet, keeper, task, result,
          lapsed, faults, reclaims>>

Idle == [who |-> Nobody, does |-> "nothing", these |-> {}]
Off == [at |-> "off", b |-> None]
InProgress == {t \in Task : task[t].at \notin {"off", "created"}}
Held == {task[t].b : t \in Task} \ {None}
InQueue == {queue[i] : i \in 1 .. Len(queue)}

Init ==
    /\ queue = <<>> /\ owned = {} /\ live = {} /\ ready = FALSE /\ driver = FALSE
    /\ inflight = 0 /\ quiet = 0 /\ keeper = Idle /\ lapsed = FALSE
    /\ task = [t \in Task |-> Off] /\ result = [t \in Task |-> "none"]
    /\ faults = 0 /\ reclaims = 0

Goto(t, p) == task' = [task EXCEPT ![t].at = p]

-----------------------------------------------------------------------------
(* The keeper of the lock: _shutdown_browsers, _initialize_browser *)

\* The queue is emptied before the browsers are closed one by one.
StartShutdown(who) ==
    /\ keeper' = [who |-> who, does |-> "closing", these |-> owned]
    /\ owned' = {} /\ queue' = <<>>
    /\ UNCHANGED <<live, ready, driver>>

CloseOne(b) ==
    /\ keeper.does = "closing" /\ b \in keeper.these
    /\ keeper' = [keeper EXCEPT !.these = @ \ {b}]
    /\ live' = live \ {b}
    /\ UNCHANGED <<queue, owned, ready, driver, inflight, quiet, task, result, lapsed, bounds>>

\* The driver goes, with or without browsers a failed start has left behind,
\* and the counter of tasks is reset whoever is in progress.
EndShutdown ==
    /\ keeper.does = "closing" /\ keeper.these = {}
    /\ \E gone \in SUBSET (live \ (Held \cup InQueue)) :
           live' = live \ (IF driver THEN gone ELSE {})
    /\ driver' = FALSE /\ ready' = FALSE
    /\ inflight' = 0
    /\ lapsed' = (lapsed \/ InProgress # {})
    /\ IF keeper.who \in Task
       THEN keeper' = [keeper EXCEPT !.does = "launching"] /\ queue' = <<>>
       ELSE keeper' = Idle /\ UNCHANGED queue
    /\ UNCHANGED <<owned, quiet, task, result, bounds>>

\* A process that is nobody's yet; which one makes no difference.
Unused == Browser \ (live \cup Held \cup InQueue)

LaunchOne ==
    LET b == CHOOSE c \in Unused : TRUE
    IN  /\ keeper.does = "launching" /\ Cardinality(keeper.these) < Threads /\ Unused # {}
        /\ keeper' = [keeper EXCEPT !.these = @ \cup {b}]
        /\ live' = live \cup {b} /\ queue' = Append(queue, b) /\ driver' = TRUE
    /\ UNCHANGED <<owned, ready, inflight, quiet, task, result, lapsed, bounds>>

\* The exception leaves the browsers already started in the queue, unowned.
LaunchFails ==
    /\ keeper.does = "launching" /\ Cardinality(keeper.these) < Threads
    /\ faults < MaxFaults /\ faults' = faults + 1
    /\ driver' = TRUE
    /\ keeper' = Idle
    /\ Goto(keeper.who, "failed")
    /\ UNCHANGED <<queue, owned, live, ready, inflight, quiet, result, lapsed, reclaims>>

Resume(t) == Goto(t, IF task[t].at = "warming" THEN "wait" ELSE "wait2")

EndLaunch ==
    /\ keeper.does = "launching" /\ Cardinality(keeper.these) = Threads
    /\ owned' = keeper.these /\ ready' = TRUE /\ quiet' = 0
    /\ keeper' = Idle
    /\ Resume(keeper.who)
    /\ UNCHANGED <<queue, live, driver, inflight, result, lapsed, bounds>>

-----------------------------------------------------------------------------
(* A task: createTask, then _solve_turnstile *)

\* The slot of a finished task serves the next one.
Create(t) ==
    /\ task[t].at = "off"
    /\ Goto(t, "created")
    /\ result' = [result EXCEPT ![t] = "not ready"]
    /\ UNCHANGED <<pool, inflight, quiet, keeper, lapsed, bounds>>

Start(t) ==
    /\ task[t].at = "created"
    /\ Goto(t, "ensure")
    /\ inflight' = inflight + 1
    /\ UNCHANGED <<pool, quiet, keeper, result, lapsed, bounds>>

Ensuring(t) == task[t].at \in {"ensure", "ensure2"}
Waits(t) == Goto(t, IF task[t].at = "ensure" THEN "wait" ELSE "wait2")

\* _ensure_pool, when there is a browser: the lock is not needed.
FindWarm(t) ==
    /\ Ensuring(t) /\ ready /\ queue # <<>>
    /\ Waits(t)
    /\ quiet' = 0
    /\ UNCHANGED <<pool, inflight, keeper, result, lapsed, bounds>>

\* Under the lock: all browsers seem to be in use.
FindBusy(t) ==
    /\ Ensuring(t) /\ keeper = Idle
    /\ ready /\ queue = <<>> /\ inflight > 0
    /\ Waits(t)
    /\ quiet' = 0
    /\ UNCHANGED <<pool, inflight, keeper, result, lapsed, bounds>>

\* Under the lock: what is there is closed, then the pool is filled.
Warm(t) ==
    /\ Ensuring(t) /\ keeper = Idle
    /\ ~ready \/ (queue = <<>> /\ inflight = 0)
    /\ Goto(t, IF task[t].at = "ensure" THEN "warming" ELSE "warming2")
    /\ quiet' = 0
    /\ IF ready \/ owned # {} \/ driver
       THEN StartShutdown(t)
       ELSE /\ keeper' = [who |-> t, does |-> "launching", these |-> {}]
            /\ queue' = <<>>
            /\ UNCHANGED <<owned, live, ready, driver>>
    /\ UNCHANGED <<inflight, result, lapsed, bounds>>

\* Mutant of Counted: only a task that got a browser counts down.
CountedWithBrowser(t) == IF task[t].at = "solving" /\ inflight > 0 THEN inflight - 1 ELSE inflight

\* The finally block; a reset may have taken the count already.
Counted(t) == IF inflight > 0 THEN inflight - 1 ELSE 0

\* Mutant of Answer: a task that never got a browser leaves its entry as it is.
AnswerSolved(t, value) == IF task[t].at = "failed" THEN result[t] ELSE value

\* save_result
Answer(t, value) == value

End(t, value) ==
    /\ result' = [result EXCEPT ![t] = Answer(t, value)]
    /\ task' = [task EXCEPT ![t] = Off]
    /\ inflight' = Counted(t)
    /\ quiet' = 0

\* browser_pool.get, when the browser is connected.
Take(t) ==
    /\ task[t].at \in {"wait", "wait2"} /\ queue # <<>> /\ Head(queue) \in live
    /\ task' = [task EXCEPT ![t] = [at |-> "solving", b |-> Head(queue)]]
    /\ queue' = Tail(queue)
    /\ quiet' = 0
    /\ UNCHANGED <<owned, live, ready, driver, inflight, keeper, result, lapsed, bounds>>

\* When it is not, the browser goes back to the end of the queue.
TakeDead(t) ==
    /\ task[t].at \in {"wait", "wait2"} /\ queue # <<>> /\ Head(queue) \notin live
    /\ queue' = Append(Tail(queue), Head(queue))
    /\ End(t, "fail")
    /\ UNCHANGED <<owned, live, ready, driver, keeper, lapsed, bounds>>

\* 90 seconds, then another try after _ensure_pool; then 60 seconds.
WaitTimesOut(t) ==
    /\ queue = <<>>
    /\ \/ task[t].at = "wait" /\ Goto(t, "ensure2")
       \/ task[t].at = "wait2" /\ Goto(t, "failed")
    /\ UNCHANGED <<pool, inflight, quiet, keeper, result, lapsed, bounds>>

GiveUp(t) ==
    /\ task[t].at = "failed"
    /\ End(t, "fail")
    /\ UNCHANGED <<pool, keeper, lapsed, bounds>>

\* Mutant of Returned: put back by the solve and by its finally block.
ReturnedTwice(t) == Append(Append(queue, task[t].b), task[t].b)

\* A browser that is still connected is put back.
Returned(t) == IF task[t].b \in live THEN Append(queue, task[t].b) ELSE queue

Finish(t) ==
    /\ task[t].at = "solving"
    /\ \E value \in (IF task[t].b \in live THEN {"fail", "token"} ELSE {"fail"}) : End(t, value)
    /\ queue' = Returned(t)
    /\ UNCHANGED <<owned, live, ready, driver, keeper, lapsed, bounds>>

-----------------------------------------------------------------------------
(* The idle reaper, /reclaim, time and the browsers *)

\* Mutant of Reapable: tasks in flight do not count.
ReapableWhenIdle == quiet > 0

Reapable == quiet > 0 /\ (inflight = 0 \/ quiet = 2)

\* _idle_reaper: with tasks in flight only after twice the idle time.
Reap ==
    /\ keeper = Idle /\ (ready \/ owned # {})
    /\ Reapable
    /\ StartShutdown(Reaper)
    /\ UNCHANGED <<inflight, quiet, task, result, lapsed, bounds>>

Reclaim ==
    /\ keeper = Idle
    /\ reclaims < MaxReclaims /\ reclaims' = reclaims + 1
    /\ StartShutdown(Admin)
    /\ UNCHANGED <<inflight, quiet, task, result, lapsed, faults>>

TimePasses ==
    /\ quiet < 2 /\ quiet' = quiet + 1
    /\ UNCHANGED <<pool, inflight, keeper, task, result, lapsed, bounds>>

Crash(b) ==
    /\ b \in live
    /\ faults < MaxFaults /\ faults' = faults + 1
    /\ live' = live \ {b}
    /\ UNCHANGED <<queue, owned, ready, driver, inflight, quiet, keeper, task, result,
                   lapsed, reclaims>>

-----------------------------------------------------------------------------
Keep ==
    \/ \E b \in Browser : CloseOne(b)
    \/ EndShutdown \/ LaunchOne \/ LaunchFails \/ EndLaunch

Run(t) ==
    \/ Start(t) \/ FindWarm(t) \/ FindBusy(t) \/ Warm(t)
    \/ Take(t) \/ TakeDead(t) \/ WaitTimesOut(t) \/ GiveUp(t) \/ Finish(t)

Next ==
    \/ Keep
    \/ \E t \in Task : Create(t) \/ Run(t)
    \/ Reap \/ Reclaim \/ TimePasses \/ \E b \in Browser : Crash(b)

Spec == Init /\ [][Next]_vars

\* The event loop goes on: every wait has a timeout, and the lock is fair.
Fairness == WF_vars(Keep) /\ \A t \in Task : SF_vars(Run(t))

FairSpec == Spec /\ Fairness

-----------------------------------------------------------------------------
(* Properties *)

\* A browser is with one task, or in the queue once: two tasks never share one.
OneHolder ==
    /\ \A t, u \in Task : task[t].b = task[u].b /\ task[t].b # None => t = u
    /\ Held \cap InQueue = {}
    /\ \A i, j \in 1 .. Len(queue) : queue[i] = queue[j] => i = j

\* Line 1002, "never leave this sticky": the counter never holds more than the
\* tasks in progress, and no less unless a reset hit one of them.
InFlightPaired ==
    /\ inflight <= Cardinality(InProgress)
    /\ lapsed \/ inflight = Cardinality(InProgress)

\* The reaper takes no browser from a task that is at most idle_sec late,
\* unless a reset has made the task invisible to it.
ReaperSpares == [][Reap /\ quiet = 1 /\ ~lapsed => Held = {}]_vars

\* Every task that was created is answered, with a token or a failure.
TaskAnswered == \A t \in Task : []<>(result[t] # "not ready")

=============================================================================
