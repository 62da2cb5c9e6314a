----------------------------- MODULE Replenish -----------------------------
(***************************************************************************)
(* The pool fills itself up: when too few accounts can be rotated, a loop  *)
(* of the sidecar starts a batch of registrations.                         *)
(*                                                                         *)
(* Source: src/grok2api/pool/account_replenisher.py and the endpoints and  *)
(* the lifespan of scripts/registration_service.py.                        *)
(*                                                                         *)
(* The endpoints run in a pool of threads, so that two of them may be in   *)
(* start_background at once; nothing there is done under _lock.  With what *)
(* key a batch is started is in MailKeys.                                  *)
(***************************************************************************)
EXTENDS Naturals, FiniteSets

CONSTANTS
    Thread,    \* threads for the loop
    Starter,   \* the lifespan of the sidecar and requests to switch the loop on
    MaxStops, MaxFaults, MaxRunning  \* bounds

ASSUME ReplenishAssumption ==
    /\ "none" \notin Thread /\ "admin" \notin Thread
    /\ MaxStops \in Nat /\ MaxFaults \in Nat /\ MaxRunning \in Nat

VARIABLES
    enabled, low,  \* auto_replenish_enabled; the pool is below its minimum
    running,  \* batches of registrations that run
    pc,       \* the callers of run_once
    current,  \* _thread
    starting, \* how far each starter is in start_background
    beside,   \* history: starters that were in it at the same time as another
    stop, stopping,  \* _stop; stop_background waits for the thread
    cooling,  \* 90 seconds from the last successful trigger
    alone,    \* history: no two callers at once, no other start, every listing was answered
    left,     \* history: threads that a stop let go
    doubled,  \* history: threads that two starts at once have left to run
    faults    \* batches that could not be started

switches == <<current, starting, beside, stop, stopping, left, doubled>>
world == <<enabled, low>>
replenishVars == <<world, running, pc, switches, cooling, alone, faults>>

Caller == Thread \cup {"admin"}

\* made: the thread exists and was not started yet.
Places == {"none", "made", "wait", "count", "busy", "start"}

ReplenishInit ==
    /\ enabled \in BOOLEAN /\ low = FALSE /\ running = 0
    /\ pc = [c \in Caller |-> "none"]
    /\ current = "none" /\ stop = FALSE /\ stopping = "none"
    /\ starting = [s \in Starter |-> "none"] /\ beside = {}
    /\ cooling = FALSE /\ alone = TRUE /\ left = {} /\ doubled = {} /\ faults = 0

-----------------------------------------------------------------------------
(* run_once, step by step, by the loop or by the administrator *)

Checking(c) == pc[c] \in {"count", "busy", "start"}
Goto(c, at) == pc' = [pc EXCEPT ![c] = at]
Returns(c) == Goto(c, IF c = "admin" THEN "none" ELSE "wait")
NobodyElse(c) == \A d \in Caller \ {c} : ~Checking(d)

\* What the callers of run_once leave alone.
Rest == <<world, switches>>

\* _account_count: zero accounts where they cannot be counted.
Count(c, fails) ==
    /\ pc[c] = "count"
    /\ IF low \/ fails THEN Goto(c, "busy") ELSE Returns(c)
    /\ UNCHANGED <<Rest, running, cooling, alone, faults>>

\* Mutant of Idle: registrations that run do not count.
IdleAlways(fails) == TRUE

\* _active_registration: nothing runs where it cannot be listed.
Idle(fails) == running = 0 \/ fails

Busy(c, fails) ==
    /\ pc[c] = "busy"
    /\ IF enabled /\ Idle(fails) /\ ~cooling THEN Goto(c, "start") ELSE Returns(c)
    /\ alone' = (alone /\ ~fails)
    /\ UNCHANGED <<Rest, running, cooling, faults>>

\* registration_available: the engine or the solver is not ready.
StartFails(c) ==
    /\ pc[c] = "start" /\ Returns(c)
    /\ faults < MaxFaults /\ faults' = faults + 1
    /\ UNCHANGED <<Rest, running, cooling, alone>>

StartBatch(c) ==
    /\ pc[c] = "start" /\ Returns(c)
    /\ running < MaxRunning /\ running' = running + 1
    /\ cooling' = TRUE
    /\ UNCHANGED <<Rest, alone, faults>>

\* _start_registration_batch
Launch(c) == StartFails(c) \/ StartBatch(c)

RunOnce(c) == Launch(c) \/ \E fails \in BOOLEAN : Count(c, fails) \/ Busy(c, fails)

CoolingEnds ==
    /\ cooling /\ cooling' = FALSE
    /\ UNCHANGED <<Rest, running, pc, alone, faults>>

-----------------------------------------------------------------------------
(* The loop *)

\* The head of the loop.
Top(t) ==
    /\ Goto(t, IF stop THEN "none" ELSE IF enabled THEN "count" ELSE "wait")
    /\ alone' = (alone /\ (stop \/ ~enabled \/ NobodyElse(t)))

\* Mutant of Wait: what switched itself off waits to be woken.
WaitEnabled(t) ==
    /\ pc[t] = "wait" /\ (stop \/ (enabled /\ ~low)) /\ Top(t)
    /\ UNCHANGED <<Rest, running, cooling, faults>>

\* The delay at the start or the interval ends, or _wakeup ends it early.
Wait(t) ==
    /\ pc[t] = "wait" /\ Top(t)
    /\ UNCHANGED <<Rest, running, cooling, faults>>

Loop(t) == Wait(t) \/ RunOnce(t)

\* Mutant of Alive: the thread is taken for dead.
NeverAlive(t) == FALSE

Looping(t) == pc[t] \notin {"none", "made"}
Alive(t) == t # "none" /\ Looping(t)

Apart == <<world, running, stopping, cooling, alone, faults>>

\* start_background, by the lifespan of the sidecar or by the administrator: nothing to
\* do where replenishing is switched off or the loop runs.
StartChecks(s) ==
    /\ starting[s] = "none" /\ enabled /\ ~Alive(current)
    /\ starting' = [starting EXCEPT ![s] = "checked"]
    /\ LET others == {o \in Starter : starting[o] # "none"}
       IN  beside' = IF others = {} THEN beside ELSE beside \cup others \cup {s}
    /\ UNCHANGED <<Apart, pc, current, stop, left, doubled>>

\* The event is cleared and a new thread put into _thread, where another may be.
StartAssigns(s) ==
    /\ starting[s] = "checked" /\ starting' = [starting EXCEPT ![s] = "assigned"]
    /\ \E t \in Thread \ {current} :
          /\ ~Looping(t) /\ Goto(t, "made")
          /\ current' = t /\ stop' = FALSE
    /\ UNCHANGED <<Apart, beside, left, doubled>>

\* Whatever thread _thread is now, it is started, unless it was before.
StartRuns(s) ==
    /\ starting[s] = "assigned" /\ starting' = [starting EXCEPT ![s] = "none"]
    /\ IF current # "none" /\ pc[current] = "made"
       THEN /\ Goto(current, "wait") /\ left' = left \ {current}
            /\ doubled' = IF s \in beside THEN doubled \cup {current} ELSE doubled \ {current}
       ELSE UNCHANGED <<pc, left, doubled>>
    /\ beside' = beside \ {s}
    /\ UNCHANGED <<Apart, current, stop>>

Starts(s) == StartChecks(s) \/ StartAssigns(s) \/ StartRuns(s)

\* stop_background
Stop ==
    /\ stopping = "none" /\ stop' = TRUE
    /\ IF Alive(current) THEN stopping' = current /\ UNCHANGED current
       ELSE current' = "none" /\ UNCHANGED stopping
    /\ UNCHANGED <<world, running, pc, starting, beside, left, doubled, cooling, alone, faults>>

\* The thread has ended, or two seconds have passed.  Whatever thread there is now, it
\* is let go.
Joined ==
    /\ stopping # "none"
    /\ IF Alive(current)
       THEN Cardinality(left) < MaxStops /\ left' = left \cup {current}
       ELSE UNCHANGED left
    /\ stopping' = "none" /\ current' = "none"
    /\ UNCHANGED <<world, running, pc, starting, beside, stop, doubled, cooling, alone, faults>>

-----------------------------------------------------------------------------
(* The administrator, the registrations and the pool *)

\* POST auto-replenish/run
RunByHand ==
    /\ pc["admin"] = "none" /\ Goto("admin", "count")
    /\ alone' = (alone /\ NobodyElse("admin"))
    /\ UNCHANGED <<Rest, running, cooling, faults>>

\* start_job: the form of the console.
StartJob ==
    /\ running < MaxRunning /\ running' = running + 1
    /\ alone' = FALSE
    /\ UNCHANGED <<Rest, pc, cooling, faults>>

\* A batch is over when its sessions are, as the listing counts them.
BatchEnds ==
    /\ running > 0 /\ running' = running - 1
    /\ UNCHANGED <<Rest, pc, cooling, alone, faults>>

PoolChanges ==
    /\ low' = ~low
    /\ UNCHANGED <<enabled, switches, running, pc, cooling, alone, faults>>

Switch ==
    /\ enabled' = ~enabled
    /\ UNCHANGED <<low, switches, running, pc, cooling, alone, faults>>

\* The sidecar is restarted; the batches go on or are there to be resumed.
Restart ==
    /\ pc' = [c \in Caller |-> "none"] /\ current' = "none" /\ stopping' = "none"
    /\ starting' = [s \in Starter |-> "none"] /\ beside' = {}
    /\ stop' = FALSE /\ cooling' = FALSE /\ left' = {} /\ doubled' = {}
    /\ UNCHANGED <<world, running, alone, faults>>

ReplenishNext ==
    \/ \E t \in Thread : Loop(t)
    \/ RunOnce("admin") \/ RunByHand
    \/ CoolingEnds \/ BatchEnds \/ PoolChanges \/ Switch \/ Restart \/ StartJob
    \/ Stop \/ Joined
    \/ \E s \in Starter : Starts(s)

ReplenishSpec == ReplenishInit /\ [][ReplenishNext]_replenishVars

\* Threads are scheduled, intervals and cooldowns end; nobody has to press a button, and
\* no batch has to end.
ReplenishFairness ==
    WF_replenishVars(CoolingEnds) /\ \A t \in Thread : WF_replenishVars(Loop(t))

-----------------------------------------------------------------------------
\* Where one caller at a time asks and is answered, the pool is never filled up twice
\* at once, not even when the cooldown is over before the batch has ended.
NoPileUp == alone => running <= 1

\* There is one loop, one more for each that a stop let go, and those of starts that were
\* in start_background at the same time: starts, stops and their waits that do not overlap
\* never leave a second one.
LoopsBounded ==
    Cardinality({t \in Thread : Looping(t)} \ (left \cup doubled)) <= 1

\* A pool below its minimum is filled up: as long as replenishing is enabled, its loop
\* runs and no batch does, one is started.
PoolRefilled ==
    []<>~(enabled /\ low /\ running = 0 /\ ~stop /\ \E t \in Thread : Looping(t))

=============================================================================
