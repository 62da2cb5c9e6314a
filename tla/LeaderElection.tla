--------------------------- MODULE LeaderElection ---------------------------
(***************************************************************************)
(* Maintainer leader election over one Redis key with a time to live.      *)
(*                                                                         *)
(* Source: src/internal/store/redis/leader.go, the lock commands of        *)
(* locks.go and their Lua / non-atomic fallbacks of client.go.  Mode       *)
(* "auto" with more than one worker is modelled: "always", "never" and a   *)
(* single worker never reach Redis and keep isLeader constant.             *)
(*                                                                         *)
(* Time is a countdown.  ttl is what is left of the key, timer[w] what is  *)
(* left until the next tick of w's watchLoop, op[w] what is left of the    *)
(* two-second context of the tick that is running.  Elapse is one unit of  *)
(* time for everybody.  Tickers are punctual: a missed tick is a Redis     *)
(* error, which has the same effect on the state.                          *)
(***************************************************************************)
EXTENDS Naturals, FiniteSets

CONSTANTS
    Worker,     \* the worker identities, pid@host: a restart in place keeps it
    NoWorker,   \* the value of an absent key
    TTL,        \* lifetime given to the key by an acquisition or a renewal
    Interval,   \* period of watchLoop: min(Renew, TTL / 2)
    OpTime,     \* longest time one tick of watchLoop can take (its context)
    MaxFaults,  \* bound: failed Redis commands in a behaviour
    MaxBoots    \* bound: process starts in a behaviour

\* config.go accepts a TTL of at least 5 s; a tick is capped at 2 s and the
\* period at half the TTL, so a tick that starts on time ends before expiry.
ASSUME TimingAssumption ==
    /\ TTL \in Nat /\ Interval \in Nat \ {0} /\ OpTime \in Nat \ {0}
    /\ Interval + OpTime < TTL
ASSUME BoundAssumption == MaxFaults \in Nat /\ MaxBoots \in Nat
ASSUME NoWorkerAssumption == NoWorker \notin Worker

VARIABLES
    owner,      \* the value of g2a:lock:maintainer_leader
    ttl,        \* its remaining lifetime
    isLeader,   \* Leader.isLeader, the flag IsLeader() answers from
    started,    \* Leader.started: the watch goroutine exists
    pc,         \* what the electing goroutine of a worker does next
    timer,      \* time to the next tick of a worker's watchLoop
    op,         \* time left to the tick in progress
    rel,        \* what the goroutine running Release does next
    degraded,   \* history: since w last proved that it owns the key, a command
                \* of w failed or a fallback of another worker removed the key
    faults,     \* failed Redis commands so far
    boots       \* process starts so far

redis == <<owner, ttl>>
vars == <<owner, ttl, isLeader, started, pc, timer, op, rel, degraded, faults, boots>>

TryPC == {"setnx", "readOwner", "renewTry"}          \* TryBecomeLeader
RenewFallbackPC == {"fallbackGet", "fallbackExpire"}
HandlerPC == {"get", "renew"} \cup TryPC \cup RenewFallbackPC
PC == {"down", "idle", "watchEnded"} \cup HandlerPC
ReleasePC == {"none", "delete", "fallbackGet", "fallbackDel", "unflag", "done"}

TypeOK ==
    /\ owner \in Worker \cup {NoWorker}
    /\ ttl \in 0 .. TTL
    /\ isLeader \in [Worker -> BOOLEAN]
    /\ started \in [Worker -> BOOLEAN]
    /\ pc \in [Worker -> PC]
    /\ timer \in [Worker -> 0 .. Interval]
    /\ op \in [Worker -> 0 .. OpTime]
    /\ rel \in [Worker -> ReleasePC]
    /\ degraded \in [Worker -> BOOLEAN]
    /\ faults \in 0 .. MaxFaults
    /\ boots \in 0 .. MaxBoots

Init ==
    /\ owner = NoWorker /\ ttl = 0
    /\ isLeader = [w \in Worker |-> FALSE]
    /\ started = [w \in Worker |-> FALSE]
    /\ pc = [w \in Worker |-> "down"]
    /\ timer = [w \in Worker |-> Interval]
    /\ op = [w \in Worker |-> OpTime]
    /\ rel = [w \in Worker |-> "none"]
    /\ degraded = [w \in Worker |-> FALSE]
    /\ faults = 0 /\ boots = 0

-----------------------------------------------------------------------------
\* Redis.

Key(w, t) == owner' = w /\ ttl' = t
DropKey == Key(NoWorker, 0)

\* A command that returns an error.
Fault == faults < MaxFaults /\ faults' = faults + 1
NoFault == UNCHANGED faults

-----------------------------------------------------------------------------
\* Helpers of the electing goroutine.

Goto(w, label) == pc' = [pc EXCEPT ![w] = label]

\* setLeader(lead) and the end of the handler: at start-up ensureWatch then
\* starts the ticker; in watchLoop the ticker has kept running.
Finish(w, lead) ==
    /\ isLeader' = [isLeader EXCEPT ![w] = lead]
    /\ Goto(w, "idle")
    /\ started' = [started EXCEPT ![w] = TRUE]
    /\ timer' = [timer EXCEPT ![w] = IF started[w] THEN @ ELSE Interval]
    /\ op' = [op EXCEPT ![w] = OpTime]
    /\ UNCHANGED <<rel, boots>>

\* The handler goes on with another command.
Continue(w, label) ==
    /\ Goto(w, label)
    /\ UNCHANGED <<isLeader, started, timer, op, rel, boots>>

MarkDegraded(w) == degraded' = [degraded EXCEPT ![w] = TRUE]
Proved(w) == degraded' = [degraded EXCEPT ![w] = FALSE]

-----------------------------------------------------------------------------
\* Process life cycle and time.

\* main.go: the process starts and ShouldStartMaintainers runs TryBecomeLeader.
Boot(w) ==
    /\ pc[w] = "down" /\ boots < MaxBoots
    /\ boots' = boots + 1
    /\ Goto(w, "setnx")
    /\ UNCHANGED <<owner, ttl, isLeader, started, timer, op, rel, degraded, faults>>

\* The process exits or is killed, at any point: its memory is lost, the key stays.
Die(w) ==
    /\ pc[w] # "down"
    /\ Goto(w, "down")
    /\ isLeader' = [isLeader EXCEPT ![w] = FALSE]
    /\ started' = [started EXCEPT ![w] = FALSE]
    /\ timer' = [timer EXCEPT ![w] = Interval]
    /\ op' = [op EXCEPT ![w] = OpTime]
    /\ rel' = [rel EXCEPT ![w] = "none"]
    /\ degraded' = [degraded EXCEPT ![w] = FALSE]
    /\ UNCHANGED <<owner, ttl, faults, boots>>

Watching(w) == started[w] /\ pc[w] \notin {"down", "watchEnded"}

InTick(w) == Watching(w) /\ pc[w] # "idle"

\* One unit of time.  It can't pass over a due tick, the end of a tick's context,
\* or a select that finds stop closed.
Elapse ==
    /\ \A w \in Worker : Watching(w) =>
           IF pc[w] = "idle" THEN timer[w] > 0 /\ rel[w] = "none" ELSE op[w] > 0
    /\ IF ttl > 1 THEN Key(owner, ttl - 1) ELSE DropKey
    /\ timer' = [w \in Worker |-> IF Watching(w) /\ timer[w] > 0 THEN timer[w] - 1 ELSE timer[w]]
    /\ op' = [w \in Worker |-> IF InTick(w) THEN op[w] - 1 ELSE op[w]]
    /\ UNCHANGED <<isLeader, started, pc, rel, degraded, faults, boots>>

-----------------------------------------------------------------------------
\* watchLoop.

TickStart(w) ==
    /\ pc[w] = "idle" /\ started[w] /\ timer[w] = 0
    /\ timer' = [timer EXCEPT ![w] = Interval]
    /\ op' = [op EXCEPT ![w] = OpTime]
    /\ Goto(w, "get")
    /\ UNCHANGED <<owner, ttl, isLeader, started, rel, degraded, faults, boots>>

\* Defect: a free key is reported as "not leader" and not contended for.
TickGetNoContend(w) ==
    /\ pc[w] = "get"
    /\ \/ owner = w /\ Continue(w, "renew")
       \/ owner # w /\ Finish(w, FALSE)
    /\ NoFault /\ UNCHANGED <<owner, ttl, degraded>>

\* GET answered: renew one's own key, yield to another's, contend for a free one.
TickGet(w) ==
    /\ pc[w] = "get"
    /\ \/ owner = w /\ Continue(w, "renew")
       \/ owner \notin {w, NoWorker} /\ Finish(w, FALSE)
       \/ owner = NoWorker /\ Continue(w, "setnx")
    /\ NoFault /\ UNCHANGED <<owner, ttl, degraded>>

\* GET failed: the tick ends and the cached flag stays as it is.
TickGetFails(w) ==
    /\ pc[w] = "get"
    /\ Fault /\ MarkDegraded(w)
    /\ Finish(w, isLeader[w])
    /\ UNCHANGED redis

-----------------------------------------------------------------------------
\* TryBecomeLeader.

SetNX(w) ==
    /\ pc[w] = "setnx"
    /\ NoFault
    /\ \/ /\ owner = NoWorker /\ Key(w, TTL)
          /\ Proved(w) /\ Finish(w, TRUE)
       \/ /\ owner # NoWorker /\ UNCHANGED <<owner, ttl, degraded>>
          /\ Continue(w, "readOwner")

\* The reply is lost or the command never arrived: not leader, either way.
SetNXFails(w) ==
    /\ pc[w] = "setnx"
    /\ Fault /\ MarkDegraded(w)
    /\ \/ UNCHANGED redis
       \/ owner = NoWorker /\ Key(w, TTL)
    /\ Finish(w, FALSE)

ReadOwner(w) ==
    /\ pc[w] = "readOwner"
    /\ \/ owner = w /\ Continue(w, "renewTry")
       \/ owner # w /\ Finish(w, FALSE)
    /\ NoFault /\ UNCHANGED <<owner, ttl, degraded>>

ReadOwnerFails(w) ==
    /\ pc[w] = "readOwner"
    /\ Fault /\ MarkDegraded(w) /\ Finish(w, FALSE)
    /\ UNCHANGED redis

-----------------------------------------------------------------------------
\* RenewIfOwner: one script, or GET then EXPIRE when the script fails.

\* Defects: EXPIRE without the owner comparison; EXPIRE with the period, not the TTL.
RenewUnchecked(w) ==
    /\ pc[w] \in {"renew", "renewTry"}
    /\ NoFault /\ Proved(w) /\ Finish(w, TRUE)
    /\ IF owner = NoWorker THEN UNCHANGED redis ELSE Key(owner, TTL)
RenewShort(w) ==
    /\ pc[w] \in {"renew", "renewTry"}
    /\ NoFault
    /\ \/ owner = w /\ Key(w, Interval) /\ Proved(w) /\ Finish(w, TRUE)
       \/ owner # w /\ UNCHANGED <<owner, ttl, degraded>> /\ Finish(w, FALSE)

Renew(w) ==
    /\ pc[w] \in {"renew", "renewTry"}
    /\ NoFault
    /\ \/ owner = w /\ Key(w, TTL) /\ Proved(w) /\ Finish(w, TRUE)
       \/ owner # w /\ UNCHANGED <<owner, ttl, degraded>> /\ Finish(w, FALSE)

RenewFails(w) ==
    /\ pc[w] \in {"renew", "renewTry"}
    /\ Fault /\ MarkDegraded(w)
    /\ \/ UNCHANGED redis
       \/ owner = w /\ Key(w, TTL)
    /\ Continue(w, "fallbackGet")

RenewFallbackGet(w) ==
    /\ pc[w] = "fallbackGet"
    /\ \/ NoFault /\ owner = w /\ Continue(w, "fallbackExpire")
       \/ NoFault /\ owner # w /\ Finish(w, FALSE)
       \/ Fault /\ Finish(w, FALSE)
    /\ UNCHANGED <<owner, ttl, degraded>>

\* EXPIRE acts on whoever holds the key by now, and its count is not looked at.
Prolong == IF owner # NoWorker THEN Key(owner, TTL) ELSE UNCHANGED redis

RenewFallbackExpire(w) ==
    /\ pc[w] = "fallbackExpire"
    /\ \/ NoFault /\ Finish(w, TRUE) /\ Prolong
       \/ Fault /\ Finish(w, FALSE) /\ (Prolong \/ UNCHANGED redis)
    /\ UNCHANGED degraded

-----------------------------------------------------------------------------
\* Release, run once by the shutdown goroutine while a tick may be in progress.

ReleaseGoto(w, label) == rel' = [rel EXCEPT ![w] = label]
ReleaseFrame == UNCHANGED <<started, pc, timer, op, boots>>

\* close(stop)
ReleaseStart(w) ==
    /\ pc[w] # "down" /\ started[w] /\ rel[w] = "none"
    /\ ReleaseGoto(w, "delete")
    /\ ReleaseFrame /\ UNCHANGED <<owner, ttl, isLeader, degraded, faults>>

\* The watch goroutine sees stop closed; a due tick may win the select first.
WatchEnd(w) ==
    /\ pc[w] = "idle" /\ rel[w] # "none"
    /\ Goto(w, "watchEnded")
    /\ timer' = [timer EXCEPT ![w] = Interval]
    /\ UNCHANGED <<owner, ttl, isLeader, started, op, rel, degraded, faults, boots>>

\* CompareAndDelete, one script.
ReleaseDelete(w) ==
    /\ rel[w] = "delete"
    /\ IF owner = w THEN DropKey ELSE UNCHANGED redis
    /\ ReleaseGoto(w, "unflag")
    /\ ReleaseFrame /\ UNCHANGED <<isLeader, degraded, faults>>

ReleaseDeleteFails(w) ==
    /\ rel[w] = "delete"
    /\ Fault
    /\ \/ UNCHANGED redis
       \/ owner = w /\ DropKey
    /\ ReleaseGoto(w, "fallbackGet")
    /\ ReleaseFrame /\ UNCHANGED <<isLeader, degraded>>

ReleaseFallbackGet(w) ==
    /\ rel[w] = "fallbackGet"
    /\ \/ NoFault /\ owner = w /\ ReleaseGoto(w, "fallbackDel")
       \/ NoFault /\ owner # w /\ ReleaseGoto(w, "unflag")
       \/ Fault /\ ReleaseGoto(w, "unflag")
    /\ ReleaseFrame /\ UNCHANGED <<owner, ttl, isLeader, degraded>>

\* DEL is unconditional: the key may be somebody else's by now.
ReleaseFallbackDel(w) ==
    /\ rel[w] = "fallbackDel"
    /\ \/ NoFault /\ DropKey
       \/ Fault /\ (DropKey \/ UNCHANGED redis)
    /\ degraded' = [v \in Worker |-> degraded[v] \/ v = owner]
    /\ ReleaseGoto(w, "unflag")
    /\ ReleaseFrame /\ UNCHANGED isLeader

\* setLeader(false): the watch goroutine, if still in a tick, may set the flag
\* again.  (Nobody reads Leader.started any more: it stands here for the ticker.)
ReleaseUnflag(w) ==
    /\ rel[w] = "unflag"
    /\ isLeader' = [isLeader EXCEPT ![w] = FALSE]
    /\ ReleaseGoto(w, "done")
    /\ ReleaseFrame /\ UNCHANGED <<owner, ttl, degraded, faults>>

-----------------------------------------------------------------------------
Tick(w) ==
    \/ TickStart(w) \/ TickGet(w) \/ SetNX(w) \/ ReadOwner(w) \/ Renew(w)
    \/ RenewFallbackGet(w) \/ RenewFallbackExpire(w)
TickFault(w) ==
    TickGetFails(w) \/ SetNXFails(w) \/ ReadOwnerFails(w) \/ RenewFails(w)
ReleaseStep(w) ==
    \/ ReleaseDelete(w) \/ ReleaseDeleteFails(w) \/ ReleaseFallbackGet(w)
    \/ ReleaseFallbackDel(w) \/ ReleaseUnflag(w)

Next ==
    \/ Elapse
    \/ \E w \in Worker : Boot(w) \/ Die(w) \/ Tick(w) \/ TickFault(w)
                         \/ WatchEnd(w) \/ ReleaseStart(w) \/ ReleaseStep(w)

\* Time passes, and the goroutines of a live process run.
Fairness ==
    /\ WF_vars(Elapse)
    /\ \A w \in Worker : WF_vars(Tick(w)) /\ WF_vars(WatchEnd(w)) /\ WF_vars(ReleaseStep(w))

Spec == Init /\ [][Next]_vars
FairSpec == Spec /\ Fairness

-----------------------------------------------------------------------------
(* Properties. *)

Stopping(w) == rel[w] # "none"

\* A worker whose flag says leader, that is not shutting down and has seen no
\* Redis failure since it last proved ownership, does own the key: neither the
\* expiry nor a rival's tick can take the key away under a punctual watchLoop.
LeaderHoldsLock ==
    \A w \in Worker : isLeader[w] /\ ~degraded[w] /\ ~Stopping(w) => owner = w

\* The same invariant made inductive.  While a confirmed leader waits, its key
\* outlives the wait and one whole tick; while it runs a tick, the rest of the
\* tick.  This is the margin that the period of at most half the TTL buys.
Confirmed(w) == isLeader[w] /\ ~degraded[w] /\ ~Stopping(w)
Lease(w) ==
    /\ owner = w /\ started[w]
    /\ pc[w] = "idle" => ttl > timer[w] + OpTime
    /\ pc[w] \in {"get", "renew"} => ttl > op[w]
LeaseInv ==
    \A w \in Worker :
        /\ Confirmed(w) => Lease(w)
        /\ pc[w] \in TryPC => ~Confirmed(w)
        /\ pc[w] \in RenewFallbackPC => degraded[w]
        /\ pc[w] = "watchEnded" => Stopping(w)
        /\ pc[w] = "down" => ~isLeader[w]

\* Once faults and restarts are over, a worker that keeps watching is enough for
\* one to lead for ever: an orphaned key expires and ticks find out.
LeaderEmerges ==
    <>[](\E w \in Worker : Watching(w) /\ ~Stopping(w))
        => <>[](\E w \in Worker : isLeader[w] /\ owner = w)

=============================================================================
