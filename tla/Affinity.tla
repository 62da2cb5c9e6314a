------------------------------ MODULE Affinity ------------------------------
(***************************************************************************)
(* Sticky pins: which account a conversation stays on.                     *)
(*                                                                         *)
(* Source: src/internal/store/redis/affinity*.go and, for the turns that   *)
(* read and move the pin, the failover of src/internal/proxy/chat.go.      *)
(*                                                                         *)
(* One fingerprint.  Its pin lives in Redis and, for 30 minutes, in the    *)
(* local cache of every process that used it.  A bind updates the local    *)
(* cache and leaves the Redis write to a goroutine per key, which takes    *)
(* the latest pending account, writes it, caches it locally and looks      *)
(* again.  A turn looks the pin up, tries accounts, binds the one that     *)
(* answered, and drops a pin whose account failed for good.                *)
(*                                                                         *)
(* Left out: the entry's metadata (hits, bound_at), the second fingerprint *)
(* that a turn with a prompt_cache_key treats the same way, the response   *)
(* map (the same coalescing without a clear), the size sweep of the cache. *)
(***************************************************************************)
EXTENDS Naturals

CONSTANTS
    Process,    \* worker processes
    Turn,       \* slots for the conversation's turns; a slot's turns are sequential
    Home,       \* the process that serves a slot
    Account,    \* account ids
    None,       \* no account
    MaxTurns,   \* bound: turns that each slot starts
    MaxLosses   \* bound: expiries, failed Redis calls and restarts

ASSUME HomeAssumption == Home \in [Turn -> Process]
ASSUME NoneAssumption == None \notin Account
ASSUME BoundAssumption == MaxTurns \in [Turn -> Nat] /\ MaxLosses \in Nat

VARIABLES
    local,      \* affinityCache, per process
    pending,    \* affinityPending, per process
    flushing,   \* affinityFlushing, per process
    writer,     \* the flush goroutines of each process
    redis,      \* g2a:affinity:<fingerprint>
    turn,       \* progress of the turn in each slot
    turns,      \* turns started in each slot
    pin,        \* history: the pin a process last queued or read
    missed,     \* history: processes that lost a write of theirs since they queued,
                \* or cleared the pin while one was under way
    losses      \* losses so far

caches == <<local, pending, flushing, writer>>
history == <<pin, missed>>
vars == <<local, pending, flushing, writer, redis, turn, turns, pin, missed, losses>>

Writer == 1 .. 2    \* room for a second goroutine per process, which must never run
Pin == Account \cup {None}

WriterState == [pc : {"off", "take"}, account : Pin] \cup [pc : {"set", "cache"}, account : Account]
WriterOff == [pc |-> "off", account |-> None]

\* "look", "get" and "cache" serve the lookup named by "why"; "drop", "unqueue"
\* and "del" are the three steps of a clear; "bind" and "queue" those of a bind.
TurnState ==
    [pc : {"idle", "look", "get", "cache", "serve", "bind", "queue", "drop", "unqueue", "del"},
     why : {"open", "note"}, path : {"whole", "stream"},
     miss : Pin, winner : Pin, read : Pin]
TurnOver == [pc |-> "idle", why |-> "open", path |-> "whole",
             miss |-> None, winner |-> None, read |-> None]

\* The stages of a turn that an account has answered.
Answering == {"bind", "queue", "drop", "unqueue", "del"}

TypeOK ==
    /\ local \in [Process -> Pin]
    /\ pending \in [Process -> Pin]
    /\ flushing \in [Process -> BOOLEAN]
    /\ writer \in [Process -> [Writer -> WriterState]]
    /\ redis \in Pin
    /\ turn \in [Turn -> TurnState]
    /\ \A t \in Turn : turn[t].pc \in Answering \/ turn[t].why = "note" =>
           turn[t].winner \in Account
    /\ \A t \in Turn : turn[t].pc = "cache" => turn[t].read \in Account
    /\ turns \in [Turn -> Nat] /\ \A t \in Turn : turns[t] <= MaxTurns[t]
    /\ pin \in [Process -> Pin]
    /\ missed \subseteq Process
    /\ losses \in 0 .. MaxLosses

Init ==
    /\ local = [p \in Process |-> None]
    /\ pending = [p \in Process |-> None]
    /\ flushing = [p \in Process |-> FALSE]
    /\ writer = [p \in Process |-> [w \in Writer |-> WriterOff]]
    /\ redis = None
    /\ turn = [t \in Turn |-> TurnOver]
    /\ turns = [t \in Turn |-> 0]
    /\ pin = [p \in Process |-> None]
    /\ missed = {}
    /\ losses = 0

Lose == losses < MaxLosses /\ losses' = losses + 1

-----------------------------------------------------------------------------
(* The lookup of a turn: first for its candidates, then in noteStickyOutcome. *)

Goto(t, pc) == turn' = [turn EXCEPT ![t].pc = pc]

StartTurn(t) ==
    /\ turn[t].pc = "idle" /\ turns[t] < MaxTurns[t]
    /\ turns' = [turns EXCEPT ![t] = @ + 1]
    /\ Goto(t, "look")
    /\ UNCHANGED <<caches, redis, history, losses>>

\* What a turn does with the account a lookup gave it.  Opening, the pin only
\* orders the candidates; afterwards, it is cleared if it is still the account
\* that failed.
Answered(t, account) ==
    \/ /\ turn[t].why = "open"
       /\ turn' = [turn EXCEPT ![t] = [TurnOver EXCEPT !.pc = "serve"]]
    \/ /\ turn[t].why = "note" /\ account = turn[t].miss
       /\ Goto(t, "drop")
    \/ /\ turn[t].why = "note" /\ account # turn[t].miss /\ turn[t].path = "whole"
       /\ Goto(t, "bind")
    \/ /\ turn[t].why = "note" /\ account # turn[t].miss /\ turn[t].path = "stream"
       /\ turn' = [turn EXCEPT ![t] = TurnOver]

LookLocal(t) ==
    LET p == Home[t] IN
    /\ turn[t].pc = "look"
    /\ IF local[p] # None THEN Answered(t, local[p]) ELSE Goto(t, "get")
    /\ UNCHANGED <<caches, redis, turns, history, losses>>

LookRedis(t) ==
    /\ turn[t].pc = "get"
    /\ \/ redis = None /\ Answered(t, None) /\ UNCHANGED losses
       \/ Lose /\ Answered(t, None)
       \/ redis # None /\ turn' = [turn EXCEPT ![t].pc = "cache", ![t].read = redis]
          /\ UNCHANGED losses
    /\ UNCHANGED <<caches, redis, turns, history>>

CacheRead(t) ==
    LET p == Home[t] IN
    /\ turn[t].pc = "cache"
    /\ local' = [local EXCEPT ![p] = turn[t].read]
    /\ pin' = [pin EXCEPT ![p] = turn[t].read]
    /\ Answered(t, turn[t].read)
    /\ UNCHANGED <<pending, flushing, writer, redis, turns, missed, losses>>

-----------------------------------------------------------------------------
(* The upstream attempts of a turn, over a chain that begins with "first": the *)
(* pinned account if it is eligible, so any account.                          *)

\* One account answered.  A first account that failed for good is noted as a
\* miss: a whole turn looks at once whether it was the pin, a stream turn after
\* it has bound the winner.
Served(path, miss, winner) ==
    [pc |-> IF path = "whole" /\ miss # None THEN "look" ELSE "bind",
     why |-> IF miss # None THEN "note" ELSE "open",
     path |-> path, miss |-> miss, winner |-> winner, read |-> None]

\* Not every failure is for good (shouldDropStickyPin).
Serve(t) ==
    /\ turn[t].pc = "serve"
    /\ \E first, winner \in Account, path \in {"whole", "stream"}, miss \in Pin :
          /\ miss \in (IF winner = first THEN {None} ELSE {None, first})
          /\ turn' = [turn EXCEPT ![t] = Served(path, miss, winner)]
    /\ UNCHANGED <<caches, redis, turns, history, losses>>

\* Every account fails: the pin is kept.
ServeNone(t) ==
    /\ turn[t].pc = "serve"
    /\ turn' = [turn EXCEPT ![t] = TurnOver]
    /\ UNCHANGED <<caches, redis, turns, history, losses>>

-----------------------------------------------------------------------------
(* BindAffinity of the adapter: local cache first, then the coalesced write.  *)

BindLocal(t) ==
    /\ turn[t].pc = "bind"
    /\ local' = [local EXCEPT ![Home[t]] = turn[t].winner]
    /\ Goto(t, "queue")
    /\ UNCHANGED <<pending, flushing, writer, redis, turns, history, losses>>

Spawn(p) ==
    \E w \in Writer :
        /\ writer[p][w].pc = "off"
        /\ \A v \in Writer : v < w => writer[p][v].pc # "off"
        /\ writer' = [writer EXCEPT ![p][w].pc = "take"]

\* A mutant: the flag is not tested, and every bind starts a goroutine.
BindQueueAlways(t) ==
    LET p == Home[t] IN
    /\ turn[t].pc = "queue"
    /\ pending' = [pending EXCEPT ![p] = turn[t].winner]
    /\ Spawn(p) /\ flushing' = [flushing EXCEPT ![p] = TRUE]
    /\ pin' = [pin EXCEPT ![p] = turn[t].winner]
    /\ missed' = missed \ {p}
    /\ turn' = [turn EXCEPT ![t] = IF turn[t].path = "stream" /\ turn[t].miss # None
                                   THEN [turn[t] EXCEPT !.pc = "look"] ELSE TurnOver]
    /\ UNCHANGED <<local, redis, turns, losses>>

\* After the bind, a stream turn whose pin missed looks whether to clear it; a
\* whole turn did so before it bound.
BindQueue(t) ==
    LET p == Home[t] IN
    /\ turn[t].pc = "queue"
    /\ pending' = [pending EXCEPT ![p] = turn[t].winner]
    /\ IF flushing[p] THEN UNCHANGED <<flushing, writer>>
       ELSE Spawn(p) /\ flushing' = [flushing EXCEPT ![p] = TRUE]
    /\ pin' = [pin EXCEPT ![p] = turn[t].winner]
    /\ missed' = missed \ {p}
    /\ turn' = [turn EXCEPT ![t] = IF turn[t].path = "stream" /\ turn[t].miss # None
                                   THEN [turn[t] EXCEPT !.pc = "look"] ELSE TurnOver]
    /\ UNCHANGED <<local, redis, turns, losses>>

-----------------------------------------------------------------------------
(* ClearAffinity of the adapter: local cache, pending write, Redis key.       *)

DropLocal(t) ==
    /\ turn[t].pc = "drop"
    /\ local' = [local EXCEPT ![Home[t]] = None]
    /\ Goto(t, "unqueue")
    /\ UNCHANGED <<pending, flushing, writer, redis, turns, history, losses>>

\* A write that the goroutine has taken is not called back.
DropPending(t) ==
    LET p == Home[t] IN
    /\ turn[t].pc = "unqueue"
    /\ pending' = [pending EXCEPT ![p] = None]
    /\ missed' = IF flushing[p] THEN missed \cup {p} ELSE missed
    /\ Goto(t, "del")
    /\ UNCHANGED <<local, flushing, writer, redis, turns, pin, losses>>

\* The error of the DEL is dropped.
Del(t) ==
    /\ turn[t].pc = "del"
    /\ \/ redis' = None /\ UNCHANGED <<missed, losses>>
       \/ Lose /\ missed' = missed \cup {Home[t]} /\ UNCHANGED redis
    /\ turn' = [turn EXCEPT ![t] = IF turn[t].path = "whole"
                                   THEN [turn[t] EXCEPT !.pc = "bind"] ELSE TurnOver]
    /\ UNCHANGED <<caches, turns, pin>>

-----------------------------------------------------------------------------
(* The flush goroutine.                                                       *)

Take(p, w) ==
    /\ writer[p][w].pc = "take"
    /\ IF pending[p] = None
       THEN /\ flushing' = [flushing EXCEPT ![p] = FALSE]
            /\ writer' = [writer EXCEPT ![p][w] = WriterOff]
            /\ UNCHANGED pending
       ELSE /\ writer' = [writer EXCEPT ![p][w] = [pc |-> "set", account |-> pending[p]]]
            /\ pending' = [pending EXCEPT ![p] = None]
            /\ UNCHANGED flushing
    /\ UNCHANGED <<local, redis, turn, turns, history, losses>>

\* SETEX; when it fails the account is neither written nor cached, and the
\* error is dropped.
WriteRedis(p, w) ==
    /\ writer[p][w].pc = "set"
    /\ \/ /\ redis' = writer[p][w].account
          /\ writer' = [writer EXCEPT ![p][w].pc = "cache"]
          /\ UNCHANGED <<missed, losses>>
       \/ /\ Lose
          /\ missed' = missed \cup {p}
          /\ writer' = [writer EXCEPT ![p][w].pc = "take"]
          /\ UNCHANGED redis
    /\ UNCHANGED <<local, pending, flushing, turn, turns, pin>>

\* A mutant: the pending write is removed when it has been written, not when it
\* is taken, so that a newer one is removed with it.
CacheWrittenForgets(p, w) ==
    /\ writer[p][w].pc = "cache"
    /\ local' = [local EXCEPT ![p] = writer[p][w].account]
    /\ pending' = [pending EXCEPT ![p] = None]
    /\ writer' = [writer EXCEPT ![p][w].pc = "take"]
    /\ UNCHANGED <<flushing, redis, turn, turns, history, losses>>

CacheWritten(p, w) ==
    /\ writer[p][w].pc = "cache"
    /\ local' = [local EXCEPT ![p] = writer[p][w].account]
    /\ writer' = [writer EXCEPT ![p][w].pc = "take"]
    /\ UNCHANGED <<pending, flushing, redis, turn, turns, history, losses>>

-----------------------------------------------------------------------------
(* Time and restarts.                                                         *)

Slots(p) == {t \in Turn : Home[t] = p}
WriterIdle(p) == \A w \in Writer : writer[p][w].pc = "off"

\* Nothing in p is about to touch the pin: its writer is idle and its turns are
\* looking it up or waiting for upstream.
Settled(p) ==
    /\ WriterIdle(p)
    /\ \A t \in Slots(p) :
          turn[t].why = "open" /\ turn[t].pc \in {"idle", "look", "get", "cache", "serve"}

\* An entry ends only when nothing has touched it for 30 minutes (local) or for
\* a day (Redis).
LocalExpires(p) ==
    /\ Settled(p) /\ local[p] # None
    /\ Lose
    /\ local' = [local EXCEPT ![p] = None]
    /\ UNCHANGED <<pending, flushing, writer, redis, turn, turns, history>>

RedisExpires ==
    /\ \A p \in Process : Settled(p)
    /\ redis # None
    /\ Lose
    /\ redis' = None
    /\ UNCHANGED <<caches, turn, turns, history>>

Restart(p) ==
    /\ Lose
    /\ local' = [local EXCEPT ![p] = None]
    /\ pending' = [pending EXCEPT ![p] = None]
    /\ flushing' = [flushing EXCEPT ![p] = FALSE]
    /\ writer' = [writer EXCEPT ![p] = [w \in Writer |-> WriterOff]]
    /\ turn' = [t \in Turn |-> IF t \in Slots(p) THEN TurnOver ELSE turn[t]]
    /\ missed' = missed \cup {p}
    /\ UNCHANGED <<redis, turns, pin>>

-----------------------------------------------------------------------------
Look(t) == LookLocal(t) \/ LookRedis(t) \/ CacheRead(t)
Attempt(t) == Serve(t) \/ ServeNone(t)
Bind(t) == BindLocal(t) \/ BindQueue(t)
Clear(t) == DropLocal(t) \/ DropPending(t) \/ Del(t)
RunTurn(t) == Look(t) \/ Attempt(t) \/ Bind(t) \/ Clear(t)
Flush(p, w) == Take(p, w) \/ WriteRedis(p, w) \/ CacheWritten(p, w)

Next ==
    \/ \E t \in Turn : StartTurn(t) \/ RunTurn(t)
    \/ \E p \in Process, w \in Writer : Flush(p, w)
    \/ \E p \in Process : LocalExpires(p) \/ Restart(p)
    \/ RedisExpires

Spec == Init /\ [][Next]_vars

-----------------------------------------------------------------------------
(* Properties. *)

Running(p) == {w \in Writer : writer[p][w].pc # "off"}

\* affinityScheduleWrite: the flag of a key tells exactly whether its goroutine
\* runs, so there is at most one and no queued write is without one.
OneWriter ==
    \A p \in Process :
        /\ \A v, w \in Running(p) : v = w
        /\ flushing[p] <=> Running(p) # {}
        /\ pending[p] # None => flushing[p]

\* Where a process has one slot, lost no write and cleared none under way, its
\* pin settles on the last account it queued or read, whatever its goroutine was
\* writing when the turn bound; and what Redis holds is the pin of some process.
Sequential(p) == \E t \in Turn : Slots(p) = {t}

SettledPin ==
    /\ \A p \in Process :
          Sequential(p) /\ Settled(p) /\ p \notin missed => local[p] \in {None, pin[p]}
    /\ (\A p \in Process : Sequential(p) /\ Settled(p) /\ p \notin missed) =>
          redis \in {None} \cup {pin[p] : p \in Process}

=============================================================================
