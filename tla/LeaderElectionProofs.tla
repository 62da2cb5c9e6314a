------------------------ MODULE LeaderElectionProofs ------------------------
(***************************************************************************)
(* LeaderElection for any set of workers and any TTL, period and context   *)
(* that satisfy TimingAssumption: types, and LeaderHoldsLock by a lease    *)
(* argument.  A confirmed leader's key always outlives the rest of its     *)
(* period plus one whole tick (while it waits), or the rest of the tick    *)
(* (while it runs one), and every confirmed tick starts the lease again.   *)
(***************************************************************************)
EXTENDS LeaderElection, TLAPS

USE TimingAssumption, BoundAssumption, NoWorkerAssumption

\* TypeOK in two halves: what the goroutines of a worker keep, and the rest.
WorkerTypes ==
    /\ isLeader \in [Worker -> BOOLEAN]
    /\ started \in [Worker -> BOOLEAN]
    /\ pc \in [Worker -> PC]
    /\ timer \in [Worker -> 0 .. Interval]
    /\ op \in [Worker -> 0 .. OpTime]
    /\ rel \in [Worker -> ReleasePC]
    /\ boots \in 0 .. MaxBoots
SharedTypes ==
    /\ owner \in Worker \cup {NoWorker}
    /\ ttl \in 0 .. TTL
    /\ degraded \in [Worker -> BOOLEAN]
    /\ faults \in 0 .. MaxFaults

LEMMA TypeHalves == TypeOK <=> WorkerTypes /\ SharedTypes
BY DEF TypeOK, WorkerTypes, SharedTypes

\* The end of a handler keeps the types.
LEMMA FinishTypes ==
    ASSUME WorkerTypes, NEW w \in Worker, NEW lead \in BOOLEAN, Finish(w, lead)
    PROVE  WorkerTypes'
<1>1. timer' \in [Worker -> 0 .. Interval]
  BY DEF WorkerTypes, Finish
<1> QED
  BY <1>1 DEF WorkerTypes, Finish, Goto, PC, HandlerPC

\* So does going on with another command.
LEMMA ContinueTypes ==
    ASSUME WorkerTypes, NEW w \in Worker, NEW label \in HandlerPC, Continue(w, label)
    PROVE  WorkerTypes'
BY DEF WorkerTypes, Continue, Goto, PC

\* Every step keeps the types of what the goroutines keep.
LEMMA WorkerTypesStep ==
    ASSUME WorkerTypes, [Next]_vars PROVE WorkerTypes'
<1>1. CASE Elapse
  BY <1>1 DEF Elapse, Watching, InTick, WorkerTypes
<1>2. ASSUME NEW w \in Worker, Boot(w) PROVE WorkerTypes'
  BY <1>2 DEF Boot, Goto, WorkerTypes, PC, HandlerPC, TryPC
<1>3. ASSUME NEW w \in Worker, Die(w) PROVE WorkerTypes'
  BY <1>3 DEF Die, Goto, WorkerTypes, PC, ReleasePC
<1>4. ASSUME NEW w \in Worker, TickStart(w) PROVE WorkerTypes'
  BY <1>4 DEF TickStart, Goto, WorkerTypes, PC, HandlerPC
<1>5. ASSUME NEW w \in Worker, TickGet(w) \/ ReadOwner(w) PROVE WorkerTypes'
  BY <1>5, FinishTypes, ContinueTypes DEF TickGet, ReadOwner, HandlerPC, TryPC
<1>6. ASSUME NEW w \in Worker, TickGetFails(w) PROVE WorkerTypes'
  <2>1. isLeader[w] \in BOOLEAN
    BY DEF WorkerTypes
  <2> QED
    BY <1>6, <2>1, FinishTypes DEF TickGetFails
<1>7. ASSUME NEW w \in Worker, SetNX(w) \/ SetNXFails(w) PROVE WorkerTypes'
  BY <1>7, FinishTypes, ContinueTypes DEF SetNX, SetNXFails, HandlerPC, TryPC
<1>8. ASSUME NEW w \in Worker, ReadOwnerFails(w) \/ Renew(w) PROVE WorkerTypes'
  BY <1>8, FinishTypes DEF ReadOwnerFails, Renew
<1>9. ASSUME NEW w \in Worker, RenewFails(w) PROVE WorkerTypes'
  BY <1>9, ContinueTypes DEF RenewFails, HandlerPC, RenewFallbackPC
<1>10. ASSUME NEW w \in Worker, RenewFallbackGet(w) \/ RenewFallbackExpire(w)
       PROVE WorkerTypes'
  BY <1>10, FinishTypes, ContinueTypes
  DEF RenewFallbackGet, RenewFallbackExpire, HandlerPC, RenewFallbackPC
<1>11. ASSUME NEW w \in Worker, ReleaseStart(w) \/ WatchEnd(w) PROVE WorkerTypes'
  BY <1>11 DEF ReleaseStart, WatchEnd, ReleaseGoto, ReleaseFrame, Goto,
               WorkerTypes, ReleasePC, PC
<1>12. ASSUME NEW w \in Worker, ReleaseStep(w) PROVE WorkerTypes'
  BY <1>12 DEF ReleaseStep, ReleaseDelete, ReleaseDeleteFails, ReleaseFallbackGet,
               ReleaseFallbackDel, ReleaseUnflag, ReleaseGoto, ReleaseFrame,
               WorkerTypes, ReleasePC
<1>13. CASE UNCHANGED vars
  BY <1>13 DEF vars, WorkerTypes
<1> QED
  BY <1>1, <1>2, <1>3, <1>4, <1>5, <1>6, <1>7, <1>8, <1>9, <1>10, <1>11, <1>12, <1>13
  DEF Next, Tick, TickFault

\* What a step other than Elapse can do to the key.
KeyStep ==
    \/ UNCHANGED redis
    \/ \E w \in Worker : Key(w, TTL)
    \/ DropKey

\* The steps' effects on the key, the fault budget and the history, apart.
LEMMA SharedEffects ==
    ASSUME SharedTypes, NEW w \in Worker,
           Boot(w) \/ Die(w) \/ Tick(w) \/ TickFault(w) \/ WatchEnd(w)
           \/ ReleaseStart(w) \/ ReleaseStep(w)
    PROVE  KeyStep /\ (Fault \/ NoFault) /\ degraded' \in [Worker -> BOOLEAN]
<1>1. KeyStep
  <2>1. owner # NoWorker => owner \in Worker
    BY DEF SharedTypes
  <2> QED
    BY <2>1 DEF KeyStep, redis, Boot, Die, WatchEnd, ReleaseStart, Tick, TickStart, TickGet,
       SetNX, ReadOwner, Renew, RenewFallbackGet, RenewFallbackExpire, Prolong, TickFault,
       TickGetFails, SetNXFails, ReadOwnerFails, RenewFails, ReleaseStep, ReleaseDelete,
       ReleaseDeleteFails, ReleaseFallbackGet, ReleaseFallbackDel, ReleaseUnflag
<1>2. Fault \/ NoFault
  BY DEF NoFault, Boot, Die, WatchEnd, ReleaseStart, Tick, TickStart, TickGet,
     SetNX, ReadOwner, Renew, RenewFallbackGet, RenewFallbackExpire, Prolong, TickFault,
     TickGetFails, SetNXFails, ReadOwnerFails, RenewFails, ReleaseStep, ReleaseDelete,
     ReleaseDeleteFails, ReleaseFallbackGet, ReleaseFallbackDel, ReleaseUnflag
<1>3. \/ UNCHANGED degraded \/ Proved(w) \/ MarkDegraded(w)
      \/ degraded' = [degraded EXCEPT ![w] = FALSE]
      \/ degraded' = [v \in Worker |-> degraded[v] \/ v = owner]
  BY DEF Boot, Die, WatchEnd, ReleaseStart, Tick, TickStart, TickGet,
     SetNX, ReadOwner, Renew, RenewFallbackGet, RenewFallbackExpire, Prolong, TickFault,
     TickGetFails, SetNXFails, ReadOwnerFails, RenewFails, ReleaseStep, ReleaseDelete,
     ReleaseDeleteFails, ReleaseFallbackGet, ReleaseFallbackDel, ReleaseUnflag
<1>4. degraded' \in [Worker -> BOOLEAN]
  BY <1>3 DEF SharedTypes, Proved, MarkDegraded
<1> QED
  BY <1>1, <1>2, <1>4

\* Every step keeps the types of the key and of the history.
LEMMA SharedTypesStep ==
    ASSUME SharedTypes, [Next]_vars PROVE SharedTypes'
<1>1. CASE Elapse
  BY <1>1 DEF Elapse, SharedTypes, Key, DropKey
<1>2. CASE UNCHANGED vars
  BY <1>2 DEF vars, SharedTypes
<1>3. ASSUME KeyStep, Fault \/ NoFault, degraded' \in [Worker -> BOOLEAN]
      PROVE  SharedTypes'
  <2>1. owner' \in Worker \cup {NoWorker} /\ ttl' \in 0 .. TTL
    BY <1>3 DEF KeyStep, redis, Key, DropKey, SharedTypes
  <2>2. faults' \in 0 .. MaxFaults
    BY <1>3 DEF Fault, NoFault, SharedTypes
  <2> QED
    BY <1>3, <2>1, <2>2 DEF SharedTypes
<1> QED
  BY <1>1, <1>2, <1>3, SharedEffects DEF Next

\* Every variable keeps its type, whatever the constants.
THEOREM TypeCorrect == Spec => []TypeOK
<1>1. Init => WorkerTypes /\ SharedTypes
  BY DEF Init, WorkerTypes, SharedTypes, PC, ReleasePC
<1>2. WorkerTypes /\ SharedTypes /\ [Next]_vars => (WorkerTypes /\ SharedTypes)'
  BY WorkerTypesStep, SharedTypesStep
<1> QED
  BY <1>1, <1>2, TypeHalves, PTL DEF Spec

-----------------------------------------------------------------------------
\* LeaseInv of one worker.
LeaseOf(w) ==
    /\ Confirmed(w) => Lease(w)
    /\ pc[w] \in TryPC => ~Confirmed(w)
    /\ pc[w] \in RenewFallbackPC => degraded[w]
    /\ pc[w] = "watchEnded" => Stopping(w)
    /\ pc[w] = "down" => ~isLeader[w]

ProcessStep(v) ==
    \/ Boot(v) \/ Die(v) \/ Tick(v) \/ TickFault(v)
    \/ WatchEnd(v) \/ ReleaseStart(v) \/ ReleaseStep(v)

\* A step of v changes nothing that belongs to another worker w ...
LEMMA OthersFrame ==
    ASSUME TypeOK, NEW v \in Worker, NEW w \in Worker, v # w, ProcessStep(v)
    PROVE  /\ isLeader'[w] = isLeader[w] /\ started'[w] = started[w]
           /\ pc'[w] = pc[w] /\ timer'[w] = timer[w] /\ op'[w] = op[w]
           /\ rel'[w] = rel[w]
<1>1. CASE Boot(v) \/ Die(v) \/ WatchEnd(v) \/ ReleaseStart(v)
  BY <1>1 DEF Boot, Die, WatchEnd, ReleaseStart, Goto, ReleaseGoto, ReleaseFrame, TypeOK
<1>2. CASE ReleaseStep(v)
  BY <1>2 DEF ReleaseStep, ReleaseDelete, ReleaseDeleteFails, ReleaseFallbackGet,
     ReleaseFallbackDel, ReleaseUnflag, ReleaseGoto, ReleaseFrame, TypeOK
<1>3. CASE TickStart(v)
  BY <1>3 DEF TickStart, Goto, TypeOK
<1>4. CASE (Tick(v) /\ ~TickStart(v)) \/ TickFault(v)
  <2>1. \/ \E lead \in BOOLEAN : Finish(v, lead)
        \/ \E label \in HandlerPC : Continue(v, label)
    <3>1. isLeader[v] \in BOOLEAN
      BY DEF TypeOK
    <3> QED
      BY <1>4, <3>1 DEF Tick, TickGet, SetNX, ReadOwner, Renew, RenewFallbackGet,
         RenewFallbackExpire, TickFault, TickGetFails, SetNXFails, ReadOwnerFails,
         RenewFails, HandlerPC, TryPC, RenewFallbackPC
  <2> QED
    BY <2>1 DEF Finish, Continue, Goto, TypeOK
<1> QED
  BY <1>1, <1>2, <1>3, <1>4 DEF ProcessStep

\* ... and takes the key from w, or shortens its life, only if it marks w.
LEMMA OthersKey ==
    ASSUME TypeOK, NEW v \in Worker, NEW w \in Worker, v # w, ProcessStep(v),
           ~degraded'[w]
    PROVE  ~degraded[w] /\ (owner = w => owner' = w /\ ttl' >= ttl)
<1>1. w # NoWorker
  BY NoWorkerAssumption
<1>2. ttl \in 0 .. TTL /\ TTL \in Nat
  BY TimingAssumption DEF TypeOK
<1>3. CASE ReleaseFallbackDel(v)
  <2>1. degraded'[w] = (degraded[w] \/ w = owner)
    BY <1>3 DEF ReleaseFallbackDel
  <2> QED
    BY <2>1
<1>4. CASE ~ReleaseFallbackDel(v)
  <2>1. degraded'[w] = degraded[w]
    BY <1>4 DEF ProcessStep, Boot, Die, WatchEnd, ReleaseStart, Tick, TickStart, TickGet,
     SetNX, ReadOwner, Renew, RenewFallbackGet, RenewFallbackExpire, TickFault,
     TickGetFails, SetNXFails, ReadOwnerFails, RenewFails, ReleaseStep, ReleaseDelete,
     ReleaseDeleteFails, ReleaseFallbackGet, ReleaseUnflag, Proved, MarkDegraded, TypeOK
  <2>2. ASSUME owner = w PROVE UNCHANGED redis \/ Key(w, TTL)
    BY <1>1, <1>4, <2>2 DEF redis, ProcessStep, Boot, Die, WatchEnd, ReleaseStart, Tick,
     TickStart, TickGet, SetNX, ReadOwner, Renew, RenewFallbackGet, RenewFallbackExpire, Prolong,
     TickFault, TickGetFails, SetNXFails, ReadOwnerFails, RenewFails, ReleaseStep,
     ReleaseDelete, ReleaseDeleteFails, ReleaseFallbackGet, ReleaseUnflag
  <2> QED
    BY <1>2, <2>1, <2>2 DEF redis, Key
<1> QED
  BY <1>3, <1>4

\* So another worker's step keeps w's lease.
LEMMA OthersStep ==
    ASSUME TypeOK, NEW v \in Worker, NEW w \in Worker, v # w, ProcessStep(v), LeaseOf(w)
    PROVE  LeaseOf(w)'
<1> DEFINE Same == /\ isLeader'[w] = isLeader[w] /\ started'[w] = started[w]
                   /\ pc'[w] = pc[w] /\ timer'[w] = timer[w] /\ op'[w] = op[w]
                   /\ rel'[w] = rel[w]
<1>1. Same
  BY OthersFrame
<1>2. degraded[w] => degraded'[w]
  BY OthersKey
<1>3. Confirmed(w)' => Confirmed(w) /\ owner' = w /\ ttl' >= ttl
  BY <1>1, OthersKey DEF Confirmed, Stopping, Lease, LeaseOf
<1>4. ttl \in Nat /\ ttl' \in Nat /\ timer[w] \in Nat /\ op[w] \in Nat /\ OpTime \in Nat
  <2>1. SharedTypes'
    BY SharedTypesStep, TypeHalves DEF Next, ProcessStep
  <2> QED
    BY <2>1, TimingAssumption DEF TypeOK, SharedTypes
<1>5. Confirmed(w)' => Lease(w)'
  BY <1>1, <1>3, <1>4 DEF Lease, LeaseOf
<1> QED
  BY <1>1, <1>2, <1>3, <1>5 DEF LeaseOf, Stopping

\* Its own steps: a proof of ownership starts the lease again, any other end of
\* a handler gives the flag up or marks the worker.
LEMMA OwnStep ==
    ASSUME TypeOK, NEW w \in Worker, ProcessStep(w), LeaseOf(w)
    PROVE  LeaseOf(w)'
<1> USE TimingAssumption DEF LeaseOf, Confirmed, Lease, Stopping
<1>1. CASE Boot(w)
  BY <1>1 DEF Boot, Goto, TypeOK, TryPC, RenewFallbackPC
<1>2. CASE Die(w)
  BY <1>2 DEF Die, Goto, TypeOK, TryPC, RenewFallbackPC
<1>3. CASE TickStart(w)
  BY <1>3 DEF TickStart, Goto, TypeOK, TryPC, RenewFallbackPC
<1>4. ASSUME Finish(w, FALSE) PROVE LeaseOf(w)'
  BY <1>4 DEF Finish, Goto, TypeOK, TryPC, RenewFallbackPC
<1>5. ASSUME NEW lead \in BOOLEAN, Finish(w, lead), degraded'[w] PROVE LeaseOf(w)'
  BY <1>5 DEF Finish, Goto, TypeOK, TryPC, RenewFallbackPC
<1>6. ASSUME Finish(w, TRUE), Key(w, TTL) PROVE LeaseOf(w)'
  BY <1>6 DEF Finish, Key, Goto, TypeOK, TryPC, RenewFallbackPC
<1>7. CASE TickGet(w)
  <2>1. CASE owner = w /\ Continue(w, "renew")
    BY <1>7, <2>1 DEF TickGet, Continue, Goto, TypeOK, TryPC, RenewFallbackPC
  <2>2. CASE Continue(w, "setnx") /\ owner = NoWorker
    BY <1>7, <2>2, NoWorkerAssumption
    DEF TickGet, Continue, Goto, TypeOK, TryPC, RenewFallbackPC
  <2> QED
    BY <1>4, <1>7, <2>1, <2>2 DEF TickGet
<1>8. CASE TickFault(w)
  <2>1. degraded'[w]
    BY <1>8 DEF TickFault, TickGetFails, SetNXFails, ReadOwnerFails, RenewFails,
       MarkDegraded, TypeOK
  <2>2. CASE RenewFails(w)
    BY <2>1, <2>2 DEF RenewFails, Continue, Goto, TypeOK, TryPC, RenewFallbackPC
  <2>3. isLeader[w] \in BOOLEAN
    BY DEF TypeOK
  <2> QED
    BY <1>5, <1>8, <2>1, <2>2, <2>3 DEF TickFault, TickGetFails, SetNXFails, ReadOwnerFails
<1>9. CASE SetNX(w) \/ ReadOwner(w) \/ Renew(w)
  <2>1. ASSUME NEW label \in TryPC, Continue(w, label), pc[w] \in TryPC,
               UNCHANGED <<owner, ttl, degraded>>
        PROVE  LeaseOf(w)'
    BY <2>1 DEF Continue, Goto, TypeOK, TryPC, RenewFallbackPC
  <2> QED
    BY <1>4, <1>6, <1>9, <2>1 DEF SetNX, ReadOwner, Renew, TryPC
<1>10. CASE RenewFallbackGet(w) \/ RenewFallbackExpire(w)
  <2>1. degraded[w] /\ degraded' = degraded
    BY <1>10 DEF RenewFallbackGet, RenewFallbackExpire, RenewFallbackPC
  <2>2. CASE Continue(w, "fallbackExpire")
    BY <2>1, <2>2 DEF Continue, Goto, TypeOK, TryPC, RenewFallbackPC
  <2> QED
    BY <1>5, <1>10, <2>1, <2>2 DEF RenewFallbackGet, RenewFallbackExpire
<1>11. CASE ReleaseStart(w) \/ WatchEnd(w)
  BY <1>11 DEF ReleaseStart, WatchEnd, ReleaseGoto, ReleaseFrame, Goto, TypeOK, TryPC,
     RenewFallbackPC
<1>12. CASE ReleaseStep(w)
  <2>1. rel[w] # "none" /\ rel'[w] # "none" /\ pc' = pc
    BY <1>12 DEF ReleaseStep, ReleaseDelete, ReleaseDeleteFails, ReleaseFallbackGet,
       ReleaseFallbackDel, ReleaseUnflag, ReleaseGoto, ReleaseFrame, TypeOK
  <2>2. degraded[w] => degraded'[w]
    BY <1>12 DEF ReleaseStep, ReleaseDelete, ReleaseDeleteFails, ReleaseFallbackGet,
       ReleaseFallbackDel, ReleaseUnflag
  <2>3. ~isLeader[w] => ~isLeader'[w]
    BY <1>12 DEF ReleaseStep, ReleaseDelete, ReleaseDeleteFails, ReleaseFallbackGet,
       ReleaseFallbackDel, ReleaseUnflag, TypeOK
  <2> QED
    BY <2>1, <2>2, <2>3
<1> QED
  BY <1>1, <1>2, <1>3, <1>7, <1>8, <1>9, <1>10, <1>11, <1>12 DEF ProcessStep, Tick

\* A unit of time shortens the lease and the wait, or the tick, alike.
LEMMA ElapseStep ==
    ASSUME TypeOK, Elapse, NEW w \in Worker, LeaseOf(w)
    PROVE  LeaseOf(w)'
<1>1. UNCHANGED <<isLeader, started, pc, rel, degraded>>
  BY DEF Elapse
<1>2. ASSUME Confirmed(w), Lease(w) PROVE Lease(w)'
  <2>1. pc[w] = "idle" \/ pc[w] \in {"get", "renew"}
    BY <1>2 DEF LeaseOf, Confirmed, TypeOK, PC, HandlerPC
  <2>2. Watching(w) /\ w # NoWorker
    BY <1>2, <2>1, NoWorkerAssumption DEF Lease, Watching
  <2>3. CASE pc[w] = "idle"
    <3>1. timer[w] > 0 /\ timer'[w] = timer[w] - 1
      BY <2>2, <2>3 DEF Elapse
    <3> QED
      BY <1>1, <1>2, <2>3, <3>1, TimingAssumption DEF Elapse, Key, Lease, TypeOK
  <2>4. CASE pc[w] \in {"get", "renew"}
    <3>1. op[w] > 0 /\ op'[w] = op[w] - 1
      BY <2>2, <2>4 DEF Elapse, InTick
    <3> QED
      BY <1>1, <1>2, <2>4, <3>1, TimingAssumption DEF Elapse, Key, Lease, TypeOK
  <2> QED
    BY <2>1, <2>3, <2>4
<1> QED
  BY <1>1, <1>2 DEF LeaseOf, Confirmed, Stopping

\* The leases are inductive.
THEOREM LeasesKept == Spec => []LeaseInv
<1>1. Init => LeaseInv
  BY DEF Init, LeaseInv, Confirmed, TryPC, RenewFallbackPC
<1>2. TypeOK /\ LeaseInv /\ [Next]_vars => LeaseInv'
  <2> SUFFICES ASSUME TypeOK, LeaseInv, [Next]_vars, NEW w \in Worker
               PROVE  LeaseOf(w)'
    BY DEF LeaseInv, LeaseOf
  <2>1. LeaseOf(w)
    BY DEF LeaseInv, LeaseOf
  <2>2. CASE UNCHANGED vars
    BY <2>1, <2>2 DEF vars, LeaseOf, Confirmed, Lease, Stopping
  <2>3. ASSUME NEW v \in Worker, ProcessStep(v) PROVE LeaseOf(w)'
    BY <2>1, <2>3, OwnStep, OthersStep
  <2> QED
    BY <2>1, <2>2, <2>3, ElapseStep DEF Next, ProcessStep
<1> QED
  BY <1>1, <1>2, TypeCorrect, PTL DEF Spec

\* A worker that believes it leads, is not shutting down and has seen no Redis
\* failure since its last proof of ownership owns the key.
THEOREM ConfirmedLeaderHoldsLock == Spec => []LeaderHoldsLock
<1>1. LeaseInv => LeaderHoldsLock
  BY DEF LeaseInv, LeaderHoldsLock, Confirmed, Lease
<1> QED
  BY <1>1, LeasesKept, PTL

\* Hence, while Redis answers, at most one worker leads.
THEOREM OneConfirmedLeader ==
    Spec => [](\A v, w \in Worker : Confirmed(v) /\ Confirmed(w) => v = w)
<1>1. LeaderHoldsLock => \A v, w \in Worker : Confirmed(v) /\ Confirmed(w) => v = w
  BY DEF LeaderHoldsLock, Confirmed
<1> QED
  BY <1>1, ConfirmedLeaderHoldsLock, PTL

=============================================================================
