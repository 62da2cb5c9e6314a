------------------------ MODULE TurnstilePoolProofs ------------------------
(***************************************************************************)
(* Theorems about TurnstilePool: no two tasks share a browser, and the     *)
(* counter that the reaper relies on is that of the tasks in progress.     *)
(*                                                                         *)
(* Neither is inductive alone.  A launch ends by moving the task that      *)
(* holds the lock, so Keeping says who that is: the only task that warms   *)
(* the pool, and a task whenever the pool is being filled.  Holding says   *)
(* that exactly the tasks that solve have a browser.                       *)
(***************************************************************************)
EXTENDS TurnstilePool, FiniteSetTheorems, TLAPS

Warming == {"warming", "warming2"}
Resting == {"off", "created"}
Stage == {"ensure", "ensure2", "wait", "wait2", "solving", "failed"} \cup Warming \cup Resting
\* Neither with the lock nor with a browser.
Free == Stage \ (Warming \cup {"solving"})

Tasked == task \in [Task -> [at : Stage, b : Browser \cup {None}]]
Kept ==
    keeper \in [who : Task \cup {Nobody, Reaper, Admin},
                does : {"nothing", "closing", "launching"}, these : SUBSET Browser]
Typed ==
    /\ Tasked /\ Kept
    /\ queue \in Seq(Browser) /\ owned \subseteq Browser
    /\ inflight \in Nat /\ lapsed \in BOOLEAN

Holding == \A t \in Task : task[t].b # None <=> task[t].at = "solving"

Keeping ==
    /\ \A t \in Task : keeper.who = t <=> task[t].at \in Warming
    /\ keeper.does = "launching" => keeper.who \in Task

\* OneHolder, without the sets.
One ==
    /\ \A t, u \in Task : task[t].b = task[u].b /\ task[t].b # None => t = u
    /\ \A t \in Task, i \in 1 .. Len(queue) : task[t].b # queue[i]
    /\ \A i, j \in 1 .. Len(queue) : queue[i] = queue[j] => i = j

LEMMA OneIs == ASSUME Typed PROVE One <=> OneHolder
  <1>1. \A i \in 1 .. Len(queue) : queue[i] # None BY PoolAssumption DEF Typed
  <1>2. Held \cap InQueue = {} <=> \A t \in Task, i \in 1 .. Len(queue) : task[t].b # queue[i]
    BY <1>1 DEF Held, InQueue
  <1> QED BY <1>2 DEF One, OneHolder

-----------------------------------------------------------------------------
(* The tasks *)

LEMMA GotoIs ==
  ASSUME Tasked, NEW t \in Task, NEW p \in Stage, Goto(t, p)
  PROVE  /\ Tasked' /\ task'[t].at = p /\ task'[t].b = task[t].b
         /\ \A u \in Task : u # t => task'[u] = task[u]
  <1>1. task' = [task EXCEPT ![t] = [task[t] EXCEPT !.at = p]] BY DEF Goto
  <1>2. task'[t] = [task[t] EXCEPT !.at = p] BY <1>1 DEF Tasked
  <1> QED BY <1>1, <1>2 DEF Tasked

LEMMA EndIs ==
  ASSUME Tasked, NEW t \in Task, NEW v, End(t, v)
  PROVE  /\ Tasked' /\ task'[t].at = "off" /\ task'[t].b = None
         /\ \A u \in Task : u # t => task'[u] = task[u]
  BY DEF Tasked, End, Off, Stage, Resting

LEMMA TakeIs ==
  ASSUME Typed, NEW t \in Task, Take(t)
  PROVE  /\ Tasked' /\ task'[t].at = "solving" /\ task'[t].b = Head(queue)
         /\ \A u \in Task : u # t => task'[u] = task[u]
         /\ Head(queue) = queue[1] /\ Head(queue) \in Browser
         /\ queue' \in Seq(Browser) /\ Len(queue') = Len(queue) - 1
         /\ \A i \in 1 .. Len(queue') : queue'[i] = queue[i + 1]
  <1>1. queue \in Seq(Browser) /\ queue # <<>> /\ queue' = Tail(queue) BY DEF Take, Typed
  <1>2. Head(queue) = queue[1] /\ Head(queue) \in Browser BY <1>1
  <1> QED BY <1>1, <1>2 DEF Tasked, Typed, Take, Stage

\* A task goes from one stage in progress to another: no browser changes hands.
Moves(t, from, to) ==
    /\ task[t].at \in from /\ task'[t].at \in to /\ task'[t].b = task[t].b
    /\ Tasked' /\ \A u \in Task : u # t => task'[u] = task[u]

-----------------------------------------------------------------------------
(* The steps that are not a task's: what they do to the queue and the lock *)

LEMMA LaunchIs ==
  ASSUME LaunchOne
  PROVE  \E b \in Unused : /\ keeper.does = "launching"
                           /\ keeper' = [keeper EXCEPT !.these = @ \cup {b}]
                           /\ queue' = Append(queue, b)
  <1> DEFINE b == CHOOSE c \in Unused : TRUE
  <1>1. Unused # {} BY DEF LaunchOne
  <1>2. b \in Unused BY <1>1
  <1>3. /\ keeper.does = "launching" /\ keeper' = [keeper EXCEPT !.these = @ \cup {b}]
        /\ queue' = Append(queue, b)
    BY DEF LaunchOne
  <1> HIDE DEF b
  <1> QED BY <1>2, <1>3

-----------------------------------------------------------------------------
(* Types, who holds a browser, who holds the lock *)

Base == Typed /\ Holding /\ Keeping

LEMMA InitBase == Init => Base
  <1> SUFFICES ASSUME Init PROVE Base OBVIOUS
  <1>1. Typed
    <2>1. Tasked BY DEF Init, Tasked, Off, Stage, Resting
    <2>2. Kept BY DEF Init, Kept, Idle
    <2>3. queue = <<>> /\ queue \in Seq(Browser) BY DEF Init
    <2>4. inflight \in Nat /\ lapsed \in BOOLEAN /\ owned \subseteq Browser BY DEF Init
    <2> QED BY <2>1, <2>2, <2>3, <2>4 DEF Typed
  <1>2. Holding BY DEF Init, Holding, Off
  <1>3. Keeping BY PoolAssumption DEF Init, Keeping, Off, Idle, Warming
  <1> QED BY <1>1, <1>2, <1>3 DEF Base

\* A task that moves and leaves the lock alone.
LEMMA MoveBase ==
  ASSUME Base, NEW t \in Task,
         Moves(t, Free, Free),
         queue' \in Seq(Browser), inflight' \in Nat, UNCHANGED <<owned, keeper, lapsed>>
  PROVE  Base'
  <1>1. Typed' BY DEF Base, Typed, Kept, Moves
  <1>2. Holding' BY DEF Base, Holding, Moves, Free
  <1>3. Keeping' BY DEF Base, Keeping, Moves, Free
  <1> QED BY <1>1, <1>2, <1>3 DEF Base

\* A step of the lock's holder that leaves the tasks alone.
LEMMA KeepBase ==
  ASSUME Base, UNCHANGED <<task, inflight, lapsed>>,
         keeper' \in [who : {keeper.who}, does : {"closing", keeper.does}, these : SUBSET Browser],
         queue' \in Seq(Browser), owned' \subseteq Browser
  PROVE  Base'
  <1>1. Typed' BY DEF Base, Typed, Tasked, Kept
  <1>2. Holding' BY DEF Base, Holding
  <1>3. keeper'.who = keeper.who /\ keeper'.does \in {"closing", keeper.does} OBVIOUS
  <1>4. Keeping' BY <1>3 DEF Base, Keeping
  <1> QED BY <1>1, <1>2, <1>4 DEF Base

\* The lock comes free, or is taken by one who is no task.
LEMMA HandBase ==
  ASSUME Base, keeper.who \notin Task, UNCHANGED task, inflight' \in Nat, lapsed' \in BOOLEAN,
         keeper' \in [who : {Nobody, Reaper, Admin}, does : {"nothing", "closing"},
                      these : SUBSET Browser],
         queue' \in Seq(Browser), owned' \subseteq Browser
  PROVE  Base'
  <1>1. Typed' BY DEF Base, Typed, Tasked, Kept
  <1>2. Holding' BY DEF Base, Holding
  <1>3. keeper'.who \notin Task /\ keeper'.does # "launching" BY PoolAssumption
  <1>4. Keeping' BY <1>3 DEF Base, Keeping
  <1> QED BY <1>1, <1>2, <1>4 DEF Base

LEMMA IdleIs == keeper = Idle => keeper.who \notin Task /\ keeper.does = "nothing"
  BY PoolAssumption DEF Idle

LEMMA KeepStep ==
  ASSUME Base, Keep
  PROVE  Base'
  <1>0. Typed /\ Tasked /\ Kept BY DEF Base, Typed
  <1> USE DEF bounds
  <1>1. ASSUME NEW b \in Browser, CloseOne(b) PROVE Base'
    <2>1. keeper' \in [who : {keeper.who}, does : {"closing", keeper.does}, these : SUBSET Browser]
      BY <1>0, <1>1 DEF CloseOne, Kept
    <2>2. queue' = queue /\ owned' = owned /\ UNCHANGED <<task, inflight, lapsed>>
      BY <1>1 DEF CloseOne
    <2> QED BY <1>0, <2>1, <2>2, KeepBase DEF Typed
  <1>2. CASE EndShutdown
    <2>1. /\ UNCHANGED <<task, owned>> /\ inflight' = 0 /\ lapsed' \in BOOLEAN
          /\ keeper.does = "closing" /\ queue' \in {queue, <<>>}
      BY <1>0, <1>2 DEF EndShutdown, Typed
    <2>2. queue' \in Seq(Browser)
      <3>1. queue \in Seq(Browser) BY <1>0 DEF Typed
      <3>2. <<>> \in Seq(Browser) OBVIOUS
      <3> QED BY <2>1, <3>1, <3>2
    <2>3. CASE keeper.who \in Task
      <3>1. keeper' = [keeper EXCEPT !.does = "launching"] BY <1>2, <2>3 DEF EndShutdown
      <3>2. Kept' /\ keeper'.who = keeper.who BY <1>0, <3>1 DEF Kept
      <3>3. Typed' BY <1>0, <2>1, <2>2, <3>2 DEF Typed, Tasked
      <3>4. Holding' BY <2>1 DEF Base, Holding
      <3>5. Keeping' BY <2>1, <2>3, <3>2 DEF Base, Keeping
      <3> QED BY <3>3, <3>4, <3>5 DEF Base
    <2>4. CASE keeper.who \notin Task
      <3>1. keeper' = Idle BY <1>2, <2>4 DEF EndShutdown
      <3>2. keeper' \in [who : {Nobody, Reaper, Admin}, does : {"nothing", "closing"},
                         these : SUBSET Browser]
        BY <3>1 DEF Idle
      <3> QED BY <1>0, <2>1, <2>2, <2>4, <3>2, HandBase DEF Typed
    <2> QED BY <2>3, <2>4
  <1>3. CASE LaunchOne
    <2>1. PICK b \in Unused : /\ keeper' = [keeper EXCEPT !.these = @ \cup {b}]
                              /\ queue' = Append(queue, b)
      BY <1>3, LaunchIs
    <2>2. b \in Browser BY DEF Unused
    <2>3. keeper' \in [who : {keeper.who}, does : {"closing", keeper.does}, these : SUBSET Browser]
      BY <1>0, <2>1, <2>2 DEF Kept
    <2>4. queue' \in Seq(Browser) BY <1>0, <2>1, <2>2 DEF Typed
    <2>5. owned' = owned /\ UNCHANGED <<task, inflight, lapsed>> BY <1>3 DEF LaunchOne
    <2> QED BY <1>0, <2>3, <2>4, <2>5, KeepBase DEF Typed
  <1>4. ASSUME keeper.does = "launching", keeper' = Idle,
               NEW p \in Free, Goto(keeper.who, p),
               UNCHANGED <<queue, inflight, lapsed>>, owned' \subseteq Browser
        PROVE  Base'
    <2> DEFINE t == keeper.who
    <2>1. t \in Task /\ task[t].at \in Warming BY <1>4 DEF Base, Keeping
    <2>2. /\ Tasked' /\ task'[t].at = p /\ task'[t].b = task[t].b
          /\ \A u \in Task : u # t => task'[u] = task[u]
      BY <1>0, <1>4, <2>1, GotoIs DEF Free
    <2>3. Kept' BY <1>4 DEF Kept, Idle
    <2>4. Typed' BY <1>0, <1>4, <2>2, <2>3 DEF Typed
    <2>5. Holding' BY <2>1, <2>2 DEF Base, Holding, Warming, Free
    <2>6. keeper'.who \notin Task /\ keeper'.does # "launching"
      BY <1>4, PoolAssumption DEF Idle
    <2>7. Keeping' BY <2>2, <2>6 DEF Base, Keeping, Free
    <2> QED BY <2>4, <2>5, <2>7 DEF Base
  <1>5. CASE LaunchFails
    <2>1. "failed" \in Free BY DEF Free, Stage, Warming
    <2> QED BY <1>0, <1>4, <1>5, <2>1 DEF LaunchFails, Typed
  <1>6. CASE EndLaunch
    <2> DEFINE p == IF task[keeper.who].at = "warming" THEN "wait" ELSE "wait2"
    <2>1. p \in Free BY DEF Free, Stage, Warming
    <2>2. Goto(keeper.who, p) BY <1>6 DEF EndLaunch, Resume
    <2>3. owned' \subseteq Browser BY <1>0, <1>6 DEF EndLaunch, Kept
    <2>4. keeper.does = "launching" /\ keeper' = Idle /\ UNCHANGED <<queue, inflight, lapsed>>
      BY <1>6 DEF EndLaunch
    <2> HIDE DEF p
    <2> QED BY <1>4, <2>1, <2>2, <2>3, <2>4
  <1> QED BY <1>1, <1>2, <1>3, <1>5, <1>6 DEF Keep

LEMMA FreeMoves ==
  ASSUME Base, NEW t \in Task, task[t].at \in Free
  PROVE  /\ \A p \in Free : Goto(t, p) => Moves(t, Free, Free) /\ task'[t].at = p
         /\ \A v : End(t, v) => Moves(t, Free, Free) /\ task'[t].at = "off"
  <1>1. Tasked /\ task[t].b = None BY DEF Base, Typed, Holding, Free
  <1>2. "off" \in Free BY DEF Free, Stage, Warming, Resting
  <1>3. ASSUME NEW p \in Free, Goto(t, p) PROVE Moves(t, Free, Free) /\ task'[t].at = p
    BY <1>1, <1>3, GotoIs DEF Moves, Free
  <1>4. ASSUME NEW v, End(t, v) PROVE Moves(t, Free, Free) /\ task'[t].at = "off"
    BY <1>1, <1>2, <1>4, EndIs DEF Moves
  <1> QED BY <1>3, <1>4

LEMMA FreeIs ==
  \A s \in {"off", "created", "ensure", "ensure2", "wait", "wait2", "failed"} : s \in Free
  BY DEF Free, Stage, Warming, Resting

LEMMA EndCounts == ASSUME Typed, NEW t, NEW v, End(t, v) PROVE inflight' \in Nat
  BY DEF Typed, End, Counted

\* The queue, once a dead browser went to its end.
LEMMA TurnedIs ==
  ASSUME Typed, queue # <<>>, queue' = Append(Tail(queue), Head(queue))
  PROVE  /\ queue' \in Seq(Browser) /\ Len(queue') = Len(queue)
         /\ \A i \in 1 .. Len(queue) - 1 : queue'[i] = queue[i + 1]
         /\ queue'[Len(queue)] = queue[1]
  BY DEF Typed

LEMMA WarmIs ==
  ASSUME Base, NEW t \in Task, Warm(t)
  PROVE  /\ keeper.who \notin Task /\ keeper'.who = t /\ Kept' /\ task[t].at \in Free
         /\ task'[t].at \in Warming /\ task'[t].b = task[t].b
         /\ Tasked' /\ \A u \in Task : u # t => task'[u] = task[u]
         /\ queue' = <<>> /\ owned' \subseteq Browser /\ UNCHANGED <<inflight, lapsed>>
  <1>1. keeper.who \notin Task /\ task[t].at \in Free /\ Typed
    BY IdleIs, FreeIs DEF Warm, Ensuring, Base
  <1>2. PICK p \in Warming : Goto(t, p) BY DEF Warm, Warming
  <1>3. /\ task'[t].at \in Warming /\ task'[t].b = task[t].b
        /\ Tasked' /\ \A u \in Task : u # t => task'[u] = task[u]
    BY <1>1, <1>2, GotoIs DEF Typed, Stage
  <1>4. /\ queue' = <<>> /\ owned' \subseteq Browser /\ Kept' /\ keeper'.who = t
        /\ UNCHANGED <<inflight, lapsed>>
    <2>1. CASE StartShutdown(t) /\ UNCHANGED <<inflight, lapsed>>
      BY <1>1, <2>1 DEF StartShutdown, Kept, Typed
    <2>2. CASE /\ keeper' = [who |-> t, does |-> "launching", these |-> {}]
               /\ queue' = <<>> /\ UNCHANGED <<owned, inflight, lapsed>>
      BY <1>1, <2>2 DEF Kept, Typed
    <2> QED BY <2>1, <2>2 DEF Warm
  <1> QED BY <1>1, <1>3, <1>4

LEMMA TaskStep ==
  ASSUME Base, NEW t \in Task, Create(t) \/ Run(t)
  PROVE  Base'
  <1>0. Typed /\ Tasked /\ Kept /\ Holding /\ Keeping /\ queue \in Seq(Browser) /\ inflight \in Nat
    BY DEF Base, Typed
  <1> USE DEF pool
  <1>1. CASE Create(t)
    BY <1>0, <1>1, FreeIs, FreeMoves, MoveBase DEF Create
  <1>2. CASE Start(t)
    <2>1. inflight + 1 \in Nat BY <1>0
    <2> QED BY <1>0, <1>2, <2>1, FreeIs, FreeMoves, MoveBase DEF Start
  <1>3. CASE FindWarm(t) \/ FindBusy(t)
    <2>1. PICK p \in {"wait", "wait2"} : Goto(t, p)
      BY <1>3 DEF FindWarm, FindBusy, Waits
    <2>2. task[t].at \in Free /\ UNCHANGED <<queue, owned, inflight, keeper, lapsed>>
      BY <1>3, FreeIs DEF FindWarm, FindBusy, Ensuring
    <2> QED BY <1>0, <2>1, <2>2, FreeIs, FreeMoves, MoveBase
  <1>4. CASE Warm(t)
    <2>1. Typed'
      <3>1. <<>> \in Seq(Browser) OBVIOUS
      <3> QED BY <1>0, <1>4, <3>1, WarmIs DEF Typed
    <2>2. Holding' BY <1>0, <1>4, WarmIs DEF Holding, Free, Warming
    <2>3. Keeping' BY <1>0, <1>4, WarmIs DEF Keeping, Free
    <2> QED BY <2>1, <2>2, <2>3 DEF Base
  <1>5. CASE Take(t)
    <2>1. /\ Tasked' /\ task'[t].at = "solving" /\ task'[t].b \in Browser
          /\ \A u \in Task : u # t => task'[u] = task[u]
          /\ queue' \in Seq(Browser)
      BY <1>0, <1>5, TakeIs
    <2>2. UNCHANGED <<owned, inflight, keeper, lapsed>> /\ task[t].at \in {"wait", "wait2"}
      BY <1>5 DEF Take
    <2>3. Typed' BY <1>0, <2>1, <2>2 DEF Typed, Kept
    <2>4. Holding' BY <1>0, <2>1, PoolAssumption DEF Holding
    <2>5. Keeping' BY <1>0, <2>1, <2>2 DEF Keeping, Warming
    <2> QED BY <2>3, <2>4, <2>5 DEF Base
  <1>6. CASE TakeDead(t)
    <2>1. queue' \in Seq(Browser) BY <1>0, <1>6, TurnedIs DEF TakeDead
    <2>2. task[t].at \in Free /\ End(t, "fail") /\ UNCHANGED <<owned, keeper, lapsed>>
      BY <1>6, FreeIs DEF TakeDead
    <2> QED BY <1>0, <2>1, <2>2, FreeMoves, EndCounts, MoveBase
  <1>7. CASE WaitTimesOut(t)
    <2>1. PICK p \in {"ensure2", "failed"} : Goto(t, p) BY <1>7 DEF WaitTimesOut
    <2>2. task[t].at \in Free /\ UNCHANGED <<queue, owned, inflight, keeper, lapsed>>
      BY <1>7, FreeIs DEF WaitTimesOut
    <2> QED BY <1>0, <2>1, <2>2, FreeIs, FreeMoves, MoveBase
  <1>8. CASE GiveUp(t)
    <2>1. task[t].at \in Free /\ End(t, "fail") /\ UNCHANGED <<queue, owned, keeper, lapsed>>
      BY <1>8, FreeIs DEF GiveUp
    <2> QED BY <1>0, <2>1, FreeMoves, EndCounts, MoveBase
  <1>9. CASE Finish(t)
    <2>1. PICK v : End(t, v) BY <1>9 DEF Finish
    <2>2. /\ Tasked' /\ task'[t].at = "off" /\ task'[t].b = None
          /\ \A u \in Task : u # t => task'[u] = task[u]
      BY <1>0, <2>1, EndIs
    <2>3. task[t].at = "solving" /\ task[t].b \in Browser
      BY <1>0, <1>9 DEF Finish, Holding, Tasked
    <2>4. queue' \in Seq(Browser) BY <1>0, <1>9, <2>3 DEF Finish, Returned
    <2>5. UNCHANGED <<owned, keeper, lapsed>> BY <1>9 DEF Finish
    <2>6. Typed' BY <1>0, <2>1, <2>2, <2>4, <2>5, EndCounts DEF Typed, Kept
    <2>7. Holding' BY <1>0, <2>2 DEF Holding
    <2>8. Keeping' BY <1>0, <2>2, <2>3, <2>5 DEF Keeping, Warming
    <2> QED BY <2>6, <2>7, <2>8 DEF Base
  <1> QED BY <1>1, <1>2, <1>3, <1>4, <1>5, <1>6, <1>7, <1>8, <1>9 DEF Run

LEMMA BaseStep == Base /\ [Next]_vars => Base'
  <1> SUFFICES ASSUME Base, [Next]_vars PROVE Base' OBVIOUS
  <1>0. Typed /\ Kept /\ queue \in Seq(Browser) /\ inflight \in Nat /\ lapsed \in BOOLEAN
        /\ owned \subseteq Browser
    BY DEF Base, Typed
  <1>1. CASE Reap \/ Reclaim
    <2>1. PICK who \in {Reaper, Admin} : StartShutdown(who) BY <1>1 DEF Reap, Reclaim
    <2>2. keeper.who \notin Task /\ UNCHANGED <<task, inflight, lapsed>>
      BY <1>1, IdleIs DEF Reap, Reclaim
    <2>3. keeper' \in [who : {Nobody, Reaper, Admin}, does : {"nothing", "closing"},
                       these : SUBSET Browser]
      BY <1>0, <2>1 DEF StartShutdown
    <2>4. <<>> \in Seq(Browser) OBVIOUS
    <2>5. queue' \in Seq(Browser) /\ owned' \subseteq Browser
      BY <2>1, <2>4 DEF StartShutdown
    <2> QED BY <1>0, <2>2, <2>3, <2>5, HandBase
  <1>2. CASE UNCHANGED <<queue, owned, inflight, keeper, task, lapsed>>
    BY <1>2 DEF Base, Typed, Tasked, Kept, Holding, Keeping
  <1>3. CASE TimePasses BY <1>2, <1>3 DEF TimePasses, pool
  <1>4. CASE \E b \in Browser : Crash(b) BY <1>2, <1>4 DEF Crash
  <1>5. CASE UNCHANGED vars BY <1>2, <1>5 DEF vars
  <1> QED BY <1>1, <1>3, <1>4, <1>5, KeepStep, TaskStep DEF Next

-----------------------------------------------------------------------------
(* Each browser has one holder *)

LEMMA SameOne ==
  ASSUME One, \A u \in Task : task'[u].b = task[u].b, queue' = queue \/ queue' = <<>>
  PROVE  One'
  <1>1. CASE queue' = queue BY <1>1 DEF One
  <1>2. CASE queue' = <<>>
    <2>1. 1 .. Len(queue') = {} BY <1>2
    <2> QED BY <2>1 DEF One
  <1> QED BY <1>1, <1>2

LEMMA LaunchKeepsOne ==
  ASSUME Typed, One, LaunchOne
  PROVE  One'
  <1>1. PICK b \in Unused : queue' = Append(queue, b) BY LaunchIs
  <1>2. /\ b \in Browser /\ \A t \in Task : task[t].b # b
        /\ \A i \in 1 .. Len(queue) : queue[i] # b
    BY PoolAssumption DEF Unused, Held, InQueue
  <1>3. queue \in Seq(Browser) /\ task' = task BY DEF Typed, LaunchOne
  <1>4. /\ Len(queue') = Len(queue) + 1 /\ Len(queue) \in Nat /\ queue'[Len(queue) + 1] = b
        /\ \A i \in 1 .. Len(queue) : queue'[i] = queue[i]
    BY <1>1, <1>2, <1>3
  <1> QED BY <1>2, <1>3, <1>4 DEF One

LEMMA TakeKeepsOne ==
  ASSUME Typed, One, NEW t \in Task, Take(t)
  PROVE  One'
  <1>1. /\ task'[t].b = queue[1] /\ \A u \in Task : u # t => task'[u] = task[u]
        /\ Len(queue') = Len(queue) - 1 /\ \A i \in 1 .. Len(queue') : queue'[i] = queue[i + 1]
    BY TakeIs
  <1>2. queue \in Seq(Browser) /\ queue # <<>> /\ Len(queue) \in Nat /\ Len(queue) > 0
    BY DEF Typed, Take
  <1>3. \A u, v \in Task : task'[u].b = task'[v].b /\ task'[u].b # None => u = v
    BY <1>1, <1>2 DEF One
  <1>4. \A u \in Task, i \in 1 .. Len(queue') : task'[u].b # queue'[i]
    BY <1>1, <1>2 DEF One
  <1>5. \A i, j \in 1 .. Len(queue') : queue'[i] = queue'[j] => i = j
    BY <1>1, <1>2 DEF One
  <1> QED BY <1>3, <1>4, <1>5 DEF One

LEMMA TurnKeepsOne ==
  ASSUME Typed, One, queue # <<>>, queue' = Append(Tail(queue), Head(queue)),
         \A u \in Task : task'[u].b = task[u].b
  PROVE  One'
  <1>1. PICK n \in Nat : n = Len(queue) /\ n > 0 BY DEF Typed
  <1>2. /\ Len(queue') = n /\ queue'[n] = queue[1]
        /\ \A i \in 1 .. n - 1 : queue'[i] = queue[i + 1]
    BY <1>1, TurnedIs
  <1> DEFINE from(i) == IF i = n THEN 1 ELSE i + 1
  <1>3. \A i \in 1 .. n : from(i) \in 1 .. n /\ queue'[i] = queue[from(i)]
    BY <1>1, <1>2
  <1>4. \A i, j \in 1 .. n : from(i) = from(j) => i = j BY <1>1
  <1> HIDE DEF from
  <1>5. ASSUME NEW u \in Task, NEW i \in 1 .. n PROVE task'[u].b # queue'[i]
    <2>1. PICK k \in 1 .. n : queue'[i] = queue[k] BY <1>3
    <2>2. task[u].b # queue[k] BY <1>1 DEF One
    <2> QED BY <2>1, <2>2
  <1>6. ASSUME NEW i \in 1 .. n, NEW j \in 1 .. n, queue'[i] = queue'[j] PROVE i = j
    <2>1. PICK k \in 1 .. n : k = from(i) /\ queue'[i] = queue[k] BY <1>3
    <2>2. PICK l \in 1 .. n : l = from(j) /\ queue'[j] = queue[l] BY <1>3
    <2>3. k = l BY <1>1, <1>6, <2>1, <2>2 DEF One
    <2> QED BY <1>4, <2>1, <2>2, <2>3
  <1>7. \A u, v \in Task : task'[u].b = task'[v].b /\ task'[u].b # None => u = v BY DEF One
  <1> QED BY <1>2, <1>5, <1>6, <1>7 DEF One

LEMMA FinishKeepsOne ==
  ASSUME Base, One, NEW t \in Task, Finish(t)
  PROVE  One'
  <1>1. Typed /\ Tasked /\ queue \in Seq(Browser) /\ Len(queue) \in Nat BY DEF Base, Typed
  <1>2. task'[t].b = None /\ \A u \in Task : u # t => task'[u] = task[u]
    BY <1>1, EndIs DEF Finish
  <1>3. task[t].b \in Browser /\ task[t].b # None
    BY <1>1 DEF Finish, Base, Holding, Tasked
  <1>4. \A u, v \in Task : task'[u].b = task'[v].b /\ task'[u].b # None => u = v
    BY <1>2 DEF One
  <1>5. CASE queue' = queue
    <2>1. \A i \in 1 .. Len(queue) : queue[i] # None BY <1>1, PoolAssumption
    <2> QED BY <1>2, <1>4, <1>5, <2>1 DEF One
  <1>6. CASE queue' = Append(queue, task[t].b)
    <2>1. /\ Len(queue') = Len(queue) + 1 /\ queue'[Len(queue) + 1] = task[t].b
          /\ \A i \in 1 .. Len(queue) : queue'[i] = queue[i]
      BY <1>1, <1>3, <1>6
    <2>2. \A i \in 1 .. Len(queue) : queue[i] # None BY <1>1, PoolAssumption
    <2>3. \A u \in Task, i \in 1 .. Len(queue') : task'[u].b # queue'[i]
      BY <1>1, <1>2, <1>3, <2>1, <2>2 DEF One
    <2>4. \A i, j \in 1 .. Len(queue') : queue'[i] = queue'[j] => i = j
      BY <1>1, <2>1 DEF One
    <2> QED BY <1>4, <2>3, <2>4 DEF One
  <1> QED BY <1>5, <1>6 DEF Finish, Returned

LEMMA OneStep == Base /\ One /\ [Next]_vars => One'
  <1> SUFFICES ASSUME Base, One, [Next]_vars PROVE One' OBVIOUS
  <1>0. Typed /\ Tasked BY DEF Base, Typed
  <1> USE DEF pool
  <1>1. CASE UNCHANGED task /\ (queue' = queue \/ queue' = <<>>)
    BY <1>1, SameOne
  <1>2. CASE Keep
    <2>1. CASE (\E b \in Browser : CloseOne(b)) \/ EndShutdown
      BY <1>1, <2>1 DEF CloseOne, EndShutdown
    <2>2. CASE LaunchFails \/ EndLaunch
      <3>1. PICK p \in Free : Goto(keeper.who, p) /\ queue' = queue /\ keeper.who \in Task
        BY <2>2, FreeIs DEF LaunchFails, EndLaunch, Resume, Base, Keeping
      <3>2. \A u \in Task : task'[u].b = task[u].b
        BY <1>0, <3>1, GotoIs DEF Free
      <3> QED BY <3>1, <3>2, SameOne
    <2> QED BY <1>0, <1>2, <2>1, <2>2, LaunchKeepsOne DEF Keep
  <1>3. ASSUME NEW t \in Task, Create(t) \/ Run(t) PROVE One'
    <2>1. CASE Create(t) \/ Start(t) \/ FindWarm(t) \/ FindBusy(t) \/ WaitTimesOut(t)
      <3>1. PICK p \in Free : Goto(t, p) /\ queue' = queue
        BY <2>1, FreeIs DEF Create, Start, FindWarm, FindBusy, Waits, WaitTimesOut
      <3>2. \A u \in Task : task'[u].b = task[u].b BY <1>0, <3>1, GotoIs DEF Free
      <3> QED BY <3>1, <3>2, SameOne
    <2>2. CASE Warm(t)
      <3>1. \A u \in Task : task'[u].b = task[u].b BY <2>2, WarmIs
      <3>2. queue' = <<>> BY <2>2, WarmIs
      <3> QED BY <3>1, <3>2, SameOne
    <2>3. CASE TakeDead(t) \/ GiveUp(t)
      <3>1. End(t, "fail") /\ task[t].at \in Free BY <2>3, FreeIs DEF TakeDead, GiveUp
      <3>2. \A u \in Task : task'[u].b = task[u].b
        BY <3>1, FreeMoves DEF Moves
      <3>3. CASE TakeDead(t) BY <1>0, <3>2, <3>3, TurnKeepsOne DEF TakeDead
      <3>4. CASE GiveUp(t) BY <3>2, <3>4, SameOne DEF GiveUp
      <3> QED BY <2>3, <3>3, <3>4
    <2> QED BY <1>0, <1>3, <2>1, <2>2, <2>3, TakeKeepsOne, FinishKeepsOne DEF Run
  <1>4. CASE Reap \/ Reclaim BY <1>1, <1>4 DEF Reap, Reclaim, StartShutdown
  <1>5. CASE TimePasses \/ \E b \in Browser : Crash(b)
    BY <1>1, <1>5 DEF TimePasses, Crash
  <1>6. CASE UNCHANGED vars BY <1>1, <1>6 DEF vars
  <1> QED BY <1>2, <1>3, <1>4, <1>5, <1>6 DEF Next

LEMMA InitOne == Init => One
  <1> SUFFICES ASSUME Init PROVE One OBVIOUS
  <1>1. 1 .. Len(queue) = {} BY DEF Init
  <1>2. \A t \in Task : task[t].b = None BY DEF Init, Off
  <1> QED BY <1>1, <1>2 DEF One

-----------------------------------------------------------------------------
(* The counter and the tasks in progress *)

LEMMA ProgressFinite == IsFiniteSet(InProgress) /\ IsFiniteSet(InProgress')
  BY PoolAssumption, FS_Subset DEF InProgress

LEMMA ProgressCounts == Cardinality(InProgress) \in Nat /\ Cardinality(InProgress') \in Nat
  BY ProgressFinite, FS_CardinalityType

LEMMA NoProgress == Cardinality(InProgress) = 0 <=> InProgress = {}
  BY ProgressFinite, FS_EmptySet

LEMMA SamePaired ==
  ASSUME InFlightPaired, UNCHANGED <<inflight, lapsed>>,
         \A u \in Task : task'[u].at \in Resting <=> task[u].at \in Resting
  PROVE  InFlightPaired'
  <1>1. InProgress' = InProgress BY DEF InProgress, Resting
  <1> QED BY <1>1 DEF InFlightPaired

\* A task that moves within the stages in progress, or within those outside.
LEMMA GotoPaired ==
  ASSUME Tasked, InFlightPaired, NEW t \in Task, NEW p \in Stage, Goto(t, p),
         p \in Resting <=> task[t].at \in Resting, UNCHANGED <<inflight, lapsed>>
  PROVE  InFlightPaired'
  BY GotoIs, SamePaired

LEMMA StartPaired ==
  ASSUME Typed, InFlightPaired, NEW t \in Task, Start(t)
  PROVE  InFlightPaired'
  <1>1. /\ task[t].at = "created" /\ task'[t].at = "ensure"
        /\ \A u \in Task : u # t => task'[u] = task[u]
    BY GotoIs DEF Start, Typed, Stage
  <1>2. InProgress' = InProgress \cup {t} /\ t \notin InProgress BY <1>1 DEF InProgress
  <1>3. Cardinality(InProgress') = Cardinality(InProgress) + 1
    BY <1>2, ProgressFinite, FS_AddElement
  <1>4. inflight' = inflight + 1 /\ lapsed' = lapsed /\ inflight \in Nat
    BY DEF Start, Typed
  <1> QED BY <1>3, <1>4, ProgressCounts DEF InFlightPaired

LEMMA EndPaired ==
  ASSUME Typed, InFlightPaired, NEW t \in Task, NEW v, End(t, v),
         task[t].at \notin Resting, lapsed' = lapsed
  PROVE  InFlightPaired'
  <1>1. task'[t].at = "off" /\ \A u \in Task : u # t => task'[u] = task[u]
    BY EndIs DEF Typed
  <1>2. InProgress' = InProgress \ {t} /\ t \in InProgress BY <1>1 DEF InProgress, Resting
  <1>3. Cardinality(InProgress') = Cardinality(InProgress) - 1
    BY <1>2, ProgressFinite, FS_RemoveElement
  <1>4. inflight \in Nat /\ inflight' = IF inflight > 0 THEN inflight - 1 ELSE 0
    BY DEF Typed, End, Counted
  <1> QED BY <1>3, <1>4, ProgressCounts DEF InFlightPaired

\* A reset that hits a task in progress is in the history.
LEMMA ResetPaired ==
  ASSUME Typed, EndShutdown
  PROVE  InFlightPaired'
  <1>1. inflight' = 0 /\ lapsed' = (lapsed \/ InProgress # {}) /\ InProgress' = InProgress
    BY DEF EndShutdown, InProgress
  <1>2. ~lapsed' => Cardinality(InProgress) = 0 BY <1>1, NoProgress
  <1> QED BY <1>1, <1>2, ProgressCounts DEF InFlightPaired

LEMMA PairedStep == Base /\ InFlightPaired /\ [Next]_vars => InFlightPaired'
  <1> SUFFICES ASSUME Base, InFlightPaired, [Next]_vars PROVE InFlightPaired' OBVIOUS
  <1>0. Typed /\ Tasked BY DEF Base, Typed
  <1> USE DEF pool
  <1>1. CASE UNCHANGED <<task, inflight, lapsed>> BY <1>1, SamePaired
  <1>2. CASE Keep
    <2>1. CASE (\E b \in Browser : CloseOne(b)) \/ LaunchOne
      BY <1>1, <2>1 DEF CloseOne, LaunchOne
    <2>2. CASE EndShutdown BY <1>0, <2>2, ResetPaired
    <2>3. CASE LaunchFails \/ EndLaunch
      <3>1. PICK p \in Free \ Resting : /\ Goto(keeper.who, p) /\ UNCHANGED <<inflight, lapsed>>
                                        /\ keeper.does = "launching"
        BY <2>3 DEF LaunchFails, EndLaunch, Resume, Free, Stage, Warming, Resting
      <3>2. keeper.who \in Task /\ task[keeper.who].at \notin Resting
        BY <3>1 DEF Base, Keeping, Warming, Resting
      <3> QED BY <1>0, <3>1, <3>2, GotoPaired DEF Free
    <2> QED BY <1>2, <2>1, <2>2, <2>3 DEF Keep
  <1>3. ASSUME NEW t \in Task, Create(t) \/ Run(t) PROVE InFlightPaired'
    <2>1. CASE Create(t)
      BY <1>0, <2>1, GotoPaired DEF Create, Stage, Resting
    <2>2. CASE Start(t) BY <1>0, <2>2, StartPaired
    <2>3. CASE FindWarm(t) \/ FindBusy(t) \/ WaitTimesOut(t)
      <3>1. PICK p \in Stage \ Resting : Goto(t, p)
        BY <2>3 DEF FindWarm, FindBusy, Waits, WaitTimesOut, Stage, Resting
      <3>2. task[t].at \notin Resting /\ UNCHANGED <<inflight, lapsed>>
        BY <2>3 DEF FindWarm, FindBusy, Ensuring, WaitTimesOut, Resting
      <3> QED BY <1>0, <3>1, <3>2, GotoPaired
    <2>4. CASE Warm(t)
      <3>1. task[t].at \notin Resting BY <2>4 DEF Warm, Ensuring, Resting
      <3>2. \A u \in Task : task'[u].at \in Resting <=> task[u].at \in Resting
        BY <2>4, <3>1, WarmIs DEF Warming, Resting
      <3> QED BY <2>4, <3>2, WarmIs, SamePaired
    <2>5. CASE Take(t)
      <3>1. task[t].at \notin Resting /\ UNCHANGED <<inflight, lapsed>>
        BY <2>5 DEF Take, Resting
      <3>2. \A u \in Task : task'[u].at \in Resting <=> task[u].at \in Resting
        BY <1>0, <2>5, <3>1, TakeIs DEF Resting
      <3> QED BY <3>1, <3>2, SamePaired
    <2>6. CASE TakeDead(t) \/ GiveUp(t) \/ Finish(t)
      <3>1. task[t].at \notin Resting /\ lapsed' = lapsed /\ \E v : End(t, v)
        BY <2>6 DEF TakeDead, GiveUp, Finish, Resting
      <3> QED BY <1>0, <3>1, EndPaired
    <2> QED BY <1>3, <2>1, <2>2, <2>3, <2>4, <2>5, <2>6 DEF Run
  <1>4. CASE Reap \/ Reclaim BY <1>1, <1>4 DEF Reap, Reclaim
  <1>5. CASE TimePasses \/ \E b \in Browser : Crash(b)
    BY <1>1, <1>5 DEF TimePasses, Crash
  <1>6. CASE UNCHANGED vars BY <1>1, <1>6 DEF vars
  <1> QED BY <1>2, <1>3, <1>4, <1>5, <1>6 DEF Next

LEMMA InitPaired == Init => InFlightPaired
  <1> SUFFICES ASSUME Init PROVE InFlightPaired OBVIOUS
  <1>1. InProgress = {} BY DEF Init, InProgress, Off
  <1>2. Cardinality(InProgress) = 0 BY <1>1, NoProgress
  <1> QED BY <1>2 DEF Init, InFlightPaired

-----------------------------------------------------------------------------
(* Theorems *)

IInv == Base /\ One /\ InFlightPaired

LEMMA Inductive == Spec => []IInv
  <1>1. Init => IInv BY InitBase, InitOne, InitPaired DEF IInv
  <1>2. IInv /\ [Next]_vars => IInv' BY BaseStep, OneStep, PairedStep DEF IInv
  <1> QED BY <1>1, <1>2, PTL DEF Spec

\* A browser of browser_pool is with one task, or in the queue once, whatever
\* the warm-ups, reclaims, crashes and early returns of _solve_turnstile.
THEOREM BrowsersUnshared == Spec => []OneHolder
  <1>1. IInv => OneHolder BY OneIs DEF IInv, Base
  <1> QED BY <1>1, Inductive, PTL

\* _in_flight is never above the tasks in progress, and it is their number
\* unless _shutdown_browsers has reset it under one of them.
THEOREM CountPaired == Spec => []InFlightPaired
  <1>1. IInv => InFlightPaired BY DEF IInv
  <1> QED BY <1>1, Inductive, PTL

\* Within twice the idle time _idle_reaper starts a shutdown only when no task
\* has a browser, unless a reset has hidden one.
THEOREM ReaperSparesTasks == Spec => ReaperSpares
  <1>1. ASSUME IInv, Reap, quiet = 1, ~lapsed PROVE Held = {}
    <2>1. inflight = 0 BY <1>1 DEF Reap, Reapable
    <2>2. InProgress = {} BY <1>1, <2>1, NoProgress DEF IInv, InFlightPaired
    <2>3. \A t \in Task : task[t].b = None
      BY <1>1, <2>2 DEF IInv, Base, Holding, InProgress
    <2> QED BY <2>3 DEF Held
  <1>2. IInv /\ [Next]_vars => [Reap /\ quiet = 1 /\ ~lapsed => Held = {}]_vars
    BY <1>1
  <1> QED BY <1>2, Inductive, PTL DEF Spec, ReaperSpares

=============================================================================
