--------------------------- MODULE AffinityProofs ---------------------------
(***************************************************************************)
(* Affinity for any set of processes, turn slots and accounts: types, and  *)
(* that the coalescing of Redis writes never runs two goroutines for a key *)
(* nor forgets a queued write.  OneWriter is inductive given the types.    *)
(* SettledPin needs to know, of a process that is not settled, what its    *)
(* goroutine, its queue and its turn are still about to do with the pin    *)
(* (Own), and which process answers for what Redis holds (Backs).          *)
(***************************************************************************)
EXTENDS Affinity, TLAPS

\* The types of the caches and of their goroutines, without the turns.
CacheTypes ==
    /\ local \in [Process -> Pin]
    /\ pending \in [Process -> Pin]
    /\ flushing \in [Process -> BOOLEAN]
    /\ writer \in [Process -> [Writer -> WriterState]]
    /\ redis \in Pin
    /\ pin \in [Process -> Pin]
    /\ missed \subseteq Process
    /\ losses \in 0 .. MaxLosses
TurnTypes ==
    /\ turn \in [Turn -> TurnState]
    /\ \A t \in Turn : turn[t].pc \in Answering \/ turn[t].why = "note" =>
           turn[t].winner \in Account
    /\ \A t \in Turn : turn[t].pc = "cache" => turn[t].read \in Account
    /\ turns \in [Turn -> Nat] /\ \A t \in Turn : turns[t] <= MaxTurns[t]

LEMMA TypeHalves == TypeOK <=> CacheTypes /\ TurnTypes
BY DEF TypeOK, CacheTypes, TurnTypes

\* A loss stays within its bound.
LEMMA LoseTypes == ASSUME CacheTypes, Lose PROVE losses' \in 0 .. MaxLosses
BY BoundAssumption DEF CacheTypes, Lose

-----------------------------------------------------------------------------
(* Turns. *)

\* A turn that moves to a stage that asks nothing new of its fields.
LEMMA GotoTypes ==
    ASSUME TurnTypes, NEW t \in Turn,
           NEW pc \in {"idle", "look", "get", "serve", "bind", "queue", "drop", "unqueue", "del"},
           pc \in Answering => turn[t].winner \in Account,
           Goto(t, pc), turns' = turns
    PROVE  TurnTypes'
<1>1. turn' = [turn EXCEPT ![t] = [turn[t] EXCEPT !.pc = pc]]
  BY DEF Goto
<1>2. turn[t] \in TurnState
  BY DEF TurnTypes
<1>3. [turn[t] EXCEPT !.pc = pc] \in TurnState
  BY <1>2 DEF TurnState
<1>4. turn' \in [Turn -> TurnState]
  BY <1>1, <1>3 DEF TurnTypes
<1>5. \A u \in Turn : turn'[u] = IF u = t THEN [turn[t] EXCEPT !.pc = pc] ELSE turn[u]
  BY <1>1 DEF TurnTypes
<1>6. turn'[t].pc = pc /\ turn'[t].why = turn[t].why /\ turn'[t].winner = turn[t].winner
  BY <1>2, <1>5 DEF TurnState
<1> QED
  BY <1>4, <1>5, <1>6 DEF TurnTypes, Answering

\* So does the end of a turn.
LEMMA TurnOverTypes ==
    ASSUME TurnTypes, NEW t \in Turn, turn' = [turn EXCEPT ![t] = TurnOver], turns' = turns
    PROVE  TurnTypes'
<1>1. TurnOver \in TurnState /\ TurnOver.pc = "idle" /\ TurnOver.pc \notin Answering
      /\ TurnOver.why = "open"
  BY DEF TurnOver, TurnState, Pin, Answering
<1>2. \A u \in Turn : turn'[u] = IF u = t THEN TurnOver ELSE turn[u]
  BY DEF TurnTypes
<1> QED
  BY <1>1, <1>2 DEF TurnTypes

\* So does a lookup that has its answer.
LEMMA AnsweredTypes ==
    ASSUME TurnTypes, NEW t \in Turn, NEW account \in Pin, Answered(t, account), turns' = turns
    PROVE  TurnTypes'
<1>1. turn[t] \in TurnState /\ turn[t].why \in {"open", "note"} /\ turn[t].path \in {"whole", "stream"}
  BY DEF TurnTypes, TurnState
<1>2. CASE turn[t].why = "open"
  <2> DEFINE served == [TurnOver EXCEPT !.pc = "serve"]
  <2>1. turn' = [turn EXCEPT ![t] = served]
    BY <1>2 DEF Answered
  <2>2. served \in TurnState /\ served.pc = "serve" /\ served.why = "open"
    BY DEF TurnState, TurnOver, Pin
  <2> HIDE DEF served
  <2>3. \A u \in Turn : turn'[u] = IF u = t THEN served ELSE turn[u]
    BY <2>1 DEF TurnTypes
  <2> QED
    BY <2>1, <2>2, <2>3 DEF TurnTypes, Answering
<1>3. CASE turn[t].why = "note"
  <2>1. turn[t].winner \in Account
    BY <1>3 DEF TurnTypes
  <2>2. \/ Goto(t, "drop") \/ Goto(t, "bind") \/ turn' = [turn EXCEPT ![t] = TurnOver]
    BY <1>1, <1>3 DEF Answered
  <2> QED
    BY <2>1, <2>2, GotoTypes, TurnOverTypes
<1> QED
  BY <1>1, <1>2, <1>3

\* Every step keeps the types of the turns.
LEMMA TurnTypesStep ==
    ASSUME CacheTypes, TurnTypes, [Next]_vars PROVE TurnTypes'
<1>1. ASSUME NEW t \in Turn, StartTurn(t) PROVE TurnTypes'
  <2>1. turns' \in [Turn -> Nat] /\ \A u \in Turn : turns'[u] <= MaxTurns[u]
    <3>1. turns' = [turns EXCEPT ![t] = turns[t] + 1] /\ turns[t] < MaxTurns[t]
      BY <1>1 DEF StartTurn
    <3>2. turns \in [Turn -> Nat] /\ \A u \in Turn : turns[u] <= MaxTurns[u] /\ MaxTurns[u] \in Nat
      BY BoundAssumption DEF TurnTypes
    <3>3. turns[t] + 1 \in Nat /\ turns[t] + 1 <= MaxTurns[t]
      BY <3>1, <3>2
    <3>4. \A u \in Turn : turns'[u] = IF u = t THEN turns[t] + 1 ELSE turns[u]
      BY <3>1, <3>2
    <3> QED
      BY <3>1, <3>2, <3>3, <3>4
  <2>2. turn' = [turn EXCEPT ![t] = [turn[t] EXCEPT !.pc = "look"]] /\ turn[t] \in TurnState
    BY <1>1 DEF StartTurn, Goto, TurnTypes
  <2>3. [turn[t] EXCEPT !.pc = "look"] \in TurnState
    BY <2>2 DEF TurnState
  <2>4. \A u \in Turn : turn'[u] = IF u = t THEN [turn[t] EXCEPT !.pc = "look"] ELSE turn[u]
    BY <2>2 DEF TurnTypes
  <2>5. turn'[t].pc = "look" /\ turn'[t].why = turn[t].why /\ turn'[t].winner = turn[t].winner
    BY <2>2, <2>4 DEF TurnState
  <2>6. turn' \in [Turn -> TurnState]
    BY <2>2, <2>3 DEF TurnTypes
  <2> QED
    BY <2>1, <2>4, <2>5, <2>6 DEF TurnTypes, Answering
<1>2. ASSUME NEW t \in Turn, LookLocal(t) PROVE TurnTypes'
  <2>1. local[Home[t]] \in Pin
    BY HomeAssumption DEF CacheTypes
  <2> QED
    BY <1>2, <2>1, AnsweredTypes, GotoTypes DEF LookLocal, Answering
<1>3. ASSUME NEW t \in Turn, LookRedis(t) PROVE TurnTypes'
  <2>1. CASE Answered(t, None)
    BY <1>3, <2>1, AnsweredTypes DEF LookRedis, Pin
  <2>2. CASE redis # None /\ turn' = [turn EXCEPT ![t].pc = "cache", ![t].read = redis]
    <3> DEFINE found == [[turn[t] EXCEPT !.pc = "cache"] EXCEPT !.read = redis]
    <3>1. redis \in Account /\ turn[t] \in TurnState
      BY <2>2 DEF CacheTypes, TurnTypes, Pin
    <3>2. turn' = [turn EXCEPT ![t] = found]
      BY <2>2, <3>1 DEF TurnTypes
    <3>3. found \in TurnState /\ found.pc = "cache" /\ found.read = redis
          /\ found.why = turn[t].why /\ found.winner = turn[t].winner
      BY <3>1 DEF TurnState, Pin
    <3> HIDE DEF found
    <3>4. \A u \in Turn : turn'[u] = IF u = t THEN found ELSE turn[u]
      BY <3>2 DEF TurnTypes
    <3> QED
      BY <1>3, <3>1, <3>2, <3>3, <3>4 DEF LookRedis, TurnTypes, Answering
  <2> QED
    BY <1>3, <2>1, <2>2 DEF LookRedis
<1>4. ASSUME NEW t \in Turn, CacheRead(t) PROVE TurnTypes'
  <2>1. turn[t].read \in Pin
    BY DEF TurnTypes, TurnState
  <2> QED
    BY <1>4, <2>1, AnsweredTypes DEF CacheRead
<1>5. ASSUME NEW t \in Turn, Serve(t) PROVE TurnTypes'
  <2>1. PICK first \in Account, winner \in Account, path \in {"whole", "stream"}, miss \in Pin :
            turn' = [turn EXCEPT ![t] = Served(path, miss, winner)]
    BY <1>5 DEF Serve
  <2> DEFINE served == Served(path, miss, winner)
  <2>2. served \in TurnState /\ served.winner \in Account /\ served.pc # "cache"
    BY DEF Served, TurnState, Pin
  <2> HIDE DEF served
  <2>3. turn' = [turn EXCEPT ![t] = served]
    BY <2>1 DEF served
  <2>4. \A u \in Turn : turn'[u] = IF u = t THEN served ELSE turn[u]
    BY <2>3 DEF TurnTypes
  <2> QED
    BY <1>5, <2>2, <2>3, <2>4 DEF Serve, TurnTypes
<1>6. ASSUME NEW t \in Turn, ServeNone(t) PROVE TurnTypes'
  BY <1>6, TurnOverTypes DEF ServeNone
<1>7. ASSUME NEW t \in Turn, BindLocal(t) PROVE TurnTypes'
  BY <1>7, GotoTypes DEF BindLocal, TurnTypes, Answering
<1>8. ASSUME NEW t \in Turn, BindQueue(t) PROVE TurnTypes'
  <2>1. turn' = [turn EXCEPT ![t] = TurnOver] \/ Goto(t, "look")
    BY <1>8 DEF BindQueue, Goto
  <2> QED
    BY <1>8, <2>1, TurnOverTypes, GotoTypes DEF BindQueue, Answering
<1>9. ASSUME NEW t \in Turn, DropLocal(t) \/ DropPending(t) PROVE TurnTypes'
  BY <1>9, GotoTypes DEF DropLocal, DropPending, TurnTypes, Answering
<1>10. ASSUME NEW t \in Turn, Del(t) PROVE TurnTypes'
  <2>1. turn' = [turn EXCEPT ![t] = TurnOver] \/ Goto(t, "bind")
    BY <1>10 DEF Del, Goto
  <2>2. turn[t].winner \in Account
    BY <1>10 DEF Del, TurnTypes, Answering
  <2> QED
    BY <1>10, <2>1, <2>2, TurnOverTypes, GotoTypes DEF Del
<1>11. ASSUME NEW p \in Process, Restart(p) PROVE TurnTypes'
  <2>1. TurnOver \in TurnState /\ TurnOver.pc = "idle" /\ TurnOver.pc \notin Answering
      /\ TurnOver.why = "open"
    BY DEF TurnOver, TurnState, Pin, Answering
  <2>2. \A u \in Turn : turn'[u] = IF u \in Slots(p) THEN TurnOver ELSE turn[u]
    BY <1>11 DEF Restart
  <2>3. turn' \in [Turn -> TurnState]
    BY <1>11, <2>1 DEF Restart, TurnTypes
  <2> QED
    BY <1>11, <2>1, <2>2, <2>3 DEF Restart, TurnTypes
<1>12. CASE UNCHANGED <<turn, turns>>
  BY <1>12 DEF TurnTypes
<1>13. ASSUME NEW p \in Process, NEW w \in Writer, Flush(p, w) PROVE UNCHANGED <<turn, turns>>
  BY <1>13 DEF Flush, Take, WriteRedis, CacheWritten
<1>14. ASSUME NEW p \in Process, LocalExpires(p) PROVE UNCHANGED <<turn, turns>>
  BY <1>14 DEF LocalExpires
<1>15. CASE RedisExpires
  BY <1>12, <1>15 DEF RedisExpires
<1> QED
  BY <1>1, <1>2, <1>3, <1>4, <1>5, <1>6, <1>7, <1>8, <1>9, <1>10, <1>11, <1>12, <1>13, <1>14,
     <1>15
  DEF Next, vars, RunTurn, Look, Attempt, Bind, Clear

-----------------------------------------------------------------------------
(* Caches and goroutines. *)

\* The states a goroutine moves to, and the move.
LEMMA TakeState == ASSUME NEW s \in WriterState PROVE [s EXCEPT !.pc = "take"] \in WriterState
<1>1. CASE s \in [pc : {"off", "take"}, account : Pin]
  BY <1>1 DEF WriterState
<1>2. CASE s \in [pc : {"set", "cache"}, account : Account]
  BY <1>2 DEF WriterState, Pin
<1> QED
  BY <1>1, <1>2 DEF WriterState

LEMMA WriterMove ==
    ASSUME CacheTypes, NEW p \in Process, NEW w \in Writer, NEW s \in WriterState,
           writer' = [writer EXCEPT ![p][w] = s]
    PROVE  writer' \in [Process -> [Writer -> WriterState]]
<1>1. [writer[p] EXCEPT ![w] = s] \in [Writer -> WriterState]
  BY DEF CacheTypes
<1> QED
  BY <1>1 DEF CacheTypes

\* Every step keeps their types.
LEMMA CacheTypesStep ==
    ASSUME CacheTypes, TurnTypes, [Next]_vars PROVE CacheTypes'
<1> USE HomeAssumption DEF CacheTypes, Pin
<1>1. ASSUME NEW t \in Turn, StartTurn(t) \/ LookLocal(t) \/ Attempt(t) PROVE CacheTypes'
  BY <1>1 DEF StartTurn, LookLocal, Attempt, Serve, ServeNone, caches, history
<1>2. ASSUME NEW t \in Turn, LookRedis(t) PROVE CacheTypes'
  BY <1>2, LoseTypes DEF LookRedis, caches, history
<1>3. ASSUME NEW t \in Turn, CacheRead(t) PROVE CacheTypes'
  <2>1. turn[t].read \in Pin
    BY DEF TurnTypes, TurnState
  <2> QED
    BY <1>3, <2>1 DEF CacheRead
<1>4. ASSUME NEW t \in Turn, BindLocal(t) PROVE CacheTypes'
  <2>1. turn[t].winner \in Pin
    BY DEF TurnTypes, TurnState
  <2> QED
    BY <1>4, <2>1 DEF BindLocal, history
<1>5. ASSUME NEW t \in Turn, BindQueue(t) PROVE CacheTypes'
  <2>1. turn[t].winner \in Pin
    BY DEF TurnTypes, TurnState
  <2>2. writer' \in [Process -> [Writer -> WriterState]]
    <3>1. CASE UNCHANGED writer
      BY <3>1
    <3>2. ASSUME NEW p \in Process, Spawn(p) PROVE writer' \in [Process -> [Writer -> WriterState]]
      <4>1. PICK w \in Writer : writer' = [writer EXCEPT ![p][w].pc = "take"]
        BY <3>2 DEF Spawn
      <4>2. [writer[p][w] EXCEPT !.pc = "take"] \in WriterState
        BY TakeState
      <4>3. writer' = [writer EXCEPT ![p][w] = [writer[p][w] EXCEPT !.pc = "take"]]
        BY <4>1
      <4> QED
        BY <4>2, <4>3, WriterMove
    <3> QED
      BY <1>5, <3>1, <3>2 DEF BindQueue
  <2> QED
    BY <1>5, <2>1, <2>2 DEF BindQueue
<1>6. ASSUME NEW t \in Turn, DropLocal(t) \/ DropPending(t) PROVE CacheTypes'
  BY <1>6 DEF DropLocal, DropPending, history
<1>7. ASSUME NEW t \in Turn, Del(t) PROVE CacheTypes'
  BY <1>7, LoseTypes DEF Del, caches
<1>8. ASSUME NEW p \in Process, NEW w \in Writer, Take(p, w) PROVE CacheTypes'
  <2>1. pending[p] # None => [pc |-> "set", account |-> pending[p]] \in WriterState
    BY DEF WriterState
  <2>2. WriterOff \in WriterState
    BY DEF WriterOff, WriterState
  <2>3. writer' \in [Process -> [Writer -> WriterState]]
    BY <1>8, <2>1, <2>2, WriterMove DEF Take
  <2>4. pending' \in [Process -> Pin] /\ flushing' \in [Process -> BOOLEAN]
    BY <1>8 DEF Take
  <2> QED
    BY <1>8, <2>3, <2>4 DEF Take, history
<1>9. ASSUME NEW p \in Process, NEW w \in Writer, WriteRedis(p, w) \/ CacheWritten(p, w)
      PROVE CacheTypes'
  <2>1. writer[p][w] \in WriterState /\ writer[p][w].pc \in {"set", "cache"}
        /\ writer[p][w].account \in Account
    BY <1>9 DEF WriteRedis, CacheWritten, WriterState
  <2>2. [writer[p][w] EXCEPT !.pc = "cache"] \in WriterState
    BY <2>1 DEF WriterState
  <2>3. [writer[p][w] EXCEPT !.pc = "take"] \in WriterState
    BY <2>1, TakeState
  <2>4. \/ writer' = [writer EXCEPT ![p][w] = [writer[p][w] EXCEPT !.pc = "cache"]]
        \/ writer' = [writer EXCEPT ![p][w] = [writer[p][w] EXCEPT !.pc = "take"]]
    BY <1>9 DEF WriteRedis, CacheWritten
  <2>5. writer' \in [Process -> [Writer -> WriterState]]
    BY <2>2, <2>3, <2>4, WriterMove
  <2> QED
    BY <1>9, <2>1, <2>5, LoseTypes DEF WriteRedis, CacheWritten, history
<1>10. ASSUME NEW p \in Process, LocalExpires(p) PROVE CacheTypes'
  BY <1>10, LoseTypes DEF LocalExpires, history
<1>11. CASE RedisExpires
  BY <1>11, LoseTypes DEF RedisExpires, caches, history
<1>12. ASSUME NEW p \in Process, Restart(p) PROVE CacheTypes'
  <2>1. WriterOff \in WriterState
    BY DEF WriterOff, WriterState
  <2>2. [w \in Writer |-> WriterOff] \in [Writer -> WriterState]
    BY <2>1
  <2>3. writer' \in [Process -> [Writer -> WriterState]]
    BY <1>12, <2>2 DEF Restart
  <2> QED
    BY <1>12, <2>3, LoseTypes DEF Restart
<1>13. CASE UNCHANGED vars
  BY <1>13 DEF vars
<1> QED
  BY <1>1, <1>2, <1>3, <1>4, <1>5, <1>6, <1>7, <1>8, <1>9, <1>10, <1>11, <1>12, <1>13
  DEF Next, RunTurn, Look, Bind, Clear, Flush

\* TypeOK holds of every reachable state, for any processes, slots and accounts.
THEOREM TypeCorrect == Spec => []TypeOK
<1>1. Init => TypeOK
  <2>1. WriterOff \in WriterState /\ TurnOver \in TurnState
        /\ TurnOver.pc = "idle" /\ TurnOver.why = "open"
    BY DEF WriterOff, WriterState, TurnOver, TurnState, Pin
  <2> QED
    BY <2>1, BoundAssumption DEF Init, TypeOK, Answering, Pin
<1>2. TypeOK /\ [Next]_vars => TypeOK'
  <2> SUFFICES ASSUME CacheTypes, TurnTypes, [Next]_vars PROVE CacheTypes' /\ TurnTypes'
    BY TypeHalves DEF TypeOK, CacheTypes, TurnTypes
  <2> QED
    BY CacheTypesStep, TurnTypesStep
<1> QED
  BY <1>1, <1>2, PTL DEF Spec

-----------------------------------------------------------------------------
(* One goroutine per key. *)

\* OneWriter of one process.
Coalesced(p) ==
    /\ \A v, w \in Running(p) : v = w
    /\ flushing[p] <=> Running(p) # {}
    /\ pending[p] # None => flushing[p]

\* A process whose goroutines, flag and queue do not change stays coalesced.
LEMMA SameCoalesced ==
    ASSUME NEW p \in Process, Coalesced(p), UNCHANGED <<writer, flushing>>,
           pending'[p] \in {pending[p], None}
    PROVE  Coalesced(p)'
BY DEF Coalesced, Running

\* A step of one process leaves the others coalesced.
LEMMA OtherCoalesced ==
    ASSUME NEW p \in Process, Coalesced(p), writer'[p] = writer[p],
           flushing'[p] = flushing[p], pending'[p] = pending[p]
    PROVE  Coalesced(p)'
BY DEF Coalesced, Running

\* A bind queues its write behind the running goroutine, or starts one where
\* none runs.
LEMMA QueueCoalesced ==
    ASSUME CacheTypes, NEW t \in Turn, BindQueue(t), NEW p \in Process, Coalesced(p)
    PROVE  Coalesced(p)'
<1> DEFINE q == Home[t]
<1>1. q \in Process
  BY HomeAssumption
<1>2. CASE p # q
  <2>1. writer'[p] = writer[p]
    BY <1>1, <1>2 DEF BindQueue, Spawn, CacheTypes
  <2> QED
    BY <1>1, <1>2, <2>1, OtherCoalesced DEF BindQueue, CacheTypes
<1>3. CASE p = q /\ flushing[q]
  BY <1>1, <1>3 DEF BindQueue, Coalesced, Running, CacheTypes
<1>4. CASE p = q /\ ~flushing[q]
  <2>1. Running(p) = {} /\ flushing'[p]
    BY <1>1, <1>4 DEF BindQueue, Coalesced, CacheTypes
  <2>2. PICK w \in Writer : writer' = [writer EXCEPT ![p][w].pc = "take"]
    BY <1>4 DEF BindQueue, Spawn
  <2>3. \A v \in Writer : writer'[p][v].pc # "off" => v = w
    BY <2>1, <2>2 DEF Running, CacheTypes
  <2>4. writer'[p][w] = [writer[p][w] EXCEPT !.pc = "take"] /\ writer[p][w] \in WriterState
    BY <2>2 DEF CacheTypes
  <2>5. writer'[p][w].pc = "take"
    BY <2>4 DEF WriterState
  <2> QED
    BY <2>1, <2>3, <2>5 DEF Coalesced, Running
<1> QED
  BY <1>2, <1>3, <1>4 DEF CacheTypes

\* The goroutine ends only with nothing queued, in the same critical section.
LEMMA TakeCoalesced ==
    ASSUME CacheTypes, NEW q \in Process, NEW w \in Writer, Take(q, w),
           NEW p \in Process, Coalesced(p)
    PROVE  Coalesced(p)'
<1>1. CASE p # q
  <2>1. writer'[p] = writer[p] /\ flushing'[p] = flushing[p] /\ pending'[p] = pending[p]
    BY <1>1 DEF Take, CacheTypes
  <2> QED
    BY <2>1, OtherCoalesced
<1>2. CASE p = q /\ pending[q] = None
  <2>1. /\ writer' = [writer EXCEPT ![p][w] = WriterOff]
        /\ flushing'[p] = FALSE /\ pending'[p] = None
    BY <1>2 DEF Take, CacheTypes
  <2>2. writer'[p][w].pc = "off" /\ \A v \in Writer : v # w => writer'[p][v] = writer[p][v]
    BY <2>1 DEF CacheTypes, WriterOff
  <2>3. \A v \in Writer : v # w => writer[p][v].pc = "off"
    BY <1>2 DEF Take, Coalesced, Running
  <2> QED
    BY <2>1, <2>2, <2>3 DEF Coalesced, Running
<1>3. CASE p = q /\ pending[q] # None
  <2> DEFINE s == [pc |-> "set", account |-> pending[q]]
  <2>1. writer' = [writer EXCEPT ![p][w] = s] /\ s.pc = "set" /\ flushing' = flushing
        /\ pending'[p] = None
    BY <1>3 DEF Take, CacheTypes
  <2> HIDE DEF s
  <2>2. \A v \in Writer : writer'[p][v] = IF v = w THEN s ELSE writer[p][v]
    BY <2>1 DEF CacheTypes
  <2>3. Running(p)' = Running(p)
    BY <1>3, <2>1, <2>2 DEF Take, Running
  <2> QED
    BY <2>1, <2>3 DEF Coalesced
<1> QED
  BY <1>1, <1>2, <1>3

\* Writing moves the goroutine that runs.
LEMMA WriteCoalesced ==
    ASSUME CacheTypes, NEW q \in Process, NEW w \in Writer,
           WriteRedis(q, w) \/ CacheWritten(q, w), NEW p \in Process, Coalesced(p)
    PROVE  Coalesced(p)'
<1>1. PICK label \in {"take", "cache"} : writer' = [writer EXCEPT ![q][w].pc = label]
  BY DEF WriteRedis, CacheWritten
<1>2. UNCHANGED <<flushing, pending>> /\ writer[q][w].pc # "off"
  BY DEF WriteRedis, CacheWritten
<1>3. writer'[q][w] = [writer[q][w] EXCEPT !.pc = label] /\ writer[q][w] \in WriterState
  BY <1>1 DEF CacheTypes
<1>4. writer'[q][w].pc = label
  BY <1>3 DEF WriterState
<1>5. \A v \in Writer : p # q \/ v # w => writer'[p][v] = writer[p][v]
  BY <1>1 DEF CacheTypes
<1>6. Running(p)' = Running(p)
  BY <1>2, <1>4, <1>5 DEF Running
<1> QED
  BY <1>2, <1>6 DEF Coalesced

\* affinityScheduleWrite, at any time of any process: its key has at most one
\* goroutine, the flag tells whether it runs, and no write waits without one.
THEOREM WritesCoalesced == Spec => []OneWriter
<1>1. Init => OneWriter
  <2> SUFFICES ASSUME Init PROVE OneWriter
    OBVIOUS
  <2>1. \A p \in Process : Running(p) = {} /\ ~flushing[p] /\ pending[p] = None
    BY DEF Init, Running, WriterOff
  <2> QED
    BY <2>1 DEF OneWriter
<1>2. TypeOK /\ OneWriter /\ [Next]_vars => OneWriter'
  <2> SUFFICES ASSUME CacheTypes, [Next]_vars, NEW p \in Process, Coalesced(p)
               PROVE  Coalesced(p)'
    BY TypeHalves DEF OneWriter, Coalesced
  <2>1. ASSUME NEW t \in Turn, BindQueue(t) PROVE Coalesced(p)'
    BY <2>1, QueueCoalesced
  <2>2. ASSUME NEW t \in Turn, DropPending(t) PROVE Coalesced(p)'
    BY <2>2, HomeAssumption, SameCoalesced DEF DropPending, CacheTypes
  <2>3. ASSUME NEW q \in Process, NEW w \in Writer, Flush(q, w) PROVE Coalesced(p)'
    BY <2>3, TakeCoalesced, WriteCoalesced DEF Flush
  <2>4. ASSUME NEW q \in Process, Restart(q) PROVE Coalesced(p)'
    <3>1. CASE p # q
      BY <2>4, <3>1, OtherCoalesced DEF Restart, CacheTypes
    <3>2. CASE p = q
      BY <2>4, <3>2 DEF Restart, CacheTypes, Coalesced, Running, WriterOff
    <3> QED
      BY <3>1, <3>2
  <2>5. CASE UNCHANGED <<writer, flushing, pending>>
    BY <2>5, SameCoalesced
  <2>6. ASSUME NEW t \in Turn,
               StartTurn(t) \/ Look(t) \/ Attempt(t) \/ BindLocal(t) \/ DropLocal(t) \/ Del(t)
        PROVE  UNCHANGED <<writer, flushing, pending>>
    BY <2>6 DEF StartTurn, Look, LookLocal, LookRedis, CacheRead, Attempt, Serve, ServeNone,
               BindLocal, DropLocal, Del, caches
  <2>7. ASSUME NEW q \in Process, LocalExpires(q) PROVE UNCHANGED <<writer, flushing, pending>>
    BY <2>7 DEF LocalExpires
  <2>8. CASE RedisExpires
    BY <2>5, <2>8 DEF RedisExpires, caches
  <2> QED
    BY <2>1, <2>2, <2>3, <2>4, <2>5, <2>6, <2>7, <2>8 DEF Next, vars, RunTurn, Bind, Clear
<1> QED
  BY <1>1, <1>2, TypeCorrect, PTL DEF Spec

-----------------------------------------------------------------------------
(* Where the pin settles. *)

Writing(p) == \E w \in Writer : writer[p][w].pc \in {"set", "cache"}

\* A process p with the one slot t.  The write that is queued, or else the one
\* under way, is of the pin; where there is neither, the local pin is the pin,
\* if any, but for a bind in between; and nothing is to be written while the
\* turn reads Redis, or while there is no local pin.
Own(p, t) ==
    /\ turn[t].pc = "queue" => local[p] # None
    /\ p \notin missed =>
        /\ pending[p] # None => pending[p] = pin[p]
        /\ pending[p] = None =>
              \A w \in Writer : writer[p][w].pc \in {"set", "cache"} =>
                                    writer[p][w].account = pin[p]
        /\ pending[p] = None /\ ~Writing(p) /\ turn[t].pc # "queue" => local[p] \in {None, pin[p]}
        /\ turn[t].pc \in {"get", "cache"} => pending[p] = None /\ ~Writing(p)
        /\ local[p] = None /\ turn[t].pc # "unqueue" => pending[p] = None /\ ~Writing(p)

\* A process that answers for what Redis holds: it is its pin, which no stale
\* read is about to replace, or the process is still to write.
Backs(p) ==
    \/ ~Sequential(p) \/ p \in missed \/ pending[p] # None
    \/ \E w \in Writer : writer[p][w].pc = "set"
    \/ pin[p] = redis /\ \A t \in Slots(p) : turn[t].pc = "cache" => turn[t].read = redis

Owns == \A p \in Process, t \in Turn : Slots(p) = {t} => Own(p, t)
Backed == redis = None \/ \E p \in Process : Backs(p)
SettleInv == CacheTypes /\ TurnTypes /\ OneWriter /\ Owns /\ Backed

\* The slot of a sequential process is the one of its turn.
LEMMA TheSlot ==
    ASSUME NEW p, NEW t \in Turn, Slots(p) = {t}
    PROVE  Home[t] = p /\ \A u \in Turn : Home[u] = p => u = t
BY DEF Slots

\* A process without goroutine has neither a write under way nor one queued.
LEMMA IdleProcess ==
    ASSUME OneWriter, NEW p \in Process, WriterIdle(p) \/ ~flushing[p]
    PROVE  WriterIdle(p) /\ ~flushing[p] /\ pending[p] = None /\ ~Writing(p)
BY DEF OneWriter, Running, WriterIdle, Writing

LEMMA OwnSame ==
    ASSUME NEW p \in Process, NEW t \in Turn, Own(p, t),
           local'[p] = local[p], pending'[p] = pending[p], writer'[p] = writer[p],
           pin'[p] = pin[p], turn'[t] = turn[t], p \in missed => p \in missed'
    PROVE  Own(p, t)'
BY DEF Own, Writing

\* A turn that moves to a stage of which Own asks nothing.
LEMMA OwnMove ==
    ASSUME NEW p \in Process, NEW t \in Turn, Own(p, t),
           local'[p] = local[p], pending'[p] = pending[p], writer'[p] = writer[p],
           pin'[p] = pin[p], p \in missed => p \in missed',
           turn[t].pc \notin {"queue", "unqueue"},
           turn'[t].pc \notin {"queue", "unqueue", "get", "cache"}
    PROVE  Own(p, t)'
BY DEF Own, Writing

\* The stages a turn moves to when it has its answer.
LEMMA AnsweredPc ==
    ASSUME TurnTypes, NEW t \in Turn, NEW account, Answered(t, account)
    PROVE  /\ turn'[t].pc \in {"serve", "drop", "bind", "idle"}
           /\ \A u \in Turn : u # t => turn'[u] = turn[u]
<1>1. turn[t] \in TurnState
  BY DEF TurnTypes
<1>2. [TurnOver EXCEPT !.pc = "serve"].pc = "serve" /\ TurnOver.pc = "idle"
  BY DEF TurnOver
<1>3. \A pc : [turn[t] EXCEPT !.pc = pc].pc = pc
  BY <1>1 DEF TurnState
<1> QED
  BY <1>2, <1>3 DEF Answered, Goto, TurnTypes

LEMMA GotoPc ==
    ASSUME TurnTypes, NEW t \in Turn, NEW pc, Goto(t, pc)
    PROVE  turn'[t].pc = pc /\ \A u \in Turn : u # t => turn'[u] = turn[u]
<1>1. turn[t] \in TurnState
  BY DEF TurnTypes
<1> QED
  BY <1>1 DEF TurnState, Goto, TurnTypes

\* What a step of the turns does to the stages, and to no other slot.
LEMMA TurnMoves ==
    ASSUME TurnTypes, NEW t \in Turn, StartTurn(t) \/ RunTurn(t)
    PROVE  /\ \A u \in Turn : u # t => turn'[u] = turn[u]
           /\ StartTurn(t) => turn[t].pc = "idle" /\ turn'[t].pc = "look"
           /\ LookLocal(t) => /\ turn[t].pc = "look"
                              /\ \/ /\ local[Home[t]] # None
                                    /\ turn'[t].pc \in {"serve", "drop", "bind", "idle"}
                                 \/ local[Home[t]] = None /\ turn'[t].pc = "get"
           /\ LookRedis(t) => /\ turn[t].pc = "get"
                              /\ \/ turn'[t].pc \in {"serve", "drop", "bind", "idle"}
                                 \/ turn'[t].pc = "cache" /\ turn'[t].read = redis
           /\ CacheRead(t) => turn[t].pc = "cache" /\ turn'[t].pc \in {"serve", "drop", "bind", "idle"}
           /\ Attempt(t) => turn[t].pc = "serve" /\ turn'[t].pc \in {"look", "bind", "idle"}
           /\ BindLocal(t) => turn[t].pc = "bind" /\ turn'[t].pc = "queue"
           /\ BindQueue(t) => turn[t].pc = "queue" /\ turn'[t].pc \in {"look", "idle"}
           /\ DropLocal(t) => turn[t].pc = "drop" /\ turn'[t].pc = "unqueue"
           /\ DropPending(t) => turn[t].pc = "unqueue" /\ turn'[t].pc = "del"
           /\ Del(t) => turn[t].pc = "del" /\ turn'[t].pc \in {"bind", "idle"}
<1> DEFINE Alone == \A u \in Turn : u # t => turn'[u] = turn[u]
<1>1. turn[t] \in TurnState /\ turn \in [Turn -> TurnState]
  BY DEF TurnTypes
<1>2. TurnOver.pc = "idle"
  BY DEF TurnOver
<1>3. \A pc : [turn[t] EXCEPT !.pc = pc].pc = pc
  BY <1>1 DEF TurnState
<1>4. StartTurn(t) => turn[t].pc = "idle" /\ turn'[t].pc = "look" /\ Alone
  BY GotoPc DEF StartTurn
<1>5. LookLocal(t) => /\ turn[t].pc = "look" /\ Alone
                      /\ \/ /\ local[Home[t]] # None
                            /\ turn'[t].pc \in {"serve", "drop", "bind", "idle"}
                         \/ local[Home[t]] = None /\ turn'[t].pc = "get"
  BY GotoPc, AnsweredPc DEF LookLocal
<1>6. LookRedis(t) => /\ turn[t].pc = "get" /\ Alone
                      /\ \/ turn'[t].pc \in {"serve", "drop", "bind", "idle"}
                         \/ turn'[t].pc = "cache" /\ turn'[t].read = redis
  <2> SUFFICES ASSUME LookRedis(t)
               PROVE  /\ turn[t].pc = "get" /\ Alone
                      /\ \/ turn'[t].pc \in {"serve", "drop", "bind", "idle"}
                         \/ turn'[t].pc = "cache" /\ turn'[t].read = redis
    OBVIOUS
  <2>1. turn[t].pc = "get"
    BY DEF LookRedis
  <2>2. CASE Answered(t, None)
    BY <2>1, <2>2, AnsweredPc
  <2>3. CASE turn' = [turn EXCEPT ![t].pc = "cache", ![t].read = redis]
    <3> DEFINE found == [[turn[t] EXCEPT !.pc = "cache"] EXCEPT !.read = redis]
    <3>1. turn' = [turn EXCEPT ![t] = found]
      BY <1>1, <2>3
    <3>2. found.pc = "cache" /\ found.read = redis
      BY <1>1 DEF TurnState
    <3> HIDE DEF found
    <3> QED
      BY <1>1, <2>1, <3>1, <3>2
  <2> QED
    BY <2>2, <2>3 DEF LookRedis
<1>7. CacheRead(t) => turn[t].pc = "cache" /\ turn'[t].pc \in {"serve", "drop", "bind", "idle"} /\ Alone
  BY AnsweredPc DEF CacheRead
<1>8. Attempt(t) => turn[t].pc = "serve" /\ turn'[t].pc \in {"look", "bind", "idle"} /\ Alone
  BY <1>1, <1>2 DEF Attempt, Serve, ServeNone, Served
<1>9. BindLocal(t) => turn[t].pc = "bind" /\ turn'[t].pc = "queue" /\ Alone
  BY GotoPc DEF BindLocal
<1>10. BindQueue(t) => turn[t].pc = "queue" /\ turn'[t].pc \in {"look", "idle"} /\ Alone
  BY <1>1, <1>2, <1>3 DEF BindQueue
<1>11. DropLocal(t) => turn[t].pc = "drop" /\ turn'[t].pc = "unqueue" /\ Alone
  BY GotoPc DEF DropLocal
<1>12. DropPending(t) => turn[t].pc = "unqueue" /\ turn'[t].pc = "del" /\ Alone
  BY GotoPc DEF DropPending
<1>13. Del(t) => turn[t].pc = "del" /\ turn'[t].pc \in {"bind", "idle"} /\ Alone
  BY <1>1, <1>2, <1>3 DEF Del
<1> QED
  BY <1>4, <1>5, <1>6, <1>7, <1>8, <1>9, <1>10, <1>11, <1>12, <1>13
  DEF RunTurn, Look, Bind, Clear

-----------------------------------------------------------------------------
(* Own, step by step. *)

\* A turn of the process.
LEMMA TurnOwn ==
    ASSUME CacheTypes, TurnTypes, OneWriter, NEW t \in Turn, NEW p \in Process, Slots(p) = {t},
           Own(p, t), StartTurn(t) \/ RunTurn(t)
    PROVE  Own(p, t)'
<1>1. Home[t] = p
  BY TheSlot
<1>2. CASE StartTurn(t) \/ Attempt(t)
  <2>1. UNCHANGED <<local, pending, writer, pin, missed>>
    BY <1>2 DEF StartTurn, Attempt, Serve, ServeNone, caches, history
  <2> QED
    BY <1>2, <2>1, TurnMoves, OwnMove
<1>3. CASE LookLocal(t)
  <2>1. UNCHANGED <<local, pending, writer, pin, missed>>
    BY <1>3 DEF LookLocal, caches, history
  <2>2. turn[t].pc = "look"
    BY <1>3, TurnMoves
  <2>3. CASE turn'[t].pc \in {"serve", "drop", "bind", "idle"}
    BY <2>1, <2>2, <2>3, OwnMove
  <2>4. CASE local[p] = None /\ turn'[t].pc = "get"
    BY <2>1, <2>2, <2>4 DEF Own, Writing
  <2> QED
    BY <1>1, <1>3, <2>3, <2>4, TurnMoves
<1>4. CASE LookRedis(t)
  <2>1. UNCHANGED <<local, pending, writer, pin, missed>>
    BY <1>4 DEF LookRedis, caches, history
  <2>2. turn[t].pc = "get" /\ turn'[t].pc \in {"serve", "drop", "bind", "idle", "cache"}
    BY <1>4, TurnMoves
  <2>3. CASE turn'[t].pc # "cache"
    BY <2>1, <2>2, <2>3, OwnMove
  <2>4. CASE turn'[t].pc = "cache"
    BY <2>1, <2>2, <2>4 DEF Own, Writing
  <2> QED
    BY <2>3, <2>4
<1>5. CASE CacheRead(t)
  <2>1. turn[t].pc = "cache" /\ turn'[t].pc \in {"serve", "drop", "bind", "idle"}
    BY <1>5, TurnMoves
  <2>2. turn[t].read \in Account
    BY <2>1 DEF TurnTypes
  <2>3. local'[p] = turn[t].read /\ pin'[p] = turn[t].read /\ UNCHANGED <<pending, writer, missed>>
    BY <1>1, <1>5 DEF CacheRead, CacheTypes
  <2> QED
    BY <2>1, <2>2, <2>3, NoneAssumption DEF Own, Writing
<1>6. CASE BindLocal(t)
  <2>1. turn[t].pc = "bind" /\ turn'[t].pc = "queue"
    BY <1>6, TurnMoves
  <2>2. turn[t].winner \in Account
    BY <2>1 DEF TurnTypes, Answering
  <2>3. local'[p] = turn[t].winner /\ UNCHANGED <<pending, writer, pin, missed>>
    BY <1>1, <1>6 DEF BindLocal, CacheTypes, history
  <2> QED
    BY <2>1, <2>2, <2>3, NoneAssumption DEF Own, Writing
<1>7. CASE BindQueue(t)
  <2>1. turn[t].pc = "queue" /\ turn'[t].pc \in {"look", "idle"}
    BY <1>7, TurnMoves
  <2>2. turn[t].winner \in Account
    BY <2>1 DEF TurnTypes, Answering
  <2>3. pending'[p] = turn[t].winner /\ pin'[p] = turn[t].winner /\ local' = local
    BY <1>1, <1>7 DEF BindQueue, CacheTypes
  <2>4. local[p] # None
    BY <2>1 DEF Own
  <2> QED
    BY <2>1, <2>2, <2>3, <2>4, NoneAssumption DEF Own
<1>8. CASE DropLocal(t)
  <2>1. turn[t].pc = "drop" /\ turn'[t].pc = "unqueue"
    BY <1>8, TurnMoves
  <2>2. local'[p] = None /\ UNCHANGED <<pending, writer, pin, missed>>
    BY <1>1, <1>8 DEF DropLocal, CacheTypes, history
  <2> QED
    BY <2>1, <2>2 DEF Own, Writing
<1>9. CASE DropPending(t)
  <2>1. turn[t].pc = "unqueue" /\ turn'[t].pc = "del"
    BY <1>9, TurnMoves
  <2>2. /\ UNCHANGED <<local, writer, pin>> /\ pending'[p] = None
        /\ missed' = IF flushing[p] THEN missed \cup {p} ELSE missed
    BY <1>1, <1>9 DEF DropPending, CacheTypes
  <2>3. CASE flushing[p]
    BY <2>1, <2>2, <2>3 DEF Own
  <2>4. CASE ~flushing[p]
    <3>1. pending[p] = None /\ ~Writing(p)
      BY <2>4, IdleProcess
    <3> QED
      BY <2>1, <2>2, <2>4, <3>1 DEF Own, Writing
  <2> QED
    BY <2>3, <2>4
<1>10. CASE Del(t)
  <2>1. UNCHANGED <<local, pending, writer, pin>> /\ (p \in missed => p \in missed')
    BY <1>10 DEF Del, caches
  <2> QED
    BY <1>10, <2>1, TurnMoves, OwnMove
<1> QED
  BY <1>2, <1>3, <1>4, <1>5, <1>6, <1>7, <1>8, <1>9, <1>10 DEF RunTurn, Look, Bind, Clear

\* Its goroutine.
LEMMA FlushOwn ==
    ASSUME CacheTypes, OneWriter, NEW t \in Turn, NEW p \in Process, Own(p, t),
           NEW w \in Writer, Flush(p, w)
    PROVE  Own(p, t)'
<1>1. writer[p] \in [Writer -> WriterState] /\ writer[p][w] \in WriterState
  BY DEF CacheTypes
<1>2. \A v \in Writer : v # w => writer[p][v].pc = "off"
  <2>1. writer[p][w].pc # "off"
    BY DEF Flush, Take, WriteRedis, CacheWritten
  <2> QED
    BY <2>1 DEF OneWriter, Running
<1>3. UNCHANGED turn /\ pin' = pin
  BY DEF Flush, Take, WriteRedis, CacheWritten, history
<1>4. CASE Take(p, w) /\ pending[p] = None
  <2>1. /\ UNCHANGED <<local, pending, missed>>
        /\ writer' = [writer EXCEPT ![p][w] = WriterOff]
    BY <1>4 DEF Take, history
  <2>2. \A v \in Writer : writer'[p][v].pc = "off"
    BY <1>1, <1>2, <2>1 DEF CacheTypes, WriterOff
  <2>3. ~Writing(p) /\ ~Writing(p)'
    BY <1>2, <1>4, <2>2 DEF Writing, Take
  <2> QED
    BY <1>3, <1>4, <2>1, <2>2, <2>3 DEF Own
<1>5. CASE Take(p, w) /\ pending[p] # None
  <2>1. /\ UNCHANGED <<local, missed>> /\ pending'[p] = None
        /\ writer' = [writer EXCEPT ![p][w] = [pc |-> "set", account |-> pending[p]]]
    BY <1>5 DEF Take, CacheTypes, history
  <2>2. /\ writer'[p][w] = [pc |-> "set", account |-> pending[p]]
        /\ \A v \in Writer : v # w => writer'[p][v].pc = "off"
    BY <1>1, <1>2, <2>1 DEF CacheTypes
  <2>3. writer'[p][w].pc = "set" /\ writer'[p][w].account = pending[p]
    BY <2>2
  <2>4. Writing(p)'
    BY <2>3 DEF Writing
  <2> QED
    BY <1>3, <1>5, <2>1, <2>2, <2>3, <2>4 DEF Own
<1>6. CASE WriteRedis(p, w) /\ writer' = [writer EXCEPT ![p][w].pc = "cache"]
  <2>1. UNCHANGED <<local, pending>> /\ (p \in missed => p \in missed') /\ writer[p][w].pc = "set"
    BY <1>6 DEF WriteRedis
  <2>2. writer'[p][w] = [writer[p][w] EXCEPT !.pc = "cache"]
        /\ \A v \in Writer : v # w => writer'[p][v].pc = "off"
    BY <1>1, <1>2, <1>6 DEF CacheTypes
  <2>3. writer'[p][w].account = writer[p][w].account /\ writer'[p][w].pc = "cache"
    BY <1>1, <2>2 DEF WriterState
  <2>4. Writing(p) /\ Writing(p)'
    BY <2>1, <2>3 DEF Writing
  <2> QED
    BY <1>3, <2>1, <2>2, <2>3, <2>4 DEF Own
<1>7. CASE WriteRedis(p, w) /\ missed' = missed \cup {p}
  BY <1>3, <1>7 DEF WriteRedis, Own
<1>8. CASE CacheWritten(p, w)
  <2>1. /\ UNCHANGED <<pending, missed>> /\ writer[p][w].pc = "cache"
        /\ local'[p] = writer[p][w].account
        /\ writer' = [writer EXCEPT ![p][w].pc = "take"]
    BY <1>8 DEF CacheWritten, CacheTypes, history
  <2>2. writer[p][w].account \in Account
    BY <1>1, <2>1 DEF WriterState
  <2>3. writer'[p][w] = [writer[p][w] EXCEPT !.pc = "take"]
        /\ \A v \in Writer : v # w => writer'[p][v].pc = "off"
    BY <1>1, <1>2, <2>1 DEF CacheTypes
  <2>4. writer'[p][w].pc = "take"
    BY <1>1, <2>3 DEF WriterState
  <2>5. Writing(p) /\ ~Writing(p)'
    BY <2>1, <2>3, <2>4 DEF Writing
  <2> QED
    BY <1>3, <2>1, <2>2, <2>3, <2>4, <2>5, NoneAssumption DEF Own
<1> QED
  BY <1>4, <1>5, <1>6, <1>7, <1>8 DEF Flush, WriteRedis

LEMMA OwnsStep ==
    ASSUME SettleInv, [Next]_vars PROVE Owns'
<1> SUFFICES ASSUME NEW p \in Process, NEW t \in Turn, Slots(p) = {t} PROVE Own(p, t)'
  BY DEF Owns, Slots
<1>1. /\ CacheTypes /\ TurnTypes /\ OneWriter /\ Own(p, t)
      /\ Home[t] = p /\ \A u \in Turn : Home[u] = p => u = t
  BY TheSlot DEF SettleInv, Owns
<1>2. ASSUME NEW u \in Turn, StartTurn(u) \/ RunTurn(u) PROVE Own(p, t)'
  <2>1. CASE u = t
    BY <1>1, <1>2, <2>1, TurnOwn
  <2>2. CASE u # t
    <3>1. Home[u] # p /\ Home[u] \in Process /\ turn'[t] = turn[t]
      BY <1>1, <1>2, <2>2, TurnMoves, HomeAssumption
    <3>2. /\ local'[p] = local[p] /\ pending'[p] = pending[p] /\ writer'[p] = writer[p]
          /\ pin'[p] = pin[p] /\ (p \in missed => p \in missed')
      <4>1. CASE StartTurn(u) \/ LookLocal(u) \/ LookRedis(u) \/ Attempt(u)
        BY <4>1 DEF StartTurn, LookLocal, LookRedis, Attempt, Serve, ServeNone, caches, history
      <4>2. CASE CacheRead(u)
        BY <1>1, <3>1, <4>2 DEF CacheRead, CacheTypes
      <4>3. CASE BindLocal(u) \/ DropLocal(u) \/ DropPending(u) \/ Del(u)
        BY <1>1, <3>1, <4>3 DEF BindLocal, DropLocal, DropPending, Del, CacheTypes, caches, history
      <4>4. CASE BindQueue(u)
        BY <1>1, <3>1, <4>4 DEF BindQueue, Spawn, CacheTypes
      <4> QED
        BY <1>2, <4>1, <4>2, <4>3, <4>4 DEF RunTurn, Look, Bind, Clear
    <3> QED
      BY <1>1, <3>1, <3>2, OwnSame
  <2> QED
    BY <2>1, <2>2
<1>3. ASSUME NEW q \in Process, NEW w \in Writer, Flush(q, w) PROVE Own(p, t)'
  <2>1. CASE q = p
    BY <1>1, <1>3, <2>1, FlushOwn
  <2>2. CASE q # p
    <3>1. /\ local'[p] = local[p] /\ pending'[p] = pending[p] /\ writer'[p] = writer[p]
          /\ pin'[p] = pin[p] /\ (p \in missed => p \in missed') /\ turn' = turn
      BY <1>1, <1>3, <2>2 DEF Flush, Take, WriteRedis, CacheWritten, CacheTypes, history
    <3> QED
      BY <1>1, <3>1, OwnSame
  <2> QED
    BY <2>1, <2>2
<1>4. ASSUME NEW q \in Process, LocalExpires(q) PROVE Own(p, t)'
  <2>1. UNCHANGED <<pending, writer, pin, missed, turn>>
        /\ local' = [local EXCEPT ![q] = None]
    BY <1>4 DEF LocalExpires, history
  <2>2. CASE q = p
    <3>1. WriterIdle(p) /\ turn[t].pc \in {"idle", "look", "get", "cache", "serve"}
      BY <1>1, <1>4, <2>2 DEF LocalExpires, Settled, Slots
    <3>2. pending[p] = None /\ ~Writing(p)
      BY <1>1, <3>1, IdleProcess
    <3>3. local'[p] = None
      BY <1>1, <2>1, <2>2 DEF CacheTypes
    <3> QED
      BY <1>1, <2>1, <3>1, <3>2, <3>3 DEF Own, Writing
  <2>3. CASE q # p
    BY <1>1, <2>1, <2>3, OwnSame DEF CacheTypes
  <2> QED
    BY <2>2, <2>3
<1>5. ASSUME NEW q \in Process, Restart(q) PROVE Own(p, t)'
  <2>1. CASE q = p
    <3>1. p \in missed' /\ turn'[t] = TurnOver
      BY <1>1, <1>5, <2>1 DEF Restart, Slots
    <3> QED
      BY <3>1 DEF Own, TurnOver
  <2>2. CASE q # p
    <3>1. turn'[t] = turn[t]
      BY <1>1, <1>5, <2>2 DEF Restart, Slots
    <3> QED
      BY <1>1, <1>5, <2>2, <3>1, OwnSame DEF Restart, CacheTypes
  <2> QED
    BY <2>1, <2>2
<1>6. CASE RedisExpires
  BY <1>1, <1>6, OwnSame DEF RedisExpires, caches, history
<1>7. CASE UNCHANGED vars
  BY <1>1, <1>7, OwnSame DEF vars
<1> QED
  BY <1>2, <1>3, <1>4, <1>5, <1>6, <1>7 DEF Next

-----------------------------------------------------------------------------
(* Backs, step by step. *)

LEMMA BacksSame ==
    ASSUME NEW p \in Process, Backs(p), pending'[p] = pending[p], writer'[p] = writer[p],
           pin'[p] = pin[p], p \in missed => p \in missed', redis' = redis,
           \A u \in Slots(p) : turn'[u].pc = "cache" =>
               turn'[u] = turn[u] \/ turn'[u].read = redis
    PROVE  Backs(p)'
BY DEF Backs, Sequential, Slots

\* A turn of the process, or of another one.
LEMMA TurnBacks ==
    ASSUME SettleInv, NEW p \in Process, Backs(p), NEW t \in Turn, StartTurn(t) \/ RunTurn(t)
    PROVE  redis' = None \/ Backs(p)'
<1>1. CacheTypes /\ TurnTypes /\ OneWriter /\ Home[t] \in Process
  BY HomeAssumption DEF SettleInv
<1>2. \A u \in Turn : u # t => turn'[u] = turn[u]
  BY <1>1, TurnMoves
<1>3. CASE StartTurn(t) \/ Attempt(t) \/ LookLocal(t) \/ LookRedis(t) \/ BindLocal(t) \/ DropLocal(t)
  <2>1. UNCHANGED <<pending, writer, pin, missed, redis>>
    BY <1>3 DEF StartTurn, Attempt, Serve, ServeNone, LookLocal, LookRedis, BindLocal, DropLocal,
                caches, history
  <2>2. turn'[t].pc = "cache" => turn'[t].read = redis
    BY <1>1, <1>3, TurnMoves
  <2> QED
    BY <1>2, <2>1, <2>2, BacksSame DEF Slots
<1>4. CASE CacheRead(t)
  <2>1. UNCHANGED <<pending, writer, missed, redis>>
        /\ pin' = [pin EXCEPT ![Home[t]] = turn[t].read]
    BY <1>4 DEF CacheRead
  <2>2. turn[t].pc = "cache" /\ turn'[t].pc # "cache"
    BY <1>1, <1>4, TurnMoves
  <2>3. CASE Home[t] # p
    BY <1>1, <1>2, <2>1, <2>3, BacksSame DEF Slots, CacheTypes
  <2>4. CASE Home[t] = p
    <3>1. pin'[p] = turn[t].read
      BY <1>1, <2>1, <2>4 DEF CacheTypes
    <3>2. CASE pin[p] = redis /\ \A u \in Slots(p) : turn[u].pc = "cache" => turn[u].read = redis
      <4>1. turn[t].read = redis
        BY <2>2, <2>4, <3>2 DEF Slots
      <4>2. \A u \in Slots(p) : turn'[u].pc = "cache" => turn'[u].read = redis
        BY <1>2, <2>2, <3>2 DEF Slots
      <4> QED
        BY <2>1, <3>1, <4>1, <4>2 DEF Backs, Slots
    <3>3. CASE ~(pin[p] = redis /\ \A u \in Slots(p) : turn[u].pc = "cache" => turn[u].read = redis)
      BY <2>1, <3>3 DEF Backs, Sequential, Slots
    <3> QED
      BY <3>2, <3>3
  <2> QED
    BY <2>3, <2>4
<1>5. CASE BindQueue(t)
  <2>1. turn[t].winner \in Account
    BY <1>1, <1>5 DEF BindQueue, TurnTypes, Answering
  <2>2. CASE Home[t] = p
    <3>1. pending'[p] # None
      BY <1>1, <1>5, <2>1, <2>2, NoneAssumption DEF BindQueue, CacheTypes
    <3> QED
      BY <3>1 DEF Backs
  <2>3. CASE Home[t] # p
    <3>1. /\ pending'[p] = pending[p] /\ writer'[p] = writer[p] /\ pin'[p] = pin[p]
          /\ (p \in missed => p \in missed') /\ redis' = redis
      BY <1>1, <1>5, <2>3 DEF BindQueue, Spawn, CacheTypes
    <3> QED
      BY <1>2, <2>3, <3>1, BacksSame DEF Slots
  <2> QED
    BY <2>2, <2>3
<1>6. CASE DropPending(t)
  <2>1. /\ UNCHANGED <<writer, pin, redis>> /\ pending' = [pending EXCEPT ![Home[t]] = None]
        /\ missed' = IF flushing[Home[t]] THEN missed \cup {Home[t]} ELSE missed
    BY <1>6 DEF DropPending
  <2>2. turn'[t].pc # "cache"
    BY <1>1, <1>6, TurnMoves
  <2>3. CASE Home[t] = p /\ flushing[p]
    BY <2>1, <2>3 DEF Backs
  <2>4. CASE Home[t] # p \/ ~flushing[p]
    <3>1. pending'[p] = pending[p]
      BY <1>1, <2>1, <2>4, IdleProcess DEF CacheTypes
    <3> QED
      BY <1>2, <2>1, <2>2, <3>1, BacksSame DEF Slots
  <2> QED
    BY <2>3, <2>4
<1>7. CASE Del(t)
  <2>1. UNCHANGED <<pending, writer, pin>> /\ (p \in missed => p \in missed')
        /\ (redis' = None \/ redis' = redis)
    BY <1>7 DEF Del, caches
  <2>2. turn'[t].pc # "cache"
    BY <1>1, <1>7, TurnMoves
  <2> QED
    BY <1>2, <2>1, <2>2, BacksSame DEF Slots
<1> QED
  BY <1>3, <1>4, <1>5, <1>6, <1>7 DEF RunTurn, Look, Bind, Clear

\* The goroutine of a sequential process that lost nothing writes its pin, unless
\* a later write waits.
LEMMA WritesPin ==
    ASSUME SettleInv, NEW q \in Process, NEW w \in Writer, writer[q][w].pc = "set",
           Sequential(q), q \notin missed, pending[q] = None
    PROVE  /\ writer[q][w].account = pin[q]
           /\ \A u \in Slots(q) : turn[u].pc # "cache"
<1>1. PICK t \in Turn : Slots(q) = {t}
  BY DEF Sequential
<1>2. Own(q, t) /\ Writing(q)
  BY <1>1 DEF SettleInv, Owns, Writing
<1> QED
  BY <1>1, <1>2 DEF Own

\* So the process that wrote answers for what it wrote.
LEMMA WriteBacks ==
    ASSUME SettleInv, NEW q \in Process, NEW w \in Writer, WriteRedis(q, w),
           redis' = writer[q][w].account
    PROVE  Backs(q)'
<1>1. writer[q][w].pc = "set" /\ UNCHANGED <<pending, pin, turn>> /\ (q \in missed => q \in missed')
  BY DEF WriteRedis
<1>2. CASE ~Sequential(q) \/ q \in missed \/ pending[q] # None
  BY <1>1, <1>2 DEF Backs, Sequential, Slots
<1>3. CASE Sequential(q) /\ q \notin missed /\ pending[q] = None
  <2>1. pin[q] = redis' /\ \A u \in Slots(q) : turn[u].pc # "cache"
    BY <1>1, <1>3, WritesPin
  <2> QED
    BY <1>1, <2>1 DEF Backs, Slots
<1> QED
  BY <1>2, <1>3

LEMMA FlushBacks ==
    ASSUME SettleInv, NEW p \in Process, Backs(p), NEW q \in Process, NEW w \in Writer, Flush(q, w)
    PROVE  Backed'
<1>1. /\ CacheTypes /\ OneWriter /\ UNCHANGED <<pin, turn>> /\ (p \in missed => p \in missed')
  BY DEF Flush, Take, WriteRedis, CacheWritten, SettleInv, history
<1>2. CASE WriteRedis(q, w) /\ redis' = writer[q][w].account
  BY <1>2, WriteBacks DEF Backed
<1>3. CASE redis' = redis /\ q # p
  <2>1. pending'[p] = pending[p] /\ writer'[p] = writer[p]
    BY <1>1, <1>3 DEF Flush, Take, WriteRedis, CacheWritten, CacheTypes
  <2> QED
    BY <1>1, <1>3, <2>1, BacksSame DEF Backed
<1>4. CASE WriteRedis(p, w) /\ p \in missed'
  BY <1>4 DEF Backs, Backed
<1>5. CASE Take(p, w) /\ pending[p] # None
  <2>1. writer' = [writer EXCEPT ![p][w] = [pc |-> "set", account |-> pending[p]]]
    BY <1>5 DEF Take
  <2>2. writer'[p][w].pc = "set"
    BY <1>1, <2>1 DEF CacheTypes
  <2> QED
    BY <2>2 DEF Backs, Backed
<1>6. CASE (Take(p, w) /\ pending[p] = None) \/ CacheWritten(p, w)
  <2>1. pending' = pending /\ redis' = redis
    BY <1>6 DEF Take, CacheWritten
  <2>2. writer[p][w].pc \in {"take", "cache"}
    BY <1>6 DEF Take, CacheWritten
  <2>3. ~\E v \in Writer : writer[p][v].pc = "set"
    BY <1>1, <2>2 DEF OneWriter, Running
  <2> QED
    BY <1>1, <2>1, <2>3 DEF Backs, Backed, Sequential, Slots
<1>7. WriteRedis(q, w) => \/ redis' = writer[q][w].account
                          \/ redis' = redis /\ q \in missed'
  BY DEF WriteRedis
<1>8. Take(q, w) \/ CacheWritten(q, w) => redis' = redis
  BY DEF Take, CacheWritten
<1> QED
  BY <1>2, <1>3, <1>4, <1>5, <1>6, <1>7, <1>8 DEF Flush

\* Where Redis holds nothing, only a write changes that.
LEMMA NothingBacked ==
    ASSUME SettleInv, [Next]_vars, redis = None PROVE Backed'
<1>1. ASSUME NEW t \in Turn, StartTurn(t) \/ RunTurn(t) PROVE redis' = None
  BY <1>1 DEF StartTurn, RunTurn, Look, LookLocal, LookRedis, CacheRead, Attempt, Serve,
              ServeNone, Bind, BindLocal, BindQueue, Clear, DropLocal, DropPending, Del
<1>2. ASSUME NEW q \in Process, NEW w \in Writer, Flush(q, w) PROVE Backed'
  <2>1. CASE redis' = redis
    BY <2>1 DEF Backed
  <2>2. CASE WriteRedis(q, w) /\ redis' = writer[q][w].account
    BY <2>2, WriteBacks DEF Backed
  <2> QED
    BY <1>2, <2>1, <2>2 DEF Flush, Take, WriteRedis, CacheWritten
<1>3. ASSUME NEW q \in Process, LocalExpires(q) \/ Restart(q) PROVE redis' = None
  BY <1>3 DEF LocalExpires, Restart
<1>4. RedisExpires \/ UNCHANGED vars => redis' = None
  BY DEF RedisExpires, vars
<1> QED
  BY <1>1, <1>2, <1>3, <1>4 DEF Next, Backed

LEMMA BackedStep ==
    ASSUME SettleInv, [Next]_vars PROVE Backed'
<1> SUFFICES ASSUME NEW p \in Process, Backs(p) PROVE Backed'
  BY NothingBacked DEF SettleInv, Backed
<1>1. CacheTypes
  BY DEF SettleInv
<1>2. ASSUME NEW t \in Turn, StartTurn(t) \/ RunTurn(t) PROVE Backed'
  BY <1>2, TurnBacks DEF Backed
<1>3. ASSUME NEW q \in Process, NEW w \in Writer, Flush(q, w) PROVE Backed'
  BY <1>3, FlushBacks
<1>4. ASSUME NEW q \in Process, LocalExpires(q) PROVE Backed'
  <2>1. UNCHANGED <<pending, writer, pin, missed, redis, turn>>
    BY <1>4 DEF LocalExpires, history
  <2> QED
    BY <2>1, BacksSame DEF Backed
<1>5. ASSUME NEW q \in Process, Restart(q) PROVE Backed'
  <2>1. CASE q = p
    BY <1>5, <2>1 DEF Restart, Backs, Backed
  <2>2. CASE q # p
    <3>1. /\ pending'[p] = pending[p] /\ writer'[p] = writer[p] /\ pin'[p] = pin[p]
          /\ (p \in missed => p \in missed') /\ redis' = redis
      BY <1>1, <1>5, <2>2 DEF Restart, CacheTypes
    <3>2. \A u \in Slots(p) : turn'[u] = turn[u]
      BY <1>5, <2>2 DEF Restart, Slots
    <3> QED
      BY <3>1, <3>2, BacksSame DEF Backed
  <2> QED
    BY <2>1, <2>2
<1>6. CASE RedisExpires
  BY <1>6 DEF RedisExpires, Backed
<1>7. CASE UNCHANGED vars
  BY <1>7, BacksSame DEF vars, Backed
<1> QED
  BY <1>2, <1>3, <1>4, <1>5, <1>6, <1>7 DEF Next

LEMMA SettleHolds == Owns /\ Backed /\ OneWriter => SettledPin
<1> SUFFICES ASSUME Owns, Backed, OneWriter PROVE SettledPin
  OBVIOUS
<1>1. ASSUME NEW p \in Process, Sequential(p), Settled(p), p \notin missed
      PROVE  local[p] \in {None, pin[p]} /\ (Backs(p) => pin[p] = redis)
  <2>1. PICK t \in Turn : Slots(p) = {t}
    BY <1>1 DEF Sequential
  <2>2. Own(p, t) /\ turn[t].pc # "queue"
    BY <1>1, <2>1 DEF Owns, Settled
  <2>3. pending[p] = None /\ ~Writing(p) /\ WriterIdle(p)
    BY <1>1, IdleProcess DEF Settled
  <2> QED
    BY <1>1, <2>2, <2>3 DEF Own, Backs, WriterIdle
<1>2. ASSUME \A p \in Process : Sequential(p) /\ Settled(p) /\ p \notin missed
      PROVE  redis \in {None} \cup {pin[p] : p \in Process}
  BY <1>1, <1>2 DEF Backed
<1> QED
  BY <1>1, <1>2 DEF SettledPin

\* A conversation whose turns follow one another in a process stays where its
\* last turn bound it, or where it read that another process had put it:
\* SettledPin, for any processes, slots and accounts.
THEOREM PinsSettle == Spec => []SettledPin
<1>1. Init => Owns /\ Backed
  BY DEF Init, Owns, Own, Backed, Writing, WriterOff, TurnOver
<1>2. SettleInv /\ [Next]_vars => Owns' /\ Backed'
  BY OwnsStep, BackedStep
<1>3. TypeOK => CacheTypes /\ TurnTypes
  BY TypeHalves
<1> QED
  BY <1>1, <1>2, <1>3, SettleHolds, TypeCorrect, WritesCoalesced, PTL DEF Spec, SettleInv

=============================================================================
