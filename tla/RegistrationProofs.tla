------------------------- MODULE RegistrationProofs -------------------------
(***************************************************************************)
(* Theorems about Registration: the slots of the admission gate, the one   *)
(* runner of a batch, and the tallies of a batch in memory and in Redis.   *)
(*                                                                         *)
(* IInv is built in layers, each kept by every step given the ones before. *)
(* Typed adds to the types that nothing works without a batch in memory.   *)
(* A slot is held in a few stages of a job, so PermitsConserved is a count *)
(* of jobs that each step changes by the one job it moves.  The rest is    *)
(* about tallies: a step either copies a tally that is there (TallyOrigin) *)
(* or notes one result (TallyNoted).  Thus Sums, Backed (every success in  *)
(* a tally, and every one still to be noted, has an account) and Limited   *)
(* (what is finished, in flight and left to do is no more than was asked   *)
(* for) are seen to hold step by step; Drained and Remembered say that no  *)
(* job is forgotten between two runners of one process.                    *)
(***************************************************************************)
EXTENDS Registration, FiniteSetTheorems, TLAPS

Status == {"none", "unlisted"} \cup Listed \cup Terminal
Stage == {"none", "succeeded", "failed", "collected", "dead"} \cup Busy

SessType == sess \in [Job -> [st : Status, cancel : BOOLEAN]] /\ quiet \subseteq Job
JobType == job \in [Job -> Stage]
BatchType == {batch, rbatch} \subseteq BatchRecord \cup {NoBatch} /\ recent \in BOOLEAN
RunnerType ==
    runner \in [pc : {"none", "feeding", "releasing"}, todo : 0 .. Count,
                fin : Nat, ok : Nat, fail : Nat]
CallRecord ==
    [pc : {"idle", "plan", "claim", "solver"}, left : 0 .. Count,
     seen : BatchRecord \cup {NoBatch}]
CallType == call \in [{Admin, Dog} -> CallRecord]
RestType ==
    /\ claim \in BOOLEAN /\ dog \in BOOLEAN /\ overlap \in BOOLEAN
    /\ key \in {"free", "own", "former"}
    /\ sweep \subseteq Job \cup {TheBatch} /\ marking \subseteq Job
    /\ permits \in Nat /\ enrolled \in Nat
    /\ restarts \in 0 .. MaxRestarts /\ calls \in 0 .. MaxCalls

Present ==
    /\ runner.pc # "none" => batch # NoBatch
    /\ \A c \in {Admin, Dog} : /\ call[c].pc # "idle" => batch # NoBatch
                               /\ call[c].pc = "plan" => call[c].seen # NoBatch
    /\ TheBatch \in sweep => batch # NoBatch
    /\ \A s \in Job : job[s] \in Busy => batch # NoBatch

Typed == SessType /\ JobType /\ BatchType /\ RunnerType /\ CallType /\ RestType /\ Present

-----------------------------------------------------------------------------
LEMMA JobFinite == IsFiniteSet(Job) /\ Cardinality(Job) = MaxJob
  BY BoundAssumption, FS_Interval DEF Job

LEMMA GotoType ==
  ASSUME JobType, NEW s \in Job, NEW pc \in Stage, Goto(s, pc)
  PROVE  JobType' /\ job'[s] = pc /\ \A t \in Job \ {s} : job'[t] = job[t]
  BY DEF JobType, Goto

LEMMA WriteType ==
  ASSUME SessType, NEW s \in Job, NEW st \in Status, NEW c \in BOOLEAN, Write(s, st, c)
  PROVE  SessType' /\ sess'[s].st = st /\ \A t \in Job \ {s} : sess'[t] = sess[t]
  BY DEF SessType, Write

LEMMA SetBatchType ==
  ASSUME BatchType, NEW b \in BatchRecord, SetBatch(b)
  PROVE  BatchType' /\ batch' = b /\ batch' # NoBatch /\ rbatch' \in {rbatch, b}
  BY BatchAssumption DEF BatchType, SetBatch

LEMMA HeededType ==
  ASSUME BatchType, batch # NoBatch
  PROVE  Heeded \in BatchRecord /\ Heeded # NoBatch /\ Heeded.ok = batch.ok /\ Heeded.ids = batch.ids
  <1>1. batch \in BatchRecord BY DEF BatchType
  <1>2. CASE Stopped(batch) \/ ~Stopped(rbatch) BY <1>1, <1>2 DEF Heeded
  <1>3. CASE ~(Stopped(batch) \/ ~Stopped(rbatch))
    <2>1. rbatch \in BatchRecord BY <1>3 DEF BatchType, Stopped
    <2> DEFINE b == [batch EXCEPT !.cancel = TRUE,
                       !.st = IF @ \in TerminalBatch THEN @ ELSE rbatch.st]
    <2>2. b \in BatchRecord /\ b.ok = batch.ok /\ b.ids = batch.ids BY <1>1, <2>1 DEF BatchRecord
    <2> QED BY <1>3, <2>2, BatchAssumption DEF Heeded
  <1> QED BY <1>2, <1>3

LEMMA RemainingType ==
  ASSUME NEW b \in BatchRecord
  PROVE  Remaining(b) \in 0 .. Count
  <1> DEFINE E == {s \in b.ids : sess[s].st \in Terminal}
  <1>1. b.ids \subseteq Job /\ b.fin \in Nat BY DEF BatchRecord
  <1>2. IsFiniteSet(E) BY <1>1, JobFinite, FS_Subset
  <1>3. Cardinality(E) \in Nat BY <1>2, FS_CardinalityType
  <1> QED BY <1>1, <1>3, BoundAssumption DEF Remaining

LEMMA StageType ==
  ASSUME NEW stage \in {"idle", "plan", "claim", "solver"}, NEW n \in 0 .. Count,
         NEW b \in BatchRecord \cup {NoBatch}
  PROVE  /\ AtStage(stage, n, b) \in CallRecord
         /\ AtStage(stage, n, b).pc = stage /\ AtStage(stage, n, b).seen = b
  BY DEF AtStage, CallRecord

LEMMA IdleType == IdleCall \in CallRecord /\ IdleCall.pc = "idle"
  BY StageType, BoundAssumption DEF IdleCall

LEMMA StoppingType ==
  ASSUME NEW b \in BatchRecord
  PROVE  Stopping(b) \in BatchRecord
  BY DEF Stopping, BatchRecord

LEMMA InitTyped == Init => Typed
  <1> SUFFICES ASSUME Init PROVE Typed OBVIOUS
  <1>1. SessType /\ JobType BY DEF Init, SessType, JobType, Status, Stage
  <1>2. BatchType BY DEF Init, BatchType
  <1>2a. CallType
    <2> QED BY IdleType DEF Init, CallType
  <1>3. RunnerType BY BoundAssumption DEF Init, RunnerType, NoRunner
  <1>4. RestType
    <2>1. 0 \in 0 .. MaxRestarts /\ 0 \in 0 .. MaxCalls /\ Permits \in Nat BY BoundAssumption
    <2> QED BY <2>1 DEF Init, RestType
  <1>5. Present BY IdleType DEF Init, Present, NoRunner, Busy, Work
  <1> QED BY <1>1, <1>2, <1>2a, <1>3, <1>4, <1>5 DEF Typed

-----------------------------------------------------------------------------
(* The runner keeps the types *)

LEMMA FeedTyped == ASSUME Typed, NEW s \in Job, Feed(s) PROVE Typed'
  <1> DEFINE b == [batch EXCEPT !.st = "running"]
  <1>1. batch \in BatchRecord BY DEF Typed, Present, BatchType, Feed
  <1>2. b \in BatchRecord BY <1>1 DEF BatchRecord
  <1>3. BatchType' /\ batch' # NoBatch BY <1>2, SetBatchType DEF Feed, Typed
  <1>4. JobType' BY GotoType DEF Feed, Typed, Stage, Busy
  <1>5. RunnerType'
    BY BoundAssumption DEF Feed, Typed, RunnerType, CanFeed
  <1>6. SessType' /\ CallType' /\ RestType'
    BY DEF Feed, Typed, SessType, CallType, RestType, sessions, stops, history
  <1>7. Present' BY <1>3 DEF Feed, Typed, Present, stops
  <1> QED BY <1>3, <1>4, <1>5, <1>6, <1>7 DEF Typed

LEMMA CollectTyped == ASSUME Typed, NEW s \in Job, Collect(s) PROVE Typed'
  <1> DEFINE good == job[s] = "succeeded"
             r == [runner EXCEPT !.fin = @ + 1,
                               !.ok = IF good THEN @ + 1 ELSE @,
                               !.fail = IF good THEN @ ELSE @ + 1]
             b == [batch EXCEPT !.st = IF batch.cancel THEN @ ELSE "running",
                                     !.fin = r.fin, !.ok = r.ok, !.fail = r.fail]
  <1>1. batch \in BatchRecord BY DEF Typed, Present, BatchType, Collect
  <1>2. runner' = r /\ RunnerType' /\ r.fin \in Nat /\ r.ok \in Nat /\ r.fail \in Nat
    <2>1. runner.fin + 1 \in Nat /\ runner.ok + 1 \in Nat /\ runner.fail + 1 \in Nat
      BY DEF Typed, RunnerType
    <2>2. runner' = r BY DEF Collect
    <2>3. r \in [pc : {"none", "feeding", "releasing"}, todo : 0 .. Count,
                 fin : Nat, ok : Nat, fail : Nat]
      BY <2>1 DEF Typed, RunnerType
    <2> HIDE DEF r
    <2> QED BY <2>2, <2>3 DEF RunnerType
  <1>3. SetBatch(b) BY DEF Collect
  <1> HIDE DEF r
  <1>4. b \in BatchRecord BY <1>1, <1>2 DEF BatchRecord
  <1>5. BatchType' /\ batch' # NoBatch BY <1>4, <1>3, SetBatchType DEF Typed
  <1>6. JobType' BY GotoType DEF Collect, Typed, Stage, Busy
  <1>7. SessType' /\ CallType' /\ RestType'
    BY DEF Collect, Typed, SessType, CallType, RestType, sessions, stops, history
  <1>8. Present' BY <1>5 DEF Collect, Typed, Present, stops
  <1> QED BY <1>2, <1>5, <1>6, <1>7, <1>8 DEF Typed

LEMMA RenewTyped == ASSUME Typed, Renew PROVE Typed'
  <1> DEFINE b == [batch EXCEPT !.cancel = @ \/ StopSeen,
                              !.st = IF StopSeen /\ @ \notin TerminalBatch
                                     THEN "stopping" ELSE @]
  <1>1. batch \in BatchRecord BY DEF Typed, Present, BatchType, Renew
  <1>2. b \in BatchRecord BY <1>1 DEF BatchRecord
  <1>3. BatchType' /\ batch' # NoBatch BY <1>2, SetBatchType DEF Renew, Typed
  <1>4. UNCHANGED <<sess, quiet, job, claim, key, runner, call, dog, sweep, marking, permits,
                    enrolled, overlap, restarts, calls>>
    BY DEF Renew, sessions, spawner, stops, history
  <1> QED BY <1>3, <1>4 DEF Typed, Present, SessType, JobType, RunnerType, CallType, RestType

LEMMA FinishTyped == ASSUME Typed, FinishBatch PROVE Typed'
  <1> DEFINE h == Heeded
             b == [h EXCEPT
               !.fin = runner.fin, !.ok = runner.ok, !.fail = runner.fail,
               !.st = IF Stopped(h) /\ runner.fin < Count THEN "cancelled"
                      ELSE IF runner.fail > 0 /\ runner.ok = 0 THEN "error"
                      ELSE IF runner.fail > 0 THEN "partial" ELSE "done"]
  <1>1. h \in BatchRecord BY HeededType DEF Typed, Present, FinishBatch
  <1>2. SetBatch(b) BY DEF FinishBatch
  <1> HIDE DEF h
  <1>3. b \in BatchRecord BY <1>1 DEF BatchRecord, Typed, RunnerType, TerminalBatch
  <1>4. BatchType' /\ batch' # NoBatch BY <1>2, <1>3, SetBatchType DEF Typed
  <1>5. RunnerType' BY DEF Typed, RunnerType, FinishBatch
  <1>6. UNCHANGED <<sess, quiet, job, claim, key, call, dog, sweep, marking, permits,
                    enrolled, overlap, restarts, calls>>
    BY DEF FinishBatch, sessions, stops, history
  <1> QED BY <1>4, <1>5, <1>6 DEF Typed, Present, SessType, JobType, CallType, RestType

LEMMA ReleaseTyped == ASSUME Typed, ReleaseRunner PROVE Typed'
  <1>1. RunnerType' /\ runner'.pc = "none" BY BoundAssumption DEF RunnerType, ReleaseRunner, NoRunner
  <1>2. UNCHANGED <<sess, quiet, job, batch, rbatch, recent, call, dog, sweep, marking, permits,
                    enrolled, overlap, restarts, calls>>
    BY DEF ReleaseRunner, sessions, batches, stops, history
  <1>3. RestType' BY <1>2 DEF Typed, RestType, ReleaseRunner
  <1> QED BY <1>1, <1>2, <1>3 DEF Typed, Present, SessType, JobType, CallType, BatchType

-----------------------------------------------------------------------------
(* So does a worker *)

LEMMA WorkerTyped == ASSUME Typed, NEW s \in Job, Worker(s) PROVE Typed'
  <1>1. UNCHANGED <<runner, call, claim, key, dog, sweep, marking, overlap, restarts, calls>>
    BY DEF Worker, Begin, NoMailbox, Prepare, Launch, Admit, RefuseAdmission, Advance, StoreAccount,
           Settle, Complete, Fail, Abort, Leave, Close, spawner, stops, history
  <1>2. job[s] \in Busy
    BY DEF Worker, Begin, NoMailbox, Prepare, Launch, Admit, RefuseAdmission, Advance, StoreAccount,
           Settle, Complete, Fail, Abort, Close, Busy, Work
  <1>3. batch # NoBatch /\ batch \in BatchRecord BY <1>2 DEF Typed, Present, BatchType
  <1>4. JobType' /\ \A t \in Job : job'[t] \in Busy => t = s \/ job[t] \in Busy
    <2>1. \E pc \in Stage : Goto(s, pc)
      <3>1. "mailing" \in Stage /\ "prepared" \in Stage /\ "admission" \in Stage /\ "started" \in Stage
           /\ "registering" \in Stage /\ "importing" \in Stage /\ "stored" \in Stage /\ "probing" \in Stage
           /\ "closing" \in Stage /\ "succeeded" \in Stage /\ "failed" \in Stage
        BY DEF Stage, Busy, Work
      <3> QED BY <3>1 DEF Worker, Begin, NoMailbox, Prepare, Launch, Admit, RefuseAdmission, Advance,
           StoreAccount, Settle, Complete, Fail, Abort, Leave, Close, Return
    <2> QED BY <2>1, GotoType DEF Typed
  <1>5. SessType'
    <2>1. (\E st \in Status, c \in BOOLEAN : Write(s, st, c)) \/ UNCHANGED <<sess, quiet>>
      <3>1. "unlisted" \in Status /\ "open" \in Status /\ "cancelled" \in Status
            /\ "imported" \in Status /\ "error" \in Status
        BY DEF Status, Listed, Terminal
      <3>2. sess[s].cancel \in BOOLEAN
        BY DEF Typed, SessType
      <3>2a. Cancelled(s) \in BOOLEAN
        BY Zenon DEF Cancelled
      <3> QED BY <3>1, <3>2, <3>2a DEF Worker, Begin, NoMailbox, Prepare, Launch, Admit, RefuseAdmission,
           Advance, StoreAccount, Settle, Complete, Fail, Abort, Leave, Close, sessions
    <2> QED BY <2>1, WriteType DEF Typed, SessType
  <1>6. BatchType' /\ batch' # NoBatch
    <2>1. (\E b \in BatchRecord : SetBatch(b)) \/ UNCHANGED batches
          \/ (batch' = Heeded /\ UNCHANGED <<rbatch, recent>>)
      <3>1. [batch EXCEPT !.ids = @ \cup {s}] \in BatchRecord BY <1>3 DEF BatchRecord
      <3> QED BY <3>1 DEF Worker, Begin, NoMailbox, Prepare, Launch, Admit, RefuseAdmission,
           Advance, StoreAccount, Settle, Complete, Fail, Abort, Leave, Close
    <2> QED BY <1>3, <2>1, SetBatchType, HeededType DEF Typed, BatchType, batches
  <1>7. permits' \in Nat /\ enrolled' \in Nat
    <2>1. permits \in Nat /\ enrolled \in Nat BY DEF Typed, RestType
    <2>2. UNCHANGED permits \/ permits' = permits + 1 \/ (permits > 0 /\ permits' = permits - 1)
      BY DEF Worker, Begin, NoMailbox, Prepare, Launch, Admit, RefuseAdmission, Advance,
             StoreAccount, Settle, Complete, Fail, Abort, Leave, Close, Released
    <2>3. UNCHANGED enrolled \/ enrolled' = enrolled + 1
      BY DEF Worker, Begin, NoMailbox, Prepare, Launch, Admit, RefuseAdmission, Advance,
             StoreAccount, Settle, Complete, Fail, Abort, Leave, Close, history
    <2> QED BY <2>1, <2>2, <2>3
  <1> QED BY <1>1, <1>4, <1>5, <1>6, <1>7 DEF Typed, Present, RunnerType, CallType, RestType

-----------------------------------------------------------------------------
(* So does a stop *)

LEMMA StopsTyped ==
  ASSUME Typed, \/ IntervalPasses \/ StopBatch \/ StopAgain \/ StopAll
                \/ \E s \in Job : StopOne(s) \/ StopLook(s) \/ StopMark(s) \/ GrowQuiet(s)
  PROVE  Typed'
  <1>1. UNCHANGED <<job, runner, call, claim, key, dog, permits, enrolled, overlap, restarts>>
    BY DEF IntervalPasses, StopBatch, StopAgain, StopAll, StopOne, StopSessions, StopLook, StopMark,
           GrowQuiet, spawner, history
  <1>2. SessType'
    <2>1. CASE \E s \in Job : StopMark(s)
      BY <2>1, WriteType DEF StopMark, Typed, Status, Listed
    <2>2. CASE \E s \in Job : GrowQuiet(s)
      BY <2>2 DEF GrowQuiet, Typed, SessType
    <2>3. CASE IntervalPasses \/ StopBatch \/ StopAgain \/ StopAll \/ \E s \in Job : StopOne(s) \/ StopLook(s)
      <3>1. UNCHANGED sessions
        BY <2>3 DEF IntervalPasses, StopBatch, StopAgain, StopAll, StopOne, StopSessions, StopLook
      <3> QED BY <3>1 DEF sessions, Typed, SessType
    <2> QED BY <2>1, <2>2, <2>3
  <1>3. BatchType' /\ (batch # NoBatch => batch' # NoBatch)
    <2>1. CASE StopBatch
      <3>1. Known \in BatchRecord BY <2>1 DEF StopBatch, Known, Typed, BatchType
      <3> QED BY <2>1, <3>1, StoppingType, SetBatchType DEF StopBatch, Typed
    <2>1a. CASE StopAgain
      <3>1. batch \in BatchRecord BY <2>1a DEF StopAgain, Typed, Present, BatchType
      <3> QED BY <2>1a, <3>1, StoppingType, SetBatchType DEF StopAgain, Typed
    <2>2. CASE IntervalPasses
      BY <2>2 DEF IntervalPasses, Typed, BatchType
    <2>3. CASE ~(StopBatch \/ StopAgain \/ IntervalPasses)
      <3>1. UNCHANGED batches
        BY <2>3 DEF StopAll, StopOne, StopSessions, StopLook, StopMark, GrowQuiet
      <3> QED BY <3>1 DEF batches, Typed, BatchType
    <2> QED BY <2>1, <2>1a, <2>2, <2>3
  <1>4. /\ sweep' \subseteq Job \cup {TheBatch} /\ marking' \subseteq Job
        /\ TheBatch \in sweep' => StopBatch \/ TheBatch \in sweep
    <2>1. Known # NoBatch => Known.ids \subseteq Job
      BY DEF Known, Typed, BatchType, BatchRecord
    <2>2. sweep \subseteq Job \cup {TheBatch} /\ marking \subseteq Job BY DEF Typed, RestType
    <2>3. TheBatch \notin Job BY DEF TheBatch, Job
    <2> QED BY <2>1, <2>2, <2>3 DEF IntervalPasses, StopBatch, StopAgain, StopAll, StopOne,
           StopSessions, StopLook, StopMark, GrowQuiet, stops
  <1>4a. StopBatch => batch' # NoBatch
    BY SetBatchType, StoppingType DEF StopBatch, Known, Typed, BatchType
  <1>5. calls' \in 0 .. MaxCalls
    <2>1. calls \in 0 .. MaxCalls BY DEF Typed, RestType
    <2>2. Request => calls' \in 0 .. MaxCalls BY <2>1, BoundAssumption DEF Request
    <2> QED BY <2>1, <2>2 DEF IntervalPasses, StopBatch, StopAgain, StopAll, StopOne, StopSessions, StopLook,
           StopMark, GrowQuiet, history
  <1> QED BY <1>1, <1>2, <1>3, <1>4, <1>4a, <1>5
      DEF Typed, JobType, RunnerType, CallType, RestType, Present

-----------------------------------------------------------------------------
(* So do a resume, the watchdog and a restart *)

LEMMA ReclaimType ==
  ASSUME SessType, NEW live \in BOOLEAN, Reclaim(live)
  PROVE  SessType'
  BY DEF SessType, Reclaim, Status, Terminal

LEMMA SetCall ==
  ASSUME CallType, NEW c \in {Admin, Dog}, NEW r,
         r \in CallRecord,
         call' = [call EXCEPT ![c] = r]
  PROVE  CallType'
  BY DEF CallType

LEMMA OpenResumeTyped ==
  ASSUME Typed, NEW c \in {Admin, Dog}, NEW force \in BOOLEAN, OpenResume(c, force),
         UNCHANGED <<job, claim, runner, dog, sweep, marking, permits, enrolled, overlap, restarts>>,
         calls' \in 0 .. MaxCalls
  PROVE  Typed'
  <1> DEFINE dropped == force /\ ~claim /\ key # "free"
             live == claim \/ (key # "free" /\ ~dropped)
  <1>1. Known \in BatchRecord /\ Known # NoBatch BY DEF OpenResume, Known, Typed, BatchType
  <1>2. BatchType' /\ batch' # NoBatch
    BY <1>1, SetBatchType, BatchAssumption DEF OpenResume, Typed, BatchType
  <1>3. SessType'
    <2>1. live \in BOOLEAN BY DEF Typed, RestType
    <2>2. Reclaim(live) BY DEF OpenResume
    <2> QED BY <2>1, <2>2, ReclaimType DEF Typed
  <1>4. CallType' /\ \A d \in {Admin, Dog} : call'[d] = call[d] \/ call'[d].seen = Known
    <2> DEFINE r == AtStage("plan", 0, Known)
    <2>1. r \in CallRecord /\ r.seen = Known BY <1>1, StageType, BoundAssumption
    <2> HIDE DEF r
    <2>2. call' = [call EXCEPT ![c] = r] BY DEF OpenResume, r
    <2> QED BY <2>1, <2>2 DEF Typed, CallType
  <1>5. key' \in {"free", "own", "former"} BY DEF OpenResume, Typed, RestType
  <1> QED BY <1>1, <1>2, <1>3, <1>4, <1>5 DEF Typed, JobType, RunnerType, RestType, Present

LEMMA PlanTyped == ASSUME Typed, NEW c \in {Admin, Dog}, PlanResume(c) PROVE Typed'
  <1>1. batch \in BatchRecord BY DEF Typed, Present, BatchType, PlanResume
  <1>2. UNCHANGED <<sess, quiet, job, claim, key, runner, sweep, marking, permits, enrolled,
                    overlap, restarts, calls>>
    BY DEF PlanResume, sessions, stops, history
  <1>3. BatchType' /\ batch' # NoBatch
    <2>1. [batch EXCEPT !.st = IF batch.fail = 0 THEN "done" ELSE "partial"] \in BatchRecord
      BY <1>1 DEF BatchRecord, TerminalBatch
    <2>2. [batch EXCEPT !.cancel = FALSE,
                                      !.st = IF @ \in StopStatus \cup {"error"}
                                             THEN "running" ELSE @] \in BatchRecord
      BY <1>1 DEF BatchRecord, TerminalBatch
    <2> QED BY <2>1, <2>2, SetBatchType DEF PlanResume, Typed
  <1>4. CallType' /\ \A d \in {Admin, Dog} : call'[d] = call[d] \/ call'[d].pc \in {"idle", "claim"}
    <2> DEFINE r == AtStage("claim", Remaining(call[c].seen), NoBatch)
    <2>1. call[c].seen \in BatchRecord
      BY DEF Typed, Present, CallType, CallRecord, PlanResume
    <2>2. r \in CallRecord /\ r.pc = "claim" BY <2>1, RemainingType, StageType
    <2> HIDE DEF r
    <2>3. call' = [call EXCEPT ![c] = IdleCall] \/ call' = [call EXCEPT ![c] = r]
      BY DEF PlanResume, r
    <2> QED BY <2>2, <2>3, IdleType DEF Typed, CallType
  <1>5. dog' \in BOOLEAN BY DEF PlanResume, Typed, RestType
  <1> QED BY <1>2, <1>3, <1>4, <1>5 DEF Typed, SessType, JobType, RunnerType, RestType, Present

LEMMA ClaimTyped == ASSUME Typed, NEW c \in {Admin, Dog}, Claim(c) \/ NoSolver(c) PROVE Typed'
  <1>1. UNCHANGED <<sess, quiet, job, batch, rbatch, recent, runner, dog, sweep, marking, permits,
                    enrolled, overlap, restarts, calls>>
    BY DEF Claim, NoSolver, sessions, batches, stops, history
  <1>2. CallType'
    <2>1. [call[c] EXCEPT !.pc = "solver"] \in CallRecord
      BY DEF Typed, CallType, CallRecord
    <2> QED BY <2>1, IdleType, SetCall DEF Claim, NoSolver, Typed
  <1>3. claim' \in BOOLEAN /\ key' \in {"free", "own", "former"}
    BY DEF Claim, NoSolver, Typed, RestType
  <1>4. \A d \in {Admin, Dog} :
           /\ call'[d].pc # "idle" => call[d].pc # "idle"
           /\ call'[d].pc = "plan" => call[d].pc = "plan" /\ call'[d].seen = call[d].seen
    BY IdleType DEF Claim, NoSolver, Typed, CallType, CallRecord
  <1>5. Present' BY <1>1, <1>4 DEF Typed, Present
  <1> QED BY <1>1, <1>2, <1>3, <1>5 DEF Typed, SessType, JobType, RunnerType, BatchType, RestType

LEMMA SpawnTyped == ASSUME Typed, NEW c \in {Admin, Dog}, Spawn(c) PROVE Typed'
  <1>1. batch \in BatchRecord BY DEF Typed, Present, BatchType, Spawn
  <1>2. UNCHANGED <<sess, quiet, job, claim, key, sweep, marking, permits, enrolled, restarts, calls>>
    BY DEF Spawn, sessions, stops
  <1>3. BatchType' /\ batch' # NoBatch
    <2>1. [batch EXCEPT !.st = "running", !.cancel = FALSE] \in BatchRecord BY <1>1 DEF BatchRecord
    <2> QED BY <2>1, SetBatchType DEF Spawn, Typed
  <1>4. CallType' /\ \A d \in {Admin, Dog} : call'[d].pc = "plan" => call'[d] = call[d]
    BY IdleType DEF Spawn, Typed, CallType
  <1>5. RunnerType' BY <1>1 DEF Spawn, Typed, RunnerType, CallType, CallRecord, BatchRecord
  <1>6. dog' \in BOOLEAN /\ overlap' \in BOOLEAN BY DEF Spawn, Typed, RestType
  <1> QED BY <1>2, <1>3, <1>4, <1>5, <1>6 DEF Typed, SessType, JobType, RestType, Present

LEMMA StartTyped == ASSUME Typed, StartBatch PROVE Typed'
  <1>1. UNCHANGED <<sess, quiet, job, claim, key, runner, dog, sweep, marking, permits, enrolled,
                    overlap, restarts, calls>>
    BY DEF StartBatch, sessions, stops, history
  <1>2. BatchType' /\ batch' # NoBatch
    <2>1. [st |-> "running", cancel |-> FALSE, fin |-> 0, ok |-> 0, fail |-> 0, ids |-> {}]
             \in BatchRecord
      BY DEF BatchRecord
    <2> QED BY <2>1, SetBatchType DEF StartBatch, Typed
  <1>3. CallType' /\ \A d \in {Admin, Dog} : call'[d].pc = "plan" => call'[d] = call[d]
    <2> DEFINE r == AtStage("claim", Count, NoBatch)
    <2>1. r \in CallRecord /\ r.pc = "claim" BY StageType, BoundAssumption
    <2> HIDE DEF r
    <2>2. call' = [call EXCEPT ![Admin] = r] BY DEF StartBatch, r
    <2> QED BY <2>1, <2>2 DEF Typed, CallType
  <1> QED BY <1>1, <1>2, <1>3 DEF Typed, SessType, JobType, RunnerType, RestType, Present

LEMMA ResumeTyped ==
  ASSUME Typed, ResumeBatch(TRUE) \/ ResumeBatch(FALSE) \/ WatchdogResumes
  PROVE  Typed'
  <1>1. calls' \in 0 .. MaxCalls
    <2>1. calls \in 0 .. MaxCalls BY DEF Typed, RestType
    <2>2. Request => calls' \in 0 .. MaxCalls BY <2>1, BoundAssumption DEF Request
    <2> QED BY <2>1, <2>2 DEF ResumeBatch, WatchdogResumes, history
  <1>2. UNCHANGED <<job, claim, runner, dog, sweep, marking, permits, enrolled, overlap, restarts>>
    BY DEF ResumeBatch, WatchdogResumes, stops, history
  <1>3. \E c \in {Admin, Dog}, force \in BOOLEAN : OpenResume(c, force)
    BY DEF ResumeBatch, WatchdogResumes
  <1> QED BY <1>1, <1>2, <1>3, OpenResumeTyped

LEMMA WatchdogReclaimsTyped == ASSUME Typed, WatchdogReclaims PROVE Typed'
  <1>1. UNCHANGED <<job, claim, key, runner, call, dog, sweep, marking, permits, enrolled,
                    overlap, restarts, calls>>
    BY DEF WatchdogReclaims, spawner, stops, history
  <1>2. Known \in BatchRecord BY DEF WatchdogReclaims, Known, Typed, BatchType
  <1>3. BatchType' /\ batch' # NoBatch BY <1>2, SetBatchType DEF WatchdogReclaims, Typed
  <1>4. SessType'
    <2>1. HasRunner \in BOOLEAN BY Zenon DEF HasRunner
    <2> QED BY <2>1, ReclaimType DEF WatchdogReclaims, Typed
  <1> QED BY <1>1, <1>3, <1>4 DEF Typed, JobType, RunnerType, CallType, RestType, Present

LEMMA RestartTyped == ASSUME Typed, Restart PROVE Typed'
  <1>1. UNCHANGED <<quiet, rbatch, enrolled, overlap, calls>> BY DEF Restart
  <1>1a. SessType' BY DEF Restart, Typed, SessType, Status, Listed
  <1>2. JobType' /\ \A s \in Job : job'[s] \in {"none", "dead"}
    BY DEF Restart, JobType, Stage
  <1>3. RunnerType' /\ runner'.pc = "none" BY BoundAssumption DEF RunnerType, Restart, NoRunner
  <1>4. CallType' /\ \A c \in {Admin, Dog} : call'[c].pc = "idle"
    <2>1. call' = [c \in {Admin, Dog} |-> IdleCall] BY DEF Restart
    <2> QED BY <2>1, IdleType DEF CallType
  <1>5. RestType'
    <2>1. restarts' \in 0 .. MaxRestarts BY BoundAssumption DEF Restart, Typed, RestType
    <2>2. key' \in {"free", "own", "former"} BY DEF Restart, Typed, RestType
    <2>3. permits' \in Nat BY BoundAssumption DEF Restart
    <2> QED BY <1>1, <2>1, <2>2, <2>3 DEF Restart, Typed, RestType
  <1>6. BatchType' BY <1>1 DEF Restart, Typed, BatchType
  <1>7. Present'
    <2>1. sweep' = {} BY DEF Restart
    <2> QED BY <1>2, <1>3, <1>4, <2>1 DEF Present, Busy, Work
  <1> QED BY <1>1a, <1>2, <1>3, <1>4, <1>5, <1>6, <1>7 DEF Typed

LEMMA LockExpiresTyped == ASSUME Typed, LockExpires PROVE Typed'
  <1>1. /\ UNCHANGED <<sess, quiet, job, batch, rbatch, recent, claim, runner, call, dog, sweep,
                       marking, permits, enrolled, overlap, restarts, calls>>
        /\ key' = "free"
    BY DEF LockExpires, sessions, batches, stops, history
  <1> QED BY <1>1 DEF Typed, SessType, JobType, BatchType, RunnerType, CallType, RestType, Present

LEMMA StepTyped == Typed /\ [Next]_vars => Typed'
  <1> SUFFICES ASSUME Typed, [Next]_vars PROVE Typed' OBVIOUS
  <1>1. CASE Next
    BY <1>1, WorkerTyped, StopsTyped, FeedTyped, CollectTyped, FinishTyped, ReleaseTyped, RenewTyped,
       PlanTyped, ClaimTyped, SpawnTyped, ResumeTyped, StartTyped, WatchdogReclaimsTyped,
       LockExpiresTyped, RestartTyped
    DEF Next, Runner, Caller, SpawnRunner, Watchdog
  <1>2. CASE UNCHANGED vars
    BY <1>2 DEF vars, Typed, SessType, JobType, BatchType, RunnerType, CallType, RestType, Present
  <1> QED BY <1>1, <1>2

-----------------------------------------------------------------------------
(* Counting jobs *)

In(stages) == {s \in Job : job[s] \in stages}

LEMMA InFinite ==
  ASSUME NEW stages
  PROVE  IsFiniteSet(In(stages)) /\ Cardinality(In(stages)) \in Nat /\ In(stages) \subseteq Job
  <1>1. In(stages) \subseteq Job BY DEF In
  <1> QED BY <1>1, JobFinite, FS_Subset, FS_CardinalityType

\* A job that leaves the stages counted, enters them, or neither.
LEMMA Moves ==
  ASSUME JobType, NEW s \in Job, NEW pc \in Stage, Goto(s, pc), NEW CONSTANT stages
  PROVE  /\ job[s] \in stages /\ pc \notin stages =>
               Cardinality(In(stages))' = Cardinality(In(stages)) - 1
         /\ job[s] \notin stages /\ pc \in stages =>
               Cardinality(In(stages))' = Cardinality(In(stages)) + 1
         /\ (job[s] \in stages <=> pc \in stages) =>
               Cardinality(In(stages))' = Cardinality(In(stages))
  <1>1. job'[s] = pc /\ \A t \in Job \ {s} : job'[t] = job[t] BY GotoType
  <1>2. IsFiniteSet(In(stages)) /\ Cardinality(In(stages)) \in Nat BY InFinite
  <1>3. CASE job[s] \in stages /\ pc \notin stages
    <2>1. In(stages)' = In(stages) \ {s} BY <1>1, <1>3 DEF In
    <2>2. s \in In(stages) BY <1>3 DEF In
    <2>3. Cardinality(In(stages) \ {s}) = Cardinality(In(stages)) - 1
      BY <1>2, <2>2, FS_RemoveElement
    <2> QED BY <1>3, <2>1, <2>3
  <1>4. CASE job[s] \notin stages /\ pc \in stages
    <2>1. In(stages)' = In(stages) \cup {s} BY <1>1, <1>4 DEF In
    <2>2. s \notin In(stages) BY <1>4 DEF In
    <2>3. Cardinality(In(stages) \cup {s}) = Cardinality(In(stages)) + 1
      BY <1>2, <2>2, FS_AddElement
    <2> QED BY <1>4, <2>1, <2>3
  <1>5. CASE job[s] \in stages <=> pc \in stages
    <2>1. In(stages)' = In(stages) BY <1>1, <1>5 DEF In
    <2> QED BY <1>5, <2>1
  <1> QED BY <1>3, <1>4, <1>5

-----------------------------------------------------------------------------
(* Permits *)

LEMMA PermitsStep == Typed /\ PermitsConserved /\ [Next]_vars => PermitsConserved'
  <1> SUFFICES ASSUME Typed, PermitsConserved, [Next]_vars PROVE PermitsConserved' OBVIOUS
  <1> DEFINE Held == Cardinality(In(Holding))
  <1>1. PermitsConserved <=> permits + Held = Permits BY DEF PermitsConserved, In
  <1>2. PermitsConserved' <=> permits' + Held' = Permits BY DEF PermitsConserved, In
  <1>3. Held \in Nat /\ permits \in Nat /\ Permits \in Nat
    BY InFinite, BoundAssumption DEF Typed, RestType
  <1>4. JobType BY DEF Typed
  <1>5. \A s \in Job, pc \in Stage : Goto(s, pc) =>
          /\ job[s] \in Holding /\ pc \notin Holding => Held' = Held - 1
          /\ job[s] \notin Holding /\ pc \in Holding => Held' = Held + 1
          /\ (job[s] \in Holding <=> pc \in Holding) => Held' = Held
    BY <1>4, Moves
  <1> HIDE DEF Held
  <1>6. ASSUME UNCHANGED <<job, permits>> PROVE PermitsConserved'
    BY <1>6 DEF PermitsConserved
  <1>7. ASSUME NEW s \in Job, Feed(s) \/ Collect(s) PROVE PermitsConserved'
    <2>1. /\ "submitted" \in Stage \ Holding /\ "collected" \in Stage \ Holding
          /\ job[s] \notin Holding
      BY <1>7 DEF Feed, Collect, Stage, Busy, Work, Holding
    <2>2. Held' = Held BY <1>5, <1>7, <2>1 DEF Feed, Collect
    <2>3. permits' = permits BY <1>7 DEF Feed, Collect
    <2> QED BY <1>1, <1>2, <2>2, <2>3
  <1>8. ASSUME NEW s \in Job, Worker(s) PROVE PermitsConserved'
    <2> USE DEF Stage, Busy, Work, Holding
    <2>1. CASE Begin(s)
      <3>1. Held' = Held BY <1>5, <2>1 DEF Begin, Return
      <3> QED BY <1>1, <1>2, <2>1, <3>1 DEF Begin
    <2>2. CASE NoMailbox(s)
      <3>1. Held' = Held BY <1>5, <2>2 DEF NoMailbox, Return
      <3> QED BY <1>1, <1>2, <2>2, <3>1 DEF NoMailbox
    <2>3. CASE Prepare(s)
      <3>1. Held' = Held BY <1>5, <2>3 DEF Prepare
      <3> QED BY <1>1, <1>2, <2>3, <3>1 DEF Prepare
    <2>4. CASE Launch(s)
      <3>0. Goto(s, "failed") \/ Goto(s, "admission") BY <2>4 DEF Launch, Return
      <3>1. Held' = Held BY <1>5, <2>4, <3>0 DEF Launch
      <3> QED BY <1>1, <1>2, <2>4, <3>1 DEF Launch
    <2>5. CASE Admit(s)
      <3>1. Held' = Held + 1 BY <1>5, <2>5 DEF Admit
      <3>2. permits' = permits - 1 BY <2>5 DEF Admit
      <3> QED BY <1>1, <1>2, <1>3, <3>1, <3>2
    <2>6. CASE RefuseAdmission(s)
      <3>1. Held' = Held BY <1>5, <2>6 DEF RefuseAdmission, Return
      <3> QED BY <1>1, <1>2, <2>6, <3>1 DEF RefuseAdmission
    <2>7. CASE Advance(s, "started", "registering", "unlisted")
               \/ Advance(s, "registering", "importing", "open")
      <3>1. Held' = Held BY <1>5, <2>7 DEF Advance
      <3> QED BY <1>1, <1>2, <2>7, <3>1 DEF Advance
    <2>8. CASE StoreAccount(s)
      <3>1. Held' = Held BY <1>5, <2>8 DEF StoreAccount
      <3> QED BY <1>1, <1>2, <2>8, <3>1 DEF StoreAccount
    <2>9. CASE Settle(s)
      <3>1. Held' = Held - 1 BY <1>5, <2>9 DEF Settle
      <3>2. permits' = permits + 1 BY <2>9 DEF Settle
      <3> QED BY <1>1, <1>2, <1>3, <3>1, <3>2
    <2>10. CASE Complete(s) \/ Fail(s) \/ Abort(s)
      <3>1. Goto(s, "closing") /\ permits' = Released(s)
        BY <2>10 DEF Complete, Fail, Abort, Leave
      <3>2. CASE job[s] \in Holding
        <4>1. Held' = Held - 1 BY <1>5, <3>1, <3>2
        <4>2. permits' = permits + 1 BY <3>1, <3>2 DEF Released
        <4> QED BY <1>1, <1>2, <1>3, <4>1, <4>2
      <3>3. CASE job[s] \notin Holding
        <4>1. Held' = Held BY <1>5, <3>1, <3>3
        <4>2. permits' = permits BY <3>1, <3>3 DEF Released
        <4> QED BY <1>1, <1>2, <4>1, <4>2
      <3> QED BY <3>2, <3>3
    <2>11. CASE Close(s)
      <3>1. Held' = Held BY <1>5, <2>11 DEF Close, Return
      <3> QED BY <1>1, <1>2, <2>11, <3>1 DEF Close
    <2> QED BY <1>8, <2>1, <2>2, <2>3, <2>4, <2>5, <2>6, <2>7, <2>8, <2>9, <2>10, <2>11 DEF Worker
  <1>9. CASE Restart
    <2>1. In(Holding)' = {} BY <1>9 DEF Restart, In, Holding
    <2>2. Held' = 0 BY <2>1, FS_EmptySet DEF Held
    <2> QED BY <1>2, <1>3, <1>9, <2>2 DEF Restart
  <1>10. CASE \/ FinishBatch \/ ReleaseRunner \/ Renew \/ IntervalPasses
              \/ StopBatch \/ StopAgain \/ StopAll \/ ResumeBatch(TRUE) \/ ResumeBatch(FALSE) \/ StartBatch
              \/ Watchdog \/ LockExpires \/ (\E c \in {Admin, Dog} : Caller(c))
              \/ (\E s \in Job : StopOne(s) \/ StopLook(s) \/ StopMark(s) \/ GrowQuiet(s))
              \/ UNCHANGED vars
    <2>1. UNCHANGED <<job, permits>>
      BY <1>10 DEF FinishBatch, ReleaseRunner, Renew, IntervalPasses, StopBatch, StopAgain, StopAll, StopOne,
         StopSessions, StopLook, StopMark, GrowQuiet, ResumeBatch, StartBatch, Watchdog,
         WatchdogResumes, WatchdogReclaims, LockExpires, Caller, SpawnRunner, PlanResume, Claim,
         NoSolver, Spawn, vars
    <2> QED BY <1>6, <2>1
  <1> QED BY <1>7, <1>8, <1>9, <1>10 DEF Next, Runner

-----------------------------------------------------------------------------
(* The spawner *)

Spawners ==
    \/ /\ ~claim /\ runner.pc = "none"
       /\ \A c \in {Admin, Dog} : call[c].pc # "solver"
    \/ /\ claim /\ runner.pc # "none"
       /\ \A c \in {Admin, Dog} : call[c].pc # "solver"
    \/ /\ claim /\ runner.pc = "none"
       /\ \E c \in {Admin, Dog} : /\ call[c].pc = "solver"
                                   /\ \A d \in {Admin, Dog} \ {c} : call[d].pc # "solver"

LEMMA SpawnersStep == Typed /\ Spawners /\ [Next]_vars => Spawners'
  <1> SUFFICES ASSUME Typed, Spawners, [Next]_vars PROVE Spawners' OBVIOUS
  <1>0. CallType /\ RunnerType /\ RestType BY DEF Typed
  <1>1. ASSUME UNCHANGED <<claim, runner, call>> PROVE Spawners'
    BY <1>1 DEF Spawners
  <1>2. ASSUME UNCHANGED <<claim, call>>, runner'.pc # "none", runner.pc # "none" PROVE Spawners'
    BY <1>2 DEF Spawners
  <1>3. ASSUME NEW c \in {Admin, Dog}, UNCHANGED <<claim, runner>>, call[c].pc # "solver",
               \A d \in {Admin, Dog} \ {c} : call'[d] = call[d], call'[c].pc # "solver"
        PROVE  Spawners'
    BY <1>3 DEF Spawners
  <1>4. ASSUME NEW s \in Job, Feed(s) \/ Collect(s) PROVE Spawners'
    <2>1. UNCHANGED <<claim, call>> /\ runner'.pc = runner.pc /\ runner.pc = "feeding"
      BY <1>0, <1>4 DEF Feed, Collect, RunnerType
    <2> QED BY <1>2, <2>1
  <1>5. CASE FinishBatch
    <2>1. UNCHANGED <<claim, call>> /\ runner'.pc = "releasing" /\ runner.pc = "feeding"
      BY <1>0, <1>5 DEF FinishBatch, RunnerType
    <2> QED BY <1>2, <2>1
  <1>6. CASE ReleaseRunner
    BY <1>6 DEF ReleaseRunner, Spawners, NoRunner
  <1>7. ASSUME NEW c \in {Admin, Dog}, NEW f, OpenResume(c, f), UNCHANGED <<claim, runner>>
        PROVE Spawners'
    <2>1. call[c].pc # "solver" /\ call'[c].pc = "plan"
          /\ \A d \in {Admin, Dog} \ {c} : call'[d] = call[d]
      BY <1>0, <1>7 DEF OpenResume, CallType, AtStage
    <2> QED BY <1>3, <1>7, <2>1
  <1>8. ASSUME NEW c \in {Admin, Dog}, PlanResume(c) PROVE Spawners'
    <2>1. call[c].pc # "solver" /\ call'[c].pc # "solver"
          /\ \A d \in {Admin, Dog} \ {c} : call'[d] = call[d]
      BY <1>0, <1>8 DEF PlanResume, CallType, IdleCall, AtStage
    <2>2. UNCHANGED <<claim, runner>> BY <1>8 DEF PlanResume
    <2> QED BY <1>3, <2>1, <2>2
  <1>9. CASE StartBatch
    <2>1. call[Admin].pc # "solver" /\ call'[Admin].pc # "solver"
          /\ \A d \in {Admin, Dog} \ {Admin} : call'[d] = call[d]
      BY <1>0, <1>9 DEF StartBatch, CallType, AtStage
    <2>2. UNCHANGED <<claim, runner>> BY <1>9 DEF StartBatch
    <2> QED BY <1>3, <2>1, <2>2
  <1>10. ASSUME NEW c \in {Admin, Dog}, Claim(c) PROVE Spawners'
    <2>1. call[c].pc = "claim" /\ runner' = runner BY <1>10 DEF Claim
    <2>2. CASE HasRunner
      <3>1. call'[c].pc # "solver" /\ (\A d \in {Admin, Dog} \ {c} : call'[d] = call[d])
            /\ claim' = claim
        BY <1>0, <1>10, <2>2, IdleType DEF Claim, CallType
      <3> QED BY <1>3, <2>1, <3>1
    <2>3. CASE ~HasRunner
      <3>1. ~claim BY <2>3 DEF HasRunner
      <3>2. call'[c].pc = "solver" /\ (\A d \in {Admin, Dog} \ {c} : call'[d] = call[d])
            /\ claim' = TRUE
        BY <1>0, <1>10, <2>3 DEF Claim, CallType, CallRecord
      <3> QED BY <2>1, <3>1, <3>2 DEF Spawners
    <2> QED BY <2>2, <2>3
  <1>11. ASSUME NEW c \in {Admin, Dog}, NoSolver(c) PROVE Spawners'
    <2>1. call[c].pc = "solver" /\ runner' = runner /\ claim' = FALSE /\ call'[c].pc = "idle"
          /\ \A d \in {Admin, Dog} \ {c} : call'[d] = call[d]
      BY <1>0, <1>11, IdleType DEF NoSolver, CallType
    <2> QED BY <2>1 DEF Spawners
  <1>12. ASSUME NEW c \in {Admin, Dog}, Spawn(c) PROVE Spawners'
    <2>1. call[c].pc = "solver" /\ runner'.pc = "feeding" /\ claim' = claim /\ call'[c].pc = "idle"
          /\ \A d \in {Admin, Dog} \ {c} : call'[d] = call[d]
      BY <1>0, <1>12, IdleType DEF Spawn, CallType
    <2> QED BY <2>1 DEF Spawners
  <1>13. CASE Restart
    BY <1>13, IdleType DEF Restart, Spawners, NoRunner
  <1>14. ASSUME NEW s \in Job,
               Worker(s) \/ StopOne(s) \/ StopLook(s) \/ StopMark(s) \/ GrowQuiet(s)
         PROVE Spawners'
    <2>1. UNCHANGED <<claim, runner, call>>
      BY <1>14 DEF StopOne, StopSessions, StopLook, StopMark, GrowQuiet, Worker, Begin, NoMailbox,
         Prepare, Launch, Admit, RefuseAdmission, Advance, StoreAccount, Settle, Complete, Fail,
         Abort, Leave, Close, spawner
    <2> QED BY <1>1, <2>1
  <1>15. CASE \/ Renew \/ IntervalPasses \/ StopBatch \/ StopAgain \/ StopAll \/ WatchdogReclaims
              \/ LockExpires \/ UNCHANGED vars
    <2>1. UNCHANGED <<claim, runner, call>>
      BY <1>15 DEF Renew, IntervalPasses, StopBatch, StopAgain, StopAll, StopSessions, WatchdogReclaims,
         LockExpires, spawner, vars
    <2> QED BY <1>1, <2>1
  <1>16. CASE ResumeBatch(TRUE) \/ ResumeBatch(FALSE) \/ WatchdogResumes
    BY <1>7, <1>16 DEF ResumeBatch, WatchdogResumes
  <1> QED BY <1>4, <1>5, <1>6, <1>8, <1>9, <1>10, <1>11, <1>12, <1>13, <1>14, <1>15, <1>16
      DEF Next, Runner, Caller, SpawnRunner, Watchdog

-----------------------------------------------------------------------------
(* The tally of a batch *)

Same(b, c) == b.fin = c.fin /\ b.ok = c.ok /\ b.fail = c.fail

\* What every step but a result, an end, a start and a restart does to it.
TallyKept ==
    /\ batch # NoBatch => batch' # NoBatch /\ Same(batch', batch)
    /\ batch = NoBatch /\ batch' # NoBatch => rbatch # NoBatch /\ Same(batch', rbatch)
    /\ rbatch' \in {rbatch, batch'}

Quiet ==
    \/ \E s \in Job : Worker(s) \/ Feed(s) \/ StopOne(s) \/ StopLook(s) \/ StopMark(s) \/ GrowQuiet(s)
    \/ ReleaseRunner \/ Renew \/ IntervalPasses
    \/ \E c \in {Admin, Dog} : Caller(c)
    \/ StopBatch \/ StopAgain \/ StopAll \/ ResumeBatch(TRUE) \/ ResumeBatch(FALSE)
    \/ Watchdog \/ LockExpires \/ UNCHANGED vars

LEMMA SetSame ==
  ASSUME BatchType, NEW b \in BatchRecord, NEW c \in BatchRecord, c = Known, Known # NoBatch,
         Same(b, c), SetBatch(b)
  PROVE  TallyKept
  BY SetBatchType, BatchAssumption DEF TallyKept, Known, BatchType

LEMMA QuietTally == Typed /\ Quiet => TallyKept
  <1> SUFFICES ASSUME Typed, Quiet PROVE TallyKept OBVIOUS
  <1>1. BatchType BY DEF Typed
  <1>2. ASSUME UNCHANGED <<batch, rbatch>> PROVE TallyKept
    BY <1>2 DEF TallyKept, Same
  <1>3. ASSUME batch # NoBatch, batch' = Heeded, UNCHANGED rbatch PROVE TallyKept
    <2>1. Same(Heeded, batch) /\ Heeded # NoBatch
      <3>1. batch \in BatchRecord BY <1>1, <1>3 DEF BatchType
      <3>2. CASE Stopped(batch) \/ ~Stopped(rbatch) BY <1>3, <3>2 DEF Heeded, Same
      <3>3. CASE ~(Stopped(batch) \/ ~Stopped(rbatch))
        <4>1. Heeded = [batch EXCEPT !.cancel = TRUE,
                       !.st = IF @ \in TerminalBatch THEN @ ELSE rbatch.st]
          BY <3>3 DEF Heeded
        <4>2. Same(Heeded, batch) BY <3>1, <4>1 DEF Same, BatchRecord
        <4> QED BY <1>1, <1>3, <4>2, HeededType
      <3> QED BY <3>2, <3>3
    <2> QED BY <1>3, <2>1 DEF TallyKept
  <1>4. batch # NoBatch => batch \in BatchRecord /\ Known = batch BY <1>1 DEF BatchType, Known
  <1>5. Known # NoBatch => Known \in BatchRecord BY <1>1 DEF BatchType, Known
  <1>6. ASSUME NEW s \in Job, Worker(s) PROVE TallyKept
    <2>1. batch # NoBatch
      BY <1>6 DEF Typed, Present, Worker, Begin, NoMailbox, Prepare, Launch, Admit, RefuseAdmission,
         Advance, StoreAccount, Settle, Complete, Fail, Abort, Close, Busy, Work
    <2>2. CASE Prepare(s)
      <3> DEFINE b == [batch EXCEPT !.ids = @ \cup {s}]
      <3>1. b \in BatchRecord /\ Same(b, batch) BY <1>4, <2>1 DEF BatchRecord, Same
      <3> QED BY <1>1, <1>4, <2>1, <2>2, <3>1, SetSame DEF Prepare
    <2>3. CASE Begin(s) \/ Complete(s) \/ Fail(s) \/ Abort(s)
      BY <1>3, <2>1, <2>3 DEF Begin, Complete, Fail, Abort, Leave
    <2>4. CASE ~(Prepare(s) \/ Begin(s) \/ Complete(s) \/ Fail(s) \/ Abort(s))
      <3>1. UNCHANGED batches
        BY <1>6, <2>4 DEF Worker, NoMailbox, Launch, Admit, RefuseAdmission, Advance, StoreAccount,
           Settle, Close
      <3> QED BY <1>2, <3>1 DEF batches
    <2> QED BY <2>2, <2>3, <2>4
  <1>7. ASSUME NEW s \in Job, Feed(s) PROVE TallyKept
    <2>1. batch # NoBatch BY <1>7 DEF Typed, Present, Feed
    <2> DEFINE b == [batch EXCEPT !.st = "running"]
    <2>2. b \in BatchRecord /\ Same(b, batch) BY <1>4, <2>1 DEF BatchRecord, Same
    <2> QED BY <1>1, <1>4, <2>1, <2>2, <1>7, SetSame DEF Feed
  <1>8. CASE Renew
    <2>1. batch # NoBatch BY <1>8 DEF Typed, Present, Renew
    <2> DEFINE b == [batch EXCEPT !.cancel = @ \/ StopSeen,
                              !.st = IF StopSeen /\ @ \notin TerminalBatch
                                     THEN "stopping" ELSE @]
    <2>2. b \in BatchRecord /\ Same(b, batch) BY <1>4, <2>1 DEF BatchRecord, Same
    <2> QED BY <1>1, <1>4, <2>1, <2>2, <1>8, SetSame DEF Renew
  <1>9. CASE StopBatch
    <2>1. Known # NoBatch BY <1>9 DEF StopBatch
    <2>2. Stopping(Known) \in BatchRecord /\ Same(Stopping(Known), Known)
      BY <1>5, <2>1 DEF Stopping, BatchRecord, Same
    <2> QED BY <1>1, <1>5, <2>1, <2>2, <1>9, SetSame DEF StopBatch
  <1>9a. CASE StopAgain
    <2>1. batch # NoBatch BY <1>9a DEF StopAgain, Typed, Present
    <2>2. Stopping(batch) \in BatchRecord /\ Same(Stopping(batch), batch)
      BY <1>4, <2>1 DEF Stopping, BatchRecord, Same
    <2> QED BY <1>1, <1>4, <2>1, <2>2, <1>9a, SetSame DEF StopAgain
  <1>10. CASE WatchdogReclaims
    <2>1. Known # NoBatch BY <1>10 DEF WatchdogReclaims, Known
    <2> QED BY <1>1, <1>5, <2>1, <1>10, SetSame DEF WatchdogReclaims, Same
  <1>11. ASSUME NEW c \in {Admin, Dog}, NEW f, OpenResume(c, f) PROVE TallyKept
    <2>1. Known # NoBatch BY <1>11 DEF OpenResume
    <2>2. CASE SetBatch(Known) BY <1>1, <1>5, <2>1, <2>2, SetSame DEF Same
    <2>3. CASE batch' = Known /\ UNCHANGED <<rbatch, recent>>
      BY <2>1, <2>3 DEF TallyKept, Known, Same
    <2> QED BY <1>11, <2>2, <2>3 DEF OpenResume
  <1>12. ASSUME NEW c \in {Admin, Dog}, PlanResume(c) \/ Spawn(c) PROVE TallyKept
    <2>1. batch # NoBatch BY <1>12 DEF Typed, Present, PlanResume, Spawn
    <2>2. batch \in BatchRecord BY <1>4, <2>1
    <2>3. \E b \in BatchRecord : SetBatch(b) /\ Same(b, batch)
      <3> DEFINE b1 == [batch EXCEPT !.st = IF batch.fail = 0 THEN "done" ELSE "partial"]
                 b2 == [batch EXCEPT !.cancel = FALSE,
                                      !.st = IF @ \in StopStatus \cup {"error"}
                                             THEN "running" ELSE @]
                 b3 == [batch EXCEPT !.st = "running", !.cancel = FALSE]
      <3>1. b1 \in BatchRecord /\ Same(b1, batch) BY <2>2 DEF BatchRecord, Same, TerminalBatch
      <3>2. b2 \in BatchRecord /\ Same(b2, batch) BY <2>2 DEF BatchRecord, Same, TerminalBatch
      <3>3. b3 \in BatchRecord /\ Same(b3, batch) BY <2>2 DEF BatchRecord, Same
      <3>4. SetBatch(b1) \/ SetBatch(b2) \/ SetBatch(b3) BY <1>12 DEF PlanResume, Spawn
      <3> HIDE DEF b1, b2, b3
      <3> QED BY <3>1, <3>2, <3>3, <3>4
    <2> QED BY <1>1, <1>4, <2>1, <2>3, SetSame
  <1>13. CASE \/ \E s \in Job : StopOne(s) \/ StopLook(s) \/ StopMark(s) \/ GrowQuiet(s)
              \/ ReleaseRunner \/ IntervalPasses \/ StopAll \/ LockExpires \/ UNCHANGED vars
              \/ \E c \in {Admin, Dog} : Claim(c) \/ NoSolver(c)
    <2>1. UNCHANGED <<batch, rbatch>>
      BY <1>13 DEF StopOne, StopSessions, StopLook, StopMark, GrowQuiet, ReleaseRunner,
         IntervalPasses, StopAll, LockExpires, Claim, NoSolver, batches, vars
    <2> QED BY <1>2, <2>1
  <1>14. CASE ResumeBatch(TRUE) \/ ResumeBatch(FALSE) \/ WatchdogResumes
    BY <1>11, <1>14 DEF ResumeBatch, WatchdogResumes
  <1> QED BY <1>6, <1>7, <1>8, <1>9, <1>9a, <1>10, <1>12, <1>13, <1>14
      DEF Quiet, Caller, SpawnRunner, Watchdog

\* The others, and what they do to the runner.
LEMMA CollectTally ==
  ASSUME Typed, NEW s \in Job, Collect(s)
  PROVE  /\ batch' # NoBatch /\ Same(batch', runner') /\ rbatch' \in {rbatch, batch'}
         /\ runner'.pc = "feeding" /\ runner.pc = "feeding" /\ runner'.todo = runner.todo
         /\ runner'.fin = runner.fin + 1
         /\ job[s] = "succeeded" => runner'.ok = runner.ok + 1 /\ runner'.fail = runner.fail
         /\ job[s] # "succeeded" => runner'.ok = runner.ok /\ runner'.fail = runner.fail + 1
  <1> DEFINE good == job[s] = "succeeded"
             r == [runner EXCEPT !.fin = @ + 1,
                               !.ok = IF good THEN @ + 1 ELSE @,
                               !.fail = IF good THEN @ ELSE @ + 1]
             b == [batch EXCEPT !.st = IF batch.cancel THEN @ ELSE "running",
                                     !.fin = r.fin, !.ok = r.ok, !.fail = r.fail]
  <1>1. batch \in BatchRecord BY DEF Typed, Present, BatchType, Collect
  <1>2. runner' = r /\ SetBatch(b) /\ runner.pc = "feeding" BY DEF Collect
  <1>3. RunnerType /\ BatchType BY DEF Typed
  <1>4. /\ r.pc = runner.pc /\ r.todo = runner.todo /\ r.fin = runner.fin + 1
        /\ r.ok = (IF good THEN runner.ok + 1 ELSE runner.ok)
        /\ r.fail = (IF good THEN runner.fail ELSE runner.fail + 1)
        /\ r.fin \in Nat /\ r.ok \in Nat /\ r.fail \in Nat
    <2>1. runner.fin + 1 \in Nat /\ runner.ok + 1 \in Nat /\ runner.fail + 1 \in Nat
          /\ runner.fin \in Nat /\ runner.ok \in Nat /\ runner.fail \in Nat
      BY <1>3 DEF RunnerType
    <2>2. /\ r.pc = runner.pc /\ r.todo = runner.todo /\ r.fin = runner.fin + 1
          /\ r.ok = (IF good THEN runner.ok + 1 ELSE runner.ok)
          /\ r.fail = (IF good THEN runner.fail ELSE runner.fail + 1)
      BY <1>3 DEF RunnerType
    <2> HIDE DEF r
    <2> QED BY <2>1, <2>2
  <1> HIDE DEF r
  <1>5. b \in BatchRecord /\ Same(b, r) BY <1>1, <1>4 DEF BatchRecord, Same
  <1>6. batch' = b /\ batch' # NoBatch /\ rbatch' \in {rbatch, batch'}
    BY <1>2, <1>3, <1>5, SetBatchType
  <1> QED BY <1>2, <1>4, <1>5, <1>6

LEMMA FinishTally ==
  ASSUME Typed, FinishBatch
  PROVE  /\ batch' # NoBatch /\ Same(batch', runner) /\ rbatch' \in {rbatch, batch'}
         /\ runner.pc = "feeding" /\ runner'.pc = "releasing" /\ Same(runner', runner)
  <1> DEFINE h == Heeded
             b == [h EXCEPT
               !.fin = runner.fin, !.ok = runner.ok, !.fail = runner.fail,
               !.st = IF Stopped(h) /\ runner.fin < Count THEN "cancelled"
                      ELSE IF runner.fail > 0 /\ runner.ok = 0 THEN "error"
                      ELSE IF runner.fail > 0 THEN "partial" ELSE "done"]
  <1>1. h \in BatchRecord BY HeededType DEF Typed, Present, FinishBatch
  <1>2. SetBatch(b) BY DEF FinishBatch
  <1> HIDE DEF h
  <1>3. b \in BatchRecord /\ Same(b, runner)
    BY <1>1 DEF BatchRecord, Typed, RunnerType, TerminalBatch, Same
  <1>4. batch' = b /\ batch' # NoBatch /\ rbatch' \in {rbatch, batch'}
    BY <1>2, <1>3, SetBatchType DEF Typed
  <1>5. runner.pc = "feeding" /\ runner'.pc = "releasing" /\ Same(runner', runner)
    BY DEF FinishBatch, Typed, RunnerType, Same
  <1> QED BY <1>3, <1>4, <1>5

LEMMA StartTally ==
  ASSUME Typed, StartBatch
  PROVE  /\ batch = NoBatch /\ rbatch = NoBatch /\ batch' # NoBatch /\ rbatch' \in {rbatch, batch'}
         /\ batch'.fin = 0 /\ batch'.ok = 0 /\ batch'.fail = 0
  <1> DEFINE b == [st |-> "running", cancel |-> FALSE, fin |-> 0, ok |-> 0, fail |-> 0, ids |-> {}]
  <1>1. b \in BatchRecord BY DEF BatchRecord
  <1>2. SetBatch(b) /\ Known = NoBatch BY DEF StartBatch
  <1>3. batch' = b /\ batch' # NoBatch /\ rbatch' \in {rbatch, batch'}
    BY <1>1, <1>2, SetBatchType DEF Typed
  <1> QED BY <1>2, <1>3 DEF Known

\* The tallies at a time: both copies of the batch, and the runner's own.
Tallies == ({batch, rbatch} \ {NoBatch}) \cup {r \in {runner} : r.pc # "none"}

LEMMA TallyTyped == Typed => \A t \in Tallies : t.fin \in Nat /\ t.ok \in Nat /\ t.fail \in Nat
  BY DEF Typed, BatchType, RunnerType, BatchRecord, Tallies

LEMMA RunnerTally ==
  ASSUME Typed, Quiet
  PROVE  runner'.pc # "none" =>
           \/ runner.pc # "none" /\ Same(runner', runner)
           \/ batch # NoBatch /\ Same(runner', batch)
  <1>0. RunnerType BY DEF Typed
  <1>1. ASSUME UNCHANGED runner
        PROVE runner'.pc # "none" => runner.pc # "none" /\ Same(runner', runner)
    BY <1>1 DEF Same
  <1>2. ASSUME NEW s \in Job, Feed(s) PROVE runner.pc # "none" /\ Same(runner', runner)
    BY <1>0, <1>2 DEF Feed, RunnerType, Same
  <1>3. CASE ReleaseRunner BY <1>3 DEF ReleaseRunner, NoRunner
  <1>4. ASSUME NEW c \in {Admin, Dog}, Spawn(c) PROVE batch # NoBatch /\ Same(runner', batch)
    BY <1>4 DEF Spawn, Same, Typed, Present
  <1>5. ASSUME NEW s \in Job,
               Worker(s) \/ StopOne(s) \/ StopLook(s) \/ StopMark(s) \/ GrowQuiet(s)
        PROVE UNCHANGED runner
    BY <1>5 DEF StopOne, StopSessions, StopLook, StopMark, GrowQuiet, Worker, Begin, NoMailbox,
         Prepare, Launch, Admit, RefuseAdmission, Advance, StoreAccount, Settle, Complete, Fail,
         Abort, Leave, Close, spawner
  <1>6. CASE \/ Renew \/ IntervalPasses \/ StopBatch \/ StopAgain \/ StopAll \/ Watchdog \/ LockExpires
             \/ UNCHANGED vars \/ ResumeBatch(TRUE) \/ ResumeBatch(FALSE)
             \/ \E c \in {Admin, Dog} : PlanResume(c) \/ Claim(c) \/ NoSolver(c)
    <2>1. UNCHANGED runner
      BY <1>6 DEF Renew, IntervalPasses, StopBatch, StopAgain, StopAll, StopSessions, Watchdog, WatchdogResumes,
         WatchdogReclaims, LockExpires, ResumeBatch, PlanResume, Claim, NoSolver, spawner, vars
    <2> QED BY <1>1, <2>1
  <1> QED BY <1>1, <1>2, <1>3, <1>4, <1>5, <1>6 DEF Quiet, Caller, SpawnRunner

\* But for a result that is noted, every tally is one of before or a new one.
LEMMA TallyOrigin ==
  ASSUME Typed, [Next]_vars, ~ \E s \in Job : Collect(s)
  PROVE  \A t \in Tallies' : \/ \E u \in Tallies : Same(t, u)
                             \/ t.fin = 0 /\ t.ok = 0 /\ t.fail = 0
  <1> SUFFICES ASSUME NEW t \in Tallies'
               PROVE  (\E u \in Tallies : Same(t, u)) \/ (t.fin = 0 /\ t.ok = 0 /\ t.fail = 0)
    OBVIOUS
  <1>0. \A u : Same(u, u) BY DEF Same
  <1>1. \/ t = batch' /\ batch' # NoBatch
        \/ t = rbatch' /\ rbatch' # NoBatch
        \/ t = runner' /\ runner'.pc # "none"
    BY DEF Tallies
  <1>2. CASE Quiet
    <2>1. TallyKept BY <1>2, QuietTally
    <2>2. CASE t = runner' /\ runner'.pc # "none"
      BY <1>2, <2>2, RunnerTally DEF Tallies
    <2>3. CASE t = batch' /\ batch' # NoBatch
      BY <2>1, <2>3 DEF Tallies, TallyKept
    <2>4. CASE t = rbatch' /\ rbatch' # NoBatch
      <3>1. CASE rbatch' = rbatch BY <1>0, <2>4, <3>1 DEF Tallies
      <3>2. CASE rbatch' = batch' BY <2>3, <2>4, <3>2
      <3> QED BY <2>1, <3>1, <3>2 DEF TallyKept
    <2> QED BY <1>1, <2>2, <2>3, <2>4
  <1>3. CASE FinishBatch
    <2>1. /\ Same(batch', runner) /\ rbatch' \in {rbatch, batch'} /\ Same(runner', runner)
          /\ runner.pc # "none"
      BY <1>3, FinishTally
    <2> QED BY <1>0, <1>1, <2>1 DEF Tallies, Same
  <1>4. CASE StartBatch
    <2>1. /\ rbatch = NoBatch /\ rbatch' \in {rbatch, batch'}
          /\ batch'.fin = 0 /\ batch'.ok = 0 /\ batch'.fail = 0
      BY <1>4, StartTally
    <2>2. runner' = runner BY <1>4 DEF StartBatch
    <2> QED BY <1>0, <1>1, <2>1, <2>2 DEF Tallies
  <1>5. CASE Restart
    <2>1. batch' = NoBatch /\ rbatch' = rbatch /\ runner'.pc = "none"
      BY <1>5 DEF Restart, NoRunner
    <2> QED BY <1>0, <1>1, <2>1 DEF Tallies
  <1> QED BY <1>2, <1>3, <1>4, <1>5 DEF Next, Quiet, Runner

\* The tallies a result leaves.
LEMMA TallyNoted ==
  ASSUME Typed, NEW s \in Job, Collect(s)
  PROVE  /\ runner \in Tallies
         /\ \A t \in Tallies' : (t = rbatch /\ t \in Tallies) \/ Same(t, runner')
  <1>1. /\ Same(batch', runner') /\ rbatch' \in {rbatch, batch'} /\ runner.pc = "feeding"
        /\ batch' # NoBatch
    BY CollectTally
  <1>2. Same(runner', runner') BY DEF Same
  <1> QED BY <1>1, <1>2 DEF Tallies

Sums == \A t \in Tallies : t.fin = t.ok + t.fail

LEMMA SumsStep == Typed /\ Sums /\ [Next]_vars => Sums'
  <1> SUFFICES ASSUME Typed, Sums, [Next]_vars PROVE Sums' OBVIOUS
  <1>1. CASE \E s \in Job : Collect(s)
    <2>1. PICK s \in Job : Collect(s) BY <1>1
    <2>2. /\ runner \in Tallies
          /\ \A t \in Tallies' : (t = rbatch /\ t \in Tallies) \/ Same(t, runner')
      BY <2>1, TallyNoted
    <2>3. runner.fin \in Nat /\ runner.ok \in Nat /\ runner.fail \in Nat BY <2>2, TallyTyped
    <2>4. runner'.fin = runner'.ok + runner'.fail
      <3>1. runner.fin = runner.ok + runner.fail BY <2>2 DEF Sums
      <3> QED BY <2>1, <2>3, <3>1, CollectTally
    <2> QED BY <2>2, <2>4 DEF Sums, Same
  <1>2. CASE ~ \E s \in Job : Collect(s)
    BY <1>2, TallyOrigin DEF Sums, Same
  <1> QED BY <1>1, <1>2

-----------------------------------------------------------------------------
(* Successes and accounts *)

\* Jobs whose account is stored and whose success is not in the tally yet.
Counted == {s \in Job : \/ job[s] \in {"stored", "probing", "succeeded"}
                        \/ job[s] = "closing" /\ sess[s].st = "imported"}

Backs(k) == k + Cardinality(Counted) <= enrolled

Backed == Backs(0) /\ \A t \in Tallies : Backs(t.ok)

LEMMA CountedFinite == IsFiniteSet(Counted) /\ Cardinality(Counted) \in Nat
  <1>1. Counted \subseteq Job BY DEF Counted
  <1> QED BY <1>1, JobFinite, FS_Subset, FS_CardinalityType

\* A job starts to count when it stores its account.
LEMMA CountedOrigin ==
  ASSUME Typed, [Next]_vars
  PROVE  \A t \in Counted' : t \in Counted \/ StoreAccount(t)
  <1> SUFFICES ASSUME NEW t \in Job, t \in Counted', t \notin Counted PROVE StoreAccount(t)
    BY DEF Counted
  <1>0. JobType /\ SessType BY DEF Typed
  <1>1. job[t] \notin {"stored", "probing", "succeeded"} /\ ~(job[t] = "closing" /\ sess[t].st = "imported")
    BY DEF Counted
  <1>2. job'[t] \in {"stored", "probing", "succeeded"} \/ (job'[t] = "closing" /\ sess'[t].st = "imported")
    BY DEF Counted
  <1>3. ASSUME job'[t] = job[t], sess'[t] = sess[t] PROVE FALSE BY <1>1, <1>2, <1>3
  <1>4. ASSUME job'[t] = job[t], sess'[t].st # "imported" PROVE FALSE BY <1>1, <1>2, <1>4
  <1>5. ASSUME NEW s \in Job, Worker(s) PROVE StoreAccount(t)
    <2>1. CASE s # t
      <3>1. job'[t] = job[t]
        BY <1>0, <1>5, <2>1 DEF JobType, Worker, Begin, NoMailbox, Prepare, Launch, Admit,
           RefuseAdmission, Advance, StoreAccount, Settle, Complete, Fail, Abort, Leave, Close,
           Return, Goto
      <3>2. sess'[t] = sess[t]
        BY <1>0, <1>5, <2>1 DEF SessType, Worker, Begin, NoMailbox, Prepare, Launch, Admit,
           RefuseAdmission, Advance, StoreAccount, Settle, Complete, Fail, Abort, Leave, Close,
           Write, sessions
      <3> QED BY <1>3, <3>1, <3>2
    <2>2. CASE s = t
      <3>1. \A pc : Goto(t, pc) => job'[t] = pc BY <1>0 DEF JobType, Goto
      <3>2. \A st, c : Write(t, st, c) => sess'[t].st = st BY <1>0 DEF SessType, Write
      <3>3. CASE Begin(t) \/ NoMailbox(t) \/ Prepare(t) \/ Launch(t) \/ Admit(t) \/ RefuseAdmission(t)
                 \/ Advance(t, "started", "registering", "unlisted")
                 \/ Advance(t, "registering", "importing", "open")
        <4>1. \E pc \in {"failed", "mailing", "prepared", "admission", "started", "registering",
                         "importing"} : Goto(t, pc)
          BY <3>3 DEF Begin, NoMailbox, Prepare, Launch, Admit, RefuseAdmission, Advance, Return
        <4> QED BY <1>2, <3>1, <4>1
      <3>4. CASE Settle(t) \/ Complete(t)
        BY <1>1, <3>4 DEF Settle, Complete
      <3>5. CASE Fail(t) \/ Abort(t)
        BY <1>2, <3>1, <3>2, <3>5 DEF Fail, Abort, Leave
      <3>6. CASE Close(t)
        BY <1>1, <1>2, <3>1, <3>6 DEF Close, Return
      <3> QED BY <1>5, <2>2, <3>3, <3>4, <3>5, <3>6 DEF Worker
    <2> QED BY <2>1, <2>2
  <1>6. ASSUME NEW s \in Job, Feed(s) \/ Collect(s) PROVE FALSE
    <2>1. Goto(s, "submitted") \/ Goto(s, "collected") BY <1>6 DEF Feed, Collect
    <2>2. job'[t] \in {job[t], "submitted", "collected"} BY <1>0, <2>1 DEF JobType, Goto
    <2>3. UNCHANGED sess BY <1>6 DEF Feed, Collect, sessions
    <2> QED BY <1>1, <1>2, <2>2, <2>3
  <1>7. ASSUME NEW s \in Job, StopMark(s) PROVE FALSE
    <2>1. sess'[t] = sess[t] \/ sess'[t].st = "stopping" BY <1>0, <1>7 DEF StopMark, Write, SessType
    <2> QED BY <1>3, <1>4, <1>7, <2>1 DEF StopMark
  <1>8. ASSUME NEW live, Reclaim(live), UNCHANGED job PROVE FALSE
    <2>1. sess'[t] = sess[t] \/ sess'[t].st = "error" BY <1>8 DEF Reclaim
    <2> QED BY <1>3, <1>4, <1>8, <2>1
  <1>9. CASE Restart
    BY <1>2, <1>9 DEF Restart
  <1>10. CASE ResumeBatch(TRUE) \/ ResumeBatch(FALSE) \/ Watchdog
    BY <1>8, <1>10 DEF ResumeBatch, Watchdog, WatchdogResumes, WatchdogReclaims, OpenResume
  <1>11. CASE \/ \E s \in Job : StopOne(s) \/ StopLook(s) \/ GrowQuiet(s)
              \/ FinishBatch \/ ReleaseRunner \/ Renew \/ IntervalPasses \/ StopBatch \/ StopAgain \/ StopAll
              \/ StartBatch \/ LockExpires \/ UNCHANGED vars
              \/ \E c \in {Admin, Dog} : Caller(c)
    <2>1. UNCHANGED <<job, sess>>
      BY <1>11 DEF StopOne, StopSessions, StopLook, GrowQuiet, FinishBatch, ReleaseRunner, Renew,
         IntervalPasses, StopBatch, StopAgain, StopAll, StartBatch, LockExpires, Caller, SpawnRunner, PlanResume,
         Claim, NoSolver, Spawn, sessions, vars
    <2> QED BY <1>3, <2>1
  <1> QED BY <1>5, <1>6, <1>7, <1>9, <1>10, <1>11 DEF Next, Runner

LEMMA EnrolledStep ==
  ASSUME Typed, [Next]_vars
  PROVE  UNCHANGED enrolled \/ \E s \in Job : StoreAccount(s)
  BY DEF Next, Worker, Begin, NoMailbox, Prepare, Launch, Admit, RefuseAdmission, Advance, Settle,
     Complete, Fail, Abort, Leave, Close, StopOne, StopSessions, StopLook, StopMark, GrowQuiet,
     Runner, Feed, Collect, FinishBatch, ReleaseRunner, Renew, IntervalPasses, StopBatch, StopAgain, StopAll,
     ResumeBatch, StartBatch, Watchdog, WatchdogResumes, WatchdogReclaims, LockExpires, Restart,
     Caller, SpawnRunner, PlanResume, Claim, NoSolver, Spawn, history, vars

LEMMA BackedStep == Typed /\ Backed /\ [Next]_vars => Backed'
  <1> SUFFICES ASSUME Typed, Backed, [Next]_vars PROVE Backed' OBVIOUS
  <1> DEFINE n == Cardinality(Counted)
  <1>1. n \in Nat /\ n' \in Nat /\ enrolled \in Nat
    <2>1. JobType' BY StepTyped DEF Typed
    <2>2. IsFiniteSet(Counted') /\ Cardinality(Counted') \in Nat
      <3>1. Counted' \subseteq Job BY DEF Counted
      <3> QED BY <3>1, JobFinite, FS_Subset, FS_CardinalityType
    <2> QED BY <2>2, CountedFinite DEF Typed, RestType
  <1>2. IsFiniteSet(Counted) BY CountedFinite
  <1>3. enrolled' - n' >= enrolled - n
    <2>1. CASE \E s \in Job : StoreAccount(s)
      <3>1. PICK s \in Job : StoreAccount(s) BY <2>1
      <3>2. enrolled' = enrolled + 1 BY <3>1 DEF StoreAccount
      <3>3. \A t \in Job \ {s} : ~StoreAccount(t)
        <4>1. job[s] = "importing" /\ job'[s] = "stored"
          BY <3>1, GotoType DEF StoreAccount, Typed, Stage, Busy, Work
        <4> QED BY <4>1, GotoType DEF StoreAccount, Typed, Stage, Busy, Work
      <3>4. Counted' \subseteq Counted \cup {s} BY <3>3, CountedOrigin DEF Counted
      <3>5. Cardinality(Counted \cup {s}) <= n + 1 /\ IsFiniteSet(Counted \cup {s})
            /\ Cardinality(Counted \cup {s}) \in Nat
        <4>1. CASE s \in Counted
          <5>1. Counted \cup {s} = Counted BY <4>1
          <5> QED BY <1>1, <1>2, <5>1
        <4>2. CASE s \notin Counted BY <1>1, <1>2, <4>2, FS_AddElement
        <4> QED BY <4>1, <4>2
      <3>6. Cardinality(Counted') <= Cardinality(Counted \cup {s})
        BY <3>4, <3>5, FS_Subset
      <3> QED BY <1>1, <3>2, <3>5, <3>6
    <2>2. CASE ~ \E s \in Job : StoreAccount(s)
      <3>1. Counted' \subseteq Counted BY <2>2, CountedOrigin DEF Counted
      <3>2. n' <= n BY <1>2, <3>1, FS_Subset
      <3>3. UNCHANGED enrolled BY <2>2, EnrolledStep
      <3> QED BY <1>1, <3>2, <3>3
    <2> QED BY <2>1, <2>2
  <1>4. enrolled' \in Nat BY StepTyped DEF Typed, RestType
  <1>5. \A k \in Nat : Backs(k) => k + n' <= enrolled' BY <1>1, <1>3, <1>4 DEF Backs
  <1>6. Backs(0)' BY <1>5 DEF Backed, Backs
  <1>7. \A t \in Tallies' : t.ok + n' <= enrolled'
    <2>1. CASE ~ \E s \in Job : Collect(s)
      <3> SUFFICES ASSUME NEW t \in Tallies' PROVE t.ok + n' <= enrolled' OBVIOUS
      <3>1. CASE \E u \in Tallies : Same(t, u)
        <4>1. PICK u \in Tallies : Same(t, u) BY <3>1
        <4>2. u.ok \in Nat /\ Backs(u.ok) BY TallyTyped DEF Backed
        <4> QED BY <1>5, <4>1, <4>2 DEF Same
      <3>2. CASE t.ok = 0 BY <1>5, <3>2 DEF Backed
      <3> QED BY <2>1, <3>1, <3>2, TallyOrigin
    <2>2. CASE \E s \in Job : Collect(s)
      <3>1. PICK s \in Job : Collect(s) BY <2>2
      <3>2. /\ runner \in Tallies
            /\ \A t \in Tallies' : (t = rbatch /\ t \in Tallies) \/ Same(t, runner')
        BY <3>1, TallyNoted
      <3>3. runner.ok \in Nat /\ Backs(runner.ok) BY <3>2, TallyTyped DEF Backed
      <3>4. runner'.ok + n' <= enrolled'
        <4>1. CASE job[s] = "succeeded"
          <5>1. runner'.ok = runner.ok + 1 BY <3>1, <4>1, CollectTally
          <5>2. UNCHANGED enrolled BY <3>1 DEF Collect, history
          <5>3. job'[s] = "collected" BY <3>1, GotoType DEF Collect, Typed, Stage
          <5>4. \A t \in Job : ~StoreAccount(t)
            <6>1. ASSUME NEW t \in Job, StoreAccount(t) PROVE FALSE
              BY <5>2, <6>1, <1>1 DEF StoreAccount
            <6> QED BY <6>1
          <5>5. Counted' \subseteq Counted \ {s}
            BY <5>3, <5>4, CountedOrigin DEF Counted
          <5>6. s \in Counted BY <4>1 DEF Counted
          <5>7. Cardinality(Counted \ {s}) = n - 1 /\ IsFiniteSet(Counted \ {s})
            BY <1>2, <5>6, FS_RemoveElement
          <5>8. n' <= n - 1 BY <5>5, <5>7, FS_Subset
          <5> QED BY <1>1, <3>3, <5>1, <5>2, <5>8 DEF Backs
        <4>2. CASE job[s] # "succeeded"
          <5>1. runner'.ok = runner.ok BY <3>1, <4>2, CollectTally
          <5> QED BY <1>5, <3>3, <5>1
        <4> QED BY <4>1, <4>2
      <3>5. ASSUME NEW t \in Tallies, t \in Tallies' PROVE t.ok + n' <= enrolled'
        BY <1>5, <3>5, TallyTyped DEF Backed
      <3> QED BY <3>2, <3>4, <3>5 DEF Same
    <2> QED BY <2>1, <2>2
  <1> QED BY <1>6, <1>7 DEF Backed, Backs

-----------------------------------------------------------------------------
(* How a job moves *)

Flying == Busy \cup {"succeeded", "failed"}
Past == {"stored", "probing", "closing", "succeeded", "failed", "collected", "dead"}

LEMMA FlightIs == InFlight = In(Flying) /\ InFlight' = In(Flying)'
  BY DEF InFlight, In, Flying

LEMMA WorkerMoves ==
  ASSUME Typed, NEW s \in Job, Worker(s)
  PROVE  /\ job[s] \in Busy /\ job'[s] \in Flying
         /\ job[s] \in Past => job'[s] \in Past
         /\ \A t \in Job \ {s} : job'[t] = job[t]
  <1>0. JobType BY DEF Typed
  <1>1. \A pc : Goto(s, pc) => job'[s] = pc /\ \A t \in Job \ {s} : job'[t] = job[t]
    BY <1>0 DEF JobType, Goto
  <1>2. CASE Settle(s) \/ Complete(s) \/ Fail(s) \/ Abort(s) \/ Close(s) \/ StoreAccount(s)
    <2>1. PICK pc \in {"stored", "probing", "closing", "succeeded", "failed"} : Goto(s, pc)
      BY <1>2 DEF Settle, Complete, Fail, Abort, Leave, Close, StoreAccount, Return
    <2>2. job[s] \in Busy
      BY <1>2 DEF Settle, Complete, Fail, Abort, Close, StoreAccount, Busy, Work
    <2> QED BY <1>1, <2>1, <2>2 DEF Past, Flying, Busy, Work
  <1>3. CASE Begin(s) \/ NoMailbox(s) \/ Prepare(s) \/ Launch(s) \/ Admit(s) \/ RefuseAdmission(s)
             \/ Advance(s, "started", "registering", "unlisted")
             \/ Advance(s, "registering", "importing", "open")
    <2>1. PICK pc \in {"failed", "mailing", "prepared", "admission", "started", "registering",
                       "importing"} : Goto(s, pc)
      BY <1>3 DEF Begin, NoMailbox, Prepare, Launch, Admit, RefuseAdmission, Advance, Return
    <2>2. job[s] \in Busy \ Past
      BY <1>3 DEF Begin, NoMailbox, Prepare, Launch, Admit, RefuseAdmission, Advance, Busy, Work, Past
    <2> QED BY <1>1, <2>1, <2>2 DEF Flying, Busy, Work
  <1> QED BY <1>2, <1>3 DEF Worker

LEMMA JobMoves ==
  ASSUME Typed, [Next]_vars, NEW t \in Job, job'[t] # job[t]
  PROVE  \/ job[t] \in Busy /\ job'[t] \in Flying /\ (job[t] \in Past => job'[t] \in Past)
         \/ Feed(t) /\ job[t] = "none" /\ job'[t] = "submitted"
         \/ Collect(t) /\ job[t] \in {"succeeded", "failed"} /\ job'[t] = "collected"
         \/ Restart
  <1>0. JobType BY DEF Typed
  <1>1. ASSUME NEW s \in Job, Worker(s)
        PROVE  job[t] \in Busy /\ job'[t] \in Flying /\ (job[t] \in Past => job'[t] \in Past)
    <2>1. s = t BY <1>1, WorkerMoves
    <2> QED BY <1>1, <2>1, WorkerMoves
  <1>2. ASSUME NEW s \in Job, Feed(s)
        PROVE  Feed(t) /\ job[t] = "none" /\ job'[t] = "submitted"
    <2>1. s = t BY <1>0, <1>2 DEF Feed, Goto, JobType
    <2> QED BY <1>0, <1>2, <2>1 DEF Feed, Goto, JobType
  <1>3. ASSUME NEW s \in Job, Collect(s)
        PROVE  Collect(t) /\ job[t] \in {"succeeded", "failed"} /\ job'[t] = "collected"
    <2>1. Goto(s, "collected") /\ job[s] \in {"succeeded", "failed"} BY <1>3 DEF Collect
    <2>2. s = t BY <1>0, <2>1 DEF Goto, JobType
    <2> QED BY <1>0, <1>3, <2>1, <2>2 DEF Goto, JobType
  <1>4. CASE ~(Restart \/ \E s \in Job : Worker(s) \/ Feed(s) \/ Collect(s))
    <2>1. UNCHANGED job
      BY <1>4 DEF Next, StopOne, StopSessions, StopLook, StopMark, GrowQuiet, Runner, FinishBatch,
         ReleaseRunner, Renew, IntervalPasses, StopBatch, StopAgain, StopAll, ResumeBatch, StartBatch, Watchdog,
         WatchdogResumes, WatchdogReclaims, LockExpires, Caller, SpawnRunner, PlanResume, Claim,
         NoSolver, Spawn, vars
    <2> QED BY <2>1
  <1> QED BY <1>1, <1>2, <1>3, <1>4

\* Only what is fed is in flight.
LEMMA FlightOrigin ==
  ASSUME Typed, [Next]_vars
  PROVE  InFlight' \subseteq Job /\ \A t \in InFlight' : t \in InFlight \/ Feed(t)
  <1> SUFFICES ASSUME NEW t \in Job, job'[t] \in Flying, job[t] \notin Flying PROVE Feed(t)
    BY DEF InFlight, Flying
  <1>1. ~Restart
    <2>1. ASSUME Restart PROVE job'[t] \in {"none", "dead"} BY <2>1 DEF Restart
    <2> QED BY <2>1 DEF Flying, Busy, Work
  <1>2. job'[t] # job[t] /\ job'[t] # "collected" BY DEF Flying, Busy, Work
  <1> QED BY <1>1, <1>2, JobMoves DEF Flying

-----------------------------------------------------------------------------
(* What is left to do *)

LEMMA RunnerStep ==
  ASSUME Typed, [Next]_vars
  PROVE  \/ \E s \in Job : Feed(s) \/ Collect(s)
         \/ FinishBatch \/ ReleaseRunner \/ (\E c \in {Admin, Dog} : Spawn(c)) \/ Restart
         \/ UNCHANGED runner
  <1>1. CASE \E s \in Job : Worker(s) \/ StopOne(s) \/ StopLook(s) \/ StopMark(s) \/ GrowQuiet(s)
    BY <1>1 DEF StopOne, StopSessions, StopLook, StopMark, GrowQuiet, Worker, Begin, NoMailbox,
         Prepare, Launch, Admit, RefuseAdmission, Advance, StoreAccount, Settle, Complete, Fail,
         Abort, Leave, Close, spawner
  <1>2. CASE \/ Renew \/ IntervalPasses \/ StopBatch \/ StopAgain \/ StopAll \/ Watchdog \/ LockExpires
             \/ UNCHANGED vars \/ ResumeBatch(TRUE) \/ ResumeBatch(FALSE) \/ StartBatch
             \/ \E c \in {Admin, Dog} : PlanResume(c) \/ Claim(c) \/ NoSolver(c)
    BY <1>2 DEF Renew, IntervalPasses, StopBatch, StopAgain, StopAll, StopSessions, Watchdog, WatchdogResumes,
         WatchdogReclaims, LockExpires, ResumeBatch, StartBatch, PlanResume, Claim, NoSolver, spawner,
         vars
  <1> QED BY <1>1, <1>2 DEF Next, Runner, Caller, SpawnRunner

LEMMA HistoryStep ==
  ASSUME Typed, [Next]_vars
  PROVE  (overlap => overlap') /\ (UNCHANGED restarts \/ (Restart /\ restarts' = restarts + 1))
  <1>1. ASSUME NEW s \in Job, Worker(s) \/ StopOne(s) \/ StopLook(s) \/ StopMark(s) \/ GrowQuiet(s)
        PROVE UNCHANGED <<overlap, restarts>>
    BY <1>1 DEF StopOne, StopSessions, StopLook, StopMark, GrowQuiet, Worker, Begin, NoMailbox,
         Prepare, Launch, Admit, RefuseAdmission, Advance, StoreAccount, Settle, Complete, Fail,
         Abort, Leave, Close, history
  <1>2. CASE \/ Runner \/ Renew \/ IntervalPasses \/ StopBatch \/ StopAgain \/ StopAll \/ Watchdog \/ LockExpires
             \/ UNCHANGED vars \/ ResumeBatch(TRUE) \/ ResumeBatch(FALSE) \/ StartBatch
             \/ \E c \in {Admin, Dog} : PlanResume(c) \/ Claim(c) \/ NoSolver(c)
    <2>1. UNCHANGED <<overlap, restarts>>
      BY <1>2 DEF Runner, Feed, Collect, FinishBatch, ReleaseRunner, Renew, IntervalPasses,
         StopBatch, StopAgain, StopAll, StopSessions, ResumeBatch, StartBatch, Watchdog, WatchdogResumes,
         WatchdogReclaims, LockExpires, PlanResume, Claim, NoSolver, history, vars
    <2> QED BY <2>1
  <1>3. ASSUME NEW c \in {Admin, Dog}, Spawn(c)
        PROVE (overlap => overlap') /\ UNCHANGED restarts
    <2>1. overlap' = (overlap \/ call[c].left > Remaining(batch)) BY <1>3 DEF Spawn
    <2>2. overlap => overlap' BY <2>1, Zenon
    <2>3. UNCHANGED restarts BY <1>3 DEF Spawn
    <2> QED BY <2>2, <2>3
  <1>4. CASE Restart
    <2>1. overlap' = overlap /\ restarts' = restarts + 1 BY <1>4 DEF Restart
    <2> QED BY <1>4, <2>1
  <1> QED BY <1>1, <1>2, <1>3, <1>4 DEF Next, Caller, SpawnRunner

\* A runner leaves nothing in the pool.
Drained == runner.pc # "feeding" => InFlight = {}

LEMMA DrainedStep == Typed /\ Drained /\ [Next]_vars => Drained'
  <1> SUFFICES ASSUME Typed, Drained, [Next]_vars, runner'.pc # "feeding" PROVE InFlight' = {}
    BY DEF Drained
  <1>0. RunnerType BY DEF Typed
  <1>1. \A s \in Job : ~Feed(s) BY <1>0 DEF Feed, RunnerType
  <1>2. InFlight' \subseteq InFlight BY <1>1, FlightOrigin
  <1>3. CASE Restart
    <2>1. \A s \in Job : job'[s] \in {"none", "dead"} BY <1>3 DEF Restart
    <2> QED BY <2>1 DEF InFlight, Busy, Work
  <1>4. CASE FinishBatch BY <1>2, <1>4 DEF FinishBatch
  <1>5. CASE runner.pc # "feeding" BY <1>2, <1>5 DEF Drained
  <1>6. CASE \E s \in Job : Collect(s) BY <1>6, CollectTally
  <1>7. CASE ReleaseRunner BY <1>5, <1>7 DEF ReleaseRunner
  <1>8. CASE UNCHANGED runner BY <1>5, <1>8
  <1>9. CASE \E c \in {Admin, Dog} : Spawn(c) BY <1>9 DEF Spawn
  <1> QED BY <1>1, <1>3, <1>4, <1>6, <1>7, <1>8, <1>9, RunnerStep

LEMMA RemainingBound ==
  ASSUME NEW b \in BatchRecord, b.fin <= Count
  PROVE  b.fin + Remaining(b) <= Count /\ Remaining(b) \in Nat
  <1> DEFINE E == {s \in b.ids : sess[s].st \in Terminal}
  <1>1. b.ids \subseteq Job /\ b.fin \in Nat BY DEF BatchRecord
  <1>2. Cardinality(E) \in Nat BY <1>1, JobFinite, FS_Subset, FS_CardinalityType
  <1> QED BY <1>1, <1>2, BoundAssumption DEF Remaining

Limited ==
    ~overlap =>
      /\ \A t \in Tallies : t.fin <= Count
      /\ runner.pc = "feeding" => runner.fin + Cardinality(InFlight) + runner.todo <= Count

LEMMA LimitedStep == Typed /\ Spawners /\ Drained /\ Limited /\ [Next]_vars => Limited'
  <1> SUFFICES ASSUME Typed, Spawners, Drained, Limited, [Next]_vars, ~overlap'
               PROVE  /\ \A t \in Tallies' : t.fin <= Count
                      /\ runner'.pc = "feeding" =>
                           runner'.fin + Cardinality(InFlight)' + runner'.todo <= Count
    BY DEF Limited
  <1> DEFINE n == Cardinality(InFlight)
  <1>0. RunnerType /\ JobType BY DEF Typed
  <1>1. ~overlap BY HistoryStep
  <1>2. /\ \A t \in Tallies : t.fin <= Count
        /\ runner.pc = "feeding" => runner.fin + n + runner.todo <= Count
    BY <1>1 DEF Limited
  <1>3. IsFiniteSet(InFlight) /\ n \in Nat BY FlightIs, InFinite
  <1>4. n' \in Nat BY FlightOrigin, JobFinite, FS_Subset, FS_CardinalityType
  <1>5. (\A s \in Job : ~Feed(s)) => n' <= n
    BY <1>3, FlightOrigin, FS_Subset
  <1>6. runner.fin \in Nat /\ runner.todo \in Nat /\ Count \in Nat
    BY <1>0, BoundAssumption DEF RunnerType
  <1> HIDE DEF n
  <1>7. ASSUME NEW s \in Job, Collect(s)
        PROVE  runner.pc = "feeding" /\ n >= 1 /\ n' = n - 1 /\ runner'.fin = runner.fin + 1
               /\ runner'.todo = runner.todo
    <2>1. job[s] \in Flying /\ "collected" \notin Flying /\ "collected" \in Stage
          /\ Goto(s, "collected")
      BY <1>7 DEF Collect, Flying, Busy, Work, Stage
    <2>2. n' = n - 1 BY <1>0, <2>1, Moves, FlightIs DEF n
    <2> QED BY <1>3, <1>4, <1>7, <2>2, CollectTally
  <1>8. \A t \in Tallies' : t.fin <= Count
    <2>1. CASE \E s \in Job : Collect(s)
      <3>1. PICK s \in Job : Collect(s) BY <2>1
      <3>2. runner'.fin <= Count BY <1>2, <1>3, <1>6, <1>7, <3>1
      <3>3. \A t \in Tallies' : (t = rbatch /\ t \in Tallies) \/ Same(t, runner')
        BY <3>1, TallyNoted
      <3> QED BY <1>2, <3>2, <3>3 DEF Same
    <2>2. CASE ~ \E s \in Job : Collect(s)
      BY <1>2, <1>6, <2>2, TallyOrigin DEF Same
    <2> QED BY <2>1, <2>2
  <1>9. ASSUME runner'.pc = "feeding" PROVE runner'.fin + n' + runner'.todo <= Count
    <2>1. CASE \E s \in Job : Feed(s)
      <3>1. PICK s \in Job : Feed(s) BY <2>1
      <3>2. job[s] \notin Flying /\ "submitted" \in Flying /\ "submitted" \in Stage
            /\ Goto(s, "submitted")
        BY <3>1 DEF Feed, Flying, Busy, Work, Stage
      <3>3. n' = n + 1 BY <1>0, <3>2, Moves, FlightIs DEF n
      <3>4. runner.pc = "feeding" /\ runner'.fin = runner.fin /\ runner'.todo = runner.todo - 1
        BY <1>0, <3>1 DEF Feed, RunnerType
      <3> QED BY <1>2, <1>3, <1>6, <3>3, <3>4
    <2>2. CASE \E s \in Job : Collect(s)
      <3>1. PICK s \in Job : Collect(s) BY <2>2
      <3> QED BY <1>2, <1>3, <1>6, <1>7, <3>1
    <2>3. CASE FinishBatch BY <1>9, <2>3, FinishTally
    <2>4. CASE ReleaseRunner \/ Restart BY <1>9, <2>4 DEF ReleaseRunner, Restart, NoRunner
    <2>5. CASE \E c \in {Admin, Dog} : Spawn(c)
      <3>1. PICK c \in {Admin, Dog} : Spawn(c) BY <2>5
      <3>2. batch # NoBatch /\ batch \in BatchRecord
        BY <3>1 DEF Spawn, Typed, Present, BatchType
      <3>3. batch.fin <= Count BY <1>2, <3>2 DEF Tallies
      <3>4. runner.pc # "feeding" BY <3>1 DEF Spawn, Spawners
      <3>5. n = 0 BY <3>4, FS_EmptySet DEF Drained, n
      <3>6. n' <= n
        <4>1. \A s \in Job : ~Feed(s) BY <3>4 DEF Feed
        <4> QED BY <1>5, <4>1
      <3>7. runner'.fin = batch.fin /\ runner'.todo = call[c].left /\ ~(call[c].left > Remaining(batch))
        BY <3>1 DEF Spawn
      <3>8. call[c].left \in Nat BY BoundAssumption DEF Typed, CallType, CallRecord
      <3> QED BY <1>4, <1>6, <3>2, <3>3, <3>5, <3>6, <3>7, <3>8, RemainingBound DEF BatchRecord
    <2>6. CASE UNCHANGED runner /\ \A s \in Job : ~Feed(s)
      BY <1>2, <1>3, <1>4, <1>5, <1>6, <1>9, <2>6
    <2> QED BY <2>1, <2>2, <2>3, <2>4, <2>5, <2>6, RunnerStep
  <1> QED BY <1>8, <1>9 DEF n

-----------------------------------------------------------------------------
(* A process that has not been restarted knows all its jobs *)

Memory == ({batch} \ {NoBatch}) \cup {r \in {runner} : r.pc # "none"}

Remembered ==
    restarts = 0 =>
      /\ In({"dead"}) = {}
      /\ batch = NoBatch => rbatch = NoBatch /\ In({"collected"}) = {}
      /\ \A t \in Memory : Cardinality(In({"collected"})) <= t.fin

LEMMA MemoryOrigin ==
  ASSUME Typed, [Next]_vars, ~Restart, ~ \E s \in Job : Collect(s), batch = NoBatch => rbatch = NoBatch
  PROVE  /\ \A t \in Memory' : (\E u \in Memory : Same(t, u)) \/ (batch = NoBatch /\ t.fin = 0)
         /\ batch' = NoBatch => batch = NoBatch /\ rbatch' = NoBatch
  <1>0. \A u : Same(u, u) BY DEF Same
  <1>1. CASE Quiet
    <2>1. TallyKept BY <1>1, QuietTally
    <2>2. runner'.pc # "none" =>
           \/ runner.pc # "none" /\ Same(runner', runner)
           \/ batch # NoBatch /\ Same(runner', batch)
      BY <1>1, RunnerTally
    <2>3. \A t \in Memory' : (t = batch' /\ batch' # NoBatch) \/ (t = runner' /\ runner'.pc # "none")
      BY DEF Memory
    <2>4. batch' # NoBatch => batch # NoBatch /\ Same(batch', batch) BY <2>1 DEF TallyKept
    <2>5. batch # NoBatch => batch \in Memory BY DEF Memory
    <2>6. runner.pc # "none" => runner \in Memory BY DEF Memory
    <2>7. \A t \in Memory' : \E u \in Memory : Same(t, u) BY <2>2, <2>3, <2>4, <2>5, <2>6
    <2>8. batch' = NoBatch => batch = NoBatch /\ rbatch' = NoBatch BY <2>1 DEF TallyKept
    <2> QED BY <2>7, <2>8
  <1>2. CASE FinishBatch
    <2>1. /\ Same(batch', runner) /\ Same(runner', runner) /\ batch' # NoBatch /\ runner.pc # "none"
      BY <1>2, FinishTally
    <2> QED BY <2>1 DEF Memory
  <1>3. CASE StartBatch
    <2>1. batch = NoBatch /\ batch' # NoBatch /\ batch'.fin = 0 BY <1>3, StartTally
    <2>2. runner' = runner BY <1>3 DEF StartBatch
    <2> QED BY <1>0, <2>1, <2>2 DEF Memory
  <1> QED BY <1>1, <1>2, <1>3 DEF Next, Quiet, Runner

LEMMA RememberedStep == Typed /\ Remembered /\ [Next]_vars => Remembered'
  <1> SUFFICES ASSUME Typed, Remembered, [Next]_vars, restarts' = 0
               PROVE  /\ In({"dead"})' = {}
                      /\ batch' = NoBatch => rbatch' = NoBatch /\ In({"collected"})' = {}
                      /\ \A t \in Memory' : Cardinality(In({"collected"}))' <= t.fin
    BY DEF Remembered
  <1> DEFINE C == In({"collected"})
  <1>1. ~Restart /\ restarts = 0
    <2>1. restarts \in Nat BY BoundAssumption DEF Typed, RestType
    <2>2. ~Restart BY <2>1 DEF Restart
    <2> QED BY <2>2, HistoryStep
  <1>2. /\ In({"dead"}) = {} /\ (batch = NoBatch => rbatch = NoBatch /\ C = {})
        /\ \A t \in Memory : Cardinality(C) <= t.fin
    BY <1>1 DEF Remembered
  <1>3. In({"dead"})' = {}
    <2>1. ASSUME NEW t \in Job, job'[t] = "dead" PROVE FALSE
      <3>1. job[t] # "dead" BY <1>2 DEF In
      <3>2. "dead" \notin Flying BY DEF Flying, Busy, Work
      <3> QED BY <1>1, <2>1, <3>1, <3>2, JobMoves
    <2> QED BY <2>1 DEF In
  <1>4. Cardinality(C) \in Nat /\ IsFiniteSet(C) BY InFinite
  <1>5. CASE \E s \in Job : Collect(s)
    <2>1. PICK s \in Job : Collect(s) BY <1>5
    <2>2. job[s] \notin {"collected"} /\ "collected" \in Stage /\ Goto(s, "collected")
      BY <2>1 DEF Collect, Stage
    <2>3. Cardinality(C)' = Cardinality(C) + 1 BY <2>2, Moves DEF Typed
    <2>4. /\ batch' # NoBatch /\ Same(batch', runner') /\ runner.pc = "feeding"
          /\ runner'.fin = runner.fin + 1
      BY <2>1, CollectTally
    <2>5. Cardinality(C) <= runner.fin BY <1>2, <2>4 DEF Memory
    <2>6. runner.fin \in Nat BY DEF Typed, RunnerType
    <2>7. Cardinality(C)' <= runner'.fin BY <1>4, <2>3, <2>4, <2>5, <2>6
    <2>8. \A t \in Memory' : t = batch' \/ t = runner' BY DEF Memory
    <2>9. batch'.fin = runner'.fin BY <2>4 DEF Same
    <2> QED BY <1>3, <2>4, <2>7, <2>8, <2>9
  <1>6. CASE ~ \E s \in Job : Collect(s)
    <2>1. C' = C
      <3>1. ASSUME NEW t \in Job PROVE job'[t] = "collected" <=> job[t] = "collected"
        <4>1. "collected" \notin Flying /\ "collected" \notin Busy BY DEF Flying, Busy, Work
        <4> QED BY <1>1, <1>6, <4>1, JobMoves
      <3> QED BY <3>1 DEF In
    <2>2. /\ \A t \in Memory' : (\E u \in Memory : Same(t, u)) \/ (batch = NoBatch /\ t.fin = 0)
          /\ batch' = NoBatch => batch = NoBatch /\ rbatch' = NoBatch
      BY <1>1, <1>2, <1>6, MemoryOrigin
    <2>3. ASSUME NEW t \in Memory' PROVE Cardinality(C)' <= t.fin
      <3>1. CASE \E u \in Memory : Same(t, u) BY <1>2, <2>1, <3>1 DEF Same
      <3>2. CASE batch = NoBatch /\ t.fin = 0
        <4>1. Cardinality(C) = 0 BY <1>2, <3>2, FS_EmptySet
        <4> QED BY <2>1, <3>2, <4>1
      <3> QED BY <2>2, <3>1, <3>2
    <2> QED BY <1>2, <1>3, <2>1, <2>2, <2>3
  <1> QED BY <1>5, <1>6

-----------------------------------------------------------------------------
(* An account is of a job *)

Owned == enrolled <= Cardinality(In(Past))

LEMMA PastStays ==
  ASSUME Typed, [Next]_vars
  PROVE  In(Past) \subseteq In(Past)' /\ In(Past)' \subseteq Job
  <1> SUFFICES ASSUME NEW t \in Job, job[t] \in Past, job'[t] # job[t] PROVE job'[t] \in Past
    BY DEF In
  <1>1. CASE Restart BY <1>1 DEF Restart, Past
  <1>2. CASE ~Restart BY <1>2, JobMoves DEF Past
  <1> QED BY <1>1, <1>2

LEMMA OwnedStep == Typed /\ Owned /\ [Next]_vars => Owned'
  <1> SUFFICES ASSUME Typed, Owned, [Next]_vars PROVE enrolled' <= Cardinality(In(Past)')
    BY DEF Owned
  <1> DEFINE n == Cardinality(In(Past))
  <1>1. IsFiniteSet(In(Past)) /\ n \in Nat BY InFinite
  <1>2. IsFiniteSet(In(Past)') /\ n' \in Nat /\ n <= n'
    <2>1. IsFiniteSet(In(Past)') BY PastStays, JobFinite, FS_Subset
    <2> QED BY <2>1, PastStays, FS_Subset, FS_CardinalityType
  <1>3. enrolled \in Nat /\ enrolled <= n BY DEF Owned, Typed, RestType
  <1>4. CASE UNCHANGED enrolled BY <1>1, <1>2, <1>3, <1>4
  <1>5. CASE \E s \in Job : StoreAccount(s)
    <2>1. PICK s \in Job : StoreAccount(s) BY <1>5
    <2>2. job[s] \notin Past /\ "stored" \in Past /\ "stored" \in Stage /\ Goto(s, "stored")
      BY <2>1 DEF StoreAccount, Past, Stage, Busy, Work
    <2>3. n' = n + 1 BY <2>2, Moves DEF Typed
    <2>4. enrolled' = enrolled + 1 BY <2>1 DEF StoreAccount
    <2> QED BY <1>1, <1>3, <2>3, <2>4
  <1> QED BY <1>4, <1>5, EnrolledStep

-----------------------------------------------------------------------------
(* Theorems *)

IInv ==
    /\ Typed /\ PermitsConserved /\ Spawners /\ Sums /\ Backed
    /\ Drained /\ Limited /\ Remembered /\ Owned

LEMMA InitIInv == Init => IInv
  <1> SUFFICES ASSUME Init PROVE IInv OBVIOUS
  <1>1. Typed BY InitTyped
  <1>2. \A stages : "none" \notin stages => In(stages) = {} BY DEF Init, In
  <1>3. Tallies = {} BY DEF Init, Tallies, NoRunner
  <1>4. Cardinality({}) = 0 BY FS_EmptySet
  <1>5. PermitsConserved
    <2>1. {s \in Job : job[s] \in Holding} = {} BY DEF Init, Holding
    <2>2. Cardinality({s \in Job : job[s] \in Holding}) = 0 BY <1>4, <2>1
    <2>3. permits = Permits /\ Permits \in Nat BY BoundAssumption DEF Init
    <2> QED BY <2>2, <2>3 DEF PermitsConserved
  <1>6. Spawners BY IdleType DEF Init, Spawners, NoRunner
  <1>7. Backed
    <2>1. Counted = {} BY DEF Init, Counted
    <2> QED BY <1>3, <1>4, <2>1 DEF Backed, Backs, Init
  <1>8. Drained BY DEF Init, Drained, InFlight, Busy, Work
  <1>9. Limited BY <1>3 DEF Init, Limited, NoRunner
  <1>10. Remembered
    <2>1. Memory = {} BY DEF Init, Memory, NoRunner
    <2>2. In({"dead"}) = {} /\ In({"collected"}) = {} BY <1>2
    <2> QED BY <2>1, <2>2 DEF Init, Remembered
  <1>11. Owned
    <2>1. In(Past) = {} BY <1>2 DEF Past
    <2> QED BY <1>4, <2>1 DEF Owned, Init
  <1>12. Sums BY <1>3 DEF Sums
  <1> QED BY <1>1, <1>5, <1>6, <1>7, <1>8, <1>9, <1>10, <1>11, <1>12 DEF IInv

LEMMA StepIInv == IInv /\ [Next]_vars => IInv'
  BY StepTyped, PermitsStep, SpawnersStep, SumsStep, BackedStep, DrainedStep, LimitedStep,
     RememberedStep, OwnedStep
  DEF IInv

LEMMA Invariant == Spec => []IInv
  BY InitIInv, StepIInv, PTL DEF Spec

\* The type of every variable, with the bounds that count: never more slots
\* than there are, never more accounts in the pool than jobs that ran.
THEOREM TypeCorrect == Spec => []TypeOK
  <1>1. IInv => TypeOK
    <2> SUFFICES ASSUME IInv PROVE TypeOK OBVIOUS
    <2>1. permits \in 0 .. Permits
      <3>1. {s \in Job : job[s] \in Holding} = In(Holding) BY DEF In
      <3>2. Cardinality(In(Holding)) \in Nat BY InFinite
      <3>3. permits + Cardinality(In(Holding)) = Permits BY <3>1 DEF IInv, PermitsConserved
      <3>4. permits \in Nat BY DEF IInv, Typed, RestType
      <3> QED BY <3>2, <3>3, <3>4, BoundAssumption
    <2>2. enrolled \in 0 .. MaxJob
      <3>1. Cardinality(In(Past)) \in Nat /\ Cardinality(In(Past)) <= MaxJob
        BY InFinite, JobFinite, FS_Subset
      <3> QED BY <3>1, BoundAssumption DEF IInv, Owned, Typed, RestType
    <2>3. Typed BY DEF IInv
    <2> QED BY <2>1, <2>2, <2>3 DEF TypeOK, Typed, SessType, JobType, BatchType, RunnerType,
           CallType, CallRecord, RestType, Status, Stage
  <1> QED BY <1>1, Invariant, PTL

\* Every job that was admitted gives its slot back exactly once, on whichever
\* of its ways out, for any number of jobs, threads, stops and restarts.
THEOREM PermitsComeBack == Spec => []PermitsConserved
  <1>1. IInv => PermitsConserved BY DEF IInv
  <1> QED BY <1>1, Invariant, PTL

\* The claim of the runner is exclusive: of a request and the watchdog that
\* resume at a time one at most is past it, and none while a runner works.
THEOREM OneSpawnerAtATime == Spec => []OneSpawner
  <1>1. IInv => OneSpawner
    <2> SUFFICES ASSUME Spawners PROVE OneSpawner BY DEF IInv
    <2> DEFINE A == {c \in {Admin, Dog} : call[c].pc = "solver"}
               B == {r \in {"runner"} : runner.pc # "none"}
    <2>1. Cardinality({}) = 0 /\ \A x : Cardinality({x}) = 1
      BY FS_EmptySet, FS_Singleton
    <2>2. CASE ~claim /\ runner.pc = "none" /\ \A c \in {Admin, Dog} : call[c].pc # "solver"
      <3>1. A \cup B = {} BY <2>2
      <3> QED BY <2>1, <2>2, <3>1 DEF OneSpawner
    <2>3. CASE claim /\ runner.pc # "none" /\ \A c \in {Admin, Dog} : call[c].pc # "solver"
      <3>1. A \cup B = {"runner"} BY <2>3
      <3> QED BY <2>1, <2>3, <3>1 DEF OneSpawner
    <2>4. CASE /\ claim /\ runner.pc = "none"
               /\ \E c \in {Admin, Dog} : /\ call[c].pc = "solver"
                                           /\ \A d \in {Admin, Dog} \ {c} : call[d].pc # "solver"
      <3>1. PICK c \in {Admin, Dog} : /\ call[c].pc = "solver"
                                       /\ \A d \in {Admin, Dog} \ {c} : call[d].pc # "solver"
        BY <2>4
      <3>2. A \cup B = {c} BY <2>4, <3>1
      <3> QED BY <2>1, <2>4, <3>2 DEF OneSpawner
    <2> QED BY <2>2, <2>3, <2>4 DEF Spawners
  <1> QED BY <1>1, Invariant, PTL

\* Neither copy of the batch ever shows a success without an account in the
\* pool, however stale the copy in Redis is when a new process goes on from it.
THEOREM SuccessesAreInPool == Spec => []NoPhantomSuccess
  <1>1. IInv => NoPhantomSuccess
    <2> SUFFICES ASSUME IInv, NEW b \in {batch, rbatch} \ {NoBatch} PROVE b.ok <= enrolled
      BY DEF NoPhantomSuccess
    <2>1. b \in Tallies BY DEF Tallies
    <2>2. b.ok \in Nat /\ enrolled \in Nat
      BY <2>1, TallyTyped DEF IInv, Typed, RestType
    <2>3. b.ok + Cardinality(Counted) <= enrolled BY <2>1 DEF IInv, Backed, Backs
    <2> QED BY <2>2, <2>3, CountedFinite
  <1> QED BY <1>1, Invariant, PTL

\* Both copies tell a sum that agrees, and a runner whose count of what was
\* left was right has never more on its hands than that.
THEOREM CountsAgree == Spec => []CountersAgree
  <1>1. IInv => CountersAgree BY DEF IInv, CountersAgree, Sums, Tallies, Limited
  <1> QED BY <1>1, Invariant, PTL

\* While the process lives, no stop and no resume makes it submit more
\* registrations than were asked for, unless two runners overlapped.
THEOREM OrderKept == Spec => []OrderNotExceeded
  <1>1. IInv => OrderNotExceeded
    <2> SUFFICES ASSUME IInv, restarts = 0, ~overlap
                 PROVE  Cardinality({s \in Job : job[s] # "none"}) <= Count
      BY DEF OrderNotExceeded
    <2> DEFINE C == In({"collected"})
    <2>1. /\ In({"dead"}) = {} /\ (batch = NoBatch => C = {})
          /\ \A t \in Memory : Cardinality(C) <= t.fin
      BY DEF IInv, Remembered
    <2>2. {s \in Job : job[s] # "none"} = InFlight \cup C
      <3>1. ASSUME NEW s \in Job PROVE job[s] # "none" <=> s \in InFlight \cup C
        <4>1. job[s] \in Stage /\ job[s] # "dead" BY <2>1 DEF IInv, Typed, JobType, In
        <4> QED BY <4>1 DEF Stage, InFlight, In, Busy, Work
      <3>2. InFlight \cup C \subseteq Job BY DEF InFlight, In
      <3> QED BY <3>1, <3>2
    <2>3. /\ IsFiniteSet(C) /\ IsFiniteSet(InFlight)
          /\ Cardinality(C) \in Nat /\ Cardinality(InFlight) \in Nat
      BY InFinite, FlightIs
    <2>4. Cardinality(InFlight \cup C) <= Cardinality(InFlight) + Cardinality(C)
      <3>1. Cardinality(InFlight \cap C) \in Nat
        BY <2>3, FS_Intersection, FS_CardinalityType
      <3>2. Cardinality(InFlight \cup C)
              = Cardinality(InFlight) + Cardinality(C) - Cardinality(InFlight \cap C)
        BY <2>3, FS_Union
      <3> QED BY <2>3, <3>1, <3>2
    <2>5. Count \in Nat /\ Cardinality(InFlight \cup C) \in Nat
      BY <2>3, BoundAssumption, FS_Union, FS_CardinalityType
    <2>6. CASE runner.pc = "feeding"
      <3>1. Cardinality(C) <= runner.fin BY <2>1, <2>6 DEF Memory
      <3>2. runner.fin + Cardinality(InFlight) + runner.todo <= Count
        BY <2>6 DEF IInv, Limited
      <3>3. runner.fin \in Nat /\ runner.todo \in Nat
        BY BoundAssumption DEF IInv, Typed, RunnerType
      <3>4. Cardinality(InFlight \cup C) <= Count BY <2>3, <2>4, <2>5, <3>1, <3>2, <3>3
      <3> QED BY <2>2, <3>4
    <2>7. CASE runner.pc # "feeding"
      <3>1. InFlight = {} BY <2>7 DEF IInv, Drained
      <3>2. Cardinality(InFlight \cup C) = Cardinality(C) BY <3>1
      <3>3. CASE batch = NoBatch
        <4>1. Cardinality(C) = 0 BY <2>1, <3>3, FS_EmptySet
        <4> QED BY <2>2, <2>5, <3>2, <4>1
      <3>4. CASE batch # NoBatch
        <4>1. Cardinality(C) <= batch.fin BY <2>1, <3>4 DEF Memory
        <4>2. batch.fin <= Count BY <3>4 DEF IInv, Limited, Tallies
        <4>3. batch.fin \in Nat BY <3>4 DEF IInv, Typed, BatchType, BatchRecord
        <4> QED BY <2>2, <2>3, <2>5, <3>2, <4>1, <4>2, <4>3
      <3> QED BY <3>3, <3>4
    <2> QED BY <2>6, <2>7
  <1> QED BY <1>1, Invariant, PTL

=============================================================================
