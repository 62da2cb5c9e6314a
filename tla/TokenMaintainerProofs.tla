----------------------- MODULE TokenMaintainerProofs -----------------------
(***************************************************************************)
(* Theorems about TokenMaintainer: where only the lock separates refreshes *)
(* and nothing was lost, no login is forgotten or condemned by mistake.    *)
(*                                                                         *)
(* LoginKept is not inductive: it does not say that the token a refresh    *)
(* is about to ask with is still the row's, nor whose the tokens are.      *)
(* Separate says that no two users share a token, Serial that one refresh  *)
(* at most is under way for a user that is not disturbed, and JobKept what *)
(* the user's rows and the provider hold at each stage of it.              *)
(***************************************************************************)
EXTENDS TokenMaintainer, TLAPS

Labels == {"none", "queued", "failed"} \cup Unread \cup Rejected \cup Accepted
Job == [pc : Labels, rt : Token \cup {0}, new : Token \cup {0}, sso : BOOLEAN]
Hot(r, a) == job[r][a].pc \notin {"none"} \cup Unread

\* What a job may be: it knows the tokens that its stage needs.
Sensible(j) ==
    /\ j \in Job
    /\ j.pc \notin {"none"} \cup Unread => j.rt \in Token
    /\ j.pc \in Accepted => j.new \in Token

RowsTyped == row \in [Account -> Row \cup {NoRow}]
TokensTyped == token \in [Token -> {"unissued", "live", "rotated", "revoked"}]
LockTyped == lock \in Cycle \cup {Nobody} /\ locked \subseteq {lock} \cap Cycle
PhaseTyped == phase \in [Runner -> {"absent", "idle", "locking", "listing", "working"}]
JobsTyped ==
    /\ job \in [Runner -> [Account -> Job]]
    /\ \A r \in Runner, a \in Account :
           Sensible(job[r][a]) /\ (Active(r, a) => phase[r] = "working")
CountsTyped ==
    /\ fails \in [Account -> 0 .. MaxFails] /\ faults \in 0 .. MaxFaults
    /\ ended \subseteq Runner /\ disturbed \subseteq Account

TypeOK ==
    /\ RowsTyped /\ TokensTyped /\ LockTyped /\ PhaseTyped /\ JobsTyped /\ CountsTyped

-----------------------------------------------------------------------------
(* Types *)

LEMMA NoJobIs == Sensible(NoJob) /\ NoJob.pc = "none"
  BY DEF Sensible, NoJob, Job, Labels, Accepted, Rejected, Unread

LEMMA RowIs ==
  ASSUME RowsTyped, NEW a \in Account, Stored(a)
  PROVE  row[a] \in Row /\ row[a].rt \in Token
  <1>1. row[a] \in Row BY DEF RowsTyped, Stored
  <1> QED BY <1>1 DEF Row

LEMMA CanonicalIs ==
  ASSUME NEW a \in Account
  PROVE  /\ Canonical[a] \in Account /\ Canonical[Canonical[a]] = Canonical[a]
         /\ a \in SameUser(a) /\ Canonical[a] \in SameUser(a)
         /\ \A b \in SameUser(a) : b \in Account /\ Canonical[b] = Canonical[a]
                                   /\ SameUser(b) = SameUser(a)
  BY CanonicalAssumption DEF SameUser

\* One job changes.
LEMMA JobIs ==
  ASSUME JobsTyped, NEW r \in Runner, NEW a \in Account, NEW j, SetJob(r, a, j)
  PROVE  /\ job'[r][a] = j
         /\ \A q \in Runner, b \in Account : <<q, b>> # <<r, a>> => job'[q][b] = job[q][b]
  BY DEF JobsTyped, SetJob

LEMMA JobTyped ==
  ASSUME JobsTyped, NEW r \in Runner, NEW a \in Account, NEW j, SetJob(r, a, j),
         Sensible(j), j.pc = "none" \/ phase[r] = "working", UNCHANGED phase
  PROVE  JobsTyped'
  <1>1. j \in Job BY DEF Sensible
  <1>2. job' \in [Runner -> [Account -> Job]] BY <1>1 DEF JobsTyped, SetJob
  <1>3. ASSUME NEW q \in Runner, NEW b \in Account
        PROVE  Sensible(job'[q][b]) /\ (job'[q][b].pc # "none" => phase'[q] = "working")
    <2>1. CASE q = r /\ b = a BY <2>1, JobIs
    <2>2. CASE ~(q = r /\ b = a)
      <3>1. job'[q][b] = job[q][b] BY <2>2, JobIs
      <3> QED BY <3>1 DEF JobsTyped, Active
    <2> QED BY <2>1, <2>2
  <1> QED BY <1>2, <1>3 DEF JobsTyped, Active

\* A label that knows no more tokens.
LEMMA GotoTyped ==
  ASSUME JobsTyped, NEW r \in Runner, NEW a \in Account, NEW label \in Labels,
         Goto(r, a, label), Hot(r, a), UNCHANGED phase,
         label \in Accepted => job[r][a].pc \in Accepted
  PROVE  JobsTyped'
  <1> DEFINE j == [job[r][a] EXCEPT !.pc = label]
  <1>1. Sensible(job[r][a]) /\ phase[r] = "working" BY DEF JobsTyped, Active, Hot
  <1>2. Sensible(j) BY <1>1 DEF Sensible, Job, Hot
  <1>3. SetJob(r, a, j) BY DEF Goto
  <1> QED BY <1>1, <1>2, <1>3, JobTyped

LEMMA FinishTyped ==
  ASSUME JobsTyped, NEW r \in Runner, NEW a \in Account, Finish(r, a), UNCHANGED phase
  PROVE  JobsTyped'
  BY NoJobIs, JobTyped DEF Finish

LEMMA QueuedIs ==
  ASSUME RowsTyped, NEW a \in Account, Stored(a)
  PROVE  /\ Sensible(Queued(a)) /\ Queued(a).pc = "queued" /\ Queued(a).rt = row[a].rt
         /\ Queued(a).new = 0
  <1>1. row[a] \in Row /\ row[a].rt \in Token BY RowIs
  <1>2. Queued(a) \in Job BY <1>1 DEF Queued, Job, Row, Labels
  <1> QED BY <1>1, <1>2 DEF Queued, Sensible, Accepted

\* What the provider's answers and the merge leave in a job.
LEMMA AcceptedIs ==
  ASSUME JobsTyped, NEW r \in Runner, NEW a \in Account, AskAccepted(r, a)
  PROVE  /\ job[r][a].pc = "queued" /\ job[r][a].rt \in Token /\ token[job[r][a].rt] = "live"
         /\ RefreshFrame /\ UNCHANGED disturbed /\ NoFault
         /\ \E j : /\ SetJob(r, a, j) /\ Sensible(j) /\ j.pc = "accepted" /\ j.rt = job[r][a].rt
                   /\ \/ Fresh(j.new) /\ token' = [token EXCEPT ![j.rt] = "rotated", ![j.new] = "live"]
                      \/ j.new = j.rt /\ UNCHANGED token
  <1> DEFINE j(t) == [job[r][a] EXCEPT !.pc = "accepted", !.new = t]
  <1>1. job[r][a] \in Job /\ Sensible(job[r][a]) BY DEF JobsTyped
  <1>2. /\ job[r][a].pc = "queued" /\ token[job[r][a].rt] = "live"
        /\ RefreshFrame /\ UNCHANGED disturbed /\ NoFault
    BY DEF AskAccepted, Works
  <1>3. job[r][a].rt \in Token BY <1>1, <1>2 DEF Sensible, Unread
  <1>4. \A t \in Token : /\ j(t) \in Job /\ j(t).pc = "accepted" /\ j(t).rt = job[r][a].rt
                          /\ j(t).new = t
    BY <1>1 DEF Job, Labels, Accepted
  <1>5. \A t \in Token : Sensible(j(t)) BY <1>3, <1>4 DEF Sensible
  <1>6. \E t \in Token : /\ SetJob(r, a, j(t))
                          /\ \/ Fresh(t) /\ token' = [token EXCEPT ![job[r][a].rt] = "rotated", ![t] = "live"]
                             \/ t = job[r][a].rt /\ UNCHANGED token
    BY <1>3 DEF AskAccepted
  <1>7. PICK t \in Token : /\ SetJob(r, a, j(t))
                           /\ \/ Fresh(t) /\ token' = [token EXCEPT ![job[r][a].rt] = "rotated", ![t] = "live"]
                              \/ t = job[r][a].rt /\ UNCHANGED token
    BY <1>6
  <1> HIDE DEF j
  <1> QED BY <1>2, <1>3, <1>4, <1>5, <1>7

LEMMA MergedIs ==
  ASSUME JobsTyped, NEW r \in Runner, NEW a \in Account, UpsertRead(r, a)
  PROVE  /\ job[r][a].pc = "accepted" /\ WriteFrame /\ UNCHANGED <<row, fails, disturbed>>
         /\ NoFault \/ Fault
         /\ \E j : /\ SetJob(r, a, j) /\ Sensible(j) /\ j.pc = "merged"
                   /\ j.rt = job[r][a].rt /\ j.new = job[r][a].new
  <1> DEFINE j(s) == [job[r][a] EXCEPT !.pc = "merged", !.sso = s]
  <1>1. job[r][a] \in Job /\ Sensible(job[r][a]) BY DEF JobsTyped
  <1>2. /\ job[r][a].pc = "accepted" /\ WriteFrame /\ UNCHANGED <<row, fails, disturbed>>
        /\ NoFault \/ Fault
    BY DEF UpsertRead, Works, Breaks
  <1>3. \A s \in BOOLEAN : /\ j(s) \in Job /\ j(s).pc = "merged"
                            /\ j(s).rt = job[r][a].rt /\ j(s).new = job[r][a].new
    BY <1>1 DEF Job, Labels, Accepted
  <1>4. \A s \in BOOLEAN : Sensible(j(s)) BY <1>1, <1>2, <1>3 DEF Sensible, Accepted, Unread
  <1>5. \E s \in BOOLEAN : SetJob(r, a, j(s)) BY DEF UpsertRead
  <1>6. PICK s \in BOOLEAN : SetJob(r, a, j(s)) BY <1>5
  <1> HIDE DEF j
  <1> QED BY <1>2, <1>3, <1>4, <1>6

LEMMA InitTyped == ASSUME Init PROVE TypeOK
  <1> USE BoundAssumption, RunnerAssumption DEF Init
  <1>1. RowsTyped BY DEF RowsTyped, Row, Token
  <1>2. TokensTyped BY DEF TokensTyped, Token
  <1>3. LockTyped /\ PhaseTyped BY DEF LockTyped, PhaseTyped
  <1>4. \A r \in Runner, a \in Account : job[r][a] = NoJob OBVIOUS
  <1>5. NoJob \in Job BY NoJobIs DEF Sensible
  <1>6. JobsTyped BY <1>4, <1>5, NoJobIs DEF JobsTyped, Active
  <1>7. CountsTyped BY DEF CountsTyped
  <1> QED BY <1>1, <1>2, <1>3, <1>6, <1>7 DEF TypeOK

\* Counters and histories.
LEMMA CountsStep == ASSUME TypeOK, [Next]_vars PROVE CountsTyped'
  <1>1. \A a \in Account : Canonical[a] \in Account BY CanonicalAssumption
  <1>2. CountsTyped /\ MaxFails \in Nat \ {0} /\ MaxFaults \in Nat BY BoundAssumption DEF TypeOK
  <1> USE <1>1, <1>2 DEF CountsTyped, Works, Breaks, NoFault, Fault, Disturb
  <1>3. ASSUME NEW c \in Cycle, StartCycle(c) \/ RunCycle(c) \/ AcquireFails(c) \/ Defer(c)
        PROVE  CountsTyped'
    <2>1. CASE StartCycle(c) \/ Defer(c) \/ Acquire(c) \/ AcquireFails(c)
      BY <2>1 DEF StartCycle, Defer, Acquire, AcquireFails
    <2>2. CASE List(c) BY <2>2 DEF List
    <2>3. CASE EndCycle(c) BY <2>3 DEF EndCycle
    <2> QED BY <1>3, <2>1, <2>2, <2>3 DEF RunCycle
  <1>4. ASSUME NEW m \in Manual, StartManual(m) \/ RunManual(m)
        PROVE  CountsTyped'
    BY <1>4 DEF StartManual, RunManual, EndManual, Load
  <1>5. ASSUME NEW r \in Runner, NEW a \in Account, Refresh(r, a) \/ AskFails(r, a)
        PROVE  CountsTyped'
    <2> USE DEF RefreshFrame, WriteFrame, store, Remove
    <2>0. JobsTyped BY DEF TypeOK
    <2>1. CASE AskRejected(r, a) \/ AskSkipped(r, a) \/ AskFails(r, a)
      BY <2>1 DEF AskRejected, AskSkipped, AskFails
    <2>6. CASE AskAccepted(r, a) BY <2>0, <2>6, AcceptedIs
    <2>2. CASE MarkRefreshInvalid(r, a) \/ DeleteRejected(r, a)
      BY <2>2 DEF MarkRefreshInvalid, DeleteRejected
    <2>3. CASE SaveFailure(r, a) \/ SaveSuccess(r, a) BY <2>3 DEF SaveFailure, SaveSuccess
    <2>4. CASE UpsertWrite(r, a) BY <2>4 DEF UpsertWrite
    <2>7. CASE UpsertRead(r, a) BY <2>0, <2>7, MergedIs
    <2>5. CASE DropFormer(r, a) BY <2>5 DEF DropFormer
    <2> QED BY <1>5, <2>1, <2>2, <2>3, <2>4, <2>5, <2>6, <2>7 DEF Refresh
  <1>6. ASSUME NEW r \in Runner, Cancel(r) \/ Crash(r) PROVE CountsTyped'
    BY <1>6 DEF Cancel, Crash
  <1>7. CASE Expire BY <1>7 DEF Expire
  <1>8. ASSUME NEW a \in Account, Age(a) \/ Import(a) \/ AdminDelete(a) PROVE CountsTyped'
    BY <1>8 DEF Age, Import, AdminDelete, Remove
  <1>9. ASSUME NEW t \in Token, Revoke(t) PROVE CountsTyped' BY <1>9 DEF Revoke
  <1>10. CASE UNCHANGED vars BY <1>10 DEF vars
  <1> QED BY <1>3, <1>4, <1>5, <1>6, <1>7, <1>8, <1>9, <1>10 DEF Next

\* The lock, its keepers and the phases.
LEMMA LockStep == ASSUME TypeOK, [Next]_vars PROVE LockTyped' /\ PhaseTyped'
  <1>1. LockTyped /\ PhaseTyped /\ Nobody \notin Runner BY RunnerAssumption DEF TypeOK
  <1> USE <1>1 DEF LockTyped, PhaseTyped, Runner
  <1>2. ASSUME NEW c \in Cycle, StartCycle(c) \/ RunCycle(c) \/ AcquireFails(c) \/ Defer(c)
        PROVE  LockTyped' /\ PhaseTyped'
    <2>1. CASE StartCycle(c) \/ Defer(c) BY <2>1 DEF StartCycle, Defer
    <2>2. CASE Acquire(c) BY <2>2 DEF Acquire
    <2>3. CASE AcquireFails(c) BY <2>3 DEF AcquireFails
    <2>4. CASE List(c) BY <2>4 DEF List
    <2>5. CASE EndCycle(c) BY <2>5 DEF EndCycle
    <2> QED BY <1>2, <2>1, <2>2, <2>3, <2>4, <2>5 DEF RunCycle
  <1>3. ASSUME NEW m \in Manual, StartManual(m) \/ RunManual(m)
        PROVE  LockTyped' /\ PhaseTyped'
    <2>1. UNCHANGED <<lock, locked>> BY <1>3 DEF StartManual, RunManual, EndManual, Load
    <2>2. PhaseTyped'
      <3>1. CASE StartManual(m) BY <3>1 DEF StartManual
      <3>2. CASE RunManual(m) BY <3>2 DEF RunManual, EndManual, Load
      <3> QED BY <1>3, <3>1, <3>2
    <2> QED BY <2>1, <2>2
  <1>4. ASSUME NEW r \in Runner, NEW a \in Account, Refresh(r, a) \/ AskFails(r, a)
        PROVE  UNCHANGED <<lock, locked, phase>>
    BY <1>4 DEF Refresh, AskAccepted, AskRejected, AskSkipped, AskFails, RefreshFrame,
                MarkRefreshInvalid, SaveFailure, DeleteRejected, UpsertRead, UpsertWrite,
                DropFormer, SaveSuccess, WriteFrame
  <1>5. ASSUME NEW r \in Runner, Cancel(r) \/ Crash(r) PROVE LockTyped' /\ PhaseTyped'
    BY <1>5 DEF Cancel, Crash
  <1>6. CASE Expire BY <1>6 DEF Expire
  <1>7. ASSUME NEW a \in Account, Age(a) \/ Import(a) \/ AdminDelete(a)
        PROVE  UNCHANGED <<lock, locked, phase>>
    BY <1>7 DEF Age, Import, AdminDelete
  <1>8. ASSUME NEW t \in Token, Revoke(t) PROVE UNCHANGED <<lock, locked, phase>>
    BY <1>8 DEF Revoke
  <1>9. CASE UNCHANGED vars BY <1>9 DEF vars
  <1> QED BY <1>2, <1>3, <1>4, <1>5, <1>6, <1>7, <1>8, <1>9 DEF Next

\* The refreshes.
LEMMA RefreshTyped ==
  ASSUME JobsTyped, NEW r \in Runner, NEW a \in Account, Refresh(r, a) \/ AskFails(r, a)
  PROVE  JobsTyped'
  <1> USE DEF Hot, Unread, Accepted, Rejected, Labels
  <1>1. Active(r, a) => phase[r] = "working" BY DEF JobsTyped
  <1>2. CASE AskAccepted(r, a)
    <2>1. PICK j : SetJob(r, a, j) /\ Sensible(j) BY <1>2, AcceptedIs
    <2> QED BY <1>1, <1>2, <2>1, AcceptedIs, JobTyped DEF RefreshFrame, Active
  <1>3. CASE AskRejected(r, a) \/ AskFails(r, a)
    BY <1>3, GotoTyped DEF AskRejected, AskFails, RefreshFrame
  <1>4. CASE AskSkipped(r, a) BY <1>4, FinishTyped DEF AskSkipped, RefreshFrame
  <1> USE DEF WriteFrame
  <1>5. CASE MarkRefreshInvalid(r, a) BY <1>5, GotoTyped DEF MarkRefreshInvalid
  <1>6. CASE SaveFailure(r, a) BY <1>6, GotoTyped, FinishTyped DEF SaveFailure
  <1>7. CASE DeleteRejected(r, a) \/ SaveSuccess(r, a)
    BY <1>7, FinishTyped DEF DeleteRejected, SaveSuccess
  <1>8. CASE UpsertRead(r, a)
    <2>1. PICK j : SetJob(r, a, j) /\ Sensible(j) BY <1>8, MergedIs
    <2> QED BY <1>1, <1>8, <2>1, MergedIs, JobTyped DEF Active
  <1>9. CASE UpsertWrite(r, a)
    BY <1>9, GotoTyped DEF UpsertWrite
  <1>10. CASE DropFormer(r, a) BY <1>10, GotoTyped DEF DropFormer
  <1> QED BY <1>2, <1>3, <1>4, <1>5, <1>6, <1>7, <1>8, <1>9, <1>10 DEF Refresh

\* The jobs of one run change together.
LEMMA RunTyped ==
  ASSUME JobsTyped, NEW r \in Runner, NEW js,
         \A a \in Account : Sensible(js[a]) /\ (js[a].pc # "none" => phase'[r] = "working"),
         js \in [Account -> Job], job' = [job EXCEPT ![r] = js],
         \A q \in Runner \ {r} : phase'[q] = phase[q]
  PROVE  JobsTyped'
  <1>1. job' \in [Runner -> [Account -> Job]] BY DEF JobsTyped
  <1>2. job'[r] = js /\ \A q \in Runner \ {r} : job'[q] = job[q] BY DEF JobsTyped
  <1> QED BY <1>1, <1>2 DEF JobsTyped, Active

LEMMA JobsStep == ASSUME TypeOK, [Next]_vars PROVE JobsTyped'
  <1>1. RowsTyped /\ JobsTyped /\ PhaseTyped BY DEF TypeOK
  <1>2. Cycle \subseteq Runner /\ Manual \subseteq Runner BY DEF Runner
  \* A runner that has nothing to do may change its phase.
  <1>3. ASSUME NEW r \in Runner, \A a \in Account : ~Active(r, a),
               \A q \in Runner \ {r} : phase'[q] = phase[q], UNCHANGED job
        PROVE  JobsTyped'
    BY <1>1, <1>3 DEF JobsTyped, Active
  <1>4. ASSUME NEW r \in Runner, phase[r] # "working" PROVE \A a \in Account : ~Active(r, a)
    BY <1>1, <1>4 DEF JobsTyped
  <1>5. ASSUME NEW c \in Cycle, StartCycle(c) \/ RunCycle(c) \/ AcquireFails(c) \/ Defer(c)
        PROVE  JobsTyped'
    <2>1. CASE StartCycle(c) \/ Defer(c) \/ Acquire(c) \/ AcquireFails(c)
      <3>1. /\ phase[c] # "working" /\ UNCHANGED job
            /\ \A q \in Runner \ {c} : phase'[q] = phase[q]
        BY <2>1, <1>1 DEF StartCycle, Defer, Acquire, AcquireFails, PhaseTyped
      <3> QED BY <1>2, <1>3, <1>4, <3>1
    <2>2. CASE EndCycle(c)
      <3>1. /\ \A a \in Account : ~Active(c, a)
            /\ UNCHANGED job /\ \A q \in Runner \ {c} : phase'[q] = phase[q]
        BY <2>2, <1>1 DEF EndCycle, PhaseTyped
      <3> QED BY <1>2, <1>3, <3>1
    <2>3. CASE List(c)
      <3>1. /\ phase[c] # "working" /\ phase'[c] = "working"
            /\ \A q \in Runner \ {c} : phase'[q] = phase[q]
        BY <2>3, <1>1, <1>2 DEF List, PhaseTyped
      <3>2. CASE UNCHANGED job BY <1>2, <1>3, <1>4, <3>1, <3>2
      <3>3. ASSUME NEW C \in SUBSET Account, \A a \in C : Stored(a),
                   job' = [job EXCEPT ![c] = [a \in Account |-> IF a \in C THEN Queued(a) ELSE NoJob]]
            PROVE  JobsTyped'
        <4> DEFINE js == [a \in Account |-> IF a \in C THEN Queued(a) ELSE NoJob]
        <4>1. \A a \in Account : Sensible(js[a]) BY <1>1, <3>3, QueuedIs, NoJobIs
        <4>2. js \in [Account -> Job] BY <4>1 DEF Sensible
        <4>3. job' = [job EXCEPT ![c] = js] BY <3>3
        <4> HIDE DEF js
        <4> QED BY <1>1, <1>2, <3>1, <4>1, <4>2, <4>3, RunTyped
      <3>4. \/ UNCHANGED job
            \/ \E C \in SUBSET Account : /\ \A a \in C : Stored(a)
                  /\ job' = [job EXCEPT ![c] = [a \in Account |-> IF a \in C THEN Queued(a) ELSE NoJob]]
        <4>1. SUFFICES ASSUME ~UNCHANGED job
                       PROVE  \E C \in SUBSET Account : /\ \A a \in C : Stored(a)
                                /\ job' = [job EXCEPT ![c] = [a \in Account |-> IF a \in C THEN Queued(a) ELSE NoJob]]
          OBVIOUS
        <4>2. PICK force \in BOOLEAN :
                 LET C == {a \in Account : Candidate(a, force)}
                 IN  job' = [job EXCEPT ![c] = [a \in Account |-> IF a \in C THEN Queued(a) ELSE NoJob]]
          BY <2>3, <4>1 DEF List
        <4> DEFINE C == {a \in Account : Candidate(a, force)}
        <4>3. C \in SUBSET Account /\ \A a \in C : Stored(a) BY DEF Candidate
        <4> QED BY <4>2, <4>3
      <3> QED BY <3>2, <3>3, <3>4
    <2> QED BY <1>5, <2>1, <2>2, <2>3 DEF RunCycle
  <1>6. ASSUME NEW m \in Manual, StartManual(m) \/ RunManual(m) PROVE JobsTyped'
    <2>1. CASE StartManual(m)
      <3>1. PICK ids \in Selections, label \in Unread :
               job' = [job EXCEPT ![m] = [a \in Account |->
                          IF a \in ids THEN [NoJob EXCEPT !.pc = label] ELSE NoJob]]
        BY <2>1 DEF StartManual
      <3> DEFINE k == [NoJob EXCEPT !.pc = label]
                 js == [a \in Account |-> IF a \in ids THEN k ELSE NoJob]
      <3>2. Sensible(k) BY DEF NoJob, Sensible, Job, Labels, Unread, Accepted, Rejected
      <3>3. \A a \in Account : Sensible(js[a]) BY <3>2, NoJobIs
      <3>4. js \in [Account -> Job] BY <3>3 DEF Sensible
      <3>5. phase'[m] = "working" /\ \A q \in Runner \ {m} : phase'[q] = phase[q]
        BY <2>1, <1>1, <1>2 DEF StartManual, PhaseTyped
      <3>6. job' = [job EXCEPT ![m] = js] BY <3>1
      <3> HIDE DEF js
      <3> QED BY <1>1, <1>2, <3>3, <3>4, <3>5, <3>6, RunTyped
    <2>2. CASE EndManual(m)
      <3>1. /\ \A a \in Account : ~Active(m, a)
            /\ UNCHANGED job /\ \A q \in Runner \ {m} : phase'[q] = phase[q]
        BY <2>2, <1>1 DEF EndManual, PhaseTyped
      <3> QED BY <1>2, <1>3, <3>1
    <2>3. ASSUME NEW a \in Account, Load(m, a) PROVE JobsTyped'
      <3>1. job[m][a].pc \in Unread /\ UNCHANGED phase BY <2>3 DEF Load
      <3>2. phase[m] = "working" BY <1>1, <1>2, <3>1 DEF JobsTyped, Active, Unread
      <3>3. CASE Finish(m, a) BY <1>1, <1>2, <3>1, <3>3, FinishTyped
      <3>4. CASE Stored(a) /\ SetJob(m, a, Queued(a))
        BY <1>1, <1>2, <3>1, <3>2, <3>4, QueuedIs, JobTyped
      <3> QED BY <2>3, <3>3, <3>4 DEF Load, Candidate
    <2> QED BY <1>6, <2>1, <2>2, <2>3 DEF RunManual
  <1>7. ASSUME NEW r \in Runner, NEW a \in Account, Refresh(r, a) \/ AskFails(r, a)
        PROVE  JobsTyped'
    BY <1>1, <1>7, RefreshTyped
  <1>8. ASSUME NEW r \in Runner, Cancel(r) PROVE JobsTyped'
    BY <1>1, <1>8 DEF Cancel, JobsTyped, Active
  <1>9. ASSUME NEW r \in Runner, Crash(r) PROVE JobsTyped'
    <2> DEFINE js == [a \in Account |-> NoJob]
    <2>1. \A a \in Account : Sensible(js[a]) /\ js[a].pc = "none" BY NoJobIs
    <2>2. js \in [Account -> Job] BY <2>1 DEF Sensible
    <2>3. job' = [job EXCEPT ![r] = js] /\ \A q \in Runner \ {r} : phase'[q] = phase[q]
      BY <1>9, <1>1 DEF Crash, PhaseTyped
    <2> HIDE DEF js
    <2> QED BY <1>1, <2>1, <2>2, <2>3, RunTyped
  <1>10. ASSUME Expire \/ (\E a \in Account : Age(a) \/ Import(a) \/ AdminDelete(a))
                \/ (\E t \in Token : Revoke(t)) \/ UNCHANGED vars
         PROVE  JobsTyped'
    <2>1. UNCHANGED <<phase, job>> BY <1>10 DEF Expire, Age, Import, AdminDelete, Revoke, vars
    <2> QED BY <1>1, <2>1 DEF JobsTyped, Active
  <1> QED BY <1>5, <1>6, <1>7, <1>8, <1>9, <1>10 DEF Next

\* The tokens of the provider only move on.
LEMMA FreshIs ==
  ASSUME TokensTyped, NEW t \in Token, NEW u \in Token, Fresh(t), token[u] = "live",
         token' = [token EXCEPT ![u] = "rotated", ![t] = "live"]
  PROVE  /\ t # u /\ token[t] = "unissued" /\ token'[t] = "live" /\ token'[u] = "rotated"
         /\ \A v \in Token \ {t, u} : token'[v] = token[v]
         /\ TokensTyped'
  <1>1. t # u /\ token[t] = "unissued" BY DEF Fresh
  <1> QED BY <1>1 DEF TokensTyped

\* What one step of a refresh may do: to its own job, the rows of its own user, and the
\* tokens.
LEMMA RefreshIs ==
  ASSUME TypeOK, NEW r \in Runner, NEW a \in Account, Refresh(r, a) \/ AskFails(r, a)
  PROVE  /\ Hot(r, a)
         /\ \A q \in Runner, b \in Account : <<q, b>> # <<r, a>> => job'[q][b] = job[q][b]
         /\ \A b \in Account \ {a, Canonical[a]} : row'[b] = row[b]
         /\ disturbed' = disturbed \/ Disturb(a)
         /\ \/ UNCHANGED token
            \/ /\ token[job[r][a].rt] = "live"
               /\ \E t \in Token : Fresh(t) /\ token' = [token EXCEPT ![job[r][a].rt] = "rotated", ![t] = "live"]
  <1>1. RowsTyped /\ JobsTyped BY DEF TypeOK
  <1>2. Canonical[a] \in Account BY CanonicalIs
  <1>3. \A j : SetJob(r, a, j) =>
           \A q \in Runner, b \in Account : <<q, b>> # <<r, a>> => job'[q][b] = job[q][b]
    BY <1>1, JobIs
  <1>4. CASE AskAccepted(r, a)
    <2>1. PICK j : /\ SetJob(r, a, j) /\ Sensible(j) /\ j.pc = "accepted" /\ j.rt = job[r][a].rt
                   /\ \/ Fresh(j.new) /\ token' = [token EXCEPT ![j.rt] = "rotated", ![j.new] = "live"]
                      \/ j.new = j.rt /\ UNCHANGED token
      BY <1>1, <1>4, AcceptedIs
    <2>2. j.new \in Token BY <2>1 DEF Sensible, Accepted
    <2>3. /\ job[r][a].pc = "queued" /\ token[job[r][a].rt] = "live"
          /\ RefreshFrame /\ UNCHANGED disturbed
      BY <1>1, <1>4, AcceptedIs
    <2> QED BY <1>3, <2>1, <2>2, <2>3 DEF Hot, Unread, RefreshFrame
  <1>5. CASE UpsertRead(r, a)
    <2>1. PICK j : SetJob(r, a, j) BY <1>1, <1>5, MergedIs
    <2>2. job[r][a].pc = "accepted" /\ UNCHANGED <<row, disturbed, token>>
      BY <1>1, <1>5, MergedIs DEF WriteFrame
    <2> QED BY <1>3, <2>1, <2>2 DEF Hot, Unread
  <1> USE DEF Hot, Unread, Goto, Finish
  <1>6. CASE AskRejected(r, a) \/ AskSkipped(r, a)
    BY <1>3, <1>6 DEF AskRejected, AskSkipped, RefreshFrame
  <1>7. CASE AskFails(r, a) BY <1>3, <1>7 DEF AskFails, RefreshFrame
  <1> USE DEF WriteFrame
  <1>8. CASE MarkRefreshInvalid(r, a) BY <1>1, <1>3, <1>8 DEF MarkRefreshInvalid, RowsTyped
  <1>9. CASE SaveFailure(r, a) BY <1>3, <1>9 DEF SaveFailure
  <1>10. CASE DeleteRejected(r, a)
    BY <1>1, <1>3, <1>10 DEF DeleteRejected, Remove, store, RowsTyped
  <1>11. CASE UpsertWrite(r, a) BY <1>1, <1>2, <1>3, <1>11 DEF UpsertWrite, RowsTyped
  <1>12. CASE DropFormer(r, a) BY <1>1, <1>3, <1>12 DEF DropFormer, Remove, store, RowsTyped
  <1>13. CASE SaveSuccess(r, a) BY <1>3, <1>13 DEF SaveSuccess
  <1> QED BY <1>4, <1>5, <1>6, <1>7, <1>8, <1>9, <1>10, <1>11, <1>12, <1>13 DEF Refresh

\* Rows and tokens.
LEMMA StoreStep == ASSUME TypeOK, [Next]_vars PROVE RowsTyped' /\ TokensTyped'
  <1>1. RowsTyped /\ TokensTyped /\ JobsTyped BY DEF TypeOK
  <1>2. ASSUME NEW c \in Cycle, StartCycle(c) \/ RunCycle(c) \/ AcquireFails(c) \/ Defer(c)
        PROVE  UNCHANGED <<row, token>>
    BY <1>2 DEF StartCycle, Defer, RunCycle, Acquire, AcquireFails, List, EndCycle
  <1>3. ASSUME NEW m \in Manual, StartManual(m) \/ RunManual(m) PROVE UNCHANGED <<row, token>>
    BY <1>3 DEF StartManual, RunManual, EndManual, Load
  <1>4. ASSUME NEW r \in Runner, NEW a \in Account, Refresh(r, a) \/ AskFails(r, a)
        PROVE  RowsTyped' /\ TokensTyped'
    <2>1. Hot(r, a) /\ Canonical[a] \in Account BY <1>4, RefreshIs, CanonicalIs
    <2>2. Sensible(job[r][a]) /\ job[r][a].rt \in Token /\ job[r][a] \in Job
      BY <1>1, <2>1 DEF JobsTyped, Sensible, Hot
    <2>3. TokensTyped'
      <3>1. CASE UNCHANGED token BY <1>1, <3>1 DEF TokensTyped
      <3> QED BY <1>1, <1>4, <2>2, <3>1, RefreshIs, FreshIs
    <2>4. RowsTyped'
      <3>1. CASE UpsertWrite(r, a)
        <4>1. job[r][a].new \in Token /\ job[r][a].sso \in BOOLEAN
          BY <2>2, <3>1 DEF UpsertWrite, Sensible, Job, Accepted
        <4>2. [rt |-> job[r][a].new, sso |-> job[r][a].sso, invalid |-> FALSE, due |-> FALSE] \in Row
          BY <4>1 DEF Row
        <4> QED BY <1>1, <2>1, <3>1, <4>2 DEF UpsertWrite, RowsTyped
      <3>2. CASE MarkRefreshInvalid(r, a)
        <4>1. Stored(a) => [row[a] EXCEPT !.invalid = TRUE] \in Row BY <1>1, RowIs DEF Row
        <4> QED BY <1>1, <3>2, <4>1 DEF MarkRefreshInvalid, RowsTyped
      <3>3. CASE DeleteRejected(r, a) \/ DropFormer(r, a)
        BY <1>1, <3>3 DEF DeleteRejected, DropFormer, Remove, store, RowsTyped
      <3>4. CASE AskAccepted(r, a) \/ UpsertRead(r, a)
        BY <1>1, <3>4, AcceptedIs, MergedIs DEF RefreshFrame, RowsTyped
      <3>5. CASE AskRejected(r, a) \/ AskSkipped(r, a) \/ AskFails(r, a) \/ SaveFailure(r, a)
                 \/ SaveSuccess(r, a)
        BY <1>1, <3>5 DEF AskRejected, AskSkipped, AskFails, RefreshFrame, SaveFailure,
                          SaveSuccess, RowsTyped
      <3> QED BY <1>4, <3>1, <3>2, <3>3, <3>4, <3>5 DEF Refresh
    <2> QED BY <2>3, <2>4
  <1>5. ASSUME NEW r \in Runner, Cancel(r) \/ Crash(r) PROVE UNCHANGED <<row, token>>
    BY <1>5 DEF Cancel, Crash
  <1>6. CASE Expire BY <1>1, <1>6 DEF Expire, RowsTyped, TokensTyped
  <1>7. ASSUME NEW a \in Account, Age(a) PROVE RowsTyped' /\ TokensTyped'
    <2>1. [row[a] EXCEPT !.due = TRUE] \in Row BY <1>1, <1>7, RowIs DEF Age, Row
    <2> QED BY <1>1, <1>7, <2>1 DEF Age, RowsTyped, TokensTyped
  <1>8. ASSUME NEW a \in Account, Import(a) PROVE RowsTyped' /\ TokensTyped'
    <2>1. PICK t \in Token, sso \in BOOLEAN :
             /\ Fresh(t) /\ token' = [token EXCEPT ![t] = "live"]
             /\ row' = [b \in Account |->
                    IF b = a THEN [rt |-> t, invalid |-> FALSE, due |-> FALSE,
                                   sso |-> sso \/ \E d \in SameUser(a) : Stored(d) /\ row[d].sso]
                    ELSE IF b \in SameUser(a) THEN NoRow ELSE row[b]]
      BY <1>8 DEF Import
    <2>2. [rt |-> t, invalid |-> FALSE, due |-> FALSE,
           sso |-> sso \/ \E d \in SameUser(a) : Stored(d) /\ row[d].sso] \in Row
      BY DEF Row
    <2> QED BY <1>1, <2>1, <2>2 DEF RowsTyped, TokensTyped
  <1>9. ASSUME NEW a \in Account, AdminDelete(a) PROVE RowsTyped' /\ TokensTyped'
    BY <1>1, <1>9 DEF AdminDelete, Remove, RowsTyped, TokensTyped
  <1>10. ASSUME NEW t \in Token, Revoke(t) PROVE RowsTyped' /\ TokensTyped'
    BY <1>1, <1>10 DEF Revoke, RowsTyped, TokensTyped
  <1>11. CASE UNCHANGED <<row, token>> BY <1>1, <1>11 DEF RowsTyped, TokensTyped
  <1> QED BY <1>2, <1>3, <1>4, <1>5, <1>6, <1>7, <1>8, <1>9, <1>10, <1>11 DEF Next, vars

LEMMA TypeStep == ASSUME TypeOK, [Next]_vars PROVE TypeOK'
  BY StoreStep, LockStep, JobsStep, CountsStep DEF TypeOK

\* Rows, tokens, the lock and every job keep their types, and a job knows the tokens that
\* its stage needs, for any runners, accounts and users.
THEOREM TypeCorrect == Spec => []TypeOK
  <1>1. Init => TypeOK BY InitTyped
  <1>2. TypeOK /\ [Next]_vars => TypeOK' BY TypeStep
  <1> QED BY <1>1, <1>2, PTL DEF Spec

-----------------------------------------------------------------------------
(* Whose tokens there are *)

\* The row of an account, or a refresh of it, has the token.
Holds(a, t) ==
    \/ Stored(a) /\ row[a].rt = t
    \/ \E r \in Runner : Hot(r, a) /\ t \in {job[r][a].rt, job[r][a].new}

Separate ==
    \A t \in Token, a \in Account : Holds(a, t) =>
        /\ token[t] # "unissued"
        /\ \A b \in Account : Holds(b, t) => Canonical[a] = Canonical[b]

\* A step hands tokens on to accounts of the same user only, and new ones to one user.
LEMMA HandedOn ==
  ASSUME Separate, NEW u,
         \A t \in Token : token[t] # "unissued" => token'[t] # "unissued",
         \A a \in Account, t \in Token : Holds(a, t)' =>
            \/ \E b \in SameUser(a) : Holds(b, t)
            \/ token[t] = "unissued" /\ token'[t] # "unissued" /\ Canonical[a] = u
  PROVE  Separate'
  <1>1. ASSUME NEW t \in Token, NEW a \in Account, Holds(a, t)'
        PROVE  token'[t] # "unissued"
    BY <1>1, CanonicalIs DEF Separate
  <1>2. ASSUME NEW t \in Token, NEW a \in Account, NEW b \in Account, Holds(a, t)', Holds(b, t)'
        PROVE  Canonical[a] = Canonical[b]
    BY <1>2, CanonicalIs DEF Separate
  <1> QED BY <1>1, <1>2 DEF Separate

\* Where rows and jobs hold no token that they did not hold before.
LEMMA NothingTaken ==
  ASSUME Separate,
         \A t \in Token : token[t] # "unissued" => token'[t] # "unissued",
         \A a \in Account : row'[a] # NoRow => row[a] # NoRow /\ row'[a].rt = row[a].rt,
         \A r \in Runner, a \in Account : Hot(r, a)' => Hot(r, a) /\ job'[r][a] = job[r][a]
  PROVE  Separate'
  <1>1. ASSUME NEW a \in Account, NEW t \in Token, Holds(a, t)' PROVE Holds(a, t)
    BY <1>1 DEF Holds, Stored
  <1>2. \A a \in Account : a \in SameUser(a) BY CanonicalIs
  <1> QED BY <1>1, <1>2, HandedOn

\* One job of an account changes, and rows of its user.
LEMMA RefreshSeparate ==
  ASSUME TypeOK, Separate, NEW r \in Runner, NEW a \in Account, Refresh(r, a) \/ AskFails(r, a)
  PROVE  Separate'
  <1> DEFINE j == job[r][a]
  <1>1. /\ Hot(r, a)
        /\ \A q \in Runner, b \in Account : <<q, b>> # <<r, a>> => job'[q][b] = job[q][b]
        /\ \A b \in Account \ {a, Canonical[a]} : row'[b] = row[b]
        /\ \/ UNCHANGED token
           \/ /\ token[j.rt] = "live"
              /\ \E t \in Token : Fresh(t) /\ token' = [token EXCEPT ![j.rt] = "rotated", ![t] = "live"]
    BY RefreshIs
  <1>2. /\ RowsTyped /\ TokensTyped /\ JobsTyped /\ Sensible(j) /\ j.rt \in Token
    BY <1>1 DEF TypeOK, JobsTyped, Sensible, Hot
  <1>3. Canonical[a] \in SameUser(a) /\ a \in SameUser(a) /\ SameUser(Canonical[a]) = SameUser(a)
    BY CanonicalIs
  <1>4. \A t \in Token : token[t] # "unissued" => token'[t] # "unissued"
    <2>1. CASE UNCHANGED token BY <2>1
    <2>2. ASSUME NEW t \in Token, Fresh(t), token[j.rt] = "live",
                 token' = [token EXCEPT ![j.rt] = "rotated", ![t] = "live"]
          PROVE  \A v \in Token : token[v] # "unissued" => token'[v] # "unissued"
      BY <1>2, <2>2, FreshIs
    <2> QED BY <1>1, <2>1, <2>2
  \* The job holds what it held, and a token that it was given.
  <1>5. Hot(r, a)' => /\ job'[r][a].rt = j.rt
                      /\ \/ job'[r][a].new \in {j.new, j.rt}
                         \/ /\ job'[r][a].new \in Token /\ token[job'[r][a].new] = "unissued"
                            /\ token'[job'[r][a].new] = "live"
    <2>1. CASE AskAccepted(r, a)
      <3>1. PICK k : /\ SetJob(r, a, k) /\ Sensible(k) /\ k.pc = "accepted" /\ k.rt = j.rt
                     /\ \/ Fresh(k.new) /\ token' = [token EXCEPT ![k.rt] = "rotated", ![k.new] = "live"]
                        \/ k.new = k.rt /\ UNCHANGED token
        BY <1>2, <2>1, AcceptedIs
      <3>2. k.new \in Token /\ job'[r][a] = k /\ token[j.rt] = "live"
        BY <1>2, <2>1, <3>1, JobIs, AcceptedIs DEF Sensible, Accepted
      <3> QED BY <1>2, <3>1, <3>2, FreshIs
    <2>2. CASE UpsertRead(r, a)
      <3>1. PICK k : SetJob(r, a, k) /\ k.rt = j.rt /\ k.new = j.new BY <1>2, <2>2, MergedIs
      <3> QED BY <1>2, <3>1, JobIs
    <2>3. ASSUME NEW label, Goto(r, a, label) PROVE job'[r][a].rt = j.rt /\ job'[r][a].new = j.new
      <3>1. job'[r][a] = [j EXCEPT !.pc = label] BY <1>2, <2>3, JobIs DEF Goto
      <3>2. j \in Job BY <1>2 DEF Sensible
      <3> QED BY <3>1, <3>2 DEF Job
    <2>4. Finish(r, a) => ~Hot(r, a)' BY <1>2, JobIs, NoJobIs DEF Finish, Hot
    <2>5. CASE AskRejected(r, a) \/ AskSkipped(r, a) \/ AskFails(r, a)
      BY <2>3, <2>4, <2>5 DEF AskRejected, AskSkipped, AskFails
    <2>6. CASE MarkRefreshInvalid(r, a) \/ SaveFailure(r, a) \/ DeleteRejected(r, a)
      BY <2>3, <2>4, <2>6 DEF MarkRefreshInvalid, SaveFailure, DeleteRejected
    <2>7. CASE UpsertWrite(r, a) \/ DropFormer(r, a) \/ SaveSuccess(r, a)
      BY <2>3, <2>4, <2>7 DEF UpsertWrite, DropFormer, SaveSuccess
    <2> QED BY <2>1, <2>2, <2>5, <2>6, <2>7 DEF Refresh
  \* The rows hold what they held, or what the job brings.
  <1>6. \A b \in {a, Canonical[a]} : row'[b] # NoRow =>
            \/ row[b] # NoRow /\ row'[b].rt = row[b].rt
            \/ row'[b].rt = j.new
    <2>1. CASE UpsertWrite(r, a) BY <1>2, <1>3, <2>1 DEF UpsertWrite, RowsTyped, SameUser
    <2>2. CASE MarkRefreshInvalid(r, a)
      <3>1. Stored(a) => [row[a] EXCEPT !.invalid = TRUE].rt = row[a].rt
        BY <1>2, RowIs DEF Row
      <3> QED BY <1>2, <1>3, <2>2, <3>1 DEF MarkRefreshInvalid, RowsTyped, Stored, SameUser
    <2>3. CASE DeleteRejected(r, a) \/ DropFormer(r, a)
      BY <1>2, <1>3, <2>3 DEF DeleteRejected, DropFormer, Remove, store, RowsTyped, SameUser
    <2>4. CASE AskAccepted(r, a) \/ UpsertRead(r, a)
      BY <1>2, <2>4, AcceptedIs, MergedIs DEF RefreshFrame
    <2>5. CASE AskRejected(r, a) \/ AskSkipped(r, a) \/ AskFails(r, a) \/ SaveFailure(r, a)
               \/ SaveSuccess(r, a)
      BY <2>5 DEF AskRejected, AskSkipped, AskFails, RefreshFrame, SaveFailure, SaveSuccess
    <2> QED BY <2>1, <2>2, <2>3, <2>4, <2>5, RefreshIs DEF Refresh
  <1>7. ASSUME NEW b \in Account, NEW t \in Token, Holds(b, t)'
        PROVE  \/ \E c \in SameUser(b) : Holds(c, t)
               \/ token[t] = "unissued" /\ token'[t] # "unissued" /\ Canonical[b] = Canonical[a]
    <2>1. Holds(a, j.rt) /\ Holds(a, j.new) BY <1>1 DEF Holds
    <2>2. CASE row'[b] # NoRow /\ row'[b].rt = t
      <3>1. CASE b \notin {a, Canonical[a]} BY <1>1, <2>2, <3>1, CanonicalIs DEF Holds, Stored
      <3>2. CASE b \in {a, Canonical[a]}
        <4>1. b \in SameUser(b) /\ a \in SameUser(b) BY <1>3, <3>2
        <4> QED BY <1>6, <2>1, <2>2, <3>2, <4>1 DEF Holds, Stored
      <3> QED BY <3>1, <3>2
    <2>3. ASSUME NEW q \in Runner, Hot(q, b)', t \in {job'[q][b].rt, job'[q][b].new}
          PROVE  \/ \E c \in SameUser(b) : Holds(c, t)
                 \/ token[t] = "unissued" /\ token'[t] # "unissued" /\ Canonical[b] = Canonical[a]
      <3>1. CASE <<q, b>> # <<r, a>>
        <4>1. job'[q][b] = job[q][b] BY <1>1, <3>1
        <4>2. Holds(b, t) BY <2>3, <4>1 DEF Holds, Hot
        <4> QED BY <4>2, CanonicalIs
      <3>2. CASE q = r /\ b = a BY <1>3, <1>5, <2>1, <2>3, <3>2
      <3> QED BY <3>1, <3>2
    <2> QED BY <1>7, <2>2, <2>3 DEF Holds, Stored
  <1> QED BY <1>4, <1>7, HandedOn

-----------------------------------------------------------------------------
(* What is kept of a user that is not disturbed *)

Clean(a) == Canonical[a] \notin disturbed

Serial ==
    \A a \in Account : Clean(a) =>
        \A b \in SameUser(a), q, r \in Runner : Hot(r, a) /\ Hot(q, b) => q = r /\ b = a

\* A refresh that a crash or an error would make forget something.
Owes(r, a) == Unsaved(r, a) \/ job[r][a].pc = "renaming"

\* The user's rows are the one that was read, until it is dropped, and the one that was
\* written; the verdict is about a revoked token, and the token it brings is not used up.
JobKept(r, a) ==
    /\ \A b \in SameUser(a) : Stored(b) =>
           \/ b = a /\ job[r][a].pc # "saving" /\ row[b].rt = job[r][a].rt
           \/ /\ b = Canonical[a] /\ job[r][a].pc \in {"renaming", "saving"}
              /\ row[b].rt = job[r][a].new
    /\ job[r][a].pc = "renaming" => Canonical[a] # a
    /\ job[r][a].pc \in Rejected => token[job[r][a].rt] = "revoked"
    /\ job[r][a].pc \in {"queued", "failed"} => token[job[r][a].rt] # "rotated"
    /\ job[r][a].pc \in Accepted => token[job[r][a].new] # "rotated"

Succeeded(a) ==
    token[row[a].rt] = "rotated" =>
        \E r \in Runner, b \in SameUser(a) : Unsaved(r, b) /\ job[r][b].rt = row[a].rt
Condemned(a) == row[a].invalid => token[row[a].rt] = "revoked"
OnlyRow(a) ==
    \A b \in SameUser(a) : Stored(b) /\ b # a =>
        \E r \in Runner, c \in SameUser(a) : job[r][c].pc = "renaming"
RowKept(a) == Succeeded(a) /\ Condemned(a) /\ OnlyRow(a)

KeptAt(a) ==
    /\ Stored(a) => RowKept(a)
    /\ \A r \in Runner : Hot(r, a) => JobKept(r, a)
Kept == \A a \in Account : Clean(a) => KeptAt(a)

IInv == TypeOK /\ Separate /\ Serial /\ Kept

\* A step that does nothing to a user but remove rows, end refreshes that owe no write,
\* and revoke tokens.
QuietAt(a) ==
    /\ \A b \in SameUser(a) : row'[b] # NoRow =>
           row[b] # NoRow /\ row'[b].rt = row[b].rt /\ (row'[b].invalid => row[b].invalid)
    /\ \A r \in Runner, b \in SameUser(a) :
           job'[r][b] = job[r][b] \/ (~Owes(r, b) /\ ~Hot(r, b)')
    /\ \A b \in SameUser(a), t \in Token : Holds(b, t) =>
           token'[t] = token[t] \/ (token[t] = "live" /\ token'[t] = "revoked")

LEMMA QuietKept ==
  ASSUME TypeOK, NEW a \in Account, KeptAt(a), QuietAt(a)
  PROVE  KeptAt(a)'
  <1>1. a \in SameUser(a) /\ \A b \in SameUser(a) : b \in Account BY CanonicalIs
  <1>2. RowsTyped /\ JobsTyped BY DEF TypeOK
  <1>3. ASSUME NEW r \in Runner, NEW b \in SameUser(a), Owes(r, b)
        PROVE  job'[r][b] = job[r][b]
    BY <1>3 DEF QuietAt
  <1>4. ASSUME Stored(a)' PROVE RowKept(a)'
    <2>1. /\ Stored(a) /\ RowKept(a) /\ row'[a].rt = row[a].rt
          /\ row'[a].invalid => row[a].invalid
      BY <1>1, <1>4 DEF QuietAt, KeptAt, Stored
    <2>2. row[a].rt \in Token /\ Holds(a, row[a].rt) BY <1>2, <2>1, RowIs DEF Holds
    <2>3. \/ token'[row[a].rt] = token[row[a].rt]
          \/ token[row[a].rt] = "live" /\ token'[row[a].rt] = "revoked"
      BY <1>1, <2>2 DEF QuietAt
    <2>4. Condemned(a)' BY <2>1, <2>3 DEF RowKept, Condemned
    <2>5. Succeeded(a)'
      <3>1. SUFFICES ASSUME token'[row'[a].rt] = "rotated"
                     PROVE  \E r \in Runner, b \in SameUser(a) :
                                Unsaved(r, b)' /\ job'[r][b].rt = row'[a].rt
        BY DEF Succeeded, SameUser
      <3>2. token[row[a].rt] = "rotated" BY <2>1, <2>3, <3>1
      <3>3. PICK r \in Runner, b \in SameUser(a) : Unsaved(r, b) /\ job[r][b].rt = row[a].rt
        BY <2>1, <3>2 DEF RowKept, Succeeded
      <3>4. job'[r][b] = job[r][b] BY <1>3, <3>3 DEF Owes
      <3> QED BY <2>1, <3>3, <3>4 DEF Unsaved
    <2>6. OnlyRow(a)'
      <3>1. SUFFICES ASSUME NEW b \in SameUser(a), Stored(b)', b # a
                     PROVE  \E r \in Runner, c \in SameUser(a) : job'[r][c].pc = "renaming"
        BY DEF OnlyRow, SameUser
      <3>2. Stored(b) BY <3>1 DEF QuietAt, Stored
      <3>3. PICK r \in Runner, c \in SameUser(a) : job[r][c].pc = "renaming"
        BY <2>1, <3>1, <3>2 DEF RowKept, OnlyRow
      <3> QED BY <1>3, <3>3 DEF Owes
    <2> QED BY <2>4, <2>5, <2>6 DEF RowKept
  <1>5. ASSUME NEW r \in Runner, Hot(r, a)' PROVE JobKept(r, a)'
    <2>1. job'[r][a] = job[r][a] BY <1>1, <1>5 DEF QuietAt
    <2>2. Hot(r, a) /\ JobKept(r, a) BY <1>5, <2>1 DEF Hot, KeptAt
    <2>3. Sensible(job[r][a]) BY <1>2 DEF JobsTyped
    <2>4. Holds(a, job[r][a].rt) /\ Holds(a, job[r][a].new) BY <2>2 DEF Holds
    <2>5. \A t \in Token : t \in {job[r][a].rt, job[r][a].new} =>
             token'[t] = token[t] \/ (token[t] = "live" /\ token'[t] = "revoked")
      BY <1>1, <2>4 DEF QuietAt
    <2>6. \A b \in SameUser(a) : row'[b] # NoRow => row[b] # NoRow /\ row'[b].rt = row[b].rt
      BY DEF QuietAt
    <2>7. job[r][a].rt \in Token /\ (job[r][a].pc \in Accepted => job[r][a].new \in Token)
      BY <2>2, <2>3 DEF Sensible, Hot
    <2>8. \A b \in SameUser(a) : Stored(b)' =>
             \/ b = a /\ job'[r][a].pc # "saving" /\ row'[b].rt = job'[r][a].rt
             \/ /\ b = Canonical[a] /\ job'[r][a].pc \in {"renaming", "saving"}
                /\ row'[b].rt = job'[r][a].new
      BY <2>1, <2>2, <2>6 DEF JobKept, Stored
    <2>9. /\ job'[r][a].pc = "renaming" => Canonical[a] # a
          /\ job'[r][a].pc \in Rejected => token'[job'[r][a].rt] = "revoked"
          /\ job'[r][a].pc \in {"queued", "failed"} => token'[job'[r][a].rt] # "rotated"
          /\ job'[r][a].pc \in Accepted => token'[job'[r][a].new] # "rotated"
      BY <2>1, <2>2, <2>5, <2>7 DEF JobKept
    <2> QED BY <2>8, <2>9 DEF JobKept, SameUser
  <1> QED BY <1>4, <1>5 DEF KeptAt

\* Where the user's only refresh is kept, it tells of every row of the user.
LEMMA JobTells ==
  ASSUME TypeOK', NEW r \in Runner, NEW a \in Account, Hot(r, a)', JobKept(r, a)',
         \A q \in Runner, b \in SameUser(a) : Hot(q, b)' => q = r /\ b = a,
         \A b \in SameUser(a) : Stored(b)' => Condemned(b)'
  PROVE  \A b \in SameUser(a) : KeptAt(b)'
  <1> DEFINE j == job'[r][a]
  <1>1. a \in SameUser(a) /\ \A b \in SameUser(a) : b \in Account /\ SameUser(b) = SameUser(a)
    BY CanonicalIs
  <1>2. j.pc \in Labels
    BY DEF TypeOK, JobsTyped, Job
  <1>3. /\ \A b \in SameUser(a) : Stored(b)' =>
             \/ b = a /\ j.pc # "saving" /\ row'[b].rt = j.rt
             \/ /\ b = Canonical[a] /\ j.pc \in {"renaming", "saving"} /\ row'[b].rt = j.new
        /\ j.pc \in Rejected => token'[j.rt] = "revoked"
        /\ j.pc \in {"queued", "failed"} => token'[j.rt] # "rotated"
        /\ j.pc \in Accepted => token'[j.new] # "rotated"
    BY DEF JobKept, SameUser
  <1>4. j.pc \in {"queued", "failed"} \cup Rejected \cup Accepted
    BY <1>2 DEF Hot, Labels
  <1>5. ASSUME NEW b \in SameUser(a), Stored(b)' PROVE RowKept(b)'
    <2>1. Succeeded(b)'
      <3>1. SUFFICES ASSUME token'[row'[b].rt] = "rotated"
                     PROVE  \E q \in Runner, c \in SameUser(b) :
                                Unsaved(q, c)' /\ job'[q][c].rt = row'[b].rt
        BY DEF Succeeded, SameUser
      <3>2. j.pc # "saving" /\ row'[b].rt = j.rt
        BY <1>3, <1>5, <3>1 DEF Accepted
      <3>3. j.pc \in Accepted /\ j.new # j.rt BY <1>3, <1>4, <3>1, <3>2
      <3>4. Unsaved(r, a)' BY <3>2, <3>3 DEF Unsaved, Accepted
      <3> QED BY <1>1, <3>2, <3>4
    <2>2. OnlyRow(b)'
      <3>1. SUFFICES ASSUME NEW c \in SameUser(b), Stored(c)', c # b
                     PROVE  \E q \in Runner, d \in SameUser(b) : job'[q][d].pc = "renaming"
        BY DEF OnlyRow, SameUser
      <3>2. j.pc = "renaming" BY <1>1, <1>3, <1>5, <3>1
      <3> QED BY <1>1, <3>2
    <2> QED BY <1>5, <2>1, <2>2 DEF RowKept
  <1>6. ASSUME NEW b \in SameUser(a), NEW q \in Runner, Hot(q, b)' PROVE JobKept(q, b)'
    BY <1>6
  <1> QED BY <1>5, <1>6 DEF KeptAt

-----------------------------------------------------------------------------
(* Steps that only end things *)

Quiet ==
    /\ disturbed \subseteq disturbed'
    /\ \A a \in Account : row'[a] # NoRow =>
           row[a] # NoRow /\ row'[a].rt = row[a].rt /\ (row'[a].invalid => row[a].invalid)
    /\ \A r \in Runner, a \in Account :
           \/ job'[r][a] = job[r][a]
           \/ ~Hot(r, a)' /\ (Owes(r, a) => Canonical[a] \in disturbed')
    /\ \A t \in Token : token'[t] = token[t] \/ (token[t] = "live" /\ token'[t] = "revoked")

LEMMA QuietStep == ASSUME IInv, Quiet PROVE Separate' /\ Serial' /\ Kept'
  <1>1. \A a \in Account : \A b \in SameUser(a) : b \in Account /\ Canonical[b] = Canonical[a]
    BY CanonicalIs
  <1>2. \A r \in Runner, a \in Account : Hot(r, a)' => Hot(r, a) /\ job'[r][a] = job[r][a]
    BY DEF Quiet, Hot
  <1>3. \A t \in Token : token[t] # "unissued" => token'[t] # "unissued" BY DEF Quiet
  <1>4. \A a \in Account : row'[a] # NoRow => row[a] # NoRow /\ row'[a].rt = row[a].rt
    BY DEF Quiet
  <1>5. Separate' BY <1>2, <1>3, <1>4, NothingTaken DEF IInv
  <1>6. \A a \in Account : Clean(a)' => Clean(a) BY DEF Quiet, Clean
  <1>7. Serial' BY <1>1, <1>2, <1>6 DEF IInv, Serial, SameUser
  <1>8. ASSUME NEW a \in Account, Clean(a)' PROVE KeptAt(a)'
    <2>1. QuietAt(a) BY <1>1, <1>8 DEF Quiet, QuietAt, Clean
    <2> QED BY <1>6, <1>8, <2>1, QuietKept DEF IInv, Kept
  <1> QED BY <1>5, <1>7, <1>8 DEF Kept

LEMMA RowsStay ==
  ASSUME UNCHANGED <<row, token>>
  PROVE  /\ \A a \in Account : row'[a] # NoRow =>
                row[a] # NoRow /\ row'[a].rt = row[a].rt /\ (row'[a].invalid => row[a].invalid)
         /\ \A t \in Token : token'[t] = token[t] \/ (token[t] = "live" /\ token'[t] = "revoked")
  OBVIOUS

LEMMA CyclesQuiet ==
  ASSUME TypeOK, NEW c \in Cycle,
         StartCycle(c) \/ Acquire(c) \/ AcquireFails(c) \/ Defer(c) \/ EndCycle(c)
  PROVE  Quiet
  <1>1. UNCHANGED <<row, token, job, disturbed>>
    BY DEF StartCycle, Acquire, AcquireFails, Defer, EndCycle
  <1> QED BY <1>1, RowsStay DEF Quiet

LEMMA ManualsQuiet ==
  ASSUME TypeOK, NEW m \in Manual, StartManual(m) \/ EndManual(m)
  PROVE  Quiet
  <1>1. CASE EndManual(m)
    <2>1. UNCHANGED <<row, token, job, disturbed>> BY <1>1 DEF EndManual
    <2> QED BY <2>1, RowsStay DEF Quiet
  <1>2. CASE StartManual(m)
    <2>1. UNCHANGED <<row, token, disturbed>> /\ phase[m] = "idle" BY <1>2 DEF StartManual
    <2>2. PICK ids \in Selections, label \in Unread :
             job' = [job EXCEPT ![m] = [a \in Account |->
                        IF a \in ids THEN [NoJob EXCEPT !.pc = label] ELSE NoJob]]
      BY <1>2 DEF StartManual
    <2> DEFINE k == [NoJob EXCEPT !.pc = label]
    <2>3. k.pc = label /\ NoJob.pc = "none" BY DEF NoJob
    <2>4. m \in Runner /\ JobsTyped BY DEF Runner, TypeOK
    <2>5. \A a \in Account : ~Active(m, a) BY <2>1, <2>4 DEF JobsTyped
    <2>6. job' = [job EXCEPT ![m] = [a \in Account |-> IF a \in ids THEN k ELSE NoJob]]
      BY <2>2
    <2> HIDE DEF k
    <2>7. \A a \in Account : job'[m][a] = k \/ job'[m][a] = NoJob BY <2>4, <2>6 DEF JobsTyped
    <2>8. \A a \in Account : ~Hot(m, a)' BY <2>2, <2>3, <2>7 DEF Hot
    <2>9. \A r \in Runner \ {m} : job'[r] = job[r] BY <2>4, <2>6 DEF JobsTyped
    <2>10. \A a \in Account : ~Owes(m, a) BY <2>5 DEF Active, Owes, Unsaved
    <2> QED BY <2>1, <2>8, <2>9, <2>10, RowsStay DEF Quiet
  <1> QED BY <1>1, <1>2

LEMMA CrashQuiet == ASSUME TypeOK, NEW r \in Runner, Crash(r) PROVE Quiet
  <1>1. UNCHANGED <<row, token>> /\ JobsTyped BY DEF Crash, TypeOK
  <1>2. disturbed \subseteq disturbed' BY DEF Crash
  <1>3. /\ \A a \in Account : job'[r][a] = NoJob
        /\ \A q \in Runner \ {r} : job'[q] = job[q]
    BY <1>1 DEF Crash, JobsTyped
  <1>4. \A a \in Account : ~Hot(r, a)' BY <1>3, NoJobIs DEF Hot
  <1> QED BY <1>1, <1>2, <1>3, <1>4, RowsStay DEF Quiet, Crash, Owes

LEMMA WorldQuiet ==
  ASSUME TypeOK,
         \/ Expire \/ UNCHANGED vars \/ \E r \in Runner : Cancel(r)
         \/ \E a \in Account : Age(a) \/ AdminDelete(a)
         \/ \E t \in Token : Revoke(t)
  PROVE  Quiet
  <1>1. RowsTyped /\ TokensTyped BY DEF TypeOK
  <1>2. UNCHANGED <<job, disturbed>> BY DEF Expire, vars, Cancel, Age, AdminDelete, Revoke
  <1>3. CASE Expire \/ UNCHANGED vars \/ \E r \in Runner : Cancel(r)
    <2>1. UNCHANGED <<row, token>> BY <1>3 DEF Expire, vars, Cancel
    <2> QED BY <1>2, <2>1, RowsStay DEF Quiet
  <1>4. ASSUME NEW a \in Account, Age(a) PROVE Quiet
    <2>1. row[a] \in Row BY <1>1, <1>4, RowIs DEF Age
    <2>2. [row[a] EXCEPT !.due = TRUE].rt = row[a].rt
          /\ [row[a] EXCEPT !.due = TRUE].invalid = row[a].invalid
      BY <2>1 DEF Row
    <2>3. row' = [row EXCEPT ![a] = [row[a] EXCEPT !.due = TRUE]] /\ UNCHANGED token /\ Stored(a)
      BY <1>4 DEF Age
    <2>4. \A b \in Account : row'[b] = IF b = a THEN [row[a] EXCEPT !.due = TRUE] ELSE row[b]
      BY <1>1, <2>3 DEF RowsTyped
    <2> QED BY <1>2, <2>2, <2>3, <2>4 DEF Quiet, Stored
  <1>5. ASSUME NEW a \in Account, AdminDelete(a) PROVE Quiet
    BY <1>1, <1>2, <1>5 DEF AdminDelete, Remove, RowsTyped, Quiet
  <1>6. ASSUME NEW t \in Token, Revoke(t) PROVE Quiet
    BY <1>1, <1>2, <1>6 DEF Revoke, TokensTyped, Quiet
  <1> QED BY <1>3, <1>4, <1>5, <1>6

-----------------------------------------------------------------------------
(* A refresh *)

\* To the other users, a step of a refresh is quiet: their tokens are their own.
LEMMA OthersQuiet ==
  ASSUME IInv, NEW r \in Runner, NEW a \in Account, Refresh(r, a) \/ AskFails(r, a),
         NEW b \in Account, Canonical[b] # Canonical[a]
  PROVE  QuietAt(b)
  <1>1. TypeOK /\ TokensTyped /\ JobsTyped /\ Separate BY DEF IInv, TypeOK
  <1>2. \A c \in SameUser(b) : c \in Account /\ Canonical[c] # Canonical[a]
                               /\ c \notin {a, Canonical[a]}
    BY CanonicalIs
  <1>3. \A c \in SameUser(b) : row'[c] = row[c] /\ \A q \in Runner : job'[q][c] = job[q][c]
    BY <1>1, <1>2, RefreshIs
  <1>4. ASSUME NEW c \in SameUser(b), NEW t \in Token, Holds(c, t)
        PROVE  token'[t] = token[t]
    <2>1. CASE UNCHANGED token BY <2>1
    <2>2. ASSUME NEW u \in Token, Fresh(u), token[job[r][a].rt] = "live",
                 token' = [token EXCEPT ![job[r][a].rt] = "rotated", ![u] = "live"]
          PROVE  token'[t] = token[t]
      <3>1. Hot(r, a) BY <1>1, RefreshIs
      <3>2. Holds(a, job[r][a].rt) BY <3>1 DEF Holds
      <3>3. job[r][a].rt \in Token BY <1>1, <3>1 DEF JobsTyped, Sensible, Hot
      <3>4. t # job[r][a].rt BY <1>1, <1>2, <1>4, <3>2 DEF Separate
      <3>5. t # u BY <1>1, <1>2, <1>4, <2>2 DEF Separate, Fresh
      <3> QED BY <1>1, <2>2, <3>4, <3>5 DEF TokensTyped
    <2> QED BY <1>1, <2>1, <2>2, RefreshIs
  <1> QED BY <1>3, <1>4 DEF QuietAt

LEMMA GotoIs ==
  ASSUME JobsTyped, NEW r \in Runner, NEW a \in Account, NEW label, Goto(r, a, label)
  PROVE  /\ job'[r][a].pc = label /\ job'[r][a].rt = job[r][a].rt
         /\ job'[r][a].new = job[r][a].new
  <1>1. job'[r][a] = [job[r][a] EXCEPT !.pc = label] BY JobIs DEF Goto
  <1>2. job[r][a] \in Job BY DEF JobsTyped
  <1> QED BY <1>1, <1>2 DEF Job

\* A refresh that owes nothing ends.
LEMMA EndQuiet ==
  ASSUME TypeOK, NEW r \in Runner, NEW a \in Account, Finish(r, a), ~Owes(r, a), UNCHANGED token,
         \A b \in SameUser(a) : row'[b] # NoRow => row'[b] = row[b]
  PROVE  \A b \in SameUser(a) : QuietAt(b)
  <1>1. JobsTyped BY DEF TypeOK
  <1>2. /\ ~Hot(r, a)'
        /\ \A q \in Runner, b \in Account : <<q, b>> # <<r, a>> => job'[q][b] = job[q][b]
    BY <1>1, JobIs, NoJobIs DEF Finish, Hot
  <1>3. \A b \in SameUser(a) : SameUser(b) = SameUser(a) /\ b \in Account BY CanonicalIs
  <1> QED BY <1>2, <1>3 DEF QuietAt

\* A refresh goes on, and what it knows of its user stays true.
Tells(r, a) ==
    /\ Hot(r, a)' /\ JobKept(r, a)'
    /\ \A b \in SameUser(a) : Stored(b)' => Condemned(b)'

\* ... where rows and tokens are the same.
LEMMA GotoTells ==
  ASSUME NEW r \in Runner, NEW a \in Account, NEW label \in Labels \ ({"none"} \cup Unread),
         job'[r][a].pc = label, job'[r][a].rt = job[r][a].rt, UNCHANGED <<row, token>>,
         \A b \in SameUser(a) : Stored(b) => Condemned(b),
         \A b \in SameUser(a) : Stored(b) =>
             \/ b = a /\ label # "saving" /\ row[b].rt = job[r][a].rt
             \/ /\ b = Canonical[a] /\ label \in {"renaming", "saving"}
                /\ row[b].rt = job'[r][a].new,
         label = "renaming" => Canonical[a] # a,
         label \in Rejected => token[job[r][a].rt] = "revoked",
         label \in {"queued", "failed"} => token[job[r][a].rt] # "rotated",
         label \in Accepted => token[job'[r][a].new] # "rotated"
  PROVE  Tells(r, a)
  <1>1. Hot(r, a)' BY DEF Hot
  <1>2. JobKept(r, a)' BY DEF JobKept, Stored, SameUser
  <1>3. \A b \in SameUser(a) : Stored(b)' => Condemned(b)' BY DEF Stored, Condemned
  <1> QED BY <1>1, <1>2, <1>3 DEF Tells

LEMMA OwnKept ==
  ASSUME IInv, NEW r \in Runner, NEW a \in Account, Refresh(r, a) \/ AskFails(r, a), Clean(a)'
  PROVE  (\A b \in SameUser(a) : QuietAt(b)) \/ Tells(r, a)
  <1> DEFINE j == job[r][a]
  <1>1. /\ TypeOK /\ RowsTyped /\ TokensTyped /\ JobsTyped /\ Separate /\ Sensible(j)
    BY DEF IInv, TypeOK, JobsTyped
  <1>2. Hot(r, a) /\ Clean(a) BY <1>1, RefreshIs DEF Clean, Disturb
  <1>3. /\ JobKept(r, a)
        /\ \A b \in SameUser(a) : Stored(b) => Condemned(b)
    <2>1. \A b \in SameUser(a) : b \in Account /\ Clean(b) BY <1>2, CanonicalIs DEF Clean
    <2>2. a \in SameUser(a) BY CanonicalIs
    <2> QED BY <1>2, <2>1, <2>2 DEF IInv, Kept, KeptAt, RowKept
  <1>4. \A b \in SameUser(a) : b \in Account BY CanonicalIs
  <1>5. j.rt \in Token /\ (j.pc \in Accepted => j.new \in Token)
    BY <1>1, <1>2 DEF Sensible, Hot
  <1>6. token[j.rt] # "unissued"
    <2>1. Holds(a, j.rt) BY <1>2 DEF Holds
    <2> QED BY <1>1, <1>5, <2>1 DEF Separate
  \* The rows, as long as nothing is written.
  <1>7. j.pc \notin {"renaming", "saving"} =>
           \A b \in SameUser(a) : Stored(b) => b = a /\ row[b].rt = j.rt
    BY <1>3 DEF JobKept
  <1> USE DEF Accepted, Rejected
  <1>8. CASE AskAccepted(r, a)
    <2>1. PICK k : /\ SetJob(r, a, k) /\ Sensible(k) /\ k.pc = "accepted" /\ k.rt = j.rt
                   /\ \/ Fresh(k.new) /\ token' = [token EXCEPT ![k.rt] = "rotated", ![k.new] = "live"]
                      \/ k.new = k.rt /\ UNCHANGED token
      BY <1>1, <1>8, AcceptedIs
    <2>2. /\ j.pc = "queued" /\ token[j.rt] = "live" /\ UNCHANGED row
      BY <1>1, <1>8, AcceptedIs DEF RefreshFrame
    <2>3. job'[r][a] = k BY <1>1, <2>1, JobIs
    <2>4. k.new \in Token BY <2>1 DEF Sensible
    <2>5. Hot(r, a)' BY <2>1, <2>3 DEF Hot, Unread
    <2>6. token'[k.new] # "rotated" BY <1>1, <1>5, <2>1, <2>2, <2>4, FreshIs
    <2>7. JobKept(r, a)' BY <1>7, <2>1, <2>2, <2>3, <2>6 DEF JobKept, Stored, SameUser
    <2>8. \A t \in Token : token[t] = "revoked" => token'[t] = "revoked"
      BY <1>1, <1>5, <2>1, <2>2, <2>4, FreshIs
    <2>9. \A b \in SameUser(a) : Stored(b)' => Condemned(b)'
      BY <1>1, <1>3, <1>4, <2>2, <2>8, RowIs DEF Condemned, Stored
    <2> QED BY <2>5, <2>7, <2>9 DEF Tells
  <1>9. CASE AskRejected(r, a)
    <2>1. /\ j.pc = "queued" /\ token[j.rt] # "live" /\ UNCHANGED <<row, token>>
          /\ Goto(r, a, "rejected")
      BY <1>9 DEF AskRejected, RefreshFrame
    <2>2. token[j.rt] = "revoked" BY <1>1, <1>3, <1>5, <1>6, <2>1 DEF JobKept, TokensTyped
    <2> QED BY <1>1, <1>3, <1>7, <2>1, <2>2, GotoIs, GotoTells DEF Labels, Unread
  <1>10. CASE AskFails(r, a)
    <2>1. /\ j.pc = "queued" /\ UNCHANGED <<row, token>> /\ Goto(r, a, "failed")
      BY <1>10 DEF AskFails, RefreshFrame, Clean, Disturb
    <2>2. token[j.rt] # "rotated" BY <1>3, <2>1 DEF JobKept
    <2> QED BY <1>1, <1>3, <1>7, <2>1, <2>2, GotoIs, GotoTells DEF Labels, Unread
  <1>11. CASE AskSkipped(r, a)
    <2>1. ~Owes(r, a) /\ Finish(r, a) /\ UNCHANGED <<row, token>>
      BY <1>11 DEF AskSkipped, RefreshFrame, Owes, Unsaved
    <2> QED BY <1>1, <2>1, EndQuiet
  <1>12. CASE MarkRefreshInvalid(r, a)
    <2>1. /\ j.pc = "rejected" /\ UNCHANGED token /\ Goto(r, a, "marked")
          /\ \/ row' = IF Stored(a) THEN [row EXCEPT ![a].invalid = TRUE] ELSE row
             \/ UNCHANGED row
      BY <1>12 DEF MarkRefreshInvalid, WriteFrame
    <2>2. token[j.rt] = "revoked" BY <1>3, <2>1 DEF JobKept
    <2>3. CASE UNCHANGED row
      BY <1>1, <1>3, <1>7, <2>1, <2>2, <2>3, GotoIs, GotoTells DEF Labels, Unread
    <2>4. CASE Stored(a) /\ row' = [row EXCEPT ![a].invalid = TRUE]
      <3> DEFINE new == [row[a] EXCEPT !.invalid = TRUE]
      <3>1. new.rt = row[a].rt BY <1>1, <2>4, RowIs DEF Row
      <3>2. \A b \in SameUser(a) : row'[b] = IF b = a THEN new ELSE row[b]
        BY <1>1, <1>4, <2>4 DEF RowsTyped
      <3>3. row[a].rt = j.rt BY <1>7, <2>1, <2>4, CanonicalIs
      <3> HIDE DEF new
      <3>4. \A b \in SameUser(a) : Stored(b)' => b = a /\ row'[b].rt = j.rt
        BY <1>7, <2>1, <3>1, <3>2, <3>3 DEF Stored
      <3>5. JobKept(r, a)'
        BY <1>1, <2>1, <2>2, <3>4, GotoIs DEF JobKept, SameUser
      <3>6. \A b \in SameUser(a) : Stored(b)' => Condemned(b)'
        BY <2>1, <2>2, <3>4 DEF Condemned
      <3>7. Hot(r, a)' BY <1>1, <2>1, GotoIs DEF Hot, Unread
      <3> QED BY <3>5, <3>6, <3>7 DEF Tells
    <2> QED BY <2>1, <2>3, <2>4
  <1>13. CASE SaveFailure(r, a)
    <2>1. /\ j.pc \in {"marked", "failed"} /\ UNCHANGED <<row, token>>
          /\ (j.pc = "marked" /\ Goto(r, a, "deleting")) \/ Finish(r, a)
      BY <1>13 DEF SaveFailure, WriteFrame
    <2>2. CASE Finish(r, a)
      <3>1. ~Owes(r, a) BY <2>1 DEF Owes, Unsaved
      <3> QED BY <1>1, <2>1, <2>2, <3>1, EndQuiet
    <2>3. CASE j.pc = "marked" /\ Goto(r, a, "deleting")
      <3>1. token[j.rt] = "revoked" BY <1>3, <2>3 DEF JobKept
      <3> QED BY <1>1, <1>3, <1>7, <2>1, <2>3, <3>1, GotoIs, GotoTells DEF Labels, Unread
    <2> QED BY <2>1, <2>2, <2>3
  <1>14. CASE DeleteRejected(r, a)
    <2>1. ~Owes(r, a) /\ Finish(r, a) /\ UNCHANGED token
      BY <1>14 DEF DeleteRejected, WriteFrame, Owes, Unsaved
    <2>2. \A b \in SameUser(a) : row'[b] # NoRow => row'[b] = row[b]
      BY <1>1, <1>4, <1>14 DEF DeleteRejected, Remove, store, RowsTyped
    <2> QED BY <1>1, <2>1, <2>2, EndQuiet
  <1>15. CASE UpsertRead(r, a)
    <2>1. PICK k : SetJob(r, a, k) /\ k.pc = "merged" /\ k.rt = j.rt /\ k.new = j.new
      BY <1>1, <1>15, MergedIs
    <2>2. j.pc = "accepted" /\ UNCHANGED <<row, token>> BY <1>1, <1>15, MergedIs DEF WriteFrame
    <2>3. job'[r][a] = k BY <1>1, <2>1, JobIs
    <2>4. token[j.new] # "rotated" BY <1>3, <2>2 DEF JobKept
    <2> QED BY <1>3, <1>7, <2>1, <2>2, <2>3, <2>4, GotoTells DEF Labels, Unread
  <1>16. CASE UpsertWrite(r, a)
    <2> DEFINE next == IF Canonical[a] = a THEN "saving" ELSE "renaming"
    <2>1. j.pc = "merged" /\ UNCHANGED token /\ Goto(r, a, next)
      BY <1>16 DEF UpsertWrite, WriteFrame
    <2>2. token[j.new] # "rotated" BY <1>3, <2>1 DEF JobKept
    <2>3. job'[r][a].pc = next /\ job'[r][a].rt = j.rt /\ job'[r][a].new = j.new
      BY <1>1, <2>1, GotoIs
    <2>4. CASE UNCHANGED row /\ ~Unsaved(r, a)
      <3>1. j.new = j.rt BY <2>1, <2>4 DEF Unsaved
      <3>2. \A b \in SameUser(a) : Stored(b) =>
               \/ b = a /\ next # "saving" /\ row[b].rt = j.rt
               \/ b = Canonical[a] /\ next \in {"renaming", "saving"} /\ row[b].rt = j.new
        BY <1>7, <2>1, <3>1
      <3> QED BY <1>3, <2>1, <2>2, <2>3, <2>4, <3>2, GotoTells DEF Labels, Unread
    <2>5. CASE row' = [row EXCEPT ![Canonical[a]] =
                          [rt |-> j.new, sso |-> j.sso, invalid |-> FALSE, due |-> FALSE]]
      <3> DEFINE new == [rt |-> j.new, sso |-> j.sso, invalid |-> FALSE, due |-> FALSE]
      <3>1. \A b \in SameUser(a) : row'[b] = IF b = Canonical[a] THEN new ELSE row[b]
        BY <1>1, <1>4, <2>5 DEF RowsTyped
      <3>2. new.rt = j.new /\ new.invalid = FALSE OBVIOUS
      <3> HIDE DEF new
      <3>3. \A b \in SameUser(a) : Stored(b)' =>
               \/ b = a /\ next # "saving" /\ row'[b].rt = j.rt
               \/ b = Canonical[a] /\ next \in {"renaming", "saving"} /\ row'[b].rt = j.new
        BY <1>7, <2>1, <3>1, <3>2 DEF Stored
      <3>4. JobKept(r, a)' BY <2>1, <2>2, <2>3, <3>3 DEF JobKept, SameUser
      <3>5. \A b \in SameUser(a) : Stored(b)' => Condemned(b)'
        BY <1>3, <2>1, <3>1, <3>2 DEF Condemned, Stored
      <3>6. Hot(r, a)' BY <2>3 DEF Hot, Unread
      <3> QED BY <3>4, <3>5, <3>6 DEF Tells
    <2> QED BY <1>16, <2>4, <2>5 DEF UpsertWrite, Clean, Disturb
  <1>17. CASE DropFormer(r, a)
    <2>1. /\ j.pc = "renaming" /\ UNCHANGED token /\ Goto(r, a, "saving")
          /\ row' = [row EXCEPT ![a] = NoRow]
      BY <1>17 DEF DropFormer, WriteFrame, Remove, Clean, Disturb
    <2>2. token[j.new] # "rotated" BY <1>3, <2>1 DEF JobKept
    <2>3. \A b \in SameUser(a) : Stored(b)' => b = Canonical[a] /\ row'[b].rt = j.new /\ row'[b] = row[b]
      BY <1>1, <1>3, <1>4, <2>1 DEF JobKept, Stored, RowsTyped
    <2>4. JobKept(r, a)' BY <1>1, <2>1, <2>2, <2>3, GotoIs DEF JobKept, SameUser
    <2>5. \A b \in SameUser(a) : Stored(b)' => Condemned(b)'
      BY <1>3, <2>1, <2>3 DEF Condemned, Stored
    <2>6. Hot(r, a)' BY <1>1, <2>1, GotoIs DEF Hot, Unread
    <2> QED BY <2>4, <2>5, <2>6 DEF Tells
  <1>18. CASE SaveSuccess(r, a)
    <2>1. ~Owes(r, a) /\ Finish(r, a) /\ UNCHANGED <<row, token>>
      BY <1>18 DEF SaveSuccess, WriteFrame, Owes, Unsaved
    <2> QED BY <1>1, <2>1, EndQuiet
  <1> QED BY <1>8, <1>9, <1>10, <1>11, <1>12, <1>13, <1>14, <1>15, <1>16, <1>17, <1>18 DEF Refresh

LEMMA RefreshKeeps ==
  ASSUME IInv, TypeOK', NEW r \in Runner, NEW a \in Account, Refresh(r, a) \/ AskFails(r, a)
  PROVE  Separate' /\ Serial' /\ Kept'
  <1>1. TypeOK /\ Separate /\ Serial /\ Kept BY DEF IInv
  <1>2. Separate' BY <1>1, RefreshSeparate
  <1>3. /\ Hot(r, a) /\ disturbed \subseteq disturbed'
        /\ \A q \in Runner, b \in Account : <<q, b>> # <<r, a>> => job'[q][b] = job[q][b]
    BY <1>1, RefreshIs DEF Disturb
  <1>4. \A b \in Account : Clean(b)' => Clean(b) BY <1>3 DEF Clean
  <1>5. \A q \in Runner, b \in Account : Hot(q, b)' => Hot(q, b) BY <1>3 DEF Hot
  <1>6. Serial' BY <1>1, <1>4, <1>5, CanonicalIs DEF Serial, SameUser
  <1>7. ASSUME NEW b \in Account, Clean(b)' PROVE KeptAt(b)'
    <2>1. KeptAt(b) BY <1>1, <1>4, <1>7 DEF Kept
    <2>2. CASE Canonical[b] # Canonical[a] BY <1>1, <2>1, <2>2, OthersQuiet, QuietKept
    <2>3. CASE Canonical[b] = Canonical[a]
      <3>1. b \in SameUser(a) /\ Clean(a)' BY <1>7, <2>3 DEF SameUser, Clean
      <3>2. CASE QuietAt(b) BY <1>1, <2>1, <3>2, QuietKept
      <3>3. CASE Tells(r, a)
        <4>1. \A q \in Runner, c \in SameUser(a) : Hot(q, c)' => q = r /\ c = a
          BY <1>1, <1>3, <1>4, <1>5, <3>1, CanonicalIs DEF Serial
        <4> QED BY <3>1, <3>3, <4>1, JobTells DEF Tells
      <3> QED BY <3>1, <3>2, <3>3, OwnKept
    <2> QED BY <2>2, <2>3
  <1> QED BY <1>2, <1>6, <1>7 DEF Kept

-----------------------------------------------------------------------------
(* Refreshes that begin, and imports *)

\* A run begins with the accounts C as they are stored; of a user that stays undisturbed
\* it takes one at most, and no refresh of the user is under way.
LEMMA BeginKeeps ==
  ASSUME IInv, TypeOK', UNCHANGED <<row, token>>, disturbed \subseteq disturbed',
         NEW r \in Runner, NEW C \in SUBSET Account,
         \A a \in C : Stored(a) /\ job'[r][a] = Queued(a),
         \A q \in Runner, a \in Account : q # r => job'[q][a] = job[q][a],
         \A a \in Account \ C : job'[r][a] = job[r][a] \/ (~Hot(r, a)' /\ ~Owes(r, a)),
         \A a \in C : Clean(a)' =>
            /\ \A q \in Runner, b \in SameUser(a) : ~Hot(q, b)
            /\ \A b \in C : b \in SameUser(a) => b = a
  PROVE  Separate' /\ Serial' /\ Kept'
  <1>1. TypeOK /\ RowsTyped /\ Separate /\ Serial /\ Kept BY DEF IInv, TypeOK
  <1>2. ASSUME NEW q \in Runner, NEW a \in Account, Hot(q, a)', ~(q = r /\ a \in C)
        PROVE  job'[q][a] = job[q][a] /\ Hot(q, a)
    BY <1>2 DEF Hot
  <1>3. \A a \in C : /\ job'[r][a].pc = "queued" /\ job'[r][a].rt = row[a].rt
                     /\ job'[r][a].new = 0
    BY <1>1, QueuedIs
  <1>4. \A b \in Account : Clean(b)' => Clean(b) BY DEF Clean
  <1>5. Separate'
    <2>1. ASSUME NEW a \in Account, NEW t \in Token, Holds(a, t)' PROVE Holds(a, t)
      <3>1. CASE Stored(a)' /\ row'[a].rt = t BY <3>1 DEF Holds, Stored
      <3>2. ASSUME NEW q \in Runner, Hot(q, a)', t \in {job'[q][a].rt, job'[q][a].new}
            PROVE  Holds(a, t)
        <4>1. CASE q = r /\ a \in C BY <1>3, <3>2, <4>1, BoundAssumption DEF Holds, Token
        <4>2. CASE ~(q = r /\ a \in C) BY <1>2, <3>2, <4>2 DEF Holds
        <4> QED BY <4>1, <4>2
      <3> QED BY <2>1, <3>1, <3>2 DEF Holds
    <2>2. \A a \in Account : a \in SameUser(a) BY CanonicalIs
    <2> QED BY <1>1, <2>1, <2>2, HandedOn
  <1>6. ASSUME NEW a \in Account, Clean(a)', NEW c \in C, c \in SameUser(a)
        PROVE  /\ \A q \in Runner, b \in SameUser(a) : Hot(q, b)' => q = r /\ b = c
               /\ KeptAt(a)'
    <2>1. Clean(c)' /\ SameUser(c) = SameUser(a) /\ a \in SameUser(c)
          /\ \A b \in SameUser(a) : b \in Account /\ Clean(b)'
      BY <1>6, CanonicalIs DEF Clean
    <2>2. \A q \in Runner, b \in SameUser(a) : ~Hot(q, b) BY <1>6, <2>1
    <2>3. \A q \in Runner, b \in SameUser(a) : Hot(q, b)' => q = r /\ b = c
      BY <1>2, <1>6, <2>1, <2>2
    <2>4. \A b \in SameUser(a) : Stored(b) => RowKept(b)
      BY <1>1, <1>4, <2>1 DEF Kept, KeptAt
    <2>5. Stored(c) /\ Hot(r, c)' BY <1>3 DEF Hot, Unread
    <2>6. \A b \in SameUser(a) : Stored(b) => b = c
      BY <1>6, <2>1, <2>2, <2>4, <2>5 DEF RowKept, OnlyRow, Hot, Unread
    <2>7. token[row[c].rt] # "rotated"
      BY <1>6, <2>1, <2>2, <2>4, <2>5 DEF RowKept, Succeeded, Hot, Unsaved, Unread
    <2>8. JobKept(r, c)'
      BY <1>3, <2>1, <2>6, <2>7 DEF JobKept, Stored, SameUser, Rejected, Accepted
    <2>9. \A b \in SameUser(c) : Stored(b)' => Condemned(b)'
      BY <2>1, <2>4 DEF RowKept, Condemned, Stored
    <2> QED BY <2>1, <2>3, <2>5, <2>8, <2>9, JobTells
  <1>7. ASSUME NEW a \in Account, \A c \in C : c \notin SameUser(a)
        PROVE  /\ \A q \in Runner, b \in SameUser(a) : Hot(q, b)' => Hot(q, b)
               /\ QuietAt(a)
    <2>1. \A b \in SameUser(a) : b \in Account \ C BY <1>7, CanonicalIs
    <2> QED BY <1>2, <2>1 DEF QuietAt
  <1>8. ASSUME NEW a \in Account, Clean(a)'
        PROVE  /\ KeptAt(a)'
               /\ \A b \in SameUser(a), p, q \in Runner : Hot(p, a)' /\ Hot(q, b)' => q = p /\ b = a
    <2>1. a \in SameUser(a) BY CanonicalIs
    <2>2. CASE \E c \in C : c \in SameUser(a) BY <1>6, <1>8, <2>1, <2>2
    <2>3. CASE \A c \in C : c \notin SameUser(a)
      <3>1. Clean(a) /\ KeptAt(a) BY <1>1, <1>4, <1>8 DEF Kept
      <3> QED BY <1>1, <1>7, <2>1, <2>3, <3>1, QuietKept DEF Serial
    <2> QED BY <2>2, <2>3
  <1> QED BY <1>5, <1>8 DEF Serial, Kept, SameUser

\* At most one run has the lock and keeps it, so every other one that is under way
\* overlaps.
LEMMA OverlapIs ==
  ASSUME LockTyped, NEW r \in Runner, NEW a \in Account, ~Overlaps(r, a)
  PROVE  \A q \in Runner, b \in SameUser(a) : Hot(q, b) => q = r
  <1>1. \A q \in Runner : q # r => ~({q, r} \subseteq locked) BY DEF LockTyped
  <1> QED BY <1>1 DEF Overlaps, Hot

LEMMA ListKeeps ==
  ASSUME IInv, TypeOK', NEW c \in Cycle, List(c)
  PROVE  Separate' /\ Serial' /\ Kept'
  <1>1. TypeOK /\ JobsTyped /\ LockTyped /\ PhaseTyped /\ c \in Runner
    BY DEF IInv, TypeOK, Runner
  <1>2. UNCHANGED <<row, token>> BY DEF List
  <1>3. \A a \in Account : ~Active(c, a) /\ ~Hot(c, a) /\ ~Owes(c, a)
    BY <1>1 DEF List, JobsTyped, Active, Hot, Owes, Unsaved
  <1>4. CASE UNCHANGED <<job, disturbed>>
    <2>1. Quiet BY <1>2, <1>4, RowsStay DEF Quiet
    <2> QED BY <2>1, QuietStep
  <1>5. ASSUME NEW force \in BOOLEAN, NEW C, C = {a \in Account : Candidate(a, force)},
               job' = [job EXCEPT ![c] = [a \in Account |-> IF a \in C THEN Queued(a) ELSE NoJob]],
               disturbed' = disturbed \cup
                   {Canonical[a] : a \in {b \in C : Overlaps(c, b) \/ (C \cap SameUser(b)) # {b}}}
        PROVE  Separate' /\ Serial' /\ Kept'
    <2>1. C \in SUBSET Account /\ \A a \in C : Stored(a) BY <1>5 DEF Candidate
    <2>2. /\ \A a \in C : job'[c][a] = Queued(a)
          /\ \A a \in Account \ C : job'[c][a] = NoJob
          /\ \A q \in Runner, a \in Account : q # c => job'[q][a] = job[q][a]
      BY <1>1, <1>5, <2>1 DEF JobsTyped
    <2>3. \A a \in Account \ C : ~Hot(c, a)' BY <2>2, NoJobIs DEF Hot
    <2>4. ASSUME NEW a \in C, Clean(a)'
          PROVE  /\ \A q \in Runner, b \in SameUser(a) : ~Hot(q, b)
                 /\ \A b \in C : b \in SameUser(a) => b = a
      <3>1. ~Overlaps(c, a) /\ C \cap SameUser(a) = {a} BY <1>5, <2>4 DEF Clean
      <3>2. \A b \in SameUser(a) : b \in Account BY <2>1, CanonicalIs
      <3> QED BY <1>1, <1>3, <2>1, <3>1, <3>2, OverlapIs
    <2>5. disturbed \subseteq disturbed' BY <1>5
    <2> QED BY <1>1, <1>2, <1>3, <2>1, <2>2, <2>3, <2>4, <2>5, BeginKeeps
  <1>6. CASE ~UNCHANGED <<job, disturbed>>
    <2>1. PICK force \in BOOLEAN :
             LET C == {a \in Account : Candidate(a, force)}
             IN  /\ job' = [job EXCEPT ![c] = [a \in Account |-> IF a \in C THEN Queued(a) ELSE NoJob]]
                 /\ disturbed' = disturbed \cup
                        {Canonical[a] : a \in {b \in C : Overlaps(c, b) \/ (C \cap SameUser(b)) # {b}}}
      BY <1>6 DEF List
    <2> QED BY <1>5, <2>1
  <1> QED BY <1>4, <1>6

LEMMA LoadKeeps ==
  ASSUME IInv, TypeOK', NEW m \in Manual, NEW a \in Account, Load(m, a)
  PROVE  Separate' /\ Serial' /\ Kept'
  <1>1. TypeOK /\ JobsTyped /\ m \in Runner BY DEF IInv, TypeOK, Runner
  <1>2. UNCHANGED <<row, token>> /\ job[m][a].pc \in Unread BY DEF Load
  <1>3. \A j : SetJob(m, a, j) =>
           /\ job'[m][a] = j
           /\ \A q \in Runner, b \in Account : <<q, b>> # <<m, a>> => job'[q][b] = job[q][b]
    BY <1>1, JobIs
  <1>4. CASE Finish(m, a) /\ UNCHANGED disturbed
    <2>1. ~Hot(m, a)' /\ ~Owes(m, a)
      BY <1>2, <1>3, <1>4, NoJobIs DEF Finish, Hot, Owes, Unsaved, Unread
    <2>2. Quiet BY <1>2, <1>3, <1>4, <2>1, RowsStay DEF Quiet, Finish
    <2> QED BY <2>2, QuietStep
  <1>5. CASE /\ Candidate(a, job[m][a].pc = "unreadForce") /\ SetJob(m, a, Queued(a))
             /\ IF \E r \in Runner, b \in SameUser(a) : <<r, b>> # <<m, a>>
                                   /\ job[r][b].pc \notin {"none"} \cup Unread
                THEN Disturb(a) ELSE UNCHANGED disturbed
    <2>1. Stored(a) BY <1>5 DEF Candidate
    <2>2. disturbed \subseteq disturbed' BY <1>5 DEF Disturb
    <2>3. ASSUME Clean(a)', NEW q \in Runner, NEW b \in SameUser(a) PROVE ~Hot(q, b)
      <3>1. ~ \E r \in Runner, d \in SameUser(a) : <<r, d>> # <<m, a>>
                                   /\ job[r][d].pc \notin {"none"} \cup Unread
        BY <1>5, <2>3 DEF Clean, Disturb
      <3> QED BY <1>2, <3>1 DEF Hot
    <2>4. /\ \A b \in {a} : Stored(b) /\ job'[m][b] = Queued(b)
          /\ \A q \in Runner, b \in Account : q # m => job'[q][b] = job[q][b]
          /\ \A b \in Account \ {a} : job'[m][b] = job[m][b]
      BY <1>1, <1>3, <1>5, <2>1
    <2>5. \A b \in {a} : Clean(b)' =>
            /\ \A q \in Runner, d \in SameUser(b) : ~Hot(q, d)
            /\ \A d \in {a} : d \in SameUser(b) => d = b
      BY <2>3
    <2>6. {a} \in SUBSET Account OBVIOUS
    <2> QED BY <1>1, <1>2, <2>2, <2>4, <2>5, <2>6, BeginKeeps
  <1> QED BY <1>4, <1>5 DEF Load

LEMMA ImportKeeps ==
  ASSUME IInv, NEW a \in Account, Import(a)
  PROVE  Separate' /\ Serial' /\ Kept'
  <1>1. TypeOK /\ RowsTyped /\ TokensTyped /\ JobsTyped /\ Separate /\ Serial /\ Kept
    BY DEF IInv, TypeOK
  <1>2. PICK t \in Token, sso \in BOOLEAN :
           /\ Fresh(t) /\ token' = [token EXCEPT ![t] = "live"]
           /\ row' = [b \in Account |->
                  IF b = a THEN [rt |-> t, invalid |-> FALSE, due |-> FALSE,
                                 sso |-> sso \/ \E d \in SameUser(a) : Stored(d) /\ row[d].sso]
                  ELSE IF b \in SameUser(a) THEN NoRow ELSE row[b]]
    BY DEF Import
  <1>3. /\ token[t] = "unissued" /\ token'[t] = "live"
        /\ \A u \in Token \ {t} : token'[u] = token[u]
    BY <1>1, <1>2 DEF Fresh, TokensTyped
  <1>4. row'[a].rt = t /\ row'[a].invalid = FALSE BY <1>2
  <1>5. \A b \in Account \ {a} : row'[b] = IF b \in SameUser(a) THEN NoRow ELSE row[b]
    BY <1>2
  <1>6. UNCHANGED job /\ disturbed \subseteq disturbed' BY DEF Import, Disturb
  <1>7. \A b \in Account : Clean(b)' => Clean(b) BY <1>6 DEF Clean
  <1>8. Separate'
    <2>1. \A u \in Token : token[u] # "unissued" => token'[u] # "unissued" BY <1>3
    <2>2. ASSUME NEW b \in Account, NEW u \in Token, Holds(b, u)'
          PROVE  Holds(b, u) \/ (u = t /\ b = a)
      <3>1. CASE Stored(b)' /\ row'[b].rt = u BY <1>4, <1>5, <3>1 DEF Holds, Stored
      <3>2. CASE \E r \in Runner : Hot(r, b)' /\ u \in {job'[r][b].rt, job'[r][b].new}
        BY <1>6, <3>2 DEF Holds, Hot
      <3> QED BY <2>2, <3>1, <3>2 DEF Holds
    <2>3. \A b \in Account : b \in SameUser(b) BY CanonicalIs
    <2> QED BY <1>1, <1>3, <2>1, <2>2, <2>3, HandedOn
  <1>9. Serial' BY <1>1, <1>6, <1>7 DEF Serial, Hot, SameUser
  <1>10. ASSUME NEW b \in Account, Clean(b)' PROVE KeptAt(b)'
    <2>1. KeptAt(b) BY <1>1, <1>7, <1>10 DEF Kept
    <2>2. CASE b \notin SameUser(a)
      <3>1. \A d \in SameUser(b) : d \in Account \ {a} /\ d \notin SameUser(a)
        BY <2>2, CanonicalIs DEF SameUser
      <3>2. \A d \in SameUser(b), u \in Token : Holds(d, u) => u # t
        BY <1>1, <1>3, <3>1 DEF Separate
      <3>3. QuietAt(b) BY <1>3, <1>5, <1>6, <3>1, <3>2 DEF QuietAt
      <3> QED BY <1>1, <2>1, <3>3, QuietKept
    <2>3. CASE b \in SameUser(a)
      <3>1. Clean(a)' /\ SameUser(b) = SameUser(a) BY <1>10, <2>3, CanonicalIs DEF Clean
      <3>2. \A r \in Runner, d \in SameUser(a) : ~Hot(r, d)
        BY <3>1 DEF Import, Disturb, Clean, Hot
      <3>3. \A r \in Runner : ~Hot(r, b)' BY <1>6, <2>3, <3>2 DEF Hot
      <3>4. \A d \in SameUser(a) : Stored(d)' => d = a BY <1>5, CanonicalIs DEF Stored
      <3>5. CASE b = a
        <4>1. Succeeded(a)' BY <1>3, <1>4 DEF Succeeded
        <4>2. Condemned(a)' BY <1>4 DEF Condemned
        <4>3. OnlyRow(a)' BY <3>4 DEF OnlyRow, SameUser
        <4> QED BY <3>3, <3>5, <4>1, <4>2, <4>3 DEF KeptAt, RowKept
      <3>6. CASE b # a BY <2>3, <3>3, <3>4, <3>6 DEF KeptAt
      <3> QED BY <3>5, <3>6
    <2> QED BY <2>2, <2>3
  <1> QED BY <1>8, <1>9, <1>10 DEF Kept

-----------------------------------------------------------------------------
(* The theorem *)

LEMMA InitKept == ASSUME Init PROVE IInv
  <1>1. TypeOK BY InitTyped
  <1>2. \A r \in Runner, b \in Account : job[r][b] = NoJob BY DEF Init
  <1>3. \A r \in Runner, b \in Account : ~Hot(r, b) BY <1>2, NoJobIs DEF Hot
  <1>4. PICK a \in Account :
           row = [b \in Account |-> IF b = a THEN [rt |-> 1, sso |-> FALSE, invalid |-> FALSE,
                                                   due |-> FALSE] ELSE NoRow]
    BY DEF Init
  <1>5. /\ \A b \in Account : Stored(b) => b = a
        /\ row[a].rt = 1 /\ row[a].invalid = FALSE
    BY <1>4 DEF Stored
  <1>6. token[1] = "live" BY BoundAssumption DEF Init, Token
  <1>7. Separate BY <1>3, <1>5, <1>6 DEF Separate, Holds
  <1>8. Serial BY <1>3 DEF Serial
  <1>9. Kept
    <2>1. RowKept(a) BY <1>5, <1>6, CanonicalIs DEF RowKept, Succeeded, Condemned, OnlyRow
    <2> QED BY <1>3, <1>5, <2>1 DEF Kept, KeptAt
  <1> QED BY <1>1, <1>7, <1>8, <1>9 DEF IInv

LEMMA StepKept == ASSUME IInv, [Next]_vars PROVE IInv'
  <1>1. TypeOK /\ TypeOK' BY TypeStep DEF IInv
  <1>2. Separate' /\ Serial' /\ Kept'
    <2>1. ASSUME NEW c \in Cycle, StartCycle(c) \/ RunCycle(c) \/ AcquireFails(c) \/ Defer(c)
          PROVE  Separate' /\ Serial' /\ Kept'
      <3>1. CASE List(c) BY <1>1, <3>1, ListKeeps
      <3>2. CASE StartCycle(c) \/ Acquire(c) \/ AcquireFails(c) \/ Defer(c) \/ EndCycle(c)
        BY <1>1, <3>2, CyclesQuiet, QuietStep
      <3> QED BY <2>1, <3>1, <3>2 DEF RunCycle
    <2>2. ASSUME NEW m \in Manual, StartManual(m) \/ RunManual(m)
          PROVE  Separate' /\ Serial' /\ Kept'
      <3>1. CASE StartManual(m) \/ EndManual(m) BY <1>1, <3>1, ManualsQuiet, QuietStep
      <3>2. ASSUME NEW a \in Account, Load(m, a) PROVE Separate' /\ Serial' /\ Kept'
        BY <1>1, <3>2, LoadKeeps
      <3> QED BY <2>2, <3>1, <3>2 DEF RunManual
    <2>3. ASSUME NEW r \in Runner, Crash(r) PROVE Separate' /\ Serial' /\ Kept'
      BY <1>1, <2>3, CrashQuiet, QuietStep
    <2>4. ASSUME NEW r \in Runner, NEW a \in Account, Refresh(r, a) \/ AskFails(r, a)
          PROVE  Separate' /\ Serial' /\ Kept'
      BY <1>1, <2>4, RefreshKeeps
    <2>5. ASSUME NEW a \in Account, Import(a) PROVE Separate' /\ Serial' /\ Kept'
      BY <2>5, ImportKeeps
    <2>6. CASE \/ Expire \/ UNCHANGED vars \/ \E r \in Runner : Cancel(r)
               \/ \E a \in Account : Age(a) \/ AdminDelete(a)
               \/ \E t \in Token : Revoke(t)
      BY <1>1, <2>6, WorldQuiet, QuietStep
    <2> QED BY <2>1, <2>2, <2>3, <2>4, <2>5, <2>6 DEF Next
  <1> QED BY <1>1, <1>2 DEF IInv

LEMMA KeptIs == ASSUME IInv PROVE LoginKept
  <1>1. SUFFICES ASSUME NEW a \in Account, Clean(a)
                 PROVE  /\ Stored(a) =>
                             /\ token[row[a].rt] = "rotated" =>
                                  \E r \in Runner, b \in SameUser(a) :
                                      Unsaved(r, b) /\ job[r][b].rt = row[a].rt
                             /\ row[a].invalid => token[row[a].rt] = "revoked"
                        /\ \A r \in Runner : job[r][a].pc \in Rejected =>
                             /\ token[job[r][a].rt] = "revoked"
                             /\ Stored(a) => row[a].rt = job[r][a].rt
    BY DEF LoginKept, Clean
  <1>2. KeptAt(a) /\ a \in SameUser(a) BY <1>1, CanonicalIs DEF IInv, Kept
  <1>3. ASSUME NEW r \in Runner, job[r][a].pc \in Rejected
        PROVE  token[job[r][a].rt] = "revoked" /\ (Stored(a) => row[a].rt = job[r][a].rt)
    <2>1. JobKept(r, a) BY <1>2, <1>3 DEF KeptAt, Hot, Rejected, Unread
    <2> QED BY <1>2, <1>3, <2>1 DEF JobKept, Rejected
  <1> QED BY <1>2, <1>3 DEF KeptAt, RowKept, Succeeded, Condemned

\* Where nothing was lost and only the maintenance lock separates the refreshes of a user,
\* no stored token is one that was exchanged and forgotten, and none is condemned that was
\* not revoked: for any number of cycles, selected renewals, accounts, users and tokens,
\* through failed calls, cancellations, crashes and an expiring lock.
THEOREM LoginsKept == Spec => []LoginKept
  <1>1. Init => IInv BY InitKept
  <1>2. IInv /\ [Next]_vars => IInv' BY StepKept
  <1>3. IInv => LoginKept BY KeptIs
  <1> QED BY <1>1, <1>2, <1>3, PTL DEF Spec

=============================================================================
