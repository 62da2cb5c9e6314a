--------------------------- MODULE EnrolmentProofs ---------------------------
(***************************************************************************)
(* Theorems about Enrolment: the slots and tokens of the captcha solver,   *)
(* the accounts xAI has made, and that a worker keeps what RegSession      *)
(* promises of its session.                                                *)
(*                                                                         *)
(* A step is of one worker, so the invariant is Kept(w) for each of them:  *)
(* which end the session shows, whether the pool has the account and       *)
(* whether a fresh token is at hand follow from where the worker is.       *)
(* Almost every action does one of three things, whatever else it does:    *)
(* Moved, Aborted or Failed.  What these do to the invariant and to the    *)
(* session is shown once for each; the actions are shown to be of a kind.  *)
(***************************************************************************)
EXTENDS Enrolment, FiniteSetTheorems, TLAPS

Place == {"begin", "solver", "queued", "solving", "sending", "mail", "resending", "remail",
          "verify", "creating", "retrying", "accepted", "fetching", "cookie", "login", "importing",
          "storing", "pushing", "settle", "probing", "ended"}
Purpose == {"first", "alt", "refresh", "signin"}
Ended == {"imported", "error", "cancelled"}
Record == [st : {"open", "stopping"} \cup Ended, cancel : BOOLEAN, created : BOOLEAN]

Typed ==
    /\ at \in [Worker -> Place] /\ use \in [Worker -> Purpose]
    /\ token \in [Worker -> {"none", "new", "used"}]
    /\ sess \in [Worker -> Record] /\ slots \in Int
    /\ remote \in [Worker -> BOOLEAN] /\ silent \in [Worker -> BOOLEAN]
    /\ pool \in [Worker -> {"none", "on", "off", "quota"}]

InPool == {"pushing", "settle", "probing"}
\* From the captcha to the call of create_account that it is for.
Spending == {"sending", "resending", "mail", "remail", "verify", "creating"}

Kept(w) ==
    /\ at[w] = "ended" <=> sess[w].st \in Ended
    /\ sess[w].st = "stopping" => sess[w].cancel
    /\ at[w] \in InPool => pool[w] # "none"
    /\ at[w] \notin InPool \cup {"ended"} => pool[w] = "none"
    /\ at[w] \in Spending => token[w] = "new"
    /\ remote[w] /\ ~silent[w] /\ ~sess[w].created =>
         at[w] = "accepted" \/ sess[w].st = "cancelled"

-----------------------------------------------------------------------------
(* What a step does to its worker *)

Only(f, w) == f' = [f EXCEPT ![w] = f'[w]]

\* The slots follow the worker.
Slotted(w) ==
    \/ slots' = slots /\ (at[w] = "solving" <=> at'[w] = "solving")
    \/ slots' = slots + 1 /\ at[w] = "solving" /\ at'[w] # "solving"
    \/ slots' = slots - 1 /\ at[w] # "solving" /\ at'[w] = "solving"

Local(w) ==
    /\ Only(at, w) /\ at'[w] \in Place /\ Only(use, w) /\ use'[w] \in Purpose
    /\ Only(token, w) /\ token'[w] \in {"none", "new", "used"}
    /\ Only(sess, w) /\ sess'[w] \in Record
    /\ Only(remote, w) /\ remote'[w] \in BOOLEAN /\ Only(silent, w) /\ silent'[w] \in BOOLEAN
    /\ Only(pool, w) /\ pool'[w] \in {"none", "on", "off", "quota"}
    /\ Slotted(w)

\* xAI has not taken the account, or in silence.
Answered(w) ==
    \/ remote'[w] = remote[w] /\ silent'[w] = silent[w]
    \/ silent'[w] = TRUE

Moved(w) ==
    /\ Local(w) /\ sess'[w] = sess[w] /\ pool'[w] = pool[w] /\ Answered(w)
    /\ at[w] \notin {"ended", "accepted"} /\ at'[w] # "ended"
    /\ at'[w] \in InPool <=> at[w] \in InPool
    /\ at'[w] \in Spending => token'[w] = "new"

Aborted(w) ==
    /\ Local(w) /\ pool'[w] = pool[w] /\ Answered(w)
    /\ at[w] # "ended" /\ at'[w] = "ended" /\ Cancelled(w)
    /\ sess'[w].st = "cancelled" /\ sess'[w].cancel = TRUE

Failed(w) ==
    /\ Local(w) /\ pool'[w] = pool[w] /\ Answered(w)
    /\ at[w] \notin {"ended", "accepted"} /\ at'[w] = "ended"
    /\ sess'[w].st = "error" /\ sess'[w].cancel = sess[w].cancel
    /\ sess'[w].created = sess[w].created

-----------------------------------------------------------------------------
(* The session as RegSession sees it *)

Phase(w) == IF sess[w].st = "stopping" THEN "open" ELSE sess[w].st

\* One worker's part of a step of RegSession.
Told(w) ==
    \/ /\ Phase(w)' = Phase(w) /\ (pool'[w] # "none" <=> pool[w] # "none")
       /\ sess'[w].cancel = sess[w].cancel
    \/ /\ Phase(w) = "open" /\ Phase(w)' = "open" /\ sess'[w].cancel = TRUE
       /\ (pool'[w] # "none" <=> pool[w] # "none")
    \/ /\ Phase(w) = "open" /\ Phase(w)' = "open" /\ pool[w] = "none" /\ pool'[w] # "none"
       /\ sess'[w].cancel = sess[w].cancel
    \/ /\ Phase(w) = "open" /\ Phase(w)' \in Ended
       /\ Phase(w)' = "imported" => pool[w] # "none"
       /\ Phase(w)' = "cancelled" => sess[w].cancel = TRUE
       /\ (pool'[w] # "none" <=> pool[w] # "none") /\ sess'[w].cancel = sess[w].cancel

Good(w) == Local(w) /\ Kept(w)' /\ Told(w)

LEMMA MovedGood == ASSUME Typed, NEW w \in Worker, Kept(w), Moved(w) PROVE Good(w)
  <1>1. Kept(w)' BY DEF Moved, Answered, Kept, Typed, InPool, Spending
  <1>2. Told(w) BY DEF Moved, Told, Phase
  <1> QED BY <1>1, <1>2 DEF Good, Moved

LEMMA AbortedGood == ASSUME Typed, NEW w \in Worker, Kept(w), Aborted(w) PROVE Good(w)
  <1>1. Kept(w)' BY DEF Aborted, Kept, InPool, Spending, Ended
  <1>2. sess[w] \in Record BY DEF Typed
  <1>3. sess[w].st \in {"open", "stopping"} /\ sess[w].cancel = TRUE
    BY <1>2 DEF Aborted, Cancelled, Kept, Record, Ended
  <1>4. Told(w) BY <1>3 DEF Aborted, Told, Phase, Ended
  <1> QED BY <1>1, <1>4 DEF Good, Aborted

LEMMA FailedGood == ASSUME Typed, NEW w \in Worker, Kept(w), Failed(w) PROVE Good(w)
  <1>1. Kept(w)' BY DEF Failed, Answered, Kept, InPool, Spending, Ended
  <1>2. sess[w] \in Record BY DEF Typed
  <1>3. sess[w].st \in {"open", "stopping"} BY <1>2 DEF Failed, Kept, Record, Ended
  <1>4. Told(w) BY <1>3 DEF Failed, Told, Phase, Ended
  <1> QED BY <1>1, <1>4 DEF Good, Failed

-----------------------------------------------------------------------------
(* The parts of an action *)

LEMMA Still ==
  ASSUME Typed, NEW w \in Worker
  PROVE  /\ UNCHANGED at => Only(at, w) /\ at'[w] = at[w] /\ at'[w] \in Place
         /\ UNCHANGED use => Only(use, w) /\ use'[w] = use[w] /\ use'[w] \in Purpose
         /\ UNCHANGED token =>
              Only(token, w) /\ token'[w] = token[w] /\ token'[w] \in {"none", "new", "used"}
         /\ UNCHANGED sess => Only(sess, w) /\ sess'[w] = sess[w] /\ sess'[w] \in Record
         /\ UNCHANGED remote => Only(remote, w) /\ remote'[w] = remote[w] /\ remote'[w] \in BOOLEAN
         /\ UNCHANGED silent => Only(silent, w) /\ silent'[w] = silent[w] /\ silent'[w] \in BOOLEAN
         /\ UNCHANGED pool => Only(pool, w) /\ pool'[w] = pool[w]
                              /\ pool'[w] \in {"none", "on", "off", "quota"}
  BY DEF Typed, Only

LEMMA Sets ==
  ASSUME Typed, NEW w \in Worker, NEW v
  PROVE  /\ Set(at, w, v) => Only(at, w) /\ at'[w] = v
         /\ Set(use, w, v) => Only(use, w) /\ use'[w] = v
         /\ Set(token, w, v) => Only(token, w) /\ token'[w] = v
         /\ Set(remote, w, v) => Only(remote, w) /\ remote'[w] = v
         /\ Set(silent, w, v) => Only(silent, w) /\ silent'[w] = v
         /\ Set(pool, w, v) => Only(pool, w) /\ pool'[w] = v
  BY DEF Typed, Only, Set

LEMMA GotoIs ==
  ASSUME Typed, NEW w \in Worker, NEW p \in Place, Goto(w, p)
  PROVE  Only(at, w) /\ at'[w] = p /\ at'[w] \in Place /\ UNCHANGED <<use, token>>
  BY Sets DEF Goto

LEMMA SolveIs ==
  ASSUME Typed, NEW w \in Worker, NEW u \in Purpose, NEW k, Solve(w, u, k)
  PROVE  /\ Only(at, w) /\ at'[w] = "queued" /\ at'[w] \in Place
         /\ Only(use, w) /\ use'[w] \in Purpose /\ UNCHANGED token
  BY Sets DEF Solve, Place

LEMMA AbortIs ==
  ASSUME Typed, NEW w \in Worker, sess' = [sess EXCEPT ![w].st = "cancelled", ![w].cancel = TRUE]
  PROVE  /\ Only(sess, w) /\ sess'[w] \in Record
         /\ sess'[w].st = "cancelled" /\ sess'[w].cancel = TRUE
  <1> DEFINE s == [sess[w] EXCEPT !.st = "cancelled", !.cancel = TRUE]
  <1>1. sess' = [sess EXCEPT ![w] = s] /\ sess'[w] = s BY DEF Typed
  <1>2. s \in Record /\ s.st = "cancelled" /\ s.cancel = TRUE BY DEF Typed, Record, Ended
  <1> QED BY <1>1, <1>2 DEF Only

LEMMA StatusIs ==
  ASSUME Typed, NEW w \in Worker, NEW st \in Ended, sess' = [sess EXCEPT ![w].st = st]
  PROVE  /\ Only(sess, w) /\ sess'[w] \in Record /\ sess'[w].st = st
         /\ sess'[w].cancel = sess[w].cancel /\ sess'[w].created = sess[w].created
  <1> DEFINE s == [sess[w] EXCEPT !.st = st]
  <1>1. sess' = [sess EXCEPT ![w] = s] /\ sess'[w] = s BY DEF Typed
  <1>2. /\ s \in Record /\ s.st = st
        /\ s.cancel = sess[w].cancel /\ s.created = sess[w].created
    BY DEF Typed, Record, Ended
  <1> QED BY <1>1, <1>2 DEF Only

\* A worker that is at the solver leaves it, and gives its slot back.
LeavesSlot(w) == slots' = IF at[w] = "solving" THEN slots + 1 ELSE slots

LEMMA Stops ==
  ASSUME Typed, NEW w \in Worker, Kept(w), Cancelled(w), at[w] # "ended", Abort(w),
         LeavesSlot(w), UNCHANGED <<remote, silent, pool>>
  PROVE  Good(w)
  <1>1. Only(at, w) /\ at'[w] = "ended" /\ UNCHANGED <<use, token>>
    BY GotoIs DEF Abort, Place
  <1>2. /\ Only(sess, w) /\ sess'[w] \in Record
        /\ sess'[w].st = "cancelled" /\ sess'[w].cancel = TRUE
    BY AbortIs DEF Abort
  <1>3. Slotted(w) BY <1>1 DEF Slotted, LeavesSlot
  <1>4. Aborted(w) BY <1>1, <1>2, <1>3, Still DEF Aborted, Answered, Local, Place
  <1> QED BY <1>4, AbortedGood

LEMMA Breaks ==
  ASSUME Typed, NEW w \in Worker, Kept(w), at[w] \notin {"ended", "accepted"}, Fail(w),
         Only(remote, w), remote'[w] \in BOOLEAN, Only(silent, w), silent'[w] \in BOOLEAN,
         Answered(w), LeavesSlot(w), UNCHANGED pool
  PROVE  Good(w)
  <1>1. Only(at, w) /\ at'[w] = "ended" /\ UNCHANGED <<use, token>>
    BY GotoIs DEF Fail, Place
  <1>2. /\ Only(sess, w) /\ sess'[w] \in Record /\ sess'[w].st = "error"
        /\ sess'[w].cancel = sess[w].cancel /\ sess'[w].created = sess[w].created
    BY StatusIs DEF Fail, Ended
  <1>3. Slotted(w) BY <1>1 DEF Slotted, LeavesSlot
  <1>4. Failed(w) BY <1>1, <1>2, <1>3, Still DEF Failed, Local, Place
  <1> QED BY <1>4, FailedGood

\* The worker goes on to a place where the pool is the same and no token is
\* needed that was not needed before.
LEMMA Goes ==
  ASSUME Typed, NEW w \in Worker, Kept(w), at[w] \notin {"ended", "accepted"},
         NEW p \in Place \ {"ended", "solving"}, Set(at, w, p),
         p \in InPool <=> at[w] \in InPool, p \in Spending => at[w] \in Spending,
         LeavesSlot(w), UNCHANGED <<use, token, sess, remote, silent, pool>>
  PROVE  Good(w)
  <1>1. Only(at, w) /\ at'[w] = p BY Sets
  <1>2. Slotted(w) BY <1>1 DEF Slotted, LeavesSlot
  <1>3. Moved(w) BY <1>1, <1>2, Still DEF Moved, Answered, Local, Kept
  <1> QED BY <1>3, MovedGood

LEMMA Queues ==
  ASSUME Typed, NEW w \in Worker, Kept(w), at[w] \notin {"ended", "accepted"} \cup InPool,
         NEW u \in Purpose, NEW k, Solve(w, u, k),
         LeavesSlot(w), UNCHANGED <<sess, remote, silent, pool>>
  PROVE  Good(w)
  <1>1. /\ Only(at, w) /\ at'[w] = "queued" /\ Only(use, w) /\ use'[w] \in Purpose
        /\ UNCHANGED token
    BY SolveIs
  <1>2. Slotted(w) BY <1>1 DEF Slotted, LeavesSlot
  <1>3. Moved(w)
    BY <1>1, <1>2, Still DEF Moved, Answered, Local, Place, InPool, Spending
  <1> QED BY <1>3, MovedGood

\* An attempt broke off, whether xAI has the account or not.
LEMMA Retries ==
  ASSUME Typed, NEW w \in Worker, Kept(w), at[w] = "creating", NEW bad, Retry(w, bad),
         Only(remote, w), remote'[w] \in BOOLEAN, Only(silent, w), silent'[w] \in BOOLEAN,
         Answered(w), UNCHANGED <<slots, pool>>
  PROVE  Good(w)
  <1>1. /\ Only(at, w) /\ at'[w] = "retrying"
        /\ Only(token, w) /\ token'[w] = "used" /\ UNCHANGED <<use, sess>>
    BY Sets DEF Retry
  <1>2. Slotted(w) BY <1>1 DEF Slotted
  <1>3. Moved(w)
    BY <1>1, <1>2, Still DEF Moved, Local, Place, InPool, Spending
  <1> QED BY <1>3, MovedGood

-----------------------------------------------------------------------------
(* The captcha *)

LEMMA FirstSteps ==
  ASSUME Typed, NEW w \in Worker, Kept(w), Begin(w) \/ BeginFails(w) \/ SolverReady(w)
  PROVE  Good(w)
  <1>1. CASE Begin(w)
    <2>1. LeavesSlot(w) BY <1>1 DEF Begin, LeavesSlot
    <2>2. CASE Cancelled(w)
      BY <1>1, <2>1, <2>2, Stops DEF Begin, Checked, xai
    <2>3. CASE ~Cancelled(w)
      BY <1>1, <2>1, <2>3, Goes DEF Begin, Checked, xai, Goto, Place, InPool, Spending
    <2> QED BY <2>2, <2>3
  <1>2. CASE BeginFails(w)
    <2>1. LeavesSlot(w) BY <1>2 DEF BeginFails, LeavesSlot
    <2> QED BY <1>2, <2>1, Breaks, Still DEF BeginFails, xai, Answered
  <1>3. CASE SolverReady(w)
    <2>1. LeavesSlot(w) BY <1>3 DEF SolverReady, LeavesSlot
    <2>2. CASE Cancelled(w)
      BY <1>3, <2>1, <2>2, Stops DEF SolverReady, Checked, xai
    <2>3. CASE ~Cancelled(w)
      BY <1>3, <2>1, <2>3, Queues DEF SolverReady, Checked, xai, Purpose, InPool
    <2> QED BY <2>2, <2>3
  <1> QED BY <1>1, <1>2, <1>3

LEMMA UnsolvedGood ==
  ASSUME Typed, NEW w \in Worker, Kept(w), at[w] \in {"queued", "solving"},
         NEW stopped \in BOOLEAN, stopped => Cancelled(w), Unsolved(w, stopped),
         LeavesSlot(w), UNCHANGED <<xai, pool>>
  PROVE  Good(w)
  <1> USE DEF xai
  <1>0. use[w] \in Purpose BY DEF Typed
  <1>1. CASE use[w] \in {"first", "alt"} /\ stopped
    BY <1>1, Stops DEF Unsolved
  <1>2. CASE use[w] = "first" /\ ~stopped
    <2>1. Checked(w, Solve(w, "alt", 1)) BY <1>2 DEF Unsolved
    <2>2. CASE Cancelled(w) BY <2>1, <2>2, Stops DEF Checked
    <2>3. CASE ~Cancelled(w) BY <2>1, <2>3, Queues DEF Checked, Purpose, InPool
    <2> QED BY <2>2, <2>3
  <1>3. CASE use[w] = "alt" /\ ~stopped
    <2> DEFINE k == n[w] + 1
    <2>1. IF n[w] < Alts THEN Checked(w, Solve(w, "alt", k)) ELSE Fail(w)
      BY <1>3 DEF Unsolved
    <2> HIDE DEF k
    <2>2. CASE n[w] < Alts /\ Cancelled(w) BY <2>1, <2>2, Stops DEF Checked
    <2>3. CASE n[w] < Alts /\ ~Cancelled(w)
      <3>1. Checked(w, Solve(w, "alt", k)) BY <2>1, <2>3
      <3>2. Solve(w, "alt", k) /\ UNCHANGED sess BY <2>3, <3>1 DEF Checked
      <3>3. PICK c : Solve(w, "alt", c) BY <3>2 DEF Solve, Set
      <3> QED BY <3>2, <3>3, Queues DEF Purpose, InPool
    <2>4. CASE ~(n[w] < Alts) BY <2>1, <2>4, Breaks, Still DEF Answered
    <2> QED BY <2>2, <2>3, <2>4
  <1>4. CASE use[w] = "refresh"
    <2>1. Goto(w, "accepted") /\ UNCHANGED sess BY <1>4 DEF Unsolved
    <2> QED BY <2>1, Goes DEF Goto, Place, InPool, Spending
  <1>5. CASE use[w] = "signin"
    <2>1. /\ IF n[w] <= 2 THEN Goto(w, "login")
             ELSE Set(at, w, "cookie") /\ UNCHANGED <<use, token>>
          /\ UNCHANGED sess
      BY <1>5 DEF Unsolved
    <2>2. CASE n[w] <= 2 BY <2>1, <2>2, Goes DEF Goto, Place, InPool, Spending
    <2>3. CASE ~(n[w] <= 2) BY <2>1, <2>3, Goes DEF Place, InPool, Spending
    <2> QED BY <2>2, <2>3
  <1> QED BY <1>0, <1>1, <1>2, <1>3, <1>4, <1>5 DEF Purpose

LEMMA SolvedGood ==
  ASSUME Typed, NEW w \in Worker, Kept(w), Solved(w)
  PROVE  Good(w)
  <1> DEFINE stops == use[w] \in {"first", "alt"} /\ Cancelled(w)
  <1>1. at[w] = "solving" /\ slots' = slots + 1 /\ UNCHANGED <<use, remote, silent, pool>>
    BY DEF Solved, Freed, xai
  <1>2. Only(token, w) /\ token'[w] = IF use[w] = "signin" THEN token[w] ELSE "new"
    BY Sets, Still DEF Solved, Tokened
  <1>3. token'[w] \in {"none", "new", "used"} /\ use[w] \in Purpose BY <1>2 DEF Typed
  <1>4. CASE stops
    <2>1. Only(at, w) /\ at'[w] = "ended" BY <1>4, Sets DEF Solved
    <2>2. /\ Only(sess, w) /\ sess'[w] \in Record
          /\ sess'[w].st = "cancelled" /\ sess'[w].cancel = TRUE
      BY <1>4, AbortIs DEF Solved
    <2>3. Slotted(w) BY <1>1, <2>1 DEF Slotted
    <2>4. Aborted(w)
      BY <1>1, <1>2, <1>3, <1>4, <2>1, <2>2, <2>3, Still DEF Aborted, Answered, Local, Place
    <2> QED BY <2>4, AbortedGood
  <1>5. CASE ~stops
    <2> DEFINE p == CASE use[w] \in {"first", "alt"} -> "sending"
                      [] use[w] = "signin" -> "login"
                      [] use[w] = "refresh" /\ again[w] -> "resending"
                      [] OTHER -> "verify"
    <2>1. Set(at, w, p) /\ UNCHANGED sess BY <1>5 DEF Solved
    <2>2. Only(at, w) /\ at'[w] = p BY <2>1, Sets
    <2>3. p \in {"sending", "login", "resending", "verify"} /\ (p # "login" => use[w] # "signin")
      BY <1>3 DEF Purpose
    <2>4. Slotted(w) BY <1>1, <2>2, <2>3 DEF Slotted
    <2>5. Moved(w)
      BY <1>1, <1>2, <1>3, <2>1, <2>2, <2>3, <2>4, Still
         DEF Moved, Answered, Local, Place, InPool, Spending
    <2> QED BY <2>5, MovedGood
  <1> QED BY <1>4, <1>5

LEMMA CaptchaGood ==
  ASSUME Typed, NEW w \in Worker, Kept(w), Captcha(w)
  PROVE  Good(w)
  <1>1. CASE TakeSlot(w)
    <2>1. Only(at, w) /\ at'[w] = "solving" /\ UNCHANGED <<use, token>>
      BY <1>1, GotoIs DEF TakeSlot, Place
    <2>2. Slotted(w) BY <1>1, <2>1 DEF TakeSlot, Slotted
    <2>3. Moved(w)
      BY <1>1, <2>1, <2>2, Still
         DEF TakeSlot, xai, Moved, Answered, Local, Place, InPool, Spending
    <2> QED BY <2>3, MovedGood
  <1>2. CASE LeaveQueue(w)
    <2>1. LeavesSlot(w) BY <1>2 DEF LeaveQueue, LeavesSlot
    <2> QED BY <1>2, <2>1, UnsolvedGood DEF LeaveQueue
  <1>3. CASE SolveFails(w)
    <2>1. LeavesSlot(w) BY <1>3 DEF SolveFails, Freed, LeavesSlot
    <2> QED BY <1>3, <2>1, UnsolvedGood DEF SolveFails
  <1> QED BY <1>1, <1>2, <1>3, SolvedGood DEF Captcha

-----------------------------------------------------------------------------
(* The mail code and the account *)

LEMMA MailGood ==
  ASSUME Typed, NEW w \in Worker, Kept(w), Mail(w)
  PROVE  Good(w)
  <1> USE DEF xai, worker
  <1>1. CASE SendCode(w)
    <2>1. LeavesSlot(w) BY <1>1 DEF SendCode, LeavesSlot
    <2>2. CASE Cancelled(w) BY <1>1, <2>1, <2>2, Stops DEF SendCode
    <2>3. CASE ~Cancelled(w)
      BY <1>1, <2>1, <2>3, Goes DEF SendCode, Goto, Place, InPool, Spending
    <2> QED BY <2>2, <2>3
  <1>2. CASE SendAnother(w)
    <2>1. LeavesSlot(w) BY <1>2 DEF SendAnother, LeavesSlot
    <2>2. Set(at, w, "accepted") \/ Set(at, w, "remail")
      BY <1>2 DEF SendAnother, Goto
    <2>3. UNCHANGED <<use, token>> BY <1>2 DEF SendAnother, Goto
    <2> QED BY <1>2, <2>1, <2>2, <2>3, Goes DEF SendAnother, Place, InPool, Spending
  <1>3. CASE ReadCode(w)
    <2>1. LeavesSlot(w) BY <1>3 DEF ReadCode, LeavesSlot
    <2> QED BY <1>3, <2>1, Goes DEF ReadCode, Place, InPool, Spending
  <1>4. CASE NoCode(w)
    <2>1. LeavesSlot(w) BY <1>4 DEF NoCode, LeavesSlot
    <2>2. CASE at[w] = "remail"
      BY <1>4, <2>1, <2>2, Goes DEF NoCode, Goto, Place, InPool, Spending
    <2>3. CASE at[w] = "mail" /\ Cancelled(w) BY <1>4, <2>1, <2>3, Stops DEF NoCode
    <2>4. CASE at[w] = "mail" /\ ~Cancelled(w)
      BY <1>4, <2>1, <2>4, Breaks, Still DEF NoCode, Answered
    <2> QED BY <1>4, <2>2, <2>3, <2>4 DEF NoCode
  <1> QED BY <1>1, <1>2, <1>3, <1>4 DEF Mail

LEMMA BrokenGood ==
  ASSUME Typed, NEW w \in Worker, Kept(w), at[w] = "creating",
         NEW bad, RetryOrFail(w, bad) \/ Fail(w),
         Only(remote, w), remote'[w] \in BOOLEAN, Only(silent, w), silent'[w] \in BOOLEAN,
         Answered(w), UNCHANGED <<slots, pool>>
  PROVE  Good(w)
  <1>1. LeavesSlot(w) BY DEF LeavesSlot
  <1>2. CASE Retry(w, bad) BY <1>2, Retries
  <1>3. CASE Fail(w) BY <1>1, <1>3, Breaks
  <1> QED BY <1>2, <1>3 DEF RetryOrFail

LEMMA CreatedGood ==
  ASSUME Typed, NEW w \in Worker, Kept(w), Created(w)
  PROVE  Good(w)
  <1>1. /\ Only(at, w) /\ at'[w] = "accepted" /\ Only(token, w) /\ token'[w] = "used"
        /\ Only(remote, w) /\ remote'[w] = TRUE
    BY Sets DEF Created, Takes
  <1>2. Slotted(w) BY <1>1 DEF Created, Slotted
  <1>3. Local(w) BY <1>1, <1>2, Still DEF Created, Local, Place
  <1>4. UNCHANGED <<sess, pool>> BY DEF Created
  <1>5. Kept(w)' BY <1>1, <1>4 DEF Created, Kept, InPool, Spending
  <1>6. Told(w) BY <1>4 DEF Told, Phase
  <1> QED BY <1>3, <1>5, <1>6 DEF Good

LEMMA AcceptGood ==
  ASSUME Typed, NEW w \in Worker, Kept(w), Accept(w)
  PROVE  Good(w)
  <1>1. CASE Cancelled(w)
    <2>1. LeavesSlot(w) BY DEF Accept, LeavesSlot
    <2> QED BY <1>1, <2>1, Stops DEF Accept, xai
  <1>2. CASE ~Cancelled(w)
    <2>1. Only(at, w) /\ at'[w] = "fetching" /\ UNCHANGED <<use, token>>
      BY <1>2, GotoIs DEF Accept, Place
    <2> DEFINE s == [sess[w] EXCEPT !.created = TRUE]
    <2>2. sess' = [sess EXCEPT ![w] = s] /\ sess'[w] = s
      BY <1>2 DEF Accept, Marked, Typed
    <2>3. /\ s \in Record /\ s.st = sess[w].st /\ s.cancel = sess[w].cancel
          /\ s.created = TRUE
      BY DEF Typed, Record, Ended
    <2>4. Only(sess, w) BY <2>2 DEF Only
    <2>5. Slotted(w) BY <2>1 DEF Accept, Slotted
    <2>6. Local(w)
      BY <2>1, <2>2, <2>3, <2>4, <2>5, Still DEF Accept, xai, Local, Place
    <2>7. UNCHANGED <<remote, silent, pool>> BY DEF Accept, xai
    <2>8. Kept(w)' BY <2>1, <2>2, <2>3, <2>7 DEF Accept, Kept, InPool, Spending
    <2>9. Told(w) BY <2>2, <2>3, <2>7 DEF Told, Phase
    <2> QED BY <2>6, <2>8, <2>9 DEF Good
  <1> QED BY <1>1, <1>2

LEMMA AccountGood ==
  ASSUME Typed, NEW w \in Worker, Kept(w), Account(w)
  PROVE  Good(w)
  <1> USE DEF xai
  <1>1. CASE Verify(w)
    <2>1. LeavesSlot(w) BY <1>1 DEF Verify, LeavesSlot
    <2>2. CASE Cancelled(w) BY <1>1, <2>1, <2>2, Stops DEF Verify, Checked
    <2>3. CASE ~Cancelled(w)
      BY <1>1, <2>1, <2>3, Goes DEF Verify, Checked, Goto, Place, InPool, Spending
    <2> QED BY <2>2, <2>3
  <1>2. CASE CreateBreaks(w)
    <2>1. CASE Takes(w) /\ Set(silent, w, TRUE)
      <3>1. /\ Only(remote, w) /\ remote'[w] = TRUE
            /\ Only(silent, w) /\ silent'[w] = TRUE
        BY <2>1, Sets DEF Takes
      <3> QED BY <1>2, <3>1, BrokenGood DEF CreateBreaks, Answered
    <2>2. CASE UNCHANGED <<remote, silent>>
      BY <1>2, <2>2, BrokenGood, Still DEF CreateBreaks, Answered
    <2> QED BY <1>2, <2>1, <2>2 DEF CreateBreaks
  <1>3. CASE CodeInvalid(w)
    BY <1>3, BrokenGood, Still DEF CodeInvalid, Answered
  <1>4. CASE CreateRefused(w)
    BY <1>4, BrokenGood, Still DEF CreateRefused, Answered
  <1>5. CASE Refresh(w)
    <2>1. LeavesSlot(w) BY <1>5 DEF Refresh, LeavesSlot
    <2>2. CASE Cancelled(w) BY <1>5, <2>1, <2>2, Stops DEF Refresh, Checked
    <2>3. CASE ~Cancelled(w)
      <3>1. Solve(w, "refresh", n[w] + 1) /\ UNCHANGED sess BY <1>5, <2>3 DEF Refresh, Checked
      <3>2. PICK c : Solve(w, "refresh", c) BY <3>1 DEF Solve, Set
      <3> QED BY <1>5, <2>1, <3>1, <3>2, Queues DEF Refresh, Purpose, InPool
    <2> QED BY <2>2, <2>3
  <1> QED BY <1>1, <1>2, <1>3, <1>4, <1>5, CreatedGood, AcceptGood DEF Account

-----------------------------------------------------------------------------
(* The cookie, the pool, and the others *)

LEMMA CookieGood ==
  ASSUME Typed, NEW w \in Worker, Kept(w), Cookie(w)
  PROVE  Good(w)
  <1> USE DEF xai, worker
  <1>1. CASE GotCookie(w)
    <2>1. at[w] \in {"fetching", "login", "cookie"} /\ LeavesSlot(w)
      BY <1>1 DEF GotCookie, LeavesSlot
    <2> QED BY <1>1, <2>1, Goes DEF GotCookie, Goto, Place, InPool, Spending
  <1>2. CASE NoChain(w)
    <2>1. LeavesSlot(w) BY <1>2 DEF NoChain, LeavesSlot
    <2>2. CASE Cancelled(w) BY <1>2, <2>1, <2>2, Stops DEF NoChain, Checked
    <2>3. CASE ~Cancelled(w)
      <3>1. Set(at, w, "cookie") /\ UNCHANGED <<use, token, sess>>
        BY <1>2, <2>3 DEF NoChain, Checked
      <3> QED BY <1>2, <2>1, <3>1, Goes DEF NoChain, Place, InPool, Spending
    <2> QED BY <2>2, <2>3
  <1>3. CASE Round(w)
    <2>1. LeavesSlot(w) BY <1>3 DEF Round, LeavesSlot
    <2>2. CASE Cancelled(w) BY <1>3, <2>1, <2>2, Stops DEF Round, Checked
    <2>3. CASE ~Cancelled(w)
      <3>1. Solve(w, "signin", n[w]) /\ UNCHANGED sess BY <1>3, <2>3 DEF Round, Checked
      <3>2. PICK c : Solve(w, "signin", c) BY <3>1 DEF Solve, Set
      <3> QED BY <1>3, <2>1, <3>1, <3>2, Queues DEF Round, Purpose, InPool
    <2> QED BY <2>2, <2>3
  <1>4. CASE LoginFails(w)
    <2>1. LeavesSlot(w) BY <1>4 DEF LoginFails, LeavesSlot
    <2> QED BY <1>4, <2>1, Goes DEF LoginFails, Place, InPool, Spending
  <1>5. CASE NoCookie(w)
    <2>1. LeavesSlot(w) BY <1>5 DEF NoCookie, LeavesSlot
    <2> QED BY <1>5, <2>1, Breaks, Still DEF NoCookie, Answered
  <1> QED BY <1>1, <1>2, <1>3, <1>4, <1>5 DEF Cookie

LEMMA StoreGood ==
  ASSUME Typed, NEW w \in Worker, Kept(w), Store(w)
  PROVE  Good(w)
  <1>1. Only(at, w) /\ at'[w] = "pushing" /\ UNCHANGED <<use, token>>
    BY GotoIs DEF Store, Place
  <1>2. Only(pool, w) /\ pool'[w] = "on" BY Sets DEF Store
  <1>3. at[w] = "storing" /\ UNCHANGED <<sess, slots, remote, silent>> BY DEF Store, xai
  <1>4. Slotted(w) BY <1>1, <1>3 DEF Slotted
  <1>5. Local(w) BY <1>1, <1>2, <1>3, <1>4, Still DEF Local, Place
  <1>6. Kept(w)' BY <1>1, <1>2, <1>3 DEF Kept, InPool, Spending
  <1>7. sess[w].st = "open" \/ sess[w].st = "stopping"
    BY <1>3 DEF Kept, Typed, Record
  <1>8. pool[w] = "none" BY <1>3 DEF Kept, InPool
  <1>9. Told(w) BY <1>2, <1>3, <1>7, <1>8 DEF Told, Phase
  <1> QED BY <1>5, <1>6, <1>9 DEF Good

LEMMA CompleteGood ==
  ASSUME Typed, NEW w \in Worker, Kept(w), Complete(w)
  PROVE  Good(w)
  <1>1. Only(at, w) /\ at'[w] = "ended" /\ UNCHANGED <<use, token>>
    BY GotoIs DEF Complete, Place
  <1>2. /\ Only(sess, w) /\ sess'[w] \in Record /\ sess'[w].st = "imported"
        /\ sess'[w].cancel = sess[w].cancel /\ sess'[w].created = sess[w].created
    BY StatusIs DEF Complete, Ended
  <1>3. Only(pool, w) /\ pool'[w] = IF pool[w] = "off" THEN "on" ELSE pool[w]
    BY Sets DEF Complete
  <1>4. pool'[w] \in {"none", "on", "off", "quota"} /\ (pool'[w] # "none" <=> pool[w] # "none")
    BY <1>3 DEF Typed
  <1>5. at[w] = "probing" /\ UNCHANGED <<slots, remote, silent>>
    BY DEF Complete, Imported, xai
  <1>6. pool[w] # "none" BY <1>5 DEF Kept, InPool
  <1>7. Slotted(w) BY <1>1, <1>5 DEF Slotted
  <1>8. Local(w) BY <1>1, <1>2, <1>3, <1>4, <1>5, <1>7, Still DEF Local, Place
  <1>9. Kept(w)' BY <1>1, <1>2, <1>5 DEF Kept, InPool, Spending, Ended
  <1>10. sess[w].st = "open" \/ sess[w].st = "stopping"
    BY <1>5 DEF Kept, Typed, Record
  <1>11. Told(w) BY <1>2, <1>4, <1>6, <1>10 DEF Told, Phase, Ended
  <1> QED BY <1>8, <1>9, <1>11 DEF Good

LEMMA EnterGood ==
  ASSUME Typed, NEW w \in Worker, Kept(w), Enter(w)
  PROVE  Good(w)
  <1> USE DEF xai
  <1>1. CASE Convert(w)
    <2>1. LeavesSlot(w) BY <1>1 DEF Convert, LeavesSlot
    <2>2. CASE Cancelled(w) BY <1>1, <2>1, <2>2, Stops DEF Convert, Checked
    <2>3. CASE ~Cancelled(w)
      BY <1>1, <2>1, <2>3, Goes DEF Convert, Checked, Goto, Place, InPool, Spending
    <2> QED BY <2>2, <2>3
  <1>2. CASE ConvertFails(w)
    <2>1. LeavesSlot(w) BY <1>2 DEF ConvertFails, LeavesSlot
    <2> QED BY <1>2, <2>1, Breaks, Still DEF ConvertFails, Answered
  <1>3. CASE Push(w)
    <2>1. LeavesSlot(w) BY <1>3 DEF Push, LeavesSlot
    <2> QED BY <1>3, <2>1, Goes DEF Push, Goto, Place, InPool, Spending
  <1>4. CASE SettleDown(w)
    <2>1. LeavesSlot(w) BY <1>4 DEF SettleDown, LeavesSlot
    <2>2. CASE Cancelled(w) BY <1>4, <2>1, <2>2, Stops DEF SettleDown, Checked
    <2>3. CASE ~Cancelled(w)
      BY <1>4, <2>1, <2>3, Goes DEF SettleDown, Checked, Goto, Place, InPool, Spending
    <2> QED BY <2>2, <2>3
  <1>5. CASE Heartbeat(w)
    <2>1. LeavesSlot(w) BY <1>5 DEF Heartbeat, LeavesSlot
    <2> QED BY <1>5, <2>1, Stops DEF Heartbeat
  <1> QED BY <1>1, <1>2, <1>3, <1>4, <1>5, StoreGood, CompleteGood DEF Enter

LEMMA StopGood ==
  ASSUME Typed, NEW w \in Worker, Kept(w), Stop(w)
  PROVE  Good(w)
  <1> DEFINE s == [sess[w] EXCEPT !.st = "stopping", !.cancel = TRUE]
  <1>1. sess' = [sess EXCEPT ![w] = s] /\ sess'[w] = s BY DEF Stop, Typed
  <1>2. /\ s \in Record /\ s.st = "stopping" /\ s.cancel = TRUE
        /\ s.created = sess[w].created
    BY DEF Typed, Record, Ended
  <1>3. Only(sess, w) BY <1>1 DEF Only
  <1>4. /\ UNCHANGED <<at, use, token, slots, remote, silent, pool>>
        /\ at[w] # "ended" /\ sess[w].st = "open"
    BY DEF Stop, worker, xai
  <1>5. Slotted(w) BY <1>4 DEF Slotted
  <1>6. Local(w) BY <1>1, <1>2, <1>3, <1>4, <1>5, Still DEF Local
  <1>7. Kept(w)' BY <1>1, <1>2, <1>4 DEF Kept, InPool, Spending, Ended
  <1>8. Told(w) BY <1>1, <1>2, <1>4 DEF Told, Phase
  <1> QED BY <1>6, <1>7, <1>8 DEF Good

LEMMA TurnOffGood ==
  ASSUME Typed, NEW w \in Worker, Kept(w), TurnOff(w)
  PROVE  Good(w)
  <1>1. PICK s \in {"off", "quota"} : Set(pool, w, s) BY DEF TurnOff
  <1>2. Only(pool, w) /\ pool'[w] = s BY <1>1, Sets
  <1>3. UNCHANGED <<at, use, token, sess, slots, remote, silent>> /\ pool[w] = "on"
    BY DEF TurnOff, worker, xai
  <1>4. Slotted(w) BY <1>3 DEF Slotted
  <1>5. Local(w) BY <1>2, <1>3, <1>4, Still DEF Local
  <1>6. Kept(w)' BY <1>2, <1>3 DEF Kept, InPool, Spending, Ended
  <1>7. Told(w) BY <1>2, <1>3 DEF Told, Phase
  <1> QED BY <1>5, <1>6, <1>7 DEF Good

LEMMA QuietGood ==
  ASSUME Typed, NEW w \in Worker, Kept(w),
         UNCHANGED <<at, use, token, sess, slots, remote, silent, pool>>
  PROVE  Good(w)
  <1>1. Slotted(w) BY DEF Slotted
  <1>2. Local(w) BY <1>1, Still DEF Local
  <1>3. Kept(w)' BY DEF Kept, InPool, Spending, Ended
  <1>4. Told(w) BY DEF Told, Phase
  <1> QED BY <1>2, <1>3, <1>4 DEF Good

\* Whatever happens is a step of one worker, and it is Good.
LEMMA StepGood ==
  ASSUME Typed, \A v \in Worker : Kept(v), Next
  PROVE  \E w \in Worker : Good(w)
  <1>1. PICK w \in Worker : Run(w) \/ MailArrives(w) \/ Stop(w) \/ TurnOff(w) BY DEF Next
  <1>2. Kept(w) OBVIOUS
  <1>3. CASE MailArrives(w)
    <2>1. UNCHANGED <<at, use, token, sess, slots, remote, silent, pool>>
      BY <1>3 DEF MailArrives, worker
    <2> QED BY <1>2, <2>1, QuietGood
  <1>4. CASE Run(w)
    BY <1>2, <1>4, FirstSteps, CaptchaGood, MailGood, AccountGood, CookieGood, EnterGood DEF Run
  <1> QED BY <1>1, <1>2, <1>3, <1>4, StopGood, TurnOffGood

-----------------------------------------------------------------------------
(* From one worker to all *)

AllKept == \A w \in Worker : Kept(w)

Busy == {w \in Worker : at[w] = "solving"}

LEMMA LocalTyped == ASSUME Typed, NEW w \in Worker, Local(w) PROVE Typed'
  <1>1. slots' \in Int BY DEF Local, Slotted, Typed
  <1> QED BY <1>1 DEF Local, Only, Typed

LEMMA OthersKept ==
  ASSUME Typed, AllKept, NEW w \in Worker, Local(w), Kept(w)'
  PROVE  AllKept'
  <1>1. SUFFICES ASSUME NEW v \in Worker, v # w PROVE Kept(v)'
    BY DEF AllKept
  <1>2. Kept(v) BY DEF AllKept
  <1>3. /\ at'[v] = at[v] /\ token'[v] = token[v] /\ sess'[v] = sess[v]
        /\ remote'[v] = remote[v] /\ silent'[v] = silent[v] /\ pool'[v] = pool[v]
    BY <1>1 DEF Local, Only, Typed
  <1> QED BY <1>2, <1>3 DEF Kept

\* Who is at the solver changes by the worker that takes or leaves a slot.
LEMMA SlotsFollow ==
  ASSUME Typed, NEW w \in Worker, Local(w), SlotsConserved
  PROVE  SlotsConserved'
  <1>1. IsFiniteSet(Busy) /\ Cardinality(Busy) \in Nat
    BY WorkerAssumption, FS_Subset, FS_CardinalityType DEF Busy
  <1>2. \A v \in Worker : v # w => at'[v] = at[v] BY DEF Local, Only, Typed
  <1>3. Slotted(w) /\ slots \in Int /\ Slots \in Int BY BoundAssumption DEF Local, Typed
  <1>4. slots + Cardinality(Busy) = Slots BY DEF SlotsConserved, Busy
  <1>5. CASE slots' = slots /\ (at[w] = "solving" <=> at'[w] = "solving")
    <2>1. Busy' = Busy BY <1>2, <1>5 DEF Busy
    <2> QED BY <1>4, <1>5, <2>1 DEF SlotsConserved, Busy
  <1>6. CASE slots' = slots + 1 /\ at[w] = "solving" /\ at'[w] # "solving"
    <2>1. Busy' = Busy \ {w} /\ w \in Busy BY <1>2, <1>6 DEF Busy
    <2>2. Cardinality(Busy') = Cardinality(Busy) - 1 BY <1>1, <2>1, FS_RemoveElement
    <2>3. slots' + Cardinality(Busy') = Slots BY <1>1, <1>3, <1>4, <1>6, <2>2
    <2> QED BY <2>3 DEF SlotsConserved, Busy
  <1>7. CASE slots' = slots - 1 /\ at[w] # "solving" /\ at'[w] = "solving"
    <2>1. Busy' = Busy \cup {w} /\ w \notin Busy BY <1>2, <1>7 DEF Busy
    <2>2. Cardinality(Busy') = Cardinality(Busy) + 1 BY <1>1, <2>1, FS_AddElement
    <2>3. slots' + Cardinality(Busy') = Slots BY <1>1, <1>3, <1>4, <1>7, <2>2
    <2> QED BY <2>3 DEF SlotsConserved, Busy
  <1> QED BY <1>3, <1>5, <1>6, <1>7 DEF Slotted

-----------------------------------------------------------------------------
(* The invariant *)

IInv == Typed /\ AllKept /\ SlotsConserved

LEMMA InitInv == Init => IInv
  <1> SUFFICES ASSUME Init PROVE IInv OBVIOUS
  <1>1. Typed BY BoundAssumption DEF Init, Typed, Place, Purpose, Record
  <1>2. AllKept BY DEF Init, AllKept, Kept, InPool, Spending, Ended
  <1>3. {w \in Worker : at[w] = "solving"} = {} BY DEF Init
  <1>4. Cardinality({w \in Worker : at[w] = "solving"}) = 0 BY <1>3, FS_EmptySet
  <1>5. slots = Slots /\ Slots + 0 = Slots BY BoundAssumption DEF Init
  <1>6. SlotsConserved BY <1>4, <1>5 DEF SlotsConserved
  <1> QED BY <1>1, <1>2, <1>6 DEF IInv

LEMMA NextInv == IInv /\ [Next]_vars => IInv'
  <1> SUFFICES ASSUME IInv, [Next]_vars PROVE IInv' OBVIOUS
  <1>1. CASE Next
    <2>1. PICK w \in Worker : Good(w) BY <1>1, StepGood DEF IInv, AllKept
    <2> QED BY <2>1, LocalTyped, OthersKept, SlotsFollow DEF IInv, Good
  <1>2. CASE UNCHANGED vars
    BY <1>2 DEF vars, IInv, Typed, AllKept, Kept, SlotsConserved
  <1> QED BY <1>1, <1>2

LEMMA Inductive == Spec => []IInv
  BY InitInv, NextInv, PTL DEF Spec

\* The slots of the captcha solver (_local_captcha_sem) that are free and those
\* in use are all there are, however a solve ends: no retry, sign-in or stop of
\* _solve_turnstile keeps one or gives one back twice.
THEOREM SlotsComeBack == Spec => []SlotsConserved
  <1>1. IInv => SlotsConserved BY DEF IInv
  <1> QED BY <1>1, Inductive, PTL

\* Every call of create_account has a captcha token that no call has had.
THEOREM FreshTokens == Spec => []NewTokenEachAttempt
  <1>1. IInv => NewTokenEachAttempt
    BY DEF IInv, AllKept, Kept, Spending, NewTokenEachAttempt
  <1> QED BY <1>1, Inductive, PTL

\* A session that ended as an error says that xAI has made the account, unless
\* its answer was lost.
THEOREM AccountsAccounted == Spec => []AccountAccounted
  <1>1. ASSUME IInv PROVE AccountAccounted
    <2>1. SUFFICES ASSUME NEW w \in Worker, sess[w].st = "error", remote[w], ~silent[w],
                          ~sess[w].created
                   PROVE  FALSE
      BY DEF AccountAccounted
    <2>2. Kept(w) BY <1>1 DEF IInv, AllKept
    <2>3. at[w] = "accepted" BY <2>1, <2>2 DEF Kept
    <2> QED BY <2>1, <2>2, <2>3 DEF Kept, Ended
  <1> QED BY <1>1, Inductive, PTL

-----------------------------------------------------------------------------
(* What the session promises *)

phase == [w \in Worker |-> IF sess[w].st = "stopping" THEN "open" ELSE sess[w].st]
stored == [w \in Worker |-> pool[w] # "none"]
asked == [w \in Worker |-> sess[w].cancel]

LEMMA InitPromises == Init => Session!Init
  <1> SUFFICES ASSUME Init PROVE Session!Init OBVIOUS
  <1>1. /\ \A w \in Worker : sess[w].st = "open" /\ sess[w].cancel = FALSE
        /\ \A w \in Worker : pool[w] = "none"
    BY DEF Init
  <1>2. phase = [w \in Worker |-> "open"] BY <1>1 DEF phase
  <1>3. stored = [w \in Worker |-> FALSE] BY <1>1 DEF stored
  <1>4. asked = [w \in Worker |-> FALSE] BY <1>1 DEF asked
  <1> QED BY <1>2, <1>3, <1>4 DEF Session!Init, phase, stored, asked

LEMMA StepPromises ==
  ASSUME Typed, NEW w \in Worker, Local(w), Told(w)
  PROVE  [Session!Next]_(Session!vars)
  <1>1. \A v \in Worker : v # w => sess'[v] = sess[v] /\ pool'[v] = pool[v]
    BY DEF Local, Only, Typed
  <1>2. phase[w] = Phase(w) /\ phase'[w] = Phase(w)' BY DEF phase, Phase
  <1>3. phase' = [phase EXCEPT ![w] = Phase(w)'] BY <1>1 DEF phase, Phase
  <1>4. stored' = [stored EXCEPT ![w] = (pool'[w] # "none")] BY <1>1 DEF stored
  <1>5. asked' = [asked EXCEPT ![w] = sess'[w].cancel] BY <1>1 DEF asked
  <1>6. stored[w] = (pool[w] # "none") /\ asked[w] = sess[w].cancel BY DEF stored, asked
  <1>7. Phase(w)' = Phase(w) => phase' = phase BY <1>2, <1>3 DEF phase
  <1>8. (pool'[w] # "none" <=> pool[w] # "none") => stored' = stored
    BY <1>1 DEF stored
  <1>9. sess'[w].cancel = sess[w].cancel => asked' = asked BY <1>1 DEF asked
  <1>10. CASE UNCHANGED <<phase, stored, asked>>
    BY <1>10 DEF Session!vars, phase, stored, asked
  <1>11. CASE /\ phase[w] = "open" /\ UNCHANGED <<phase, stored>>
              /\ asked' = [asked EXCEPT ![w] = TRUE]
    <2>1. Session!Ask(w) BY <1>11 DEF Session!Ask, phase, stored, asked
    <2> QED BY <2>1 DEF Session!Next
  <1>12. CASE /\ phase[w] = "open" /\ ~stored[w] /\ UNCHANGED <<phase, asked>>
              /\ stored' = [stored EXCEPT ![w] = TRUE]
    <2>1. Session!Store(w) BY <1>12 DEF Session!Store, phase, stored, asked
    <2> QED BY <2>1 DEF Session!Next
  <1>13. ASSUME NEW p \in Ended, phase[w] = "open", UNCHANGED <<stored, asked>>,
                p = "imported" => stored[w], p = "cancelled" => asked[w],
                phase' = [phase EXCEPT ![w] = p]
         PROVE  [Session!Next]_(Session!vars)
    <2>1. Session!End(w, p) BY <1>13 DEF Session!End, phase, stored, asked
    <2> QED BY <2>1 DEF Session!Next, Ended
  <1> QED
    BY <1>2, <1>3, <1>4, <1>5, <1>6, <1>7, <1>8, <1>9, <1>10, <1>11, <1>12, <1>13 DEF Told

\* The worker of _run_registration keeps the promises of RegSession: one end,
\* imported only after the store, cancelled only after a stop was asked for.
THEOREM KeepsPromises == Spec => Session!Init /\ [][Session!Next]_(Session!vars)
  <1>1. IInv /\ [Next]_vars => [Session!Next]_(Session!vars)
    <2> SUFFICES ASSUME IInv, [Next]_vars PROVE [Session!Next]_(Session!vars) OBVIOUS
    <2>1. CASE Next
      <3>1. PICK w \in Worker : Good(w) BY <2>1, StepGood DEF IInv, AllKept
      <3> QED BY <3>1, StepPromises DEF IInv, Good
    <2>2. CASE UNCHANGED vars BY <2>2 DEF vars, Session!vars
    <2> QED BY <2>1, <2>2
  <1> QED BY <1>1, InitPromises, Inductive, PTL DEF Spec

=============================================================================
