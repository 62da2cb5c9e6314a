------------------------------ MODULE Enrolment ------------------------------
(***************************************************************************)
(* The registration of one account by one worker, for several workers that *)
(* share the local captcha solver: the captcha first, then the mail code,  *)
(* the account at xAI with its retries, the SSO cookie by four ways, the   *)
(* import into the pool, the pushes to other services, the probe.          *)
(*                                                                         *)
(* Source: _run_registration of grok_build_adapter.py and the mailbox      *)
(* receiver it is given.                                                   *)
(*                                                                         *)
(* xAI and the mail service are external: xAI answers as its replies are   *)
(* told apart by the code, and mails arrive in their own time.  Left out:  *)
(* the soft pause after pressure (a delay), the yescaptcha provider (no    *)
(* slots), proxies, logs, the throttled mirror (module Registration).      *)
(***************************************************************************)
EXTENDS Naturals, FiniteSets

CONSTANTS
    Worker,
    Slots,      \* _local_captcha_slots
    Attempts,   \* create_attempts: GROK2API_REG_CREATE_ATTEMPTS
    Alts,       \* alternative pages for the first captcha
    Rounds      \* sso_rounds: GROK2API_REG_SSO_LOGIN_ROUNDS

ASSUME BoundAssumption ==
    /\ Slots \in Nat \ {0} /\ Attempts \in Nat \ {0, 1}
    /\ Alts \in Nat \ {0} /\ Rounds \in Nat \ {0}
ASSUME WorkerAssumption == IsFiniteSet(Worker)

VARIABLES
    at,      \* where each worker is
    use,     \* what the captcha it waits for is wanted for
    n,       \* alternative, attempt or round it is in
    again,   \* need_fresh_email_code
    code,    \* number of the mail code it holds; 0 is none
    token,   \* the captcha token it holds: none, new or used
    sess,    \* its session: status, cancel_requested, account_created
    slots,   \* value of _local_captcha_sem
    codes,   \* codes xAI was asked to mail: how many
    mailbox, \* codes that have arrived
    refused, \* codes xAI has called invalid
    remote,  \* xAI has the account
    pool,    \* the account's row: none, on, off, quota
    silent   \* history: xAI took the account and its answer was lost

worker == <<at, use, n, again, code, token>>
xai == <<codes, mailbox, refused, remote, silent>>
vars == <<at, use, n, again, code, token, sess, slots, codes,
          mailbox, refused, remote, pool, silent>>

Init ==
    /\ at = [w \in Worker |-> "begin"]
    /\ use = [w \in Worker |-> "first"]
    /\ n = [w \in Worker |-> 0] /\ again = [w \in Worker |-> FALSE]
    /\ code = [w \in Worker |-> 0] /\ codes = [w \in Worker |-> 0]
    /\ token = [w \in Worker |-> "none"]
    /\ sess = [w \in Worker |-> [st |-> "open", cancel |-> FALSE, created |-> FALSE]]
    /\ slots = Slots
    /\ mailbox = [w \in Worker |-> {}] /\ refused = [w \in Worker |-> {}]
    /\ remote = [w \in Worker |-> FALSE]
    /\ silent = [w \in Worker |-> FALSE]
    /\ pool = [w \in Worker |-> "none"]

Set(f, w, v) == f' = [f EXCEPT ![w] = v]

\* _session_cancel_requested
Cancelled(w) == sess[w].cancel \/ sess[w].st = "stopping"

Goto(w, p) == Set(at, w, p) /\ UNCHANGED <<use, n, again, code, token>>

\* The captcha is solved for a purpose; the semaphore is queued for.
Solve(w, purpose, k) ==
    /\ Set(at, w, "queued") /\ Set(use, w, purpose) /\ Set(n, w, k)
    /\ UNCHANGED <<again, code, token>>

-----------------------------------------------------------------------------
(* How a registration ends *)

\* except _RegCancelled
Abort(w) ==
    /\ Goto(w, "ended")
    /\ sess' = [sess EXCEPT ![w].st = "cancelled", ![w].cancel = TRUE]

\* except Exception: update("error") is let through a stop.
Fail(w) ==
    /\ Goto(w, "ended")
    /\ sess' = [sess EXCEPT ![w].st = "error"]

\* A checkpoint: _check_cancel, or an update of the status, raises on a stop.
Checked(w, step) == IF Cancelled(w) THEN Abort(w) ELSE step /\ UNCHANGED sess

-----------------------------------------------------------------------------
(* Captcha *)

Begin(w) ==
    /\ at[w] = "begin"
    /\ Checked(w, Goto(w, "solver"))
    /\ UNCHANGED <<slots, xai, pool>>

\* visit_home, load_signup_page and wait_for_local_solver may fail.
BeginFails(w) ==
    /\ at[w] \in {"begin", "solver"}
    /\ Fail(w)
    /\ UNCHANGED <<slots, xai, pool>>

SolverReady(w) ==
    /\ at[w] = "solver"
    /\ Checked(w, Solve(w, "first", 0))
    /\ UNCHANGED <<slots, xai, pool>>

\* _solve_turnstile, which looks for a stop before each try for a slot.
TakeSlot(w) ==
    /\ at[w] = "queued" /\ ~Cancelled(w) /\ slots > 0
    /\ slots' = slots - 1
    /\ Goto(w, "solving")
    /\ UNCHANGED <<sess, xai, pool>>

\* What follows when no token came: by purpose, and by whether it was a stop.
\* The refresh and the sign-in take a stop for a failure like any other.
Unsolved(w, stopped) ==
    LET k == n[w] IN
    CASE use[w] \in {"first", "alt"} /\ stopped -> Abort(w)
      [] use[w] = "first" /\ ~stopped -> Checked(w, Solve(w, "alt", 1))
      [] use[w] = "alt" /\ ~stopped ->
           IF k < Alts THEN Checked(w, Solve(w, "alt", k + 1)) ELSE Fail(w)
      [] use[w] = "refresh" -> Goto(w, "accepted") /\ UNCHANGED sess
      [] use[w] = "signin" ->
           /\ IF k <= 2 THEN Goto(w, "login")
              ELSE /\ Set(at, w, "cookie") /\ Set(n, w, k + 1)
                   /\ UNCHANGED <<use, again, code, token>>
           /\ UNCHANGED sess

LeaveQueue(w) ==
    /\ at[w] = "queued" /\ Cancelled(w)
    /\ Unsolved(w, TRUE)
    /\ UNCHANGED <<slots, xai, pool>>

\* Mutant of Freed: a stop leaves without the finally block.
FreedUnlessStopped(w) == IF Cancelled(w) THEN slots ELSE slots + 1

Freed(w) == slots + 1

SolveFails(w) ==
    /\ at[w] = "solving"
    /\ slots' = Freed(w)
    /\ \/ Unsolved(w, FALSE)
       \/ Cancelled(w) /\ Unsolved(w, TRUE)
    /\ UNCHANGED <<xai, pool>>

\* Mutant of Tokened: a retry goes on with the token of the first attempt.
TokenedOnce(w) == IF use[w] = "refresh" THEN token[w] ELSE "new"

Tokened(w) == "new"

Solved(w) ==
    /\ at[w] = "solving"
    /\ slots' = Freed(w)
    /\ IF use[w] = "signin" THEN UNCHANGED token ELSE Set(token, w, Tokened(w))
    /\ IF use[w] \in {"first", "alt"} /\ Cancelled(w)
       THEN /\ Set(at, w, "ended")
            /\ sess' = [sess EXCEPT ![w].st = "cancelled", ![w].cancel = TRUE]
       ELSE /\ Set(at, w, CASE use[w] \in {"first", "alt"} -> "sending"
                            [] use[w] = "signin" -> "login"
                            [] use[w] = "refresh" /\ again[w] -> "resending"
                            [] OTHER -> "verify")
            /\ UNCHANGED sess
    /\ n' = IF use[w] \in {"first", "alt"} THEN [n EXCEPT ![w] = 1] ELSE n
    /\ UNCHANGED <<use, again, code, xai, pool>>

-----------------------------------------------------------------------------
(* The mail code *)

\* create_email_validation_code; a refusal is only printed.
SendCode(w) ==
    /\ at[w] = "sending"
    /\ IF Cancelled(w) THEN Abort(w) /\ UNCHANGED codes
       ELSE /\ Goto(w, "mail") /\ UNCHANGED sess
            /\ Set(codes, w, codes[w] + 1) \/ UNCHANGED codes
    /\ UNCHANGED <<slots, mailbox, refused, remote, silent, pool>>

\* Another one is asked for before the status is written, and whatever goes
\* wrong, a stop included, leaves the loop of attempts.
SendAnother(w) ==
    /\ at[w] = "resending"
    /\ \/ /\ Set(codes, w, codes[w] + 1) \/ UNCHANGED codes
          /\ Goto(w, IF Cancelled(w) THEN "accepted" ELSE "remail")
       \/ Goto(w, "accepted") /\ UNCHANGED codes
    /\ UNCHANGED <<sess, slots, mailbox, refused, remote, silent, pool>>

MailArrives(w) ==
    /\ \E c \in (1 .. codes[w]) \ mailbox[w] : Set(mailbox, w, mailbox[w] \cup {c})
    /\ UNCHANGED <<worker, sess, slots, codes, refused, remote, silent, pool>>

\* wait_for_code returns the code of any message that is there.
ReadCode(w) ==
    /\ at[w] \in {"mail", "remail"} /\ ~Cancelled(w)
    /\ \E c \in mailbox[w] : Set(code, w, c)
    /\ Set(at, w, "verify")
    /\ UNCHANGED <<use, n, again, token, sess, slots, xai, pool>>

\* It timed out, returned nonsense, or was interrupted by a stop.
NoCode(w) ==
    /\ \/ at[w] = "remail" /\ Goto(w, "accepted") /\ UNCHANGED sess
       \/ at[w] = "mail" /\ (IF Cancelled(w) THEN Abort(w) ELSE Fail(w))
    /\ UNCHANGED <<slots, xai, pool>>

-----------------------------------------------------------------------------
(* The account at xAI *)

\* verify_email_validation_code, whose result is only printed.
Verify(w) ==
    /\ at[w] = "verify"
    /\ Checked(w, Goto(w, "creating"))
    /\ UNCHANGED <<slots, xai, pool>>

\* The next attempt needs another captcha, and another code if this one was bad.
Retry(w, badcode) ==
    /\ Set(at, w, "retrying") /\ Set(again, w, badcode) /\ Set(token, w, "used")
    /\ UNCHANGED <<use, n, code, sess>>

\* update("solving_turnstile"), outside of what the attempts catch
Refresh(w) ==
    /\ at[w] = "retrying"
    /\ Checked(w, Solve(w, "refresh", n[w] + 1))
    /\ UNCHANGED <<slots, xai, pool>>

RetryOrFail(w, badcode) == IF n[w] < Attempts THEN Retry(w, badcode) ELSE Fail(w)

Takes(w) == ~remote[w] /\ code[w] \notin refused[w] /\ Set(remote, w, TRUE)

Created(w) ==
    /\ at[w] = "creating"
    /\ Takes(w)
    /\ Set(token, w, "used") /\ Set(at, w, "accepted")
    /\ UNCHANGED <<use, n, again, code, sess, slots, codes, mailbox, refused, silent, pool>>

\* A status other than 200, or no answer at all, whether xAI has the account or not.
CreateBreaks(w) ==
    /\ at[w] = "creating"
    /\ \/ Takes(w) /\ Set(silent, w, TRUE)
       \/ UNCHANGED <<remote, silent>>
    /\ RetryOrFail(w, FALSE) \/ Fail(w)
    /\ UNCHANGED <<slots, codes, mailbox, refused, pool>>

CodeInvalid(w) ==
    /\ at[w] = "creating"
    /\ Set(refused, w, refused[w] \cup {code[w]})
    /\ RetryOrFail(w, TRUE)
    /\ UNCHANGED <<slots, codes, mailbox, remote, silent, pool>>

\* Captcha, rate limit and the like; or something a retry does not help.
CreateRefused(w) ==
    /\ at[w] = "creating"
    /\ RetryOrFail(w, FALSE) \/ Fail(w)
    /\ UNCHANGED <<slots, xai, pool>>

\* Mutant of Marked: the account is noted once its cookie is there.
MarkedLater(w) == UNCHANGED sess

Marked(w) == sess' = [sess EXCEPT ![w].created = TRUE]

\* update("fetching_sso"), then account_created: also reached by the attempts
\* that broke off.
Accept(w) ==
    /\ at[w] = "accepted"
    /\ IF Cancelled(w) THEN Abort(w) ELSE Goto(w, "fetching") /\ Marked(w)
    /\ UNCHANGED <<slots, xai, pool>>

-----------------------------------------------------------------------------
(* The SSO cookie: from the answer, or by signing in *)

\* fetch_sso_token, obtain_session_via_password or the cookie jar.
GotCookie(w) ==
    /\ at[w] \in {"fetching", "login"} \/ (at[w] = "cookie" /\ n[w] > Rounds)
    /\ remote[w]
    /\ Goto(w, "importing")
    /\ UNCHANGED <<sess, slots, xai, pool>>

NoChain(w) ==
    /\ at[w] = "fetching"
    /\ Checked(w, Set(at, w, "cookie") /\ Set(n, w, 1) /\ UNCHANGED <<use, again, code, token>>)
    /\ UNCHANGED <<slots, xai, pool>>

Round(w) ==
    /\ at[w] = "cookie" /\ n[w] <= Rounds
    /\ Checked(w, Solve(w, "signin", n[w]))
    /\ UNCHANGED <<slots, xai, pool>>

LoginFails(w) ==
    /\ at[w] = "login"
    /\ Set(at, w, "cookie") /\ Set(n, w, n[w] + 1)
    /\ UNCHANGED <<use, again, code, token, sess, slots, xai, pool>>

\* SSO_COOKIE_MISSING
NoCookie(w) ==
    /\ at[w] = "cookie" /\ n[w] > Rounds
    /\ Fail(w)
    /\ UNCHANGED <<slots, xai, pool>>

-----------------------------------------------------------------------------
(* The pool *)

\* sso_to_token, token_to_auth_entry, the backup file
Convert(w) ==
    /\ at[w] = "importing"
    /\ Checked(w, Goto(w, "storing"))
    /\ UNCHANGED <<slots, xai, pool>>

ConvertFails(w) ==
    /\ at[w] = "storing"
    /\ Fail(w)
    /\ UNCHANGED <<slots, xai, pool>>

\* import_auth_payload
Store(w) ==
    /\ at[w] = "storing"
    /\ Set(pool, w, "on")
    /\ Goto(w, "pushing")
    /\ UNCHANGED <<sess, slots, xai>>

\* Pushes to sub2api and CLIProxyAPI: every exception is swallowed, so a stop too.
Push(w) ==
    /\ at[w] = "pushing"
    /\ Goto(w, "settle")
    /\ UNCHANGED <<sess, slots, xai, pool>>

SettleDown(w) ==
    /\ at[w] = "settle"
    /\ Checked(w, Goto(w, "probing"))
    /\ UNCHANGED <<slots, xai, pool>>

\* The heartbeats of the delay look for a stop; the probe never turns it off.
Heartbeat(w) ==
    /\ at[w] = "probing" /\ Cancelled(w)
    /\ Abort(w)
    /\ UNCHANGED <<slots, xai, pool>>

\* Mutant of Imported: what is enrolled is whatever was accepted.
ImportedUnstored(w) == at[w] \in {"probing", "storing"}

Imported(w) == at[w] = "probing"

\* After the probe an account that was turned off, but not for its quota, is
\* turned on; the status is written whatever was asked in the meantime.
Complete(w) ==
    /\ Imported(w)
    /\ Goto(w, "ended")
    /\ sess' = [sess EXCEPT ![w].st = "imported"]
    /\ Set(pool, w, IF pool[w] = "off" THEN "on" ELSE pool[w])
    /\ UNCHANGED <<slots, xai>>

-----------------------------------------------------------------------------
(* The others: a stop, a sweep of the pool or an administrator *)

Stop(w) ==
    /\ sess[w].st = "open" /\ at[w] # "ended"
    /\ sess' = [sess EXCEPT ![w].st = "stopping", ![w].cancel = TRUE]
    /\ UNCHANGED <<worker, slots, xai, pool>>

TurnOff(w) ==
    /\ pool[w] = "on" /\ at[w] # "ended"
    /\ \E s \in {"off", "quota"} : Set(pool, w, s)
    /\ UNCHANGED <<worker, sess, slots, xai>>

-----------------------------------------------------------------------------
Captcha(w) == TakeSlot(w) \/ LeaveQueue(w) \/ SolveFails(w) \/ Solved(w)
Mail(w) == SendCode(w) \/ SendAnother(w) \/ ReadCode(w) \/ NoCode(w)
Account(w) ==
    \/ Verify(w) \/ Created(w) \/ CreateBreaks(w) \/ CodeInvalid(w) \/ CreateRefused(w)
    \/ Refresh(w) \/ Accept(w)
Cookie(w) == GotCookie(w) \/ NoChain(w) \/ Round(w) \/ LoginFails(w) \/ NoCookie(w)
Enter(w) ==
    \/ Convert(w) \/ ConvertFails(w) \/ Store(w) \/ Push(w) \/ SettleDown(w)
    \/ Heartbeat(w) \/ Complete(w)

Run(w) ==
    \/ Begin(w) \/ BeginFails(w) \/ SolverReady(w)
    \/ Captcha(w) \/ Mail(w) \/ Account(w) \/ Cookie(w) \/ Enter(w)

Next == \E w \in Worker : Run(w) \/ MailArrives(w) \/ Stop(w) \/ TurnOff(w)

Spec == Init /\ [][Next]_vars

\* Every call of the worker has a timeout and its thread goes on.
Fairness == \A w \in Worker : WF_vars(Run(w))

FairSpec == Spec /\ Fairness

-----------------------------------------------------------------------------
(* Properties *)

\* Every slot of the captcha solver is free or in use by one worker, however
\* the solves of retries, sign-ins and stopped workers end.
SlotsConserved == slots + Cardinality({w \in Worker : at[w] = "solving"}) = Slots

\* A captcha token is good for one create_account: every attempt has one of
\* its own, whichever error led to it.
NewTokenEachAttempt == \A w \in Worker : at[w] = "creating" => token[w] = "new"

\* An account that xAI is known to have created is never just an error: the
\* session that failed after it says so.
AccountAccounted ==
    \A w \in Worker :
        sess[w].st = "error" /\ remote[w] /\ ~silent[w] => sess[w].created

\* The worker keeps what a session promises.
Session == INSTANCE RegSession WITH
    phase <- [w \in Worker |-> IF sess[w].st = "stopping" THEN "open" ELSE sess[w].st],
    stored <- [w \in Worker |-> pool[w] # "none"],
    asked <- [w \in Worker |-> sess[w].cancel]

Implements == Session!Spec

=============================================================================
