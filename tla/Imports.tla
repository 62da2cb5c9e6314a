------------------------------ MODULE Imports ------------------------------
(***************************************************************************)
(* Accounts that come in from outside: the job that turns a list of SSO    *)
(* cookies into accounts, and the login with a device code.                *)
(*                                                                         *)
(* Source: src/grok2api/admin/sso_import.py, scripts/sso_to_auth_json.py,  *)
(* upstream/oidc_auth.py (device login), pool/accounts.py (bulk import),   *)
(* store/sessions_redis.py, scripts/registration_service.py (endpoints).   *)
(*                                                                         *)
(* A pool of threads takes the cookies through the device flow; the thread *)
(* of the job collects them in the order they end, stores all of them at   *)
(* the end, and keeps a record of its progress in its own memory and in    *)
(* Redis, where the other processes read it.  A login has one poller, in   *)
(* the process that started it, and a mirror in Redis in the same way.     *)
(* A token the provider grants has an access token in it.                  *)
(***************************************************************************)
EXTENDS Naturals, FiniteSets, Sequences, Functions, SequencesExt

CONSTANTS
    Cookie,    \* the lines of the import
    User,
    Login,     \* who logs in
    Workers,   \* threads of the pool
    Tries,     \* _device_flow_retries
    MaxFaults  \* bound: lost Redis writes, failed upserts, network errors of a poll, crashes

ASSUME ImportsAssumption ==
    /\ Workers \in Nat \ {0} /\ Tries \in Nat \ {0} /\ MaxFaults \in Nat
    /\ Login \in User /\ {"absent", "bare"} \cap Cookie = {} /\ IsFiniteSet(Cookie)

VARIABLES
    of,      \* the user of each cookie
    replace, \* the import is to replace what there is (merge = false)
    saved,   \* table accounts: the SSO cookie each user's row has
    place,   \* where each cookie is in the device flow
    asked,   \* requests of a device code in this try
    tried,   \* tries of the device flow
    spaced,  \* the gap since the last request of a code is over
    job,     \* what the thread of the job does
    seen,    \* the cookies it has collected, in the order they ended
    todo,    \* the cookies whose accounts it still has to store
    failed,  \* users whose row could not be stored
    local,   \* its record of the job in memory
    redis,   \* and in Redis
    poller,  \* the thread that polls for the login
    here,    \* the session of the login in the process that started it
    mirror,  \* in Redis
    grant,   \* the device code at the provider
    mishaps  \* those of MaxFaults so far

flow == <<place, asked, tried, spaced>>
work == <<job, seen, todo, failed, local, redis>>
session == <<poller, here, mirror, grant>>
importsVars == <<of, replace, saved, flow, work, session, mishaps>>

Finished == {"success", "error", "expired"}
Session == Finished \cup {"none", "waiting"}
Record == [status : {"queued", "converting", "importing", "done", "error"},
           ok : SUBSET Cookie, bad : SUBSET Cookie]

ImportsTypeOK ==
    /\ saved \in [User -> Cookie \cup {"absent", "bare"}]
    /\ place \in [Cookie -> {"queued", "code", "allow", "poll", "converted", "failed"}]
    /\ asked \in [Cookie -> 0 .. Tries] /\ tried \in [Cookie -> 0 .. Tries]
    /\ job \in {"idle", "queued", "converting", "storing", "done", "error", "gone"}
    /\ IsInjective(seen) /\ Range(seen) \subseteq Cookie /\ failed \subseteq User
    /\ todo \subseteq Cookie /\ (job # "storing" => todo = {})
    /\ local \in Record /\ redis \in Record
    /\ {here, mirror} \subseteq Session
    /\ poller \in {"none", "poll", "save", "mark"}
    /\ mishaps \in 0 .. MaxFaults
    \* the pool runs no more threads than it has
    /\ Cardinality({c \in Cookie : place[c] \notin {"queued", "converted", "failed"}}) <= Workers

NewJob == [status |-> "queued", ok |-> {}, bad |-> {}]

ImportsInit ==
    /\ of \in [Cookie -> User] /\ replace \in BOOLEAN
    /\ saved = [u \in User |-> "absent"]
    /\ place = [c \in Cookie |-> "queued"] /\ asked = [c \in Cookie |-> 0]
    /\ tried = [c \in Cookie |-> 0] /\ spaced = TRUE
    /\ job = "idle" /\ seen = <<>> /\ todo = {} /\ failed = {}
    /\ local = NewJob /\ redis = NewJob
    /\ poller = "none" /\ here = "none" /\ mirror = "none"
    /\ grant = "none" /\ mishaps = 0

\* One more fault, if it happens.
Faulty(b) == IF b THEN mishaps < MaxFaults /\ mishaps' = mishaps + 1 ELSE UNCHANGED mishaps

-----------------------------------------------------------------------------
(* A thread of the pool: one cookie through the device flow *)

Goto(c, pc) == place' = [place EXCEPT ![c] = pc]
\* The thread returns: nothing of its counters is left.
Leaves(c, pc) ==
    Goto(c, pc) /\ asked' = [asked EXCEPT ![c] = 0] /\ tried' = [tried EXCEPT ![c] = 0]

Working == {c \in Cookie : place[c] \notin {"queued", "converted", "failed"}}

\* The process is and its pool works.
Runs(c, pc) == job = "converting" /\ place[c] = pc

\* A cookie that is not good any more is led to the sign-in page.
Take(c, good) ==
    /\ Runs(c, "queued") /\ Cardinality(Working) < Workers
    /\ IF good
       THEN Goto(c, "code") /\ tried' = [tried EXCEPT ![c] = 1] /\ UNCHANGED asked
       ELSE Leaves(c, "failed")
    /\ UNCHANGED <<of, replace, saved, spaced, work, session, mishaps>>

\* Mutant of Again: the tries are not counted.
AgainAndAgain(c) == Goto(c, "code") /\ asked' = [asked EXCEPT ![c] = 0] /\ UNCHANGED tried

\* Mutant of Again: one try too many.
AgainOnceMore(c) ==
    IF tried[c] <= Tries
    THEN /\ Goto(c, "code") /\ asked' = [asked EXCEPT ![c] = 0]
         /\ tried' = [tried EXCEPT ![c] = @ + 1]
    ELSE Leaves(c, "failed")

\* The flow starts over after a pause, as often as it may.
Again(c) ==
    IF tried[c] < Tries
    THEN /\ Goto(c, "code") /\ asked' = [asked EXCEPT ![c] = 0]
         /\ tried' = [tried EXCEPT ![c] = @ + 1]
    ELSE Leaves(c, "failed")

\* _wait_device_flow_slot: one request of a code at a time, with a gap after it.
\* ok, limited: HTTP 429; no: another error.
AskCode(c, answer) ==
    /\ Runs(c, "code") /\ spaced
    /\ spaced' = FALSE
    /\ CASE answer = "ok" ->
              Goto(c, "allow") /\ asked' = [asked EXCEPT ![c] = 0] /\ UNCHANGED tried
         [] answer = "limited" /\ asked[c] + 1 < Tries ->
              asked' = [asked EXCEPT ![c] = @ + 1] /\ UNCHANGED <<place, tried>>
         [] OTHER -> Again(c)
    /\ UNCHANGED <<of, replace, saved, work, session, mishaps>>

GapEnds ==
    /\ ~spaced /\ spaced' = TRUE
    /\ UNCHANGED <<of, replace, saved, place, asked, tried, work, session, mishaps>>

\* verify and approve: only a rate limit is worth another try.
Allow(c, answer) ==
    /\ Runs(c, "allow")
    /\ CASE answer = "ok" -> Goto(c, "poll") /\ UNCHANGED <<asked, tried>>
         [] answer = "limited" -> Again(c)
         [] OTHER -> Leaves(c, "failed")
    /\ UNCHANGED <<of, replace, saved, spaced, work, session, mishaps>>

\* poll_token: none when it is refused or the deadline passes.  A token becomes the entry
\* of an account, with the cookie, of which a backup is written; if that raises, the
\* cookie has failed.
PollToken(c, answer) ==
    /\ Runs(c, "poll")
    /\ CASE answer = "ok" -> Leaves(c, "converted")
         [] answer = "limited" -> Again(c)
         [] OTHER -> Leaves(c, "failed")
    /\ UNCHANGED <<of, replace, saved, spaced, work, session, mishaps>>

Answer == {"ok", "limited", "no"}
Thread(c) ==
    \/ \E a \in Answer : AskCode(c, a) \/ Allow(c, a) \/ PollToken(c, a)
    \/ \E b \in BOOLEAN : Take(c, b)

-----------------------------------------------------------------------------
(* The thread of the job *)

\* _sso_job_put: in memory, and in Redis unless the write is lost.
Put(r, lost) ==
    /\ local' = r /\ redis' = (IF lost THEN redis ELSE r)
    /\ Faulty(lost)

\* POST /import
StartJob ==
    /\ job = "idle" /\ job' = "queued"
    /\ UNCHANGED <<of, replace, saved, flow, seen, todo, failed, local, redis, session, mishaps>>

Begin(lost) ==
    /\ job = "queued" /\ job' = "converting"
    /\ Put([NewJob EXCEPT !.status = "converting"], lost)
    /\ UNCHANGED <<of, replace, saved, flow, seen, todo, failed, session>>

SeenAs(s, pc) == {c \in Range(s) : place[c] = pc}
Tally(s, status) ==
    [status |-> status, ok |-> SeenAs(s, "converted"), bad |-> SeenAs(s, "failed")]

\* as_completed.  Not every step of a long list is published; the last is.
Collect(c, publish, lost) ==
    /\ job = "converting" /\ place[c] \in {"converted", "failed"} /\ c \notin Range(seen)
    /\ seen' = Append(seen, c)
    /\ publish \/ (Len(seen') < Cardinality(Cookie) /\ ~lost)
    /\ IF publish THEN Put(Tally(seen', "converting"), lost)
                  ELSE UNCHANGED <<local, redis, mishaps>>
    /\ UNCHANGED <<of, replace, saved, flow, job, todo, failed, session>>

AllSeen == Range(seen) = Cookie

\* collect_normalized_entries: one account per user, the last of its cookies.
Normalized ==
    {c \in SeenAs(seen, "converted") :
        \A i, j \in DOMAIN seen :
            seen[i] = c /\ j > i /\ place[seen[j]] = "converted" => of[seen[j]] # of[c]}

StartStoring(lost) ==
    /\ job = "converting" /\ AllSeen /\ Normalized # {}
    /\ job' = "storing" /\ todo' = Normalized
    /\ Put(Tally(seen, "importing"), lost)
    /\ UNCHANGED <<of, replace, saved, flow, seen, failed, session>>

\* merge_normalized_accounts: a row at a time.
StoreOne(c, fails) ==
    /\ job = "storing" /\ ~replace /\ c \in todo
    /\ todo' = todo \ {c}
    /\ Faulty(fails)
    /\ IF fails THEN failed' = failed \cup {of[c]} /\ UNCHANGED saved
                ELSE saved' = [saved EXCEPT ![of[c]] = c] /\ UNCHANGED failed
    /\ UNCHANGED <<of, replace, flow, job, seen, local, redis, session>>

\* The whole table at once.
StoreAll ==
    /\ job = "storing" /\ replace /\ todo # {}
    /\ todo' = {}
    /\ saved' = [u \in User |->
                 LET mine == {c \in todo : of[c] = u}
                 IN  IF mine = {} THEN "absent" ELSE CHOOSE c \in mine : TRUE]
    /\ UNCHANGED <<of, replace, flow, job, seen, failed, local, redis, session, mishaps>>

\* The database does not answer at all: the write of the whole table, or the count
\* of the accounts after the rows.
StoreBreaks ==
    /\ job = "storing" /\ (replace \/ todo = {})
    /\ job' = "error" /\ todo' = {}
    /\ Faulty(TRUE)
    /\ \E base \in {local, redis} :
          local' = [base EXCEPT !.status = "error"] /\ redis' = [base EXCEPT !.status = "error"]
    /\ UNCHANGED <<of, replace, saved, flow, seen, failed, session>>

\* _normalize_entry: the row of an entry is the one of its user.
Keyed(cs) == {of[c] : c \in cs}

Unstored == Keyed(SeenAs(seen, "converted")) \subseteq failed

\* Mutant of BulkOk: the rows that failed do not count.
AlwaysOk == TRUE

\* What merge_normalized_accounts says of the whole: a single row is enough.
BulkOk == ~Unstored

Finish(lost) ==
    /\ \/ job = "converting" /\ AllSeen /\ Normalized = {}
       \/ job = "storing" /\ todo = {}
    /\ job' = "done"
    /\ LET ok == IF BulkOk THEN SeenAs(seen, "converted") ELSE {}
       IN  Put([status |-> "done", ok |-> ok, bad |-> Cookie \ ok], lost)
    /\ UNCHANGED <<of, replace, saved, flow, seen, todo, failed, session>>

\* import_auth_payloads_bulk, with the entries of StartStoring
Bulk == StoreAll \/ StoreBreaks \/ \E c \in Cookie, fails \in BOOLEAN : StoreOne(c, fails)

JobThread ==
    \/ Bulk
    \/ \E lost \in BOOLEAN : Begin(lost) \/ StartStoring(lost) \/ Finish(lost)
    \/ \E c \in Cookie, b, lost \in BOOLEAN : Collect(c, b, lost)

-----------------------------------------------------------------------------
(* The login with a device code *)

\* _device_update, _device_mirror: in memory, and in Redis unless the write is lost.
Mark(s, lost) ==
    /\ here' = s /\ mirror' = (IF lost THEN mirror ELSE s)
    /\ Faulty(lost)

\* start_login: the poller runs in this process.
StartLogin(lost) ==
    /\ grant = "none" /\ grant' = "pending"
    /\ Mark("waiting", lost) /\ poller' = "poll"
    /\ UNCHANGED <<of, replace, saved, flow, work>>

Decides ==
    /\ grant = "pending" /\ grant' \in {"approved", "denied", "over"}
    /\ UNCHANGED <<of, replace, saved, flow, work, poller, here, mirror, mishaps>>

\* Mutant of Stops: the poller goes on.
StopsNever == UNCHANGED poller

Stops == poller' = "none"

\* The code is over by the poller's own clock.
LocalExpiry(lost) ==
    /\ poller = "poll" /\ Mark("expired", lost) /\ Stops
    /\ UNCHANGED <<of, replace, saved, flow, work, grant>>

\* authorization_pending, slow_down, a network error, any other status: the next round.
PollAgain ==
    /\ poller = "poll" /\ mirror' = here
    /\ UNCHANGED <<of, replace, saved, flow, work, poller, here, grant, mishaps>>

Polled(lost) ==
    /\ poller = "poll"
    /\ \/ /\ grant = "approved" /\ grant' = "used" /\ poller' = "save" /\ ~lost
          /\ UNCHANGED <<here, mirror, mishaps>>
       \/ /\ grant \in {"denied", "over", "used"} /\ Stops
          /\ Mark(IF grant = "over" THEN "expired" ELSE "error", lost)
          /\ UNCHANGED grant
    /\ UNCHANGED <<of, replace, saved, flow, work>>

\* Mutant of SaveLogin: a login that could not be saved has succeeded as well.
SaveLoginRegardless(fails, lost) ==
    /\ poller = "save" /\ poller' = "mark" /\ ~lost
    /\ Faulty(fails)
    /\ saved' = IF fails \/ saved[Login] # "absent" THEN saved
                ELSE [saved EXCEPT ![Login] = "bare"]
    /\ UNCHANGED <<of, replace, flow, work, here, mirror, grant>>

\* upsert_entry: a row that has a cookie keeps it.
SaveLogin(fails, lost) ==
    /\ poller = "save"
    /\ IF fails
       THEN /\ here' = "error" /\ mirror' = (IF lost THEN mirror ELSE "error") /\ Stops
            /\ mishaps + (IF lost THEN 2 ELSE 1) <= MaxFaults
            /\ mishaps' = mishaps + (IF lost THEN 2 ELSE 1) /\ UNCHANGED saved
       ELSE /\ ~lost /\ poller' = "mark"
            /\ saved' = IF saved[Login] = "absent" THEN [saved EXCEPT ![Login] = "bare"]
                        ELSE saved
            /\ UNCHANGED <<here, mirror, mishaps>>
    /\ UNCHANGED <<of, replace, flow, work, grant>>

MarkSuccess(lost) ==
    /\ poller = "mark" /\ Mark("success", lost) /\ Stops
    /\ UNCHANGED <<of, replace, saved, flow, work, grant>>

Poller ==
    \/ PollAgain
    \/ \E lost \in BOOLEAN : Polled(lost) \/ MarkSuccess(lost)
    \/ \E fails, lost \in BOOLEAN : SaveLogin(fails, lost)

\* _device_load: what a process once read from Redis it keeps.
Look ==
    /\ mirror # "none" /\ here = "none" /\ here' = mirror
    /\ UNCHANGED <<of, replace, saved, flow, work, poller, mirror, grant, mishaps>>

\* list_device_sessions: an hour after its end a session is dropped.
DropSession ==
    /\ here \in Finished /\ here' = "none" /\ mirror' = "none"
    /\ UNCHANGED <<of, replace, saved, flow, work, poller, grant, mishaps>>

\* The mirror lasts a quarter of an hour from its last write.
MirrorEnds ==
    /\ mirror # "none" /\ mirror' = "none"
    /\ UNCHANGED <<of, replace, saved, flow, work, poller, here, grant, mishaps>>

-----------------------------------------------------------------------------
\* The sidecar dies, and comes back without its threads and its memory.
SidecarDies ==
    /\ job' = (IF job \in {"queued", "converting", "storing"} THEN "gone" ELSE job)
    /\ todo' = {} /\ local' = NewJob
    /\ poller' = "none" /\ here' = "none"
    /\ Faulty(TRUE)
    /\ UNCHANGED <<of, replace, saved, flow, seen, failed, redis, mirror, grant>>

ImportsNext ==
    \/ \E c \in Cookie : Thread(c)
    \/ GapEnds \/ StartJob \/ JobThread
    \/ Poller \/ Decides \/ Look \/ DropSession \/ MirrorEnds \/ SidecarDies
    \/ \E lost \in BOOLEAN : StartLogin(lost) \/ LocalExpiry(lost)

ImportsSpec == ImportsInit /\ [][ImportsNext]_importsVars

\* Requests end because they have timeouts, the clock passes the gap and the end of a
\* code; nobody has to ask for an import or a login, or to answer one.
Fairness ==
    /\ WF_importsVars(GapEnds) /\ WF_importsVars(JobThread)
    /\ \A c \in Cookie : WF_importsVars(Thread(c))
    /\ WF_importsVars(\E lost \in BOOLEAN : LocalExpiry(lost))
    /\ WF_importsVars(poller # "poll" /\ Poller)

FairSpec == ImportsSpec /\ Fairness

-----------------------------------------------------------------------------
\* A job that says it stored an account has one: the row of the cookie's user holds a
\* cookie of that user, and this for every cookie it reports unless a row of it could
\* not be stored.  (With some rows stored it still reports all of them.)
OkStored ==
    job = "done" /\ local.ok # {} =>
        LET stored == {c \in local.ok : /\ saved[of[c]] \in Cookie
                                        /\ of[saved[of[c]]] = of[c]}
        IN  stored # {} /\ (failed = {} => stored = local.ok)

\* Whoever sees that a login succeeded, in this process or in Redis, finds its
\* account in the table, unless an import replaced the table.
SuccessStored ==
    "success" \in {here, mirror} /\ ~replace => saved[Login] # "absent"

\* An import comes to its end, whatever the provider answers, unless the process dies.
JobEnds == job = "queued" ~> job \in {"done", "error", "gone"}

\* A login whose poller runs comes to its end, whether its user answers or not.
LoginEnds == poller = "poll" ~> poller = "none" /\ here # "waiting"

=============================================================================
