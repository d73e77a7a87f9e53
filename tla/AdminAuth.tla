------------------------------ MODULE AdminAuth ------------------------------
(***************************************************************************)
(* The administrator's account: creation and reset from the command line,  *)
(* login behind the rate limiter, the session check of the middleware,     *)
(* password change and logout.  Requests and commands are one-shot and     *)
(* interleave at their awaits.  The password is verified in a worker       *)
(* thread while the transaction holds the row of "admins".                 *)
(*                                                                         *)
(* A session is named after the login that created it, a password stands   *)
(* for its hash.  PostgreSQL is external: the row lock and the advisory    *)
(* lock are modelled from how the code relies on them.                     *)
(***************************************************************************)
EXTENDS Naturals, FiniteSetsExt

CONSTANTS
    Requests,      \* one-shot HTTP requests and commands
    Accounts,      \* usernames, of which at most one comes to exist
    Addresses,     \* client IP addresses
    Passwords,     \* passwords that satisfy validate_new_password
    Kinds,         \* a subset of RequestKinds
    Faults,        \* a subset of {"db"}: failing statements, cancelled tasks
    FailureLimit,  \* Settings.login_failure_limit
    Window,        \* Settings.login_failure_window_seconds
    BaseBackoff,   \* Settings.login_backoff_base_seconds
    MaxBackoff,    \* Settings.login_backoff_max_seconds
    Ttl,           \* Settings.session_ttl_seconds
    MaxTime,       \* bound: clock ticks
    NoRequest, NoPassword

RequestKinds == {"create", "reset", "login", "change", "logout", "manage"}

ASSUME KindsAssumption == Kinds \subseteq RequestKinds
ASSUME LimitAssumption == FailureLimit \in Nat /\ FailureLimit >= 2
ASSUME TimesAssumption ==
    /\ {Window, BaseBackoff, MaxBackoff, Ttl} \subseteq Nat \ {0}
    /\ MaxTime \in Nat
    /\ BaseBackoff <= MaxBackoff
ASSUME NullsAssumption == NoRequest \notin Requests /\ NoPassword \notin Passwords

VARIABLES
    admins,        \* rows of "admins", by username
    password,      \* admins.password_hash
    must,          \* admins.must_change_password
    epoch,         \* how often the password was written
    sessions,      \* rows of "admin_sessions"
    audit,         \* rows of "audit_events", per request
    rowLock,       \* SELECT ... FOR UPDATE on a row of "admins"
    createLock,    \* pg_advisory_xact_lock(ADMIN_CREATE_ADVISORY_LOCK_ID)
    failures,      \* LoginRateLimiter._failures
    burst,         \* attempts admitted at this instant since the last success
    now,
    pc, op,
    read           \* the row that a login or a change has read

dbVars == <<admins, password, must, epoch, sessions, audit>>
locks  == <<rowLock, createLock>>
limits == <<failures, burst>>
vars   == <<dbVars, locks, limits, now, pc, op, read>>

Keys == ({"ip"} \X Addresses) \cup ({"account"} \X Accounts)
NoFailure == [count |-> 0, blocked |-> 0, last |-> 0]
NoSession == [state |-> "none"]
Unread    == [password |-> NoPassword, epoch |-> 0]
Answered  == {"done", "refused", "error"}
PCs == {"idle", "create", "insert", "reset", "resetWrite", "login", "loginRow", "verify",
        "session", "success", "resolve", "logout", "change", "changeVerify", "changeWrite",
        "manage"} \cup Answered

Operation ==
    [kind : {"none"}]
    \cup [kind : {"create", "reset"}, account : Accounts, password : Passwords]
    \cup [kind : {"login"}, account : Accounts, password : Passwords, address : Addresses]
    \cup [kind : {"change"}, session : Requests, password : Passwords, new : Passwords]
    \cup [kind : {"logout", "manage"}, session : Requests]

Session == [state : {"active", "revoked"}, account : Accounts, epoch : Nat, expires : Nat]
Actions == {"admin_create", "password_reset", "login_success", "login_failure",
            "password_change", "admin_logout"}

TypeOK ==
    /\ admins   \subseteq Accounts
    /\ password \in [Accounts -> Passwords \cup {NoPassword}]
    /\ must     \in [Accounts -> BOOLEAN]
    /\ epoch    \in [Accounts -> Nat]
    /\ sessions \in [Requests -> Session \cup {NoSession}]
    /\ audit    \subseteq (Requests \X Actions)
    /\ rowLock  \in [Accounts -> Requests \cup {NoRequest}]
    /\ createLock \in Requests \cup {NoRequest}
    /\ failures \in [Keys -> [count : Nat, blocked : 0..(MaxTime + MaxBackoff), last : 0..MaxTime]]
    /\ burst    \in [Keys -> SUBSET Requests]
    /\ now      \in 0..MaxTime
    /\ pc       \in [Requests -> PCs]
    /\ op       \in [Requests -> Operation]
    /\ read     \in [Requests -> [password : Passwords \cup {NoPassword}, epoch : Nat]]

Init ==
    /\ admins = {} /\ audit = {} /\ now = 0
    /\ password = [a \in Accounts |-> NoPassword]
    /\ must     = [a \in Accounts |-> TRUE]
    /\ epoch    = [a \in Accounts |-> 0]
    /\ sessions = [r \in Requests |-> NoSession]
    /\ rowLock  = [a \in Accounts |-> NoRequest]
    /\ createLock = NoRequest
    /\ failures = [k \in Keys |-> NoFailure]
    /\ burst    = [k \in Keys |-> {}]
    /\ pc   = [r \in Requests |-> "idle"]
    /\ op   = [r \in Requests |-> [kind |-> "none"]]
    /\ read = [r \in Requests |-> Unread]

-----------------------------------------------------------------------------
(* Parts that several handlers share. *)

Goto(r, s) == pc' = [pc EXCEPT ![r] = s]

Audited(r, action) == audit' = audit \cup {<<r, action>>}

\* append_independent_event swallows its own failure.
AuditedBestEffort(r, action) ==
    \/ Audited(r, action)
    \/ "db" \in Faults /\ UNCHANGED audit

\* A commit takes effect even when its answer does not come back.
CommitAnswered(r, next) ==
    \/ Goto(r, next)
    \/ "db" \in Faults /\ Goto(r, "error")

\* The account that a request is about; the session's, once it has one.
AccountOf(r) ==
    IF op[r].kind \in {"create", "reset", "login"} THEN op[r].account
    ELSE sessions[op[r].session].account

\* Commit or rollback releases what the transaction locked.
Unlock(r) ==
    /\ rowLock' = [a \in Accounts |-> IF rowLock[a] = r THEN NoRequest ELSE rowLock[a]]
    /\ createLock' = IF createLock = r THEN NoRequest ELSE createLock

\* Faulty variant: the row is read without FOR UPDATE.
LockAndReadUnlocked(r) ==
    /\ read' = [read EXCEPT ![r] = [password |-> password[AccountOf(r)],
                                    epoch    |-> epoch[AccountOf(r)]]]
    /\ UNCHANGED locks

\* SELECT password_hash FROM admins ... FOR UPDATE.
LockAndRead(r) ==
    /\ rowLock[AccountOf(r)] = NoRequest
    /\ rowLock' = [rowLock EXCEPT ![AccountOf(r)] = r]
    /\ read' = [read EXCEPT ![r] = [password |-> password[AccountOf(r)],
                                    epoch    |-> epoch[AccountOf(r)]]]
    /\ UNCHANGED createLock

\* UPDATE admins SET password_hash, must_change_password.
WritePassword(a, p, force) ==
    /\ password' = [password EXCEPT ![a] = p]
    /\ must'     = [must EXCEPT ![a] = force]
    /\ epoch'    = [epoch EXCEPT ![a] = @ + 1]

\* UPDATE admin_sessions SET revoked_at for the account, but for the sessions kept.
RevokedExcept(a, kept) ==
    [s \in Requests |->
        IF sessions[s].state = "active" /\ sessions[s].account = a /\ s \notin kept
        THEN [sessions[s] EXCEPT !.state = "revoked"] ELSE sessions[s]]

-----------------------------------------------------------------------------
(* Arrival. *)

Tokens == {s \in Requests : sessions[s].state # "none"}

Arrive(r) ==
    /\ pc[r] = "idle"
    /\ \E k \in Kinds :
           /\ \/ /\ k \in {"create", "reset"}
                 /\ \E a \in Accounts, p \in Passwords :
                        op' = [op EXCEPT ![r] = [kind |-> k, account |-> a, password |-> p]]
                 /\ Goto(r, k)
              \/ /\ k = "login"
                 /\ \E a \in Accounts, p \in Passwords, i \in Addresses :
                        op' = [op EXCEPT ![r] = [kind |-> k, account |-> a, password |-> p,
                                                 address |-> i]]
                 /\ Goto(r, k)
              \/ /\ k = "change"
                 /\ \E s \in Tokens, p, n \in Passwords :
                        op' = [op EXCEPT ![r] = [kind |-> k, session |-> s, password |-> p,
                                                 new |-> n]]
                 /\ Goto(r, "resolve")
              \/ /\ k \in {"logout", "manage"}
                 /\ \E s \in Tokens : op' = [op EXCEPT ![r] = [kind |-> k, session |-> s]]
                 /\ Goto(r, "resolve")
    /\ UNCHANGED <<dbVars, locks, limits, now, read>>

Tick ==
    /\ now < MaxTime
    /\ now' = now + 1
    /\ burst' = [k \in Keys |-> {}]
    /\ UNCHANGED <<dbVars, locks, failures, pc, op, read>>

-----------------------------------------------------------------------------
(* create-admin and reset-password. *)

\* Faulty variant: no advisory lock around the check for an existing row.
CreateCheckUnlocked(r) ==
    /\ pc[r] = "create"
    /\ Goto(r, IF admins # {} THEN "refused" ELSE "insert")
    /\ UNCHANGED <<dbVars, locks, limits, now, op, read>>

\* The advisory lock, then the check that no administrator exists.
CreateCheck(r) ==
    /\ pc[r] = "create"
    /\ createLock = NoRequest
    /\ IF admins # {} THEN Goto(r, "refused") /\ UNCHANGED createLock
       ELSE Goto(r, "insert") /\ createLock' = r
    /\ UNCHANGED <<dbVars, rowLock, limits, now, op, read>>

CreateCommit(r) ==
    /\ pc[r] = "insert"
    /\ admins' = admins \cup {AccountOf(r)}
    /\ WritePassword(AccountOf(r), op[r].password, TRUE)
    /\ Audited(r, "admin_create")
    /\ Unlock(r)
    /\ CommitAnswered(r, "done")
    /\ UNCHANGED <<sessions, limits, now, op, read>>

ResetRow(r) ==
    /\ pc[r] = "reset"
    /\ IF AccountOf(r) \notin admins THEN Goto(r, "refused") /\ UNCHANGED <<locks, read>>
       ELSE LockAndRead(r) /\ Goto(r, "resetWrite")
    /\ UNCHANGED <<dbVars, limits, now, op>>

ResetCommit(r) ==
    /\ pc[r] = "resetWrite"
    /\ WritePassword(AccountOf(r), op[r].password, TRUE)
    /\ sessions' = RevokedExcept(AccountOf(r), {})
    /\ Audited(r, "password_reset")
    /\ Unlock(r)
    /\ CommitAnswered(r, "done")
    /\ UNCHANGED <<admins, limits, now, op, read>>

-----------------------------------------------------------------------------
(* The rate limiter: pure functions of its state and the clock. *)

KeysOf(r) == {<<"ip", op[r].address>>, <<"account", op[r].account>>}

\* _active_state: a failure older than the window is forgotten.
Active(k) == failures[k].count > 0 /\ now - failures[k].last <= Window

\* 2 ** exponent, as a function that can be reasoned about.
TwoTo[n \in Nat] == IF n = 0 THEN 1 ELSE 2 * TwoTo[n - 1]

\* Faulty variant: the backoff is not capped.
DelayUncapped(n) == IF n < FailureLimit THEN 0 ELSE BaseBackoff * TwoTo[n - FailureLimit]

Delay(n) == IF n < FailureLimit THEN 0
            ELSE Min({BaseBackoff * TwoTo[n - FailureLimit], MaxBackoff})

\* register_failure, for one dimension.
OneMore(k) ==
    LET n == IF Active(k) THEN failures[k].count + 1 ELSE 1
    IN  [count |-> n, blocked |-> now + Delay(n), last |-> now]

\* retry_after > 0
Blocked(r) == \E k \in KeysOf(r) : Active(k) /\ failures[k].blocked > now

(* Login. *)

\* Faulty variant: an admitted attempt is not counted.
ReserveWithoutCounting(r) ==
    /\ pc[r] = "login"
    /\ IF Blocked(r) THEN AuditedBestEffort(r, "login_failure") /\ Goto(r, "refused") /\ UNCHANGED burst
       ELSE /\ burst' = [k \in Keys |-> IF k \in KeysOf(r) THEN burst[k] \cup {r} ELSE burst[k]]
            /\ Goto(r, "loginRow") /\ UNCHANGED audit
    /\ UNCHANGED <<admins, password, must, epoch, sessions, locks, failures, now, op, read>>

\* reserve_attempt checks and counts without an await in between.
Reserve(r) ==
    /\ pc[r] = "login"
    /\ IF Blocked(r)
       THEN AuditedBestEffort(r, "login_failure") /\ Goto(r, "refused") /\ UNCHANGED limits
       ELSE /\ failures' = [k \in Keys |-> IF k \in KeysOf(r) THEN OneMore(k) ELSE failures[k]]
            /\ burst' = [k \in Keys |-> IF k \in KeysOf(r) THEN burst[k] \cup {r} ELSE burst[k]]
            /\ Goto(r, "loginRow") /\ UNCHANGED audit
    /\ UNCHANGED <<admins, password, must, epoch, sessions, locks, now, op, read>>

\* An unknown username is answered like a wrong password.
LoginRow(r) ==
    /\ pc[r] = "loginRow"
    /\ IF AccountOf(r) \notin admins
       THEN AuditedBestEffort(r, "login_failure") /\ Goto(r, "refused") /\ UNCHANGED <<locks, read>>
       ELSE LockAndRead(r) /\ Goto(r, "verify") /\ UNCHANGED audit
    /\ UNCHANGED <<admins, password, must, epoch, sessions, limits, now, op>>

LoginVerify(r) ==
    /\ pc[r] = "verify"
    /\ IF op[r].password = read[r].password
       THEN Goto(r, "session") /\ UNCHANGED <<audit, locks>>
       ELSE AuditedBestEffort(r, "login_failure") /\ Unlock(r) /\ Goto(r, "refused")
    /\ UNCHANGED <<admins, password, must, epoch, sessions, limits, now, op, read>>

\* The session row, last_login_at and the audit event are committed together.
LoginCommit(r) ==
    /\ pc[r] = "session"
    /\ sessions' = [sessions EXCEPT ![r] =
           [state |-> "active", account |-> AccountOf(r), epoch |-> read[r].epoch,
            expires |-> now + Ttl]]
    /\ Audited(r, "login_success")
    /\ Unlock(r)
    /\ CommitAnswered(r, "success")
    /\ UNCHANGED <<admins, password, must, epoch, limits, now, op, read>>

\* register_success clears both dimensions, for whoever else uses them.
LoginSucceeded(r) ==
    /\ pc[r] = "success"
    /\ failures' = [k \in Keys |-> IF k \in KeysOf(r) THEN NoFailure ELSE failures[k]]
    /\ burst'    = [k \in Keys |-> IF k \in KeysOf(r) THEN {} ELSE burst[k]]
    /\ Goto(r, "done")
    /\ UNCHANGED <<dbVars, locks, now, op, read>>

-----------------------------------------------------------------------------
(* The middleware and the handlers behind it. *)

\* resolve_session
Valid(s) == sessions[s].state = "active" /\ sessions[s].expires > now

\* No session: to the login page.  A forced change leaves two paths open.  A
\* form without the session's CSRF token, or whose two new passwords differ, is
\* refused as well.
Resolve(r) ==
    /\ pc[r] = "resolve"
    /\ \/ /\ Valid(op[r].session)
          /\ must[AccountOf(r)] => op[r].kind # "manage"
          /\ Goto(r, op[r].kind)
       \/ Goto(r, "refused")
    /\ UNCHANGED <<dbVars, locks, limits, now, op, read>>

\* The handlers of the other modules.
Manage(r) ==
    /\ pc[r] = "manage"
    /\ Goto(r, "done")
    /\ UNCHANGED <<dbVars, locks, limits, now, op, read>>

Logout(r) ==
    /\ pc[r] = "logout"
    /\ sessions' = [sessions EXCEPT ![op[r].session].state = "revoked"]
    /\ Audited(r, "admin_logout")
    /\ CommitAnswered(r, "done")
    /\ UNCHANGED <<admins, password, must, epoch, locks, limits, now, op, read>>

ChangeRow(r) ==
    /\ pc[r] = "change"
    /\ LockAndRead(r)
    /\ Goto(r, "changeVerify")
    /\ UNCHANGED <<dbVars, limits, now, op>>

\* The current password must match and the new one must differ.
ChangeVerify(r) ==
    /\ pc[r] = "changeVerify"
    /\ IF op[r].password = read[r].password /\ op[r].new # read[r].password
       THEN Goto(r, "changeWrite") /\ UNCHANGED locks
       ELSE Unlock(r) /\ Goto(r, "refused")
    /\ UNCHANGED <<dbVars, limits, now, op, read>>

\* The session that changes the password is kept, and only that one.
ChangeCommit(r) ==
    LET s == op[r].session  a == AccountOf(r) IN
    /\ pc[r] = "changeWrite"
    /\ WritePassword(a, op[r].new, FALSE)
    /\ sessions' = [RevokedExcept(a, {s}) EXCEPT ![s].epoch = epoch[a] + 1]
    /\ Audited(r, "password_change")
    /\ Unlock(r)
    /\ CommitAnswered(r, "done")
    /\ UNCHANGED <<admins, limits, now, op, read>>

\* A statement fails or the task is cancelled: the transaction rolls back.  A
\* reserved attempt stays counted.
Fails(r) ==
    /\ "db" \in Faults
    /\ pc[r] \notin {"idle", "login", "success", "manage"} \cup Answered
    /\ Unlock(r)
    /\ Goto(r, "error")
    /\ UNCHANGED <<dbVars, limits, now, op, read>>

-----------------------------------------------------------------------------
Step(r) ==
    \/ CreateCheck(r) \/ CreateCommit(r) \/ ResetRow(r) \/ ResetCommit(r)
    \/ Reserve(r) \/ LoginRow(r) \/ LoginVerify(r) \/ LoginCommit(r) \/ LoginSucceeded(r)
    \/ Resolve(r) \/ Manage(r) \/ Logout(r)
    \/ ChangeRow(r) \/ ChangeVerify(r) \/ ChangeCommit(r)

Quiet == (\A r \in Requests : pc[r] \in Answered) /\ UNCHANGED vars

Next ==
    \/ \E r \in Requests : Arrive(r) \/ Step(r) \/ Fails(r)
    \/ Tick
    \/ Quiet

Spec == Init /\ [][Next]_vars

-----------------------------------------------------------------------------
(* Properties. *)

\* The system has one administrator, however many create-admin commands run at
\* once (create_admin, ADMIN_CREATE_ADVISORY_LOCK_ID).
SingleAdministrator == Cardinality(admins) <= 1

\* An active session rests on the password that is in force: it was opened with
\* it, or it is the one that set it.  A login that verified the password before a
\* reset or a change cannot open a session after it (create_authenticated_session,
\* reset_admin_password and change_password serialise on the row of "admins").
OnlyCurrentCredentials ==
    \A s \in Requests : sessions[s].state = "active" =>
        sessions[s].epoch = epoch[sessions[s].account]

\* Logins in parallel do not get around the limiter: at one instant no address and
\* no account has more passwords verified than the limit, unless one succeeded
\* (reserve_attempt counts before the verification starts).
AttemptsBounded == \A k \in Keys : Cardinality(burst[k]) <= FailureLimit
=============================================================================
