--------------------------------- MODULE Accounts ---------------------------------
(***************************************************************************)
(* The sessions of one verified account (internal/auth): logging in with   *)
(* the lockout, refreshing, logging out, resetting the password, and what  *)
(* closes the account: the admin panel's disabling, the user's deletion.   *)
(*                                                                         *)
(* An access token is good until it expires, whatever happens to its       *)
(* session: the middleware looks nothing up.  What was opened with one, a  *)
(* WebSocket, is not looked at again at all, and not modelled here: it     *)
(* outlives token, session and account (handlers/ws.go:43-127).            *)
(*                                                                         *)
(* The lockout counts an account's failed attempts per address, and the    *)
(* address is what the request names: the first in X-Forwarded-For, or     *)
(* X-Real-IP, or the peer's.                                               *)
(*                                                                         *)
(* Operations are calls of the database without a transaction; a step is   *)
(* one write, or the reads an operation starts with, and any call may fail.*)
(***************************************************************************)
EXTENDS Naturals, FiniteSets

CONSTANTS Requests,          \* slots: as many requests run at once
          MaxSessions,       \* bound on the sessions that are created
          Resets,            \* the password resets that may be requested
          LockoutThreshold,  \* auth.lockout_threshold
          Addresses,         \* the addresses login requests name
          NoReset, NoAddress

ASSUME AccountsAssumption ==
    /\ IsFiniteSet(Requests)
    /\ MaxSessions \in Nat
    /\ LockoutThreshold \in Nat \ {0}
    /\ NoReset \notin Resets
    /\ NoAddress \notin Addresses

VARIABLES
    disabled,   \* users.disabled_at is set
    deleted,    \* users.deleted_at is set
    session,    \* the rows: "none", "active", or "ended": revoked or expired
    access,     \* sessions with an access token that has not expired
    reset,      \* password_resets: "none", "fresh", or "used": used or expired
    failures,   \* failed login attempts of each address within the lockout's window
    req,        \* the requests in progress
    doomed,     \* history: sessions that a revocation under way is to end
    uses,       \* history: password changes by a reset, counted up to two
    shared      \* history: resets read by two requests at once, or not marked

vars == <<disabled, deleted, session, access, reset, failures, req, doomed, uses, shared>>
account == <<disabled, deleted>>
sessions == <<session, access, doomed>>
resets == <<reset, uses, shared>>

Sessions == 1..MaxSessions
NoSession == 0

Phases == {"idle", "find", "attempt", "create", "refresh", "end", "store", "password", "mark",
           "revoke"}
\* ip: the address of a login, until its attempt is recorded or has succeeded.
\* old: a login that has read the account as it was before a change that revokes.
Request == [pc : Phases, session : Sessions \cup {NoSession}, reset : Resets \cup {NoReset},
            ip : Addresses \cup {NoAddress}, old : BOOLEAN]
NoRequest == [pc |-> "idle", session |-> NoSession, reset |-> NoReset, ip |-> NoAddress,
              old |-> FALSE]

Made == {s \in Sessions : session[s] # "none"}
Active == {s \in Sessions : session[s] = "active"}

TypeOK ==
    /\ disabled \in BOOLEAN /\ deleted \in BOOLEAN
    /\ session \in [Sessions -> {"none", "active", "ended"}]
    /\ access \subseteq Made
    /\ reset \in [Resets -> {"none", "fresh", "used"}]
    /\ failures \in [Addresses -> Nat]
    /\ req \in [Requests -> Request]
    /\ \A r \in Requests : /\ req[r].pc \in {"find", "attempt"} => req[r].ip \in Addresses
                           /\ req[r].pc \in {"refresh", "end"} => req[r].session \in Made
                           /\ req[r].pc \in {"password", "mark"} => req[r].reset \in Resets
    /\ doomed \subseteq Active
    /\ uses \in [Resets -> 0..2]
    /\ shared \subseteq Resets

Init ==
    /\ disabled = FALSE /\ deleted = FALSE
    /\ session = [s \in Sessions |-> "none"]
    /\ access = {} /\ doomed = {}
    /\ reset = [p \in Resets |-> "none"]
    /\ failures = [a \in Addresses |-> 0]
    /\ req = [r \in Requests |-> NoRequest]
    /\ uses = [p \in Resets |-> 0] /\ shared = {}
--------------------------------------------------------------------------------
At(r, phase) == req[r].pc = phase
Goto(r, phase) == req' = [req EXCEPT ![r].pc = phase]
Finish(r) == req' = [req EXCEPT ![r] = NoRequest]

\* Requests that have changed the account and are still to revoke its sessions.
Revoking == {r \in Requests : req[r].pc \in {"mark", "revoke"}}

\* revoked_at is set on the sessions of S that are active.
Revoke(S) ==
    /\ session' = [s \in Sessions |-> IF s \in S \cap Active THEN "ended" ELSE session[s]]
    /\ doomed' = {s \in doomed : session'[s] = "active"}
    /\ UNCHANGED access

\* r has made a change after which every session is to end, and logins that
\* have read the account by now carry on with what they read.
Condemn(r, phase) ==
    /\ doomed' = Active
    /\ req' = [q \in Requests |->
                 IF q = r THEN [req[r] EXCEPT !.pc = phase]
                 ELSE IF At(q, "create") THEN [req[q] EXCEPT !.old = TRUE] ELSE req[q]]

(***************************************************************************)
(* Logging in.  The lockout counts the failed attempts of the account from *)
(* one address, which are recorded after the password has been compared.   *)
(***************************************************************************)
\* Mutant: one attempt more than the threshold.
LoginAtThreshold(r, a) ==
    /\ At(r, "idle")
    /\ failures[a] <= LockoutThreshold
    /\ req' = [req EXCEPT ![r].pc = "find", ![r].ip = a]
    /\ UNCHANGED <<account, sessions, resets, failures>>

\* A login from a; what is no address counts as one and the same.
Login(r, a) ==
    /\ At(r, "idle")
    /\ failures[a] < LockoutThreshold
    /\ req' = [req EXCEPT ![r].pc = "find", ![r].ip = a]
    /\ UNCHANGED <<account, sessions, resets, failures>>

\* The account is read and the password compared: it is right, it is wrong (or
\* the account is closed), or the database fails.
GetUserByEmail(r) ==
    /\ At(r, "find")
    /\ \/ /\ ~disabled /\ ~deleted
          /\ req' = [req EXCEPT ![r].pc = "create", ![r].ip = NoAddress]
       \/ Goto(r, "attempt")
       \/ Finish(r)
    /\ UNCHANGED <<account, sessions, resets, failures>>

\* An attempt that cannot be recorded is logged and forgotten.
RecordLoginAttempt(r) ==
    /\ At(r, "attempt")
    /\ failures' \in {failures, [failures EXCEPT ![req[r].ip] = @ + 1]}
    /\ Finish(r)
    /\ UNCHANGED <<account, sessions, resets>>

\* Mutant: the access token is made before the session it names.
GenerateTokenFirst(r) ==
    LET s == Cardinality(Made) + 1 IN
    /\ At(r, "create")
    /\ s \in Sessions
    /\ access' = access \cup {s}
    /\ \/ /\ session' = [session EXCEPT ![s] = "active"]
          /\ doomed' = IF req[r].old /\ Revoking # {} THEN doomed \cup {s} ELSE doomed
       \/ UNCHANGED <<session, doomed>>
    /\ Finish(r)
    /\ UNCHANGED <<account, resets, failures>>

\* The session and, without a further call, its access token.
CreateSession(r) ==
    LET s == Cardinality(Made) + 1 IN
    /\ At(r, "create")
    /\ \/ /\ s \in Sessions
          /\ session' = [session EXCEPT ![s] = "active"]
          /\ access' = access \cup {s}
          /\ doomed' = IF req[r].old /\ Revoking # {} THEN doomed \cup {s} ELSE doomed
       \/ UNCHANGED sessions
    /\ Finish(r)
    /\ UNCHANGED <<account, resets, failures>>

AttemptAges(a) ==
    /\ failures[a] > 0
    /\ failures' = [failures EXCEPT ![a] = @ - 1]
    /\ UNCHANGED <<account, sessions, resets, req>>

(***************************************************************************)
(* Using a session: refreshing its access token, and ending it.            *)
(***************************************************************************)
\* Mutant: a revoked session validates.
ValidateAnyRefreshToken(r, s) ==
    /\ At(r, "idle")
    /\ session[s] # "none"
    /\ \E phase \in {"refresh", "end"} :
         req' = [req EXCEPT ![r] = [@ EXCEPT !.pc = phase, !.session = s]]
    /\ UNCHANGED <<account, sessions, resets, failures>>

ValidateRefreshToken(r, s) ==
    /\ At(r, "idle")
    /\ session[s] = "active"
    /\ \E phase \in {"refresh", "end"} :  \* RefreshTokens or Logout
         req' = [req EXCEPT ![r] = [@ EXCEPT !.pc = phase, !.session = s]]
    /\ UNCHANGED <<account, sessions, resets, failures>>

\* Mutant: the account is not looked at.
RefreshClosedAccount(r) ==
    /\ At(r, "refresh")
    /\ access' = access \cup {req[r].session}
    /\ Finish(r)
    /\ UNCHANGED <<account, session, doomed, resets, failures>>

RefreshTokens(r) ==
    /\ At(r, "refresh")
    /\ \/ ~disabled /\ ~deleted /\ access' = access \cup {req[r].session}
       \/ UNCHANGED access  \* refused, or the database failed
    /\ Finish(r)
    /\ UNCHANGED <<account, session, doomed, resets, failures>>

\* DELETE /sessions/:id, with any access token of the account.
GetSessionByID(r, s) ==
    /\ At(r, "idle")
    /\ access # {}
    /\ session[s] = "active"
    /\ req' = [req EXCEPT ![r] = [@ EXCEPT !.pc = "end", !.session = s]]
    /\ UNCHANGED <<account, sessions, resets, failures>>

\* The last step of Logout and of RevokeSession.
RevokeSession(r) ==
    /\ At(r, "end")
    /\ Revoke({req[r].session}) \/ UNCHANGED sessions
    /\ Finish(r)
    /\ UNCHANGED <<account, resets, failures>>

\* DELETE /sessions: all sessions, or all but the one the access token names.
RevokeAllSessions(current) ==
    /\ current \in access
    /\ Revoke(Sessions) \/ Revoke(Sessions \ {current})
    /\ UNCHANGED <<account, resets, failures, req>>

AdminRevokeSessions ==
    /\ Revoke(Sessions)
    /\ UNCHANGED <<account, resets, failures, req>>

AccessExpires(s) ==
    /\ access' = access \ {s}
    /\ UNCHANGED <<account, session, doomed, resets, failures, req>>

SessionExpires(s) ==
    /\ session[s] = "active"
    /\ session' = [session EXCEPT ![s] = "ended"]
    /\ doomed' = doomed \ {s}
    /\ UNCHANGED <<account, access, resets, failures, req>>

(***************************************************************************)
(* Resetting the password with a token sent by mail.                       *)
(***************************************************************************)
\* A disabled account may ask for a reset, a deleted one is not found.
RequestPasswordReset(r) ==
    /\ At(r, "idle")
    /\ ~deleted
    /\ Goto(r, "store")
    /\ UNCHANGED <<account, sessions, resets, failures>>

CreatePasswordReset(r) ==
    /\ At(r, "store")
    /\ \/ \E p \in Resets : /\ reset[p] = "none"
                            /\ reset' = [reset EXCEPT ![p] = "fresh"]
       \/ UNCHANGED reset
    /\ Finish(r)
    /\ UNCHANGED <<account, sessions, uses, shared, failures>>

\* The requests that have read the reset and not marked it used.
Serving(p) == {r \in Requests : req[r].reset = p /\ req[r].pc \in {"password", "mark"}}

\* Mutant: a used reset is found.
GetAnyPasswordReset(r, p) ==
    /\ At(r, "idle")
    /\ reset[p] # "none"
    /\ req' = [req EXCEPT ![r] = [@ EXCEPT !.pc = "password", !.reset = p]]
    /\ shared' = IF Serving(p) = {} THEN shared ELSE shared \cup {p}
    /\ UNCHANGED <<account, sessions, reset, uses, failures>>

GetPasswordResetByToken(r, p) ==
    /\ At(r, "idle")
    /\ reset[p] = "fresh"
    /\ req' = [req EXCEPT ![r] = [@ EXCEPT !.pc = "password", !.reset = p]]
    /\ shared' = IF Serving(p) = {} THEN shared ELSE shared \cup {p}
    /\ UNCHANGED <<account, sessions, reset, uses, failures>>

\* The row of a deleted user does not change; the request goes on.
UpdateUserPassword(r) ==
    /\ At(r, "password")
    /\ \/ /\ ~deleted
          /\ uses' = [uses EXCEPT ![req[r].reset] = IF @ < 2 THEN @ + 1 ELSE @]
          /\ Condemn(r, "mark")
       \/ deleted /\ Goto(r, "mark") /\ UNCHANGED <<uses, doomed>>
       \/ Finish(r) /\ UNCHANGED <<uses, doomed>>
    /\ UNCHANGED <<account, session, access, reset, shared, failures>>

\* Mutant: the sessions are not revoked.
MarkAndFinish(r) ==
    /\ At(r, "mark")
    /\ reset' = [reset EXCEPT ![req[r].reset] = "used"]
    /\ Finish(r)
    /\ UNCHANGED <<account, sessions, uses, shared, failures>>

\* A failure is logged: the reset stays as it was, and the request goes on.
MarkPasswordResetUsed(r) ==
    LET p == req[r].reset IN
    /\ At(r, "mark")
    /\ \/ reset' = [reset EXCEPT ![p] = "used"] /\ UNCHANGED shared
       \/ shared' = shared \cup {p} /\ UNCHANGED reset
    /\ Goto(r, "revoke")
    /\ UNCHANGED <<account, sessions, uses, failures>>

\* The last step of a password reset and of disabling. A failure is logged;
\* nobody is then about to end the sessions.
RevokeAllUserSessions(r) ==
    /\ At(r, "revoke")
    /\ \/ Revoke(Sessions)
       \/ doomed' = {} /\ UNCHANGED <<session, access>>
    /\ Finish(r)
    /\ UNCHANGED <<account, resets, failures>>

ResetExpires(p) ==
    /\ reset[p] = "fresh"
    /\ reset' = [reset EXCEPT ![p] = "used"]
    /\ UNCHANGED <<account, sessions, uses, shared, failures, req>>

(***************************************************************************)
(* Closing the account.                                                    *)
(***************************************************************************)
\* Neither query changes the row of a deleted user.
AdminDisableUser(r) ==
    /\ At(r, "idle")
    /\ disabled' = (disabled \/ ~deleted)
    /\ Condemn(r, "revoke")
    /\ UNCHANGED <<deleted, session, access, resets, failures>>

AdminEnableUser ==
    /\ disabled' = (disabled /\ deleted)
    /\ UNCHANGED <<deleted, sessions, resets, failures, req>>

\* The user's own request: it ends no session.
DeleteCurrentUser ==
    /\ access # {}
    /\ deleted' = TRUE
    /\ UNCHANGED <<disabled, sessions, resets, failures, req>>
--------------------------------------------------------------------------------
\* What a request that has started does next.
Step(r) ==
    \/ GetUserByEmail(r) \/ RecordLoginAttempt(r) \/ CreateSession(r)
    \/ RefreshTokens(r) \/ RevokeSession(r)
    \/ CreatePasswordReset(r)
    \/ UpdateUserPassword(r) \/ MarkPasswordResetUsed(r) \/ RevokeAllUserSessions(r)

Next ==
    \/ \E r \in Requests :
          \/ \E a \in Addresses : Login(r, a)
          \/ RequestPasswordReset(r) \/ AdminDisableUser(r)
          \/ \E s \in Sessions : ValidateRefreshToken(r, s) \/ GetSessionByID(r, s)
          \/ \E p \in Resets : GetPasswordResetByToken(r, p)
          \/ Step(r)
    \/ \E s \in Sessions : RevokeAllSessions(s) \/ AccessExpires(s) \/ SessionExpires(s)
    \/ \E p \in Resets : ResetExpires(p)
    \/ \E a \in Addresses : AttemptAges(a)
    \/ AdminRevokeSessions \/ AdminEnableUser \/ DeleteCurrentUser

Spec == Init /\ [][Next]_vars

\* Handlers run to their end, and access tokens expire as time passes.
Fairness ==
    /\ \A r \in Requests : WF_vars(Step(r))
    /\ \A s \in Sessions : WF_vars(AccessExpires(s))

FairSpec == Spec /\ Fairness
--------------------------------------------------------------------------------
\* Whenever a password has been reset or the account disabled, every session
\* that was there, or that a login with the old password made before the
\* revocation, ends with it: none is left that no request is about to end.
\* (A login that creates its session after the revocation is outside of this,
\* as is a revocation that fails.)
OldSessionsEnd == Revoking = {} => doomed = {}

\* A reset changes the password once, unless two requests have read it before
\* either marked it, or marking it failed.
ResetServesOnce == \A p \in Resets : uses[p] > 1 => p \in shared

\* The lockout: of the attempts that name one address, fail and can be recorded, no
\* more than the threshold in a window, and those that were compared at the same time
\* (auth/service.go:198, 495-516).  Over all addresses an account's failed attempts have
\* no such bound: the count is per address, and each request names its own.
Unrecorded(a) == {r \in Requests : At(r, "attempt") /\ req[r].ip = a}
LockoutBound ==
    \A a \in Addresses :
        failures[a] + Cardinality(Unrecorded(a)) < LockoutThreshold + Cardinality(Requests)

\* For a session that was revoked or has expired no access token is good in the end:
\* a refresh that had read it before may still issue one.
EndedLosesTokens ==
    \A s \in Sessions : []<>(session[s] = "ended") => <>[](s \notin access)

\* A user who is disabled for good, or deleted, has no access token in the end, not
\* even for a session that was created while the others were revoked.
ClosedLosesTokens == <>[](disabled \/ deleted) => <>[](access = {})

\* The access tokens of who has ended or is closed come to an end, and with them what
\* needs a token: each HTTP request, and opening a WebSocket, but not one that is open
\* already (auth/service.go:272-303, handlers/ws.go:43-127).
TokensEnd == EndedLosesTokens /\ ClosedLosesTokens

\* What no step may do on the way there.  An ended session stays ended, no refresh
\* of it starts any more, and each that had started gives it at most one token.
Refreshing(s) == {r \in Requests : At(r, "refresh") /\ req[r].session = s}
EndedWanes ==
    [][\A s \in Sessions : session[s] = "ended" =>
          /\ session'[s] = "ended"
          /\ Refreshing(s)' \subseteq Refreshing(s)
          /\ s \in access' \ access => Refreshing(s)' # Refreshing(s)]_vars

\* While the account is closed no login gets as far as its session any more, and
\* only one that had may still make a session; the other sessions get no token.
Creating == {r \in Requests : At(r, "create")}
ClosedWanes ==
    [][disabled \/ deleted =>
          /\ Creating' \subseteq Creating
          /\ \/ access' \subseteq access
             \/ /\ Creating' # Creating
                /\ \A s \in access' \ access : session[s] = "none"]_vars

\* The access tokens of what has ended or is closed only wane.
TokensWane == EndedWanes /\ ClosedWanes
================================================================================
