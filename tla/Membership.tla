--------------------------------- MODULE Membership ---------------------------------
(***************************************************************************)
(* Who belongs to what: accounts and their registration                    *)
(* (internal/auth/service.go), invites (internal/invites/service.go),      *)
(* spaces and roles (internal/spaces/service.go), behind the handlers of   *)
(* internal/api/handlers.                                                  *)
(*                                                                         *)
(* A request is a sequence of queries without a transaction.  An action is *)
(* the reads a request starts with, or one query after them; any query may *)
(* fail.  A request that is refused at its start changes nothing and is no *)
(* step.  Each request is served once: the number of requests is the bound *)
(* of the model.                                                           *)
(*                                                                         *)
(* An account deleted is not registered again (the new account would be    *)
(* another one).  An invite that has expired is one that is revoked.  The  *)
(* token of a mail expires at any time, by a step of its own, and an       *)
(* expired one is one that is not there.                                   *)
(***************************************************************************)
EXTENDS Naturals, FiniteSets

CONSTANTS Users, NoUser,
          Spaces, NoSpace,
          Invites, Bootstrap,   \* codes; Bootstrap is the code of the first run
          MaxUses,              \* max_uses of every invite
          Requests

ASSUME MembershipAssumption ==
    /\ NoUser \notin Users /\ NoSpace \notin Spaces /\ Bootstrap \notin Invites
    /\ MaxUses \in Nat \ {0}
    /\ IsFiniteSet(Requests) /\ Requests # {} /\ IsFiniteSet(Users)

VARIABLES
    users,       \* "absent", "active" or "deleted"
    admins,      \* is_instance_admin
    verified,    \* email_verified
    tokens,      \* email_verifications of a user that have not expired, named by the
                 \* request that made them
    spaces,      \* owner_id and whether the space is live
    role,        \* memberships
    invites,     \* the rows
    req,         \* the requests
    admitted,    \* history: users and members who came with the invite
    lost,        \* history: increments of uses that failed
    raced,       \* history: kicks and role changes that overlap a change of a row they read
    stuck,       \* history: users whose token could not be stored, or whose last one has
                 \* expired, until another is stored
    adminLeft    \* history: an administrator has deleted the account

accountVars == <<users, admins, verified, tokens, stuck, adminLeft>>
inviteVars == <<invites, admitted, lost>>
mvars == <<users, admins, verified, tokens, spaces, role, invites, req,
           admitted, lost, raced, stuck, adminLeft>>

Roles == {"member", "admin", "owner"}
Codes == Invites \cup {Bootstrap}

Space == [owner : Users \cup {NoUser}, live : BOOLEAN]
Invite == [space : Spaces \cup {NoSpace}, by : Users \cup {NoUser}, uses : Nat,
           revoked : BOOLEAN]
NoInvite == [space |-> NoSpace, by |-> NoUser, uses |-> 0, revoked |-> FALSE]

Phases == {"idle", "done",
           "count", "user", "use", "token",       \* Register
           "verify", "consume", "purge",          \* VerifyEmail, ResendVerificationEmail
           "space", "owner", "defaults",          \* CreateSpace
           "target", "actor", "kick",             \* KickMember
           "current", "change",                   \* ChangeMemberRole
           "close",                               \* DeleteSpace
           "issue", "revoke",                     \* CreateInvite, RevokeInvite
           "space?", "join", "spend"}             \* JoinSpaceViaInvite
Request == [pc : Phases, actor : Users \cup {NoUser}, target : Users \cup {NoUser},
            space : Spaces \cup {NoSpace}, code : Codes \cup {NoSpace},
            seen : Roles \cup {"none"}, new : Roles \cup {"none"},
            first : BOOLEAN, token : Requests \cup {NoUser}]
NoRequest == [pc |-> "idle", actor |-> NoUser, target |-> NoUser, space |-> NoSpace,
              code |-> NoSpace, seen |-> "none", new |-> "none",
              first |-> FALSE, token |-> NoUser]

\* Every row has values of its columns' types.
TypeOK ==
    /\ users \in [Users -> {"absent", "active", "deleted"}]
    /\ admins \subseteq Users /\ verified \subseteq Users
    /\ tokens \in [Users -> SUBSET Requests]
    /\ spaces \in [Spaces -> Space]
    /\ role \in [Spaces -> [Users -> Roles \cup {"none"}]]
    /\ invites \in [Invites -> Invite]
    /\ req \in [Requests -> Request]
    /\ admitted \in [Invites -> Nat] /\ lost \in [Invites -> Nat]
    /\ raced \subseteq Requests /\ stuck \subseteq Users /\ adminLeft \in BOOLEAN
--------------------------------------------------------------------------------
At(r, phase) == req[r].pc = phase
Goto(r, phase) == req' = [req EXCEPT ![r].pc = phase]
Start(r, fields) == req' = [req EXCEPT ![r] = fields]
rows == <<accountVars, spaces, role, inviteVars, raced>>

Active == {u \in Users : users[u] = "active"}
\* Who may hold an access token: it outlives the account by some minutes.
Known == {u \in Users : users[u] # "absent"}
--------------------------------------------------------------------------------
(* The queries, each by the name it has in internal/db. *)

CountUsers == Cardinality(Active)
GetUserByEmail(u) == users[u] = "active"
GetUserSpaceRole(s, u) == role[s][u]
IsUserSpaceMember(s, u) == role[s][u] # "none"
GetSpaceByID(s) == spaces[s].live
GetInviteByID(i) == invites[i].space # NoSpace

\* Mutant: the uses are not compared.
AnyInviteByCode(i) ==
    invites[i].space # NoSpace /\ ~invites[i].revoked

GetInviteByCode(i) ==
    /\ invites[i].space # NoSpace
    /\ ~invites[i].revoked
    /\ invites[i].uses < MaxUses

\* The address is unique among the accounts that are not deleted.
CreateUser(u, first) ==
    /\ users[u] = "absent"
    /\ users' = [users EXCEPT ![u] = "active"]
    /\ admins' = IF first THEN admins \cup {u} ELSE admins

SoftDeleteUser(u) ==
    users' = IF users[u] = "active" THEN [users EXCEPT ![u] = "deleted"] ELSE users

VerifyUserEmail(u) == verified' = verified \cup ({u} \cap Active)
GetEmailVerificationByToken(u, t) == t \in tokens[u]
CreateEmailVerification(u, t) == tokens' = [tokens EXCEPT ![u] = @ \cup {t}]
DeleteEmailVerification(u, t) == tokens' = [tokens EXCEPT ![u] = @ \ {t}]
DeleteUserEmailVerifications(u) == tokens' = [tokens EXCEPT ![u] = {}]

InsertSpace(s, u) ==
    /\ spaces[s].owner = NoUser
    /\ spaces' = [spaces EXCEPT ![s] = [owner |-> u, live |-> TRUE]]

\* Memberships, channels and invites stay.
SoftDeleteSpace(s) == spaces' = [spaces EXCEPT ![s].live = FALSE]

\* The primary key is the user and the space.
CreateMembership(s, u, ro) ==
    /\ role[s][u] = "none"
    /\ role' = [role EXCEPT ![s][u] = ro]

DeleteMembership(s, u) == role' = [role EXCEPT ![s][u] = "none"]

\* Of the row there is; none, if the user has left.
UpdateMembershipRole(s, u, ro) ==
    role' = IF role[s][u] = "none" THEN role ELSE [role EXCEPT ![s][u] = ro]

InsertInvite(i, s, u) ==
    /\ ~GetInviteByID(i)
    /\ invites' = [invites EXCEPT ![i] = [NoInvite EXCEPT !.space = s, !.by = u]]

IncrementInviteUses(i) == invites' = [invites EXCEPT ![i].uses = @ + 1]
MarkRevoked(i) == invites' = [invites EXCEPT ![i].revoked = TRUE]
--------------------------------------------------------------------------------
HasMinRole(ro, least) ==
    CASE least = "member" -> ro # "none"
      [] least = "admin"  -> ro \in {"admin", "owner"}
      [] least = "owner"  -> ro = "owner"

\* Mutant: the check is forgotten.
AnyPermission(s, u, least) == TRUE

\* isInstanceAdmin comes from the access token; it is never taken away.
CheckSpacePermission(s, u, least) ==
    u \in admins \/ HasMinRole(GetUserSpaceRole(s, u), least)
--------------------------------------------------------------------------------
(* Registration and the verification of the mail address. *)

\* The bootstrap code is good for ever; any other is an invite's.
CheckCode(r, u, c) ==
    /\ c # Bootstrap => GetInviteByCode(c)
    /\ Start(r, [NoRequest EXCEPT !.pc = "count", !.actor = u, !.code = c])
    /\ UNCHANGED rows

Register(r) ==
    /\ At(r, "idle")
    /\ \E u \in Users, c \in Codes : users[u] # "deleted" /\ CheckCode(r, u, c)

\* Mutant: nobody is the first.
CountAsSecond(r) == At(r, "count") /\ Goto(r, "user") /\ UNCHANGED rows

\* The first user becomes the instance's administrator.
CountIsZero(r) ==
    /\ At(r, "count")
    /\ req' = [req EXCEPT ![r].pc = "user", ![r].first = (CountUsers = 0)]
    /\ UNCHANGED rows

RegisterUser(r) ==
    LET c == req[r].code
    IN /\ At(r, "user")
       /\ CreateUser(req[r].actor, req[r].first)
       /\ IF c = Bootstrap
            THEN Goto(r, "token") /\ UNCHANGED admitted
            ELSE Goto(r, "use") /\ admitted' = [admitted EXCEPT ![c] = @ + 1]
       /\ UNCHANGED <<verified, tokens, stuck, adminLeft, spaces, role, invites, lost, raced>>

\* After the user, or the member; a failure is only logged.
CountUse(r) ==
    /\ req[r].pc \in {"use", "spend"}
    /\ LET i == req[r].code IN
        \/ IncrementInviteUses(i) /\ UNCHANGED lost
        \/ lost' = [lost EXCEPT ![i] = @ + 1] /\ UNCHANGED invites
    /\ Goto(r, IF At(r, "use") THEN "token" ELSE "done")
    /\ UNCHANGED <<accountVars, spaces, role, admitted, raced>>

\* The last write of a registration, and of sending the mail again.
StoreToken(r) ==
    /\ At(r, "token")
    /\ LET u == req[r].actor IN
        \/ CreateEmailVerification(u, r) /\ stuck' = stuck \ {u}
        \/ stuck' = stuck \cup {u} /\ UNCHANGED tokens
    /\ Goto(r, "done")
    /\ UNCHANGED <<users, admins, verified, adminLeft, spaces, role, inviteVars, raced>>

\* Time passes: no query finds the token any more.
TokenExpires(u, t) ==
    /\ t \in tokens[u]
    /\ DeleteEmailVerification(u, t)
    /\ stuck' = IF tokens[u] = {t} THEN stuck \cup {u} ELSE stuck
    /\ UNCHANGED <<users, admins, verified, adminLeft, spaces, role, inviteVars, raced, req>>

FindToken(r, u, t) ==
    /\ GetEmailVerificationByToken(u, t)
    /\ Start(r, [NoRequest EXCEPT !.pc = "verify", !.actor = u, !.token = t])
    /\ UNCHANGED rows

VerifyEmail(r) == At(r, "idle") /\ \E u \in Users, t \in Requests : FindToken(r, u, t)

\* Mutant: the token goes, and then the user may stay as it is.
MarkVerifiedLast(r) ==
    /\ At(r, "verify")
    /\ DeleteEmailVerification(req[r].actor, req[r].token)
    /\ Goto(r, "consume")
    /\ UNCHANGED <<users, admins, verified, stuck, adminLeft, spaces, role, inviteVars, raced>>

MarkVerified(r) ==
    /\ At(r, "verify")
    /\ VerifyUserEmail(req[r].actor)
    /\ Goto(r, "consume")
    /\ UNCHANGED <<users, admins, tokens, stuck, adminLeft, spaces, role, inviteVars, raced>>

ConsumeToken(r) ==
    /\ At(r, "consume")
    /\ DeleteEmailVerification(req[r].actor, req[r].token)
    /\ Goto(r, "done")
    /\ UNCHANGED <<users, admins, verified, stuck, adminLeft, spaces, role, inviteVars, raced>>

FindUnverified(r, u) ==
    /\ GetUserByEmail(u) /\ u \notin verified
    /\ Start(r, [NoRequest EXCEPT !.pc = "purge", !.actor = u])
    /\ UNCHANGED rows

ResendVerification(r) == At(r, "idle") /\ \E u \in Users : FindUnverified(r, u)

\* A failure is only logged, and the old tokens stay.
PurgeTokens(r) ==
    /\ At(r, "purge")
    /\ DeleteUserEmailVerifications(req[r].actor) \/ UNCHANGED tokens
    /\ Goto(r, "token")
    /\ UNCHANGED <<users, admins, verified, stuck, adminLeft, spaces, role, inviteVars, raced>>

\* Memberships, spaces and invites of the account stay.
DeleteCurrentUser(r) ==
    /\ At(r, "idle")
    /\ \E u \in Active :
        /\ SoftDeleteUser(u)
        /\ adminLeft' = (adminLeft \/ u \in admins)
        /\ Start(r, [NoRequest EXCEPT !.pc = "done", !.actor = u])
    /\ UNCHANGED <<admins, verified, tokens, stuck, spaces, role, inviteVars, raced>>
--------------------------------------------------------------------------------
(* Spaces: creation, deletion, members and their roles. *)

CreateSpace(r) ==
    /\ At(r, "idle")
    /\ \E u \in Known \cap admins :
        Start(r, [NoRequest EXCEPT !.pc = "space", !.actor = u])
    /\ UNCHANGED rows

StoreSpace(r) ==
    /\ At(r, "space")
    /\ \E s \in Spaces :
        /\ InsertSpace(s, req[r].actor)
        /\ req' = [req EXCEPT ![r].pc = "owner", ![r].space = s]
    /\ UNCHANGED <<accountVars, role, inviteVars, raced>>

StoreOwner(r) ==
    /\ At(r, "owner")
    /\ CreateMembership(req[r].space, req[r].actor, "owner")
    /\ Goto(r, "defaults")
    /\ UNCHANGED <<accountVars, spaces, inviteVars, raced>>

\* The default channels are module Channels' concern.
EndCreateSpace(r) == At(r, "defaults") /\ Goto(r, "done") /\ UNCHANGED rows

\* A second deletion finds no row and changes nothing.
BeginDelete(r, s, u) ==
    /\ CheckSpacePermission(s, u, "owner")
    /\ Start(r, [NoRequest EXCEPT !.pc = "close", !.actor = u, !.space = s])
    /\ UNCHANGED rows

DeleteSpace(r) ==
    /\ At(r, "idle")
    /\ \E s \in Spaces, u \in Known : GetSpaceByID(s) /\ BeginDelete(r, s, u)

CloseSpace(r) ==
    /\ At(r, "close")
    /\ SoftDeleteSpace(req[r].space)
    /\ Goto(r, "done")
    /\ UNCHANGED <<accountVars, role, inviteVars, raced>>

\* The admin panel's deletion asks for no role in the space.
AdminDeleteSpace(r) ==
    /\ At(r, "idle")
    /\ \E s \in Spaces : GetSpaceByID(s) /\ SoftDeleteSpace(s)
    /\ Goto(r, "done")
    /\ UNCHANGED <<accountVars, role, inviteVars, raced>>

BeginKick(r, s, u, t) ==
    /\ CheckSpacePermission(s, u, "admin")
    /\ Start(r, [NoRequest EXCEPT !.pc = "target", !.actor = u, !.target = t, !.space = s])
    /\ UNCHANGED rows

KickMember(r) ==
    /\ At(r, "idle")
    /\ \E s \in Spaces, u \in Known, t \in Users : BeginKick(r, s, u, t)

\* Mutant: an owner may be kicked like an admin.
ReadAnyTarget(r) ==
    LET ro == GetUserSpaceRole(req[r].space, req[r].target)
    IN /\ At(r, "target")
       /\ ro # "none"
       /\ req' = [req EXCEPT ![r].seen = ro,
                             ![r].pc = IF req[r].actor \in admins THEN "kick" ELSE "actor"]
       /\ UNCHANGED rows

\* Nobody kicks the owner.
ReadTargetRole(r) ==
    LET ro == GetUserSpaceRole(req[r].space, req[r].target)
    IN /\ At(r, "target")
       /\ ro \notin {"none", "owner"}
       /\ req' = [req EXCEPT ![r].seen = ro,
                             ![r].pc = IF req[r].actor \in admins THEN "kick" ELSE "actor"]
       /\ UNCHANGED rows

\* Mutant: admins kick each other.
ReadAnyActor(r) == At(r, "actor") /\ Goto(r, "kick") /\ UNCHANGED rows

\* Admins do not kick admins; the actor's role is read a second time.
ReadActorRole(r) ==
    LET ro == GetUserSpaceRole(req[r].space, req[r].actor)
    IN /\ At(r, "actor")
       /\ ro # "none"
       /\ ~(ro = "admin" /\ req[r].seen = "admin")
       /\ Goto(r, "kick")
       /\ UNCHANGED rows

\* Kicks on their way that have read the row of the member, or will again, and changes
\* of the member's role that have.
Overlapping(s, t) ==
    {k \in Requests : /\ req[k].space = s
                      /\ \/ req[k].pc \in {"target", "actor", "kick"} /\ t \in {req[k].actor, req[k].target}
                         \/ At(k, "change") /\ req[k].target = t}

KickOut(r) ==
    /\ At(r, "kick")
    /\ DeleteMembership(req[r].space, req[r].target)
    /\ raced' = raced \cup (Overlapping(req[r].space, req[r].target) \ {r})
    /\ Goto(r, "done")
    /\ UNCHANGED <<accountVars, spaces, inviteVars>>

\* Mutant: an admin of the space is enough.
BeginChangeAsAdmin(r, s, u, t, new) ==
    /\ CheckSpacePermission(s, u, "admin")
    /\ Start(r, [NoRequest EXCEPT !.pc = "current", !.actor = u, !.target = t, !.space = s,
                                  !.new = new])
    /\ UNCHANGED rows

BeginChange(r, s, u, t, new) ==
    /\ CheckSpacePermission(s, u, "owner")
    /\ Start(r, [NoRequest EXCEPT !.pc = "current", !.actor = u, !.target = t, !.space = s,
                                  !.new = new])
    /\ UNCHANGED rows

\* Mutant: the handler does not validate the role.
ChangeMemberRoleUnvalidated(r) ==
    /\ At(r, "idle")
    /\ \E s \in Spaces, u \in Known, t \in Users, new \in {"member", "admin", "guest"} :
        BeginChange(r, s, u, t, new)

ChangeMemberRole(r) ==
    /\ At(r, "idle")
    /\ \E s \in Spaces, u \in Known, t \in Users, new \in {"member", "admin"} :
        BeginChange(r, s, u, t, new)

\* The owner's role is not changed.
ReadCurrentRole(r) ==
    /\ At(r, "current")
    /\ GetUserSpaceRole(req[r].space, req[r].target) \notin {"none", "owner"}
    /\ Goto(r, "change")
    /\ UNCHANGED rows

ChangeRole(r) ==
    LET s == req[r].space
        t == req[r].target
    IN /\ At(r, "change")
       /\ UpdateMembershipRole(s, t, req[r].new)
       /\ raced' = raced \cup (Overlapping(s, t) \ {r})
       /\ Goto(r, "done")
       /\ UNCHANGED <<accountVars, spaces, inviteVars>>
--------------------------------------------------------------------------------
(* Invites. *)

BeginInvite(r, s, u) ==
    /\ CheckSpacePermission(s, u, "admin")
    /\ Start(r, [NoRequest EXCEPT !.pc = "issue", !.actor = u, !.space = s])
    /\ UNCHANGED rows

CreateInvite(r) ==
    /\ At(r, "idle")
    /\ \E s \in Spaces, u \in Known : spaces[s].owner # NoUser /\ BeginInvite(r, s, u)

IssueInvite(r) ==
    /\ At(r, "issue")
    /\ \E i \in Invites : InsertInvite(i, req[r].space, req[r].actor)
    /\ Goto(r, "done")
    /\ UNCHANGED <<accountVars, spaces, role, admitted, lost, raced>>

BeginRevocation(r, i, u) ==
    /\ GetInviteByID(i)
    /\ CheckSpacePermission(invites[i].space, u, "admin")
    /\ Start(r, [NoRequest EXCEPT !.pc = "revoke", !.actor = u, !.code = i])
    /\ UNCHANGED rows

RevokeInvite(r) == At(r, "idle") /\ \E i \in Invites, u \in Known : BeginRevocation(r, i, u)

StoreRevocation(r) ==
    /\ At(r, "revoke")
    /\ MarkRevoked(req[r].code)
    /\ Goto(r, "done")
    /\ UNCHANGED <<accountVars, spaces, role, admitted, lost, raced>>

AdminRevokeInvite(r) ==
    /\ At(r, "idle")
    /\ \E i \in Invites : GetInviteByID(i) /\ MarkRevoked(i)
    /\ Goto(r, "done")
    /\ UNCHANGED <<accountVars, spaces, role, admitted, lost, raced>>

FindInvite(r, i, u) ==
    /\ GetInviteByCode(i)
    /\ Start(r, [NoRequest EXCEPT !.pc = "space?", !.actor = u, !.code = i,
                                  !.space = invites[i].space])
    /\ UNCHANGED rows

JoinViaInvite(r) == At(r, "idle") /\ \E i \in Invites, u \in Known : FindInvite(r, i, u)

\* Not a member yet, and the space is still there.
CheckJoin(r) ==
    /\ At(r, "space?")
    /\ ~IsUserSpaceMember(req[r].space, req[r].actor)
    /\ GetSpaceByID(req[r].space)
    /\ Goto(r, "join")
    /\ UNCHANGED rows

JoinSpace(r) ==
    /\ At(r, "join")
    /\ CreateMembership(req[r].space, req[r].actor, "member")
    /\ admitted' = [admitted EXCEPT ![req[r].code] = @ + 1]
    /\ Goto(r, "spend")
    /\ UNCHANGED <<accountVars, spaces, invites, lost, raced>>

\* A query fails, or finds that the request is to be refused after all.
Refused(r) ==
    /\ req[r].pc \notin {"idle", "done", "use", "spend", "token", "purge"}
    /\ Goto(r, "done")
    /\ UNCHANGED rows
--------------------------------------------------------------------------------
(* A server without users, or one with a space whose creation has ended or failed, *)
(* and with an invite that is new or used up, by those who are members.            *)
Fresh ==
    /\ users = [u \in Users |-> "absent"] /\ admins = {} /\ verified = {}
    /\ spaces = [s \in Spaces |-> [owner |-> NoUser, live |-> FALSE]]
    /\ role = [s \in Spaces |-> [u \in Users |-> "none"]]
    /\ invites = [i \in Invites |-> NoInvite]

Settled ==
    \E founder \in Users, s0 \in Spaces, issued \in SUBSET Invites, used \in {0, MaxUses} :
    \E others \in SUBSET (Users \ {founder}) :
        /\ users = [u \in Users |-> IF u \in others \cup {founder} THEN "active" ELSE "absent"]
        /\ admins = {founder} /\ verified = others \cup {founder}
        /\ spaces = [s \in Spaces |-> IF s = s0 THEN [owner |-> founder, live |-> TRUE]
                                                ELSE [owner |-> NoUser, live |-> FALSE]]
        /\ \/ used = 0 /\ role = [s \in Spaces |-> [u \in Users |-> "none"]]
           \/ \E ro \in [others -> {"none", "member", "admin"}] :
                /\ used <= Cardinality({u \in others : ro[u] = "member"})
                /\ role = [s \in Spaces |-> [u \in Users |->
                             IF s # s0 THEN "none"
                             ELSE IF u = founder THEN "owner"
                             ELSE IF u \in others THEN ro[u] ELSE "none"]]
        /\ invites = [i \in Invites |-> IF i \in issued
                                          THEN [NoInvite EXCEPT !.space = s0, !.by = founder, !.uses = used]
                                          ELSE NoInvite]

Init ==
    /\ Fresh \/ Settled
    /\ tokens = [u \in Users |-> {}]
    /\ req = [r \in Requests |-> NoRequest]
    /\ admitted = [i \in Invites |-> invites[i].uses]
    /\ lost = [i \in Invites |-> 0]
    /\ raced = {} /\ stuck = {} /\ adminLeft = FALSE

Accounting(r) ==
    \/ Register(r) \/ CountIsZero(r) \/ RegisterUser(r) \/ CountUse(r) \/ StoreToken(r)
    \/ VerifyEmail(r) \/ MarkVerified(r) \/ ConsumeToken(r)
    \/ ResendVerification(r) \/ PurgeTokens(r) \/ DeleteCurrentUser(r)
Governing(r) ==
    \/ CreateSpace(r) \/ StoreSpace(r) \/ StoreOwner(r) \/ EndCreateSpace(r)
    \/ DeleteSpace(r) \/ CloseSpace(r) \/ AdminDeleteSpace(r)
    \/ KickMember(r) \/ ReadTargetRole(r) \/ ReadActorRole(r) \/ KickOut(r)
    \/ ChangeMemberRole(r) \/ ReadCurrentRole(r) \/ ChangeRole(r)
Inviting(r) ==
    \/ CreateInvite(r) \/ IssueInvite(r) \/ RevokeInvite(r) \/ StoreRevocation(r) \/ AdminRevokeInvite(r)
    \/ JoinViaInvite(r) \/ CheckJoin(r) \/ JoinSpace(r)
Step(r) == Accounting(r) \/ Governing(r) \/ Inviting(r) \/ Refused(r)

Next ==
    \/ \E r \in Requests : Step(r)
    \/ \E u \in Users, t \in Requests : TokenExpires(u, t)
Spec == Init /\ [][Next]_mvars
--------------------------------------------------------------------------------
Owners(s) == {u \in Users : role[s][u] = "owner"}
\* Requests that have read an invite and not used it, and those that have not counted it.
Holding(i) == {r \in Requests : req[r].pc \in {"count", "user", "space?", "join"} /\ req[r].code = i}
Counting(i) == {r \in Requests : req[r].pc \in {"use", "spend"} /\ req[r].code = i}

\* A space gets one owner, the account that creates it, and keeps it, whoever is kicked,
\* promoted or joins meanwhile; if the creation fails half-way it never gets one.  It is
\* lost only to a kick or role change that read another row of the owner: the creator had
\* joined by an invite, and was kicked, before the creation made its owner
\* (spaces/service.go:61, 229, 275).
OneOwner ==
    [][\A s \in Spaces :
          \/ Owners(s)' = Owners(s)
          \/ Owners(s) = {} /\ Owners(s)' = {spaces[s].owner}
          \/ \E r \in raced : /\ req[r].pc \in {"kick", "change"} /\ req[r].space = s
                              /\ Owners(s)' = Owners(s) \ {req[r].target}]_mvars

\* Nobody but an instance administrator brings people into a space whose creation
\* has failed after its first row (spaces/service.go:61).
HalfMadeIsClosed ==
    \A s \in Spaces :
        Owners(s) = {} =>
            \A u \in Users : IsUserSpaceMember(s, u) =>
                \E i \in Invites : invites[i].space = s /\ invites[i].by \in admins

\* What an invite has admitted and may still admit: those who have read it before its
\* uses were counted are admitted whatever the others do meanwhile. They are at most the
\* other requests, and one more for each use that was not written down: nobody is
\* admitted who has read the invite when it was used up (invites/service.go:119-149).
AdmissionBound ==
    \A i \in Invites :
        /\ admitted[i] + Cardinality(Holding(i))
           <= MaxUses + lost[i] + Cardinality(Requests) - 1
        /\ admitted[i] = invites[i].uses + lost[i] + Cardinality(Counting(i))

\* A server with users has an administrator unless an administrator has gone, however
\* the first registrations overlap (auth/service.go:119-130).
SomeAdministrator ==
    Active = {} \/ adminLeft \/ admins \cap Active # {}

\* A user who is not verified can be, by a token that has not expired or one that is being
\* made: no verification, purge or overlap of the two takes the last one away. Without one
\* is only who has had a mail whose token could not be stored, or has let it expire, until
\* another is stored (auth/service.go:326-337, 471-482).
CanVerify ==
    \A u \in Active \ (verified \cup stuck) :
        \/ tokens[u] # {}
        \/ \E r \in Requests : req[r].pc \in {"use", "token"} /\ req[r].actor = u

\* Who removes a member: an instance administrator or the owner, or an admin if it is a
\* plain member, each by the role it has when the row goes; nobody removes the owner. Only a
\* kick during which one of the two rows has changed may do otherwise (spaces/service.go:210-254).
KicksByRight ==
    [][\A s \in Spaces, u \in Users :
          role[s][u] # "none" /\ role'[s][u] = "none" =>
            \E r \in Requests :
                /\ At(r, "kick") /\ req'[r].pc = "done"
                /\ req[r].target = u /\ req[r].space = s
                /\ \/ r \in raced
                   \/ role[s][u] # "owner" /\ req[r].actor \in admins
                   \/ role[s][u] # "owner" /\ GetUserSpaceRole(s, req[r].actor) = "owner"
                   \/ role[s][u] = "member" /\ GetUserSpaceRole(s, req[r].actor) = "admin"]_mvars

\* Who changes the role of somebody who is in a space: an instance administrator or the
\* account that owns it, to the role asked for. No join or late creation touches the row of
\* who is there already (spaces/service.go:256-290, invites/service.go:138).
ChangesByOwner ==
    [][\A s \in Spaces, u \in Users :
          role[s][u] # "none" /\ role'[s][u] \notin {"none", role[s][u]} =>
            \E r \in Requests :
                /\ At(r, "change") /\ req'[r].pc = "done"
                /\ req[r].target = u /\ req[r].space = s /\ req[r].new = role'[s][u]
                /\ req[r].actor \in admins \cup {spaces[s].owner}]_mvars

\* What holds of every state: the types, whom a half-made space admits, and what an
\* invite admits.
Inv == TypeOK /\ HalfMadeIsClosed /\ AdmissionBound

\* Memberships change by right only: a row is removed, or its role changed, by the step of a
\* request whose actor may do it, whatever other requests do between the check and the write
\* (spaces/service.go:210-290, invites/service.go:114-146).
RolesByRight == KicksByRight /\ ChangesByOwner
================================================================================
